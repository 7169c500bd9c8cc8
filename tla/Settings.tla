------------------------------ MODULE Settings ------------------------------
(***************************************************************************)
(* The settings in the EEPROM: MC.save writes the structures one by one,   *)
(* the CRC over them and the size, over the only copy, and reads it back;  *)
(* MC.load takes them at the start, or none.                               *)
(*                                                                         *)
(* MC.save runs with the scheduler suspended, so the RAM stays as it is;   *)
(* but SemaphoreTake then grants the bus without a look, in the middle of  *)
(* another task's transfer too: a write may be spoiled without an error.   *)
(* The CRC is ideal: it is the contents that it was computed from.         *)
(***************************************************************************)
EXTENDS Integers

CONSTANTS Structs,    \* number of structures
          Values,     \* contents of a structure
          Default     \* contents after resetSetting

ASSUME SettingsAssumption == Structs \in Nat \ {0} /\ Default \in Values

Garbage == "garbage"
SizeWord == "size"
NoSettings == <<>>      \* no settings at all, or a CRC that fits none
ASSUME GarbageAssumption == Garbage \notin Values

Settings == [1 .. Structs -> Values]
Defaults == [i \in 1 .. Structs |-> Default]

VARIABLES
  settings,     \* Option, DateTime, Network, ... in RAM
  stored,       \* what is written: the structures, their CRC and the size
  item,         \* what MC.save is writing, or reading back; NoItem if it does not run
  started,      \* result of the last start until something happens
  attempted,    \* history: settings that MC.save began to write
  told          \* history: what the last MC.save wrote, if it reported success

settingsVars == <<settings, stored, item, started, attempted, told>>

NoItem == 0
CrcItem == Structs + 1
SizeItem == Structs + 2
VerifyItem == Structs + 3

SettingsInit ==
  /\ settings = Defaults
  /\ stored = [structs |-> [i \in 1 .. Structs |-> Garbage], crc |-> NoSettings,
               size |-> Garbage]
  /\ item = NoItem /\ started = "no" /\ attempted = {} /\ told = NoSettings
-----------------------------------------------------------------------------
(* Settings are changed on the page, one by one, or loaded from a file *)

SetOne(i, v) ==
  /\ item = NoItem
  /\ settings' = [settings EXCEPT ![i] = v]
  /\ started' = "no"
  /\ UNCHANGED <<stored, item, attempted, told>>

\* load from RAM; a file whose CRC is wrong changes nothing.
LoadsFile(file) ==
  /\ item = NoItem
  /\ settings' = file
  /\ started' = "no"
  /\ UNCHANGED <<stored, item, attempted, told>>
-----------------------------------------------------------------------------
(* MC.save *)

SaveBegins ==
  /\ item = NoItem
  /\ item' = 1 /\ started' = "no"
  /\ attempted' = attempted \union {settings} /\ told' = NoSettings
  /\ UNCHANGED <<settings, stored>>

Writing == item \in 1 .. SizeItem

\* The EEPROM when the item that is being written is written, and when it is spoiled.
ItemWritten ==
  CASE item \in 1 .. Structs -> [stored EXCEPT !.structs[item] = settings[item]]
    [] item = CrcItem -> [stored EXCEPT !.crc = settings]
    [] item = SizeItem -> [stored EXCEPT !.size = SizeWord]

ItemSpoiled ==
  CASE item \in 1 .. Structs -> [stored EXCEPT !.structs[item] = Garbage]
    [] item = CrcItem -> [stored EXCEPT !.crc = NoSettings]
    [] item = SizeItem -> [stored EXCEPT !.size = Garbage]

WritesItem ==
  /\ Writing
  /\ stored' \in {ItemWritten, ItemSpoiled}
  /\ item' = item + 1
  /\ UNCHANGED <<settings, started, attempted, told>>

\* An error of the bus ends the save, which reports it.
WriteFails ==
  /\ Writing
  /\ stored' \in {stored, ItemWritten, ItemSpoiled}
  /\ item' = NoItem
  /\ UNCHANGED <<settings, started, attempted, told>>

CrcIsRight(e) == e.crc = e.structs

\* check_crc16_eeprom; the size that it uses is not read back.
Verifies ==
  /\ item = VerifyItem
  /\ told' = IF CrcIsRight(stored) THEN settings ELSE NoSettings
  /\ item' = NoItem
  /\ UNCHANGED <<settings, stored, started, attempted>>

VerifyFails ==
  /\ item = VerifyItem
  /\ item' = NoItem
  /\ UNCHANGED <<settings, stored, started, attempted, told>>
-----------------------------------------------------------------------------
(* Power is cut, perhaps in a write, and comes back: load *)

BrokenLoadAccepts(e) == e.size = SizeWord
LoadAccepts(e) == e.size = SizeWord /\ CrcIsRight(e)

LoadSettings(e) ==
  \/ /\ LoadAccepts(e)
     /\ settings' = e.structs /\ started' = "loaded"
  \/ /\ ~LoadAccepts(e)
     /\ settings' = Defaults /\ started' = "error"
  \/ settings' = Defaults /\ started' = "unread"     \* an error of the bus

Restarts ==
  /\ stored' \in {stored} \union (IF Writing THEN {ItemWritten, ItemSpoiled} ELSE {})
  /\ LoadSettings(stored')
  /\ item' = NoItem
  /\ UNCHANGED <<attempted, told>>

SettingsNext ==
  \/ \E i \in 1 .. Structs, v \in Values : SetOne(i, v)
  \/ \E file \in Settings : LoadsFile(file)
  \/ SaveBegins \/ WritesItem \/ WriteFails \/ Verifies \/ VerifyFails \/ Restarts

SettingsSpec == SettingsInit /\ [][SettingsNext]_settingsVars
-----------------------------------------------------------------------------
\* What a start loads was saved as a whole, and it is what the last save wrote
\* when that reported success; unless the bus fails at the start, or the size was
\* spoiled, which the save does not read back.
SettingsWhole ==
  /\ started = "loaded" => settings \in attempted
  /\ started \in {"loaded", "error"} /\ told # NoSettings /\ stored.size = SizeWord
       => settings = told
=============================================================================
