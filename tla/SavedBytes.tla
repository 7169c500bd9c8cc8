----------------------------- MODULE SavedBytes -----------------------------
(***************************************************************************)
(* save_WorkStats and load_WorkStats: the counters as bytes in memory      *)
(* (ram), a copy of what was saved (copy), and the EEPROM (chip).  A save  *)
(* writes only runs of bytes that differ from the copy, straight from the  *)
(* memory that other tasks count in, page by page with sleeps; then it     *)
(* takes a new copy.  vReadSensor, vService and the web server may save at *)
(* the same time, and the power may fail at any point.                     *)
(* A word that is stored between two reads of a save is several changes of *)
(* one byte there, so a change touches one byte and a scan is one step.    *)
(***************************************************************************)
EXTENDS Integers

CONSTANTS
  Width,        \* sizeof(WorkStats); byte 0 is the header
  Gap,          \* shorter stretches of equal bytes are written along
  ChipPage,     \* the EEPROM's page
  ByteMod,      \* 256
  Saver,        \* tasks that save
  Resetter,     \* those of them that also reset all counters
  Erased        \* does the first start find an erased chip?

ASSUME WidthAndPage == /\ Width \in Nat \ {0} /\ ChipPage \in Nat \ {0}
                       /\ Gap \in Nat /\ ByteMod \in Nat /\ ByteMod > 2
ASSUME SaversKnown == Resetter \subseteq Saver /\ "setup" \notin Saver

Byte == 0 .. Width - 1
HEADER == 1             \* I2C_COUNT_EEPROM_HEADER, neither 0 nor erased
ERASED == ByteMod - 1
Zeros == [b \in Byte |-> 0]
Headed(r) == [r EXCEPT ![0] = HEADER]

VARIABLES
  ram,          \* MC.WorkStats
  copy,         \* MC.WorkStats_saved
  chip,         \* the EEPROM
  saving,       \* per task: place in save_WorkStats, ptr and ptre
  bus,          \* who has xI2CSemaphore
  doubt         \* history: what the program does not see

bytesVars == <<ram, copy, chip, saving, bus, doubt>>

\* "setup" saves before the other tasks are started.
AnySaver == Saver \union {"setup"}
From0(place) == [at |-> place, ptr |-> 0, ptre |-> 0]

BytesInit ==
  /\ ram = Zeros /\ copy = Zeros
  /\ chip = IF Erased THEN [b \in Byte |-> ERASED] ELSE Headed(Zeros)
  /\ saving = [t \in AnySaver |-> From0("off")]
  /\ bus = "none" /\ doubt = {}

Up == saving["setup"].at = "idle"
Reaches(t, place, p, e) == saving' = [saving EXCEPT ![t] = [at |-> place, ptr |-> p, ptre |-> e]]
Ends(t) == Reaches(t, "idle", 0, 0)

\* Bytes of the running saves that are behind them.
Behind(b) == \E t \in AnySaver : saving[t].at # "off" /\ b < saving[t].ptr
Late(changed) == doubt \union {"late" : b \in {c \in changed : Behind(c)}}

\* A counter was counted, by anybody.
Count(b) ==
  /\ Up /\ b # 0
  /\ ram' = [ram EXCEPT ![b] = (@ + 1) % ByteMod]
  /\ doubt' = Late({b}) \union {"back" : x \in {y \in {b} : ram'[b] = copy[b] /\ chip[b] # copy[b]}}
  /\ UNCHANGED <<copy, chip, saving, bus>>

Save(t) ==
  /\ Up /\ saving[t].at = "idle"
  /\ ram' = Headed(ram)
  /\ Reaches(t, "scan", 0, 0)
  /\ UNCHANGED <<copy, chip, bus, doubt>>

\* memset, with the header for a moment zero, and the save.
ResetCount(t) ==
  /\ Up /\ saving[t].at = "idle"
  /\ ram' = Headed(Zeros)
  /\ Reaches(t, "scan", 0, 0)
  /\ doubt' = Late({b \in Byte : ram'[b] # ram[b]})
              \union {"back" : x \in {y \in Byte : ram[y] # copy[y] /\ ram'[y] = copy[y] /\ chip[y] # copy[y]}}
  /\ UNCHANGED <<copy, chip, bus>>
-----------------------------------------------------------------------------
(* save_WorkStats *)

Differs(b) == ram[b] # copy[b]

BrokenRunBegins(p, from) ==
  /\ from \in p + 1 .. Width /\ (from < Width => Differs(from))
  /\ \A b \in p + 1 .. from - 1 : ~Differs(b)

\* The next run of changed bytes from p on; none is left when from is Width.
RunBegins(p, from) ==
  /\ from \in p .. Width /\ (from < Width => Differs(from))
  /\ \A b \in p .. from - 1 : ~Differs(b)

\* More than Gap equal bytes, or nothing but equal bytes, end a run.
Stops(b) == \A c \in b .. b + Gap : c < Width => ~Differs(c)
RunEnds(from, end) ==
  /\ end \in from + 1 .. Width /\ (end < Width => Stops(end))
  /\ \A b \in from + 1 .. end - 1 : ~Stops(b)

Scan(t) ==
  /\ saving[t].at = "scan"
  /\ \E from \in Byte \union {Width} :
       /\ RunBegins(saving[t].ptr, from)
       /\ \/ /\ from = Width
             /\ Reaches(t, "copy", Width, Width)
          \/ \E end \in Byte \union {Width} :
               /\ RunEnds(from, end)
               /\ Reaches(t, "bus", from, end)
  /\ UNCHANGED <<ram, copy, chip, bus, doubt>>

TakeBus(t) ==
  /\ saving[t].at = "bus" /\ bus = "none"
  /\ bus' = t /\ Reaches(t, "page", saving[t].ptr, saving[t].ptre)
  /\ UNCHANGED <<ram, copy, chip, doubt>>

\* One page of extEEPROM::write, from the live counters.
StorePage(t) ==
  LET s == saving[t]
      room == ChipPage - (s.ptr % ChipPage)
      done == s.ptre - s.ptr <= room
      n == IF done THEN s.ptre - s.ptr ELSE room
  IN /\ s.at = "page"
     /\ chip' = [b \in Byte |-> IF b \in s.ptr .. s.ptr + n - 1 THEN ram[b] ELSE chip[b]]
     /\ Reaches(t, IF done THEN "scan" ELSE "page", s.ptr + n, s.ptre)
     /\ bus' = IF done THEN "none" ELSE t
     /\ UNCHANGED <<ram, copy, doubt>>

BrokenCopyAfterError == ram
CopyAfterError == copy

\* The semaphore was not free in time, or the bus reports an error: the copy
\* stays, and the bytes already written are written again next time.
SaveFails(t) ==
  /\ \/ saving[t].at = "bus" /\ bus # "none" /\ UNCHANGED bus
     \/ saving[t].at = "page" /\ bus' = "none"
  /\ copy' = CopyAfterError
  /\ Ends(t)
  /\ UNCHANGED <<ram, chip, doubt>>

TakesCopy(t) ==
  /\ saving[t].at = "copy"
  /\ copy' = ram /\ Ends(t)
  /\ UNCHANGED <<ram, chip, bus, doubt>>
-----------------------------------------------------------------------------
(* load_WorkStats *)

Loaded == IF chip[0] = HEADER THEN chip ELSE Zeros

\* The first start and every other; the power may have failed anywhere.  Without
\* a header setup saves the zeros of a new program and their header; a read
\* that fails leaves them as they are.
Boot ==
  /\ bus' = "none"
  /\ \/ /\ ram' = Headed(Loaded) /\ copy' = Loaded
        /\ saving' = [t \in AnySaver |-> IF t = "setup" /\ chip[0] # HEADER
                                         THEN From0("scan") ELSE From0("idle")]
        /\ doubt' = (doubt \intersect {"erased", "unread"})
                    \union {"erased" : x \in {y \in {0} : chip[0] = ERASED}}
     \/ /\ ram' = Zeros /\ copy' = Zeros
        /\ saving' = [t \in AnySaver |-> From0("idle")]
        /\ doubt' = {"unread"}
  /\ UNCHANGED chip

BytesNext ==
  \/ Boot
  \/ \E b \in Byte : Count(b)
  \/ \E t \in Saver : Save(t)
  \/ \E t \in Resetter : ResetCount(t)
  \/ \E t \in AnySaver : Scan(t) \/ TakeBus(t) \/ StorePage(t) \/ SaveFails(t) \/ TakesCopy(t)

BytesSpec == BytesInit /\ [][BytesNext]_bytesVars
-----------------------------------------------------------------------------
\* A byte the next save will skip, for it is equal to the copy, is in the EEPROM
\* with that value: after saves that were torn by counting, failed half-way or
\* ran at the same time, and power failures in any of them, no counter stays
\* unsaved for good.  (It does when it is counted behind a running save, "late";
\* when after a failed save it comes back to the copy's value, "back"; and when
\* the start could not read the EEPROM, "unread", or found it "erased".)
NothingSkipped == (\A t \in AnySaver : saving[t].at = "idle") /\ doubt = {} =>
  \A b \in Byte : ram[b] = copy[b] => chip[b] = copy[b]

\* A save that is about to report success has everything in the EEPROM.
ReportIsTrue == doubt = {} => \A t \in AnySaver : saving[t].at = "copy" => chip = ram
=============================================================================
