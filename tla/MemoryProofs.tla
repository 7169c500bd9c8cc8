---------------------------- MODULE MemoryProofs -----------------------------
(***************************************************************************)
(* What the program keeps over a power failure: the settings and counters  *)
(* in the EEPROM, and the counts in the clock's memory and the EEPROM.     *)
(***************************************************************************)
EXTENDS Settings, SavedBytes, UsedWater, TLAPS

-----------------------------------------------------------------------------
(* A start loads whole settings, for any number of structures and any contents.  *)
(* The strengthening ties the CRC in the EEPROM to a save that was begun, and    *)
(* to the RAM while that save goes on.                                           *)

SettingsTypeOK ==
  /\ settings \in Settings
  /\ stored \in [structs : [1 .. Structs -> Values \union {Garbage}],
                 crc : Settings \union {NoSettings}, size : {SizeWord, Garbage}]
  /\ item \in NoItem .. VerifyItem
  /\ started \in {"no", "loaded", "error", "unread"}
  /\ attempted \in SUBSET Settings
  /\ told \in Settings \union {NoSettings}

CrcOfASave == stored.crc # NoSettings => stored.crc \in attempted

WhileSaving ==
  /\ item # NoItem => settings \in attempted /\ told = NoSettings
  /\ item \in {SizeItem, VerifyItem} => stored.crc \in {settings, NoSettings}

ToldIsStored == told # NoSettings => stored.structs = told /\ stored.crc = told

SettingsInv == SettingsTypeOK /\ CrcOfASave /\ WhileSaving /\ ToldIsStored /\ SettingsWhole

\* Structures are never the empty sequence that stands for no settings.
LEMMA StructsAreSome ==
  ASSUME NEW S, NEW f \in [1 .. Structs -> S] PROVE f # NoSettings
<1>1. 1 \in DOMAIN f
  BY SettingsAssumption
<1>2. DOMAIN NoSettings = {}
  BY DEF NoSettings
<1> QED BY <1>1, <1>2

LEMMA SettingsStart == SettingsInit => SettingsInv
<1> SUFFICES ASSUME SettingsInit PROVE SettingsInv
  OBVIOUS
<1>1. SettingsTypeOK
  BY SettingsAssumption DEF SettingsInit, SettingsTypeOK, Settings, Defaults, NoItem, VerifyItem
<1>2. CrcOfASave /\ WhileSaving /\ ToldIsStored /\ SettingsWhole
  BY SettingsAssumption DEF SettingsInit, CrcOfASave, WhileSaving, ToldIsStored, SettingsWhole,
     NoItem, SizeItem, VerifyItem
<1> QED BY <1>1, <1>2 DEF SettingsInv

\* What an item that is being written may become: its CRC is the RAM's, or none.
LEMMA ItemsAreTyped ==
  ASSUME SettingsTypeOK, Writing,
         NEW e \in {stored, ItemWritten, ItemSpoiled}
  PROVE  /\ e \in [structs : [1 .. Structs -> Values \union {Garbage}],
                   crc : Settings \union {NoSettings}, size : {SizeWord, Garbage}]
         /\ e.crc \in {stored.crc, settings, NoSettings}
         /\ item # CrcItem => e.crc = stored.crc
<1> USE SettingsAssumption DEF SettingsTypeOK, Settings, CrcItem, SizeItem
<1>0. item \in 1 .. Structs \/ item = CrcItem \/ item = SizeItem
  BY DEF Writing
<1>1. CASE item \in 1 .. Structs
  <2>1. ItemWritten = [stored EXCEPT !.structs[item] = settings[item]]
    BY <1>1 DEF ItemWritten
  <2>2. ItemSpoiled = [stored EXCEPT !.structs[item] = Garbage]
    BY <1>1 DEF ItemSpoiled
  <2>3. settings[item] \in Values \union {Garbage}
    BY <1>1
  <2>4. CASE e = stored
    BY <2>4
  <2>5. CASE e = ItemWritten
    BY <1>1, <2>1, <2>3, <2>5
  <2>6. CASE e = ItemSpoiled
    BY <1>1, <2>2, <2>6
  <2> QED BY <2>4, <2>5, <2>6
<1>2. CASE item = CrcItem
  <2>1. ItemWritten = [stored EXCEPT !.crc = settings]
    BY <1>2 DEF ItemWritten
  <2>2. ItemSpoiled = [stored EXCEPT !.crc = NoSettings]
    BY <1>2 DEF ItemSpoiled
  <2> QED BY <1>2, <2>1, <2>2
<1>3. CASE item = SizeItem
  <2>1. ItemWritten = [stored EXCEPT !.size = SizeWord]
    BY <1>3 DEF ItemWritten
  <2>2. ItemSpoiled = [stored EXCEPT !.size = Garbage]
    BY <1>3 DEF ItemSpoiled
  <2> QED BY <1>3, <2>1, <2>2
<1> QED BY <1>0, <1>1, <1>2, <1>3

\* The strengthened invariant is inductive.
LEMMA SettingsStep == SettingsInv /\ [SettingsNext]_settingsVars => SettingsInv'
<1> SUFFICES ASSUME SettingsInv, [SettingsNext]_settingsVars PROVE SettingsInv'
  OBVIOUS
<1> USE SettingsAssumption
    DEF SettingsInv, SettingsTypeOK, CrcOfASave, WhileSaving, ToldIsStored, SettingsWhole,
        NoItem, CrcItem, SizeItem, VerifyItem
<1>1. CASE UNCHANGED settingsVars
  BY <1>1 DEF settingsVars
<1>2. ASSUME NEW i \in 1 .. Structs, NEW v \in Values, SetOne(i, v) PROVE SettingsInv'
  <2>1. settings' \in Settings
    BY <1>2 DEF SetOne, Settings
  <2> QED BY <1>2, <2>1 DEF SetOne
<1>3. ASSUME NEW file \in Settings, LoadsFile(file) PROVE SettingsInv'
  BY <1>3 DEF LoadsFile
<1>4. CASE SaveBegins
  BY <1>4 DEF SaveBegins
<1>5. CASE WritesItem
  <2>1. /\ stored' \in [structs : [1 .. Structs -> Values \union {Garbage}],
                        crc : Settings \union {NoSettings}, size : {SizeWord, Garbage}]
        /\ stored'.crc \in {stored.crc, settings, NoSettings}
        /\ item # CrcItem => stored'.crc = stored.crc
    BY <1>5, ItemsAreTyped DEF WritesItem
  <2>2. item = CrcItem => stored'.crc \in {settings, NoSettings}
    <3> SUFFICES ASSUME item = CrcItem PROVE stored'.crc \in {settings, NoSettings}
      OBVIOUS
    <3>1. ItemWritten.crc = settings /\ ItemSpoiled.crc = NoSettings
      BY DEF ItemWritten, ItemSpoiled
    <3> QED BY <1>5, <3>1 DEF WritesItem
  <2>3. item' \in NoItem .. VerifyItem /\ item # NoItem /\ item' # NoItem
    BY <1>5 DEF WritesItem, Writing
  <2>4. item' \in {SizeItem, VerifyItem} => item \in {CrcItem, SizeItem}
    BY <1>5 DEF WritesItem, Writing
  <2>5. UNCHANGED <<settings, started, attempted, told>>
    BY <1>5 DEF WritesItem
  <2>6. started' \in {"loaded", "error"} /\ told' # NoSettings => FALSE
    BY <2>3, <2>5
  <2> QED BY <2>1, <2>2, <2>3, <2>4, <2>5, <2>6
<1>6. CASE WriteFails
  <2>1. /\ stored' \in [structs : [1 .. Structs -> Values \union {Garbage}],
                        crc : Settings \union {NoSettings}, size : {SizeWord, Garbage}]
        /\ stored'.crc \in {stored.crc, settings, NoSettings}
    BY <1>6, ItemsAreTyped DEF WriteFails
  <2>2. item # NoItem /\ item' = NoItem /\ UNCHANGED <<settings, started, attempted, told>>
    BY <1>6 DEF WriteFails, Writing
  <2> QED BY <2>1, <2>2
<1>7. CASE Verifies
  <2>1. CrcIsRight(stored) => stored.crc = settings /\ stored.structs = settings
    BY <1>7, StructsAreSome DEF Verifies, CrcIsRight
  <2> QED BY <1>7, <2>1 DEF Verifies
<1>8. CASE VerifyFails
  BY <1>8 DEF VerifyFails
<1>9. CASE Restarts
  <2>1. /\ stored' \in [structs : [1 .. Structs -> Values \union {Garbage}],
                        crc : Settings \union {NoSettings}, size : {SizeWord, Garbage}]
        /\ stored'.crc \in {stored.crc, NoSettings} \/ settings \in attempted
        /\ stored'.crc \in {stored.crc, settings, NoSettings}
    <3>1. CASE Writing
      BY <1>9, <3>1, ItemsAreTyped DEF Restarts, Writing
    <3>2. CASE ~Writing
      BY <1>9, <3>2 DEF Restarts
    <3> QED BY <3>1, <3>2
  <2>2. told # NoSettings => stored' = stored
    BY <1>9 DEF Restarts, Writing
  <2>3. UNCHANGED <<attempted, told>> /\ item' = NoItem /\ LoadSettings(stored')
    BY <1>9 DEF Restarts
  <2>4. CrcOfASave' /\ ToldIsStored'
    BY <2>1, <2>2, <2>3
  <2>5. CASE LoadAccepts(stored') /\ settings' = stored'.structs /\ started' = "loaded"
    <3>1. settings' = stored'.crc /\ stored'.crc # NoSettings
      BY <2>1, <2>5, StructsAreSome DEF LoadAccepts, CrcIsRight
    <3>2. settings' \in attempted /\ settings' \in Settings
      BY <2>3, <2>4, <3>1
    <3> QED BY <2>1, <2>2, <2>3, <2>4, <2>5, <3>1, <3>2
  <2>6. CASE ~LoadAccepts(stored') /\ settings' = Defaults /\ started' = "error"
    <3>1. settings' \in Settings
      BY <2>6 DEF Defaults, Settings
    <3>2. told' # NoSettings => stored'.size # SizeWord
      BY <2>2, <2>3, <2>6 DEF LoadAccepts, CrcIsRight
    <3> QED BY <2>1, <2>3, <2>4, <2>6, <3>1, <3>2
  <2>7. CASE settings' = Defaults /\ started' = "unread"
    <3>1. settings' \in Settings
      BY <2>7 DEF Defaults, Settings
    <3> QED BY <2>1, <2>3, <2>4, <2>7, <3>1
  <2> QED BY <2>3, <2>5, <2>6, <2>7 DEF LoadSettings
<1> QED BY <1>1, <1>2, <1>3, <1>4, <1>5, <1>6, <1>7, <1>8, <1>9 DEF SettingsNext

\* A start loads settings that were saved as a whole, and what the last save that
\* reported success wrote: MainClass::save and load, whatever the structures.
THEOREM SettingsAreWhole == SettingsSpec => []SettingsWhole
<1>1. SettingsInit => SettingsInv
  BY SettingsStart
<1>2. SettingsInv /\ [SettingsNext]_settingsVars => SettingsInv'
  BY SettingsStep
<1>3. SettingsInv => SettingsWhole
  BY DEF SettingsInv
<1> QED BY <1>1, <1>2, <1>3, PTL DEF SettingsSpec
-----------------------------------------------------------------------------
(* The counts *)

Stores == [today : Nat, day : Nat, regen : BOOLEAN]
Updates == [at : {"idle", "begin", "what", "write"}, copy : Stores, what : SUBSET SaveAll]

WaterTypeOK ==
  /\ store \in Stores /\ clock \in Stores
  /\ stats \in [total : Nat, regs : Nat] /\ eeprom \in [total : Nat, regs : Nat]
  /\ need \in SUBSET SaveAll /\ needSave \in BOOLEAN
  /\ update \in [Updater -> Updates]
  /\ weekday \in Nat /\ filter \in BOOLEAN /\ poured \in Nat /\ ended \in Nat

\* The updates that have a copy of the store; the bus has room for one of them.
HasCopy(u) == update[u].at \in {"what", "write"}
OneUpdates == \A u, v \in Updater : HasCopy(u) /\ HasCopy(v) => u = v

\* The clock knows no later day than the program, and no more of its own day.
ClockIsBehind ==
  /\ clock.day <= store.day /\ store.day <= weekday
  /\ clock.day = store.day => clock.today <= store.today
  /\ ~needSave => clock.day = store.day

\* No litre is counted in the EEPROM and in the clock, or about to be.
LitresOnce ==
  /\ eeprom.total <= stats.total /\ stats.total + store.today <= poured
  /\ eeprom.total + clock.today <= poured

\* A copy is of today, or the clock does not know of today.
CopiesAreOld == \A u \in Updater : HasCopy(u) =>
  LET taken == update[u].copy IN
  /\ eeprom.total + taken.today <= poured
  /\ taken.day <= store.day
  /\ taken.day = store.day => taken.today <= store.today
  /\ taken.day < store.day => clock.day < store.day

\* The clock gets today's litres when it gets to know of today.
DayWithLitres == clock.day # store.day =>
  /\ "Work" \in need => "UsedToday" \in need
  /\ \A u \in Updater :
       update[u].at = "write" /\ update[u].copy.day = store.day /\ "Work" \in update[u].what
         => "UsedToday" \in update[u].what

LitresInv == WaterTypeOK /\ OneUpdates /\
  ("day" \notin crossed => ClockIsBehind /\ LitresOnce /\ CopiesAreOld /\ DayWithLitres)

\* An end of a regeneration that the EEPROM does not have waits for vService to
\* save it, and the clock still knows of the regeneration.
EndsAreKept ==
  /\ eeprom.regs <= stats.regs /\ ended <= stats.regs
  /\ store.regen \/ filter => ended <= eeprom.regs
  /\ ended <= eeprom.regs + IF clock.regen THEN 1 ELSE 0
  /\ ended > eeprom.regs => needSave /\ update["vService"].at = "idle"

RegensInv == WaterTypeOK /\ (crossed \intersect {"regen", "unnoted"} = {} => EndsAreKept)

LEMMA WaterStart == WaterInit => LitresInv /\ RegensInv
<1> SUFFICES ASSUME WaterInit PROVE LitresInv /\ RegensInv
  OBVIOUS
<1> USE DEF WaterInit, NewStore, NotUpdating
<1>1. WaterTypeOK
  <2>1. NewStore \in Stores /\ NotUpdating \in Updates
    BY DEF Stores, Updates
  <2> QED BY <2>1 DEF WaterTypeOK
<1>2. \A u \in Updater : ~HasCopy(u) /\ update[u].at = "idle"
  BY DEF HasCopy
<1>3. OneUpdates /\ ClockIsBehind /\ LitresOnce /\ CopiesAreOld /\ DayWithLitres
  BY <1>2 DEF OneUpdates, ClockIsBehind, LitresOnce, CopiesAreOld, DayWithLitres
<1>4. EndsAreKept
  BY DEF EndsAreKept, Updater
<1> QED BY <1>1, <1>3, <1>4 DEF LitresInv, RegensInv

\* A task that begins, goes on with or gives up its update.
LEMMA UpdatesAreTyped ==
  ASSUME WaterTypeOK, NEW u \in Updater
  PROVE  /\ NotUpdating \in Updates /\ [NotUpdating EXCEPT !.at = "begin"] \in Updates
         /\ [update[u] EXCEPT !.at = "what", !.copy = store] \in Updates
         /\ [update[u] EXCEPT !.at = "write", !.what = need] \in Updates
         /\ \A r \in Updates : Steps(u, r) => update' \in [Updater -> Updates]
<1>1. NewStore \in Stores
  BY DEF NewStore, Stores
<1>2. NotUpdating \in Updates /\ [NotUpdating EXCEPT !.at = "begin"] \in Updates
  BY <1>1 DEF NotUpdating, Updates
<1>3. update[u] \in Updates /\ store \in Stores /\ need \in SUBSET SaveAll
  BY DEF WaterTypeOK
<1>4. /\ [update[u] EXCEPT !.at = "what", !.copy = store] \in Updates
      /\ [update[u] EXCEPT !.at = "write", !.what = need] \in Updates
  BY <1>3 DEF Updates
<1>5. \A r \in Updates : Steps(u, r) => update' \in [Updater -> Updates]
  BY DEF WaterTypeOK, Steps
<1> QED BY <1>2, <1>4, <1>5

\* No step of the house, of vService, of an update or of a restart takes a
\* variable out of its type.
LEMMA WaterTypes == WaterTypeOK /\ [WaterNext]_waterVars => WaterTypeOK'
<1> SUFFICES ASSUME WaterTypeOK, [WaterNext]_waterVars PROVE WaterTypeOK'
  OBVIOUS
<1> "vService" \in Updater /\ "web" \in Updater
  BY DEF Updater
<1> USE DEF WaterTypeOK, memory, places, world
<1>1. CASE DayPasses
  <2>1. weekday' \in Nat
    BY <1>1 DEF DayPasses
  <2> QED BY <1>1, <2>1 DEF DayPasses
<1>2. CASE Pour
  <2>1. store' \in Stores /\ poured' \in Nat /\ need' \in SUBSET SaveAll
    BY <1>2 DEF Pour, Stores, SaveAll
  <2> QED BY <1>2, <2>1 DEF Pour
<1>3. CASE FilterTurns
  <2>1. filter' \in BOOLEAN
    BY <1>3 DEF FilterTurns
  <2> QED BY <1>3, <2>1 DEF FilterTurns
<1>4. CASE RegenBegins
  <2>1. store' \in Stores /\ need' \in SUBSET SaveAll
    BY <1>4 DEF RegenBegins, Stores
  <2> QED BY <1>4, <2>1 DEF RegenBegins
<1>5. CASE NewDay
  <2>0. stats' \in [total : Nat, regs : Nat]
    <3>1. store.today \in Nat /\ stats' = [stats EXCEPT !.total = @ + store.today]
      BY <1>5 DEF NewDay, Stores
    <3> QED BY <3>1
  <2>1. store' \in Stores
    BY <1>5 DEF NewDay, Stores
  <2>2. need' \in SUBSET SaveAll /\ needSave' \in BOOLEAN
    BY <1>5 DEF NewDay, SaveOfDay
  <2>3. update' \in [Updater -> Updates]
    BY <1>5, UpdatesAreTyped DEF NewDay, Begins
  <2> QED BY <1>5, <2>0, <2>1, <2>2, <2>3 DEF NewDay
<1>6. CASE ServiceSaves
  BY <1>6 DEF ServiceSaves, Saves
<1>7. CASE OthersSave
  BY <1>7 DEF OthersSave, Saves
<1>8. CASE ServiceUpdates
  <2>1. update' \in [Updater -> Updates]
    BY <1>8, UpdatesAreTyped DEF ServiceUpdates, Begins
  <2> QED BY <1>8, <2>1 DEF ServiceUpdates
<1>9. CASE WebUpdates
  <2>1. update' \in [Updater -> Updates]
    BY <1>9, UpdatesAreTyped DEF WebUpdates, Begins
  <2> QED BY <1>9, <2>1 DEF WebUpdates
<1>10. CASE RegenEnds
  <2>0. stats' \in [total : Nat, regs : Nat] /\ ended' \in Nat
    BY <1>10 DEF RegenEnds
  <2>1. store' \in Stores
    BY <1>10 DEF RegenEnds, Stores
  <2>2. need' \in SUBSET SaveAll /\ needSave' \in BOOLEAN
    BY <1>10 DEF RegenEnds, EndNeeds, SaveAll
  <2> QED BY <1>10, <2>0, <2>1, <2>2 DEF RegenEnds
<1>11. CASE PowerFails
  <2>1. ended' \in Nat
    BY <1>11 DEF PowerFails
  <2>2. update' \in [Updater -> Updates]
    BY <1>11, UpdatesAreTyped DEF PowerFails
  <2> QED BY <1>11, <2>1, <2>2 DEF PowerFails
<1>12. ASSUME NEW u \in Updater, TakesStore(u) \/ ReadsNeed(u) \/ ClockFails(u)
       PROVE WaterTypeOK'
  <2>1. update' \in [Updater -> Updates]
    BY <1>12, UpdatesAreTyped DEF TakesStore, ReadsNeed, ClockFails
  <2> QED BY <1>12, <2>1 DEF TakesStore, ReadsNeed, ClockFails
<1>13. ASSUME NEW u \in Updater, WritesClock(u) PROVE WaterTypeOK'
  <2>1. clock' \in Stores
    BY <1>13 DEF WritesClock, Written, Updates, Stores
  <2>2. update' \in [Updater -> Updates]
    BY <1>13, UpdatesAreTyped DEF WritesClock
  <2>3. need' \in SUBSET SaveAll
    BY <1>13 DEF WritesClock
  <2> QED BY <1>13, <2>1, <2>2, <2>3 DEF WritesClock
<1>14. CASE UNCHANGED waterVars
  BY <1>14 DEF waterVars
<1> QED BY <1>1, <1>2, <1>3, <1>4, <1>5, <1>6, <1>7, <1>8, <1>9, <1>10, <1>11, <1>12,
           <1>13, <1>14 DEF WaterNext

\* The semaphore of the bus: an update takes its copy when no other has one.
LEMMA OneUpdatesStep ==
  WaterTypeOK /\ OneUpdates /\ [WaterNext]_waterVars => OneUpdates'
<1> SUFFICES ASSUME WaterTypeOK, OneUpdates, [WaterNext]_waterVars PROVE OneUpdates'
  OBVIOUS
<1> USE DEF OneUpdates, HasCopy
<1>1. CASE UNCHANGED update
  BY <1>1
<1>2. ASSUME NEW u \in Updater, NEW r \in Updates, Steps(u, r),
             r.at \in {"what", "write"} => Free \/ HasCopy(u)
      PROVE OneUpdates'
  <2>1. /\ update'[u] = r
        /\ \A v \in Updater : v # u => update'[v] = update[v]
    BY <1>2 DEF Steps, WaterTypeOK
  <2> QED BY <1>2, <2>1 DEF Free
<1>3. CASE PowerFails
  <2>1. \A u \in Updater : update'[u].at = "idle"
    BY <1>3 DEF PowerFails, NotUpdating
  <2> QED BY <2>1
<1>4. ASSUME NEW u \in Updater, Begins(u) PROVE OneUpdates'
  <2>1. [NotUpdating EXCEPT !.at = "begin"].at = "begin"
    BY DEF NotUpdating
  <2> QED BY <1>2, <1>4, <2>1, UpdatesAreTyped DEF Begins
<1>5. ASSUME NEW u \in Updater, TakesStore(u) PROVE OneUpdates'
  BY <1>2, <1>5, UpdatesAreTyped DEF TakesStore
<1>6. ASSUME NEW u \in Updater, ReadsNeed(u) PROVE OneUpdates'
  BY <1>2, <1>6, UpdatesAreTyped DEF ReadsNeed
<1>7. ASSUME NEW u \in Updater, Steps(u, NotUpdating) PROVE OneUpdates'
  <2>1. NotUpdating.at = "idle"
    BY DEF NotUpdating
  <2> QED BY <1>2, <1>7, <2>1, UpdatesAreTyped
<1>8. "vService" \in Updater /\ "web" \in Updater
  BY DEF Updater
<1>9. \/ UNCHANGED update \/ PowerFails \/ Begins("vService") \/ Begins("web")
      \/ \E u \in Updater : TakesStore(u) \/ ReadsNeed(u) \/ Steps(u, NotUpdating)
  BY DEF WaterNext, waterVars, memory, places, world, DayPasses, Pour, FilterTurns, RegenBegins,
     NewDay, ServiceSaves, ServiceUpdates, RegenEnds, OthersSave, WebUpdates, WritesClock, ClockFails
<1> QED BY <1>1, <1>3, <1>4, <1>5, <1>6, <1>7, <1>8, <1>9

\* What a step writes to one of the tasks' places leaves the other's alone.
LEMMA StepsOfOne ==
  ASSUME WaterTypeOK, NEW u \in Updater, NEW r, Steps(u, r)
  PROVE  update'[u] = r /\ \A v \in Updater : v # u => update'[v] = update[v]
BY DEF WaterTypeOK, Steps

LEMMA LitresStep == LitresInv /\ [WaterNext]_waterVars => LitresInv'
<1> SUFFICES ASSUME LitresInv, [WaterNext]_waterVars, "day" \notin crossed'
             PROVE  ClockIsBehind' /\ LitresOnce' /\ CopiesAreOld' /\ DayWithLitres'
  BY WaterTypes, OneUpdatesStep DEF LitresInv
<1> DEFINE Goal == ClockIsBehind' /\ LitresOnce' /\ CopiesAreOld' /\ DayWithLitres'
<1>0. WaterTypeOK /\ WaterTypeOK' /\ OneUpdates
  BY WaterTypes DEF LitresInv
<1>a. "day" \notin crossed
  BY DEF WaterNext, waterVars, memory, places, world, DayPasses, Pour, FilterTurns, RegenBegins,
     NewDay, ServiceSaves, ServiceUpdates, RegenEnds, OthersSave, WebUpdates, WritesClock,
     ClockFails, TakesStore, ReadsNeed, PowerFails, Saves
<1>b. ClockIsBehind /\ LitresOnce /\ CopiesAreOld /\ DayWithLitres
  BY <1>a DEF LitresInv
<1>c. /\ store.today \in Nat /\ store.day \in Nat /\ clock.today \in Nat /\ clock.day \in Nat
      /\ stats.total \in Nat /\ eeprom.total \in Nat /\ poured \in Nat /\ weekday \in Nat
      /\ \A u \in Updater : update[u].copy.today \in Nat /\ update[u].copy.day \in Nat
  BY <1>0 DEF WaterTypeOK, Stores, Updates
<1> SUFFICES Goal
  OBVIOUS
<1> HIDE DEF Goal
<1> USE <1>b, <1>c
<1> "vService" \in Updater /\ "web" \in Updater
  BY DEF Updater
<1>1. CASE UNCHANGED <<store, stats, need, needSave, update, clock, eeprom, poured>>
            /\ weekday' \in {weekday, weekday + 1}
  BY <1>1 DEF Goal, ClockIsBehind, LitresOnce, CopiesAreOld, HasCopy, DayWithLitres
<1>2. CASE Pour
  <2>1. store'.today = store.today + 1 /\ store'.day = store.day
    BY <1>2, <1>0 DEF Pour, WaterTypeOK, Stores
  <2>2. /\ UNCHANGED <<stats, needSave, update, clock, eeprom, weekday>>
        /\ poured' = poured + 1 /\ need' = need \union {"UsedToday"}
    BY <1>2 DEF Pour, places
  <2> QED BY <2>1, <2>2
          DEF Goal, ClockIsBehind, LitresOnce, CopiesAreOld, HasCopy, DayWithLitres
<1>3. CASE RegenBegins
  <2>1. /\ store'.today = store.today /\ store'.day = store.day
        /\ UNCHANGED <<stats, needSave, update, clock, eeprom, weekday, poured>>
        /\ need' = SaveAll
    BY <1>3, <1>0 DEF RegenBegins, places, world, WaterTypeOK, Stores
  <2> QED BY <2>1
          DEF Goal, ClockIsBehind, LitresOnce, CopiesAreOld, HasCopy, DayWithLitres, SaveAll
<1>4. CASE RegenEnds
  <2>1. /\ store'.today = store.today /\ store'.day = store.day /\ stats'.total = stats.total
        /\ UNCHANGED <<update, clock, eeprom, weekday, poured>>
        /\ ~needSave /\ needSave'
    BY <1>4, <1>0 DEF RegenEnds, places, WaterTypeOK, Stores, EndNeeds
  <2> QED BY <2>1 DEF Goal, ClockIsBehind, LitresOnce, CopiesAreOld, HasCopy, DayWithLitres
<1>5. CASE NewDay
  <2>1. /\ store'.today = 0 /\ store'.day = weekday /\ store.day # weekday
        /\ stats'.total = stats.total + store.today
        /\ UNCHANGED <<clock, eeprom, weekday, poured>> /\ needSave' /\ need' = SaveAll
    BY <1>5, <1>0 DEF NewDay, places, world, WaterTypeOK, Stores, SaveOfDay
  <2>2. /\ update'["vService"].at = "begin"
        /\ \A v \in Updater : v # "vService" => update'[v] = update[v]
    BY <1>5, <1>0, StepsOfOne DEF NewDay, Begins, NotUpdating
  <2>3. ClockIsBehind' /\ LitresOnce'
    BY <2>1 DEF ClockIsBehind, LitresOnce
  <2>4. CopiesAreOld' /\ DayWithLitres'
    BY <2>1, <2>2 DEF ClockIsBehind, CopiesAreOld, HasCopy, DayWithLitres, SaveAll
  <2> QED BY <2>3, <2>4 DEF Goal
<1>6. CASE Saves /\ UNCHANGED <<store, stats, need, update, clock, weekday, poured>>
  <2>1. clock.day = store.day /\ eeprom' = stats
    BY <1>6 DEF Saves, Flag
  <2> QED BY <1>6, <2>1
          DEF Goal, ClockIsBehind, LitresOnce, CopiesAreOld, HasCopy, DayWithLitres
<1>7. ASSUME NEW u \in Updater, Begins(u), need' \in {need, SaveAll},
             UNCHANGED <<store, stats, needSave, clock, eeprom, weekday, poured>>
      PROVE  Goal
  <2>1. /\ update'[u].at = "begin"
        /\ \A v \in Updater : v # u => update'[v] = update[v]
    BY <1>7, <1>0, StepsOfOne DEF Begins, NotUpdating
  <2>2. ClockIsBehind' /\ LitresOnce'
    BY <1>7 DEF ClockIsBehind, LitresOnce
  <2>3. CopiesAreOld' /\ DayWithLitres'
    BY <1>7, <2>1 DEF CopiesAreOld, HasCopy, DayWithLitres, SaveAll
  <2> QED BY <2>2, <2>3 DEF Goal
<1>8. ASSUME NEW u \in Updater, TakesStore(u) PROVE Goal
  <2>1. /\ update'[u].at = "what" /\ update'[u].copy = store
        /\ \A v \in Updater : v # u => update'[v] = update[v]
    <3>1. update[u] \in Updates
      BY <1>0 DEF WaterTypeOK
    <3> DEFINE r == [update[u] EXCEPT !.at = "what", !.copy = store]
    <3>2. Steps(u, r) /\ r.at = "what" /\ r.copy = store
      BY <1>8, <3>1 DEF TakesStore, Updates
    <3> HIDE DEF r
    <3> QED BY <1>0, <3>2, StepsOfOne
  <2>2. UNCHANGED <<store, stats, need, needSave, clock, eeprom, weekday, poured>>
    BY <1>8 DEF TakesStore, memory, places, world
  <2>3. ClockIsBehind' /\ LitresOnce'
    BY <2>2 DEF ClockIsBehind, LitresOnce
  <2>4. CopiesAreOld' /\ DayWithLitres'
    BY <2>1, <2>2 DEF LitresOnce, CopiesAreOld, HasCopy, DayWithLitres
  <2> QED BY <2>3, <2>4 DEF Goal
<1>9. ASSUME NEW u \in Updater, ReadsNeed(u) PROVE Goal
  <2>1. /\ update[u].at = "what" /\ update'[u].at = "write"
        /\ update'[u].copy = update[u].copy /\ update'[u].what = need
        /\ \A v \in Updater : v # u => update'[v] = update[v]
    <3>1. update[u] \in Updates
      BY <1>0 DEF WaterTypeOK
    <3> DEFINE r == [update[u] EXCEPT !.at = "write", !.what = need]
    <3>2. /\ update[u].at = "what" /\ Steps(u, r)
          /\ r.at = "write" /\ r.copy = update[u].copy /\ r.what = need
      BY <1>9, <3>1 DEF ReadsNeed, Updates
    <3> HIDE DEF r
    <3> QED BY <1>0, <3>2, StepsOfOne
  <2>2. UNCHANGED <<store, stats, need, needSave, clock, eeprom, weekday, poured>>
    BY <1>9 DEF ReadsNeed, memory, places, world
  <2>3. ClockIsBehind' /\ LitresOnce'
    BY <2>2 DEF ClockIsBehind, LitresOnce
  <2>4. CopiesAreOld' /\ DayWithLitres'
    BY <2>1, <2>2 DEF CopiesAreOld, HasCopy, DayWithLitres
  <2> QED BY <2>3, <2>4 DEF Goal
<1>10. ASSUME NEW u \in Updater, WritesClock(u) PROVE Goal
  <2> DEFINE taken == update[u].copy
             what == update[u].what
  <2>1. /\ clock'.today = IF "UsedToday" \in what THEN taken.today ELSE clock.today
        /\ clock'.day = IF "Work" \in what THEN taken.day ELSE clock.day
    BY <1>10 DEF WritesClock, Written
  <2>2. \A v \in Updater : ~HasCopy(v)'
    BY <1>10, <1>0, StepsOfOne DEF WritesClock, OneUpdates, HasCopy, NotUpdating
  <2>3. /\ UNCHANGED <<store, stats, needSave, eeprom, weekday, poured>>
        /\ need' = IF what = {} THEN need ELSE {}
    BY <1>10 DEF WritesClock, world
  <2>4. /\ eeprom.total + taken.today <= poured /\ taken.day <= store.day
        /\ taken.day = store.day => taken.today <= store.today
        /\ taken.day < store.day => clock.day < store.day
        /\ taken.day = store.day /\ clock.day # store.day /\ "Work" \in what
             => "UsedToday" \in what
    BY <1>10 DEF WritesClock, CopiesAreOld, HasCopy, DayWithLitres
  <2>5. taken.day \in Nat /\ taken.today \in Nat
    OBVIOUS
  <2> HIDE DEF taken, what
  <2>6. ClockIsBehind'
    BY <2>1, <2>3, <2>4, <2>5 DEF ClockIsBehind
  <2>7. LitresOnce'
    BY <2>1, <2>3, <2>4, <2>5 DEF LitresOnce
  <2>8. CopiesAreOld'
    BY <2>2 DEF CopiesAreOld
  <2>9. DayWithLitres'
    BY <2>1, <2>2, <2>3 DEF DayWithLitres, HasCopy
  <2> QED BY <2>6, <2>7, <2>8, <2>9 DEF Goal
<1>11. ASSUME NEW u \in Updater, ClockFails(u) PROVE Goal
  <2>1. /\ update'[u].at = "idle"
        /\ \A v \in Updater : v # u => update'[v] = update[v]
    BY <1>11, <1>0, StepsOfOne DEF ClockFails, NotUpdating
  <2>2. UNCHANGED <<store, stats, need, needSave, clock, eeprom, weekday, poured>>
    BY <1>11 DEF ClockFails, memory, places, world
  <2>3. ClockIsBehind' /\ LitresOnce'
    BY <2>2 DEF ClockIsBehind, LitresOnce
  <2>4. CopiesAreOld' /\ DayWithLitres'
    BY <2>1, <2>2 DEF CopiesAreOld, HasCopy, DayWithLitres
  <2> QED BY <2>3, <2>4 DEF Goal
<1>12. CASE PowerFails
  <2>1. \A u \in Updater : update'[u].at = "idle"
    BY <1>12 DEF PowerFails, NotUpdating
  <2>2. /\ store' = clock /\ stats' = eeprom /\ need' = {} /\ clock' = clock
        /\ eeprom' = eeprom /\ UNCHANGED <<weekday, poured>>
    BY <1>12 DEF PowerFails, places
  <2> QED BY <2>1, <2>2
          DEF Goal, ClockIsBehind, LitresOnce, CopiesAreOld, HasCopy, DayWithLitres
<1>13. CASE DayPasses \/ FilterTurns \/ UNCHANGED waterVars
  BY <1>13, <1>1 DEF DayPasses, FilterTurns, waterVars, memory, places
<1>14. CASE ServiceSaves \/ OthersSave
  BY <1>14, <1>6 DEF ServiceSaves, OthersSave, memory, world
<1>15. CASE ServiceUpdates
  <2>1. /\ Begins("vService") /\ need' = need
        /\ UNCHANGED <<store, stats, needSave, clock, eeprom, weekday, poured>>
    BY <1>15 DEF ServiceUpdates, memory, places, world
  <2> QED BY <1>7, <2>1
<1>16. CASE WebUpdates
  <2>1. /\ Begins("web") /\ need' = SaveAll
        /\ UNCHANGED <<store, stats, needSave, clock, eeprom, weekday, poured>>
    BY <1>16 DEF WebUpdates, places, world
  <2> QED BY <1>7, <2>1
<1> QED
  BY <1>2, <1>3, <1>4, <1>5, <1>8, <1>9, <1>10, <1>11, <1>12, <1>13, <1>14, <1>15, <1>16, Zenon
     DEF WaterNext

LEMMA RegensStep == RegensInv /\ [WaterNext]_waterVars => RegensInv'
<1> SUFFICES ASSUME RegensInv, [WaterNext]_waterVars,
                    crossed' \intersect {"regen", "unnoted"} = {}
             PROVE  EndsAreKept'
  BY WaterTypes DEF RegensInv
<1>0. WaterTypeOK
  BY DEF RegensInv
<1>a. crossed \subseteq crossed'
  BY DEF WaterNext, waterVars, memory, places, world, DayPasses, Pour, FilterTurns, RegenBegins,
     NewDay, ServiceSaves, ServiceUpdates, RegenEnds, OthersSave, WebUpdates, WritesClock,
     ClockFails, TakesStore, ReadsNeed, PowerFails, Saves
<1>b. EndsAreKept
  BY <1>a DEF RegensInv
<1>c. /\ stats.regs \in Nat /\ eeprom.regs \in Nat /\ ended \in Nat
      /\ store.regen \in BOOLEAN /\ clock.regen \in BOOLEAN /\ filter \in BOOLEAN
  BY <1>0 DEF WaterTypeOK, Stores
<1> USE <1>b, <1>c DEF EndsAreKept
<1> "vService" \in Updater /\ "web" \in Updater
  BY DEF Updater
<1>1. CASE UNCHANGED <<needSave, update, clock, eeprom, ended, filter>>
           /\ stats'.regs = stats.regs /\ store'.regen = store.regen
  BY <1>1
<1>2. CASE FilterTurns
  BY <1>2 DEF FilterTurns, memory, places
<1>3. CASE RegenBegins
  BY <1>3 DEF RegenBegins, places, world
<1>4. CASE NewDay
  <2>1. /\ store'.regen = store.regen /\ stats'.regs = stats.regs
        /\ UNCHANGED <<clock, eeprom, filter, ended>>
    BY <1>4, <1>0 DEF NewDay, places, world, WaterTypeOK, Stores
  <2>2. ended <= eeprom.regs
    BY <1>4 DEF NewDay, Flag
  <2> QED BY <2>1, <2>2
<1>5. CASE ServiceSaves \/ OthersSave
  BY <1>5 DEF ServiceSaves, OthersSave, Saves, memory, world
<1>6. CASE RegenEnds
  <2>1. /\ store'.regen = FALSE /\ stats'.regs = stats.regs + 1 /\ ended' = ended + 1
        /\ store.regen /\ ~filter /\ needSave' /\ update["vService"].at = "idle"
        /\ UNCHANGED <<update, clock, eeprom, filter>>
    BY <1>6, <1>0 DEF RegenEnds, Serves, places, EndNeeds, WaterTypeOK, Stores
  <2>2. clock.regen
    BY <1>6 DEF RegenEnds, Flag
  <2> QED BY <2>1, <2>2
<1>7. ASSUME NEW u \in Updater, NEW r, Steps(u, r), u = "vService" => ended <= eeprom.regs,
             UNCHANGED <<store, stats, needSave, clock, eeprom, ended, filter>>
      PROVE  EndsAreKept'
  BY <1>0, <1>7, StepsOfOne
<1>8. CASE ServiceUpdates
  BY <1>7, <1>8 DEF ServiceUpdates, Begins, memory, places, world
<1>9. CASE WebUpdates
  BY <1>7, <1>9 DEF WebUpdates, Begins, places, world
<1>10. ASSUME NEW u \in Updater, TakesStore(u) \/ ReadsNeed(u) \/ ClockFails(u)
       PROVE  EndsAreKept'
  <2>1. u = "vService" => ended <= eeprom.regs
    BY <1>10 DEF TakesStore, ReadsNeed, ClockFails
  <2> QED BY <1>7, <1>10, <2>1 DEF TakesStore, ReadsNeed, ClockFails, memory, places, world
<1>11. ASSUME NEW u \in Updater, WritesClock(u) PROVE EndsAreKept'
  <2>1. ended <= eeprom.regs
    BY <1>11 DEF WritesClock, Flag, Updater
  <2>2. UNCHANGED <<store, stats, needSave, eeprom, ended, filter>>
    BY <1>11 DEF WritesClock, world
  <2> QED BY <2>1, <2>2
<1>12. CASE PowerFails
  <2>1. ended' <= eeprom.regs
    BY <1>12 DEF PowerFails
  <2>2. /\ store' = clock /\ stats' = eeprom /\ UNCHANGED <<clock, eeprom, filter>>
    BY <1>12 DEF PowerFails, places
  <2>3. ended' \in Nat
    BY <1>12 DEF PowerFails
  <2> QED BY <2>1, <2>2, <2>3
<1>13. CASE DayPasses \/ UNCHANGED waterVars
  BY <1>1, <1>13 DEF DayPasses, waterVars, memory, places
<1>14. CASE Pour
  <2>1. store'.regen = store.regen
    BY <1>0, <1>14 DEF Pour, WaterTypeOK, Stores
  <2> QED BY <1>1, <1>14, <2>1 DEF Pour, places
<1> QED
  BY <1>2, <1>3, <1>4, <1>5, <1>6, <1>8, <1>9, <1>10, <1>11, <1>12, <1>13, <1>14, Zenon
     DEF WaterNext

\* A litre is never counted twice, not with the power failing at any point of any
\* number of days, writes to the clock failing or the browser's tasks between,
\* unless the EEPROM got a day's total before the clock knew of the next day.
THEOREM LitresAreCountedOnce == WaterSpec => []CountedOnce
<1>1. WaterInit => LitresInv
  BY WaterStart
<1>2. LitresInv => CountedOnce
  BY DEF LitresInv, LitresOnce, CountedOnce
<1> QED BY <1>1, <1>2, LitresStep, PTL DEF WaterSpec

\* No end of a regeneration that the program has seen is lost from RegCnt by a
\* power failure, for any number of regenerations, unless the clock forgot the
\* regeneration before the EEPROM had its end, or never knew of it.
THEOREM EndsAreCounted == WaterSpec => []RegensCounted
<1>1. WaterInit => RegensInv
  BY WaterStart
<1>2. RegensInv => RegensCounted
  <2> SUFFICES ASSUME RegensInv, crossed \intersect {"regen", "unnoted"} = {}
               PROVE  /\ ended <= stats.regs + IF store.regen THEN 1 ELSE 0
                      /\ ended <= eeprom.regs + IF clock.regen THEN 1 ELSE 0
    BY DEF RegensCounted
  <2> QED BY DEF RegensInv, EndsAreKept, WaterTypeOK
<1> QED BY <1>1, <1>2, RegensStep, PTL DEF WaterSpec
-----------------------------------------------------------------------------
(* The incremental save of the counters, for any number of bytes, tasks and      *)
(* any page: what it skips is in the EEPROM.                                     *)

Places == {"off", "idle", "scan", "bus", "page", "copy"}
Working == {"scan", "bus", "page", "copy"}

BytesType ==
  /\ ram \in [Byte -> Int] /\ copy \in [Byte -> Int] /\ chip \in [Byte -> Int]
  /\ saving \in [AnySaver -> [at : Places, ptr : Int, ptre : Int]]

\* The header is written right or not at all.
HeaderRight ==
  /\ chip[0] \in {HEADER, ERASED}
  /\ \A t \in AnySaver : saving[t].at \in Working => ram[0] = HEADER
  /\ doubt = {} /\ saving["setup"].at # "off" => ram[0] = HEADER

\* Bytes behind a save are stored, and those it will skip are stored too.
BehindIsStored == doubt = {} =>
  \A t \in AnySaver : \A b \in Byte :
    saving[t].at # "off" /\ b < saving[t].ptr => chip[b] = ram[b]
SkippedIsStored == doubt = {} /\ saving["setup"].at # "off" =>
  \A b \in Byte : ram[b] = copy[b] => chip[b] = copy[b]

\* Everything is behind a save that takes its copy.
CopyIsLast == \A t \in AnySaver : saving[t].at = "copy" => saving[t].ptr = Width

\* Setup is the first to start.
SetupFirst == saving["setup"].at = "off" => \A t \in AnySaver : saving[t].at = "off"

BytesInv == BytesType /\ HeaderRight /\ BehindIsStored /\ SkippedIsStored /\ CopyIsLast
            /\ SetupFirst

USE WidthAndPage, SaversKnown DEF Byte, AnySaver, HEADER, ERASED, Zeros, Headed, Places,
  Working, From0, Reaches, Ends, bytesVars

\* Nothing is in doubt at the start, and nothing is done.
LEMMA BytesStart == BytesInit => BytesInv
BY DEF BytesInit, BytesInv, BytesType, HeaderRight, BehindIsStored, SkippedIsStored, CopyIsLast,
  SetupFirst

\* A count or a reset that leaves no doubt changes only bytes that no save has
\* behind it, and brings none back to the copy that the EEPROM does not have.
LEMMA CountKeeps == ASSUME BytesInv, NEW b \in Byte, Count(b) PROVE BytesInv'
<1> USE DEF BytesInv, BytesType
<1>1. BytesType' BY DEF Count, Up
<1>3. ASSUME doubt' = {}
      PROVE  doubt = {} /\ ~Behind(b) /\ ~(ram'[b] = copy[b] /\ chip[b] # copy[b])
  <2>1. doubt = {} BY <1>3 DEF Count, Late
  <2>2. ~Behind(b)
    <3> SUFFICES ASSUME Behind(b) PROVE "late" \in doubt' BY <1>3
    <3> QED BY DEF Count, Late
  <2>3. ~(ram'[b] = copy[b] /\ chip[b] # copy[b])
    <3> SUFFICES ASSUME ram'[b] = copy[b] /\ chip[b] # copy[b] PROVE "back" \in doubt' BY <1>3
    <3> QED BY DEF Count
  <2> QED BY <2>1, <2>2, <2>3
<1>2. HeaderRight'
  <2>1. doubt' = {} => doubt = {} BY <1>3
  <2>2. ram'[0] = ram[0] /\ chip' = chip /\ saving' = saving BY DEF Count
  <2> QED BY <2>1, <2>2 DEF HeaderRight
<1>4. BehindIsStored' BY <1>3 DEF Count, BehindIsStored, Behind
<1>5. SkippedIsStored' BY <1>3 DEF Count, SkippedIsStored
<1>6. CopyIsLast' /\ SetupFirst' BY DEF Count, CopyIsLast, SetupFirst
<1> QED BY <1>1, <1>2, <1>4, <1>5, <1>6

LEMMA ResetKeeps == ASSUME BytesInv, NEW t \in Resetter, ResetCount(t) PROVE BytesInv'
<1> USE DEF BytesInv, BytesType
<1>0. t \in AnySaver BY DEF AnySaver
<1>1. BytesType' BY <1>0 DEF ResetCount, Up
<1>2. HeaderRight' BY <1>0 DEF ResetCount, Up, HeaderRight
<1>3. ASSUME doubt' = {}, NEW b \in Byte, ram'[b] # ram[b]
      PROVE  ~Behind(b) /\ ~(ram'[b] = copy[b] /\ chip[b] # copy[b])
  <2>2. ~Behind(b)
    <3> SUFFICES ASSUME Behind(b) PROVE "late" \in doubt' BY <1>3
    <3>1. b \in {c \in {x \in Byte : ram'[x] # ram[x]} : Behind(c)} BY <1>3
    <3> QED BY <3>1 DEF ResetCount, Late
  <2>3. ~(ram'[b] = copy[b] /\ chip[b] # copy[b])
    <3> SUFFICES ASSUME ram'[b] = copy[b] /\ chip[b] # copy[b] PROVE "back" \in doubt' BY <1>3
    <3>1. b \in {y \in Byte : ram[y] # copy[y] /\ ram'[y] = copy[y] /\ chip[y] # copy[y]} BY <1>3
    <3> QED BY <3>1 DEF ResetCount
  <2> QED BY <2>2, <2>3
<1>4. doubt' = {} => doubt = {} BY DEF ResetCount, Late
<1>5. ASSUME doubt' = {}, NEW u \in AnySaver, NEW b \in Byte,
             saving'[u].at # "off", b < saving'[u].ptr
      PROVE  chip'[b] = ram'[b]
  <2>1. u # t BY <1>5, <1>0 DEF ResetCount
  <2>2. saving'[u] = saving[u] /\ chip' = chip BY <2>1, <1>0 DEF ResetCount
  <2>3. Behind(b) BY <1>5, <2>2 DEF Behind
  <2>4. ram'[b] = ram[b] BY <1>3, <1>5, <2>3
  <2> QED BY <1>4, <1>5, <2>2, <2>4 DEF BehindIsStored
<1>6. BehindIsStored' BY <1>5 DEF BehindIsStored
<1>7. SkippedIsStored' BY <1>0, <1>3, <1>4 DEF ResetCount, SkippedIsStored, Up
<1>8. CopyIsLast' /\ SetupFirst' BY <1>0 DEF ResetCount, CopyIsLast, SetupFirst, Up
<1> QED BY <1>1, <1>2, <1>6, <1>7, <1>8

\* A save begins with nothing behind it; the header it writes is there already,
\* or it is a difference.
LEMMA SaveKeeps == ASSUME BytesInv, NEW t \in Saver, Save(t) PROVE BytesInv'
<1> USE DEF BytesInv, BytesType
<1>0. t \in AnySaver BY DEF AnySaver
<1>1. BytesType' BY <1>0 DEF Save, Up
<1>2. HeaderRight' BY <1>0 DEF Save, Up, HeaderRight
<1>3. BehindIsStored' BY <1>0 DEF Save, BehindIsStored, Up, HeaderRight
<1>4. SkippedIsStored' BY <1>0 DEF Save, SkippedIsStored, Up, HeaderRight
<1>5. CopyIsLast' /\ SetupFirst' BY <1>0 DEF Save, CopyIsLast, SetupFirst, Up
<1> QED BY <1>1, <1>2, <1>3, <1>4, <1>5

\* A scan passes bytes that are equal to the copy, and these are stored.
LEMMA ScanKeeps == ASSUME BytesInv, NEW t \in AnySaver, Scan(t) PROVE BytesInv'
<1> USE DEF BytesInv, BytesType
<1>1. PICK from \in Byte \union {Width} :
        /\ RunBegins(saving[t].ptr, from)
        /\ \/ from = Width /\ Reaches(t, "copy", Width, Width)
           \/ \E end \in Byte \union {Width} :
                RunEnds(from, end) /\ Reaches(t, "bus", from, end)
  BY DEF Scan
<1>0. UNCHANGED <<ram, copy, chip, bus, doubt>> /\ saving[t].at = "scan" BY DEF Scan
<1>2. /\ saving'[t].at \in {"copy", "bus"} /\ saving'[t].ptr = from
      /\ saving'[t].at = "copy" => from = Width
      /\ \A u \in AnySaver \ {t} : saving'[u] = saving[u]
      /\ BytesType'
  <2>1. CASE from = Width /\ Reaches(t, "copy", Width, Width) BY <1>0, <2>1
  <2>2. ASSUME NEW end \in Byte \union {Width}, Reaches(t, "bus", from, end)
        PROVE  /\ saving'[t].at = "bus" /\ saving'[t].ptr = from
               /\ \A u \in AnySaver \ {t} : saving'[u] = saving[u]
               /\ BytesType'
    BY <1>0, <2>2
  <2> QED BY <1>1, <2>1, <2>2
<1>3. ASSUME doubt = {}, NEW b \in Byte, b < from PROVE chip[b] = ram[b]
  <2>1. CASE b < saving[t].ptr BY <1>0, <1>2, <1>3, <2>1 DEF BehindIsStored
  <2>2. CASE ~(b < saving[t].ptr)
    <3>1. saving["setup"].at # "off" BY <1>0, <1>2 DEF SetupFirst
    <3>2. ~Differs(b) BY <1>1, <1>3, <2>2 DEF RunBegins
    <3> QED BY <1>3, <3>1, <3>2 DEF SkippedIsStored, Differs
  <2> QED BY <2>1, <2>2
<1>4. ASSUME doubt' = {}, NEW u \in AnySaver, NEW b \in Byte,
             saving'[u].at # "off", b < saving'[u].ptr
      PROVE  chip'[b] = ram'[b]
  <2>1. CASE u = t BY <1>0, <1>2, <1>3, <1>4, <2>1
  <2>2. CASE u # t BY <1>0, <1>2, <1>4, <2>2 DEF BehindIsStored
  <2> QED BY <2>1, <2>2
<1>5. BehindIsStored' BY <1>4 DEF BehindIsStored
<1>6. saving["setup"].at = "off" <=> saving'["setup"].at = "off" BY <1>0, <1>2
<1>7. SkippedIsStored' BY <1>0, <1>2, <1>6 DEF SkippedIsStored
<1>8. HeaderRight' BY <1>0, <1>2 DEF HeaderRight
<1>9. CopyIsLast' /\ SetupFirst' BY <1>0, <1>2, <1>6 DEF CopyIsLast, SetupFirst
<1> QED BY <1>0, <1>2, <1>5, <1>7, <1>8, <1>9

LEMMA TakeBusKeeps == ASSUME BytesInv, NEW t \in AnySaver, TakeBus(t) PROVE BytesInv'
<1> USE DEF BytesInv, BytesType
<1>1. BytesType' BY DEF TakeBus
<1> QED BY <1>1 DEF TakeBus, HeaderRight, BehindIsStored, SkippedIsStored, CopyIsLast, SetupFirst

\* A page is stored as the memory is, so it is no doubt stored.
LEMMA StorePageKeeps == ASSUME BytesInv, NEW t \in AnySaver, StorePage(t) PROVE BytesInv'
<1> USE DEF BytesInv, BytesType
<1>1. PICK n \in Int :
        /\ saving[t].at = "page" /\ UNCHANGED <<ram, copy, doubt>>
        /\ chip' = [b \in Byte |-> IF b \in saving[t].ptr .. saving[t].ptr + n - 1
                                   THEN ram[b] ELSE chip[b]]
        /\ \E p \in {"scan", "page"} :
             Reaches(t, p, saving[t].ptr + n, saving[t].ptre)
  <2> DEFINE s == saving[t]
             room == ChipPage - (s.ptr % ChipPage)
             m == IF s.ptre - s.ptr <= room THEN s.ptre - s.ptr ELSE room
  <2>1. s.ptr \in Int /\ s.ptre \in Int OBVIOUS
  <2>2. s.ptr % ChipPage \in Int BY <2>1
  <2>3. room \in Int BY <2>2
  <2>4. s.ptre - s.ptr \in Int BY <2>1
  <2>5. m = s.ptre - s.ptr \/ m = room OBVIOUS
  <2>6. m \in Int BY <2>3, <2>4, <2>5
  <2> QED BY <2>6 DEF StorePage
<1>2. \A b \in Byte : chip'[b] = ram[b] \/ chip'[b] = chip[b] BY <1>1
<1>3. BytesType' BY <1>1
<1>4. saving'[t].at \in {"scan", "page"} /\ \A u \in AnySaver \ {t} : saving'[u] = saving[u]
  BY <1>1
<1>5. HeaderRight'
  <2>1. ram[0] = HEADER BY <1>1 DEF HeaderRight
  <2>2. 0 \in Byte OBVIOUS
  <2> QED BY <1>1, <1>2, <1>4, <2>1, <2>2 DEF HeaderRight
<1>6. ASSUME doubt' = {}, NEW u \in AnySaver, NEW b \in Byte,
             saving'[u].at # "off", b < saving'[u].ptr
      PROVE  chip'[b] = ram'[b]
  <2>1. CASE u # t BY <1>1, <1>2, <1>4, <1>6, <2>1 DEF BehindIsStored
  <2>2. CASE u = t /\ b < saving[t].ptr BY <1>1, <1>2, <1>6, <2>2 DEF BehindIsStored
  <2>3. CASE u = t /\ ~(b < saving[t].ptr)
    <3>1. b \in saving[t].ptr .. saving[t].ptr + n - 1 BY <1>1, <1>6, <2>3
    <3> QED BY <1>1, <3>1
  <2> QED BY <2>1, <2>2, <2>3
<1>7. BehindIsStored' BY <1>6 DEF BehindIsStored
<1>8. SkippedIsStored'
  <2>1. doubt' = {} => doubt = {} BY <1>1
  <2>2. saving["setup"].at = "off" <=> saving'["setup"].at = "off" BY <1>1, <1>4
  <2> QED BY <1>1, <1>2, <2>1, <2>2 DEF SkippedIsStored
<1>9. CopyIsLast' /\ SetupFirst' BY <1>1, <1>4 DEF CopyIsLast, SetupFirst
<1> QED BY <1>3, <1>5, <1>7, <1>8, <1>9

LEMMA SaveFailsKeeps == ASSUME BytesInv, NEW t \in AnySaver, SaveFails(t) PROVE BytesInv'
<1> USE DEF BytesInv, BytesType
<1>1. BytesType' BY DEF SaveFails, CopyAfterError
<1>2. HeaderRight' BY DEF SaveFails, HeaderRight
<1>3. BehindIsStored' BY DEF SaveFails, BehindIsStored
<1>4. SkippedIsStored' BY DEF SaveFails, CopyAfterError, SkippedIsStored
<1>5. CopyIsLast' /\ SetupFirst' BY DEF SaveFails, CopyIsLast, SetupFirst
<1> QED BY <1>1, <1>2, <1>3, <1>4, <1>5

\* Behind a save that takes its copy is everything.
LEMMA TakesCopyKeeps == ASSUME BytesInv, NEW t \in AnySaver, TakesCopy(t) PROVE BytesInv'
<1> USE DEF BytesInv, BytesType
<1>1. BytesType' BY DEF TakesCopy
<1>2. HeaderRight' BY DEF TakesCopy, HeaderRight
<1>3. BehindIsStored' BY DEF TakesCopy, BehindIsStored
<1>4. SkippedIsStored'
  <2>1. saving[t].at = "copy" /\ saving[t].ptr = Width BY DEF TakesCopy, CopyIsLast
  <2>2. doubt = {} => \A b \in Byte : chip[b] = ram[b] BY <2>1 DEF BehindIsStored
  <2> QED BY <2>2 DEF TakesCopy, SkippedIsStored
<1>5. CopyIsLast' /\ SetupFirst' BY DEF TakesCopy, CopyIsLast, SetupFirst
<1> QED BY <1>1, <1>2, <1>3, <1>4, <1>5

\* A start with a header it knows has the EEPROM in memory and as its copy.
LEMMA BootKeeps == ASSUME BytesInv, Boot PROVE BytesInv'
<1> USE DEF BytesInv, BytesType
<1>0. Loaded \in [Byte -> Int] /\ 0 \in Byte BY DEF Loaded
<1>1. BytesType'
  <2>1. ram' \in [Byte -> Int] /\ copy' \in [Byte -> Int] /\ chip' = chip BY <1>0 DEF Boot
  <2>2. saving' \in [AnySaver -> [at : Places, ptr : Int, ptre : Int]] BY DEF Boot
  <2> QED BY <2>1, <2>2
<1>2. HeaderRight'
  <2>1. chip'[0] \in {HEADER, ERASED} BY DEF Boot, HeaderRight
  <2>2. \/ ram'[0] = HEADER
        \/ doubt' # {} /\ (\A t \in AnySaver : saving'[t].at = "idle")
    <3>0. ASSUME NEW f \in [Byte -> Int] PROVE Headed(f)[0] = HEADER
      OBVIOUS
    <3>1. CASE ram' = Headed(Loaded)
      <4>1. Headed(Loaded)[0] = HEADER BY <1>0, <3>0
      <4> QED BY <3>1, <4>1
    <3>2. CASE doubt' = {"unread"} /\ saving' = [t \in AnySaver |-> From0("idle")]
      BY <3>2
    <3> QED BY <3>1, <3>2 DEF Boot
  <2> QED BY <2>1, <2>2 DEF HeaderRight
<1>3. \A u \in AnySaver : saving'[u].ptr = 0 /\ saving'[u].at \in {"idle", "scan"} BY DEF Boot
<1>4. BehindIsStored' BY <1>3 DEF BehindIsStored
<1>5. SkippedIsStored'
  <2> SUFFICES ASSUME doubt' = {} PROVE copy' = chip' BY DEF SkippedIsStored
  <2>1. chip[0] # ERASED
    <3> SUFFICES ASSUME chip[0] = ERASED PROVE doubt' # {} OBVIOUS
    <3> QED BY DEF Boot
  <2> QED BY <2>1 DEF Boot, Loaded, HeaderRight
<1>6. CopyIsLast' /\ SetupFirst' BY <1>3 DEF CopyIsLast, SetupFirst
<1> QED BY <1>1, <1>2, <1>4, <1>5, <1>6

LEMMA BytesStep == BytesInv /\ [BytesNext]_bytesVars => BytesInv'
<1> SUFFICES ASSUME BytesInv, [BytesNext]_bytesVars PROVE BytesInv'
  OBVIOUS
<1>1. CASE UNCHANGED bytesVars
  BY <1>1 DEF BytesInv, BytesType, HeaderRight, BehindIsStored, SkippedIsStored,
    CopyIsLast, SetupFirst
<1> QED BY <1>1, BootKeeps, CountKeeps, SaveKeeps, ResetKeeps, ScanKeeps, TakeBusKeeps,
           StorePageKeeps, SaveFailsKeeps, TakesCopyKeeps DEF BytesNext

\* A byte that the next save will skip is stored as it is.
THEOREM NothingIsSkipped == BytesSpec => []NothingSkipped
<1>1. BytesInv => NothingSkipped
  BY DEF BytesInv, SkippedIsStored, NothingSkipped
<1> QED BY <1>1, BytesStart, BytesStep, PTL DEF BytesSpec

\* A save that reports success has stored everything.
THEOREM ReportsAreTrue == BytesSpec => []ReportIsTrue
<1>1. BytesInv => ReportIsTrue
  <2> SUFFICES ASSUME BytesInv, doubt = {}, NEW t \in AnySaver, saving[t].at = "copy"
               PROVE  chip = ram
    BY DEF ReportIsTrue
  <2>1. \A b \in Byte : chip[b] = ram[b]
    <3>1. saving[t].ptr = Width BY DEF BytesInv, CopyIsLast
    <3>2. \A b \in Byte : b < Width OBVIOUS
    <3> QED BY <3>1, <3>2 DEF BytesInv, BehindIsStored
  <2> QED BY <2>1 DEF BytesInv, BytesType
<1> QED BY <1>1, BytesStart, BytesStep, PTL DEF BytesSpec
=============================================================================
