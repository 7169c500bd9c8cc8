----------------------------- MODULE UsedWater -----------------------------
(***************************************************************************)
(* What the program counts and keeps in two places: today's litres, the    *)
(* weekday and the running regeneration in the clock's memory (RTC_store,  *)
(* update_RTC_store_memory), all else in the EEPROM (WorkStats; SavedBytes *)
(* has the inside of its save).  A new day and the end of a regeneration   *)
(* move a count from one place to the other; the power may fail between    *)
(* the two writes.                                                         *)
(***************************************************************************)
EXTENDS Naturals

CONSTANTS MaxPoured,    \* bound of this model on the litres poured
          MaxRegens,    \* and on the ends of a regeneration
          MaxDays,      \* and on the days that pass, less than a week
          WritesFail    \* may writes to the clock's memory fail?

ASSUME WithinAWeek == MaxDays \in 0 .. 6
ASSUME WaterBounded == MaxPoured \in Nat /\ MaxRegens \in Nat /\ WritesFail \in BOOLEAN

Updater == {"vService", "web"}
SaveAll == {"UsedToday", "Work", "Urgently"}    \* RTC_SaveAll, less UsedRegen

VARIABLES
  store,        \* RTC_store: today's litres, weekday and regeneration of Work
  stats,        \* WorkStats: UsedTotal and RegCnt
  need,         \* NeedSaveRTC
  needSave,     \* NeedSaveWorkStats
  update,       \* per task: place in update_RTC_store_memory, its copy, its what
  clock,        \* store as the clock's memory has it
  eeprom,       \* stats as the EEPROM has it
  weekday,      \* the day by the clock
  filter,       \* a filter's output says that it regenerates
  poured,       \* history: litres that were poured and counted
  ended,        \* history: regenerations whose end the program has seen
  crossed       \* history: what went to the two places in another order

waterVars == <<store, stats, need, needSave, update, clock, eeprom, weekday, filter,
               poured, ended, crossed>>
memory == <<store, stats, need, needSave>>
places == <<clock, eeprom>>
world == <<weekday, filter, poured, ended>>

Flag(name, on) == IF on THEN {name} ELSE {}

NewStore == [today |-> 0, day |-> 0, regen |-> FALSE]
NotUpdating == [at |-> "idle", copy |-> NewStore, what |-> {}]

WaterInit ==
  /\ store = NewStore /\ clock = NewStore
  /\ stats = [total |-> 0, regs |-> 0] /\ eeprom = stats
  /\ need = {} /\ needSave = FALSE
  /\ update = [u \in Updater |-> NotUpdating]
  /\ weekday = 0 /\ filter = FALSE
  /\ poured = 0 /\ ended = 0 /\ crossed = {}
-----------------------------------------------------------------------------
(* The house, and what vReadSensor and vPumps note of it *)

DayPasses == /\ weekday < MaxDays
             /\ weekday' = weekday + 1
             /\ UNCHANGED <<memory, update, places, filter, poured, ended, crossed>>

Pour ==
  /\ poured < MaxPoured
  /\ poured' = poured + 1
  /\ store' = [store EXCEPT !.today = @ + 1]
  /\ need' = need \union {"UsedToday"}
  /\ UNCHANGED <<stats, needSave, update, places, weekday, filter, ended, crossed>>

\* Regenerations are hours apart: the end of the last one is saved by then.
FilterTurns == /\ filter' = ~filter
               /\ filter' => eeprom.regs >= ended
               /\ UNCHANGED <<memory, update, places, weekday, poured, ended, crossed>>

RegenBegins ==
  /\ filter /\ ~store.regen
  /\ store' = [store EXCEPT !.regen = TRUE]
  /\ need' = SaveAll
  /\ UNCHANGED <<stats, needSave, update, places, world, crossed>>
-----------------------------------------------------------------------------
(* update_RTC_store_memory, of vService and of a restart from the browser *)

Steps(u, r) == update' = [update EXCEPT ![u] = r]
Free == \A u \in Updater : update[u].at # "what" /\ update[u].at # "write"

\* The semaphore of the bus, and the copy in a critical section.
TakesStore(u) ==
  /\ update[u].at = "begin" /\ Free
  /\ Steps(u, [update[u] EXCEPT !.at = "what", !.copy = store])
  /\ UNCHANGED <<memory, places, world, crossed>>

\* A bit that is set behind the copy is taken for saved.
ReadsNeed(u) ==
  /\ update[u].at = "what"
  /\ Steps(u, [update[u] EXCEPT !.at = "write", !.what = need])
  /\ UNCHANGED <<memory, places, world, crossed>>

Written(c, what) ==
  [today |-> IF "UsedToday" \in what THEN c.today ELSE clock.today,
   day |-> IF "Work" \in what THEN c.day ELSE clock.day,
   regen |-> IF "Work" \in what THEN c.regen ELSE clock.regen]

\* The end of a regeneration is to be in the EEPROM before the clock forgets it:
\* vService sees to that, a restart from the browser may come between.
WritesClock(u) ==
  /\ update[u].at = "write"
  /\ clock' = Written(update[u].copy, update[u].what)
  /\ need' = IF update[u].what = {} THEN need ELSE {}
  /\ crossed' = crossed \union
       Flag("regen", u = "web" /\ eeprom.regs < ended)
  /\ Steps(u, NotUpdating)
  /\ UNCHANGED <<store, stats, needSave, eeprom, world>>

\* The bus was busy, or the chip did not answer.
ClockFails(u) ==
  /\ WritesFail
  /\ update[u].at \in {"begin", "write"}
  /\ Steps(u, NotUpdating)
  /\ UNCHANGED <<memory, places, world, crossed>>
-----------------------------------------------------------------------------
(* vService *)

Serves == update["vService"].at = "idle"
Begins(u) == Steps(u, [NotUpdating EXCEPT !.at = "begin"])

BrokenSaveOfDay == SaveAll \ {"UsedToday"}
SaveOfDay == SaveAll

\* The first minute of a day, with the scheduler suspended; it does not wait for
\* the end of a regeneration to be saved.
NewDay ==
  /\ Serves /\ store.day # weekday
  /\ store' = [store EXCEPT !.day = weekday, !.today = 0]
  /\ stats' = [stats EXCEPT !.total = @ + store.today]
  /\ need' = SaveOfDay /\ needSave' = TRUE
  /\ Begins("vService")
  /\ crossed' = crossed \union Flag("regen", eeprom.regs < ended)
  /\ UNCHANGED <<places, world>>

\* A new day is to be in the clock's memory before the EEPROM has its total.
Saves == /\ eeprom' = stats
         /\ crossed' = crossed \union Flag("day", clock.day # store.day)

ServiceSaves ==
  /\ Serves /\ needSave
  /\ Saves /\ needSave' = FALSE
  /\ UNCHANGED <<store, stats, need, update, clock, world>>

\* At once, or with the next minute.
ServiceUpdates ==
  /\ Serves /\ ~needSave /\ need # {}
  /\ Begins("vService")
  /\ UNCHANGED <<memory, places, world, crossed>>

BrokenEndNeeds == needSave
EndNeeds == TRUE

RegenEnds ==
  /\ Serves /\ ~needSave /\ "Urgently" \notin need
  /\ store.regen /\ ~filter /\ ended < MaxRegens
  /\ store' = [store EXCEPT !.regen = FALSE]
  /\ stats' = [stats EXCEPT !.regs = @ + 1]
  /\ ended' = ended + 1
  /\ need' = need \union {"Work", "Urgently"} /\ needSave' = EndNeeds
  /\ crossed' = crossed \union Flag("unnoted", ~clock.regen)
  /\ UNCHANGED <<update, places, weekday, filter, poured>>
-----------------------------------------------------------------------------
\* The counters are saved every hour, by the browser, and before a restart from
\* there, which also asks for all of the clock's memory.
OthersSave == /\ Saves
              /\ UNCHANGED <<memory, update, clock, world>>

WebUpdates == /\ update["web"].at = "idle"
              /\ need' = SaveAll
              /\ Begins("web")
              /\ UNCHANGED <<store, stats, needSave, places, world, crossed>>

\* The power fails, and the program starts with what the two places have: an end
\* that it has seen and not saved it will see again.
PowerFails ==
  /\ store' = clock /\ stats' = eeprom
  /\ need' = {} /\ needSave' = FALSE
  /\ update' = [u \in Updater |-> NotUpdating]
  /\ ended' = IF clock.regen /\ ~store.regen /\ eeprom.regs < ended THEN ended - 1 ELSE ended
  /\ UNCHANGED <<places, weekday, filter, poured, crossed>>

WaterNext ==
  \/ DayPasses \/ Pour \/ FilterTurns \/ RegenBegins
  \/ NewDay \/ ServiceSaves \/ ServiceUpdates \/ RegenEnds
  \/ OthersSave \/ WebUpdates \/ PowerFails
  \/ \E u \in Updater : TakesStore(u) \/ ReadsNeed(u) \/ WritesClock(u) \/ ClockFails(u)

WaterSpec == WaterInit /\ [][WaterNext]_waterVars
-----------------------------------------------------------------------------
\* No litre is counted twice, neither in memory nor after a power failure at any
\* point, unless the day's total was saved before the clock knew of the new day.
CountedOnce == "day" \notin crossed =>
  /\ stats.total + store.today <= poured
  /\ eeprom.total + clock.today <= poured

\* No end of a regeneration that the program has seen is missing in RegCnt,
\* power failures included, or it will see the end again; unless the clock
\* forgot the regeneration before the EEPROM had it, or never knew of it.
RegensCounted == crossed \intersect {"regen", "unnoted"} = {} =>
  /\ ended <= stats.regs + IF store.regen THEN 1 ELSE 0
  /\ ended <= eeprom.regs + IF clock.regen THEN 1 ELSE 0
=============================================================================
