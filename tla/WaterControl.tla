--------------------------- MODULE WaterControl ---------------------------
(***************************************************************************)
(* The controller proper: the four tasks of WaterTreatment.ino that decide *)
(* about pumps and valves, and the state they share without a lock.        *)
(*                                                                         *)
(*   vPumps       priority 4, a pass every TIME_SLICE_PUMPS                *)
(*   vKeysLCD     priority 4, the operator (and the web server, priority 1)*)
(*   vReadSensor  priority 3, power meter, flow sensor, scale              *)
(*   vService     priority 2, the one-second and one-minute housekeeping   *)
(*                                                                         *)
(* vPumps preempts everything else, so between two of its sleeps it is     *)
(* atomic for the others.  It sleeps at the end of a pass and, because a   *)
(* valve relay that switches writes a journal line to the EEPROM           *)
(* (devRelay::set_Relay), also in the middle of one.  A pass is therefore  *)
(* cut exactly at those places, and the tasks below it are cut where they  *)
(* can be preempted between a read and the write that depends on it.       *)
(*                                                                         *)
(* Time is counted in the unit of the option concerned (ms in the code,    *)
(* multiples of Slice here; the drain timers in seconds of vService).      *)
(*                                                                         *)
(* An operator whose name begins with Broken is the definition after it as *)
(* a slip of the pen would have it.  Nothing uses it: put in the place of  *)
(* the right one, it makes the property named beside it fail.              *)
(***************************************************************************)
EXTENDS Integers, FiniteSets

CONSTANTS
  Readings,               \* what the inputs and the ADC may show: a set of Reading records
  ERROR_PRESS,            \* value of an ADC channel before its first conversion
  Slice,                  \* TIME_SLICE_PUMPS
  TickMod,                \* number of values of the counter WaterBoosterTimeout (2^32)
  MinWaterBoostOnTime, MinWaterBoostOffTime,
  PWATER_Min, PWATER_Max, PWATER_RegMin,          \* pressures that start and stop the booster
  LTANK_Empty, LTANK_Min, LTANK_Max, FILL_TANK_REGEN_DELTA,
  FILLING_TANK_STEP, FillingTankTimeout,
  FloodingDebounceTime, FloodingTimeout, CriticalErrorsTimeout,
  FloodCap,               \* bound: the age of FloodingTime saturates here
  MinPumpOnTime, Doses,   \* dosing time a flow reading may ask for
  FeedCap,                \* bound: TimeFeedPump is not raised beyond it
  PWM_StartingTime, PowerReadings, PowerReadOk, WeightReadings,
  DrainTime, DrainingWaterAfterRegen,
  IdleDrain,              \* BOOLEAN: does the drain after no consumption ever fall due
  NewDay,                 \* BOOLEAN: may a day end
  Due,                    \* filters ("F1", "F2") whose regeneration may fall due
  SaveOk,                 \* results the EEPROM and the clock's memory may give to a save
  Clears,                 \* BOOLEAN: may the operator clear the errors
  Switchable,             \* relays the operator may switch by hand
  DebugToJournalOn,       \* BOOLEAN: option fDebugToJournal, relay switches are journaled
  Resets                  \* BOOLEAN: may the controller restart

Relay == {"RBOOSTER1", "RBOOSTER2", "RFEEDPUMP", "RWATEROFF", "RDRAIN", "RFILL",
          "RSTARTREG", "RSTARTREG2"}
Journaled == Relay \ {"RBOOSTER1", "RBOOSTER2", "RFEEDPUMP"}
RelayFlag == {"Main", "Manual"}
Filter == {"F1", "F2"}
ERRC == {"WaterBooster", "Flooding", "TankEmpty", "WeightEmpty"}
ErrorCode == {"TANK_EMPTY", "FLOODING", "LEAK", "TANK_NO_FILLING", "FEW_LITERS_DRAIN",
              "FEW_LITERS_REG", "START_REG", "START_REG2", "PWM_DRY_RUN", "PWM_MAX",
              "WEIGHT_EMPTY", "WEIGHT_LOW"}
OK == "OK"
NoFlood == -1             \* FloodingTime = 0
Reading == [regA : BOOLEAN, back : BOOLEAN, reg2 : BOOLEAN, flood : BOOLEAN, leak : BOOLEAN,
            press : Int, level : Int]

ASSUME OptionsAssumption ==
  /\ Readings \subseteq Reading
  /\ Slice \in Nat \ {0}
  /\ TickMod \in Nat /\ TickMod > Slice
  /\ MinWaterBoostOnTime \in Nat /\ MinWaterBoostOffTime \in Nat
  /\ {ERROR_PRESS, PWATER_Min, PWATER_Max, PWATER_RegMin} \subseteq Int
  /\ {LTANK_Empty, LTANK_Min, LTANK_Max, FILL_TANK_REGEN_DELTA} \subseteq Int
  /\ FILLING_TANK_STEP \in Int /\ FillingTankTimeout \in Nat
  /\ FloodingDebounceTime \in Nat /\ FloodingTimeout \in Nat /\ CriticalErrorsTimeout \in Nat
  /\ FloodCap \in Nat /\ FloodCap > FloodingDebounceTime /\ FloodCap > FloodingTimeout
  /\ MinPumpOnTime \in Nat
  /\ Doses \subseteq Nat /\ FeedCap \in Nat
  /\ PWM_StartingTime \in Nat
  /\ PowerReadings \subseteq {"normal", "dry", "over"} /\ PowerReadOk \subseteq BOOLEAN
  /\ WeightReadings \subseteq {"ok", "low", "empty"}
  /\ DrainTime \in Nat /\ DrainingWaterAfterRegen \in Nat
  /\ Due \subseteq Filter /\ SaveOk \subseteq BOOLEAN
  /\ Switchable \subseteq Relay
  /\ {IdleDrain, NewDay, Clears, DebugToJournalOn, Resets} \subseteq BOOLEAN

VARIABLES
  sens,          \* sInput[] and sADC[]: what vPumps last read
  critical,      \* CriticalErrors, a set of ERRC bits
  critTimer,     \* CriticalErrors_timeout of vPumps
  status,        \* WaterBoosterStatus: 0, 1, 2 or -1
  wbTimer,       \* WaterBoosterTimeout
  floodAge,      \* ticks since FloodingTime, NoFlood when that is 0
  feedTime,      \* TimeFeedPump
  fillAge,       \* ticks since FillingTankTimer, up to FillingTankTimeout
  fillLevel,     \* FillingTankLastLevel
  drainTimer,    \* TimerDrainingWater
  drainAfter,    \* TimerDrainingWaterAfterRegen
  relay,         \* dRelay[].flags: which algorithms hold each relay on
  work,          \* the regeneration bits of RTC_store.Work
  rtcWork,       \* their copy in the clock's battery-backed memory
  needRtc,       \* NeedSaveRTC, urgent
  needStats,     \* NeedSaveWorkStats
  due,           \* filters whose day or litre counter asks for a regeneration
  newErr,        \* vPumpsNewError, the one-place mailbox from vPumps to vService
  errs,          \* Errors[], as a set
  lastErr,       \* MC.error
  power,         \* dPWM.Power, relative to PWM_DryRun and PWM_Max
  ppc, asleep,   \* vPumps: where it is, and whether it sleeps there
  rpc, rpre, rcrit, rfeed,    \* vReadSensor: step, preempted by vPumps since, loaded values
  spc, sval, sreg, swork,     \* vService: step, loaded timer, filter at hand, loaded Work
  ticked,        \* vService has begun a second since vPumps last began a pass
  opc            \* the operator's clear_all_errors: step

boosterVars == <<status, wbTimer>>
fillVars == <<fillAge, fillLevel>>
drainVars == <<drainTimer, drainAfter>>
errorVars == <<errs, lastErr>>
saveVars == <<rtcWork, needRtc, needStats, due>>
sensorVars == <<rpc, rcrit, rfeed, power>>
serviceVars == <<spc, sval, sreg, swork, ticked>>
othersVars == <<sensorVars, spc, sval, sreg, swork, errorVars, opc>>  \* not for vPumps to write
vars == <<sens, critical, critTimer, status, wbTimer, floodAge, feedTime, fillAge, fillLevel,
          drainTimer, drainAfter, relay, work, rtcWork, needRtc, needStats, due, newErr, errs,
          lastErr, power, ppc, asleep, rpc, rpre, rcrit, rfeed, spc, sval, sreg, swork, ticked, opc>>

Minimum(a, b) == IF a < b THEN a ELSE b

-----------------------------------------------------------------------------
(* Relays.  A relay is on while any algorithm holds it (devRelay::set_Relay). *)

On(r) == relay[r] # {}

\* The relays after set_ON() on those in on and set_OFF() on those in off.
Switched(on, off) ==
  [r \in Relay |-> IF r \in on THEN relay[r] \cup {"Main"}
                   ELSE IF r \in off THEN relay[r] \ {"Main"} ELSE relay[r]]

\* vPumps sleeps while the journal line of a relay that switched is written.
SleepsInJournal ==
  asleep' = (DebugToJournalOn /\ \E r \in Journaled : (relay[r] = {}) # (relay'[r] = {}))

StartRelay(f) == IF f = "F1" THEN "RSTARTREG" ELSE "RSTARTREG2"

\* set_Error(e): the current error, and the list of active ones without duplicates.
Raise(e) == /\ lastErr' = e
            /\ errs' = errs \cup {e}
-----------------------------------------------------------------------------
(* vPumps *)

\* Steps of vReadSensor that store what it has computed from a value loaded before.
Storing == {"trip", "dose", "weightEmpty", "weightOk"}

\* vPumps runs from step at.  When it wakes it may find vReadSensor inside a
\* read-modify-write, but that has ended before vPumps wakes a second time.
PumpsRun(at) ==
  /\ ppc = at
  /\ (asleep /\ rpc \in Storing) => ~rpre
  /\ rpre' = (rpc \in Storing)

PumpsAt(at) == PumpsRun(at) /\ UNCHANGED ticked
PumpsGo(to) == ppc' = to /\ asleep' = FALSE
PumpsDelay == ppc' = "delay" /\ asleep' = TRUE

BrokenAdvanced(t) == (t + Slice) % TickMod                         \* KeepsPromise

\* WaterBoosterTimeout += Slice, kept at its largest value once it wraps.
Advanced(t) == LET s == (t + Slice) % TickMod IN IF s < Slice THEN TickMod - 1 ELSE s

FloodAged == IF floodAge = NoFlood THEN NoFlood ELSE Minimum(floodAge + Slice, FloodCap)

Leaking(s) == s.flood \/ s.leak

BrokenDebounceAge == 0                                             \* FloodValveShuts
BrokenTripError == newErr                                          \* TripReported
BrokenDryLongEnough == floodAge = NoFlood \/ FloodAged >= FloodingTimeout   \* ReopenedAfterDry
BrokenDryForSeconds == FloodAged > 1000 * FloodingTimeout            \* FloodValveReleases

\* FloodingTime is stamped when the inputs turn wet.
DebounceAge == IF floodAge = NoFlood THEN 0 ELSE FloodAged

TripError == IF sens'.flood THEN "FLOODING" ELSE "LEAK"

\* The flooding inputs are wet: start the debounce, wait for its end, or trip.
FloodWet(err) ==
  \/ /\ FloodAged \in NoFlood .. FloodingDebounceTime
     /\ floodAge' = DebounceAge
     /\ newErr' = err
     /\ UNCHANGED relay
     /\ PumpsGo("water")
  \/ /\ FloodAged > FloodingDebounceTime
     /\ floodAge' = 0
     /\ newErr' = TripError
     /\ relay' = Switched({}, {"RFILL"})
     /\ ppc' = "floodDrain" /\ SleepsInJournal

\* A FloodingTime of 0 counts as long ago: the difference is then the uptime.
DryLongEnough == floodAge = NoFlood \/ FloodAged > FloodingTimeout

\* The flooding inputs are dry: after FloodingTimeout the water is let in again.
FloodDry(err) ==
  /\ newErr' = err
  /\ \/ /\ "Flooding" \in critical' /\ DryLongEnough
        /\ relay' = Switched({}, {"RWATEROFF"})
        /\ floodAge' = FloodAged
        /\ ppc' = "unflood" /\ SleepsInJournal
     \/ /\ "Flooding" \in critical' /\ ~DryLongEnough
        /\ floodAge' = FloodAged
        /\ UNCHANGED relay
        /\ PumpsGo("water")
     \/ /\ "Flooding" \notin critical'
        /\ floodAge' = NoFlood
        /\ UNCHANGED relay
        /\ PumpsGo("water")

\* The head of a pass: timers, sensors, empty tank, flooding.  The inputs are
\* read in every pass, the ADC channels when adc says that they were converted.
PumpsSense(adc) ==
  /\ PumpsRun("delay") /\ ticked' = FALSE
  /\ critTimer' = IF critical # {} THEN CriticalErrorsTimeout
                  ELSE IF critTimer >= Slice THEN critTimer - Slice ELSE 0
  /\ wbTimer' = Advanced(wbTimer)
  /\ fillAge' = Minimum(fillAge + Slice, FillingTankTimeout)
  /\ sens.level = ERROR_PRESS => adc
  /\ \E now \in Readings :
       /\ sens' = IF adc THEN now ELSE [now EXCEPT !.press = sens.press, !.level = sens.level]
       /\ LET empty == adc /\ sens'.level < LTANK_Empty
              err == IF empty /\ "TankEmpty" \notin critical THEN "TANK_EMPTY" ELSE newErr
          IN /\ critical' = IF empty THEN critical \cup {"TankEmpty"}
                            ELSE IF adc /\ critTimer' = 0 THEN critical \ {"TankEmpty"}
                            ELSE critical
             /\ \/ Leaking(sens') /\ FloodWet(err)
                \/ ~Leaking(sens') /\ FloodDry(err)
  /\ UNCHANGED <<status, feedTime, fillLevel, drainVars, work, othersVars, saveVars>>

\* Flooding tripped: stop a drain in progress (its journal line first) ...
PumpsFloodDrain ==
  /\ PumpsAt("floodDrain")
  /\ relay' = Switched({}, {"RDRAIN"})
  /\ ppc' = IF On("RDRAIN") THEN "floodTimers" ELSE "floodValve"
  /\ SleepsInJournal
  /\ UNCHANGED <<sens, critical, critTimer, boosterVars, floodAge, feedTime, fillVars,
                 drainVars, work, newErr, othersVars, saveVars>>

\* ... and its timers ...
PumpsFloodTimers ==
  /\ PumpsAt("floodTimers")
  /\ drainTimer' = 0 /\ drainAfter' = 0
  /\ PumpsGo("floodValve")
  /\ UNCHANGED <<sens, critical, critTimer, boosterVars, floodAge, feedTime, fillVars, relay,
                 work, newErr, othersVars, saveVars>>

\* ... stop dosing and shut the water off ...
PumpsFloodValve ==
  /\ PumpsAt("floodValve")
  /\ relay' = Switched({"RWATEROFF"}, {"RFEEDPUMP"})
  /\ ppc' = "floodMark" /\ SleepsInJournal
  /\ UNCHANGED <<sens, critical, critTimer, boosterVars, floodAge, feedTime, fillVars,
                 drainVars, work, newErr, othersVars, saveVars>>

\* ... and raise the critical error; the booster is then stopped by PumpsWater.
PumpsFloodMark ==
  /\ PumpsAt("floodMark")
  /\ critical' = critical \cup {"Flooding"}
  /\ PumpsGo("water")
  /\ UNCHANGED <<sens, critTimer, boosterVars, floodAge, feedTime, fillVars, drainVars, relay,
                 work, newErr, othersVars, saveVars>>

PumpsUnflood ==
  /\ PumpsAt("unflood")
  /\ critical' = critical \ {"Flooding"}
  /\ floodAge' = NoFlood
  /\ PumpsGo("water")
  /\ UNCHANGED <<sens, critTimer, boosterVars, feedTime, fillVars, drainVars, relay, work,
                 newErr, othersVars, saveVars>>

Regenerating == (IF sens.regA \/ sens.back THEN {"F1"} ELSE {})
                \cup (IF sens.reg2 THEN {"F2"} ELSE {})

\* The water booster: stage one, then both; off in the reverse order.
BoosterStarts ==
  /\ status = 0 /\ critical = {}
  /\ sens.press # ERROR_PRESS
  /\ wbTimer >= MinWaterBoostOffTime
  /\ sens.press <= IF Regenerating # {} THEN PWATER_RegMin ELSE PWATER_Min

BrokenBoosterStops == wbTimer >= MinWaterBoostOnTime /\ sens.press >= PWATER_Max   \* FaultStopsBooster

BoosterStops ==
  \/ critical # {}
  \/ wbTimer >= MinWaterBoostOnTime /\ sens.press >= PWATER_Max

\* BoosterReleased: both stages at once.
BrokenBoosterNext ==
  CASE status = 0 -> IF BoosterStarts THEN 1 ELSE 0
    [] OTHER -> IF BoosterStops THEN 0 ELSE 2

BoosterNext ==
  CASE status = 0 -> IF BoosterStarts THEN 1 ELSE 0
    [] status = 1 -> IF BoosterStops THEN 0 ELSE 2
    [] status = 2 -> IF BoosterStops THEN -1 ELSE 2
    [] OTHER -> 0

BrokenFeedSpent == IF On("RFEEDPUMP") THEN feedTime - Slice ELSE feedTime    \* TypeOK
BrokenDosingEnds == On("RFEEDPUMP") /\ feedTime < Slice             \* DosingPaidFor

\* TimeFeedPump after this pass, and the end of dosing.
FeedSpent == IF On("RFEEDPUMP") /\ feedTime >= Slice THEN feedTime - Slice ELSE feedTime

DosingEnds == On("RFEEDPUMP") /\ FeedSpent < Slice

BrokenTankFull == sens.level > LTANK_Max                           \* FillingEnds
BrokenFillStarts == sens.level <= LTANK_Min /\ ~On("RFILL")         \* FloodStopsFilling

TankLow == sens.level <= IF sens.back THEN LTANK_Max - FILL_TANK_REGEN_DELTA ELSE LTANK_Min
TankFull == ~TankLow /\ sens.level >= LTANK_Max
FillStarts == TankLow /\ ~On("RFILL") /\ critical \subseteq {"TankEmpty"}

WaterOn ==
  (IF status = 0 /\ BoosterNext = 1 THEN {"RBOOSTER1"} ELSE {})
  \cup (IF status = 1 /\ BoosterNext = 2 THEN {"RBOOSTER2"} ELSE {})
  \cup (IF ~On("RFEEDPUMP") /\ feedTime >= MinPumpOnTime THEN {"RFEEDPUMP"} ELSE {})
  \cup (IF FillStarts THEN {"RFILL"} ELSE {})

WaterOff ==
  (IF status # 0 /\ BoosterNext = 0 THEN {"RBOOSTER1"} ELSE {})
  \cup (IF BoosterNext = -1 THEN {"RBOOSTER2"} ELSE {})
  \cup (IF DosingEnds THEN {"RFEEDPUMP"} ELSE {})
  \cup (IF TankFull THEN {"RFILL"} ELSE {})

\* A tank that is being filled, with nobody taking water, must gain a step in time.
FillWatched == TankLow /\ On("RFILL") /\ FillingTankTimeout # 0
FillOverdue == /\ FillWatched /\ BoosterNext = 0 /\ drainTimer = 0
               /\ fillAge >= FillingTankTimeout
FillRestarted == \/ FillStarts \/ FillOverdue
                 \/ FillWatched /\ (BoosterNext # 0 \/ drainTimer # 0)

\* The body of a pass: booster, dosing pump, tank.
PumpsWater ==
  /\ PumpsAt("water")
  /\ status' = BoosterNext
  /\ wbTimer' = IF BoosterNext # status /\ BoosterNext \in {0, 1} THEN 0 ELSE wbTimer
  /\ feedTime' = FeedSpent
  /\ relay' = Switched(WaterOn, WaterOff)
  /\ newErr' = IF FillOverdue /\ sens.level - fillLevel < FILLING_TANK_STEP
               THEN "TANK_NO_FILLING" ELSE newErr
  /\ fillLevel' = IF FillRestarted THEN sens.level ELSE fillLevel
  /\ fillAge' = IF FillRestarted THEN 0 ELSE fillAge
  /\ ppc' = "regen" /\ SleepsInJournal
  /\ UNCHANGED <<sens, critical, critTimer, floodAge, drainVars, work, othersVars, saveVars>>

\* The tail of a pass: a filter reports that it regenerates (F1 first).
PumpsFilter == IF "F1" \in Regenerating THEN "F1" ELSE "F2"

PumpsRegen ==
  /\ PumpsAt("regen")
  /\ IF Regenerating = {}
     THEN PumpsDelay /\ UNCHANGED relay
     ELSE /\ relay' = Switched({}, {StartRelay(PumpsFilter)})
          /\ ppc' = "regenMark" /\ SleepsInJournal
  /\ UNCHANGED <<sens, critical, critTimer, boosterVars, floodAge, feedTime, fillVars,
                 drainVars, work, newErr, othersVars, saveVars>>

PumpsRegenMark ==
  /\ PumpsAt("regenMark")
  /\ IF PumpsFilter \in work
     THEN PumpsDelay /\ UNCHANGED <<work, relay>>
     ELSE /\ work' = work \cup {PumpsFilter}
          /\ relay' = IF PumpsFilter = "F1" THEN Switched({"RWATEROFF"}, {}) ELSE relay
          /\ ppc' = "regenSave" /\ SleepsInJournal
  /\ UNCHANGED <<sens, critical, critTimer, boosterVars, floodAge, feedTime, fillVars,
                 drainVars, newErr, othersVars, saveVars>>

PumpsRegenSave ==
  /\ PumpsAt("regenSave")
  /\ needRtc' = TRUE
  /\ PumpsDelay
  /\ UNCHANGED <<sens, critical, critTimer, boosterVars, floodAge, feedTime, fillVars,
                 drainVars, relay, work, newErr, othersVars, rtcWork, needStats, due>>

PumpsAct ==
  \/ PumpsFloodDrain \/ PumpsFloodTimers \/ PumpsFloodValve \/ PumpsFloodMark
  \/ PumpsUnflood
  \/ PumpsWater
  \/ PumpsRegen \/ PumpsRegenMark \/ PumpsRegenSave
Pumps == PumpsAct \/ \E adc \in BOOLEAN : PumpsSense(adc)
-----------------------------------------------------------------------------
(* vReadSensor: power meter, flow sensor, then its delays, in which it      *)
(* weighs.  It runs while vPumps sleeps; only vPumps (and the keys) can     *)
(* come between the two halves of its read-modify-writes.                   *)

SensorRun(at) == asleep /\ rpc = at

sensorFrame == <<sens, critTimer, status, wbTimer, floodAge, fillAge, fillLevel, drainTimer,
                 drainAfter, relay, work, newErr, ppc, asleep, rpre, opc>>

\* The power meter.  The check is made when get_readState() returns an error,
\* that is on the power of the last reading that succeeded.
SensorPower ==
  /\ SensorRun("power")
  /\ \E ok \in PowerReadOk, p \in PowerReadings :
       /\ power' = IF ok THEN p ELSE power
       /\ IF ~ok /\ status > 0 /\ wbTimer > PWM_StartingTime /\ power # "normal"
          THEN rpc' = "trip" /\ rcrit' = critical
          ELSE rpc' = "flow" /\ UNCHANGED rcrit
  /\ UNCHANGED <<sensorFrame, critical, feedTime, rfeed, serviceVars, errorVars, saveVars>>

SensorTrip ==
  /\ SensorRun("trip")
  /\ critical' = rcrit \cup {"WaterBooster"}
  /\ Raise(IF power = "dry" THEN "PWM_DRY_RUN" ELSE "PWM_MAX")
  /\ rpc' = "flow" /\ rcrit' = {}
  /\ UNCHANGED <<sensorFrame, feedTime, rfeed, power, serviceVars, saveVars>>

\* The flow sensor asks for dosing time.
SensorFlow ==
  /\ SensorRun("flow")
  /\ \E d \in Doses : feedTime + d <= FeedCap /\ rfeed' = feedTime + d
  /\ rpc' = "dose"
  /\ UNCHANGED <<sensorFrame, critical, feedTime, rcrit, power, serviceVars, errorVars,
                 saveVars>>

SensorDose ==
  /\ SensorRun("dose")
  /\ feedTime' = rfeed
  /\ rpc' = "power" /\ rfeed' = 0
  /\ UNCHANGED <<sensorFrame, critical, rcrit, power, serviceVars, errorVars, saveVars>>

\* The scale of the reagent tank: empty, low, or well filled.
SensorWeight ==
  /\ SensorRun("power")
  /\ \E w \in WeightReadings :
       \/ /\ w = "empty" /\ "WeightEmpty" \notin critical
          /\ rpc' = "weightEmpty" /\ rcrit' = critical
          /\ UNCHANGED errorVars
       \/ /\ w = "low" /\ "WeightEmpty" \notin critical
          /\ Raise("WEIGHT_LOW")
          /\ UNCHANGED <<rpc, rcrit>>
       \/ /\ w = "ok" /\ "WeightEmpty" \in critical
          /\ rpc' = "weightOk" /\ rcrit' = critical
          /\ UNCHANGED errorVars
  /\ UNCHANGED <<sensorFrame, critical, feedTime, rfeed, power, serviceVars, saveVars>>

SensorWeightEmpty ==
  /\ SensorRun("weightEmpty")
  /\ critical' = rcrit \cup {"WeightEmpty"}
  /\ Raise("WEIGHT_EMPTY")
  /\ rpc' = "power" /\ rcrit' = {}
  /\ UNCHANGED <<sensorFrame, feedTime, rfeed, power, serviceVars, saveVars>>

SensorWeightOk ==
  /\ SensorRun("weightOk")
  /\ critical' = rcrit \ {"WeightEmpty"}
  /\ rpc' = "power" /\ rcrit' = {}
  /\ UNCHANGED <<sensorFrame, feedTime, rfeed, power, serviceVars, errorVars, saveVars>>

SensorStore == SensorTrip \/ SensorDose \/ SensorWeightEmpty \/ SensorWeightOk
Sensor == SensorPower \/ SensorFlow \/ SensorWeight \/ SensorStore
-----------------------------------------------------------------------------
(* vService.  It runs while vPumps and vReadSensor sleep. *)

ServiceAt(at) == asleep /\ rpc \notin Storing /\ spc = at
ServiceRun(at) == ServiceAt(at) /\ UNCHANGED ticked
ServiceGo(to) == spc' = to /\ UNCHANGED <<sval, sreg, swork>>

serviceFrame == <<sens, critical, critTimer, status, wbTimer, floodAge, feedTime, power,
                  ppc, asleep, rpc, rpre, rcrit, rfeed, opc>>

\* Empty the mailbox of vPumps: report its error, then clear it.
ServicePost ==
  /\ ServiceRun("idle")
  /\ newErr # OK
  /\ Raise(newErr)
  /\ ServiceGo("clear")
  /\ UNCHANGED <<serviceFrame, relay, drainVars, fillVars, work, newErr, saveVars>>

ServiceClear ==
  /\ ServiceRun("clear")
  /\ newErr' = OK
  /\ ServiceGo("idle")
  /\ UNCHANGED <<serviceFrame, relay, drainVars, fillVars, work, errorVars, saveVars>>

\* The mailbox is empty and a second has passed (so a pass of vPumps at least):
\* load the drain timer that runs, if any.
ServiceSecond ==
  /\ ServiceAt("idle") /\ newErr = OK /\ ~ticked /\ ticked' = TRUE
  /\ IF drainTimer > 0 THEN spc' = "countDrain" /\ sval' = drainTimer
     ELSE IF drainAfter > 0 THEN spc' = "countAfter" /\ sval' = drainAfter
     ELSE spc' = "second" /\ UNCHANGED sval
  /\ UNCHANGED <<sreg, swork>>
  /\ UNCHANGED <<serviceFrame, relay, drainVars, fillVars, work, newErr, errorVars, saveVars>>

BrokenDrainCloses(t) == t - 1 < 0                                  \* DrainEnds
BrokenAfterCloses(t) == t = 0                                      \* DrainHasTimer

\* The valve closes when the timer that was t gets to two, or the other to zero.
DrainCloses(t) == t - 1 <= 2
AfterCloses(t) == t - 1 = 0

\* TimerDrainingWater--
ServiceCountDrain ==
  /\ ServiceRun("countDrain")
  /\ drainTimer' = sval - 1
  /\ sval' = 0
  /\ IF DrainCloses(sval) THEN relay' = Switched({}, {"RDRAIN"}) /\ spc' = "drained"
     ELSE UNCHANGED relay /\ spc' = "second"
  /\ UNCHANGED <<sreg, swork, drainAfter>>
  /\ UNCHANGED <<serviceFrame, fillVars, work, newErr, errorVars, saveVars>>

\* The drain is over: too little water may have left.
ServiceDrained ==
  /\ ServiceRun("drained")
  /\ \/ drainTimer = 0 /\ Raise("FEW_LITERS_DRAIN")
     \/ UNCHANGED errorVars
  /\ ServiceGo("second")
  /\ UNCHANGED <<serviceFrame, relay, drainVars, fillVars, work, newErr, saveVars>>

ServiceCountAfter ==
  /\ ServiceRun("countAfter")
  /\ drainAfter' = sval - 1
  /\ relay' = IF AfterCloses(sval) THEN Switched({}, {"RDRAIN"}) ELSE relay
  /\ spc' = "second" /\ sval' = 0
  /\ UNCHANGED <<sreg, swork, drainTimer>>
  /\ UNCHANGED <<serviceFrame, fillVars, work, newErr, errorVars, saveVars>>

\* A minute has passed too: counters may make a regeneration due; a new day
\* saves everything, else the drain after no consumption may fall due.
ServiceMinute ==
  /\ ServiceRun("second")
  /\ \E D \in SUBSET Due : due' = due \cup D
  /\ \/ ServiceGo("starts") /\ UNCHANGED <<needRtc, needStats>>
     \/ /\ NewDay /\ needRtc' = TRUE /\ needStats' = TRUE
        /\ spc' = "saveDay" /\ swork' = work /\ UNCHANGED <<sval, sreg>>
     \/ /\ IdleDrain /\ drainTimer = 0 /\ critical = {}
        /\ ServiceGo("drainTimer") /\ UNCHANGED <<needRtc, needStats>>
  /\ UNCHANGED <<serviceFrame, relay, drainVars, fillVars, work, newErr, errorVars, rtcWork>>

BrokenStillNeeded(ok) == needRtc                                   \* RegenNoted
\* A save that succeeds serves all requests, those made since its copy too.
StillNeeded(ok) == needRtc /\ ~ok

\* update_RTC_store_memory() wrote the copy of Work that it had taken.
ServiceSaved ==
  /\ spc \in {"saveDay", "save"} /\ ServiceRun(spc)
  /\ \E ok \in SaveOk : /\ rtcWork' = IF ok THEN swork ELSE rtcWork
                        /\ needRtc' = StillNeeded(ok)
  /\ spc' = (IF spc = "saveDay" THEN "starts" ELSE "idle") /\ swork' = {}
  /\ UNCHANGED <<sval, sreg>>
  /\ UNCHANGED <<serviceFrame, relay, drainVars, fillVars, work, newErr, errorVars, needStats,
                 due>>

ServiceDrainTimer ==
  /\ ServiceRun("drainTimer")
  /\ drainTimer' = DrainTime
  /\ ServiceGo("drainValve")
  /\ UNCHANGED <<serviceFrame, relay, drainAfter, fillVars, work, newErr, errorVars, saveVars>>

ServiceDrainValve ==
  /\ ServiceRun("drainValve")
  /\ relay' = Switched({"RDRAIN"}, {})
  /\ ServiceGo("starts")
  /\ UNCHANGED <<serviceFrame, drainVars, fillVars, work, newErr, errorVars, saveVars>>

\* A regeneration requested a minute ago that has not begun is an error.
Overdue(f) == On(StartRelay(f)) /\ f \notin work

ServiceStarts ==
  /\ ServiceRun("starts")
  /\ errs' = errs \cup (IF Overdue("F1") THEN {"START_REG"} ELSE {})
                  \cup (IF Overdue("F2") THEN {"START_REG2"} ELSE {})
  /\ lastErr' = IF Overdue("F2") THEN "START_REG2"
                ELSE IF Overdue("F1") THEN "START_REG" ELSE lastErr
  /\ ServiceGo("mayRegen")
  /\ UNCHANGED <<serviceFrame, relay, drainVars, fillVars, work, newErr, saveVars>>

BrokenMayRegen == critical = {} /\ work = {}                         \* OneRegenRequest
MayRegen == critical = {} /\ lastErr \notin {"START_REG", "START_REG2"} /\ work = {}

\* With no critical error: forget a cured one, and see what is due at RegenHour.
ServiceMayRegen ==
  /\ ServiceRun("mayRegen")
  /\ lastErr' = IF critical = {} /\ lastErr \in {"FLOODING", "TANK_EMPTY"} /\ Cardinality(errs) <= 1
                THEN OK ELSE lastErr
  /\ \/ ServiceGo("idle")
     \/ /\ MayRegen /\ due # {}
        /\ sreg' = IF "F1" \in due THEN "F1" ELSE "F2"
        /\ spc' = "regen" /\ UNCHANGED <<sval, swork>>
  /\ UNCHANGED <<serviceFrame, relay, drainVars, fillVars, work, newErr, errs, saveVars>>

\* A regeneration starts on a full tank; else the tank is filled first.
ServiceRegen ==
  /\ ServiceRun("regen")
  /\ IF sens.level < LTANK_Max THEN ServiceGo("fill") /\ UNCHANGED relay
     ELSE IF On(StartRelay(sreg)) THEN ServiceGo("idle") /\ UNCHANGED relay
     ELSE /\ relay' = IF sreg = "F1" THEN Switched({"RWATEROFF"}, {}) ELSE relay
          /\ ServiceGo("start")
  /\ UNCHANGED <<serviceFrame, drainVars, fillVars, work, newErr, errorVars, saveVars>>

ServiceStart ==
  /\ ServiceRun("start")
  /\ relay' = Switched({StartRelay(sreg)}, {})
  /\ ServiceGo("idle")
  /\ UNCHANGED <<serviceFrame, drainVars, fillVars, work, newErr, errorVars, saveVars>>

ServiceFill ==
  /\ ServiceRun("fill")
  /\ relay' = Switched({"RFILL"}, {})
  /\ fillLevel' = sens.level /\ fillAge' = 0
  /\ ServiceGo("idle")
  /\ UNCHANGED <<serviceFrame, drainVars, work, newErr, errorVars, saveVars>>

\* A second that begins no minute: one of saving the counters, saving to the
\* clock's memory (copied first), looking whether a regeneration has finished.
ServiceSaveStats ==
  /\ ServiceRun("second") /\ needStats
  /\ \E ok \in SaveOk : needStats' = ~ok
  /\ ServiceGo("idle")
  /\ UNCHANGED <<serviceFrame, relay, drainVars, fillVars, work, newErr, errorVars, rtcWork,
                 needRtc, due>>

ServiceSaveRtc ==
  /\ ServiceRun("second") /\ ~needStats /\ needRtc
  /\ spc' = "save" /\ swork' = work /\ UNCHANGED <<sval, sreg>>
  /\ UNCHANGED <<serviceFrame, relay, drainVars, fillVars, work, newErr, errorVars, saveVars>>

Finished(f) == IF f = "F1" THEN ~sens.regA /\ ~sens.back ELSE ~sens.reg2
ServiceFilter == IF "F1" \in work THEN "F1" ELSE "F2"

ServiceLook ==
  /\ ServiceRun("second") /\ ~needStats /\ ~needRtc
  /\ IF work # {} /\ Finished(ServiceFilter)
     THEN /\ due' = due \ {ServiceFilter}
          /\ sreg' = ServiceFilter /\ swork' = work \ {ServiceFilter}
          /\ spc' = "finish" /\ UNCHANGED sval
     ELSE ServiceGo("idle") /\ UNCHANGED due
  /\ UNCHANGED <<serviceFrame, relay, drainVars, fillVars, work, newErr, errorVars, rtcWork,
                 needRtc, needStats>>

ServiceFinish ==
  /\ ServiceRun("finish")
  /\ work' = swork
  /\ needRtc' = TRUE /\ needStats' = TRUE
  /\ spc' = (IF sreg = "F1" THEN "finishValve" ELSE "idle") /\ swork' = {}
  /\ UNCHANGED <<sval, sreg>>
  /\ UNCHANGED <<serviceFrame, relay, drainVars, fillVars, newErr, errorVars, rtcWork, due>>

\* After F1 the water is let in again; too little water may have been used.
ServiceFinishValve ==
  /\ ServiceRun("finishValve")
  /\ relay' = Switched({}, {"RWATEROFF"})
  /\ Raise("FEW_LITERS_REG") \/ UNCHANGED errorVars
  /\ ServiceGo("finishTimer")
  /\ UNCHANGED <<serviceFrame, drainVars, fillVars, work, newErr, saveVars>>

ServiceFinishTimer ==
  /\ ServiceRun("finishTimer")
  /\ drainAfter' = DrainingWaterAfterRegen
  /\ ServiceGo(IF DrainingWaterAfterRegen > 0 THEN "finishDrain" ELSE "idle")
  /\ UNCHANGED <<serviceFrame, relay, drainTimer, fillVars, work, newErr, errorVars, saveVars>>

ServiceFinishDrain ==
  /\ ServiceRun("finishDrain")
  /\ relay' = Switched({"RDRAIN"}, {})
  /\ ServiceGo("idle")
  /\ UNCHANGED <<serviceFrame, drainVars, fillVars, work, newErr, errorVars, saveVars>>

Service ==
  \/ ServicePost \/ ServiceClear
  \/ ServiceSecond \/ ServiceCountDrain \/ ServiceDrained \/ ServiceCountAfter
  \/ ServiceMinute \/ ServiceDrainTimer \/ ServiceDrainValve
  \/ ServiceStarts \/ ServiceMayRegen \/ ServiceRegen \/ ServiceStart \/ ServiceFill
  \/ ServiceSaveStats \/ ServiceSaveRtc \/ ServiceSaved
  \/ ServiceLook \/ ServiceFinish \/ ServiceFinishValve \/ ServiceFinishTimer
  \/ ServiceFinishDrain
-----------------------------------------------------------------------------
(* The operator, at the keys (vKeysLCD) or in the browser (RESET_ERR,       *)
(* set_Relay).                                                              *)

operatorFrame == <<sens, critTimer, status, wbTimer, floodAge, feedTime, fillVars, drainVars,
                   work, newErr, ppc, asleep, rpre, sensorVars, serviceVars, saveVars>>

\* clear_all_errors(): all errors at once, then the water is let in.
OperatorClear ==
  /\ Clears /\ asleep /\ opc = "idle"
  /\ errs' = {} /\ lastErr' = OK /\ critical' = {}
  /\ opc' = "valve"
  /\ UNCHANGED <<operatorFrame, relay>>

OperatorValve ==
  /\ asleep /\ opc = "valve"
  /\ relay' = Switched({}, {"RWATEROFF"})
  /\ opc' = "idle"
  /\ UNCHANGED <<operatorFrame, critical, errorVars>>

\* set_Relay(fR_StatusManual) and set_Relay(fR_StatusAllOff).
OperatorRelay ==
  /\ asleep
  /\ \E r \in Switchable : \/ relay' = [relay EXCEPT ![r] = @ \cup {"Manual"}]
                           \/ relay' = [relay EXCEPT ![r] = {}]
  /\ UNCHANGED <<operatorFrame, critical, errorVars, opc>>

Operator == OperatorClear \/ OperatorValve \/ OperatorRelay
-----------------------------------------------------------------------------
(* Power-up.  Only the clock's memory survives. *)

BootSens == [regA |-> FALSE, back |-> FALSE, reg2 |-> FALSE, flood |-> FALSE, leak |-> FALSE,
             press |-> ERROR_PRESS, level |-> ERROR_PRESS]

Init ==
  /\ sens = BootSens
  /\ critical = {} /\ critTimer = 0
  /\ status = 0 /\ wbTimer = 0
  /\ floodAge = NoFlood
  /\ feedTime = 0 /\ fillAge = 0 /\ fillLevel = 0
  /\ drainTimer = 0 /\ drainAfter = 0
  /\ relay = [r \in Relay |-> {}]
  /\ work = {} /\ rtcWork = {} /\ needRtc = FALSE /\ needStats = FALSE /\ due = {}
  /\ newErr = OK /\ errs = {} /\ lastErr = OK
  /\ power = "normal"
  /\ ppc = "delay" /\ asleep = TRUE
  /\ rpc = "power" /\ rpre = FALSE /\ rcrit = {} /\ rfeed = 0
  /\ spc = "idle" /\ sval = 0 /\ sreg = "F1" /\ swork = {}
  /\ ticked = FALSE /\ opc = "idle"

\* A watchdog reset, Software_Reset() or a power failure, at any point.
Reset ==
  /\ Resets
  /\ sens' = BootSens
  /\ critical' = {} /\ critTimer' = 0
  /\ status' = 0 /\ wbTimer' = 0
  /\ floodAge' = NoFlood
  /\ feedTime' = 0 /\ fillAge' = 0 /\ fillLevel' = 0
  /\ drainTimer' = 0 /\ drainAfter' = 0
  /\ relay' = [r \in Relay |-> {}]
  /\ work' = rtcWork /\ needRtc' = FALSE /\ needStats' = FALSE
  /\ newErr' = OK /\ errs' = {} /\ lastErr' = OK
  /\ power' = "normal"
  /\ ppc' = "delay" /\ asleep' = TRUE
  /\ rpc' = "power" /\ rpre' = FALSE /\ rcrit' = {} /\ rfeed' = 0
  /\ spc' = "idle" /\ sval' = 0 /\ sreg' = "F1" /\ swork' = {}
  /\ ticked' = FALSE /\ opc' = "idle"
  /\ UNCHANGED <<rtcWork, due>>

Next == Pumps \/ Sensor \/ Service \/ Operator \/ Reset

Safe == Init /\ [][Next]_vars

\* Every task is scheduled: vPumps has the highest priority and wakes by itself,
\* so whoever is in the middle of a store only delays it (rpre); the others get
\* the processor in its sleeps, which come again and again.  The ADC converts
\* every few passes, and most seconds begin no minute.
Spec ==
  /\ Safe
  /\ SF_vars(Pumps) /\ SF_vars(PumpsSense(TRUE))
  /\ SF_vars(SensorPower \/ SensorFlow \/ SensorStore)
  /\ SF_vars(Service) /\ SF_vars(ServiceSaveStats \/ ServiceSaveRtc \/ ServiceLook)
  /\ SF_vars(OperatorValve)
-----------------------------------------------------------------------------
(* Properties *)

Holds(r) == "Main" \in relay[r]     \* the algorithm itself holds the relay on

PumpsTypeOK ==      \* what vPumps alone writes
  /\ sens \in Reading
  /\ critTimer \in Nat
  /\ status \in {-1, 0, 1, 2} /\ wbTimer \in 0 .. TickMod - 1
  /\ floodAge \in NoFlood .. FloodCap
  /\ ppc \in {"delay", "floodDrain", "floodTimers", "floodValve", "floodMark", "unflood",
              "water", "regen", "regenMark", "regenSave"}
  /\ asleep \in BOOLEAN /\ rpre \in BOOLEAN

SharedTypeOK ==     \* what several tasks write
  /\ critical \subseteq ERRC /\ feedTime \in Nat
  /\ fillAge \in Nat /\ fillLevel \in Int
  /\ drainTimer \in Nat /\ drainAfter \in Nat
  /\ relay \in [Relay -> SUBSET RelayFlag]
  /\ newErr \in ErrorCode \cup {OK} /\ errs \subseteq ErrorCode
  /\ lastErr \in ErrorCode \cup {OK}
  /\ ticked \in BOOLEAN

SavedTypeOK ==      \* what outlives a restart, and the requests to save it
  /\ work \subseteq Filter /\ rtcWork \subseteq Filter /\ due \subseteq Filter
  /\ needRtc \in BOOLEAN /\ needStats \in BOOLEAN

TasksTypeOK ==      \* what the other tasks have at hand
  /\ power \in {"normal", "dry", "over"}
  /\ rpc \in {"power", "flow", "trip", "dose", "weightEmpty", "weightOk"}
  /\ rcrit \subseteq ERRC /\ rfeed \in Nat
  /\ spc \in {"idle", "clear", "countDrain", "countAfter", "drained", "second", "saveDay",
              "save", "drainTimer", "drainValve", "starts", "mayRegen", "regen", "start",
              "fill", "finish", "finishValve", "finishTimer", "finishDrain"}
  /\ sval \in Nat /\ sreg \in Filter /\ swork \subseteq Filter
  /\ spc \in {"countDrain", "countAfter"} => sval > 0
  /\ opc \in {"idle", "valve"}

\* Every variable keeps to the values its C type and its users leave it: no
\* counter of time or of seconds wraps below zero, no task holds a value that
\* the variable it came from could not have.
TypeOK == PumpsTypeOK /\ SharedTypeOK /\ SavedTypeOK /\ TasksTypeOK

\* The stage of the booster that WaterBoosterStatus believes to be off is not
\* held on: no order of trips, stops, resets and operator switching leaves a
\* stage running that vPumps no longer looks after.
BoosterReleased ==
  /\ status = 0 => ~Holds("RBOOSTER1")
  /\ status # 2 => ~Holds("RBOOSTER2")

Promise == INSTANCE BoosterPromise WITH
  stages <- {r \in {"RBOOSTER1", "RBOOSTER2"} : Holds(r)}, closing <- status = -1,
  elapsed <- wbTimer, fault <- critical # {},
  MinOnTime <- MinWaterBoostOnTime, MinOffTime <- MinWaterBoostOffTime, MaxTime <- TickMod - 1

\* While nobody switches relays by hand, the booster keeps BoosterPromise: the
\* relays themselves, not only the status word, start and stop in its order and
\* times, across the wrap of the clock, errors, their clearing and restarts.
KeepsPromise == Promise!PSpec

\* The dosing pump is held on only while dosing time is left for a pass, whatever
\* vReadSensor added or overwrote with a stale sum in the meantime.
DosingPaidFor == Holds("RFEEDPUMP") => feedTime >= Slice

\* A drain valve held open is going to be shut: a drain timer runs, or vService
\* is in the act of counting it down.
DrainHasTimer ==
  Holds("RDRAIN") => \/ drainTimer > 0 \/ drainAfter > 0
                     \/ spc \in {"countDrain", "countAfter"}

\* The two filters are never asked to regenerate at the same time, as long as no
\* other error takes the place of MC.error while vService looks at it.
OneRegenRequest == ~(Holds("RSTARTREG") /\ Holds("RSTARTREG2"))

\* When a pass ends in a flooding, the tank is not being filled.
FloodStopsFilling == (ppc = "delay" /\ "Flooding" \in critical) => ~Holds("RFILL")

\* A critical error stops the water booster, unless it ends before.
FaultStopsBooster ==
  critical # {} ~> \/ critical = {}
                   \/ ~Holds("RBOOSTER1") /\ ~Holds("RBOOSTER2")

\* A tank that stays full is not being filled for ever.
FillingEnds == (sens.level >= LTANK_Max) ~> (sens.level < LTANK_Max \/ ~Holds("RFILL"))

\* When the flooding inputs stay dry, the water is let in again.
FloodValveReleases == <>[]~Leaking(sens) => []<>~Holds("RWATEROFF")

\* When the flooding inputs stay wet, the water is shut off some time and stays off, with
\* the tank low and a drain under way too; as long as nobody clears the errors and no
\* regeneration ends, for either lets it in.
FloodValveShuts == <>[]Leaking(sens) => <>[]Holds("RWATEROFF")

\* A flooding that trips the valve reaches the list of errors.
TripReported == ppc = "floodMark" ~> errs \cap {"FLOODING", "LEAK"} # {}

\* A drain valve held open is shut some time.
DrainEnds == Holds("RDRAIN") ~> ~Holds("RDRAIN")

\* When the filters stay silent, every regeneration that vPumps saw start is
\* taken note of and stays so, in the clock's memory too, whichever requests to
\* save were dropped by a save that had taken its copy before.
RegenNoted == <>[](\A f \in Filter : Finished(f)) => <>[](work = {} /\ rtcWork = {})

\* The error of an empty tank goes when the tank stays filled.
TankRecovers == <>[](sens.level >= LTANK_Empty) => []<>("TankEmpty" \notin critical)

\* A booster that runs dry is stopped.
DryRunStops == (status = 2 /\ power = "dry") ~> (status # 2 \/ power # "dry")
=============================================================================
