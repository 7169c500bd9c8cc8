---------------------------- MODULE PlantProofs ----------------------------
(***************************************************************************)
(* Pumps and valves, for every value of the options.  The booster's relays *)
(* follow WaterBoosterStatus, and while nobody switches them by hand the   *)
(* controller implements BoosterPromise.  The dosing pump runs on paid     *)
(* time, an open drain valve has a timer that shuts it, a flooding stops   *)
(* the filling, one filter is asked to regenerate at a time.               *)
(***************************************************************************)
EXTENDS WaterControlProofs

Boosters == {"RBOOSTER1", "RBOOSTER2"}

\* Every step but the body of a pass, a relay switched by hand and a restart
\* leaves the booster and its status as they are.
LEMMA OnlyWaterSwitchesBooster ==
  ASSUME TypeOK, Next, ~PumpsWater, ~OperatorRelay, ~Reset
  PROVE  status' = status /\ \A r \in Boosters : relay'[r] = relay[r]
<1> USE DEF Boosters, Relay, Switched, TypeOK, SharedTypeOK, boosterVars
<1>1. CASE \E adc \in BOOLEAN : PumpsSense(adc)
  <2> PICK adc \in BOOLEAN : PumpsSense(adc)
    BY <1>1
  <2>1. PICK err : FloodWet(err) \/ FloodDry(err)
    BY DEF PumpsSense
  <2> QED
    BY <2>1 DEF PumpsSense, FloodWet, FloodDry
<1>2. CASE \/ PumpsFloodDrain \/ PumpsFloodTimers \/ PumpsFloodValve
           \/ PumpsFloodMark \/ PumpsUnflood
  BY <1>2 DEF PumpsFloodDrain, PumpsFloodTimers, PumpsFloodValve, PumpsFloodMark,
              PumpsUnflood
<1>3. CASE PumpsRegen \/ PumpsRegenMark \/ PumpsRegenSave
  BY <1>3 DEF PumpsRegen, PumpsRegenMark, PumpsRegenSave, StartRelay
<1>4. CASE Sensor
  BY <1>4 DEF Sensor, SensorStore, SensorPower, SensorFlow, SensorWeight, SensorTrip,
              SensorDose, SensorWeightEmpty, SensorWeightOk, sensorFrame
<1>5. CASE \/ ServicePost \/ ServiceClear \/ ServiceSecond \/ ServiceCountDrain
           \/ ServiceDrained \/ ServiceCountAfter \/ ServiceMinute \/ ServiceDrainTimer
           \/ ServiceDrainValve \/ ServiceStarts \/ ServiceMayRegen
  BY <1>5 DEF ServicePost, ServiceClear, ServiceSecond, ServiceCountDrain,
              ServiceDrained, ServiceCountAfter, ServiceMinute, ServiceDrainTimer,
              ServiceDrainValve, ServiceStarts, ServiceMayRegen, serviceFrame
<1>6. CASE \/ ServiceRegen \/ ServiceStart \/ ServiceFill \/ ServiceSaveStats
           \/ ServiceSaveRtc \/ ServiceSaved \/ ServiceLook \/ ServiceFinish
           \/ ServiceFinishValve \/ ServiceFinishTimer \/ ServiceFinishDrain
  BY <1>6 DEF ServiceRegen, ServiceStart, ServiceFill, ServiceSaveStats,
              ServiceSaveRtc, ServiceSaved, ServiceLook, ServiceFinish,
              ServiceFinishValve, ServiceFinishTimer, ServiceFinishDrain,
              serviceFrame, StartRelay
<1>7. CASE OperatorClear \/ OperatorValve
  BY <1>7 DEF OperatorClear, OperatorValve, operatorFrame
<1> QED
  BY <1>1, <1>2, <1>3, <1>4, <1>5, <1>6, <1>7 DEF Next, Pumps, PumpsAct, Service, Operator

\* The body of a pass holds the stages that the new status stands for.
LEMMA WaterSwitchesBooster ==
  ASSUME TypeOK, PumpsWater
  PROVE  /\ status' = BoosterNext
         /\ relay'["RBOOSTER1"] =
              CASE status = 0 /\ BoosterNext = 1 -> relay["RBOOSTER1"] \cup {"Main"}
                [] status # 0 /\ BoosterNext = 0 -> relay["RBOOSTER1"] \ {"Main"}
                [] OTHER -> relay["RBOOSTER1"]
         /\ relay'["RBOOSTER2"] =
              CASE status = 1 /\ BoosterNext = 2 -> relay["RBOOSTER2"] \cup {"Main"}
                [] BoosterNext = -1 -> relay["RBOOSTER2"] \ {"Main"}
                [] OTHER -> relay["RBOOSTER2"]
<1> USE DEF PumpsWater
<1>1. relay' = Switched(WaterOn, WaterOff) /\ status' = BoosterNext
  OBVIOUS
<1>2. BoosterNext \in {-1, 0, 1, 2}
  BY DEF BoosterNext
<1>3. /\ "RBOOSTER1" \in WaterOn <=> status = 0 /\ BoosterNext = 1
      /\ "RBOOSTER2" \in WaterOn <=> status = 1 /\ BoosterNext = 2
      /\ "RBOOSTER1" \in WaterOff <=> status # 0 /\ BoosterNext = 0
      /\ "RBOOSTER2" \in WaterOff <=> BoosterNext = -1
  BY DEF WaterOn, WaterOff
<1> QED
  BY <1>1, <1>2, <1>3 DEF Switched, Relay

\* No stage runs that WaterBoosterStatus does not know of, in whatever order
\* vPumps, the other tasks, the operator and restarts take their turns.
THEOREM BoosterIsReleased == Safe => []BoosterReleased
<1>1. Init => BoosterReleased
  BY DEF Init, BoosterReleased, Holds, Relay
<1>2. TypeOK /\ BoosterReleased /\ [Next]_vars => BoosterReleased'
  <2> SUFFICES ASSUME TypeOK, BoosterReleased, [Next]_vars PROVE BoosterReleased'
    OBVIOUS
  <2> USE DEF BoosterReleased, Holds, TypeOK, PumpsTypeOK, SharedTypeOK
  <2>1. CASE PumpsWater
    BY <2>1, WaterSwitchesBooster DEF BoosterNext
  <2>2. CASE OperatorRelay
    BY <2>2 DEF OperatorRelay, operatorFrame, Relay
  <2>3. CASE Reset
    BY <2>3 DEF Reset, Relay
  <2>4. CASE Next /\ ~PumpsWater /\ ~OperatorRelay /\ ~Reset
    BY <2>4, OnlyWaterSwitchesBooster DEF Boosters
  <2>5. CASE UNCHANGED vars
    BY <2>5 DEF vars
  <2> QED
    BY <2>1, <2>2, <2>3, <2>4, <2>5
<1> QED
  BY <1>1, <1>2, TypeCorrect, PTL DEF Safe
-----------------------------------------------------------------------------
(* The refinement.  Without hands on the booster's relays BoosterReleased   *)
(* becomes an equality: the status says what is held on.                    *)

HandsOff == Switchable \cap Boosters = {}

BoosterFollows ==
  /\ Holds("RBOOSTER1") <=> status # 0
  /\ Holds("RBOOSTER2") <=> status = 2

\* Every step keeps the relays and the status in step.
LEMMA FollowsKept ==
  ASSUME HandsOff, TypeOK, BoosterFollows, [Next]_vars
  PROVE  BoosterFollows'
<1> USE DEF BoosterFollows, Holds, TypeOK, PumpsTypeOK, SharedTypeOK
<1>1. CASE PumpsWater
  BY <1>1, WaterSwitchesBooster DEF BoosterNext
<1>2. CASE OperatorRelay
  BY <1>2 DEF OperatorRelay, operatorFrame, Relay, HandsOff, Boosters
<1>3. CASE Reset
  BY <1>3 DEF Reset, Relay
<1>4. CASE Next /\ ~PumpsWater /\ ~OperatorRelay /\ ~Reset
  BY <1>4, OnlyWaterSwitchesBooster DEF Boosters
<1>5. CASE UNCHANGED vars
  BY <1>5 DEF vars
<1> QED
  BY <1>1, <1>2, <1>3, <1>4, <1>5

\* WaterBoosterTimeout counts on and stops at its largest value: adding a slice
\* modulo TickMod and looking for a small result finds the wrap, once.
LEMMA ClockStops ==
  ASSUME NEW t \in 0 .. TickMod - 1
  PROVE  Advanced(t) = IF t + Slice < TickMod - 1 THEN t + Slice ELSE TickMod - 1
<1>1. CASE t + Slice < TickMod
  <2>1. (t + Slice) % TickMod = t + Slice
    BY <1>1, OptionsAssumption
  <2> QED
    BY <1>1, <2>1, OptionsAssumption DEF Advanced
<1>2. CASE t + Slice >= TickMod
  <2>1. (t + Slice) % TickMod = t + Slice - TickMod
    BY <1>2, OptionsAssumption
  <2> QED
    BY <1>2, <2>1, OptionsAssumption DEF Advanced
<1> QED
  BY <1>1, <1>2, OptionsAssumption

\* Outside PumpsWater and PumpsSense nobody writes WaterBoosterTimeout.
LEMMA OnlyPumpsKeepTime ==
  ASSUME Next, ~PumpsWater, ~Reset, \A adc \in BOOLEAN : ~PumpsSense(adc)
  PROVE  wbTimer' = wbTimer
<1> USE DEF boosterVars
<1>1. CASE PumpsAct
  BY <1>1 DEF PumpsAct, PumpsFloodDrain, PumpsFloodTimers, PumpsFloodValve, PumpsFloodMark,
              PumpsUnflood, PumpsRegen, PumpsRegenMark, PumpsRegenSave
<1>2. CASE Sensor
  BY <1>2 DEF Sensor, SensorStore, SensorPower, SensorFlow, SensorWeight, SensorTrip,
              SensorDose, SensorWeightEmpty, SensorWeightOk, sensorFrame
<1>3. CASE Service
  BY <1>3 DEF Service, ServicePost, ServiceClear, ServiceSecond, ServiceCountDrain,
              ServiceDrained, ServiceCountAfter, ServiceMinute, ServiceDrainTimer,
              ServiceDrainValve, ServiceStarts, ServiceMayRegen, ServiceRegen,
              ServiceStart, ServiceFill, ServiceSaveStats, ServiceSaveRtc, ServiceSaved,
              ServiceLook, ServiceFinish, ServiceFinishValve, ServiceFinishTimer,
              ServiceFinishDrain, serviceFrame
<1>4. CASE Operator
  BY <1>4 DEF Operator, OperatorClear, OperatorValve, OperatorRelay, operatorFrame
<1> QED
  BY <1>1, <1>2, <1>3, <1>4 DEF Next, Pumps

\* What is held on, read off the status.
Expected(st) == CASE st = 0 -> {} [] st = 2 -> Boosters [] OTHER -> {"RBOOSTER1"}

\* The stages that are held on are those the status stands for ...
LEMMA StagesFollow ==
  ASSUME BoosterFollows
  PROVE  {r \in {"RBOOSTER1", "RBOOSTER2"} : Holds(r)} = Expected(status)
BY DEF BoosterFollows, Expected, Boosters

\* ... and so after a step.
LEMMA StagesFollowPrimed ==
  ASSUME BoosterFollows'
  PROVE  {r \in {"RBOOSTER1", "RBOOSTER2"} : Holds(r)'} = Expected(status')
BY DEF BoosterFollows, Expected, Boosters

\* Every step of the controller is a step of the promise, or one that it does
\* not see: a pass body starts, sheds or stops a stage, the head of a pass lets
\* time pass, the others let faults come and go.
LEMMA StepKeepsPromise ==
  ASSUME HandsOff, TypeOK, BoosterFollows, BoosterFollows', [Next]_vars
  PROVE  [Promise!PNext]_(Promise!pvars)
<1> DEFINE stages == {r \in {"RBOOSTER1", "RBOOSTER2"} : Holds(r)}
<1> USE DEF TypeOK, PumpsTypeOK, SharedTypeOK
<1>0. stages = Expected(status) /\ stages' = Expected(status')
  BY StagesFollow, StagesFollowPrimed
<1>a. Slice \in Nat /\ TickMod \in Nat /\ TickMod > 0
  BY OptionsAssumption
<1> HIDE DEF stages
<1>1. CASE PumpsWater
  <2>1. /\ status' = BoosterNext /\ critical' = critical
        /\ wbTimer' = IF BoosterNext # status /\ BoosterNext \in {0, 1} THEN 0 ELSE wbTimer
    BY <1>1 DEF PumpsWater
  <2>2. CASE status = 0 /\ BoosterNext = 0
    BY <1>0, <2>1, <2>2 DEF Promise!pvars, stages
  <2>3. CASE status = 0 /\ BoosterNext = 1
    <3>1. Promise!StartOne
      BY <1>0, <2>1, <2>3 DEF Promise!StartOne, Promise!One, stages, Expected, BoosterNext,
                            BoosterStarts
    <3> QED
      BY <3>1 DEF Promise!PNext
  <2>4. CASE status = 1 /\ BoosterNext = 2
    <3>1. Promise!StartTwo
      BY <1>0, <2>1, <2>4 DEF Promise!StartTwo, Promise!One, Promise!Both, stages, Expected,
                            Boosters, BoosterNext, BoosterStops
    <3> QED
      BY <3>1 DEF Promise!PNext
  <2>5. CASE status \in {1, -1} /\ BoosterNext = 0
    <3>1. Promise!StopOne
      BY <1>0, <2>1, <2>5 DEF Promise!StopOne, Promise!RanEnough, Promise!One, stages, Expected,
                            BoosterNext, BoosterStops
    <3> QED
      BY <3>1 DEF Promise!PNext
  <2>6. CASE status = 2 /\ BoosterNext = -1
    <3>1. Promise!ShedTwo
      BY <1>0, <2>1, <2>6 DEF Promise!ShedTwo, Promise!RanEnough, Promise!One, Promise!Both,
                            stages, Expected, Boosters, BoosterNext, BoosterStops
    <3> QED
      BY <3>1 DEF Promise!PNext
  <2>7. CASE status = 2 /\ BoosterNext = 2
    BY <1>0, <2>1, <2>7 DEF Promise!pvars, stages
  <2> QED
    BY <2>2, <2>3, <2>4, <2>5, <2>6, <2>7 DEF BoosterNext
<1>2. CASE Reset
  <2>1. Promise!Restart
    BY <1>0, <1>2 DEF Reset, Promise!Restart, stages, Expected
  <2> QED
    BY <2>1 DEF Promise!PNext
<1>3. CASE \E adc \in BOOLEAN : PumpsSense(adc)
  <2>1. wbTimer' = Advanced(wbTimer) /\ status' = status
    BY <1>3 DEF PumpsSense
  <2>2. wbTimer' = IF wbTimer + Slice < TickMod - 1 THEN wbTimer + Slice ELSE TickMod - 1
    BY <2>1, ClockStops
  <2>3. Promise!Pass
    BY <1>0, <2>1, <2>2 DEF Promise!Pass, stages
  <2> QED
    BY <2>3 DEF Promise!PNext
<1>4. CASE Next /\ ~PumpsWater /\ ~Reset /\ \A adc \in BOOLEAN : ~PumpsSense(adc)
  <2>1. wbTimer' = wbTimer
    BY <1>4, OnlyPumpsKeepTime
  <2>2. status' = status
    <3>1. CASE OperatorRelay
      BY <3>1 DEF OperatorRelay, operatorFrame
    <3>2. CASE ~OperatorRelay
      BY <1>4, <3>2, OnlyWaterSwitchesBooster
    <3> QED
      BY <3>1, <3>2
  <2>3. Promise!Pass
    BY <1>0, <2>1, <2>2 DEF Promise!Pass, stages
  <2> QED
    BY <2>3 DEF Promise!PNext
<1>5. CASE UNCHANGED vars
  BY <1>0, <1>5 DEF vars, Promise!pvars, stages
<1> QED
  BY <1>1, <1>2, <1>3, <1>4, <1>5

\* While nobody switches the booster's relays by hand, the booster is what
\* BoosterPromise says, for all pressures, options and orders of the tasks.
THEOREM BoosterKeepsPromise ==
  ASSUME HandsOff
  PROVE  Safe => KeepsPromise
<1>1. Init => BoosterFollows /\ Promise!PInit
  <2> SUFFICES ASSUME Init PROVE BoosterFollows /\ Promise!PInit
    OBVIOUS
  <2>1. BoosterFollows
    BY DEF Init, BoosterFollows, Holds, Relay
  <2>2. Promise!PInit
    BY DEF Init, Promise!PInit, Holds, Relay
  <2> QED
    BY <2>1, <2>2
<1>2. TypeOK /\ BoosterFollows /\ [Next]_vars => BoosterFollows'
  BY HandsOff, FollowsKept
<1>3. TypeOK /\ BoosterFollows /\ BoosterFollows' /\ [Next]_vars => [Promise!PNext]_(Promise!pvars)
  BY HandsOff, StepKeepsPromise
<1> QED
  BY <1>1, <1>2, <1>3, TypeCorrect, PTL DEF Safe, KeepsPromise, Promise!PSpec

-----------------------------------------------------------------------------
\* Every step but these leaves dosing alone: the pump's relay, its time, and
\* the sum that vReadSensor may be about to store.
LEMMA OthersDoNotDose ==
  ASSUME TypeOK, Next, ~PumpsWater, ~PumpsFloodValve, ~SensorFlow, ~SensorDose,
         ~OperatorRelay, ~Reset
  PROVE  /\ relay'["RFEEDPUMP"] = relay["RFEEDPUMP"] /\ feedTime' = feedTime
         /\ rpc' = "dose" => rpc = "dose" /\ rfeed' = rfeed
<1> USE DEF Relay, Switched, TypeOK, SharedTypeOK, sensorVars, othersVars
<1>1. CASE \E adc \in BOOLEAN : PumpsSense(adc)
  <2> PICK adc \in BOOLEAN : PumpsSense(adc)
    BY <1>1
  <2>1. PICK err : FloodWet(err) \/ FloodDry(err)
    BY DEF PumpsSense
  <2> QED
    BY <2>1 DEF PumpsSense, FloodWet, FloodDry
<1>2. CASE PumpsFloodDrain \/ PumpsFloodTimers \/ PumpsFloodMark \/ PumpsUnflood
  BY <1>2 DEF PumpsFloodDrain, PumpsFloodTimers, PumpsFloodMark, PumpsUnflood
<1>3. CASE PumpsRegen \/ PumpsRegenMark \/ PumpsRegenSave
  BY <1>3 DEF PumpsRegen, PumpsRegenMark, PumpsRegenSave, StartRelay
<1>4. CASE SensorPower \/ SensorWeight \/ SensorTrip \/ SensorWeightEmpty \/ SensorWeightOk
  BY <1>4 DEF SensorPower, SensorWeight, SensorTrip, SensorWeightEmpty, SensorWeightOk,
              SensorRun, sensorFrame
<1>5. CASE \/ ServicePost \/ ServiceClear \/ ServiceSecond \/ ServiceCountDrain
           \/ ServiceDrained \/ ServiceCountAfter \/ ServiceMinute \/ ServiceDrainTimer
           \/ ServiceDrainValve \/ ServiceStarts \/ ServiceMayRegen
  BY <1>5 DEF ServicePost, ServiceClear, ServiceSecond, ServiceCountDrain,
              ServiceDrained, ServiceCountAfter, ServiceMinute, ServiceDrainTimer,
              ServiceDrainValve, ServiceStarts, ServiceMayRegen, serviceFrame
<1>6. CASE \/ ServiceRegen \/ ServiceStart \/ ServiceFill \/ ServiceSaveStats
           \/ ServiceSaveRtc \/ ServiceSaved \/ ServiceLook \/ ServiceFinish
           \/ ServiceFinishValve \/ ServiceFinishTimer \/ ServiceFinishDrain
  BY <1>6 DEF ServiceRegen, ServiceStart, ServiceFill, ServiceSaveStats,
              ServiceSaveRtc, ServiceSaved, ServiceLook, ServiceFinish,
              ServiceFinishValve, ServiceFinishTimer, ServiceFinishDrain,
              serviceFrame, StartRelay
<1>7. CASE OperatorClear \/ OperatorValve
  BY <1>7 DEF OperatorClear, OperatorValve, operatorFrame
<1> QED
  BY <1>1, <1>2, <1>3, <1>4, <1>5, <1>6, <1>7
     DEF Next, Pumps, PumpsAct, Sensor, SensorStore, Service, Operator

\* The body of a pass spends dosing time and never leaves the pump without.
LEMMA WaterDoses ==
  ASSUME MinPumpOnTime >= Slice, TypeOK, DosingPaidFor, PumpsWater
  PROVE  feedTime' <= feedTime /\ DosingPaidFor'
<1>1. /\ "RFEEDPUMP" \in WaterOn <=> ~On("RFEEDPUMP") /\ feedTime >= MinPumpOnTime
      /\ "RFEEDPUMP" \in WaterOff <=> DosingEnds
  BY DEF WaterOn, WaterOff
<1>2. relay' = Switched(WaterOn, WaterOff) /\ feedTime' = FeedSpent
  BY DEF PumpsWater
<1>3. relay'["RFEEDPUMP"] = IF "RFEEDPUMP" \in WaterOn THEN relay["RFEEDPUMP"] \cup {"Main"}
                            ELSE IF "RFEEDPUMP" \in WaterOff THEN relay["RFEEDPUMP"] \ {"Main"}
                            ELSE relay["RFEEDPUMP"]
  BY <1>2 DEF Switched, Relay
<1>4. FeedSpent <= feedTime /\ FeedSpent \in Nat /\ (~On("RFEEDPUMP") => FeedSpent = feedTime)
  BY OptionsAssumption DEF FeedSpent, TypeOK, SharedTypeOK
<1> QED
  BY <1>1, <1>2, <1>3, <1>4, OptionsAssumption
     DEF DosingPaidFor, Holds, On, DosingEnds, TypeOK, SharedTypeOK

\* The sum that vReadSensor stores was taken from no less than what is left.
SumIsFresh == rpc = "dose" => rfeed >= feedTime

\* While an option asks for pulses of a slice at least, the dosing pump never
\* runs without time left for the slice, whatever sum vReadSensor stores late.
THEOREM DosingIsPaidFor ==
  ASSUME MinPumpOnTime >= Slice
  PROVE  Safe => []DosingPaidFor
<1>1. Init => DosingPaidFor /\ SumIsFresh
  BY DEF Init, DosingPaidFor, SumIsFresh, Holds, Relay
<1>2. TypeOK /\ DosingPaidFor /\ SumIsFresh /\ [Next]_vars => (DosingPaidFor /\ SumIsFresh)'
  <2> SUFFICES ASSUME TypeOK, DosingPaidFor, SumIsFresh, [Next]_vars
               PROVE  DosingPaidFor' /\ SumIsFresh'
    OBVIOUS
  <2> USE DEF DosingPaidFor, SumIsFresh, Holds, TypeOK, SharedTypeOK, TasksTypeOK
  <2>1. CASE PumpsWater
    <3>1. rpc' = rpc /\ rfeed' = rfeed /\ feedTime' \in Nat
      BY <2>1, OptionsAssumption DEF PumpsWater, othersVars, sensorVars, FeedSpent
    <3> QED
      BY <2>1, <3>1, WaterDoses, MinPumpOnTime >= Slice
  <2>2. CASE PumpsFloodValve
    BY <2>2 DEF PumpsFloodValve, Switched, Relay, othersVars, sensorVars
  <2>3. CASE SensorFlow
    BY <2>3, OptionsAssumption DEF SensorFlow, sensorFrame
  <2>4. CASE SensorDose
    BY <2>4, OptionsAssumption DEF SensorDose, SensorRun, sensorFrame
  <2>5. CASE OperatorRelay
    BY <2>5 DEF OperatorRelay, operatorFrame, sensorVars, Relay
  <2>6. CASE Reset
    BY <2>6 DEF Reset, Relay
  <2>7. CASE UNCHANGED vars
    BY <2>7 DEF vars
  <2>8. CASE /\ Next /\ ~PumpsWater /\ ~PumpsFloodValve /\ ~SensorFlow /\ ~SensorDose
             /\ ~OperatorRelay /\ ~Reset
    BY <2>8, OthersDoNotDose
  <2> QED
    BY <2>1, <2>2, <2>3, <2>4, <2>5, <2>6, <2>7, <2>8
<1> QED
  BY <1>1, <1>2, TypeCorrect, PTL DEF Safe
-----------------------------------------------------------------------------
(* The drain valve.  A flooding may zero a timer between vService's two     *)
(* steps; without floodings nothing else can.                               *)

DryInputs == \A now \in Readings : ~Leaking(now)

NoFlooding == /\ ~Leaking(sens)
              /\ ppc \notin {"floodDrain", "floodTimers", "floodValve", "floodMark"}

\* vService opens the valve after it has set a timer, and a filter's end does not
\* set to zero a timer that an earlier one may have left running.
TimerFirst ==
  /\ spc = "drainValve" => drainTimer > 0
  /\ spc = "finishDrain" => drainAfter > 0
  /\ drainAfter > 0 \/ spc = "countAfter" => DrainingWaterAfterRegen > 0

DrainInv == NoFlooding /\ TimerFirst /\ DrainHasTimer

\* Inputs that never report a leak never start the flooding branch of vPumps.
LEMMA StaysDry ==
  ASSUME DryInputs, NoFlooding, [Next]_vars
  PROVE  NoFlooding'
<1> USE DEF NoFlooding
<1>1. ASSUME NEW adc \in BOOLEAN, PumpsSense(adc) PROVE NoFlooding'
  <2>1. PICK now \in Readings :
          sens' = IF adc THEN now ELSE [now EXCEPT !.press = sens.press, !.level = sens.level]
    BY <1>1 DEF PumpsSense
  <2>2. ~Leaking(sens')
    BY <2>1, OptionsAssumption DEF DryInputs, Leaking, Reading
  <2>3. PICK err : FloodDry(err)
    BY <1>1, <2>2 DEF PumpsSense
  <2> QED
    BY <2>2, <2>3 DEF FloodDry, PumpsGo, Leaking
<1>2. CASE PumpsAct
  BY <1>2 DEF PumpsAct, PumpsFloodDrain, PumpsFloodTimers, PumpsFloodValve, PumpsFloodMark,
              PumpsUnflood, PumpsWater, PumpsRegen, PumpsRegenMark, PumpsRegenSave, PumpsAt,
              PumpsRun, PumpsGo, PumpsDelay, Leaking
<1>3. CASE Sensor
  BY <1>3 DEF Sensor, SensorStore, SensorPower, SensorFlow, SensorWeight, SensorTrip,
              SensorDose, SensorWeightEmpty, SensorWeightOk, sensorFrame, Leaking
<1>4. CASE Service
  BY <1>4 DEF Service, ServicePost, ServiceClear, ServiceSecond, ServiceCountDrain,
              ServiceDrained, ServiceCountAfter, ServiceMinute, ServiceDrainTimer,
              ServiceDrainValve, ServiceStarts, ServiceMayRegen, ServiceRegen,
              ServiceStart, ServiceFill, ServiceSaveStats, ServiceSaveRtc, ServiceSaved,
              ServiceLook, ServiceFinish, ServiceFinishValve, ServiceFinishTimer,
              ServiceFinishDrain, serviceFrame, Leaking
<1>5. CASE Operator
  BY <1>5 DEF Operator, OperatorClear, OperatorValve, OperatorRelay, operatorFrame, Leaking
<1>6. CASE Reset
  BY <1>6 DEF Reset, BootSens, Leaking
<1>7. CASE UNCHANGED vars
  BY <1>7 DEF vars, Leaking
<1> QED
  BY <1>1, <1>2, <1>3, <1>4, <1>5, <1>6, <1>7 DEF Next, Pumps

\* What a step that is none of vService's does not touch.
DrainSame == /\ "Main" \in relay'["RDRAIN"] => "Main" \in relay["RDRAIN"]
             /\ drainTimer' = drainTimer /\ drainAfter' = drainAfter /\ spc' = spc

\* Without a flooding only vService opens the drain or touches its timers.
LEMMA OthersDoNotDrain ==
  ASSUME TypeOK, NoFlooding, Pumps \/ Sensor \/ Operator
  PROVE  DrainSame
<1> USE DEF DrainSame, Relay, Switched, TypeOK, SharedTypeOK, drainVars, othersVars,
            serviceVars, NoFlooding
<1>1. CASE \E adc \in BOOLEAN : PumpsSense(adc)
  <2> PICK adc \in BOOLEAN : PumpsSense(adc)
    BY <1>1
  <2>1. PICK err : FloodWet(err) \/ FloodDry(err)
    BY DEF PumpsSense
  <2> QED
    BY <2>1 DEF PumpsSense, FloodWet, FloodDry
<1>2. CASE PumpsWater
  <2>1. "RDRAIN" \notin WaterOn
    BY DEF WaterOn
  <2> QED
    BY <1>2, <2>1 DEF PumpsWater
<1>3. CASE PumpsAct /\ ~PumpsWater
  BY <1>3 DEF PumpsAct, PumpsFloodDrain, PumpsFloodTimers, PumpsFloodValve, PumpsFloodMark,
              PumpsUnflood, PumpsRegen, PumpsRegenMark, PumpsRegenSave, PumpsAt, PumpsRun
<1>4. CASE Sensor
  BY <1>4 DEF Sensor, SensorStore, SensorPower, SensorFlow, SensorWeight, SensorTrip,
              SensorDose, SensorWeightEmpty, SensorWeightOk, sensorFrame
<1>5. CASE Operator
  BY <1>5 DEF Operator, OperatorClear, OperatorValve, OperatorRelay, operatorFrame, RelayFlag
<1> QED
  BY <1>1, <1>2, <1>3, <1>4, <1>5 DEF Pumps

\* vService shuts the valve no later than its timers run out.
LEMMA ServiceKeepsTimer ==
  ASSUME DrainTime > 0, TypeOK, TimerFirst, DrainHasTimer, Service
  PROVE  TimerFirst' /\ DrainHasTimer'
<1> USE OptionsAssumption DEF TimerFirst, DrainHasTimer, Holds, TypeOK, SharedTypeOK,
        TasksTypeOK, Relay, Switched, ServiceRun, ServiceAt, ServiceGo, drainVars
<1>1. CASE ServiceSecond
  BY <1>1 DEF ServiceSecond
<1>2. CASE ServiceCountDrain
  BY <1>2 DEF ServiceCountDrain, DrainCloses
<1>3. CASE ServiceCountAfter
  BY <1>3 DEF ServiceCountAfter, AfterCloses
<1>4. CASE ServiceDrainTimer \/ ServiceDrainValve
  BY <1>4 DEF ServiceDrainTimer, ServiceDrainValve
<1>5. CASE ServiceFinishTimer
  <2>1. spc' = IF DrainingWaterAfterRegen > 0 THEN "finishDrain" ELSE "idle"
    BY <1>5 DEF ServiceFinishTimer
  <2> QED
    BY <1>5, <2>1 DEF ServiceFinishTimer
<1>9. CASE ServiceFinishDrain
  BY <1>9 DEF ServiceFinishDrain
<1>6. CASE ServicePost \/ ServiceClear \/ ServiceDrained \/ ServiceMinute \/ ServiceStarts
           \/ ServiceMayRegen
  BY <1>6 DEF ServicePost, ServiceClear, ServiceDrained, ServiceMinute, ServiceStarts,
              ServiceMayRegen
<1>7. CASE ServiceRegen \/ ServiceStart \/ ServiceFill \/ ServiceFinishValve
  BY <1>7 DEF ServiceRegen, ServiceStart, ServiceFill, ServiceFinishValve, StartRelay
<1>8. CASE \/ ServiceSaveStats \/ ServiceSaveRtc \/ ServiceSaved \/ ServiceLook
           \/ ServiceFinish
  BY <1>8 DEF ServiceSaveStats, ServiceSaveRtc, ServiceSaved, ServiceLook, ServiceFinish
<1> QED
  BY <1>1, <1>2, <1>3, <1>4, <1>5, <1>6, <1>7, <1>8, <1>9 DEF Service

\* With inputs that never report a leak, an open drain valve has a timer that
\* runs: nobody zeroes it between vService's setting it and opening the valve.
THEOREM DrainIsTimed ==
  ASSUME DryInputs, DrainTime > 0
  PROVE  Safe => []DrainHasTimer
<1>1. Init => DrainInv
  BY DEF Init, DrainInv, NoFlooding, TimerFirst, DrainHasTimer, Holds, Relay, BootSens, Leaking
<1>2. TypeOK /\ DrainInv /\ [Next]_vars => DrainInv'
  <2> SUFFICES ASSUME TypeOK, DrainInv, [Next]_vars PROVE DrainInv'
    OBVIOUS
  <2> USE DEF DrainInv
  <2>1. NoFlooding'
    BY DryInputs, StaysDry
  <2>2. CASE Service
    BY <2>1, <2>2, DrainTime > 0, ServiceKeepsTimer
  <2>3. CASE Pumps \/ Sensor \/ Operator
    BY <2>1, <2>3, OthersDoNotDrain DEF DrainSame, TimerFirst, DrainHasTimer, Holds
  <2>4. CASE Reset
    BY <2>1, <2>4 DEF Reset, TimerFirst, DrainHasTimer, Holds, Relay
  <2>5. CASE UNCHANGED vars
    BY <2>1, <2>5 DEF vars, TimerFirst, DrainHasTimer, Holds
  <2> QED
    BY <2>2, <2>3, <2>4, <2>5 DEF Next
<1>3. DrainInv => DrainHasTimer
  BY DEF DrainInv
<1> QED
  BY <1>1, <1>2, <1>3, TypeCorrect, PTL DEF Safe
-----------------------------------------------------------------------------
(* The filling valve in a flooding, and the requests to the two filters.    *)
(* Both assume that vReadSensor finds no critical error: its late store of  *)
(* CriticalErrors brings back a flooding that is over.                      *)

SensorsFindNothing ==
  "empty" \notin WeightReadings /\ (FALSE \notin PowerReadOk \/ PowerReadings \subseteq {"normal"})

NoTrip == /\ rpc \notin {"trip", "weightEmpty", "weightOk"}
          /\ "WeightEmpty" \notin critical
          /\ FALSE \in PowerReadOk => power = "normal"

LEMMA FindsNothing ==
  ASSUME SensorsFindNothing, NoTrip, [Next]_vars
  PROVE  NoTrip'
<1> USE DEF NoTrip
<1>1. ASSUME NEW adc \in BOOLEAN, PumpsSense(adc) PROVE NoTrip'
  <2>1. critical' \in {critical \cup {"TankEmpty"}, critical \ {"TankEmpty"}, critical}
    BY <1>1 DEF PumpsSense
  <2> QED BY <1>1, <2>1 DEF PumpsSense, othersVars, sensorVars
<1>2. CASE PumpsAct
  BY <1>2 DEF PumpsAct, PumpsFloodDrain, PumpsFloodTimers, PumpsFloodValve, PumpsFloodMark,
              PumpsUnflood, PumpsWater, PumpsRegen, PumpsRegenMark, PumpsRegenSave,
              othersVars, sensorVars
<1>3. CASE SensorPower
  <2>1. PICK ok \in PowerReadOk, p \in PowerReadings :
          /\ power' = IF ok THEN p ELSE power
          /\ IF ~ok /\ status > 0 /\ wbTimer > PWM_StartingTime /\ power # "normal"
             THEN rpc' = "trip" /\ rcrit' = critical
             ELSE rpc' = "flow" /\ UNCHANGED rcrit
    BY <1>3 DEF SensorPower
  <2>2. ok \in BOOLEAN /\ critical' = critical
    BY <1>3, OptionsAssumption DEF SensorPower
  <2>3. CASE ok = TRUE
    <3>1. power' = p /\ rpc' = "flow"
      BY <2>1, <2>3
    <3> QED BY <2>2, <3>1 DEF SensorsFindNothing
  <2>4. CASE ok = FALSE
    <3>1. power = "normal"
      BY <2>4
    <3>2. power' = power /\ rpc' = "flow"
      BY <2>1, <2>4, <3>1
    <3> QED BY <2>2, <3>2
  <2> QED BY <2>2, <2>3, <2>4
<1>6. CASE SensorWeight
  BY <1>6 DEF SensorsFindNothing, SensorWeight, SensorRun
<1>7. CASE SensorFlow \/ SensorStore
  BY <1>7 DEF SensorStore, SensorFlow, SensorTrip, SensorDose, SensorWeightEmpty, SensorWeightOk,
              SensorRun
<1>4. CASE Service
  BY <1>4 DEF Service, ServicePost, ServiceClear, ServiceSecond, ServiceCountDrain,
              ServiceDrained, ServiceCountAfter, ServiceMinute, ServiceDrainTimer,
              ServiceDrainValve, ServiceStarts, ServiceMayRegen, ServiceRegen,
              ServiceStart, ServiceFill, ServiceSaveStats, ServiceSaveRtc, ServiceSaved,
              ServiceLook, ServiceFinish, ServiceFinishValve, ServiceFinishTimer,
              ServiceFinishDrain, serviceFrame
<1>5. CASE Operator \/ Reset \/ UNCHANGED vars
  BY <1>5 DEF Operator, OperatorClear, OperatorValve, OperatorRelay, operatorFrame, sensorVars,
              Reset, vars
<1> QED BY <1>1, <1>2, <1>3, <1>4, <1>5, <1>6, <1>7 DEF Next, Pumps, Sensor

InFloodBranch == ppc \in {"floodDrain", "floodTimers", "floodValve", "floodMark"}

\* With no regeneration due, vService never fills the tank on its own account.
ServiceFillsNot == due = {} /\ spc \notin {"regen", "start", "fill"}

FillIsOff == "Flooding" \in critical \/ InFloodBranch => ~Holds("RFILL")

FillInv == NoTrip /\ ServiceFillsNot /\ FillIsOff

LEMMA ServiceStaysOff ==
  ASSUME Due = {}, ServiceFillsNot, [Next]_vars
  PROVE  ServiceFillsNot'
<1> USE DEF ServiceFillsNot
<1>1. CASE Pumps
  BY <1>1 DEF Pumps, PumpsSense, PumpsAct, PumpsFloodDrain, PumpsFloodTimers, PumpsFloodValve,
              PumpsFloodMark, PumpsUnflood, PumpsWater, PumpsRegen, PumpsRegenMark,
              PumpsRegenSave, othersVars, saveVars
<1>2. CASE Sensor
  BY <1>2 DEF Sensor, SensorStore, SensorPower, SensorFlow, SensorWeight, SensorTrip,
              SensorDose, SensorWeightEmpty, SensorWeightOk, serviceVars, saveVars
<1>3. CASE Service
  BY <1>3 DEF Service, ServicePost, ServiceClear, ServiceSecond, ServiceCountDrain,
              ServiceDrained, ServiceCountAfter, ServiceMinute, ServiceDrainTimer,
              ServiceDrainValve, ServiceStarts, ServiceMayRegen, ServiceRegen,
              ServiceStart, ServiceFill, ServiceSaveStats, ServiceSaveRtc, ServiceSaved,
              ServiceLook, ServiceFinish, ServiceFinishValve, ServiceFinishTimer,
              ServiceFinishDrain, ServiceRun, ServiceAt, ServiceGo, saveVars
<1>4. CASE Operator \/ Reset \/ UNCHANGED vars
  BY <1>4 DEF Operator, OperatorClear, OperatorValve, OperatorRelay, operatorFrame, serviceVars,
              saveVars, Reset, vars
<1> QED BY <1>1, <1>2, <1>3, <1>4 DEF Next

\* What no other task than vPumps, and vPumps only in PumpsWater, does to a valve.
LEMMA OnlyWaterFills ==
  ASSUME TypeOK, ServiceFillsNot, Next, ~PumpsWater
  PROVE  Holds("RFILL")' => Holds("RFILL")
<1> USE DEF Holds, Relay, Switched, TypeOK, SharedTypeOK
<1>1. CASE \E adc \in BOOLEAN : PumpsSense(adc)
  <2>1. PICK err : FloodWet(err) \/ FloodDry(err)
    BY <1>1 DEF PumpsSense
  <2> QED BY <2>1 DEF FloodWet, FloodDry
<1>2. CASE PumpsAct
  BY <1>2 DEF PumpsAct, PumpsFloodDrain, PumpsFloodTimers, PumpsFloodValve, PumpsFloodMark,
              PumpsUnflood, PumpsRegen, PumpsRegenMark, PumpsRegenSave, StartRelay
<1>3. CASE Sensor
  BY <1>3 DEF Sensor, SensorStore, SensorPower, SensorFlow, SensorWeight, SensorTrip,
              SensorDose, SensorWeightEmpty, SensorWeightOk, sensorFrame
<1>4. CASE Service
  BY <1>4 DEF ServiceFillsNot, Service, ServicePost, ServiceClear, ServiceSecond,
              ServiceCountDrain, ServiceDrained, ServiceCountAfter, ServiceMinute,
              ServiceDrainTimer, ServiceDrainValve, ServiceStarts, ServiceMayRegen, ServiceRegen,
              ServiceStart, ServiceFill, ServiceSaveStats, ServiceSaveRtc, ServiceSaved,
              ServiceLook, ServiceFinish, ServiceFinishValve, ServiceFinishTimer,
              ServiceFinishDrain, ServiceRun, ServiceAt
<1>5. CASE Operator
  BY <1>5 DEF Operator, OperatorClear, OperatorValve, OperatorRelay, RelayFlag
<1>6. CASE Reset
  BY <1>6 DEF Reset
<1> QED BY <1>1, <1>2, <1>3, <1>4, <1>5, <1>6 DEF Next, Pumps

\* A flooding is marked by PumpsFloodMark alone, and its branch begins with the
\* valve of the tank.
LEMMA FloodingBegins ==
  ASSUME NoTrip, Next
  PROVE  /\ "Flooding" \in critical' => "Flooding" \in critical \/ ppc = "floodMark"
         /\ InFloodBranch' => InFloodBranch \/ \E adc \in BOOLEAN : PumpsSense(adc)
<1> USE DEF InFloodBranch
<1>1. ASSUME NEW adc \in BOOLEAN, PumpsSense(adc)
      PROVE  "Flooding" \in critical' => "Flooding" \in critical
  <2>1. critical' \in {critical \cup {"TankEmpty"}, critical \ {"TankEmpty"}, critical}
    BY <1>1 DEF PumpsSense
  <2> QED BY <2>1
<1>2. CASE PumpsAct
  BY <1>2 DEF PumpsAct, PumpsFloodDrain, PumpsFloodTimers, PumpsFloodValve, PumpsFloodMark,
              PumpsUnflood, PumpsWater, PumpsRegen, PumpsRegenMark, PumpsRegenSave, PumpsAt,
              PumpsRun, PumpsGo, PumpsDelay
<1>3. CASE Sensor
  BY <1>3 DEF NoTrip, Sensor, SensorStore, SensorPower, SensorFlow, SensorWeight, SensorTrip,
              SensorDose, SensorWeightEmpty, SensorWeightOk, SensorRun, sensorFrame
<1>4. CASE Service
  BY <1>4 DEF Service, ServicePost, ServiceClear, ServiceSecond, ServiceCountDrain,
              ServiceDrained, ServiceCountAfter, ServiceMinute, ServiceDrainTimer,
              ServiceDrainValve, ServiceStarts, ServiceMayRegen, ServiceRegen,
              ServiceStart, ServiceFill, ServiceSaveStats, ServiceSaveRtc, ServiceSaved,
              ServiceLook, ServiceFinish, ServiceFinishValve, ServiceFinishTimer,
              ServiceFinishDrain, serviceFrame
<1>5. CASE Operator \/ Reset
  BY <1>5 DEF Operator, OperatorClear, OperatorValve, OperatorRelay, operatorFrame, Reset
<1> QED BY <1>1, <1>2, <1>3, <1>4, <1>5 DEF Next, Pumps

\* In a flooding the tank is not being filled, whatever the options, hands on the
\* relays, clearings and restarts; while no regeneration falls due, for which
\* vService fills the tank with no second look at the errors.
THEOREM FloodingStopsFilling ==
  ASSUME Due = {}, SensorsFindNothing
  PROVE  Safe => []FloodStopsFilling
<1>1. Init => FillInv
  BY DEF Init, FillInv, NoTrip, ServiceFillsNot, FillIsOff, InFloodBranch
<1>2. TypeOK /\ FillInv /\ [Next]_vars => FillInv'
  <2> SUFFICES ASSUME TypeOK, FillInv, [Next]_vars PROVE FillIsOff'
    BY Due = {}, SensorsFindNothing, FindsNothing, ServiceStaysOff DEF FillInv
  <2> USE DEF FillInv, FillIsOff
  <2>1. ASSUME NEW adc \in BOOLEAN, PumpsSense(adc) PROVE FillIsOff'
    <3>1. PICK err : FloodWet(err) \/ FloodDry(err)
      BY <2>1 DEF PumpsSense
    <3>2. InFloodBranch' => ~Holds("RFILL")'
      BY <3>1 DEF FloodWet, FloodDry, PumpsGo, InFloodBranch, Holds, Switched, Relay, TypeOK,
         SharedTypeOK
    <3>3. ~PumpsWater /\ ~InFloodBranch
      BY <2>1 DEF PumpsSense, PumpsWater, PumpsAt, PumpsRun, InFloodBranch
    <3> QED BY <2>1, <3>2, <3>3, OnlyWaterFills, FloodingBegins DEF Next, Pumps, InFloodBranch
  <2>2. CASE PumpsWater
    <3>1. ppc = "water" /\ ppc' = "regen" /\ critical' = critical
          /\ relay' = Switched(WaterOn, WaterOff)
      BY <2>2 DEF PumpsWater, PumpsAt, PumpsRun
    <3>2. "Flooding" \in critical => "RFILL" \notin WaterOn
      BY DEF WaterOn, FillStarts
    <3> QED BY <3>1, <3>2 DEF InFloodBranch, Holds, Switched, Relay, TypeOK, SharedTypeOK
  <2>3. CASE Next /\ ~PumpsWater /\ ~(\E adc \in BOOLEAN : PumpsSense(adc))
    BY <2>3, OnlyWaterFills, FloodingBegins DEF InFloodBranch
  <2>4. CASE UNCHANGED vars
    BY <2>4 DEF vars, InFloodBranch, Holds
  <2> QED BY <2>1, <2>2, <2>3, <2>4
<1>3. FillInv => FloodStopsFilling
  BY DEF FillInv, FillIsOff, FloodStopsFilling
<1> QED BY <1>1, <1>2, <1>3, TypeCorrect, PTL DEF Safe
-----------------------------------------------------------------------------
(* The requests to the filters.  What vService finds in ServiceMayRegen is  *)
(* what it found in ServiceStarts, with no step of its own in between.      *)

StartErrors == {"START_REG", "START_REG2"}

\* A filter that was asked and has not begun is the current error, one that has
\* begun is in Work: in both cases no other is asked.
AskedIsKnown == spc = "mayRegen" =>
  \A f \in Filter : Holds(StartRelay(f)) => lastErr \in StartErrors \/ f \in work

AskedOnlyNow == spc \in {"regen", "start"} => \A f \in Filter : ~Holds(StartRelay(f))

RequestInv == NoTrip /\ AskedIsKnown /\ AskedOnlyNow /\ OneRegenRequest

\* The steps of the other tasks ask no filter and leave MC.error alone.
OthersAskNot == /\ \A f \in Filter : Holds(StartRelay(f))' => Holds(StartRelay(f))
                /\ spc' = spc /\ lastErr' = lastErr /\ work \subseteq work'

LEMMA OthersDoNotAsk ==
  ASSUME WeightReadings \subseteq {"ok"}, ~Clears, TypeOK, NoTrip, Pumps \/ Sensor \/ Operator
  PROVE  OthersAskNot
<1> USE DEF OthersAskNot, Holds, StartRelay, Filter, Relay, Switched, TypeOK, SharedTypeOK
<1>1. CASE \E adc \in BOOLEAN : PumpsSense(adc)
  <2>1. PICK err : FloodWet(err) \/ FloodDry(err)
    BY <1>1 DEF PumpsSense
  <2>2. spc' = spc /\ lastErr' = lastErr /\ work' = work
    BY <1>1 DEF PumpsSense, othersVars, errorVars
  <2> QED BY <2>1, <2>2 DEF FloodWet, FloodDry
<1>2. CASE PumpsWater
  <2>1. "RSTARTREG" \notin WaterOn /\ "RSTARTREG2" \notin WaterOn
    BY DEF WaterOn
  <2> QED BY <1>2, <2>1 DEF PumpsWater, othersVars, errorVars
<1>3. CASE PumpsAct /\ ~PumpsWater
  BY <1>3 DEF PumpsAct, PumpsFloodDrain, PumpsFloodTimers, PumpsFloodValve, PumpsFloodMark,
              PumpsUnflood, PumpsRegen, PumpsRegenMark, PumpsRegenSave, othersVars, errorVars
<1>4. CASE Sensor
  BY <1>4 DEF NoTrip, Sensor, SensorStore, SensorPower, SensorFlow, SensorWeight, SensorTrip,
              SensorDose, SensorWeightEmpty, SensorWeightOk, SensorRun, sensorFrame, serviceVars,
              errorVars
<1>5. CASE Operator
  BY <1>5 DEF Operator, OperatorClear, OperatorValve, OperatorRelay, RelayFlag, operatorFrame,
              serviceVars, errorVars
<1> QED BY <1>1, <1>2, <1>3, <1>4, <1>5 DEF Pumps

LEMMA ServiceAsksOne ==
  ASSUME TypeOK, AskedIsKnown, AskedOnlyNow, OneRegenRequest, Service
  PROVE  AskedIsKnown' /\ AskedOnlyNow' /\ OneRegenRequest'
<1> USE DEF AskedIsKnown, AskedOnlyNow, OneRegenRequest, Holds, StartRelay, Filter, Relay,
        Switched, TypeOK, SharedTypeOK, TasksTypeOK, ServiceRun, ServiceAt, ServiceGo
<1>1. CASE ServiceStarts
  <2>1. /\ spc' = "mayRegen" /\ relay' = relay /\ work' = work
        /\ lastErr' = IF Overdue("F2") THEN "START_REG2"
                      ELSE IF Overdue("F1") THEN "START_REG" ELSE lastErr
    BY <1>1 DEF ServiceStarts
  <2>2. \A f \in Filter : Holds(StartRelay(f)) /\ f \notin work => Overdue(f)
    BY DEF Overdue, On
  <2> QED BY <2>1, <2>2 DEF StartErrors
<1>2. CASE ServiceMayRegen
  BY <1>2 DEF ServiceMayRegen, MayRegen, StartErrors
<1>3. CASE ServiceRegen
  BY <1>3 DEF ServiceRegen
<1>4. CASE ServiceStart
  BY <1>4 DEF ServiceStart
<1>5. CASE ServiceFill \/ ServiceCountDrain \/ ServiceCountAfter \/ ServiceDrainValve
           \/ ServiceFinishValve \/ ServiceFinishDrain
  BY <1>5 DEF ServiceFill, ServiceCountDrain, ServiceCountAfter, ServiceDrainValve,
              ServiceFinishValve, ServiceFinishDrain
<1>6. CASE \/ ServicePost \/ ServiceClear \/ ServiceSecond \/ ServiceDrained \/ ServiceMinute
           \/ ServiceDrainTimer \/ ServiceFinishTimer
  BY <1>6 DEF ServicePost, ServiceClear, ServiceSecond, ServiceDrained, ServiceMinute,
              ServiceDrainTimer, ServiceFinishTimer
<1>7. CASE ServiceSaveStats \/ ServiceSaveRtc \/ ServiceSaved \/ ServiceLook \/ ServiceFinish
  BY <1>7 DEF ServiceSaveStats, ServiceSaveRtc, ServiceSaved, ServiceLook, ServiceFinish
<1> QED BY <1>1, <1>2, <1>3, <1>4, <1>5, <1>6, <1>7 DEF Service

\* vService never asks both filters, whatever the floodings, options, hands on
\* relays and restarts; while vReadSensor reports no error and nobody clears them,
\* for either takes the place of MC.error, by which an unheard request is known.
THEOREM OneFilterIsAsked ==
  ASSUME SensorsFindNothing, WeightReadings \subseteq {"ok"}, ~Clears
  PROVE  Safe => []OneRegenRequest
<1>1. Init => RequestInv
  BY DEF Init, RequestInv, NoTrip, AskedIsKnown, AskedOnlyNow, OneRegenRequest, Holds, Relay
<1>2. TypeOK /\ RequestInv /\ [Next]_vars => RequestInv'
  <2> SUFFICES ASSUME TypeOK, RequestInv, [Next]_vars
               PROVE  AskedIsKnown' /\ AskedOnlyNow' /\ OneRegenRequest'
    BY SensorsFindNothing, FindsNothing DEF RequestInv
  <2> USE DEF RequestInv
  <2>1. CASE Service
    BY <2>1, ServiceAsksOne
  <2>2. CASE Pumps \/ Sensor \/ Operator
    <3>1. OthersAskNot
      BY <2>2, WeightReadings \subseteq {"ok"}, ~Clears, OthersDoNotAsk
    <3> QED BY <3>1 DEF OthersAskNot, AskedIsKnown, AskedOnlyNow, OneRegenRequest, Filter, StartRelay
  <2>3. CASE Reset
    BY <2>3 DEF Reset, AskedIsKnown, AskedOnlyNow, OneRegenRequest, Holds, Relay
  <2>4. CASE UNCHANGED vars
    BY <2>4 DEF vars, AskedIsKnown, AskedOnlyNow, OneRegenRequest, Holds, StartRelay
  <2> QED BY <2>1, <2>2, <2>3, <2>4 DEF Next
<1>3. RequestInv => OneRegenRequest
  BY DEF RequestInv
<1> QED BY <1>1, <1>2, <1>3, TypeCorrect, PTL DEF Safe
=============================================================================
