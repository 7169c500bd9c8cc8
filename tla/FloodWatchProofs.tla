-------------------------- MODULE FloodWatchProofs --------------------------
(***************************************************************************)
(* The water is let in again only after a dry time, for every value of the *)
(* options and all interleavings of FloodWatch.                            *)
(***************************************************************************)
EXTENDS FloodWatch, WaterControlProofs

\* One time stamp, two uses.  It lags behind the dry time by the debounce.
StampIsRecent == floodAge # NoFlood => floodAge <= dryFor + FloodingDebounceTime

\* A flooding that is known, without a stamp, has been dry long enough.
NoStampMeansDry == "Flooding" \in critical /\ floodAge = NoFlood => DryEnough

\* A flooding that only vReadSensor's copy still knows of: it has been dry long
\* enough, or the pass that ended it for vPumps has stamped a new one since.
CopyIsOld ==
  (rpc \in {"trip", "weightEmpty", "weightOk"} /\ "Flooding" \in rcrit \ critical)
    => DryEnough \/ (rpre /\ floodAge # NoFlood)

UnfloodIsDry == ppc = "unflood" => DryEnough
TripIsStamped == ppc \in {"floodDrain", "floodTimers", "floodValve", "floodMark"}
                   => floodAge # NoFlood
DelaySleeps == ppc = "delay" => asleep

WatchInv ==
  /\ dryFor \in 0 .. FloodCap
  /\ StampIsRecent /\ NoStampMeansDry /\ CopyIsOld
  /\ UnfloodIsDry /\ TripIsStamped /\ DelaySleeps

-----------------------------------------------------------------------------
\* At power-up nothing is known of a flooding.
LEMMA WatchInitHolds == WatchInit => WatchInv
BY OptionsAssumption
   DEF WatchInit, Init, WatchInv, StampIsRecent, NoStampMeansDry, CopyIsOld, UnfloodIsDry,
       TripIsStamped, DelaySleeps, NoFlood

\* How a slice of time ages the stamp.
LEMMA AgeOf ==
  ASSUME TypeOK
  PROVE  /\ floodAge \in NoFlood .. FloodCap
         /\ FloodAged = IF floodAge = NoFlood THEN NoFlood
                        ELSE IF floodAge + Slice < FloodCap THEN floodAge + Slice ELSE FloodCap
         /\ DebounceAge = IF floodAge = NoFlood THEN 0 ELSE FloodAged
BY DEF TypeOK, PumpsTypeOK, FloodAged, DebounceAge, Minimum

\* The head of a pass, with the watch's clock.
LEMMA SenseKeepsWatch ==
  ASSUME TypeOK, WatchInv, NEW adc \in BOOLEAN, PumpsSense(adc),
         dryFor' = IF Leaking(sens') THEN 0 ELSE Minimum(dryFor + Slice, FloodCap)
  PROVE  WatchInv'
<1> USE OptionsAssumption DEF NoFlood
<1>1. /\ "Flooding" \in critical' <=> "Flooding" \in critical
      /\ rpc' = rpc /\ rcrit' = rcrit /\ rpre' = (rpc \in Storing)
      /\ rpc \in Storing => ~rpre
      /\ ppc = "delay" /\ asleep
  BY DEF PumpsSense, PumpsRun, othersVars, sensorVars, WatchInv, DelaySleeps
<1>2. PICK err : \/ Leaking(sens') /\ FloodWet(err)
                 \/ ~Leaking(sens') /\ FloodDry(err)
  BY DEF PumpsSense
<1>3. dryFor' \in 0 .. FloodCap
  BY DEF WatchInv, Minimum
<1>4. ppc' # "delay"
  BY <1>2 DEF FloodWet, FloodDry, PumpsGo
<1>5. CASE Leaking(sens') /\ FloodWet(err)
  <2>1. dryFor' = 0
    BY <1>5
  <2>2. floodAge' \in 0 .. FloodingDebounceTime
    BY <1>5, AgeOf DEF FloodWet
  <2>3. ppc' \in {"water", "floodDrain"}
    BY <1>5 DEF FloodWet, PumpsGo
  <2>4. CopyIsOld'
    <3>1. rpc \in {"trip", "weightEmpty", "weightOk"} => rpre'
      BY <1>1 DEF Storing
    <3>2. floodAge' # NoFlood
      BY <2>2, OptionsAssumption
    <3> QED
      BY <1>1, <3>1, <3>2 DEF CopyIsOld
  <2> QED
    BY <1>3, <2>1, <2>2, <2>3, <2>4
       DEF WatchInv, StampIsRecent, NoStampMeansDry, UnfloodIsDry, TripIsStamped, DelaySleeps
<1>6. CASE ~Leaking(sens') /\ FloodDry(err)
  <2>1. dryFor' >= dryFor /\ (dryFor' >= dryFor + Slice \/ dryFor' = FloodCap)
    BY <1>6 DEF Minimum, WatchInv
  <2>2. DryEnough => DryEnough'
    BY <2>1, <1>3 DEF DryEnough, WatchInv
  <2>3. FloodAged # NoFlood => FloodAged <= dryFor' + FloodingDebounceTime
    BY <2>1, AgeOf DEF WatchInv, StampIsRecent
  <2>4. "Flooding" \in critical /\ DryLongEnough => DryEnough'
    <3> SUFFICES ASSUME "Flooding" \in critical, DryLongEnough PROVE DryEnough'
      OBVIOUS
    <3>1. CASE floodAge = NoFlood
      BY <3>1, <2>2 DEF WatchInv, NoStampMeansDry
    <3>2. CASE FloodAged > FloodingTimeout
      BY <3>2, <2>3, <1>3, AgeOf DEF DryEnough
    <3> QED
      BY <3>1, <3>2 DEF DryLongEnough
  <2>5. floodAge' = FloodAged \/ (floodAge' = NoFlood /\ "Flooding" \notin critical')
    BY <1>6 DEF FloodDry
  <2>6. /\ ppc' \in {"unflood", "water"}
        /\ ppc' = "unflood" => "Flooding" \in critical /\ DryLongEnough
    BY <1>1, <1>6 DEF FloodDry, PumpsGo
  <2>7. FloodAged = NoFlood <=> floodAge = NoFlood
    BY AgeOf
  <2>8. StampIsRecent' /\ NoStampMeansDry'
    BY <1>1, <2>2, <2>3, <2>5, <2>7 DEF WatchInv, StampIsRecent, NoStampMeansDry
  <2>9. CopyIsOld'
    BY <1>1, <2>2 DEF WatchInv, CopyIsOld, Storing
  <2> QED
    BY <1>3, <2>4, <2>6, <2>8, <2>9 DEF WatchInv, UnfloodIsDry, TripIsStamped, DelaySleeps
<1> QED
  BY <1>2, <1>5, <1>6

\* The other steps of vPumps.
LEMMA PumpsKeepWatch ==
  ASSUME TypeOK, WatchInv, PumpsAct, UNCHANGED dryFor
  PROVE  WatchInv'
<1> USE DEF PumpsAt, PumpsRun, PumpsGo, PumpsDelay, othersVars, sensorVars, WatchInv, NoFlood
<1>1. DryEnough' <=> DryEnough
  BY DEF DryEnough
<1>2. CASE PumpsUnflood
  BY <1>1, <1>2 DEF PumpsUnflood, StampIsRecent, NoStampMeansDry, CopyIsOld, UnfloodIsDry,
                    TripIsStamped, DelaySleeps
<1>3. CASE PumpsFloodMark
  BY <1>1, <1>3 DEF PumpsFloodMark, StampIsRecent, NoStampMeansDry, CopyIsOld, UnfloodIsDry,
                    TripIsStamped, DelaySleeps, Storing
<1>4. CASE PumpsAct /\ ~PumpsUnflood /\ ~PumpsFloodMark
  <2>1. /\ UNCHANGED <<critical, floodAge, rpc, rcrit>>
        /\ rpre' = (rpc \in Storing)
        /\ ppc' # "unflood"
        /\ ppc' \in {"floodDrain", "floodTimers", "floodValve", "floodMark"}
             => ppc \in {"floodDrain", "floodTimers", "floodValve", "floodMark"}
        /\ ppc' = "delay" => asleep'
    BY <1>4 DEF PumpsAct, PumpsFloodDrain, PumpsFloodTimers, PumpsFloodValve, PumpsWater,
                PumpsRegen, PumpsRegenMark, PumpsRegenSave
  <2> QED
    BY <1>1, <2>1 DEF StampIsRecent, NoStampMeansDry, CopyIsOld, UnfloodIsDry,
                      TripIsStamped, DelaySleeps, Storing
<1> QED
  BY <1>2, <1>3, <1>4

\* vReadSensor loads CriticalErrors and stores the loaded value changed.
LEMMA SensorKeepsWatch ==
  ASSUME TypeOK, WatchInv, Sensor, UNCHANGED dryFor
  PROVE  WatchInv'
<1> USE DEF SensorRun, sensorFrame, WatchInv
<1>1. UNCHANGED <<floodAge, ppc, asleep, rpre>> /\ (DryEnough' <=> DryEnough)
  BY DEF Sensor, SensorStore, SensorPower, SensorFlow, SensorWeight, SensorTrip, SensorDose,
         SensorWeightEmpty, SensorWeightOk, DryEnough
<1>2. UnfloodIsDry' /\ TripIsStamped' /\ DelaySleeps' /\ StampIsRecent'
  BY <1>1 DEF UnfloodIsDry, TripIsStamped, DelaySleeps, StampIsRecent
<1>3. CASE SensorPower \/ SensorWeight
  BY <1>1, <1>2, <1>3 DEF SensorPower, SensorWeight, NoStampMeansDry, CopyIsOld
<1>4. CASE SensorFlow \/ SensorDose
  BY <1>1, <1>2, <1>4 DEF SensorFlow, SensorDose, NoStampMeansDry, CopyIsOld
<1>5. CASE SensorTrip \/ SensorWeightEmpty \/ SensorWeightOk
  <2>1. "Flooding" \in critical' => "Flooding" \in rcrit
    BY <1>5 DEF SensorTrip, SensorWeightEmpty, SensorWeightOk
  <2>2. /\ rpc \in {"trip", "weightEmpty", "weightOk"}
        /\ rpc' \in {"flow", "power"}
    BY <1>5 DEF SensorTrip, SensorWeightEmpty, SensorWeightOk
  <2> QED
    BY <1>1, <1>2, <2>1, <2>2 DEF NoStampMeansDry, CopyIsOld
<1> QED
  BY <1>3, <1>4, <1>5 DEF Sensor, SensorStore

\* Every step of the watched controller keeps the invariant.
LEMMA WatchInvKept ==
  ASSUME TypeOK, WatchInv, [WatchNext]_watchVars
  PROVE  WatchInv'
<1>1. ASSUME NEW adc \in BOOLEAN, PumpsSense(adc),
             dryFor' = IF Leaking(sens') THEN 0 ELSE Minimum(dryFor + Slice, FloodCap)
      PROVE  WatchInv'
  BY <1>1, SenseKeepsWatch
<1>2. CASE PumpsAct /\ UNCHANGED dryFor
  BY <1>2, PumpsKeepWatch
<1>3. CASE Sensor /\ UNCHANGED dryFor
  BY <1>3, SensorKeepsWatch
<1>4. CASE (Service \/ OperatorValve \/ OperatorRelay) /\ UNCHANGED dryFor
  <2>1. UNCHANGED <<critical, floodAge, ppc, asleep, rpc, rpre, rcrit>>
    BY <1>4 DEF Service, ServicePost, ServiceClear, ServiceSecond, ServiceCountDrain,
              ServiceDrained, ServiceCountAfter, ServiceMinute, ServiceDrainTimer,
              ServiceDrainValve, ServiceStarts, ServiceMayRegen, ServiceRegen,
              ServiceStart, ServiceFill, ServiceSaveStats, ServiceSaveRtc, ServiceSaved,
              ServiceLook, ServiceFinish, ServiceFinishValve, ServiceFinishTimer,
              ServiceFinishDrain, serviceFrame, OperatorValve, OperatorRelay,
              operatorFrame, sensorVars
  <2> QED
    BY <1>4, <2>1 DEF WatchInv, StampIsRecent, NoStampMeansDry, CopyIsOld, UnfloodIsDry,
                      TripIsStamped, DelaySleeps, DryEnough
<1>5. CASE OperatorClear /\ dryFor' = FloodCap
  <2>1. UNCHANGED <<floodAge, ppc, asleep, rpc, rpre, rcrit>>
    BY <1>5 DEF OperatorClear, operatorFrame, sensorVars
  <2>2. DryEnough'
    BY <1>5, OptionsAssumption DEF DryEnough
  <2>3. StampIsRecent'
    BY <1>5, <2>1, AgeOf, OptionsAssumption DEF StampIsRecent, NoFlood
  <2> QED
    BY <1>5, <2>1, <2>2, <2>3, OptionsAssumption
       DEF WatchInv, NoStampMeansDry, CopyIsOld, UnfloodIsDry, TripIsStamped, DelaySleeps
<1>6. CASE Reset /\ dryFor' = 0
  BY <1>6, OptionsAssumption
     DEF Reset, WatchInv, StampIsRecent, NoStampMeansDry, CopyIsOld, UnfloodIsDry,
         TripIsStamped, DelaySleeps, NoFlood
<1>7. CASE UNCHANGED watchVars
  BY <1>7 DEF watchVars, vars, WatchInv, StampIsRecent, NoStampMeansDry, CopyIsOld,
              UnfloodIsDry, TripIsStamped, DelaySleeps, DryEnough
<1> QED
  BY <1>1, <1>2, <1>3, <1>4, <1>5, <1>6, <1>7 DEF WatchNext

\* Only the dry branch of the head of a pass lets the water in.
LEMMA ReleaseUnfloods ==
  ASSUME TypeOK, ReleasesWater
  PROVE  ppc' = "unflood"
<1> USE DEF ReleasesWater, Holds, Switched, Relay, TypeOK, SharedTypeOK
<1>1. CASE \E adc \in BOOLEAN : PumpsSense(adc)
  <2>1. PICK err : FloodWet(err) \/ FloodDry(err)
    BY <1>1 DEF PumpsSense
  <2> QED
    BY <2>1 DEF FloodWet, FloodDry, PumpsGo
<1>2. CASE PumpsWater
  <2>1. "RWATEROFF" \notin WaterOff
    BY DEF WaterOff
  <2> QED
    BY <1>2, <2>1 DEF PumpsWater
<1>3. CASE PumpsAct /\ ~PumpsWater
  BY <1>3 DEF PumpsAct, PumpsFloodDrain, PumpsFloodTimers, PumpsFloodValve, PumpsFloodMark,
              PumpsUnflood, PumpsRegen, PumpsRegenMark, PumpsRegenSave, StartRelay
<1> QED
  BY <1>1, <1>2, <1>3 DEF Pumps

\* vPumps lets the water in again only after FloodingTimeout less the debounce,
\* for all options, stale copies of CriticalErrors, clearings and restarts.
THEOREM WaterReturnsAfterDry == WatchSafe => ReopenedAfterDry
<1>1. WatchInit => Init
  BY DEF WatchInit
<1>2. [WatchNext]_watchVars => [Next]_vars
  BY DEF WatchNext, watchVars, Next, Pumps, Operator
<1>3. WatchSafe => []TypeOK
  <2>1. WatchSafe => Safe
    BY <1>1, <1>2, PTL DEF WatchSafe, Safe
  <2> QED
    BY <2>1, TypeCorrect, PTL
<1>4. TypeOK /\ WatchInv /\ [WatchNext]_watchVars => WatchInv'
  BY WatchInvKept
<1>5. TypeOK /\ WatchInv' /\ [WatchNext]_watchVars => [ReleasesWater => DryEnough']_watchVars
  <2> SUFFICES ASSUME TypeOK, WatchInv', ReleasesWater PROVE DryEnough'
    OBVIOUS
  <2>1. ppc' = "unflood"
    BY ReleaseUnfloods
  <2> QED
    BY <2>1 DEF WatchInv, UnfloodIsDry
<1> QED
  BY <1>3, <1>4, <1>5, WatchInitHolds, PTL DEF WatchSafe, ReopenedAfterDry
=============================================================================
