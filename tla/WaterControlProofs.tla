------------------------ MODULE WaterControlProofs ------------------------
(***************************************************************************)
(* Type correctness of the controller, for every value of the options: the *)
(* four groups of TypeOK are kept by every step of every task.             *)
(***************************************************************************)
EXTENDS WaterControl, TLAPS

\* set_ON() and set_OFF() keep dRelay[].flags to the two flags in use.
LEMMA SwitchedType ==
  ASSUME relay \in [Relay -> SUBSET RelayFlag], NEW on, NEW off
  PROVE  Switched(on, off) \in [Relay -> SUBSET RelayFlag]
BY DEF Switched, RelayFlag

\* How a step of vPumps ends: it goes on, ends the pass, or writes the journal.
LEMMA GoesOn ==
  ASSUME NEW to, PumpsGo(to)
  PROVE  ppc' = to /\ asleep' \in BOOLEAN
BY DEF PumpsGo

\* The pass ends and vPumps sleeps.
LEMMA GoesToSleep ==
  ASSUME PumpsDelay
  PROVE  ppc' = "delay" /\ asleep' \in BOOLEAN
BY DEF PumpsDelay

\* A relay may have switched, then vPumps sleeps while the line is written.
LEMMA SleepIsBoolean ==
  ASSUME SleepsInJournal
  PROVE  asleep' \in BOOLEAN
BY DEF SleepsInJournal

\* Every variable keeps its type in every interleaving of the tasks: the drain
\* timers, TimeFeedPump and the age of FloodingTime never wrap below zero.
THEOREM TypeCorrect == Safe => []TypeOK
<1>1. Init => TypeOK
  <2> SUFFICES ASSUME Init PROVE TypeOK
    OBVIOUS
  <2> USE DEF Init
  <2> asleep \in BOOLEAN /\ rpre \in BOOLEAN /\ ticked \in BOOLEAN
    OBVIOUS
  <2>1. PumpsTypeOK
    BY OptionsAssumption DEF PumpsTypeOK, BootSens, Reading, NoFlood
  <2>2. SharedTypeOK
    BY DEF SharedTypeOK, OK, RelayFlag
  <2>3. SavedTypeOK
    BY DEF SavedTypeOK
  <2>4. TasksTypeOK
    BY DEF TasksTypeOK, Filter
  <2> QED
    BY <2>1, <2>2, <2>3, <2>4 DEF TypeOK
<1>2. TypeOK /\ [Next]_vars => TypeOK'
  <2> SUFFICES ASSUME TypeOK, [Next]_vars PROVE TypeOK'
    OBVIOUS
  <2> USE OptionsAssumption
      DEF TypeOK, boosterVars, fillVars, drainVars, errorVars, saveVars, sensorVars,
          serviceVars, othersVars, NoFlood, OK, ErrorCode, ERRC, Filter
  <2>1. CASE PumpsFloodDrain
    <3> USE <2>1 DEF PumpsFloodDrain, PumpsAt, PumpsRun
    <3>1. PumpsTypeOK'
      BY SleepIsBoolean DEF PumpsTypeOK
    <3>2. SharedTypeOK'
      BY SwitchedType DEF SharedTypeOK
    <3>3. SavedTypeOK' /\ TasksTypeOK'
      BY DEF SavedTypeOK, TasksTypeOK
    <3> QED
      BY <3>1, <3>2, <3>3
  <2>2. CASE PumpsFloodTimers
    <3> USE <2>2 DEF PumpsFloodTimers, PumpsAt, PumpsRun
    <3>1. PumpsTypeOK'
      BY GoesOn DEF PumpsTypeOK
    <3>2. SharedTypeOK'
      BY DEF SharedTypeOK
    <3>3. SavedTypeOK' /\ TasksTypeOK'
      BY DEF SavedTypeOK, TasksTypeOK
    <3> QED
      BY <3>1, <3>2, <3>3
  <2>3. CASE PumpsFloodValve
    <3> USE <2>3 DEF PumpsFloodValve, PumpsAt, PumpsRun
    <3>1. PumpsTypeOK'
      BY SleepIsBoolean DEF PumpsTypeOK
    <3>2. SharedTypeOK'
      BY SwitchedType DEF SharedTypeOK
    <3>3. SavedTypeOK' /\ TasksTypeOK'
      BY DEF SavedTypeOK, TasksTypeOK
    <3> QED
      BY <3>1, <3>2, <3>3
  <2>4. CASE PumpsFloodMark
    <3> USE <2>4 DEF PumpsFloodMark, PumpsAt, PumpsRun
    <3>1. PumpsTypeOK'
      BY GoesOn DEF PumpsTypeOK
    <3>2. SharedTypeOK'
      BY DEF SharedTypeOK
    <3>3. SavedTypeOK' /\ TasksTypeOK'
      BY DEF SavedTypeOK, TasksTypeOK
    <3> QED
      BY <3>1, <3>2, <3>3
  <2>5. CASE PumpsUnflood
    <3> USE <2>5 DEF PumpsUnflood, PumpsAt, PumpsRun
    <3>1. PumpsTypeOK'
      BY GoesOn DEF PumpsTypeOK
    <3>2. SharedTypeOK'
      BY DEF SharedTypeOK
    <3>3. SavedTypeOK' /\ TasksTypeOK'
      BY DEF SavedTypeOK, TasksTypeOK
    <3> QED
      BY <3>1, <3>2, <3>3
  <2>6. CASE PumpsWater
    <3> USE <2>6 DEF PumpsWater, PumpsAt, PumpsRun
    <3>1. PumpsTypeOK'
      BY SleepIsBoolean DEF PumpsTypeOK, BoosterNext, FeedSpent, Reading
    <3>2. SharedTypeOK'
      BY SwitchedType DEF SharedTypeOK, BoosterNext, FeedSpent, Reading, PumpsTypeOK
    <3>3. SavedTypeOK' /\ TasksTypeOK'
      BY DEF SavedTypeOK, TasksTypeOK
    <3> QED
      BY <3>1, <3>2, <3>3
  <2>7. CASE PumpsRegen
    <3> USE <2>7 DEF PumpsRegen, PumpsAt, PumpsRun
    <3>1. PumpsTypeOK'
      BY GoesToSleep, SleepIsBoolean DEF PumpsTypeOK
    <3>2. SharedTypeOK'
      BY SwitchedType DEF SharedTypeOK
    <3>3. SavedTypeOK' /\ TasksTypeOK'
      BY DEF SavedTypeOK, TasksTypeOK
    <3> QED
      BY <3>1, <3>2, <3>3
  <2>8. CASE PumpsRegenMark
    <3> USE <2>8 DEF PumpsRegenMark, PumpsAt, PumpsRun, PumpsFilter
    <3>1. PumpsTypeOK'
      BY GoesToSleep, SleepIsBoolean DEF PumpsTypeOK
    <3>2. SharedTypeOK'
      BY SwitchedType DEF SharedTypeOK
    <3>3. SavedTypeOK'
      BY DEF SavedTypeOK
    <3>4. TasksTypeOK'
      BY DEF TasksTypeOK
    <3> QED
      BY <3>1, <3>2, <3>3, <3>4
  <2>9. CASE PumpsRegenSave
    <3> USE <2>9 DEF PumpsRegenSave, PumpsAt, PumpsRun
    <3>1. PumpsTypeOK'
      BY GoesToSleep DEF PumpsTypeOK
    <3>2. SavedTypeOK'
      BY DEF SavedTypeOK
    <3>3. SharedTypeOK' /\ TasksTypeOK'
      BY DEF SharedTypeOK, TasksTypeOK
    <3> QED
      BY <3>1, <3>2, <3>3
  <2>10. CASE SensorPower
    <3> USE <2>10 DEF SensorPower, SensorRun, sensorFrame
    <3>1. SharedTypeOK'
      BY DEF SharedTypeOK
    <3>2. TasksTypeOK'
      BY DEF TasksTypeOK, SharedTypeOK
    <3>3. PumpsTypeOK' /\ SavedTypeOK'
      BY DEF PumpsTypeOK, SavedTypeOK
    <3> QED
      BY <3>1, <3>2, <3>3
  <2>11. CASE SensorFlow
    <3> USE <2>11 DEF SensorFlow, SensorRun, sensorFrame
    <3>1. SharedTypeOK'
      BY DEF SharedTypeOK
    <3>2. TasksTypeOK'
      BY DEF TasksTypeOK, SharedTypeOK
    <3>3. PumpsTypeOK' /\ SavedTypeOK'
      BY DEF PumpsTypeOK, SavedTypeOK
    <3> QED
      BY <3>1, <3>2, <3>3
  <2>12. CASE SensorWeight
    <3> USE <2>12 DEF SensorWeight, SensorRun, sensorFrame
    <3>1. SharedTypeOK'
      BY DEF SharedTypeOK, Raise
    <3>2. TasksTypeOK'
      BY DEF TasksTypeOK, SharedTypeOK
    <3>3. PumpsTypeOK' /\ SavedTypeOK'
      BY DEF PumpsTypeOK, SavedTypeOK
    <3> QED
      BY <3>1, <3>2, <3>3
  <2>13. CASE SensorTrip
    <3> USE <2>13 DEF SensorTrip, SensorRun, sensorFrame
    <3>1. SharedTypeOK'
      BY DEF SharedTypeOK, Raise, TasksTypeOK
    <3>2. TasksTypeOK'
      BY DEF TasksTypeOK
    <3>3. PumpsTypeOK' /\ SavedTypeOK'
      BY DEF PumpsTypeOK, SavedTypeOK
    <3> QED
      BY <3>1, <3>2, <3>3
  <2>14. CASE SensorDose
    <3> USE <2>14 DEF SensorDose, SensorRun, sensorFrame
    <3>1. SharedTypeOK'
      BY DEF SharedTypeOK, TasksTypeOK
    <3>2. TasksTypeOK'
      BY DEF TasksTypeOK
    <3>3. PumpsTypeOK' /\ SavedTypeOK'
      BY DEF PumpsTypeOK, SavedTypeOK
    <3> QED
      BY <3>1, <3>2, <3>3
  <2>15. CASE SensorWeightEmpty
    <3> USE <2>15 DEF SensorWeightEmpty, SensorRun, sensorFrame
    <3>1. SharedTypeOK'
      BY DEF SharedTypeOK, Raise, TasksTypeOK
    <3>2. TasksTypeOK'
      BY DEF TasksTypeOK
    <3>3. PumpsTypeOK' /\ SavedTypeOK'
      BY DEF PumpsTypeOK, SavedTypeOK
    <3> QED
      BY <3>1, <3>2, <3>3
  <2>16. CASE SensorWeightOk
    <3> USE <2>16 DEF SensorWeightOk, SensorRun, sensorFrame
    <3>1. SharedTypeOK'
      BY DEF SharedTypeOK, TasksTypeOK
    <3>2. TasksTypeOK'
      BY DEF TasksTypeOK
    <3>3. PumpsTypeOK' /\ SavedTypeOK'
      BY DEF PumpsTypeOK, SavedTypeOK
    <3> QED
      BY <3>1, <3>2, <3>3
  <2>17. CASE ServicePost
    <3> USE <2>17 DEF ServicePost, ServiceRun, ServiceAt, ServiceGo, serviceFrame
    <3>1. SharedTypeOK'
      BY DEF SharedTypeOK, Raise
    <3>2. TasksTypeOK'
      BY DEF TasksTypeOK
    <3>3. PumpsTypeOK' /\ SavedTypeOK'
      BY DEF PumpsTypeOK, SavedTypeOK
    <3> QED
      BY <3>1, <3>2, <3>3
  <2>18. CASE ServiceClear
    <3> USE <2>18 DEF ServiceClear, ServiceRun, ServiceAt, ServiceGo, serviceFrame
    <3>1. SharedTypeOK'
      BY DEF SharedTypeOK, Raise
    <3>2. TasksTypeOK'
      BY DEF TasksTypeOK
    <3>3. PumpsTypeOK' /\ SavedTypeOK'
      BY DEF PumpsTypeOK, SavedTypeOK
    <3> QED
      BY <3>1, <3>2, <3>3
  <2>19. CASE ServiceSecond
    <3> USE <2>19 DEF ServiceSecond, ServiceRun, ServiceAt, ServiceGo, serviceFrame
    <3>1. SharedTypeOK'
      BY DEF SharedTypeOK
    <3>2. TasksTypeOK'
      BY DEF TasksTypeOK, SharedTypeOK
    <3>3. PumpsTypeOK' /\ SavedTypeOK'
      BY DEF PumpsTypeOK, SavedTypeOK
    <3> QED
      BY <3>1, <3>2, <3>3
  <2>20. CASE ServiceCountDrain
    <3> USE <2>20 DEF ServiceCountDrain, ServiceRun, ServiceAt, ServiceGo, serviceFrame
    <3>1. SharedTypeOK'
      BY SwitchedType DEF SharedTypeOK, TasksTypeOK
    <3>2. TasksTypeOK'
      BY DEF TasksTypeOK
    <3>3. PumpsTypeOK' /\ SavedTypeOK'
      BY DEF PumpsTypeOK, SavedTypeOK
    <3> QED
      BY <3>1, <3>2, <3>3
  <2>21. CASE ServiceDrained
    <3> USE <2>21 DEF ServiceDrained, ServiceRun, ServiceAt, ServiceGo, serviceFrame
    <3>1. SharedTypeOK'
      BY DEF SharedTypeOK, Raise
    <3>2. TasksTypeOK'
      BY DEF TasksTypeOK
    <3>3. PumpsTypeOK' /\ SavedTypeOK'
      BY DEF PumpsTypeOK, SavedTypeOK
    <3> QED
      BY <3>1, <3>2, <3>3
  <2>22. CASE ServiceCountAfter
    <3> USE <2>22 DEF ServiceCountAfter, ServiceRun, ServiceAt, ServiceGo, serviceFrame
    <3>1. SharedTypeOK'
      BY SwitchedType DEF SharedTypeOK, TasksTypeOK
    <3>2. TasksTypeOK'
      BY DEF TasksTypeOK
    <3>3. PumpsTypeOK' /\ SavedTypeOK'
      BY DEF PumpsTypeOK, SavedTypeOK
    <3> QED
      BY <3>1, <3>2, <3>3
  <2>23. CASE ServiceMinute
    <3> USE <2>23 DEF ServiceMinute, ServiceRun, ServiceAt, ServiceGo, serviceFrame
    <3>1. SavedTypeOK'
      BY DEF SavedTypeOK
    <3>2. TasksTypeOK'
      BY DEF TasksTypeOK, SavedTypeOK
    <3>3. PumpsTypeOK' /\ SharedTypeOK'
      BY DEF PumpsTypeOK, SharedTypeOK
    <3> QED
      BY <3>1, <3>2, <3>3
  <2>24. CASE ServiceSaved
    <3> USE <2>24 DEF ServiceSaved, ServiceRun, ServiceAt, ServiceGo, serviceFrame
    <3>1. SavedTypeOK'
      <4>1. needRtc' \in BOOLEAN
        BY DEF StillNeeded
      <4> QED
        BY <4>1 DEF SavedTypeOK, TasksTypeOK
    <3>2. TasksTypeOK'
      BY DEF TasksTypeOK
    <3>3. PumpsTypeOK' /\ SharedTypeOK'
      BY DEF PumpsTypeOK, SharedTypeOK
    <3> QED
      BY <3>1, <3>2, <3>3
  <2>25. CASE ServiceDrainTimer
    <3> USE <2>25 DEF ServiceDrainTimer, ServiceRun, ServiceAt, ServiceGo, serviceFrame
    <3>1. SharedTypeOK'
      BY DEF SharedTypeOK
    <3>2. TasksTypeOK'
      BY DEF TasksTypeOK
    <3>3. PumpsTypeOK' /\ SavedTypeOK'
      BY DEF PumpsTypeOK, SavedTypeOK
    <3> QED
      BY <3>1, <3>2, <3>3
  <2>26. CASE ServiceDrainValve
    <3> USE <2>26 DEF ServiceDrainValve, ServiceRun, ServiceAt, ServiceGo, serviceFrame
    <3>1. SharedTypeOK'
      BY SwitchedType DEF SharedTypeOK
    <3>2. TasksTypeOK'
      BY DEF TasksTypeOK
    <3>3. PumpsTypeOK' /\ SavedTypeOK'
      BY DEF PumpsTypeOK, SavedTypeOK
    <3> QED
      BY <3>1, <3>2, <3>3
  <2>27. CASE ServiceStarts
    <3> USE <2>27 DEF ServiceStarts, ServiceRun, ServiceAt, ServiceGo, serviceFrame
    <3>1. SharedTypeOK'
      BY DEF SharedTypeOK
    <3>2. TasksTypeOK'
      BY DEF TasksTypeOK
    <3>3. PumpsTypeOK' /\ SavedTypeOK'
      BY DEF PumpsTypeOK, SavedTypeOK
    <3> QED
      BY <3>1, <3>2, <3>3
  <2>28. CASE ServiceMayRegen
    <3> USE <2>28 DEF ServiceMayRegen, ServiceRun, ServiceAt, ServiceGo, serviceFrame
    <3>1. SharedTypeOK'
      BY DEF SharedTypeOK
    <3>2. TasksTypeOK'
      BY DEF TasksTypeOK
    <3>3. PumpsTypeOK' /\ SavedTypeOK'
      BY DEF PumpsTypeOK, SavedTypeOK
    <3> QED
      BY <3>1, <3>2, <3>3
  <2>29. CASE ServiceRegen
    <3> USE <2>29 DEF ServiceRegen, ServiceRun, ServiceAt, ServiceGo, serviceFrame
    <3>1. SharedTypeOK'
      BY SwitchedType DEF SharedTypeOK
    <3>2. TasksTypeOK'
      BY DEF TasksTypeOK
    <3>3. PumpsTypeOK' /\ SavedTypeOK'
      BY DEF PumpsTypeOK, SavedTypeOK
    <3> QED
      BY <3>1, <3>2, <3>3
  <2>30. CASE ServiceStart
    <3> USE <2>30 DEF ServiceStart, ServiceRun, ServiceAt, ServiceGo, serviceFrame
    <3>1. SharedTypeOK'
      BY SwitchedType DEF SharedTypeOK
    <3>2. TasksTypeOK'
      BY DEF TasksTypeOK
    <3>3. PumpsTypeOK' /\ SavedTypeOK'
      BY DEF PumpsTypeOK, SavedTypeOK
    <3> QED
      BY <3>1, <3>2, <3>3
  <2>31. CASE ServiceFill
    <3> USE <2>31 DEF ServiceFill, ServiceRun, ServiceAt, ServiceGo, serviceFrame
    <3>1. SharedTypeOK'
      BY SwitchedType DEF SharedTypeOK, PumpsTypeOK, Reading
    <3>2. TasksTypeOK'
      BY DEF TasksTypeOK
    <3>3. PumpsTypeOK' /\ SavedTypeOK'
      BY DEF PumpsTypeOK, SavedTypeOK
    <3> QED
      BY <3>1, <3>2, <3>3
  <2>32. CASE ServiceSaveStats
    <3> USE <2>32 DEF ServiceSaveStats, ServiceRun, ServiceAt, ServiceGo, serviceFrame
    <3>1. SavedTypeOK'
      BY DEF SavedTypeOK
    <3>2. TasksTypeOK'
      BY DEF TasksTypeOK
    <3>3. PumpsTypeOK' /\ SharedTypeOK'
      BY DEF PumpsTypeOK, SharedTypeOK
    <3> QED
      BY <3>1, <3>2, <3>3
  <2>33. CASE ServiceSaveRtc
    <3> USE <2>33 DEF ServiceSaveRtc, ServiceRun, ServiceAt, ServiceGo, serviceFrame
    <3>1. TasksTypeOK'
      BY DEF TasksTypeOK, SavedTypeOK
    <3>2. PumpsTypeOK' /\ SharedTypeOK' /\ SavedTypeOK'
      BY DEF PumpsTypeOK, SharedTypeOK, SavedTypeOK
    <3> QED
      BY <3>1, <3>2
  <2>34. CASE ServiceLook
    <3> USE <2>34 DEF ServiceLook, ServiceRun, ServiceAt, ServiceGo, serviceFrame
    <3>1. SavedTypeOK'
      BY DEF SavedTypeOK, ServiceFilter
    <3>2. TasksTypeOK'
      BY DEF TasksTypeOK, ServiceFilter, SavedTypeOK
    <3>3. PumpsTypeOK' /\ SharedTypeOK'
      BY DEF PumpsTypeOK, SharedTypeOK
    <3> QED
      BY <3>1, <3>2, <3>3
  <2>35. CASE ServiceFinish
    <3> USE <2>35 DEF ServiceFinish, ServiceRun, ServiceAt, ServiceGo, serviceFrame
    <3>1. SavedTypeOK'
      BY DEF SavedTypeOK, TasksTypeOK
    <3>2. TasksTypeOK'
      BY DEF TasksTypeOK
    <3>3. PumpsTypeOK' /\ SharedTypeOK'
      BY DEF PumpsTypeOK, SharedTypeOK
    <3> QED
      BY <3>1, <3>2, <3>3
  <2>36. CASE ServiceFinishValve
    <3> USE <2>36 DEF ServiceFinishValve, ServiceRun, ServiceAt, ServiceGo, serviceFrame
    <3>1. SharedTypeOK'
      BY SwitchedType DEF SharedTypeOK, Raise
    <3>2. TasksTypeOK'
      BY DEF TasksTypeOK
    <3>3. PumpsTypeOK' /\ SavedTypeOK'
      BY DEF PumpsTypeOK, SavedTypeOK
    <3> QED
      BY <3>1, <3>2, <3>3
  <2>37. CASE ServiceFinishTimer
    <3> USE <2>37 DEF ServiceFinishTimer, ServiceRun, ServiceAt, ServiceGo, serviceFrame
    <3>1. SharedTypeOK'
      BY DEF SharedTypeOK
    <3>2. TasksTypeOK'
      BY DEF TasksTypeOK
    <3>3. PumpsTypeOK' /\ SavedTypeOK'
      BY DEF PumpsTypeOK, SavedTypeOK
    <3> QED
      BY <3>1, <3>2, <3>3
  <2>38. CASE ServiceFinishDrain
    <3> USE <2>38 DEF ServiceFinishDrain, ServiceRun, ServiceAt, ServiceGo, serviceFrame
    <3>1. SharedTypeOK'
      BY SwitchedType DEF SharedTypeOK
    <3>2. TasksTypeOK'
      BY DEF TasksTypeOK
    <3>3. PumpsTypeOK' /\ SavedTypeOK'
      BY DEF PumpsTypeOK, SavedTypeOK
    <3> QED
      BY <3>1, <3>2, <3>3
  <2>39. CASE OperatorClear
    <3> USE <2>39 DEF OperatorClear, operatorFrame
    <3>1. SharedTypeOK'
      BY DEF SharedTypeOK
    <3>2. TasksTypeOK'
      BY DEF TasksTypeOK
    <3>3. PumpsTypeOK' /\ SavedTypeOK'
      BY DEF PumpsTypeOK, SavedTypeOK
    <3> QED
      BY <3>1, <3>2, <3>3
  <2>40. CASE OperatorValve
    <3> USE <2>40 DEF OperatorValve, operatorFrame
    <3>1. SharedTypeOK'
      BY SwitchedType DEF SharedTypeOK
    <3>2. TasksTypeOK'
      BY DEF TasksTypeOK
    <3>3. PumpsTypeOK' /\ SavedTypeOK'
      BY DEF PumpsTypeOK, SavedTypeOK
    <3> QED
      BY <3>1, <3>2, <3>3
  <2>41. CASE OperatorRelay
    <3> USE <2>41 DEF OperatorRelay, operatorFrame
    <3>1. SharedTypeOK'
      BY DEF SharedTypeOK, RelayFlag
    <3>2. PumpsTypeOK' /\ SavedTypeOK' /\ TasksTypeOK'
      BY DEF PumpsTypeOK, SavedTypeOK, TasksTypeOK
    <3> QED
      BY <3>1, <3>2
  <2>42. ASSUME NEW adc \in BOOLEAN, PumpsSense(adc) PROVE TypeOK'
    <3> USE <2>42 DEF PumpsSense, PumpsRun
    <3> PICK now \in Readings :
          sens' = IF adc THEN now ELSE [now EXCEPT !.press = sens.press, !.level = sens.level]
      OBVIOUS
    <3>1. sens' \in Reading
      BY DEF PumpsTypeOK, Reading
    <3>2. critTimer' \in Nat /\ wbTimer' \in 0 .. TickMod - 1
      BY DEF PumpsTypeOK, Advanced
    <3>3. FloodAged \in NoFlood .. FloodCap /\ DebounceAge \in NoFlood .. FloodCap
      BY DEF PumpsTypeOK, FloodAged, DebounceAge, Minimum
    <3>4. PICK err \in ErrorCode \cup {OK} : FloodWet(err) \/ FloodDry(err)
      BY DEF SharedTypeOK
    <3>5. PumpsTypeOK'
      <4>1. rpre' \in BOOLEAN
        OBVIOUS
      <4>2. CASE FloodWet(err)
        BY <3>1, <3>2, <3>3, <4>1, <4>2, GoesOn, SleepIsBoolean DEF PumpsTypeOK, FloodWet
      <4>3. CASE FloodDry(err)
        BY <3>1, <3>2, <3>3, <4>1, <4>3, GoesOn, SleepIsBoolean DEF PumpsTypeOK, FloodDry
      <4> QED
        BY <3>4, <4>2, <4>3
    <3>6. SharedTypeOK'
      <4>1. critical' \subseteq ERRC
        BY DEF SharedTypeOK
      <4>2. fillAge' \in Nat
        BY DEF SharedTypeOK, Minimum
      <4>5. ticked' \in BOOLEAN
        OBVIOUS
      <4>3. relay' \in [Relay -> SUBSET RelayFlag] /\ newErr' \in ErrorCode \cup {OK}
        BY <3>4, SwitchedType DEF SharedTypeOK, FloodWet, FloodDry, TripError
      <4> QED
        BY <4>1, <4>2, <4>5, <4>3 DEF SharedTypeOK
    <3>7. SavedTypeOK'
      BY DEF SavedTypeOK
    <3>8. TasksTypeOK'
      BY DEF TasksTypeOK
    <3> QED
      BY <3>5, <3>6, <3>7, <3>8
  <2>43. CASE Reset
    <3> USE <2>43 DEF Reset
    <3> asleep' \in BOOLEAN /\ rpre' \in BOOLEAN /\ ticked' \in BOOLEAN
      OBVIOUS
    <3>1. PumpsTypeOK'
      BY DEF PumpsTypeOK, BootSens, Reading
    <3>2. SharedTypeOK'
      BY DEF SharedTypeOK, RelayFlag
    <3>3. needRtc' \in BOOLEAN /\ needStats' \in BOOLEAN
      OBVIOUS
    <3>4. SavedTypeOK'
      BY <3>3 DEF SavedTypeOK
    <3>5. TasksTypeOK'
      BY DEF TasksTypeOK
    <3> QED
      BY <3>1, <3>2, <3>4, <3>5
  <2>44. CASE UNCHANGED vars
    BY <2>44 DEF vars, PumpsTypeOK, SharedTypeOK, SavedTypeOK, TasksTypeOK
  <2> QED
    BY <2>1, <2>2, <2>3, <2>4, <2>5, <2>6, <2>7, <2>8, <2>9, <2>10, <2>11, <2>12, <2>13, <2>14, <2>15, <2>16, <2>17, <2>18, <2>19, <2>20, <2>21, <2>22, <2>23, <2>24, <2>25, <2>26, <2>27, <2>28, <2>29, <2>30, <2>31, <2>32, <2>33, <2>34, <2>35, <2>36, <2>37, <2>38, <2>39, <2>40, <2>41, <2>42, <2>43, <2>44
    DEF Next, Pumps, PumpsAct, Sensor, SensorStore, Service, Operator
<1> QED
  BY <1>1, <1>2, PTL DEF Safe
=============================================================================
