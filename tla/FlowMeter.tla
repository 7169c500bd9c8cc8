----------------------------- MODULE FlowMeter -----------------------------
(***************************************************************************)
(* The flow meter: pulses counted by an interrupt, made litres and a rest  *)
(* by vReadSensor, and the two that take the rest into account: vPumps,    *)
(* which notes the water of a pause of the booster, and vService, which    *)
(* judges the water of a drain.  vPumps comes between any two steps of     *)
(* vReadSensor, vReadSensor between any two of vService.  There is no      *)
(* regeneration while water is drained.                                    *)
(***************************************************************************)
EXTENDS Integers

CONSTANTS kfValue,          \* hundredths of a pulse in a litre
          MinDrainLiters,   \* tenths of a litre
          MaxPulses         \* bound: pulses of a behaviour

ASSUME FlowAssumption ==
  kfValue \in Nat \ {0} /\ MinDrainLiters \in Nat /\ MaxPulses \in Nat

VARIABLES
  count,            \* pulses that the interrupt has counted
  PassedRest,       \* less than a litre, in hundredths of a pulse
  Passed,           \* whole litres that nobody has taken
  sensing,          \* vReadSensor: its place and its locals cnt, passed and WaterBoosterCountL
  CountL,           \* WaterBoosterCountL
  CountLrest,       \* WaterBoosterCountLrest
  CountLrest0,      \* _WaterBoosterCountLrest: the rest at the booster's stop
  boosting,         \* WaterBoosterStatus # 0
  noted,            \* i, noted at the start: hundredths of a litre; at the stop forgotten
  drain,            \* vService: "no", "begun", "on", "ends" (UsedDrain loaded), "judged"
  UsedDrain,        \* WorkStats.UsedDrain, tenths of a litre, and as it was loaded
  UsedDrainRest,    \* UsedDrainRest
  fewLitres,        \* ERR_FEW_LITERS_DRAIN was raised
  pulses,           \* history: all pulses
  accounted,        \* history: those that CountL and CountLrest account for, in hundredths
  pause,            \* history: accounted at the stop, and the water from there to the start
  cut,              \* history: the places of vReadSensor at the stop and at the start
  drainFrom         \* history: accounted when the drain began; nothing is drained: zero

counterVars == <<count, PassedRest, Passed, CountL, CountLrest, sensing, accounted>>
boosterCountVars == <<CountLrest0, boosting, noted, pause, cut>>
drainVars == <<drain, UsedDrain, UsedDrainRest, fewLitres, drainFrom>>
flowVars == <<counterVars, boosterCountVars, drainVars, pulses>>

FlowInit ==
  /\ count = 0 /\ PassedRest = 0 /\ Passed = 0 /\ CountL = 0 /\ CountLrest = 0
  /\ sensing = [at |-> "idle", cnt |-> 0, passed |-> 0, loaded |-> 0]
  /\ CountLrest0 = 0 /\ boosting = FALSE /\ noted = 0
  /\ drain = "no" /\ UsedDrain = [now |-> 0, loaded |-> 0] /\ UsedDrainRest = 0
  /\ fewLitres = FALSE
  /\ pulses = 0 /\ accounted = 0 /\ drainFrom = 0
  /\ pause = [from |-> 0, water |-> 0] /\ cut = [stop |-> "idle", start |-> "idle"]

\* C's division truncates towards zero; UsedDrain is an uint16_t.
Truncated(a, b) == IF a >= 0 THEN a \div b ELSE -((-a) \div b)
Narrow(n) == n % 65536
-----------------------------------------------------------------------------
(* The interrupt and vReadSensor *)

InterruptHandler ==
  /\ pulses < MaxPulses
  /\ count' = count + 1 /\ pulses' = pulses + 1
  /\ UNCHANGED <<PassedRest, Passed, CountL, CountLrest, sensing, accounted,
                 boosterCountVars, drainVars>>

ReaderOnly == UNCHANGED <<pulses, boosterCountVars>>

\* Read, with the interrupts off.
ReadTakes ==
  /\ sensing.at = "idle"
  /\ sensing' = [sensing EXCEPT !.at = "add", !.cnt = 100 * count]
  /\ count' = 0
  /\ UNCHANGED <<PassedRest, Passed, CountL, CountLrest, accounted, drainVars>>
  /\ ReaderOnly

WithRest(cnt) == PassedRest + cnt

ReadAdds ==
  /\ sensing.at = "add"
  /\ sensing' = [sensing EXCEPT !.at = "take", !.cnt = 0]
  /\ Passed' = Passed + WithRest(sensing.cnt) \div kfValue
  /\ PassedRest' = WithRest(sensing.cnt) % kfValue
  /\ UNCHANGED <<count, CountL, CountLrest, accounted, drainVars>>
  /\ ReaderOnly

\* The litres are taken, and WaterBoosterCountL is loaded ...
TakesPassed ==
  /\ sensing.at = "take"
  /\ sensing' = [sensing EXCEPT !.at = "store", !.passed = Passed, !.loaded = CountL]
  /\ Passed' = 0
  /\ UNCHANGED <<count, PassedRest, CountL, CountLrest, accounted, drainVars>>
  /\ ReaderOnly

\* ... and stored; ...
StoresL ==
  /\ sensing.at = "store"
  /\ sensing' = [sensing EXCEPT !.at = "rest"]
  /\ CountL' = sensing.loaded + sensing.passed
  /\ accounted' = 100 * (pulses - count)
  /\ UNCHANGED <<count, PassedRest, Passed, CountLrest, drainVars>>
  /\ ReaderOnly

\* ... then the rest, and the litres of a drain.
StoresRest ==
  /\ sensing.at = "rest"
  /\ sensing' = [sensing EXCEPT !.at = "idle", !.passed = 0, !.loaded = 0]
  /\ CountLrest' = PassedRest
  /\ UsedDrain' = IF drain = "no" THEN UsedDrain
                  ELSE [UsedDrain EXCEPT !.now = Narrow(@ + 10 * sensing.passed)]
  /\ UNCHANGED <<count, PassedRest, Passed, CountL, accounted,
                 drain, UsedDrainRest, fewLitres, drainFrom>>
  /\ ReaderOnly
-----------------------------------------------------------------------------
(* vPumps: the booster's start and stop *)

RestSinceStop == CountLrest - CountLrest0

BoosterStarts ==
  /\ ~boosting
  /\ boosting' = TRUE
  /\ noted' = 100 * CountL + Truncated(100 * RestSinceStop, kfValue)
  /\ pause' = [pause EXCEPT !.water = accounted - pause.from]
  /\ cut' = [cut EXCEPT !.start = sensing.at]
  /\ UNCHANGED <<counterVars, CountLrest0, drainVars, pulses>>

BrokenRestAtStop == 0
RestAtStop == CountLrest

BoosterStops ==
  /\ boosting
  /\ boosting' = FALSE
  /\ CountL' = 0 /\ CountLrest0' = RestAtStop
  /\ pause' = [from |-> accounted, water |-> 0]
  /\ cut' = [stop |-> sensing.at, start |-> "idle"]
  /\ noted' = 0
  /\ UNCHANGED <<count, PassedRest, Passed, CountLrest, sensing, accounted, drainVars,
                 pulses>>
-----------------------------------------------------------------------------
(* vService: a drain after days without consumption *)

ServiceOnly == sensing.at = "idle" /\ UNCHANGED <<counterVars, boosterCountVars, pulses>>

DrainBegins ==
  /\ drain = "no"
  /\ drain' = "begun" /\ UsedDrain' = [UsedDrain EXCEPT !.now = 0]
  /\ drainFrom' = accounted /\ fewLitres' = FALSE
  /\ UNCHANGED UsedDrainRest
  /\ ServiceOnly

DrainOpens ==
  /\ drain = "begun"
  /\ drain' = "on" /\ UsedDrainRest' = PassedRest
  /\ UNCHANGED <<UsedDrain, fewLitres, drainFrom>>
  /\ ServiceOnly

\* TimerDrainingWater = 0: UsedDrain is loaded ...
DrainEnds ==
  /\ drain = "on"
  /\ drain' = "ends" /\ UsedDrain' = [UsedDrain EXCEPT !.loaded = UsedDrain.now]
  /\ UNCHANGED <<UsedDrainRest, fewLitres, drainFrom>>
  /\ ServiceOnly

\* ... and stored less the rest, and judged.
DrainIsJudged ==
  /\ drain = "ends"
  /\ LET used == UsedDrain.loaded - Truncated(10 * (PassedRest - UsedDrainRest), kfValue)
     IN  /\ UsedDrain' = [now |-> Narrow(used), loaded |-> 0]
         /\ fewLitres' = (Narrow(used) < MinDrainLiters)
  /\ drain' = "judged"
  /\ UNCHANGED <<UsedDrainRest, drainFrom>>
  /\ ServiceOnly

\* vReadSensor counts for the drain a second longer than vService.
DrainIsOver ==
  /\ drain = "judged"
  /\ drain' = "no" /\ drainFrom' = 0
  /\ UNCHANGED <<UsedDrain, UsedDrainRest, fewLitres>>
  /\ ServiceOnly

MeterStep == InterruptHandler \/ ReadTakes \/ ReadAdds \/ TakesPassed \/ StoresL \/ StoresRest
BoosterStep == BoosterStarts \/ BoosterStops
DrainStep == DrainBegins \/ DrainOpens \/ DrainEnds \/ DrainIsJudged \/ DrainIsOver

FlowNext == MeterStep \/ BoosterStep \/ DrainStep

FlowSpec == FlowInit /\ [][FlowNext]_flowVars
-----------------------------------------------------------------------------
\* What is noted at the booster's start is the water of the pause, to a hundredth
\* of a litre; to two litres if the start or the stop came between the two stores
\* of vReadSensor.  A stop between its load and its store is undone: the pause
\* before is noted again.
BoosterNoted == boosting /\ cut.stop # "store" =>
  LET error == 100 * pause.water - kfValue * noted
      within == IF "rest" \in {cut.stop, cut.start} THEN 200 * kfValue ELSE kfValue
  IN  -within < error /\ error < within

\* "An alarm, if less than this was drained" (MainClass.h, MinDrainLiters); a litre
\* of play for what vReadSensor counts while vService begins or ends.
FewLitresReported ==
  drain = "judged" /\ 10 * (accounted - drainFrom + kfValue) < MinDrainLiters * kfValue
    => fewLitres
=============================================================================
