---------------------------- MODULE FloodWatch ----------------------------
(***************************************************************************)
(* What the protection against flooding promises.  The code keeps one time *)
(* stamp, FloodingTime, for two purposes: the debounce of the inputs and   *)
(* the wait before the water is let in again.  This module watches the     *)
(* controller with a clock of its own, dryFor, that the code does not see: *)
(* how long the inputs have been dry, or the operator has declared them    *)
(* dry by clearing the errors.                                             *)
(***************************************************************************)
EXTENDS WaterControl

VARIABLE dryFor         \* saturates at FloodCap

watchVars == <<vars, dryFor>>

WatchInit == Init /\ dryFor = 0

\* A pass reads the inputs once; an operator's word counts as long dry.
WatchNext ==
  \/ \E adc \in BOOLEAN : /\ PumpsSense(adc)
                         /\ dryFor' = IF Leaking(sens') THEN 0
                                      ELSE Minimum(dryFor + Slice, FloodCap)
  \/ OperatorClear /\ dryFor' = FloodCap
  \/ Reset /\ dryFor' = 0
  \/ (PumpsAct \/ Sensor \/ Service \/ OperatorValve \/ OperatorRelay) /\ UNCHANGED dryFor

WatchSafe == WatchInit /\ [][WatchNext]_watchVars
-----------------------------------------------------------------------------
DryEnough == dryFor > FloodingTimeout - FloodingDebounceTime

\* vPumps lets the water in again only when the inputs have been dry for
\* FloodingTimeout (less the debounce, for FloodingTime is renewed only that
\* often), whatever vReadSensor's stale copies of CriticalErrors, the operator
\* and restarts did in between.
ReleasesWater == Pumps /\ Holds("RWATEROFF") /\ "Main" \notin relay'["RWATEROFF"]
ReopenedAfterDry == [][ReleasesWater => DryEnough']_watchVars
=============================================================================
