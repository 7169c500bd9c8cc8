-------------------------- MODULE BoosterPromise --------------------------
(***************************************************************************)
(* What the control of the water booster promises, told without pressures, *)
(* passes or a status word: two stages that start one after the other and  *)
(* stop in the reverse order, a rest between two runs, a run that is not   *)
(* cut short but by a fault, and nothing that starts during a fault.       *)
(***************************************************************************)
EXTENDS Integers

CONSTANTS Slice, MinOnTime, MinOffTime,
          MaxTime                 \* a clock that stops when it reaches it

VARIABLES stages,     \* the stages that are held on
          closing,    \* stage two was shed, stage one follows
          elapsed,    \* since the booster last started or stopped
          fault       \* there is a critical error

pvars == <<stages, closing, elapsed, fault>>

One == {"RBOOSTER1"}
Both == {"RBOOSTER1", "RBOOSTER2"}

PInit == stages = {} /\ closing = FALSE /\ elapsed = 0 /\ fault = FALSE

\* Time passes, faults come and go; neither switches anything by itself.
Pass ==
  /\ elapsed' \in {elapsed, IF elapsed + Slice < MaxTime THEN elapsed + Slice ELSE MaxTime}
  /\ fault' \in BOOLEAN
  /\ UNCHANGED <<stages, closing>>

StartOne ==
  /\ stages = {} /\ ~fault /\ elapsed >= MinOffTime
  /\ stages' = One /\ elapsed' = 0
  /\ UNCHANGED <<closing, fault>>

StartTwo ==
  /\ stages = One /\ ~closing /\ ~fault
  /\ stages' = Both
  /\ UNCHANGED <<closing, elapsed, fault>>

RanEnough == fault \/ elapsed >= MinOnTime

ShedTwo ==
  /\ stages = Both /\ RanEnough
  /\ stages' = One /\ closing' = TRUE
  /\ UNCHANGED <<elapsed, fault>>

StopOne ==
  /\ stages = One /\ (closing \/ RanEnough)
  /\ stages' = {} /\ closing' = FALSE /\ elapsed' = 0
  /\ UNCHANGED fault

Restart == stages' = {} /\ closing' = FALSE /\ elapsed' = 0 /\ fault' = FALSE

PNext == Pass \/ StartOne \/ StartTwo \/ ShedTwo \/ StopOne \/ Restart

PSpec == PInit /\ [][PNext]_pvars
=============================================================================
