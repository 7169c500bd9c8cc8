--------------------------- MODULE MCFloodWatch ---------------------------
(* An instance of FloodWatch for TLC, with the readings of MCWaterControl. *)
EXTENDS FloodWatch, MCWaterControl

\* Bound of this model: the drain after no consumption and the dosing pump are not at
\* work at once.  That drain falls due when no water was used for long, the pump doses
\* water that is used.  TLC goes no further where both are.
DrainOrDose ==
  \/ drainTimer = 0 /\ ~On("RDRAIN") /\ spc \notin {"drainTimer", "drainValve"}
  \/ feedTime = 0 /\ rfeed = 0 /\ ~On("RFEEDPUMP")
=============================================================================
