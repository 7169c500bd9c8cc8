-------------------------- MODULE MCWaterControl --------------------------
(***************************************************************************)
(* Instances of WaterControl for TLC.  A .cfg opens the part of the        *)
(* environment its question is about and keeps the rest quiet: Readings,   *)
(* Doses, Due, Commands ... are sets the actions choose from.              *)
(***************************************************************************)
EXTENDS WaterControl

NoErrorPress == -100

Quiet == [regA |-> FALSE, back |-> FALSE, reg2 |-> FALSE, flood |-> FALSE, leak |-> FALSE,
          press |-> 5, level |-> 5]

Calm == {Quiet}

\* Pressure below, between and above the limits of the booster; an empty tank.
PressureReadings == {[Quiet EXCEPT !.press = p] : p \in {1, 5, 9}}
                    \cup {[Quiet EXCEPT !.press = 1, !.level = 0]}

\* The tank empty, half full, full; the pressure asks for the booster.
TankReadings == {[Quiet EXCEPT !.press = 1, !.level = l] : l \in {0, 5, 9}}

\* The flooding inputs.
FloodReadings == {Quiet, [Quiet EXCEPT !.flood = TRUE], [Quiet EXCEPT !.leak = TRUE]}
FloodOnly == {Quiet, [Quiet EXCEPT !.flood = TRUE]}

\* A flooding while the tank is low or full.
FloodFillReadings == {[Quiet EXCEPT !.level = l, !.flood = f] : l \in {2, 5, 9}, f \in BOOLEAN}
FloodRegenReadings == FloodOnly \cup {[Quiet EXCEPT !.regA = TRUE]}
FloodTankReadings == FloodReadings \cup {[Quiet EXCEPT !.level = 2]}

\* The filters' outputs, one at a time with a full tank.
RegenReadings == {[Quiet EXCEPT !.level = 9, !.regA = f = "F1", !.reg2 = f = "F2"] :
                    f \in {"none", "F1", "F2"}}

\* The same, and a backwash, for which the tank is topped up sooner.
BackwashReadings == RegenReadings \cup {[Quiet EXCEPT !.back = TRUE, !.level = 6]}
=============================================================================
