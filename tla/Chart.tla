-------------------------------- MODULE Chart --------------------------------
(***************************************************************************)
(* Class statChart: a ring of the newest points.  vService and vPumps add  *)
(* points; the browser and the menu clear and list them, and are           *)
(* interrupted by those of a higher priority.  Nothing is locked.          *)
(***************************************************************************)
EXTENDS Naturals, Sequences

CONSTANTS CHART_POINT,  \* the places
          MaxPoint      \* bound of this model on the points that are added

ASSUME ChartBounds == CHART_POINT \in Nat \ {0, 1} /\ MaxPoint \in Nat

VARIABLES
  data,         \* data; a point is its number, so the order is that of time
  pos,          \* pos
  num,          \* num
  flagFULL,     \* flagFULL
  point,        \* the next point
  clearing,     \* place of the browser in clear()
  listing,      \* is a list being made?
  list,         \* the points listed so far
  upset         \* history: a clear() met another call

chartVars == <<data, pos, num, flagFULL, point, clearing, listing, list, upset>>

PLACES_OF_CHART == 0 .. CHART_POINT - 1

ChartInit ==
  /\ data = [x \in PLACES_OF_CHART |-> 0] /\ pos = 0 /\ num = 0 /\ flagFULL = FALSE
  /\ point = 1 /\ clearing = "idle" /\ listing = FALSE /\ list = <<>> /\ upset = FALSE
-----------------------------------------------------------------------------
addPoint ==
  /\ point <= MaxPoint
  /\ data' = [data EXCEPT ![pos] = point]
  /\ pos' = IF pos < CHART_POINT - 1 THEN pos + 1 ELSE 0
  /\ flagFULL' = (flagFULL \/ pos = CHART_POINT - 1)
  /\ num' = IF flagFULL' THEN num ELSE num + 1
  /\ point' = point + 1
  /\ upset' = (upset \/ clearing # "idle")
  /\ UNCHANGED <<clearing, listing, list>>

\* clear() stores pos, num, flagFULL and the points one after another.
ClearsPos == /\ clearing = "idle"
             /\ pos' = 0 /\ clearing' = "num"
             /\ upset' = (upset \/ listing)
             /\ UNCHANGED <<data, num, flagFULL, point, listing, list>>
ClearsNum == /\ clearing = "num"
             /\ num' = 0 /\ clearing' = "full"
             /\ UNCHANGED <<data, pos, flagFULL, point, listing, list, upset>>
ClearsFull == /\ clearing = "full"
              /\ flagFULL' = FALSE /\ clearing' = "data"
              /\ UNCHANGED <<data, pos, num, point, listing, list, upset>>
ClearsData == /\ clearing = "data"
              /\ data' = [x \in PLACES_OF_CHART |-> 0] /\ clearing' = "idle"
              /\ UNCHANGED <<pos, num, flagFULL, point, listing, list, upset>>
-----------------------------------------------------------------------------
(* get_PointsStr and its like: point 0 is the oldest *)

Wrapped(x) == IF x < CHART_POINT THEN x ELSE x - CHART_POINT
BrokenPoint(x) == data[x]
get_Point(x) == IF flagFULL THEN data[Wrapped(pos + x)] ELSE data[x]

ListBegins == /\ ~listing /\ num > 0
              /\ listing' = TRUE /\ list' = <<>>
              /\ upset' = (upset \/ clearing # "idle")
              /\ UNCHANGED <<data, pos, num, flagFULL, point, clearing>>

Lists == /\ listing /\ Len(list) < num
         /\ list' = Append(list, get_Point(Len(list)))
         /\ UNCHANGED <<data, pos, num, flagFULL, point, clearing, listing, upset>>

ListEnds == /\ listing /\ Len(list) >= num
            /\ listing' = FALSE /\ list' = <<>>
            /\ UNCHANGED <<data, pos, num, flagFULL, point, clearing, upset>>

ChartNext == \/ addPoint \/ ListBegins \/ Lists \/ ListEnds
             \/ ClearsPos \/ ClearsNum \/ ClearsFull \/ ClearsData

ChartSpec == ChartInit /\ [][ChartNext]_chartVars
-----------------------------------------------------------------------------
\* A list is in the order of time and has no empty place, however many points are
\* added while it is made, the one that fills the ring and those that overwrite the
\* oldest ones included; unless clear() met another call.
ListInOrder == ~upset =>
  \A i \in 1 .. Len(list) : list[i] > IF i = 1 THEN 0 ELSE list[i - 1]
=============================================================================
