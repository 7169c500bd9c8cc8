------------------------------- MODULE Relay -------------------------------
(***************************************************************************)
(* devRelay::set_Relay, called for one relay by tasks of several           *)
(* priorities and protected by nothing.  flags keeps who asks for the      *)
(* relay, on (Relay in the code) what the program believes of it and pin   *)
(* what the machine does.  The scheduler preempts: a task waits while one  *)
(* of a higher priority runs, and tasks of equal priority take turns at    *)
(* any point.                                                              *)
(***************************************************************************)
EXTENDS Naturals, FiniteSets

CONSTANTS Task,         \* the tasks that switch this relay
          Priority,     \* their priorities
          Orders        \* what each of them may do with it

Requesters == {"Main", "Manual"}
Command == {"on", "off", "manual", "alloff"}

ASSUME TasksRanked == Priority \in [Task -> Nat]
ASSUME OrdersKnown == \A t \in Task : Orders[t] \subseteq Command \union {"stop", "toggle"}

VARIABLES
  flags,        \* devRelay::flags, less fPresent
  on,           \* devRelay::Relay
  pin,          \* the output
  at,           \* where in set_Relay each task is
  cmd,          \* its argument r
  mine,         \* its register with flags: the loaded, then the new value
  torn,         \* history: opposite verdicts were on their way together
  fresh         \* history: the tasks with the only verdict on its way

relayVars == <<flags, on, pin, at, cmd, mine, torn, fresh>>

\* initRelay
RelayInit ==
  /\ flags = {} /\ on = FALSE /\ pin = FALSE
  /\ at = [t \in Task |-> "idle"]
  /\ cmd = [t \in Task |-> "off"]
  /\ mine = [t \in Task |-> {}]
  /\ torn = FALSE /\ fresh = {}

Runs(t) == \A u \in Task : at[u] # "idle" => Priority[u] <= Priority[t]
Goes(t, p) == at' = [at EXCEPT ![t] = p]

\* The argument and the register are gone when the call is over.
Leaves(t) == /\ Goes(t, "idle")
             /\ cmd' = [cmd EXCEPT ![t] = "off"]
             /\ mine' = [mine EXCEPT ![t] = {}]

Asked(f, c) == CASE c = "on" -> f \union {"Main"}
                 [] c = "off" -> f \ {"Main"}
                 [] c = "manual" -> f \union {"Manual"}
                 [] c = "alloff" -> {}

BrokenWanted(t) == cmd[t] \in {"on", "manual"}

\* The program's verdict, r after the flags are known.
Wanted(t) == mine[t] # {}
OnTheWay(t) == at[t] \in {"compare", "set", "drive"}

\* vPumps stops filling, and the keys toggle, by what get_Relay says.
Ordered(o) == CASE o = "stop" -> "off"
                [] o = "toggle" -> IF on THEN "alloff" ELSE "manual"
                [] OTHER -> o

Call(t) ==
  /\ at[t] = "idle" /\ Runs(t)
  /\ \E o \in Orders[t] : /\ o = "stop" => on
                          /\ cmd' = [cmd EXCEPT ![t] = Ordered(o)]
  /\ Goes(t, "load")
  /\ UNCHANGED <<flags, on, pin, mine, torn, fresh>>

Load(t) ==
  /\ at[t] = "load" /\ Runs(t)
  /\ mine' = [mine EXCEPT ![t] = flags]
  /\ Goes(t, "store")
  /\ UNCHANGED <<flags, on, pin, cmd, torn, fresh>>

\* The new flags stay in the register, and r is computed from there.
Store(t) ==
  /\ at[t] = "store" /\ Runs(t)
  /\ UNCHANGED <<on, pin, cmd>>
  /\ mine' = [mine EXCEPT ![t] = Asked(mine[t], cmd[t])]
  /\ flags' = mine'[t]
  /\ Goes(t, "compare")
  /\ torn' = (torn \/ \E u \in Task \ {t} : OnTheWay(u) /\ Wanted(u) # Wanted(t)')
  /\ fresh' = IF \E u \in Task \ {t} : OnTheWay(u) THEN {} ELSE {t}

Compare(t) ==
  /\ at[t] = "compare" /\ Runs(t)
  /\ IF on = Wanted(t) THEN Leaves(t) ELSE Goes(t, "set") /\ UNCHANGED <<cmd, mine>>
  /\ UNCHANGED <<flags, on, pin, torn, fresh>>

SetState(t) ==
  /\ at[t] = "set" /\ Runs(t)
  /\ on' = Wanted(t)
  /\ Goes(t, "drive")
  /\ UNCHANGED <<flags, pin, cmd, mine, torn, fresh>>

\* digitalWriteDirect(pin, r).  A switch whose verdict was the only one on its
\* way mends a torn relay.
Drive(t) ==
  /\ at[t] = "drive" /\ Runs(t)
  /\ pin' = Wanted(t)
  /\ Leaves(t)
  /\ torn' = (torn /\ t \notin fresh)
  /\ UNCHANGED <<flags, on, fresh>>

RelayNext == \E t \in Task : \/ Call(t) \/ Load(t) \/ Store(t)
                             \/ Compare(t) \/ SetState(t) \/ Drive(t)

RelaySpec == RelayInit /\ [][RelayNext]_relayVars
-----------------------------------------------------------------------------
RelayTypeOK ==
  /\ flags \in SUBSET Requesters /\ mine \in [Task -> SUBSET Requesters]
  /\ on \in BOOLEAN /\ pin \in BOOLEAN /\ torn \in BOOLEAN
  /\ at \in [Task -> {"idle", "load", "store", "compare", "set", "drive"}]
  /\ cmd \in [Task -> Command]
  /\ fresh \in SUBSET Task

Settled == \A t \in Task : ~OnTheWay(t)

\* A relay whose flags, belief and output disagree when no verdict is on its
\* way has been torn: two tasks stored opposite flags before the first had
\* written the pin, and nobody has switched the relay undisturbed since.  Lost
\* updates of flags, and any other interleaving, leave the three in agreement.
QuietRelayIsTrue == Settled /\ ~torn => on = (flags # {}) /\ pin = on
=============================================================================
