----------------------------- MODULE ErrorList -----------------------------
(***************************************************************************)
(* set_Error with its list of active errors (Errors[]) and the one error   *)
(* that the display shows (MC.error), and clearing both.  Nothing is       *)
(* locked: a task is interrupted by one of a higher priority.  The notice  *)
(* that ends set_Error is in Notices.                                      *)
(***************************************************************************)
EXTENDS Naturals, FiniteSets

CONSTANTS Places,       \* places of Errors[]
          Codes,        \* per task: the errors that it reports
          Clearer,      \* tasks that clear all errors
          Transient,    \* ERR_FLOODING and ERR_TANK_EMPTY
          Urgency       \* per task: its priority

NoError == "OK"
Reporter == DOMAIN Codes
Alarmed == DOMAIN Urgency
ASSUME AlarmTasks == {"vService"} \union Reporter \union Clearer \subseteq Alarmed
ASSUME CodesAreErrors == \A t \in Reporter : NoError \notin Codes[t]
ASSUME SomePlaces == Places \in Nat /\ Places > 1

PLACES == 1 .. Places

VARIABLES
  Errors,       \* Errors[]
  error,        \* MC.error
  stepOf,       \* per task: its place in set_Error or in the clearing
  code,         \* per task: the error that it reports
  found,        \* per task: i of set_Error
  reported,     \* history: errors reported since they were cleared
  tornList      \* history: two tasks met in the list or in MC.error

errorVars == <<Errors, error, stepOf, code, found, reported, tornList>>

ErrorsInit ==
  /\ Errors = [i \in PLACES |-> NoError] /\ error = NoError
  /\ stepOf = [t \in Alarmed |-> "idle"]
  /\ code = [t \in Reporter |-> NoError] /\ found = [t \in Reporter |-> 1]
  /\ reported = {} /\ tornList = FALSE

\* A task runs unless one of a higher priority is in the middle of these steps,
\* none of which sleeps.
MayRun(t) == \A u \in Alarmed : Urgency[u] > Urgency[t] => stepOf[u] = "idle"
Proceeds(t, where) == stepOf' = [stepOf EXCEPT ![t] = where]
Reporting == {t \in Reporter : stepOf[t] \in {"scan", "store"}}
-----------------------------------------------------------------------------
(* set_Error *)

Report(t, c) ==
  /\ MayRun(t) /\ stepOf[t] = "idle"
  /\ error' = c
  /\ code' = [code EXCEPT ![t] = c]
  /\ tornList' = (tornList \/ \E u \in Alarmed : stepOf[u] = "forget")
  /\ Proceeds(t, "scan")
  /\ UNCHANGED <<Errors, found, reported>>

\* The search ends at the first place that is free or has the error already.
BrokenStopsAt(c) == {i \in PLACES : Errors[i] = NoError}
StopsAt(c) == {i \in PLACES : Errors[i] \in {NoError, c}}
FirstOf(S) == CHOOSE i \in S : \A j \in S : i <= j

FindsPlace(t) ==
  /\ MayRun(t) /\ stepOf[t] = "scan" /\ StopsAt(code[t]) # {}
  /\ LET i == FirstOf(StopsAt(code[t]))
     IN /\ Errors[i] = NoError
        /\ found' = [found EXCEPT ![t] = i]
  /\ Proceeds(t, "store")
  /\ UNCHANGED <<Errors, error, code, reported, tornList>>

FindsItself(t) ==
  /\ MayRun(t) /\ stepOf[t] = "scan" /\ StopsAt(code[t]) # {}
  /\ Errors[FirstOf(StopsAt(code[t]))] # NoError
  /\ reported' = reported \union {code[t]}
  /\ Proceeds(t, "idle")
  /\ UNCHANGED <<Errors, error, code, found, tornList>>

\* All places are taken: the error is neither listed, printed nor sent.
FindsNone(t) ==
  /\ MayRun(t) /\ stepOf[t] = "scan" /\ StopsAt(code[t]) = {}
  /\ Proceeds(t, "idle")
  /\ UNCHANGED <<Errors, error, code, found, reported, tornList>>

\* The place is taken whatever it has by now.
StoreError(t) ==
  /\ MayRun(t) /\ stepOf[t] = "store"
  /\ Errors' = [Errors EXCEPT ![found[t]] = code[t]]
  /\ tornList' = (tornList \/ Errors[found[t]] # NoError)
  /\ reported' = reported \union {code[t]}
  /\ Proceeds(t, "idle")
  /\ UNCHANGED <<error, code, found>>
-----------------------------------------------------------------------------
(* clear_all_errors, and the place where vService forgets an error that is over *)

ClearList(t) ==
  /\ MayRun(t) /\ stepOf[t] = "idle"
  /\ Errors' = [i \in PLACES |-> NoError] /\ reported' = {}
  /\ tornList' = (tornList \/ Reporting # {})
  /\ Proceeds(t, "forget")
  /\ UNCHANGED <<error, code, found>>

BrokenOnlyError == Errors[1] # NoError
OnlyError == Errors[2] = NoError

ServiceLooks ==
  /\ MayRun("vService") /\ stepOf["vService"] = "idle"
  /\ error \in Transient /\ OnlyError
  /\ tornList' = (tornList \/ Reporting # {})
  /\ Proceeds("vService", "forget")
  /\ UNCHANGED <<Errors, error, code, found, reported>>

ClearError(t) ==
  /\ MayRun(t) /\ stepOf[t] = "forget"
  /\ error' = NoError
  /\ Proceeds(t, "idle")
  /\ UNCHANGED <<Errors, code, found, reported, tornList>>

ErrorsNext ==
  \/ \E t \in Reporter : \/ \E c \in Codes[t] : Report(t, c)
                         \/ FindsPlace(t) \/ FindsItself(t) \/ FindsNone(t) \/ StoreError(t)
  \/ \E t \in Clearer : ClearList(t)
  \/ \E t \in Clearer \union {"vService"} : ClearError(t)
  \/ ServiceLooks

ErrorsSpec == ErrorsInit /\ [][ErrorsNext]_errorVars
-----------------------------------------------------------------------------
Listed == {Errors[i] : i \in PLACES} \ {NoError}

\* The list that the browser and the main page show up to the first free place
\* has every error that was reported since the last clearing, once, unless all
\* places are taken; as long as no two tasks met in the list.
ListIsWhole == ~tornList =>
  /\ \A i \in PLACES \ {1} : Errors[i] # NoError => Errors[i - 1] # NoError
  /\ \A i, j \in PLACES : Errors[i] = Errors[j] /\ Errors[i] # NoError => i = j
  /\ reported \subseteq Listed

\* The display says OK only when nothing is listed but an error that is over; as
\* long as no report comes between the clearing of the list, or vService's look at
\* it, and the clearing of MC.error, and none is under way at the first of these.
ErrorIsShown == ~tornList /\ error = NoError => Listed \subseteq Transient
=============================================================================
