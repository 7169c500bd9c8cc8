--------------------------- MODULE SharedDataProofs --------------------------
(***************************************************************************)
(* What tasks and interrupts share without a lock: a relay, the list of    *)
(* active errors, a chart, the flow meter's counters and a converter's     *)
(* ring, for any tasks, priorities and sizes.                              *)
(***************************************************************************)
EXTENDS Relay, ErrorList, Chart, FlowMeter, AdcFilter, WellFoundedInduction, TLAPS

\* Induction: what is not true of some number has a least one of which it is not.
LEMMA LeastNumber ==
  ASSUME NEW S \in SUBSET Nat, S # {}
  PROVE  \E i \in S : \A j \in S : i <= j
<1>1. PICK i \in S : \A j \in S : ~(<<j, i>> \in OpToRel(<, Nat))
  BY NatLessThanWellFounded, WFMin
<1>2. \A j \in S : ~(j < i)
  BY <1>1 DEF OpToRel
<1> QED BY <1>2

-----------------------------------------------------------------------------
(* A relay that nobody has torn is right when quiet.  The strengthening says   *)
(* how far a verdict on its way has got, and that a fresh verdict is alone.    *)

\* The verdict the flags stand for.
Asking == flags # {}

Untorn ==
  /\ \A t \in Task : OnTheWay(t) => Wanted(t) = Asking
  /\ on = Asking \/ \E t \in Task : at[t] \in {"compare", "set"}
  /\ pin = Asking \/ on # Asking \/ \E t \in Task : at[t] = "drive"

FreshAlone ==
  \A t \in fresh : OnTheWay(t) =>
    /\ \A u \in Task \ {t} : ~OnTheWay(u)
    /\ Wanted(t) = Asking
    /\ at[t] = "drive" => on = Asking

RelayInv == RelayTypeOK /\ FreshAlone /\ (~torn => Untorn)

\* The types of every variable are kept by each step of set_Relay.
LEMMA RelayTypes == RelayTypeOK /\ [RelayNext]_relayVars => RelayTypeOK'
<1> SUFFICES ASSUME RelayTypeOK, [RelayNext]_relayVars PROVE RelayTypeOK'
  OBVIOUS
<1>1. CASE UNCHANGED relayVars
  BY <1>1 DEF relayVars, RelayTypeOK
<1>2. ASSUME NEW t \in Task, Call(t) PROVE RelayTypeOK'
  <2>1. PICK o \in Orders[t] : cmd' = [cmd EXCEPT ![t] = Ordered(o)]
    BY <1>2 DEF Call
  <2>2. Ordered(o) \in Command
    BY <2>1, OrdersKnown DEF Ordered, Command
  <2> QED BY <1>2, <2>1, <2>2 DEF Call, Goes, RelayTypeOK
<1>3. ASSUME NEW t \in Task, Load(t) PROVE RelayTypeOK'
  BY <1>3 DEF Load, Goes, RelayTypeOK
<1>4. ASSUME NEW t \in Task, Store(t) PROVE RelayTypeOK'
  <2>1. Asked(mine[t], cmd[t]) \subseteq Requesters
    BY DEF RelayTypeOK, Asked, Requesters, Command
  <2>2. fresh' \in SUBSET Task /\ torn' \in BOOLEAN
    BY <1>4 DEF Store, RelayTypeOK
  <2> QED BY <1>4, <2>1, <2>2 DEF Store, Goes, RelayTypeOK
<1>5. ASSUME NEW t \in Task, Compare(t) PROVE RelayTypeOK'
  BY <1>5 DEF Compare, Goes, Leaves, RelayTypeOK, Command
<1>6. ASSUME NEW t \in Task, SetState(t) PROVE RelayTypeOK'
  BY <1>6 DEF SetState, Goes, Wanted, RelayTypeOK
<1>7. ASSUME NEW t \in Task, Drive(t) PROVE RelayTypeOK'
  BY <1>7 DEF Drive, Goes, Leaves, Wanted, RelayTypeOK, Command
<1> QED BY <1>1, <1>2, <1>3, <1>4, <1>5, <1>6, <1>7 DEF RelayNext

\* The strengthened invariant is inductive.
LEMMA RelayStep == RelayInv /\ [RelayNext]_relayVars => RelayInv'
<1> SUFFICES ASSUME RelayInv, [RelayNext]_relayVars PROVE RelayInv'
  OBVIOUS
<1>0. RelayTypeOK' /\ RelayTypeOK
  BY RelayTypes DEF RelayInv
<1> USE DEF OnTheWay, Wanted, Asking, Goes
<1>1. CASE UNCHANGED relayVars
  BY <1>0, <1>1 DEF relayVars, RelayInv, FreshAlone, Untorn
<1>2. ASSUME NEW t \in Task, Call(t) \/ Load(t) PROVE RelayInv'
  \* A task that has stored nothing is not on the way, before or after.
  <2>1. ~OnTheWay(t) /\ ~OnTheWay(t)' /\ UNCHANGED <<flags, on, pin, torn, fresh>>
    BY <1>0, <1>2 DEF Call, Load, RelayTypeOK
  <2>2. \A u \in Task \ {t} : at'[u] = at[u] /\ mine'[u] = mine[u]
    BY <1>0, <1>2 DEF Call, Load, RelayTypeOK
  <2>3. FreshAlone'
    BY <1>0, <2>1, <2>2 DEF RelayInv, FreshAlone, RelayTypeOK
  <2>4. ~torn' => Untorn'
    BY <2>1, <2>2 DEF RelayInv, Untorn
  <2> QED BY <1>0, <2>3, <2>4 DEF RelayInv
<1>3. ASSUME NEW t \in Task, Store(t) PROVE RelayInv'
  <2>1. /\ at[t] = "store" /\ at'[t] = "compare" /\ Wanted(t)' = Asking'
        /\ UNCHANGED <<on, pin>>
    BY <1>0, <1>3 DEF Store, RelayTypeOK
  <2>2. \A u \in Task \ {t} : at'[u] = at[u] /\ mine'[u] = mine[u]
    BY <1>0, <1>3 DEF Store, RelayTypeOK
  <2>3. /\ torn' = (torn \/ \E u \in Task \ {t} : OnTheWay(u) /\ Wanted(u) # Wanted(t)')
        /\ fresh' = IF \E u \in Task \ {t} : OnTheWay(u) THEN {} ELSE {t}
    BY <1>3 DEF Store
  <2>4. FreshAlone'
    BY <2>1, <2>2, <2>3 DEF FreshAlone
  <2>5. ~torn' => Untorn'
    <3> SUFFICES ASSUME ~torn' PROVE Untorn'
      OBVIOUS
    <3>1. \A u \in Task \ {t} : OnTheWay(u) => Wanted(u) = Asking'
      BY <2>1, <2>3
    <3>2. \A u \in Task : OnTheWay(u)' => Wanted(u)' = Asking'
      BY <2>1, <2>2, <3>1
    <3>3. Untorn
      BY <2>3 DEF RelayInv
    <3>4. pin' = Asking' \/ on' # Asking' \/ \E u \in Task : at'[u] = "drive"
      <4>1. CASE \E u \in Task : at[u] = "drive"
        BY <2>1, <2>2, <4>1
      <4>2. CASE Asking' = Asking
        BY <2>1, <2>2, <3>3, <4>2 DEF Untorn
      <4>3. CASE Asking' # Asking /\ ~\E u \in Task : at[u] = "drive"
        \* Nobody was on the way, for his verdict would be the opposite one.
        <5>1. \A u \in Task : ~OnTheWay(u)
          BY <2>1, <3>1, <3>3, <4>3 DEF Untorn
        <5>2. on = Asking
          BY <3>3, <5>1 DEF Untorn
        <5> QED BY <2>1, <4>3, <5>2
      <4> QED BY <4>1, <4>2, <4>3
    <3> QED BY <2>1, <3>2, <3>4 DEF Untorn
  <2> QED BY <1>0, <2>4, <2>5 DEF RelayInv
<1>4. ASSUME NEW t \in Task, Compare(t) PROVE RelayInv'
  <2>1. /\ at[t] = "compare" /\ UNCHANGED <<flags, on, pin, torn, fresh>>
        /\ \/ at'[t] = "idle" /\ on = Wanted(t)
           \/ at'[t] = "set" /\ mine'[t] = mine[t]
    BY <1>0, <1>4 DEF Compare, Leaves, RelayTypeOK
  <2>2. \A u \in Task \ {t} : at'[u] = at[u] /\ mine'[u] = mine[u]
    BY <1>0, <1>4 DEF Compare, Leaves, RelayTypeOK
  <2>3. FreshAlone'
    BY <1>0, <2>1, <2>2 DEF RelayInv, FreshAlone, RelayTypeOK
  <2>4. ~torn' => Untorn'
    BY <2>1, <2>2 DEF RelayInv, Untorn
  <2> QED BY <1>0, <2>3, <2>4 DEF RelayInv
<1>5. ASSUME NEW t \in Task, SetState(t) PROVE RelayInv'
  <2>1. /\ at[t] = "set" /\ at'[t] = "drive" /\ on' = Wanted(t) /\ mine' = mine
        /\ UNCHANGED <<flags, pin, torn, fresh>>
    BY <1>0, <1>5 DEF SetState, RelayTypeOK
  <2>2. \A u \in Task \ {t} : at'[u] = at[u]
    BY <1>0, <1>5 DEF SetState, RelayTypeOK
  <2>3. FreshAlone'
    BY <1>0, <2>1, <2>2 DEF RelayInv, FreshAlone, RelayTypeOK
  <2>4. ~torn' => Untorn'
    BY <2>1, <2>2 DEF RelayInv, Untorn
  <2> QED BY <1>0, <2>3, <2>4 DEF RelayInv
<1>6. ASSUME NEW t \in Task, Drive(t) PROVE RelayInv'
  <2>1. /\ at[t] = "drive" /\ at'[t] = "idle" /\ pin' = Wanted(t)
        /\ torn' = (torn /\ t \notin fresh)
        /\ UNCHANGED <<flags, on, fresh>>
    BY <1>0, <1>6 DEF Drive, Leaves, RelayTypeOK
  <2>2. \A u \in Task \ {t} : at'[u] = at[u] /\ mine'[u] = mine[u]
    BY <1>0, <1>6 DEF Drive, Leaves, RelayTypeOK
  <2>3. FreshAlone'
    BY <1>0, <2>1, <2>2 DEF RelayInv, FreshAlone, RelayTypeOK
  <2>4. ~torn' => Untorn'
    <3>1. CASE ~torn
      BY <2>1, <2>2, <3>1 DEF RelayInv, Untorn
    <3>2. CASE t \in fresh
      <4>1. Wanted(t) = Asking /\ on = Asking /\ \A u \in Task \ {t} : ~OnTheWay(u)
        BY <2>1, <3>2 DEF RelayInv, FreshAlone
      <4> QED BY <2>1, <2>2, <4>1 DEF Untorn
    <3> QED BY <2>1, <3>1, <3>2
  <2> QED BY <1>0, <2>3, <2>4 DEF RelayInv
<1> QED BY <1>1, <1>2, <1>3, <1>4, <1>5, <1>6 DEF RelayNext

\* QuietRelayIsTrue holds for every set of tasks: the flags, Relay and the
\* output agree whenever no verdict is on its way and the relay is not torn.
THEOREM RelayIsTrueWhenQuiet == RelaySpec => []QuietRelayIsTrue
<1>1. RelayInit => RelayInv
  BY DEF RelayInit, RelayInv, RelayTypeOK, FreshAlone, Untorn, Asking, OnTheWay,
         Requesters, Command
<1>2. RelayInv => QuietRelayIsTrue
  BY DEF RelayInv, Untorn, QuietRelayIsTrue, Settled, OnTheWay, Asking
<1> QED BY <1>1, <1>2, RelayStep, PTL DEF RelaySpec
-----------------------------------------------------------------------------
(* The active errors *)

AnyError == {NoError} \union UNION {Codes[t] : t \in Reporter}

ErrorsTypeOK ==
  /\ Errors \in [PLACES -> AnyError]
  /\ stepOf \in [Alarmed -> {"idle", "scan", "store", "forget"}]
  /\ DOMAIN code = Reporter /\ found \in [Reporter -> PLACES]
  /\ \A t \in Reporting : code[t] \in Codes[t]

\* The list has no gaps, no error twice, and all that was reported.
NoGaps == \A i, j \in PLACES : i < j /\ Errors[j] # NoError => Errors[i] # NoError
NoneTwice == \A i, j \in PLACES : Errors[i] = Errors[j] /\ Errors[i] # NoError => i = j
AllListed == reported \subseteq Listed

\* A task that will store its error has found the first free place and no other
\* place with the error; or the place was taken since, and the list will be torn.
FoundIsFirst == \A t \in Reporting : stepOf[t] = "store" =>
  \/ Errors[found[t]] # NoError
  \/ /\ code[t] \notin Listed
     /\ \A i \in PLACES : Errors[i] # NoError <=> i < found[t]

\* The error that the display shows is listed, or will be, or has no place, or is
\* about to be forgotten.
Forgetting == {t \in Alarmed : stepOf[t] = "forget"}
ShownIsListed ==
  \/ error \in Listed \union {NoError}
  \/ \E t \in Reporting : code[t] = error
  \/ Forgetting # {}
  \/ \A i \in PLACES : Errors[i] # NoError

\* Who forgets the error that is shown has looked at the whole list, and nobody
\* reports.
NothingForgotten == Forgetting # {} \/ error = NoError =>
  Reporting = {} /\ Listed \subseteq Transient

ErrorsInv == ErrorsTypeOK /\
  (~tornList => NoGaps /\ NoneTwice /\ AllListed /\ FoundIsFirst /\ ShownIsListed
                /\ NothingForgotten)

\* Every set of places that is not empty has a first place.
LEMMA FirstExists ==
  ASSUME NEW S \in SUBSET PLACES, S # {}
  PROVE  FirstOf(S) \in S /\ \A j \in S : FirstOf(S) <= j
<1>1. S \in SUBSET Nat
  BY SomePlaces DEF PLACES
<1>2. \E i \in S : \A j \in S : i <= j
  BY <1>1, LeastNumber
<1> QED BY <1>2 DEF FirstOf

LEMMA ErrorsStart == ErrorsInit => ErrorsInv
<1> SUFFICES ASSUME ErrorsInit PROVE ErrorsInv
  OBVIOUS
<1>1. Reporting = {} /\ Listed = {}
  BY AlarmTasks DEF ErrorsInit, Reporting, Listed
<1>2. 1 \in PLACES
  BY SomePlaces DEF PLACES
<1>3. ErrorsTypeOK
  <2>1. NoError \in AnyError
    BY DEF AnyError
  <2>2. found \in [Reporter -> PLACES] /\ DOMAIN code = Reporter
    BY <1>2 DEF ErrorsInit
  <2>3. stepOf \in [Alarmed -> {"idle", "scan", "store", "forget"}]
    BY DEF ErrorsInit
  <2> QED BY <1>1, <2>1, <2>2, <2>3 DEF ErrorsTypeOK, ErrorsInit
<1>4. ~\E t \in Reporter : stepOf[t] = "store"
  BY AlarmTasks DEF ErrorsInit
<1> QED BY <1>1, <1>3, <1>4 DEF ErrorsInit, ErrorsInv, NoGaps, NoneTwice, AllListed, FoundIsFirst,
     ShownIsListed, NothingForgotten

\* What a task has found when its search ends at a free place.
LEMMA FreePlaceIsFirst ==
  ASSUME ErrorsTypeOK, NoGaps, NEW c, c # NoError, StopsAt(c) # {},
         NEW i, i = FirstOf(StopsAt(c)), Errors[i] = NoError
  PROVE  i \in PLACES /\ c \notin Listed /\ \A j \in PLACES : Errors[j] # NoError <=> j < i
<1>1. StopsAt(c) \in SUBSET PLACES
  BY DEF StopsAt
<1>2. i \in StopsAt(c) /\ \A j \in StopsAt(c) : i <= j
  BY <1>1, FirstExists
<1>3. i \in PLACES /\ PLACES \subseteq Nat
  BY <1>1, <1>2, SomePlaces DEF PLACES
<1>4. \A j \in PLACES : j < i => Errors[j] \notin {NoError, c}
  BY <1>2, <1>3 DEF StopsAt
<1>5. \A j \in PLACES : j > i => Errors[j] = NoError
  BY <1>3 DEF NoGaps
<1>6. \A j \in PLACES : j = i \/ j < i \/ j > i
  BY <1>3
<1>7. \A j \in PLACES : Errors[j] # c
  BY <1>4, <1>5, <1>6
<1> QED BY <1>3, <1>4, <1>5, <1>6, <1>7 DEF Listed

\* The types are kept by each step.
LEMMA ErrorsTypes == ErrorsTypeOK /\ [ErrorsNext]_errorVars => ErrorsTypeOK'
<1> SUFFICES ASSUME ErrorsTypeOK, [ErrorsNext]_errorVars PROVE ErrorsTypeOK'
  OBVIOUS
<1> USE AlarmTasks DEF ErrorsTypeOK, Reporting, Proceeds
<1>1. ASSUME NEW t \in Reporter, NEW c \in Codes[t], Report(t, c) PROVE ErrorsTypeOK'
  BY <1>1 DEF Report
<1>2. ASSUME NEW t \in Reporter, FindsPlace(t) PROVE ErrorsTypeOK'
  <2>1. FirstOf(StopsAt(code[t])) \in PLACES
    BY <1>2, FirstExists DEF FindsPlace, StopsAt
  <2> QED BY <1>2, <2>1 DEF FindsPlace
<1>3. ASSUME NEW t \in Reporter, FindsItself(t) \/ FindsNone(t) PROVE ErrorsTypeOK'
  BY <1>3 DEF FindsItself, FindsNone
<1>4. ASSUME NEW t \in Reporter, StoreError(t) PROVE ErrorsTypeOK'
  <2>1. code[t] \in AnyError
    BY <1>4 DEF StoreError, AnyError
  <2> QED BY <1>4, <2>1 DEF StoreError
<1>5. ASSUME NEW t \in Clearer, ClearList(t) PROVE ErrorsTypeOK'
  <2>1. NoError \in AnyError
    BY DEF AnyError
  <2> QED BY <1>5, <2>1 DEF ClearList
<1>6. ASSUME NEW t \in Clearer \union {"vService"}, ClearError(t) PROVE ErrorsTypeOK'
  BY <1>6 DEF ClearError
<1>7. CASE ServiceLooks
  BY <1>7 DEF ServiceLooks
<1>8. CASE UNCHANGED errorVars
  BY <1>8 DEF errorVars
<1> QED BY <1>1, <1>2, <1>3, <1>4, <1>5, <1>6, <1>7, <1>8 DEF ErrorsNext

\* Each step keeps the list whole until two tasks meet in it.
LEMMA ErrorsStep == ErrorsInv /\ [ErrorsNext]_errorVars => ErrorsInv'
<1> SUFFICES ASSUME ErrorsInv, [ErrorsNext]_errorVars PROVE ErrorsInv'
  OBVIOUS
<1>0. ErrorsTypeOK /\ ErrorsTypeOK'
  BY ErrorsTypes DEF ErrorsInv
<1> DEFINE Whole == NoGaps /\ NoneTwice /\ AllListed
           Rest == FoundIsFirst /\ ShownIsListed /\ NothingForgotten
           Goal == ~tornList' => Whole' /\ Rest'
<1> SUFFICES Goal
  BY <1>0 DEF ErrorsInv
<1>a. ~tornList => Whole /\ Rest
  BY DEF ErrorsInv
<1>b. Reporting \subseteq Alarmed
  BY AlarmTasks DEF Reporting
<1> USE AlarmTasks DEF ErrorsTypeOK, NoGaps, NoneTwice, AllListed, Proceeds
<1>1. ASSUME NEW t \in Reporter, NEW c \in Codes[t], Report(t, c) PROVE Goal
  <2>1. /\ ~tornList' => ~tornList /\ Forgetting = {}
        /\ Errors' = Errors /\ reported' = reported /\ found' = found
    BY <1>1 DEF Report, Forgetting
  <2>2. /\ stepOf[t] = "idle" /\ stepOf'[t] = "scan" /\ code'[t] = c /\ error' = c
        /\ \A u \in Alarmed \ {t} : stepOf'[u] = stepOf[u]
        /\ \A u \in Reporter \ {t} : code'[u] = code[u]
    BY <1>0, <1>1 DEF Report
  <2>3. c # NoError
    BY CodesAreErrors
  <2>4. Forgetting = {} => Forgetting' = {}
    BY <2>2 DEF Forgetting
  <2>5. ShownIsListed'
    BY <2>2 DEF ShownIsListed, Reporting
  <2>6. ~tornList' => FoundIsFirst'
    BY <1>a, <2>1, <2>2 DEF FoundIsFirst, Reporting, Listed
  <2>7. ~tornList' => NothingForgotten'
    BY <2>1, <2>2, <2>3, <2>4 DEF NothingForgotten
  <2> QED BY <1>a, <2>1, <2>5, <2>6, <2>7 DEF Listed
<1>2. ASSUME NEW t \in Reporter, FindsPlace(t) PROVE Goal
  <2>1. UNCHANGED <<Errors, error, code, reported, tornList>> /\ Listed' = Listed
    BY <1>2 DEF FindsPlace, Listed
  <2>2. /\ stepOf[t] = "scan" /\ stepOf'[t] = "store" /\ found'[t] = FirstOf(StopsAt(code[t]))
        /\ Errors[found'[t]] = NoError /\ StopsAt(code[t]) # {}
        /\ \A u \in Alarmed \ {t} : stepOf'[u] = stepOf[u]
        /\ \A u \in Reporter \ {t} : found'[u] = found[u]
    BY <1>0, <1>2 DEF FindsPlace
  <2>3. t \in Reporting /\ code[t] # NoError
    BY <1>0, <2>2, CodesAreErrors DEF Reporting
  <2>4. Reporting' = Reporting /\ Forgetting' = Forgetting
    BY <2>2 DEF Reporting, Forgetting
  <2>5. ~tornList => FoundIsFirst'
    <3>1. ~tornList => code[t] \notin Listed /\ \A j \in PLACES : Errors[j] # NoError <=> j < found'[t]
      BY <1>0, <1>a, <2>2, <2>3, FreePlaceIsFirst
    <3> SUFFICES ASSUME ~tornList, NEW u \in Reporting, stepOf'[u] = "store"
                 PROVE  \/ Errors[found'[u]] # NoError
                        \/ /\ code[u] \notin Listed
                           /\ \A i \in PLACES : Errors[i] # NoError <=> i < found'[u]
      BY <2>1, <2>4 DEF FoundIsFirst
    <3>2. CASE u = t
      BY <3>1, <3>2
    <3>3. CASE u # t
      BY <1>a, <1>b, <2>2, <3>3 DEF FoundIsFirst, Reporting
    <3> QED BY <3>2, <3>3
  <2> QED BY <1>a, <2>1, <2>4, <2>5 DEF ShownIsListed, NothingForgotten
<1>3. ASSUME NEW t \in Reporter, FindsItself(t) PROVE Goal
  <2>1. UNCHANGED <<Errors, error, code, found, tornList>> /\ Listed' = Listed
    BY <1>3 DEF FindsItself, Listed
  <2>2. code[t] \in Listed /\ reported' = reported \union {code[t]}
    <3>1. FirstOf(StopsAt(code[t])) \in StopsAt(code[t])
      BY <1>3, FirstExists DEF FindsItself, StopsAt
    <3> QED BY <1>3, <3>1 DEF FindsItself, StopsAt, Listed
  <2>3. stepOf'[t] = "idle" /\ \A u \in Alarmed \ {t} : stepOf'[u] = stepOf[u]
    BY <1>0, <1>3 DEF FindsItself
  <2>4. Reporting' = Reporting \ {t} /\ Forgetting' = Forgetting
    BY <1>3, <2>3 DEF Reporting, Forgetting, FindsItself
  <2>5. ~tornList => FoundIsFirst'
    BY <1>a, <1>b, <2>1, <2>3, <2>4 DEF FoundIsFirst
  <2>6. ~tornList => ShownIsListed' /\ NothingForgotten'
    BY <1>a, <2>1, <2>2, <2>4 DEF ShownIsListed, NothingForgotten
  <2> QED BY <1>a, <2>1, <2>2, <2>5, <2>6
<1>4. ASSUME NEW t \in Reporter, FindsNone(t) PROVE Goal
  <2>1. UNCHANGED <<Errors, error, code, found, reported, tornList>> /\ Listed' = Listed
    BY <1>4 DEF FindsNone, Listed
  <2>2. \A i \in PLACES : Errors[i] # NoError
    BY <1>4 DEF FindsNone, StopsAt
  <2>3. stepOf'[t] = "idle" /\ \A u \in Alarmed \ {t} : stepOf'[u] = stepOf[u]
    BY <1>0, <1>4 DEF FindsNone
  <2>4. Reporting' = Reporting \ {t} /\ Forgetting' = Forgetting
    BY <1>4, <2>3 DEF Reporting, Forgetting, FindsNone
  <2>5. ~tornList => FoundIsFirst'
    BY <1>a, <1>b, <2>1, <2>3, <2>4 DEF FoundIsFirst
  <2>6. ~tornList => ShownIsListed' /\ NothingForgotten'
    BY <1>a, <2>1, <2>2, <2>4 DEF ShownIsListed, NothingForgotten
  <2> QED BY <1>a, <2>1, <2>2, <2>5, <2>6
<1>5. ASSUME NEW t \in Reporter, StoreError(t) PROVE Goal
  <2> SUFFICES ASSUME ~tornList' PROVE Whole' /\ Rest'
    OBVIOUS
  <2> DEFINE i == found[t]
  <2>1. /\ ~tornList /\ i \in PLACES /\ Errors[i] = NoError /\ t \in Reporting /\ code[t] # NoError
        /\ Errors' = [Errors EXCEPT ![i] = code[t]] /\ reported' = reported \union {code[t]}
        /\ UNCHANGED <<error, code, found>> /\ stepOf[t] = "store"
    <3>1. t \in Reporting /\ stepOf[t] = "store"
      BY <1>5 DEF StoreError, Reporting
    <3>2. code[t] # NoError /\ i \in PLACES
      BY <1>0, <3>1, CodesAreErrors
    <3> QED BY <1>5, <3>1, <3>2 DEF StoreError
  <2>2. Whole /\ Rest
    BY <1>a, <2>1
  <2>3. code[t] \notin Listed /\ \A j \in PLACES : Errors[j] # NoError <=> j < i
    BY <2>1, <2>2 DEF FoundIsFirst
  <2>4. PLACES \subseteq Nat
    BY SomePlaces DEF PLACES
  <2>5. /\ Errors'[i] = code[t] /\ \A j \in PLACES \ {i} : Errors'[j] = Errors[j]
        /\ Listed' = Listed \union {code[t]}
    BY <1>0, <2>1 DEF Listed
  <2>6. Whole'
    BY <2>1, <2>2, <2>3, <2>4, <2>5 DEF Listed
  <2>7. stepOf'[t] = "idle" /\ \A u \in Alarmed \ {t} : stepOf'[u] = stepOf[u]
    BY <1>0, <1>5 DEF StoreError
  <2>8. Reporting' = Reporting \ {t} /\ Forgetting' = Forgetting
    BY <2>1, <2>7 DEF Reporting, Forgetting
  <2>9. FoundIsFirst'
    <3> SUFFICES ASSUME NEW u \in Reporting', stepOf'[u] = "store" PROVE Errors'[found[u]] # NoError
      BY <2>1 DEF FoundIsFirst
    <3>1. u \in Reporting /\ stepOf[u] = "store" /\ found[u] \in PLACES
      BY <1>0, <2>7, <2>8 DEF Reporting
    <3>2. CASE Errors[found[u]] # NoError
      BY <2>1, <2>5, <3>1, <3>2
    <3>3. CASE \A j \in PLACES : Errors[j] # NoError <=> j < found[u]
      <4>1. ~(i < found[u]) /\ (found[u] < i => found[u] < found[u])
        BY <2>1, <2>3, <3>1, <3>3
      <4>2. i \in Nat /\ found[u] \in Nat
        BY <2>1, <2>4, <3>1
      <4>3. found[u] = i
        BY <4>1, <4>2
      <4> QED BY <2>1, <2>5, <4>3
    <3> QED BY <2>2, <3>1, <3>2, <3>3 DEF FoundIsFirst
  <2>10. ShownIsListed'
    BY <2>1, <2>2, <2>5, <2>8 DEF ShownIsListed
  <2>11. NothingForgotten'
    BY <2>1, <2>2, <2>8 DEF NothingForgotten
  <2> QED BY <2>6, <2>9, <2>10, <2>11
<1>6. ASSUME NEW t \in Clearer, ClearList(t) PROVE Goal
  <2>1. ~tornList' => ~tornList /\ Reporting = {}
    BY <1>6 DEF ClearList
  <2>2. /\ \A i \in PLACES : Errors'[i] = NoError
        /\ Listed' = {} /\ reported' = {} /\ UNCHANGED <<error, code, found>>
    BY <1>6 DEF ClearList, Listed
  <2>3. /\ t \in Alarmed /\ stepOf'[t] = "forget"
        /\ \A u \in Alarmed \ {t} : stepOf'[u] = stepOf[u]
    BY <1>0, <1>6 DEF ClearList
  <2>4. Reporting = {} => Reporting' = {}
    BY <2>3 DEF Reporting
  <2>5. Forgetting' # {}
    BY <2>3 DEF Forgetting
  <2> QED BY <1>a, <2>1, <2>2, <2>4, <2>5 DEF FoundIsFirst, ShownIsListed, NothingForgotten
<1>7. ASSUME NEW t \in Clearer \union {"vService"}, ClearError(t) PROVE Goal
  <2>1. UNCHANGED <<Errors, code, found, reported, tornList>> /\ error' = NoError /\ Listed' = Listed
    BY <1>7 DEF ClearError, Listed
  <2>2. /\ t \in Forgetting /\ stepOf'[t] = "idle"
        /\ \A u \in Alarmed \ {t} : stepOf'[u] = stepOf[u]
    BY <1>0, <1>7 DEF ClearError, Forgetting
  <2>3. Reporting = {} => Reporting' = {}
    BY <2>2 DEF Reporting
  <2> QED BY <1>a, <2>1, <2>2, <2>3 DEF FoundIsFirst, ShownIsListed, NothingForgotten
<1>8. CASE ServiceLooks
  <2>1. /\ UNCHANGED <<Errors, error, code, found, reported>> /\ Listed' = Listed
        /\ ~tornList' => ~tornList /\ Reporting = {}
        /\ error \in Transient /\ Errors[2] = NoError
    BY <1>8 DEF ServiceLooks, Listed, OnlyError
  <2>2. /\ stepOf'["vService"] = "forget"
        /\ \A u \in Alarmed \ {"vService"} : stepOf'[u] = stepOf[u]
    BY <1>0, <1>8 DEF ServiceLooks
  <2>3. (Reporting = {} => Reporting' = {}) /\ Forgetting' # {}
    BY <2>2 DEF Reporting, Forgetting
  \* The one error that can be listed is the one that is shown.
  <2>4. ~tornList' => Listed \subseteq Transient
    <3> SUFFICES ASSUME ~tornList', NEW e \in Listed PROVE e \in Transient
      OBVIOUS
    <3>1. Whole /\ Rest /\ Reporting = {}
      BY <1>a, <2>1
    <3>2. 1 \in PLACES /\ 2 \in PLACES /\ \A i \in PLACES : i = 1 \/ i = 2 \/ 2 < i
      BY SomePlaces DEF PLACES
    <3>3. Listed \subseteq {Errors[1]}
      BY <2>1, <3>1, <3>2 DEF Listed
    <3>4. CASE Forgetting # {}
      BY <3>1, <3>4 DEF NothingForgotten
    <3>5. CASE error \in Listed
      BY <2>1, <3>3, <3>5
    <3>6. CASE error = NoError
      BY <3>1, <3>6 DEF NothingForgotten
    <3> QED BY <2>1, <3>1, <3>2, <3>4, <3>5, <3>6 DEF ShownIsListed
  <2> QED BY <1>a, <2>1, <2>3, <2>4 DEF FoundIsFirst, ShownIsListed, NothingForgotten
<1>9. CASE UNCHANGED errorVars
  BY <1>a, <1>9 DEF errorVars, FoundIsFirst, ShownIsListed, NothingForgotten, Reporting, Forgetting,
     Listed
<1> QED BY <1>1, <1>2, <1>3, <1>4, <1>5, <1>6, <1>7, <1>8, <1>9 DEF ErrorsNext

\* The list of errors is whole for any tasks, priorities, codes and places, until
\* two tasks meet in it.
THEOREM ErrorListIsWhole == ErrorsSpec => []ListIsWhole
<1>1. ErrorsInv => ListIsWhole
  <2>1. \A i \in PLACES \ {1} : i \in PLACES /\ i - 1 \in PLACES /\ i - 1 < i
    BY SomePlaces DEF PLACES
  <2> QED BY <2>1 DEF ErrorsInv, NoGaps, NoneTwice, AllListed, ListIsWhole
<1> QED BY ErrorsStart, ErrorsStep, <1>1, PTL DEF ErrorsSpec

\* The display does not say OK while an error is listed that is not over.
THEOREM DisplayShowsErrors == ErrorsSpec => []ErrorIsShown
<1>1. ErrorsInv => ErrorIsShown
  BY DEF ErrorsInv, NothingForgotten, ErrorIsShown
<1> QED BY ErrorsStart, ErrorsStep, <1>1, PTL DEF ErrorsSpec
-----------------------------------------------------------------------------
(* The chart *)

ChartTypeOK ==
  /\ data \in [PLACES_OF_CHART -> Nat] /\ pos \in PLACES_OF_CHART /\ num \in Nat
  /\ flagFULL \in BOOLEAN /\ point \in Nat \ {0} /\ listing \in BOOLEAN
  /\ clearing \in {"idle", "num", "full", "data"}

\* How far clear() has got.
ClearedSoFar ==
  /\ clearing # "idle" => pos = 0
  /\ clearing \in {"full", "data"} => num = 0
  /\ clearing = "data" => ~flagFULL

\* The ring has the newest points; the full one has one more than it counts.
RingHasNewest == clearing = "idle" =>
  /\ ~flagFULL => /\ num = pos /\ pos < point
                  /\ \A x \in PLACES_OF_CHART : x < pos => data[x] = point - pos + x
  /\ flagFULL => /\ num = CHART_POINT - 1 /\ point > CHART_POINT
                 /\ \A x \in PLACES_OF_CHART :
                      data[x] = point - pos + x - IF x < pos THEN 0 ELSE CHART_POINT

\* The oldest point that the ring has; a list is behind what comes next from it.
OldestPoint == point - IF flagFULL THEN CHART_POINT ELSE num
ListIsBehind ==
  /\ list \in Seq(Nat)
  /\ listing => /\ clearing = "idle" /\ Len(list) <= num
                /\ list # <<>> => list[Len(list)] < OldestPoint + Len(list)
  /\ ~listing => list = <<>>

ChartInv == ChartTypeOK /\
  (~upset => ClearedSoFar /\ RingHasNewest /\ ListIsBehind /\ ListInOrder)

\* get_Point(0) is the oldest point of the ring, and the others follow.
LEMMA PointsFollow ==
  ASSUME ChartTypeOK, RingHasNewest, clearing = "idle", NEW x \in Nat, x < num
  PROVE  get_Point(x) = OldestPoint + x
<1> USE ChartBounds DEF ChartTypeOK, PLACES_OF_CHART, get_Point, OldestPoint
<1>1. CASE ~flagFULL
  BY <1>1 DEF RingHasNewest
<1>2. CASE flagFULL
  <2>1. x < CHART_POINT - 1 /\ Wrapped(pos + x) \in PLACES_OF_CHART
    BY <1>2 DEF RingHasNewest, Wrapped
  <2>2. CASE pos + x < CHART_POINT
    BY <1>2, <2>1, <2>2 DEF RingHasNewest, Wrapped
  <2>3. CASE ~(pos + x < CHART_POINT)
    <3>1. Wrapped(pos + x) = pos + x - CHART_POINT /\ pos + x - CHART_POINT < pos
      BY <2>1, <2>3 DEF Wrapped
    <3>2. data[pos + x - CHART_POINT] = point - pos + (pos + x - CHART_POINT) - 0
      BY <1>2, <2>1, <3>1 DEF RingHasNewest
    <3> QED BY <1>2, <3>1, <3>2
  <2> QED BY <2>2, <2>3
<1> QED BY <1>1, <1>2

\* A new point does not change the oldest one, or overwrites it.
LEMMA PointIsAdded ==
  ASSUME ChartInv, ~upset', addPoint
  PROVE  RingHasNewest' /\ OldestPoint' >= OldestPoint /\ num' >= num
<1> USE ChartBounds DEF ChartInv, ChartTypeOK, PLACES_OF_CHART, OldestPoint
<1>1. ~upset /\ clearing = "idle" /\ RingHasNewest
  BY DEF addPoint
<1>2. /\ point' = point + 1 /\ data'[pos] = point
      /\ \A x \in PLACES_OF_CHART \ {pos} : data'[x] = data[x]
  BY DEF addPoint
<1>3. CASE flagFULL /\ pos < CHART_POINT - 1
  <2>1. pos' = pos + 1 /\ flagFULL' /\ num' = num
    BY <1>3 DEF addPoint
  <2>2. ASSUME NEW x \in PLACES_OF_CHART
        PROVE  data'[x] = point' - pos' + x - IF x < pos' THEN 0 ELSE CHART_POINT
    <3>1. CASE x = pos
      BY <1>2, <2>1, <3>1
    <3>2. CASE x < pos
      <4>1. data[x] = point - pos + x - IF x < pos THEN 0 ELSE CHART_POINT
        BY <1>1, <1>3 DEF RingHasNewest
      <4>2. data'[x] = data[x] /\ x < pos'
        BY <1>2, <2>1, <3>2
      <4> QED BY <1>2, <2>1, <3>2, <4>1, <4>2
    <3>3. CASE x > pos
      BY <1>1, <1>2, <1>3, <2>1, <3>3 DEF RingHasNewest
    <3> QED BY <3>1, <3>2, <3>3
  <2> QED BY <1>1, <1>2, <1>3, <2>1, <2>2 DEF RingHasNewest
<1>4. CASE pos = CHART_POINT - 1
  <2>0. flagFULL'
    BY <1>4, Zenon DEF addPoint
  <2>1. pos' = 0 /\ flagFULL' /\ num' = num
    BY <1>4, <2>0 DEF addPoint
  <2>2. num = CHART_POINT - 1 /\ point > CHART_POINT - 1
    BY <1>1, <1>4 DEF RingHasNewest
  <2>3. ASSUME NEW x \in PLACES_OF_CHART PROVE data'[x] = point + 1 + x - CHART_POINT
    <3>1. CASE x = pos
      BY <1>2, <1>4, <3>1
    <3>2. CASE x # pos
      <4>1. x < pos /\ data'[x] = data[x]
        BY <1>2, <1>4, <3>2
      <4>2. data[x] = point - pos + x
        <5>1. CASE flagFULL
          BY <1>1, <4>1, <5>1 DEF RingHasNewest
        <5>2. CASE ~flagFULL
          BY <1>1, <4>1, <5>2 DEF RingHasNewest
        <5> QED BY <5>1, <5>2
      <4> QED BY <1>4, <4>1, <4>2
    <3> QED BY <3>1, <3>2
  <2>4. RingHasNewest'
    <3>1. \A x \in PLACES_OF_CHART : ~(x < 0)
      OBVIOUS
    <3>2. ASSUME NEW x \in PLACES_OF_CHART
          PROVE  data'[x] = point' - pos' + x - IF x < pos' THEN 0 ELSE CHART_POINT
      BY <1>2, <2>1, <2>3, <3>1
    <3> QED BY <1>2, <2>1, <2>2, <3>2 DEF RingHasNewest
  <2> QED BY <1>2, <2>1, <2>2, <2>4
<1>5. CASE ~flagFULL /\ pos < CHART_POINT - 1
  <2>1. pos' = pos + 1 /\ ~flagFULL' /\ num' = num + 1
    BY <1>5 DEF addPoint
  <2> QED BY <1>1, <1>2, <1>5, <2>1 DEF RingHasNewest
<1> QED BY <1>3, <1>4, <1>5

LEMMA ChartStep == ChartInv /\ [ChartNext]_chartVars => ChartInv'
<1> SUFFICES ASSUME ChartInv, [ChartNext]_chartVars PROVE ChartInv'
  OBVIOUS
<1> USE ChartBounds DEF ChartInv, ChartTypeOK, PLACES_OF_CHART
<1>1. CASE addPoint
  <2>1. ChartTypeOK'
    BY <1>1 DEF addPoint
  <2> SUFFICES ASSUME ~upset' PROVE ClearedSoFar' /\ RingHasNewest' /\ ListIsBehind' /\ ListInOrder'
    BY <2>1
  <2>2. ~upset /\ clearing = "idle" /\ UNCHANGED <<clearing, listing, list>>
    BY <1>1 DEF addPoint
  <2>3. RingHasNewest' /\ OldestPoint' >= OldestPoint /\ num' >= num
    BY <1>1, PointIsAdded
  <2>4. OldestPoint \in Int /\ OldestPoint' \in Int /\ num' \in Nat
    BY <2>1 DEF OldestPoint
  <2>5. ListIsBehind'
    BY <2>2, <2>3, <2>4 DEF ListIsBehind
  <2> QED BY <2>2, <2>3, <2>5 DEF ClearedSoFar, ListInOrder
<1>9. ASSUME list' = <<>> PROVE ListInOrder' /\ list' \in Seq(Nat) /\ Len(list') = 0
  BY <1>9 DEF ListInOrder
<1>2. CASE ListBegins
  BY <1>2, <1>9 DEF ListBegins, ClearedSoFar, RingHasNewest, ListIsBehind
<1>3. CASE Lists
  <2>1. /\ listing /\ Len(list) < num /\ list' = Append(list, get_Point(Len(list)))
        /\ UNCHANGED <<data, pos, num, flagFULL, point, clearing, listing, upset>>
    BY <1>3 DEF Lists
  <2> SUFFICES ASSUME ~upset
               PROVE  ClearedSoFar' /\ RingHasNewest' /\ ListIsBehind' /\ ListInOrder'
    BY <2>1
  <2>2. list \in Seq(Nat) /\ Len(list) \in Nat /\ clearing = "idle"
    BY <2>1 DEF ListIsBehind
  <2>3. get_Point(Len(list)) = OldestPoint + Len(list) /\ OldestPoint \in Nat /\ OldestPoint > 0
    <3>1. OldestPoint \in Nat /\ OldestPoint > 0
      BY <2>2 DEF OldestPoint, RingHasNewest
    <3> QED BY <2>1, <2>2, <3>1, PointsFollow
  <2>4. /\ list' \in Seq(Nat) /\ Len(list') = Len(list) + 1
        /\ list'[Len(list')] = OldestPoint + Len(list)
        /\ \A i \in 1 .. Len(list) : list'[i] = list[i]
    BY <2>1, <2>2, <2>3
  <2>5. ListIsBehind'
    <3>1. OldestPoint' = OldestPoint
      BY <2>1 DEF OldestPoint
    <3> QED BY <2>1, <2>2, <2>3, <2>4, <3>1 DEF ListIsBehind
  <2>6. ListInOrder'
    <3> SUFFICES ASSUME NEW i \in 1 .. Len(list')
                 PROVE  list'[i] > IF i = 1 THEN 0 ELSE list'[i - 1]
      BY DEF ListInOrder
    <3>1. CASE i <= Len(list)
      <4>1. i \in 1 .. Len(list) /\ (i # 1 => i - 1 \in 1 .. Len(list))
        BY <2>2, <2>4, <3>1
      <4>2. list[i] > IF i = 1 THEN 0 ELSE list[i - 1]
        BY <4>1 DEF ListInOrder
      <4> QED BY <2>4, <4>1, <4>2
    <3>2. CASE i = Len(list) + 1
      <4>1. CASE list = <<>>
        BY <2>2, <2>3, <2>4, <3>2, <4>1
      <4>2. CASE list # <<>>
        <5>1. Len(list) >= 1 /\ list[Len(list)] < OldestPoint + Len(list)
          BY <2>1, <2>2, <4>2 DEF ListIsBehind
        <5>2. i - 1 = Len(list) /\ i - 1 \in 1 .. Len(list) /\ i # 1
          BY <2>2, <3>2, <5>1
        <5>3. list'[i] = OldestPoint + Len(list) /\ list'[i - 1] = list[Len(list)]
          BY <2>4, <3>2, <5>2
        <5>4. list[Len(list)] \in Nat
          BY <2>2, <5>1
        <5> QED BY <2>2, <2>3, <5>1, <5>2, <5>3, <5>4
      <4> QED BY <4>1, <4>2
    <3> QED BY <2>2, <2>4, <3>1, <3>2
  <2> QED BY <2>1, <2>5, <2>6 DEF ClearedSoFar, RingHasNewest
<1>4. CASE ListEnds
  BY <1>4, <1>9 DEF ListEnds, ClearedSoFar, RingHasNewest, ListIsBehind
<1>5. CASE ClearsPos
  <2>1. ~upset' => list' = <<>> /\ ~upset /\ ~listing'
    BY <1>5 DEF ClearsPos, ListIsBehind
  <2> QED BY <1>5, <1>9, <2>1 DEF ClearsPos, ClearedSoFar, RingHasNewest, ListIsBehind
<1>6. CASE ClearsNum
  <2>1. ~upset' => list' = <<>> /\ ~upset /\ ~listing'
    BY <1>6 DEF ClearsNum, ListIsBehind
  <2> QED BY <1>6, <1>9, <2>1 DEF ClearsNum, ClearedSoFar, RingHasNewest, ListIsBehind
<1>10. CASE ClearsFull
  <2>1. ~upset' => list' = <<>> /\ ~upset /\ ~listing'
    BY <1>10 DEF ClearsFull, ListIsBehind
  <2> QED BY <1>9, <1>10, <2>1 DEF ClearsFull, ClearedSoFar, RingHasNewest, ListIsBehind
<1>7. CASE ClearsData
  <2>1. ~upset' => list' = <<>> /\ ~upset /\ ~listing'
    BY <1>7 DEF ClearsData, ListIsBehind
  <2> QED BY <1>7, <1>9, <2>1 DEF ClearsData, ClearedSoFar, RingHasNewest, ListIsBehind
<1>8. CASE UNCHANGED chartVars
  BY <1>8 DEF chartVars, ClearedSoFar, RingHasNewest, ListIsBehind, ListInOrder, OldestPoint
<1> QED BY <1>1, <1>2, <1>3, <1>4, <1>5, <1>6, <1>7, <1>8, <1>10 DEF ChartNext

\* A list of a chart is in the order of time, for any number of points and places,
\* until a clear() meets another call.
THEOREM ChartIsInOrder == ChartSpec => []ListInOrder
<1>1. ChartInit => ChartInv
  <2>1. 0 \in PLACES_OF_CHART
    BY ChartBounds DEF PLACES_OF_CHART
  <2>2. ASSUME ChartInit PROVE RingHasNewest
    <3>1. ~flagFULL /\ num = 0 /\ pos = 0 /\ point = 1 /\ \A x \in PLACES_OF_CHART : ~(x < 0)
      BY <2>2, ChartBounds DEF ChartInit, PLACES_OF_CHART
    <3> QED BY <3>1 DEF RingHasNewest
  <2> QED BY <2>1, <2>2 DEF ChartInit, ChartInv, ChartTypeOK, ClearedSoFar, ListIsBehind, ListInOrder
<1>2. ChartInv => ListInOrder
  BY DEF ChartInv, ListInOrder
<1> QED BY <1>1, <1>2, ChartStep, PTL DEF ChartSpec
-----------------------------------------------------------------------------
(* The water of a pause of the booster.  The strengthening is the conservation *)
(* of pulses between the interrupt's counter, the litres and the rest, and     *)
(* that the booster's counters are those of the water since its last stop.     *)

LitresOf(a) == a \div kfValue
RestOf(a) == a % kfValue

\* C's division of what is not negative.
LEMMA Dividing ==
  ASSUME NEW a \in Nat
  PROVE  /\ LitresOf(a) \in Nat /\ RestOf(a) \in Nat /\ RestOf(a) < kfValue
         /\ a = kfValue * LitresOf(a) + RestOf(a)
BY FlowAssumption DEF LitresOf, RestOf

\* Division has one result.
LEMMA DividesOnce ==
  ASSUME NEW k \in Nat \ {0}, NEW p \in Int, NEW q \in Int, NEW r \in Int, NEW s \in Int,
         0 <= r, r < k, 0 <= s, s < k, k * p + r = k * q + s
  PROVE  p = q /\ r = s
<1>1. k * (p - q) = s - r
  OBVIOUS
<1>2. p - q >= 1 => k * (p - q) >= k
  OBVIOUS
<1>3. p - q <= -1 => k * (p - q) <= -k
  OBVIOUS
<1>4. p = q
  BY <1>1, <1>2, <1>3
<1> QED BY <1>4

\* A product of sums, which the provers do not see in a larger step.
LEMMA Distributes ==
  ASSUME NEW k \in Nat, NEW p \in Nat, NEW q \in Nat PROVE k * (p + q) = k * p + k * q
OBVIOUS

\* vReadSensor makes litres of pulses and rest in two steps; one would do.
LEMMA AddedUp ==
  ASSUME NEW a \in Nat, NEW c \in Nat
  PROVE  /\ LitresOf(a) + LitresOf(RestOf(a) + c) = LitresOf(a + c)
         /\ RestOf(RestOf(a) + c) = RestOf(a + c)
<1> DEFINE k == kfValue
           q == LitresOf(RestOf(a) + c)
           r == RestOf(RestOf(a) + c)
<1>1. RestOf(a) + c \in Nat /\ a + c \in Nat
  BY Dividing
<1>2. /\ a = k * LitresOf(a) + RestOf(a) /\ LitresOf(a) \in Nat /\ RestOf(a) \in Nat
      /\ RestOf(a) + c = k * q + r /\ q \in Nat /\ r \in Nat /\ r < k
      /\ a + c = k * LitresOf(a + c) + RestOf(a + c)
      /\ LitresOf(a + c) \in Nat /\ RestOf(a + c) \in Nat /\ RestOf(a + c) < k
  BY <1>1, Dividing
<1>3. k \in Nat \ {0}
  BY FlowAssumption
<1> HIDE DEF k, q, r
<1>4. k * (LitresOf(a) + q) = k * LitresOf(a) + k * q
  BY <1>2, <1>3, Distributes
<1>5. k * (LitresOf(a) + q) + r = k * LitresOf(a + c) + RestOf(a + c)
  <2>1. k * LitresOf(a) \in Nat /\ k * q \in Nat
    BY <1>2, <1>3
  <2> QED BY <1>2, <1>4, <2>1
<1>6. LitresOf(a) + q = LitresOf(a + c) /\ r = RestOf(a + c)
  <2> DEFINE l == LitresOf(a) + q
           m == LitresOf(a + c)
           s == RestOf(a + c)
  <2>1. /\ l \in Int /\ m \in Int /\ r \in Int /\ s \in Int
        /\ 0 <= r /\ r < k /\ 0 <= s /\ s < k /\ k * l + r = k * m + s
    BY <1>2, <1>5
  <2> HIDE DEF l, m, s
  <2>2. l = m /\ r = s
    BY <1>3, <2>1, DividesOnce
  <2> QED BY <2>2 DEF l, m, s
<1> QED BY <1>6 DEF q, r

\* C's division: the rest is less than the divisor, the product no more than the
\* dividend.
LEMMA Truncating ==
  ASSUME NEW n \in Int
  PROVE  LET t == Truncated(n, kfValue) IN
         /\ t \in Int
         /\ -kfValue < n - kfValue * t /\ n - kfValue * t < kfValue
         /\ n >= 0 => 0 <= kfValue * t /\ kfValue * t <= n
         /\ n <= 0 => n <= kfValue * t /\ kfValue * t <= 0
<1>1. CASE n >= 0
  <2>1. Truncated(n, kfValue) = LitresOf(n)
    BY <1>1 DEF Truncated, LitresOf
  <2>2. /\ LitresOf(n) \in Nat /\ RestOf(n) \in Nat /\ RestOf(n) < kfValue
        /\ n = kfValue * LitresOf(n) + RestOf(n)
    BY <1>1, Dividing
  <2>3. kfValue * LitresOf(n) \in Nat
    BY <2>2, FlowAssumption
  <2> QED BY <1>1, <2>1, <2>2, <2>3, FlowAssumption
<1>2. CASE n < 0
  <2>1. Truncated(n, kfValue) = -LitresOf(-n)
    BY <1>2 DEF Truncated, LitresOf
  <2>2. /\ LitresOf(-n) \in Nat /\ RestOf(-n) \in Nat /\ RestOf(-n) < kfValue
        /\ -n = kfValue * LitresOf(-n) + RestOf(-n)
    BY <1>2, Dividing
  <2>3. kfValue * LitresOf(-n) \in Nat /\ kfValue * (-LitresOf(-n)) = -(kfValue * LitresOf(-n))
    BY <2>2, FlowAssumption
  <2> QED BY <1>2, <2>1, <2>2, <2>3, FlowAssumption
<1> QED BY <1>1, <1>2

RestIsSmall(r) == r \in Nat /\ r < kfValue

SensingAt == {"idle", "add", "take", "store", "rest"}

CountsAreTyped ==
  /\ count \in Nat /\ pulses \in Nat /\ count <= pulses
  /\ RestIsSmall(PassedRest) /\ RestIsSmall(CountLrest) /\ RestIsSmall(CountLrest0)
  /\ Passed \in Nat /\ CountL \in Nat /\ accounted \in Nat /\ noted \in Int
  /\ sensing \in [at : SensingAt, cnt : Nat, passed : Nat, loaded : Nat]
  /\ pause \in [from : Nat, water : Int] /\ boosting \in BOOLEAN
  /\ cut \in [stop : SensingAt, start : SensingAt]

\* Every pulse is in one place: accounted for, or on its way there.
PulsesRead == 100 * (pulses - count)

NoneIsLost ==
  /\ sensing.at \in {"idle", "add", "rest"} => Passed = 0
  /\ sensing.at \in {"idle", "rest"} => accounted = PulsesRead /\ PassedRest = RestOf(accounted)
  /\ sensing.at = "add" =>
       accounted + sensing.cnt = PulsesRead /\ PassedRest = RestOf(accounted)
  /\ sensing.at = "take" =>
       LitresOf(accounted) + Passed = LitresOf(PulsesRead) /\ PassedRest = RestOf(PulsesRead)
  /\ sensing.at = "store" => Passed = 0 /\
       LitresOf(accounted) + sensing.passed = LitresOf(PulsesRead) /\ PassedRest = RestOf(PulsesRead)

\* The booster's litres and rests are those of the water since its last stop.
SinceStop ==
  /\ cut.stop # "store" =>
       /\ CountL = LitresOf(accounted) - LitresOf(pause.from)
       /\ sensing.at = "store" => sensing.loaded = CountL
  /\ sensing.at # "rest" => CountLrest = RestOf(accounted)
  /\ cut.stop # "rest" => CountLrest0 = RestOf(pause.from)

FlowInv == CountsAreTyped /\ NoneIsLost /\ SinceStop /\ BoosterNoted

LEMMA FlowStart == FlowInit => FlowInv
<1> SUFFICES ASSUME FlowInit PROVE FlowInv
  OBVIOUS
<1> USE FlowAssumption DEF FlowInit
<1>1. CountsAreTyped
  <2>1. /\ sensing \in [at : SensingAt, cnt : Nat, passed : Nat, loaded : Nat]
        /\ pause \in [from : Nat, water : Int] /\ cut \in [stop : SensingAt, start : SensingAt]
    BY DEF SensingAt
  <2>2. 0 \in Nat /\ 0 \in Int /\ RestIsSmall(0)
    BY DEF RestIsSmall
  <2>3. count <= pulses
    OBVIOUS
  <2> QED BY <2>1, <2>2, <2>3 DEF CountsAreTyped
<1>2. RestOf(0) = 0 /\ LitresOf(0) = 0
  <2>1. 0 = kfValue * LitresOf(0) + RestOf(0) /\ LitresOf(0) \in Nat /\ RestOf(0) \in Nat
    BY Dividing
  <2>2. kfValue * LitresOf(0) \in Nat /\ (LitresOf(0) >= 1 => kfValue * LitresOf(0) >= kfValue)
    BY <2>1
  <2> QED BY <2>1, <2>2
<1>3. NoneIsLost /\ SinceStop /\ BoosterNoted
  BY <1>2 DEF NoneIsLost, SinceStop, BoosterNoted, PulsesRead
<1> QED BY <1>1, <1>3 DEF FlowInv

\* What vPumps notes at the booster's start, from the parts of the invariant.
LEMMA StartNotes ==
  ASSUME FlowInv, BoosterStarts PROVE BoosterNoted'
<1> DEFINE d == CountLrest - CountLrest0
           e == RestOf(accounted) - RestOf(pause.from)
           t == Truncated(100 * d, kfValue)
           missing == 100 * pause'.water - kfValue * noted'
<1> SUFFICES ASSUME cut.stop # "store"
             PROVE  LET within == IF "rest" \in {cut'.stop, cut'.start}
                                  THEN 200 * kfValue ELSE kfValue
                    IN -within < missing /\ missing < within
  BY DEF BoosterNoted, BoosterStarts
<1>0. kfValue \in Nat \ {0} /\ CountsAreTyped
  BY FlowAssumption DEF FlowInv
<1>1. /\ pause'.water = accounted - pause.from
      /\ noted' = 100 * CountL + t
      /\ cut'.stop = cut.stop /\ cut'.start = sensing.at
  BY DEF BoosterStarts, RestSinceStop, FlowInv, CountsAreTyped
<1>2. /\ accounted \in Nat /\ pause.from \in Nat /\ CountL \in Nat /\ d \in Int
      /\ CountLrest \in Nat /\ CountLrest < kfValue
      /\ CountLrest0 \in Nat /\ CountLrest0 < kfValue
  BY <1>0 DEF CountsAreTyped, RestIsSmall
<1>3. /\ accounted = kfValue * LitresOf(accounted) + RestOf(accounted)
      /\ pause.from = kfValue * LitresOf(pause.from) + RestOf(pause.from)
      /\ LitresOf(accounted) \in Nat /\ RestOf(accounted) \in Nat /\ RestOf(accounted) < kfValue
      /\ LitresOf(pause.from) \in Nat /\ RestOf(pause.from) \in Nat /\ RestOf(pause.from) < kfValue
  BY <1>2, Dividing
<1>4. kfValue * LitresOf(accounted) = kfValue * LitresOf(pause.from) + kfValue * CountL
  <2>1. LitresOf(accounted) = LitresOf(pause.from) + CountL
    BY <1>2, <1>3 DEF FlowInv, SinceStop
  <2> QED BY <1>0, <1>2, <1>3, <2>1, Distributes
<1>5. accounted - pause.from = kfValue * CountL + e
  <2>1. /\ kfValue * LitresOf(accounted) \in Nat /\ kfValue * LitresOf(pause.from) \in Nat
        /\ kfValue * CountL \in Nat
    BY <1>0, <1>2, <1>3
  <2> QED BY <1>3, <1>4, <2>1
<1>6. /\ t \in Int /\ -kfValue < 100 * d - kfValue * t /\ 100 * d - kfValue * t < kfValue
      /\ 100 * d >= 0 => 0 <= kfValue * t /\ kfValue * t <= 100 * d
      /\ 100 * d <= 0 => 100 * d <= kfValue * t /\ kfValue * t <= 0
  <2>1. 100 * d \in Int
    BY <1>2
  <2> QED BY <2>1, Truncating
<1>7. e \in Int /\ -kfValue < e /\ e < kfValue /\ -kfValue < d /\ d < kfValue
  BY <1>0, <1>2, <1>3
<1>8. sensing.at # "rest" /\ cut.stop # "rest" => d = e
  BY DEF FlowInv, SinceStop
<1> HIDE DEF d, e, t
<1>9. missing = 100 * e - kfValue * t
  <2>1. kfValue * (100 * CountL + t) = 100 * (kfValue * CountL) + kfValue * t
    BY <1>0, <1>2, <1>6
  <2>2. kfValue * CountL \in Nat /\ kfValue * t \in Int
    BY <1>0, <1>2, <1>6
  <2> QED BY <1>1, <1>5, <1>7, <2>1, <2>2
<1> HIDE DEF missing
<1>10. CASE "rest" \in {cut'.stop, cut'.start}
  <2>1. kfValue * t \in Int
    BY <1>0, <1>6
  <2>2. -(200 * kfValue) < missing /\ missing < 200 * kfValue
    BY <1>0, <1>2, <1>6, <1>7, <1>9, <2>1
  <2> QED BY <1>10, <2>2
<1>11. CASE "rest" \notin {cut'.stop, cut'.start}
  <2>1. -kfValue < missing /\ missing < kfValue
    BY <1>1, <1>6, <1>8, <1>9, <1>11
  <2> QED BY <1>11, <2>1
<1> QED BY <1>10, <1>11

\* The strengthened invariant is inductive: one step for each call of vReadSensor and
\* of the interrupt, and for the booster's start and stop.
LEMMA FlowStep == FlowInv /\ [FlowNext]_flowVars => FlowInv'
<1> SUFFICES ASSUME FlowInv, [FlowNext]_flowVars PROVE FlowInv'
  OBVIOUS
<1>0. CountsAreTyped /\ NoneIsLost /\ SinceStop /\ BoosterNoted /\ kfValue \in Nat \ {0}
  BY FlowAssumption DEF FlowInv
<1> USE <1>0
<1>p. PulsesRead \in Nat
  BY DEF CountsAreTyped, PulsesRead
\* What vReadSensor and the interrupt do leaves what was noted.
<1>n. UNCHANGED boosterCountVars => BoosterNoted'
  BY DEF boosterCountVars, BoosterNoted
<1>1. CASE InterruptHandler
  <2>1. /\ count' = count + 1 /\ pulses' = pulses + 1
        /\ UNCHANGED <<PassedRest, Passed, CountL, CountLrest, sensing, accounted,
                       CountLrest0, boosting, noted, pause, cut>>
    BY <1>1 DEF InterruptHandler, boosterCountVars
  <2>2. PulsesRead' = PulsesRead
    BY <2>1 DEF PulsesRead, CountsAreTyped
  <2>3. CountsAreTyped'
    <3>1. count' \in Nat /\ pulses' \in Nat /\ count' <= pulses'
      BY <2>1 DEF CountsAreTyped
    <3> QED BY <2>1, <3>1 DEF CountsAreTyped, RestIsSmall
  <2>4. NoneIsLost' /\ SinceStop'
    BY <2>1, <2>2 DEF NoneIsLost, SinceStop, LitresOf, RestOf
  <2> QED BY <1>1, <1>n, <2>3, <2>4 DEF FlowInv, InterruptHandler
<1>2. CASE ReadTakes
  <2>1. /\ sensing.at = "idle" /\ sensing' = [sensing EXCEPT !.at = "add", !.cnt = 100 * count]
        /\ count' = 0
        /\ UNCHANGED <<PassedRest, Passed, CountL, CountLrest, accounted, pulses,
                       CountLrest0, boosting, noted, pause, cut>>
    BY <1>2 DEF ReadTakes, ReaderOnly, boosterCountVars
  <2>2. sensing'.at = "add" /\ sensing'.cnt = 100 * count
    BY <2>1 DEF CountsAreTyped
  <2>3. CountsAreTyped'
    <3>1. sensing' \in [at : SensingAt, cnt : Nat, passed : Nat, loaded : Nat]
      <4>1. 100 * count \in Nat /\ "add" \in SensingAt
        BY DEF CountsAreTyped, SensingAt
      <4> QED BY <2>1, <4>1 DEF CountsAreTyped
    <3>2. count' \in Nat /\ count' <= pulses'
      BY <2>1 DEF CountsAreTyped
    <3> QED BY <2>1, <3>1, <3>2 DEF CountsAreTyped, RestIsSmall
  <2>4. accounted + sensing'.cnt = PulsesRead'
    BY <2>1, <2>2 DEF NoneIsLost, PulsesRead, CountsAreTyped
  <2>5. NoneIsLost' /\ SinceStop'
    BY <2>1, <2>2, <2>4 DEF NoneIsLost, SinceStop, LitresOf, RestOf
  <2> QED BY <1>2, <1>n, <2>3, <2>5 DEF FlowInv, ReadTakes, ReaderOnly
<1>3. CASE ReadAdds
  <2>1. /\ sensing.at = "add" /\ sensing' = [sensing EXCEPT !.at = "take", !.cnt = 0]
        /\ Passed' = Passed + LitresOf(WithRest(sensing.cnt))
        /\ PassedRest' = RestOf(WithRest(sensing.cnt))
        /\ UNCHANGED <<count, CountL, CountLrest, accounted, pulses,
                       CountLrest0, boosting, noted, pause, cut>>
    BY <1>3 DEF ReadAdds, ReaderOnly, boosterCountVars, LitresOf, RestOf
  <2>2. /\ sensing'.at = "take" /\ sensing.cnt \in Nat /\ accounted \in Nat
        /\ accounted + sensing.cnt = PulsesRead /\ PassedRest = RestOf(accounted) /\ Passed = 0
    BY <2>1 DEF CountsAreTyped, NoneIsLost
  <2>3. /\ LitresOf(accounted) + Passed' = LitresOf(PulsesRead)
        /\ PassedRest' = RestOf(PulsesRead)
    <3>1. /\ LitresOf(accounted) + LitresOf(RestOf(accounted) + sensing.cnt) = LitresOf(PulsesRead)
          /\ RestOf(RestOf(accounted) + sensing.cnt) = RestOf(PulsesRead)
      BY <2>2, AddedUp
    <3>2. Passed' = LitresOf(RestOf(accounted) + sensing.cnt)
      BY <2>1, <2>2, Dividing DEF WithRest
    <3> QED BY <2>1, <2>2, <3>1, <3>2 DEF WithRest
  <2>4. RestIsSmall(PassedRest') /\ Passed' \in Nat
    <3>1. WithRest(sensing.cnt) \in Nat
      BY <2>2, Dividing DEF WithRest
    <3> QED BY <2>1, <2>2, <3>1, Dividing DEF RestIsSmall
  <2>5. CountsAreTyped'
    <3>1. sensing' \in [at : SensingAt, cnt : Nat, passed : Nat, loaded : Nat]
      BY <2>1 DEF CountsAreTyped, SensingAt
    <3> QED BY <2>1, <2>4, <3>1 DEF CountsAreTyped, RestIsSmall
  <2>6. PulsesRead' = PulsesRead
    BY <2>1 DEF PulsesRead
  <2>7. NoneIsLost' /\ SinceStop'
    BY <2>1, <2>2, <2>3, <2>6 DEF NoneIsLost, SinceStop, LitresOf, RestOf
  <2> QED BY <1>3, <1>n, <2>5, <2>7 DEF FlowInv, ReadAdds, ReaderOnly
<1>4. CASE TakesPassed
  <2>1. /\ sensing.at = "take"
        /\ sensing' = [sensing EXCEPT !.at = "store", !.passed = Passed, !.loaded = CountL]
        /\ Passed' = 0
        /\ UNCHANGED <<count, PassedRest, CountL, CountLrest, accounted, pulses,
                       CountLrest0, boosting, noted, pause, cut>>
    BY <1>4 DEF TakesPassed, ReaderOnly, boosterCountVars
  <2>2. sensing'.at = "store" /\ sensing'.passed = Passed /\ sensing'.loaded = CountL
    BY <2>1 DEF CountsAreTyped
  <2>3. CountsAreTyped'
    <3>1. sensing' \in [at : SensingAt, cnt : Nat, passed : Nat, loaded : Nat]
      BY <2>1 DEF CountsAreTyped, SensingAt
    <3> QED BY <2>1, <3>1 DEF CountsAreTyped, RestIsSmall
  <2>4. PulsesRead' = PulsesRead
    BY <2>1 DEF PulsesRead
  <2>5. NoneIsLost' /\ SinceStop'
    BY <2>1, <2>2, <2>4 DEF NoneIsLost, SinceStop, LitresOf, RestOf
  <2> QED BY <1>4, <1>n, <2>3, <2>5 DEF FlowInv, TakesPassed, ReaderOnly
<1>5. CASE StoresL
  <2>1. /\ sensing.at = "store" /\ sensing' = [sensing EXCEPT !.at = "rest"]
        /\ CountL' = sensing.loaded + sensing.passed /\ accounted' = PulsesRead
        /\ UNCHANGED <<count, PassedRest, Passed, CountLrest, pulses,
                       CountLrest0, boosting, noted, pause, cut>>
    BY <1>5 DEF StoresL, ReaderOnly, boosterCountVars, PulsesRead
  <2>2. sensing'.at = "rest"
    BY <2>1 DEF CountsAreTyped
  <2>3. CountsAreTyped'
    <3>1. /\ sensing' \in [at : SensingAt, cnt : Nat, passed : Nat, loaded : Nat]
          /\ CountL' \in Nat
      BY <2>1 DEF CountsAreTyped, SensingAt
    <3> QED BY <2>1, <1>p, <3>1 DEF CountsAreTyped, RestIsSmall
  <2>4. PulsesRead' = PulsesRead
    BY <2>1 DEF PulsesRead
  <2>5. NoneIsLost'
    BY <2>1, <2>2, <2>4 DEF NoneIsLost, LitresOf, RestOf
  <2>6. cut.stop # "store" => CountL' = LitresOf(accounted') - LitresOf(pause.from)
    <3>1. /\ LitresOf(accounted) \in Nat /\ LitresOf(pause.from) \in Nat
          /\ LitresOf(PulsesRead) \in Nat /\ sensing.passed \in Nat
      BY <1>p, Dividing DEF CountsAreTyped
    <3>2. LitresOf(accounted) + sensing.passed = LitresOf(PulsesRead)
      BY <2>1 DEF NoneIsLost
    <3>3. cut.stop # "store" => sensing.loaded = LitresOf(accounted) - LitresOf(pause.from)
      BY <2>1 DEF SinceStop
    <3> QED BY <2>1, <3>1, <3>2, <3>3
  <2>7. SinceStop'
    BY <2>1, <2>2, <2>6 DEF SinceStop, LitresOf, RestOf
  <2> QED BY <1>5, <1>n, <2>3, <2>5, <2>7 DEF FlowInv, StoresL, ReaderOnly
<1>6. CASE StoresRest
  <2>1. /\ sensing.at = "rest"
        /\ sensing' = [sensing EXCEPT !.at = "idle", !.passed = 0, !.loaded = 0]
        /\ CountLrest' = PassedRest
        /\ UNCHANGED <<count, PassedRest, Passed, CountL, accounted, pulses,
                       CountLrest0, boosting, noted, pause, cut>>
    BY <1>6 DEF StoresRest, ReaderOnly, boosterCountVars
  <2>2. sensing'.at = "idle"
    BY <2>1 DEF CountsAreTyped
  <2>3. CountsAreTyped'
    <3>1. sensing' \in [at : SensingAt, cnt : Nat, passed : Nat, loaded : Nat]
      BY <2>1 DEF CountsAreTyped, SensingAt
    <3> QED BY <2>1, <3>1 DEF CountsAreTyped, RestIsSmall
  <2>4. PulsesRead' = PulsesRead
    BY <2>1 DEF PulsesRead
  <2>5. NoneIsLost' /\ SinceStop'
    BY <2>1, <2>2, <2>4 DEF NoneIsLost, SinceStop, LitresOf, RestOf
  <2> QED BY <1>6, <1>n, <2>3, <2>5 DEF FlowInv, StoresRest, ReaderOnly
<1>7. CASE BoosterStarts
  <2>1. /\ boosting' = TRUE
        /\ noted' = 100 * CountL + Truncated(100 * RestSinceStop, kfValue)
        /\ pause' = [pause EXCEPT !.water = accounted - pause.from]
        /\ cut' = [cut EXCEPT !.start = sensing.at]
        /\ UNCHANGED <<count, PassedRest, Passed, CountL, CountLrest, sensing, accounted,
                       CountLrest0, pulses>>
    BY <1>7 DEF BoosterStarts, counterVars
  <2>2. pause'.from = pause.from /\ cut'.stop = cut.stop
    BY <2>1 DEF CountsAreTyped
  <2>3. CountsAreTyped'
    <3>1. 100 * RestSinceStop \in Int
      BY DEF RestSinceStop, CountsAreTyped, RestIsSmall
    <3>2. noted' \in Int
      BY <2>1, <3>1, Truncating DEF CountsAreTyped
    <3>3. pause' \in [from : Nat, water : Int]
      BY <2>1 DEF CountsAreTyped
    <3> QED BY <2>1, <2>2, <3>2, <3>3 DEF CountsAreTyped, RestIsSmall, SensingAt
  <2>4. PulsesRead' = PulsesRead
    BY <2>1 DEF PulsesRead
  <2>5. NoneIsLost' /\ SinceStop'
    BY <2>1, <2>2, <2>4 DEF NoneIsLost, SinceStop, LitresOf, RestOf
  <2> QED BY <1>7, StartNotes, <2>3, <2>5 DEF FlowInv
<1>8. CASE BoosterStops
  <2>1. /\ boosting' = FALSE /\ CountL' = 0 /\ CountLrest0' = CountLrest
        /\ pause' = [from |-> accounted, water |-> 0] /\ noted' = 0
        /\ cut' = [stop |-> sensing.at, start |-> "idle"]
        /\ UNCHANGED <<count, PassedRest, Passed, CountLrest, sensing, accounted, pulses>>
    BY <1>8 DEF BoosterStops, RestAtStop
  <2>2. pause'.from = accounted /\ cut'.stop = sensing.at
    BY <2>1
  <2>3. CountsAreTyped'
    <3>1. /\ pause' \in [from : Nat, water : Int]
          /\ cut' \in [stop : SensingAt, start : SensingAt]
      BY <2>1 DEF CountsAreTyped, SensingAt
    <3> QED BY <2>1, <3>1 DEF CountsAreTyped, RestIsSmall
  <2>4. PulsesRead' = PulsesRead
    BY <2>1 DEF PulsesRead
  <2>5. NoneIsLost'
    BY <2>1, <2>4 DEF NoneIsLost, LitresOf, RestOf
  <2>6. SinceStop'
    <3>1. LitresOf(accounted) \in Nat
      BY Dividing DEF CountsAreTyped
    <3> QED BY <2>1, <2>2, <3>1 DEF SinceStop, LitresOf, RestOf
  <2>7. BoosterNoted'
    BY <2>1 DEF BoosterNoted
  <2> QED BY <2>3, <2>5, <2>6, <2>7 DEF FlowInv
<1>9. CASE UNCHANGED <<counterVars, boosterCountVars, pulses>>
  BY <1>9, <1>n DEF FlowInv, counterVars, boosterCountVars, CountsAreTyped, RestIsSmall,
     NoneIsLost, SinceStop, PulsesRead, LitresOf, RestOf
<1>10. CASE DrainStep \/ UNCHANGED flowVars
  BY <1>9, <1>10 DEF DrainStep, DrainBegins, DrainOpens, DrainEnds, DrainIsJudged, DrainIsOver,
     ServiceOnly, flowVars
<1> QED
  BY <1>1, <1>2, <1>3, <1>4, <1>5, <1>6, <1>7, <1>8, <1>10
     DEF FlowNext, MeterStep, BoosterStep

\* At the booster's start the water of its pause is noted to a hundredth of a litre,
\* to two litres if a start or stop cut vReadSensor's stores, for any resolution of
\* the meter and any number of pulses; unless the stop was undone.
THEOREM PauseIsNoted == FlowSpec => []BoosterNoted
<1>1. FlowInit => FlowInv
  BY FlowStart
<1>2. FlowInv => BoosterNoted
  BY DEF FlowInv
<1> QED BY <1>1, <1>2, FlowStep, PTL DEF FlowSpec
-----------------------------------------------------------------------------
(* The average that a sensorADC gives.                                         *)

\* The sum of a sequence.
SumOf(s) == SumsOf(s)[Len(s)]

\* f has the sums of the first values of s, up to n of them.
AreSums(f, s, n) == /\ f \in [0 .. n -> Nat] /\ f[0] = 0
                    /\ \A i \in 1 .. n : f[i] = f[i - 1] + s[i]

LEMMA SumsExist ==
  ASSUME NEW s \in Seq(Nat), NEW n \in 0 .. Len(s)
  PROVE  \E f : AreSums(f, s, n)
<1> DEFINE None == {m \in 0 .. Len(s) : ~ \E f : AreSums(f, s, m)}
<1> SUFFICES ASSUME None # {} PROVE FALSE
  OBVIOUS
<1>0. None \in SUBSET Nat
  OBVIOUS
<1>1. PICK m \in None : \A k \in None : m <= k
  <2> HIDE DEF None
  <2> QED BY <1>0, LeastNumber
<1>2. m \in Nat /\ m <= Len(s) /\ ~ \E f : AreSums(f, s, m)
  BY <1>1
<1>4. CASE m = 0
  <2>1. AreSums([i \in 0 .. 0 |-> 0], s, 0)
    BY DEF AreSums
  <2> QED BY <1>2, <1>4, <2>1
<1>5. CASE m # 0
  <2>1. m - 1 \in 0 .. Len(s) /\ m - 1 < m
    BY <1>2, <1>5
  <2>2. PICK f : AreSums(f, s, m - 1)
    BY <1>1, <1>2, <2>1
  <2> DEFINE g == [i \in 0 .. m |-> IF i = m THEN f[m - 1] + s[m] ELSE f[i]]
  <2>3. s[m] \in Nat /\ f[m - 1] \in Nat
    BY <1>2, <1>5, <2>2 DEF AreSums
  <2>4. AreSums(g, s, m)
    <3>1. g \in [0 .. m -> Nat]
      BY <1>2, <2>2, <2>3 DEF AreSums
    <3>2. g[0] = 0
      BY <1>2, <1>5, <2>2 DEF AreSums
    <3>3. ASSUME NEW i \in 1 .. m PROVE g[i] = g[i - 1] + s[i]
      <4>1. CASE i = m
        BY <1>2, <4>1
      <4>2. CASE i # m
        <5>1. i \in 1 .. m - 1 /\ i - 1 \in 0 .. m /\ i - 1 # m
          BY <1>2, <4>2
        <5> QED BY <1>2, <2>2, <4>2, <5>1 DEF AreSums
      <4> QED BY <4>1, <4>2
    <3> QED BY <3>1, <3>2, <3>3 DEF AreSums
  <2> QED BY <1>2, <2>4
<1> QED BY <1>4, <1>5

\* Sums that agree on the values agree.
LEMMA SumsAgree ==
  ASSUME NEW n \in Nat, NEW f, NEW g, NEW d \in Int, f[0] = g[0] + d,
         \A i \in 0 .. n : f[i] \in Int /\ g[i] \in Int,
         \A i \in 1 .. n : f[i] - f[i - 1] = g[i] - g[i - 1]
  PROVE  f[n] = g[n] + d
<1> DEFINE Not == {m \in 0 .. n : f[m] # g[m] + d}
<1> SUFFICES ASSUME Not # {} PROVE FALSE
  OBVIOUS
<1>0. Not \in SUBSET Nat
  OBVIOUS
<1>1. PICK m \in Not : \A k \in Not : m <= k
  <2> HIDE DEF Not
  <2> QED BY <1>0, LeastNumber
<1>2. m \in 0 .. n /\ m # 0 /\ f[m] # g[m] + d
  BY <1>1
<1>3. m - 1 \in 0 .. n /\ m \in 1 .. n /\ ~(m <= m - 1)
  BY <1>2
<1>4. f[m - 1] = g[m - 1] + d
  BY <1>1, <1>3
<1>5. f[m] - f[m - 1] = g[m] - g[m - 1] /\ f[m] \in Int /\ g[m] \in Int /\ g[m - 1] \in Int
  BY <1>3
<1> QED BY <1>2, <1>4, <1>5

LEMMA SumsAreSums ==
  ASSUME NEW s \in Seq(Nat)
  PROVE  AreSums(SumsOf(s), s, Len(s))
<1> DEFINE F(f) == [i \in 0 .. Len(s) |-> IF i = 0 THEN 0 ELSE f[i - 1] + s[i]]
           h == SumsOf(s)
<1>0. Len(s) \in Nat /\ \A i \in 1 .. Len(s) : s[i] \in Nat
  OBVIOUS
<1>1. PICK g : AreSums(g, s, Len(s))
  BY <1>0, SumsExist
<1>2. g = F(g)
  BY <1>0, <1>1 DEF AreSums
<1>3. h = CHOOSE f : f = F(f)
  BY DEF SumsOf
<1>4. h = F(h)
  <2> HIDE DEF F, h
  <2> QED BY <1>2, <1>3
<1> HIDE DEF h
<1>5. DOMAIN h = 0 .. Len(s) /\ h = [i \in 0 .. Len(s) |-> h[i]]
  BY <1>4
<1>6. h[0] = 0 /\ \A i \in 1 .. Len(s) : h[i] = h[i - 1] + s[i]
  BY <1>0, <1>4
<1>7. \A i \in 0 .. Len(s) : h[i] \in Nat
  <2> DEFINE Not == {m \in 0 .. Len(s) : h[m] \notin Nat}
  <2> SUFFICES ASSUME Not # {} PROVE FALSE
    OBVIOUS
  <2>0. Not \in SUBSET Nat
    OBVIOUS
  <2>1. PICK m \in Not : \A k \in Not : m <= k
    <3> HIDE DEF Not
    <3> QED BY <2>0, LeastNumber
  <2>2. m \in 1 .. Len(s) /\ h[m] \notin Nat
    BY <1>0, <1>6, <2>1
  <2>3. m - 1 \in 0 .. Len(s) /\ ~(m <= m - 1)
    BY <1>0, <2>2
  <2>4. h[m - 1] \in Nat
    BY <2>1, <2>3
  <2>5. h[m] = h[m - 1] + s[m] /\ s[m] \in Nat
    BY <1>0, <1>6, <2>2
  <2> QED BY <2>2, <2>4, <2>5
<1>8. AreSums(h, s, Len(s))
  <2>1. h \in [0 .. Len(s) -> Nat]
    BY <1>5, <1>7
  <2> QED BY <1>6, <2>1 DEF AreSums
<1> QED BY <1>8 DEF h

LEMMA SumIsNat ==
  ASSUME NEW s \in Seq(Nat) PROVE SumOf(s) \in Nat
<1>1. AreSums(SumsOf(s), s, Len(s)) /\ Len(s) \in Nat
  BY SumsAreSums
<1> HIDE DEF SumOf
<1>2. Len(s) \in 0 .. Len(s)
  BY <1>1
<1> QED BY <1>1, <1>2 DEF AreSums, SumOf

\* A value more at the end.
LEMMA SumAppends ==
  ASSUME NEW s \in Seq(Nat), NEW v \in Nat
  PROVE  SumOf(Append(s, v)) = SumOf(s) + v
<1> DEFINE t == Append(s, v)
           n == Len(s)
           f == SumsOf(t)
           g == SumsOf(s)
<1>1. n \in Nat /\ t \in Seq(Nat) /\ Len(t) = n + 1 /\ t[n + 1] = v
      /\ \A i \in 1 .. n : t[i] = s[i] /\ s[i] \in Nat
  OBVIOUS
<1>2. AreSums(f, t, n + 1) /\ AreSums(g, s, n)
  BY <1>1, SumsAreSums
<1>3. SumOf(t) = f[n + 1] /\ SumOf(s) = g[n]
  BY <1>1 DEF SumOf
<1> HIDE DEF t, n, f, g
<1>4. f[n] = g[n] + 0
  <2>1. f[0] = g[0] + 0 /\ 0 \in Int /\ n \in Nat
    BY <1>1, <1>2 DEF AreSums
  <2>2. \A i \in 0 .. n : f[i] \in Int /\ g[i] \in Int
    BY <1>1, <1>2 DEF AreSums
  <2>3. ASSUME NEW i \in 1 .. n PROVE f[i] - f[i - 1] = g[i] - g[i - 1]
    <3>1. i \in 1 .. n + 1 /\ i - 1 \in 0 .. n /\ i - 1 \in 0 .. n + 1 /\ i \in 0 .. n
      BY <1>1
    <3>2. f[i] = f[i - 1] + t[i] /\ g[i] = g[i - 1] + s[i] /\ t[i] = s[i]
      BY <1>1, <1>2, <3>1 DEF AreSums
    <3>3. f[i - 1] \in Nat /\ g[i - 1] \in Nat
      BY <1>2, <3>1 DEF AreSums
    <3>4. f[i] = f[i - 1] + s[i]
      BY <3>2
    <3>5. s[i] \in Int
      BY <1>1
    <3> QED BY <3>2, <3>3, <3>4, <3>5
  <2> QED BY <2>1, <2>2, <2>3, SumsAgree, Zenon
<1>5. f[n + 1] = f[n] + v
  <2>1. n + 1 \in 1 .. n + 1 /\ (n + 1) - 1 = n
    BY <1>1
  <2> QED BY <1>1, <1>2, <2>1 DEF AreSums
<1> QED BY <1>1, <1>2, <1>3, <1>4, <1>5 DEF AreSums, t

\* A value less at the beginning.
LEMMA SumOfTail ==
  ASSUME NEW s \in Seq(Nat), s # <<>>
  PROVE  SumOf(s) = s[1] + SumOf(Tail(s))
<1> DEFINE t == Tail(s)
           n == Len(t)
           f == SumsOf(s)
           g == SumsOf(t)
           e == [i \in 0 .. n |-> f[i + 1]]
<1>1. n \in Nat /\ t \in Seq(Nat) /\ Len(s) = n + 1 
      /\ \A i \in 1 .. n : t[i] = s[i + 1] /\ t[i] \in Nat
  OBVIOUS
<1>2. AreSums(f, s, n + 1) /\ AreSums(g, t, n)
  BY <1>1, SumsAreSums
<1>3. SumOf(s) = f[n + 1] /\ SumOf(t) = g[n] /\ s[1] \in Nat
  BY <1>1 DEF SumOf
<1> HIDE DEF t, n, f, g
<1>4. e[n] = g[n] + s[1]
  <2>1. e[0] = g[0] + s[1]
    <3>1. 0 \in 0 .. n /\ 1 \in 1 .. n + 1
      BY <1>1
    <3>2. f[1] = f[1 - 1] + s[1]
      BY <1>2, <3>1 DEF AreSums
    <3> QED BY <1>2, <1>3, <3>1, <3>2 DEF AreSums
  <2>2. \A i \in 0 .. n : e[i] \in Int /\ g[i] \in Int
    BY <1>1, <1>2 DEF AreSums
  <2>3. ASSUME NEW i \in 1 .. n PROVE e[i] - e[i - 1] = g[i] - g[i - 1]
    <3>1. i \in Int /\ i + 1 \in 1 .. n + 1 /\ i - 1 \in 0 .. n /\ i \in 0 .. n /\ (i + 1) - 1 = i
          /\ (i - 1) + 1 = i /\ i \in 0 .. n + 1
      BY <1>1
    <3>2. f[i + 1] = f[i] + s[i + 1] /\ g[i] = g[i - 1] + t[i]
      BY <1>1, <1>2, <3>1 DEF AreSums
    <3>3. e[i] = f[i + 1] /\ e[i - 1] = f[i]
      BY <3>1
    <3>4. f[i] \in Nat /\ g[i - 1] \in Nat /\ t[i] \in Nat /\ s[i + 1] = t[i]
      BY <1>1, <1>2, <3>1 DEF AreSums
    <3>5. f[i + 1] = f[i] + t[i]
      BY <3>2, <3>4
    <3> QED BY <3>2, <3>3, <3>4, <3>5
  <2> HIDE DEF e
  <2>4. s[1] \in Int /\ n \in Nat
    BY <1>1, <1>3
  <2> QED BY <2>1, <2>2, <2>3, <2>4, SumsAgree, Zenon
<1>5. e[n] = f[n + 1] /\ g[n] \in Nat
  BY <1>1, <1>2 DEF AreSums
<1> QED BY <1>3, <1>4, <1>5 DEF t
AdcTypes ==
  /\ adc_filter \in [0 .. FilterSize - 1 -> Nat] /\ adc_last \in 0 .. FilterSize - 1
  /\ adc_flagFull \in BOOLEAN /\ since.cut \in BOOLEAN /\ torn_read \in BOOLEAN
  /\ since = [was |-> since.was, cut |-> since.cut]
  /\ newest \in Seq(Nat)

\* Where the ring has the i-th of the newest results.
PlaceOf(i) == IF ~adc_flagFull THEN i - 1
              ELSE IF adc_last + i - 1 < FilterSize THEN adc_last + i - 1
              ELSE adc_last + i - 1 - FilterSize

RingHasResults ==
  /\ Len(newest) = IF adc_flagFull THEN FilterSize ELSE adc_last
  /\ \A i \in 1 .. Len(newest) : newest[i] = adc_filter[PlaceOf(i)]
  /\ ~adc_flagFull => \A j \in adc_last .. FilterSize - 1 : adc_filter[j] = 0

SumIsNewest == adc_sum = SumOf(newest)

\* How far the results are those that the read began with.
ReadKnows ==
  /\ reads.at = "full" => adc_flagFull /\ (since.cut \/ newest = since.was)
  /\ reads.at \in {"sum", "last"} /\ ~torn_read =>
        ~adc_flagFull /\ ~since.cut /\ newest = since.was
  /\ reads.at = "last" /\ ~torn_read => reads.sum = adc_sum

AdcInv == AdcTypes /\ RingHasResults /\ SumIsNewest /\ ReadKnows /\ AverageIsTrue

\* While the ring fills, the result goes into the first free place.
LEMMA RingFills ==
  ASSUME AdcTypes, RingHasResults, SumIsNewest, ~adc_flagFull, NEW v \in Raw, ADC_Handler(v)
  PROVE  AdcTypes' /\ RingHasResults' /\ SumIsNewest'
<1> USE FilterBounds
<1>1. v \in Nat /\ Len(newest) = adc_last /\ adc_last \in 0 .. FilterSize - 1
      /\ newest' = Append(newest, v) /\ newest \in Seq(Nat)
  BY DEF AdcTypes, RingHasResults, ADC_Handler
<1>2. OldestResult = 0
  BY DEF OldestResult, AdcTypes, RingHasResults
<1>3. SumOf(newest) \in Nat /\ SumOf(newest') = SumOf(newest) + v
  BY <1>1, SumAppends, SumIsNat
<1>4. adc_sum' = adc_sum + v - OldestResult
  BY DEF ADC_Handler
<1>5. SumIsNewest'
  BY <1>1, <1>2, <1>3, <1>4 DEF SumIsNewest
<1>6. newest' \in Seq(Nat) /\ Len(newest') = adc_last + 1 /\ newest'[adc_last + 1] = v
      /\ \A i \in 1 .. adc_last : newest'[i] = newest[i]
  BY <1>1
<1>7. /\ \/ adc_last = FilterSize - 1 /\ adc_last' = 0 /\ adc_flagFull'
         \/ adc_last < FilterSize - 1 /\ adc_last' = adc_last + 1 /\ ~adc_flagFull'
      /\ adc_filter' = [adc_filter EXCEPT ![adc_last] = v]
      /\ adc_filter' \in [0 .. FilterSize - 1 -> Nat]
  <2>1. adc_last = FilterSize - 1 \/ adc_last < FilterSize - 1
    BY <1>1
  <2>2. adc_flagFull' <=> adc_last = FilterSize - 1
    BY DEF ADC_Handler, AdcTypes
  <2>3. adc_filter' = [adc_filter EXCEPT ![adc_last] = v]
        /\ adc_last' = IF adc_last < FilterSize - 1 THEN adc_last + 1 ELSE 0
    BY DEF ADC_Handler
  <2>4. adc_filter' \in [0 .. FilterSize - 1 -> Nat]
    BY <1>1, <2>3 DEF AdcTypes
  <2>5. CASE adc_last = FilterSize - 1
    BY <1>1, <2>2, <2>3, <2>4, <2>5
  <2>6. CASE adc_last < FilterSize - 1
    BY <1>1, <2>2, <2>3, <2>4, <2>6
  <2> QED BY <2>1, <2>5, <2>6
<1>8. AdcTypes'
  <2>1. since' = [was |-> since'.was, cut |-> since'.cut] /\ since'.cut \in BOOLEAN
    BY DEF ADC_Handler, AdcTypes
  <2>2. torn_read' \in BOOLEAN /\ adc_flagFull' \in BOOLEAN
    BY DEF ADC_Handler, AdcTypes
  <2>3. adc_last' \in 0 .. FilterSize - 1
    BY <1>1, <1>7
  <2> QED BY <1>6, <1>7, <2>1, <2>2, <2>3 DEF AdcTypes
<1>9. RingHasResults'
  <2>1. Len(newest') = IF adc_flagFull' THEN FilterSize ELSE adc_last'
    <3>1. CASE adc_last = FilterSize - 1
      BY <1>1, <1>6, <1>7, <3>1
    <3>2. CASE adc_last < FilterSize - 1
      <4>1. adc_last # FilterSize - 1
        BY <1>1, <3>2
      <4>2. ~adc_flagFull' /\ Len(newest') = adc_last'
        BY <1>6, <1>7, <4>1, Zenon
      <4> QED BY <4>2, Zenon
    <3> QED BY <1>7, <3>1, <3>2
  <2>2. ASSUME NEW i \in 1 .. Len(newest') PROVE newest'[i] = adc_filter'[PlaceOf(i)']
    <3>1. PlaceOf(i)' = i - 1
      BY <1>1, <1>6, <1>7, <2>2 DEF PlaceOf
    <3>2. newest'[i] = adc_filter'[i - 1]
      <4>1. CASE i = adc_last + 1
        BY <1>1, <1>6, <1>7, <4>1 DEF AdcTypes
      <4>2. CASE i # adc_last + 1
        <5>1. i \in 1 .. adc_last /\ i - 1 \in 0 .. FilterSize - 1 /\ i - 1 # adc_last
          BY <1>1, <1>6, <4>2
        <5>2. newest[i] = adc_filter[i - 1]
          BY <1>1, <5>1 DEF RingHasResults, PlaceOf
        <5> QED BY <1>6, <1>7, <5>1, <5>2 DEF AdcTypes
      <4> QED BY <4>1, <4>2
    <3> QED BY <3>1, <3>2
  <2>3. ASSUME ~adc_flagFull', NEW j \in adc_last' .. FilterSize - 1 PROVE adc_filter'[j] = 0
    <3>1. j \in adc_last .. FilterSize - 1 /\ j # adc_last /\ j \in 0 .. FilterSize - 1
      BY <1>1, <1>7, <2>3
    <3> QED BY <1>7, <3>1 DEF RingHasResults, AdcTypes
  <2> QED BY <2>1, <2>2, <2>3 DEF RingHasResults
<1> QED BY <1>5, <1>8, <1>9

\* In a full ring the result takes the place of the oldest.
LEMMA RingTurns ==
  ASSUME AdcTypes, RingHasResults, SumIsNewest, adc_flagFull, NEW v \in Raw, ADC_Handler(v)
  PROVE  AdcTypes' /\ RingHasResults' /\ SumIsNewest'
<1> USE FilterBounds
<1>1. v \in Nat /\ Len(newest) = FilterSize /\ adc_last \in 0 .. FilterSize - 1
      /\ newest' = Append(Tail(newest), v) /\ newest \in Seq(Nat) /\ newest # <<>>
  BY DEF AdcTypes, RingHasResults, ADC_Handler
<1>2. Tail(newest) \in Seq(Nat) /\ Len(Tail(newest)) = FilterSize - 1 /\ newest[1] \in Nat
      /\ \A i \in 1 .. FilterSize - 1 : Tail(newest)[i] = newest[i + 1]
  BY <1>1
<1>3. OldestResult = newest[1]
  <2>1. 1 \in 1 .. Len(newest) /\ PlaceOf(1) = adc_last
    BY <1>1 DEF PlaceOf
  <2> QED BY <2>1 DEF OldestResult, RingHasResults
<1>4. SumOf(newest) = newest[1] + SumOf(Tail(newest)) /\ SumOf(Tail(newest)) \in Nat
  BY <1>1, <1>2, SumOfTail, SumIsNat
<1>5. SumOf(newest') = SumOf(Tail(newest)) + v
  BY <1>1, <1>2, SumAppends
<1>6. SumIsNewest'
  <2>1. adc_sum' = adc_sum + v - OldestResult
    BY DEF ADC_Handler
  <2> QED BY <1>1, <1>2, <1>3, <1>4, <1>5, <2>1 DEF SumIsNewest
<1>7. newest' \in Seq(Nat) /\ Len(newest') = FilterSize /\ newest'[FilterSize] = v
      /\ \A i \in 1 .. FilterSize - 1 : newest'[i] = newest[i + 1]
  BY <1>1, <1>2
<1>8. /\ adc_last' = IF adc_last < FilterSize - 1 THEN adc_last + 1 ELSE 0
      /\ adc_flagFull' = TRUE
      /\ adc_filter' = [adc_filter EXCEPT ![adc_last] = v]
      /\ adc_filter' \in [0 .. FilterSize - 1 -> Nat]
  BY <1>1 DEF ADC_Handler, AdcTypes
<1>9. AdcTypes'
  <2>1. since' = [was |-> since'.was, cut |-> since'.cut] /\ since'.cut \in BOOLEAN
    BY DEF ADC_Handler, AdcTypes
  <2>2. torn_read' \in BOOLEAN
    BY DEF ADC_Handler, AdcTypes
  <2> QED BY <1>1, <1>7, <1>8, <2>1, <2>2 DEF AdcTypes
<1>10. RingHasResults'
  <2>1. ASSUME NEW i \in 1 .. FilterSize PROVE newest'[i] = adc_filter'[PlaceOf(i)']
    <3>1. CASE i = FilterSize
      <4>1. PlaceOf(i)' = adc_last
        BY <1>1, <1>8, <3>1 DEF PlaceOf
      <4> QED BY <1>1, <1>7, <1>8, <3>1, <4>1 DEF AdcTypes
    <3>2. CASE i # FilterSize
      <4>1. i \in 1 .. FilterSize - 1 /\ i + 1 \in 1 .. Len(newest)
        BY <1>1, <3>2
      <4>2. PlaceOf(i)' = PlaceOf(i + 1) /\ PlaceOf(i + 1) # adc_last
            /\ PlaceOf(i + 1) \in 0 .. FilterSize - 1
        BY <1>1, <1>8, <4>1 DEF PlaceOf
      <4>3. newest[i + 1] = adc_filter[PlaceOf(i + 1)]
        BY <4>1 DEF RingHasResults
      <4> QED BY <1>7, <1>8, <4>1, <4>2, <4>3 DEF AdcTypes
    <3> QED BY <3>1, <3>2
  <2> QED BY <1>7, <1>8, <2>1 DEF RingHasResults
<1> QED BY <1>6, <1>9, <1>10

LEMMA AdcStep == AdcInv /\ [AdcNext]_adcVars => AdcInv'
<1> SUFFICES ASSUME AdcInv, [AdcNext]_adcVars PROVE AdcInv'
  OBVIOUS
<1> USE FilterBounds
<1>1. CASE UNCHANGED adcVars
  BY <1>1 DEF adcVars, AdcInv, AdcTypes, RingHasResults, PlaceOf, SumIsNewest, ReadKnows,
              AverageIsTrue
<1>2. ASSUME NEW v \in Raw, ADC_Handler(v) PROVE AdcInv'
  <2>1. AdcTypes' /\ RingHasResults' /\ SumIsNewest'
    BY <1>2, RingFills, RingTurns DEF AdcInv
  <2>2. /\ reads' = reads /\ lastADC' = lastADC /\ since'.was = since.was
        /\ since'.cut = (reads.at # "idle")
        /\ torn_read' = (torn_read \/ (reads.at # "idle" /\ ~adc_flagFull))
        /\ adc_flagFull => adc_flagFull'
        /\ reads.at # "idle" => ~since.cut
    BY <1>2 DEF ADC_Handler, AdcInv, AdcTypes
  <2>3. ReadKnows'
    BY <2>2 DEF AdcInv, ReadKnows
  <2>4. AverageIsTrue'
    BY <2>2 DEF AdcInv, AverageIsTrue
  <2> QED BY <2>1, <2>3, <2>4 DEF AdcInv
<1>3. ASSUME UNCHANGED <<adc_filter, adc_sum, adc_last, adc_flagFull, newest, torn_read>>,
             since' = since \/ since' = [was |-> newest, cut |-> FALSE]
      PROVE  AdcTypes' /\ RingHasResults' /\ SumIsNewest'
  <2>1. AdcTypes'
    <3>1. since' = [was |-> since'.was, cut |-> since'.cut] /\ since'.cut \in BOOLEAN
      <4>1. CASE since' = since
        BY <4>1 DEF AdcInv, AdcTypes
      <4>2. CASE since' = [was |-> newest, cut |-> FALSE]
        BY <4>2
      <4> QED BY <1>3, <4>1, <4>2
    <3> QED BY <1>3, <3>1 DEF AdcInv, AdcTypes
  <2>2. \A i : PlaceOf(i)' = PlaceOf(i)
    BY <1>3 DEF PlaceOf
  <2>3. RingHasResults'
    BY <1>3, <2>2 DEF AdcInv, RingHasResults
  <2>4. SumIsNewest'
    BY <1>3 DEF AdcInv, SumIsNewest
  <2> QED BY <2>1, <2>3, <2>4
<1>4. CASE ReadBegins
  <2>1. ReadKnows' /\ AverageIsTrue'
    BY <1>4 DEF ReadBegins, AdcInv, AdcTypes, ReadKnows, AverageIsTrue
  <2> QED BY <1>3, <1>4, <2>1 DEF ReadBegins, AdcInv
<1>5. CASE ReadsFull
  <2>1. Average(newest) = Quotient(adc_sum, FilterSize)
    BY <1>5 DEF ReadsFull, AdcInv, ReadKnows, RingHasResults, SumIsNewest, SumOf, Average
  <2>2. AverageIsTrue' /\ ReadKnows'
    BY <1>5, <2>1 DEF ReadsFull, AdcInv, ReadKnows, AverageIsTrue
  <2> QED BY <1>3, <1>5, <2>2 DEF ReadsFull, AdcInv
<1>6. CASE ReadsSum
  <2>1. AverageIsTrue' /\ ReadKnows'
    BY <1>6 DEF ReadsSum, AdcInv, ReadKnows, AverageIsTrue
  <2> QED BY <1>3, <1>6, <2>1 DEF ReadsSum, AdcInv
<1>7. CASE ReadsLast
  <2>1. ~torn_read => Average(newest) = Quotient(reads.sum, adc_last) /\ newest = since.was
    BY <1>7 DEF ReadsLast, AdcInv, ReadKnows, RingHasResults, SumIsNewest, SumOf, Average
  <2>2. AverageIsTrue' /\ ReadKnows'
    BY <1>7, <2>1 DEF ReadsLast, AdcInv, ReadKnows, AverageIsTrue
  <2> QED BY <1>3, <1>7, <2>2 DEF ReadsLast, AdcInv
<1>8. CASE ReadEnds
  <2>1. AverageIsTrue' /\ ReadKnows'
    BY <1>8 DEF ReadEnds, AdcInv, ReadKnows, AverageIsTrue
  <2> QED BY <1>3, <1>8, <2>1 DEF ReadEnds, AdcInv
<1> QED BY <1>1, <1>2, <1>4, <1>5, <1>6, <1>7, <1>8 DEF AdcNext

\* sensorADC::Read: the value is the average of the newest results of the converter, as they
\* were when the read began or after the one conversion in it, for a filter of any size;
\* unless a conversion fell into a read while the ring was filling.
THEOREM AverageOfNewest == AdcSpec => []AverageIsTrue
<1>1. AdcInit => AdcInv
  <2> SUFFICES ASSUME AdcInit PROVE AdcInv
    OBVIOUS
  <2> USE FilterBounds
  <2>1. AdcTypes
    <3>1. adc_filter \in [0 .. FilterSize - 1 -> Nat] /\ adc_last \in 0 .. FilterSize - 1
      BY DEF AdcInit
    <3>2. newest \in Seq(Nat) /\ since = [was |-> <<>>, cut |-> FALSE]
      BY DEF AdcInit
    <3>3. adc_flagFull = FALSE /\ torn_read = FALSE
      BY DEF AdcInit
    <3> QED BY <3>1, <3>2, <3>3 DEF AdcTypes
  <2>3. RingHasResults
    <3>1. Len(newest) = 0 /\ 1 .. 0 = {}
      BY DEF AdcInit
    <3> QED BY <3>1 DEF AdcInit, RingHasResults
  <2>4. ReadKnows /\ AverageIsTrue
    BY DEF AdcInit, ReadKnows, AverageIsTrue
  <2>2. SumOf(<<>>) = 0
    <3>1. <<>> \in Seq(Nat)
      OBVIOUS
    <3>2. AreSums(SumsOf(<<>>), <<>>, Len(<<>>))
      BY <3>1, SumsAreSums, Zenon
    <3> QED BY <3>2 DEF AreSums, SumOf
  <2> QED BY <2>1, <2>2, <2>3, <2>4 DEF AdcInit, SumIsNewest, AdcInv
<1> QED BY <1>1, AdcStep, PTL DEF AdcSpec, AdcInv
=============================================================================
