------------------------------ MODULE WebMutex ------------------------------
(***************************************************************************)
(* xWebThreadSemaphore, which keeps the SPI devices (network chip, SD      *)
(* card) to one task: a binary semaphore that anybody may give.            *)
(* SemaphoreTake polls it once a tick and gives up after a time.  Users    *)
(* open it in the middle of their work to let others in, and what they do  *)
(* when they cannot get it back differs from place to place.  vWeb0        *)
(* watches it: busy for nine seconds, it is given whoever holds it.        *)
(***************************************************************************)
CONSTANTS Web,          \* web server tasks, they send and receive by packets
          Other,        \* tasks that only try: vService with its files
          Watcher       \* vWeb0, one of Web, which also sends messages

ASSUME WatcherServes == Watcher \in Web

Users == Web \union Other

VARIABLES
  free,         \* the semaphore
  place,        \* per user: out, inside, or apart (gave it for a while)
  lapsed        \* history: it was given over a user's head, or done without

mutexVars == <<free, place, lapsed>>

MutexTypeOK ==
  /\ free \in BOOLEAN /\ lapsed \in BOOLEAN
  /\ place \in [Users -> {"out", "inside", "apart"}]

MutexInit == /\ free = TRUE /\ lapsed = FALSE
             /\ place = [u \in Users |-> "out"]

Inside == {u \in Users : place[u] = "inside"}
Stands(u, p) == place' = [place EXCEPT ![u] = p]

\* SemaphoreTake.
Enter(u) ==
  /\ place[u] = "out" /\ free
  /\ Stands(u, "inside") /\ free' = FALSE
  /\ UNCHANGED lapsed

\* The time is over, and the user goes on without the work.
GivesUp(u) == place[u] = "out" /\ ~free /\ UNCHANGED mutexVars

Leave(u) ==
  /\ place[u] = "inside"
  /\ Stands(u, "out") /\ free' = TRUE
  /\ UNCHANGED lapsed

\* Given between two packets, in the wait for an answer, at a pause.
Part(u) ==
  /\ place[u] = "inside"
  /\ Stands(u, "apart") /\ free' = TRUE
  /\ UNCHANGED lapsed

BrokenRejoin(u) ==
  /\ place[u] = "apart"
  /\ Stands(u, "inside") /\ free' = FALSE
  /\ UNCHANGED lapsed

Rejoin(u) ==
  /\ place[u] = "apart" /\ free
  /\ Stands(u, "inside") /\ free' = FALSE
  /\ UNCHANGED lapsed

\* Busy when last asked.  sendPacketRTOS, SendFileData, SendCommandSMTP and the
\* upload return an error, and web_server or sendMail go on with the sockets
\* and give the semaphore in the end; an SMS is simply given up.
RejoinFails(u) ==
  /\ place[u] = "apart" /\ ~free
  /\ \/ Stands(u, "inside") /\ lapsed' = TRUE
     \/ u = Watcher /\ Stands(u, "out") /\ UNCHANGED lapsed
  /\ UNCHANGED free

\* sendSMS and its kin return without giving when the name of their server is
\* not resolved.
Forget ==
  /\ place[Watcher] = "inside"
  /\ Stands(Watcher, "out")
  /\ UNCHANGED <<free, lapsed>>

BrokenUnlock ==
  /\ place[Watcher] = "out" /\ ~free /\ Inside # {}
  /\ free' = TRUE /\ lapsed' = TRUE
  /\ UNCHANGED place

\* vWeb0, every ten seconds, when it has waited nine for the semaphore.
Unlock ==
  /\ place[Watcher] = "out" /\ ~free
  /\ free' = TRUE
  /\ lapsed' = (lapsed \/ Inside # {})
  /\ UNCHANGED place

WatcherStep ==
  Leave(Watcher) \/ Rejoin(Watcher) \/ RejoinFails(Watcher) \/ Forget \/ Unlock

MutexNext ==
  \/ \E u \in Users : Enter(u) \/ GivesUp(u) \/ Leave(u)
  \/ \E u \in Web : Part(u) \/ Rejoin(u) \/ RejoinFails(u)
  \/ Forget \/ Unlock

\* vWeb0 comes round its loop, and does not stay in its own work.
MutexSpec == MutexInit /\ [][MutexNext]_mutexVars /\ WF_mutexVars(WatcherStep)
-----------------------------------------------------------------------------
\* The SPI devices have one user at a time, and he holds the semaphore, for as
\* long as nobody was let go on without it and it was not given over a user's
\* head (the two ways the code has to break its own mutex).
OneInsideBeforeLapse ==
  ~lapsed => \A u \in Inside : ~free /\ Inside = {u}

\* A busy semaphore becomes free again, also when the sender of an SMS went away
\* with it or a web task never returns: vWeb0's watch is enough for that.
FreeAgain == ~free ~> free

=============================================================================
