---------------------------- MODULE NetworkProofs ----------------------------
(***************************************************************************)
(* What the tasks of the network promise each other, for any number of     *)
(* them: the SPI devices have one user up to the first lapse, a socket one *)
(* thread that serves it, and a notice that was taken is sent.             *)
(***************************************************************************)
EXTENDS WebMutex, Sockets, Notices, TLAPS

-----------------------------------------------------------------------------
(* The semaphore of the SPI devices *)

MutexInv == MutexTypeOK /\ OneInsideBeforeLapse

\* No step of any task takes the semaphore or a task out of its type.
LEMMA MutexTypes == MutexTypeOK /\ [MutexNext]_mutexVars => MutexTypeOK'
<1> SUFFICES ASSUME MutexTypeOK, [MutexNext]_mutexVars PROVE MutexTypeOK'
  OBVIOUS
<1>1. ASSUME NEW u \in Users, Enter(u) \/ GivesUp(u) \/ Leave(u) \/ Part(u) PROVE MutexTypeOK'
  BY <1>1 DEF MutexTypeOK, Enter, GivesUp, Leave, Part, Stands, mutexVars
<1>2. ASSUME NEW u \in Users, Rejoin(u) \/ RejoinFails(u) PROVE MutexTypeOK'
  BY <1>2 DEF MutexTypeOK, Rejoin, RejoinFails, Stands
<1>3. CASE Forget \/ Unlock
  BY <1>3 DEF MutexTypeOK, Forget, Unlock, Stands
<1>4. CASE UNCHANGED mutexVars
  BY <1>4 DEF MutexTypeOK, mutexVars
<1> QED BY <1>1, <1>2, <1>3, <1>4 DEF MutexNext, Users

\* A task that finds the semaphore free finds nobody inside; a task that goes on
\* without it, and vWeb0 when it gives it over a head, say so in lapsed.
LEMMA MutexKept == MutexInv /\ [MutexNext]_mutexVars => OneInsideBeforeLapse'
<1> SUFFICES ASSUME MutexInv, [MutexNext]_mutexVars, ~lapsed',
                    NEW u \in Inside'
             PROVE  ~free' /\ Inside' = {u}
  BY DEF OneInsideBeforeLapse
<1> USE DEF MutexInv, MutexTypeOK, OneInsideBeforeLapse, Inside, Stands
<1>1. ASSUME NEW t \in Users, Enter(t) \/ Rejoin(t) PROVE ~free' /\ Inside' = {u}
  BY <1>1 DEF Enter, Rejoin
<1>2. ASSUME NEW t \in Users, Leave(t) \/ Part(t) PROVE ~free' /\ Inside' = {u}
  BY <1>2 DEF Leave, Part
<1>3. ASSUME NEW t \in Users, RejoinFails(t) PROVE ~free' /\ Inside' = {u}
  BY <1>3 DEF RejoinFails
<1>4. CASE Forget
  BY <1>4, WatcherServes DEF Forget, Users
<1>5. CASE Unlock
  BY <1>5, WatcherServes DEF Unlock, Users
<1>6. ASSUME NEW t \in Users, GivesUp(t) PROVE ~free' /\ Inside' = {u}
  BY <1>6 DEF GivesUp, mutexVars
<1>7. CASE UNCHANGED mutexVars
  BY <1>7 DEF mutexVars
<1> QED BY <1>1, <1>2, <1>3, <1>4, <1>5, <1>6, <1>7 DEF MutexNext, Users

\* One task at a time uses the SPI devices, until a task goes on without the
\* semaphore or it is given over a task's head.
THEOREM OneInsideUntilLapse == MutexSpec => []OneInsideBeforeLapse
<1>1. MutexInit => MutexInv
  BY DEF MutexInit, MutexInv, MutexTypeOK, OneInsideBeforeLapse, Inside
<1>2. MutexInv /\ [MutexNext]_mutexVars => MutexInv'
  BY MutexTypes, MutexKept DEF MutexInv
<1>3. MutexInv => OneInsideBeforeLapse
  BY DEF MutexInv
<1> QED BY <1>1, <1>2, <1>3, PTL DEF MutexSpec
-----------------------------------------------------------------------------
(* The sockets *)

\* A socket that a thread is about to take has no other thread's mark, and no
\* other thread is about to take it.
ChosenAlone == \A t \in Thread : web[t] = "accept" =>
  \A u \in Thread \ {t} :
    /\ mark[u] # looked[t]
    /\ web[u] = "accept" => looked[u] # looked[t]

\* A thread that serves has its mark on its client's socket; the client is the
\* one that asked, and the socket does not listen to another.
ServedMarked == \A t \in Busy :
  /\ client[t].sock \in Sock /\ mark[t] = client[t].sock /\ looked[t] = client[t].sock
  /\ visit[client[t].sock] = client[t].visit
  /\ status[client[t].sock] # "listen"

\* The loop's sock is one of the server's sockets as long as a thread has to do
\* with it, whatever else has happened.
LooksAtSocket == \A t \in Thread :
  web[t] \in {"accept", "serve", "apart", "stop"} => looked[t] \in Sock

SocketsInv ==
  /\ SocketsTypeOK /\ LooksAtSocket
  /\ muddle = {} => ChosenAlone /\ ServedMarked /\ ServedAlone

LEMMA SocketsStart == SocketsInit => SocketsInv
BY ServiceServes DEF SocketsInit, SocketsInv, SocketsTypeOK, LooksAtSocket, ChosenAlone,
   ServedMarked, ServedAlone, Busy, Sock, NoSock, Clients, NoClient

\* No step of a client, of a thread or of vWeb0 takes a variable out of its type,
\* or a thread's sock behind the last socket.
LEMMA SocketsTypes ==
  SocketsInv /\ [SocketsNext]_socketVars => SocketsTypeOK' /\ LooksAtSocket'
<1> DEFINE Goal == SocketsTypeOK' /\ LooksAtSocket'
<1> SUFFICES ASSUME SocketsInv, [SocketsNext]_socketVars PROVE Goal
  OBVIOUS
<1>0. WebSockets \in Nat \ {0} /\ \A s \in Sock : s \in 0 .. WebSockets /\ s + 1 \in 0 .. WebSockets
  BY ServiceServes DEF Sock
<1> USE ServiceServes DEF SocketsInv, SocketsTypeOK, LooksAtSocket, MovesTo
<1>1. ASSUME NEW s \in Sock, ClientStep(s) PROVE Goal
  <2>1. PICK new \in {"open", "asked", "left", "closed"} : status' = [status EXCEPT ![s] = new]
    BY <1>1 DEF ClientStep
  <2>2. visit' \in [Sock -> {0, 1}]
    BY <1>1 DEF ClientStep
  <2> QED BY <1>1, <2>1, <2>2 DEF ClientStep
<1>2. ASSUME NEW t \in Thread, EntersServer(t) PROVE Goal
  <2>1. 0 \in 0 .. WebSockets
    BY <1>0
  <2>2. looked' \in [Thread -> 0 .. WebSockets] /\ mark' \in [Thread -> Sock \union {NoSock}]
    BY <1>2, <2>1 DEF EntersServer
  <2>3. \A u \in Thread \ {t} : web'[u] = web[u] /\ looked'[u] = looked[u]
    BY <1>2 DEF EntersServer
  <2>4. web'[t] = "look"
    BY <1>2 DEF EntersServer
  <2>5. LooksAtSocket'
    BY <2>3, <2>4
  <2> QED BY <1>2, <2>2, <2>5 DEF EntersServer
<1>12. ASSUME NEW t \in Thread, LeavesServer(t) \/ Parts(t) PROVE Goal
  BY <1>12 DEF LeavesServer, Parts
<1>11. ASSUME NEW t \in Thread, Passes(t) PROVE Goal
  BY <1>0, <1>11 DEF Passes, Sock
<1>3. ASSUME NEW t \in Thread, Chooses(t) PROVE Goal
  BY <1>3 DEF Chooses, Sock
<1>4. ASSUME NEW t \in Thread, Accepts(t) PROVE Goal
  <2>1. looked[t] \in Sock /\ [sock |-> looked[t], visit |-> visit[looked[t]]] \in Clients
    BY <1>4 DEF Accepts, Clients
  <2>2. client' \in [Thread -> Clients] /\ mark' \in [Thread -> Sock \union {NoSock}]
    BY <1>4, <2>1 DEF Accepts
  <2>3. looked' \in [Thread -> 0 .. WebSockets]
    BY <1>0, <1>4, <2>1 DEF Accepts
  <2>4. LooksAtSocket'
    BY <1>4, <2>1 DEF Accepts
  <2> QED BY <1>4, <2>1, <2>2, <2>3, <2>4 DEF Accepts
<1>5. ASSUME NEW t \in Thread, Resumes(t) \/ ResumesBare(t) PROVE Goal
  BY <1>5 DEF Resumes, ResumesBare
<1>6. ASSUME NEW t \in Thread, StopsClient(t) PROVE Goal
  BY <1>0, <1>6 DEF StopsClient, Clients
<1>7. ASSUME NEW t \in Thread, ResetsByCommand(t) PROVE Goal
  BY <1>7 DEF ResetsByCommand, Listening, AllClosed, Restarted
<1>8. CASE checkSockStatus \/ Unlocks
  BY <1>8 DEF checkSockStatus, Unlocks
<1>9. CASE ResetsChip \/ FindsNoLink \/ Unmarks \/ BeginsWeb
  BY <1>9 DEF ResetsChip, FindsNoLink, Unmarks, BeginsWeb, Listening, AllClosed, Restarted
<1>10. CASE UNCHANGED socketVars
  BY <1>10 DEF socketVars
<1> QED BY <1>1, <1>2, <1>3, <1>4, <1>5, <1>6, <1>7, <1>8, <1>9, <1>10, <1>11, <1>12
   DEF SocketsNext

\* Until the first muddle each step keeps the sockets apart.
LEMMA SocketsKept ==
  SocketsInv /\ [SocketsNext]_socketVars =>
    (muddle' = {} => ChosenAlone' /\ ServedMarked' /\ ServedAlone')
<1> DEFINE Goal == ChosenAlone' /\ ServedMarked' /\ ServedAlone'
<1> SUFFICES ASSUME SocketsInv, [SocketsNext]_socketVars, muddle' = {} PROVE Goal
  OBVIOUS
<1> USE DEF SocketsTypeOK, ChosenAlone, ServedMarked, ServedAlone, Busy, MovesTo
<1>0. SocketsTypeOK /\ LooksAtSocket /\ NoSock \notin Sock
  BY ServiceServes DEF SocketsInv, Sock, NoSock
<1>1. muddle = {} => ChosenAlone /\ ServedMarked /\ ServedAlone
  BY DEF SocketsInv
<1>2. ASSUME NEW s \in Sock, ClientStep(s) PROVE Goal
  \* Only a socket that listens gets a new client, and none that is served listens.
  <2>1. ChosenAlone /\ ServedMarked /\ ServedAlone
    BY <1>1, <1>2 DEF ClientStep
  <2>2. \A r \in Sock : status[r] # "listen" => status'[r] # "listen" /\ visit'[r] = visit[r]
    BY <1>0, <1>2 DEF ClientStep
  <2> QED BY <1>2, <2>1, <2>2 DEF ClientStep
<1>3. ASSUME NEW t \in Thread, EntersServer(t) PROVE Goal
  <2>1. web[t] = "out" /\ web'[t] = "look" /\ mark'[t] = NoSock /\ muddle = {}
    BY <1>0, <1>3 DEF EntersServer
  <2>2. \A u \in Thread \ {t} : web'[u] = web[u] /\ looked'[u] = looked[u] /\ mark'[u] = mark[u]
    BY <1>0, <1>3 DEF EntersServer
  <2>3. ChosenAlone'
    BY <1>0, <1>1, <2>1, <2>2 DEF LooksAtSocket
  <2>4. Busy' = Busy /\ t \notin Busy
    BY <2>1, <2>2
  <2> QED BY <1>1, <1>3, <2>1, <2>2, <2>3, <2>4 DEF EntersServer
<1>4. ASSUME NEW t \in Thread, Passes(t) PROVE Goal
  BY <1>0, <1>1, <1>4 DEF Passes
<1>5. ASSUME NEW t \in Thread, Chooses(t) PROVE Goal
  <2>1. muddle = {} /\ \A u \in Thread : web[u] = "accept" => looked[u] # looked[t]
    BY <1>5 DEF Chooses
  <2>2. \A u \in Thread : mark[u] # looked[t]
    BY <1>5 DEF Chooses, Claimed
  <2> QED BY <1>0, <1>1, <1>5, <2>1, <2>2 DEF Chooses
<1>6. ASSUME NEW t \in Thread, Accepts(t) PROVE Goal
  <2>1. ChosenAlone /\ ServedMarked /\ ServedAlone
    BY <1>1, <1>6 DEF Accepts
  <2>2. /\ looked[t] \in Sock /\ t \notin Busy
        /\ \A u \in Busy : client[u].sock # looked[t]
    BY <1>0, <1>6, <2>1 DEF Accepts, LooksAtSocket
  <2>3. CASE status[looked[t]] = "asked"
    BY <1>0, <1>6, <2>1, <2>2, <2>3 DEF Accepts
  <2>4. CASE status[looked[t]] # "asked"
    BY <1>0, <1>6, <2>1, <2>2, <2>4 DEF Accepts
  <2> QED BY <2>3, <2>4
<1>7. ASSUME NEW t \in Thread, LeavesServer(t) \/ Parts(t) PROVE Goal
  BY <1>0, <1>1, <1>7 DEF LeavesServer, Parts
<1>8. ASSUME NEW t \in Thread, Resumes(t) \/ ResumesBare(t) PROVE Goal
  BY <1>0, <1>1, <1>8 DEF Resumes, ResumesBare
<1>9. ASSUME NEW t \in Thread, StopsClient(t) PROVE Goal
  <2>1. ChosenAlone /\ ServedMarked /\ ServedAlone /\ t \in Busy
    BY <1>1, <1>9 DEF StopsClient
  <2>2. web'[t] = "look" /\ mark'[t] = NoSock
    BY <1>0, <1>9 DEF StopsClient
  <2>3. \A u \in Thread \ {t} : /\ web'[u] = web[u] /\ looked'[u] = looked[u]
                              /\ mark'[u] = mark[u] /\ client'[u] = client[u]
    BY <1>0, <1>9 DEF StopsClient
  <2>4. ChosenAlone'
    BY <1>0, <2>1, <2>2, <2>3 DEF LooksAtSocket
  <2>5. Busy' = Busy \ {t}
    BY <2>2, <2>3
  <2>6. \A s \in Sock : status'[s] \in {status[s], "closed"}
    BY <1>0, <1>9 DEF StopsClient
  <2>7. ServedMarked' /\ ServedAlone'
    BY <1>9, <2>1, <2>3, <2>5, <2>6 DEF StopsClient
  <2> QED BY <2>4, <2>7
<1>10. ASSUME NEW t \in Thread, ResetsByCommand(t) PROVE Goal
  \* The thread itself is one that serves.
  <2>1. t \in Busy /\ muddle = {} /\ status' = AllClosed /\ UNCHANGED <<mark, muddle>>
    BY <1>10 DEF ResetsByCommand, Restarted
  <2> QED BY <1>0, <1>1, <1>10, <2>1 DEF ResetsByCommand, AllClosed
<1>11. CASE checkSockStatus \/ Unlocks
  BY <1>0, <1>1, <1>11 DEF checkSockStatus, Unlocks
<1>12. CASE ResetsChip \/ FindsNoLink
  BY <1>0, <1>1, <1>12, ServiceServes DEF ResetsChip, FindsNoLink, AllClosed
<1>13. CASE Unmarks \/ BeginsWeb
  <2>1. Busy = {} /\ muddle = {} /\ Busy' = {}
    BY <1>0, <1>13 DEF Unmarks, BeginsWeb, Restarted
  <2>2. \A t \in Thread : mark'[t] \in {mark[t], NoSock}
    BY <1>0, <1>13 DEF Unmarks, BeginsWeb
  <2> QED BY <1>0, <1>1, <1>13, <2>1, <2>2, ServiceServes DEF Unmarks, BeginsWeb, LooksAtSocket
<1>14. CASE UNCHANGED socketVars
  BY <1>1, <1>14 DEF socketVars
<1> QED BY <1>2, <1>3, <1>4, <1>5, <1>6, <1>7, <1>8, <1>9, <1>10, <1>11, <1>12, <1>13, <1>14
   DEF SocketsNext

\* No two threads serve one socket and no client gets what is for another, for any
\* number of threads and sockets, until two threads look at one socket together or
\* the chip is restarted under one that serves.
THEOREM SocketsAreServedAlone == SocketsSpec => []ServedAlone
<1>1. SocketsInv /\ [SocketsNext]_socketVars => SocketsInv'
  BY SocketsTypes, SocketsKept DEF SocketsInv
<1>2. SocketsInv => ServedAlone
  BY DEF SocketsInv, ServedAlone
<1> QED BY SocketsStart, <1>1, <1>2, PTL DEF SocketsSpec
-----------------------------------------------------------------------------
(* Notices *)

\* The sender sends only what waits, and has read the text when it comes to the end.
NoticesInv ==
  /\ NoticeIsSent
  /\ sender = "end" => owed = NoText \/ late

LEMMA NoticesStep == NoticesInv /\ [NoticesNext]_noticeVars => NoticesInv'
<1> SUFFICES ASSUME NoticesInv, [NoticesNext]_noticeVars PROVE NoticesInv'
  OBVIOUS
<1> USE DEF NoticesInv, NoticeIsSent
<1>1. ASSUME NEW t \in Notifier, SetsText(t) PROVE NoticesInv'
  BY <1>1 DEF SetsText
<1>2. CASE SendsText
  BY <1>2 DEF SendsText
<1>3. CASE SendEnds
  BY <1>3 DEF SendEnds
<1>4. ASSUME NEW t \in Notifier, NEW text \in Text \union {LifeSign},
             Refuses(t, text) \/ SetsType(t, text)
      PROVE  NoticesInv'
  BY <1>4 DEF Refuses, SetsType, noticeVars
<1>5. CASE TimePasses \/ NotYet \/ SendBegins \/ UNCHANGED noticeVars
  BY <1>5 DEF TimePasses, NotYet, Early, SendBegins, noticeVars
<1> QED BY <1>1, <1>2, <1>3, <1>4, <1>5 DEF NoticesNext

\* No notice that was taken is lost, for any tasks and texts, but one that comes
\* between the reading of the text and the end of the sending.
THEOREM NoticesAreSent == NoticesSpec => []NoticeIsSent
<1>1. NoticesInit => NoticesInv
  BY DEF NoticesInit, NoticesInv, NoticeIsSent
<1>2. NoticesInv => NoticeIsSent
  BY DEF NoticesInv
<1> QED BY <1>1, <1>2, NoticesStep, PTL DEF NoticesSpec
=============================================================================
