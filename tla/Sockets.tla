------------------------------ MODULE Sockets ------------------------------
(***************************************************************************)
(* The sockets of the network chip and the threads of the web server.  A   *)
(* thread looks at one socket after the other, passes those that another   *)
(* thread has marked as its own, and answers a request that it finds; it   *)
(* opens the chip's semaphore to the others between two packets.  vWeb0    *)
(* closes sockets that hang and restarts the chip when a ping fails.       *)
(***************************************************************************)
EXTENDS Integers, FiniteSets

CONSTANTS Thread,       \* the threads of the web server
          Service,      \* vWeb0, that of them which looks after the chip
          WebSockets    \* W5200_SOCK_SYS: sockets 0 .. WebSockets-1 are the server's

ASSUME ServiceServes == Service \in Thread /\ WebSockets \in Nat \ {0}

Sock == 0 .. WebSockets - 1
NoSock == -1

VARIABLES
  status,       \* the chip's: closed, listen, open, asked (open with a request), left by its client
  visit,        \* per socket: even or odd number of connections so far
  spiFree,      \* xWebThreadSemaphore
  web,          \* per thread: its place in web_server; of Service also in a restart of the chip
  looked,       \* per thread: the loop's sock
  mark,         \* per thread: Socket[thread].sock
  abort,        \* threads with fABORT_SOCK
  client,       \* per thread: Socket[thread].client, with the connection that asked
  muddle        \* history: the reasons for which two may meet on a socket

socketVars == <<status, visit, spiFree, web, looked, mark, abort, client, muddle>>

NoClient == [sock |-> NoSock, visit |-> 0]
Clients == [sock : Sock, visit : {0, 1}] \union {NoClient}

SocketsTypeOK ==
  /\ status \in [Sock -> {"closed", "listen", "open", "asked", "left"}]
  /\ visit \in [Sock -> {0, 1}] /\ spiFree \in BOOLEAN
  /\ web \in [Thread -> {"out", "look", "accept", "serve", "apart", "stop", "unmark", "begin"}]
  /\ looked \in [Thread -> 0 .. WebSockets]
  /\ mark \in [Thread -> Sock \union {NoSock}] /\ abort \subseteq Thread
  /\ client \in [Thread -> Clients] /\ muddle \subseteq {"crowd", "restart"}

SocketsInit ==
  /\ status = [s \in Sock |-> IF s = 0 THEN "listen" ELSE "closed"]
  /\ visit = [s \in Sock |-> 0] /\ spiFree = TRUE
  /\ web = [t \in Thread |-> "out"] /\ looked = [t \in Thread |-> 0]
  /\ mark = [t \in Thread |-> NoSock] /\ abort = {}
  /\ client = [t \in Thread |-> NoClient] /\ muddle = {}

MovesTo(t, place) == web' = [web EXCEPT ![t] = place]
Busy == {t \in Thread : web[t] \in {"serve", "apart", "stop"}}
-----------------------------------------------------------------------------
\* The clients, and the chip that answers for them.
ClientStep(s) ==
  /\ \/ /\ status[s] = "listen"
        /\ status' = [status EXCEPT ![s] = "open"]
        /\ visit' = [visit EXCEPT ![s] = 1 - @]
     \/ /\ status[s] = "open"
        /\ \E new \in {"asked", "left", "closed"} : status' = [status EXCEPT ![s] = new]
        /\ UNCHANGED visit
     \/ /\ status[s] \in {"asked", "left"}
        /\ status' = [status EXCEPT ![s] = "closed"]
        /\ UNCHANGED visit
  /\ UNCHANGED <<spiFree, web, looked, mark, abort, client, muddle>>

\* web_server begins; without the semaphore it returns at once.
EntersServer(t) ==
  /\ web[t] = "out" /\ spiFree
  /\ spiFree' = FALSE /\ MovesTo(t, "look")
  /\ mark' = [mark EXCEPT ![t] = NoSock]
  /\ looked' = [looked EXCEPT ![t] = 0]
  /\ UNCHANGED <<status, visit, abort, client, muddle>>

BrokenClaimed(s) == \E u \in Thread \ {Service} : mark[u] = s

\* The test that goes before a socket is touched.
Claimed(s) == \E u \in Thread : mark[u] = s

Passes(t) ==
  /\ web[t] = "look" /\ looked[t] < WebSockets /\ Claimed(looked[t])
  /\ looked' = [looked EXCEPT ![t] = @ + 1]
  /\ UNCHANGED <<status, visit, spiFree, web, mark, abort, client, muddle>>

\* The socket has no mark.  Two threads look together only when one of them
\* goes on without the semaphore.
Chooses(t) ==
  /\ web[t] = "look" /\ looked[t] < WebSockets /\ ~Claimed(looked[t])
  /\ MovesTo(t, "accept") /\ abort' = abort \ {t}
  /\ muddle' = IF \E u \in Thread : web[u] = "accept" /\ looked[u] = looked[t]
               THEN muddle \union {"crowd"} ELSE muddle
  /\ UNCHANGED <<status, visit, spiFree, looked, mark, client>>

\* available_: a socket that is closed, or was left, listens again; one with a
\* request becomes the thread's client.  The mark is set for each of them.
Accepts(t) ==
  LET s == looked[t] IN
  /\ web[t] = "accept"
  /\ mark' = [mark EXCEPT ![t] = s]
  /\ IF status[s] = "asked"
       THEN /\ client' = [client EXCEPT ![t] = [sock |-> s, visit |-> visit[s]]]
            /\ status' = [status EXCEPT ![s] = "open"]
            /\ MovesTo(t, "serve") /\ UNCHANGED looked
       ELSE /\ status' = [status EXCEPT ![s] = IF @ \in {"closed", "left"} THEN "listen" ELSE @]
            /\ looked' = [looked EXCEPT ![t] = s + 1]
            /\ MovesTo(t, "look") /\ UNCHANGED client
  /\ UNCHANGED <<visit, spiFree, abort, muddle>>

\* After the last socket the semaphore is given, and the last mark remains.
LeavesServer(t) ==
  /\ web[t] = "look" /\ looked[t] = WebSockets
  /\ spiFree' = TRUE /\ MovesTo(t, "out")
  /\ UNCHANGED <<status, visit, looked, mark, abort, client, muddle>>

\* sendPacketRTOS lets others in before a packet.
Parts(t) ==
  /\ web[t] = "serve"
  /\ spiFree' = TRUE /\ MovesTo(t, "apart")
  /\ UNCHANGED <<status, visit, looked, mark, abort, client, muddle>>

\* The packet is sent, or the connection is gone.  A restart of the chip is
\* noticed once.
Resumes(t) ==
  /\ web[t] = "apart" /\ spiFree
  /\ spiFree' = FALSE
  /\ \/ t \notin abort /\ MovesTo(t, "serve")
     \/ MovesTo(t, "stop")
  /\ abort' = abort \ {t}
  /\ UNCHANGED <<status, visit, looked, mark, client, muddle>>

\* The semaphore is not to be had: nothing is sent, and the thread goes on
\* without it.
ResumesBare(t) ==
  /\ web[t] = "apart" /\ ~spiFree
  /\ MovesTo(t, "stop")
  /\ UNCHANGED <<status, visit, spiFree, looked, mark, abort, client, muddle>>

\* client.stop(), whoever has the socket by now; the next socket.
StopsClient(t) ==
  /\ web[t] \in {"serve", "stop"}
  /\ status' = [status EXCEPT ![client[t].sock] = "closed"]
  /\ mark' = [mark EXCEPT ![t] = NoSock] /\ client' = [client EXCEPT ![t] = NoClient]
  /\ looked' = [looked EXCEPT ![t] = @ + 1] /\ MovesTo(t, "look")
  /\ UNCHANGED <<visit, spiFree, abort, muddle>>
-----------------------------------------------------------------------------
\* checkSockStatus of vWeb0: connections without a mark that are, by a time stamp
\* that is not renewed while there is a mark, older than allowed.  (So it does with
\* the socket that is not the server's, which no thread marks.)
checkSockStatus ==
  /\ web[Service] = "out" /\ spiFree
  /\ \E frozen \in SUBSET {s \in Sock : ~Claimed(s) /\ status[s] \in {"open", "asked", "left"}} :
       /\ frozen # {}
       /\ status' = [s \in Sock |-> IF s \in frozen THEN "closed" ELSE status[s]]
  /\ UNCHANGED <<visit, spiFree, web, looked, mark, abort, client, muddle>>

\* vWeb0 has waited nine seconds for the semaphore.
Unlocks ==
  /\ web[Service] = "out" /\ ~spiFree
  /\ spiFree' = TRUE
  /\ UNCHANGED <<status, visit, web, looked, mark, abort, client, muddle>>

AllClosed == [s \in Sock |-> "closed"]
Listening == [s \in Sock |-> IF s = 0 THEN "listen" ELSE "closed"]

\* A restart does not stop for those who serve.
Restarted == IF Busy = {} THEN muddle ELSE muddle \union {"restart"}

\* initW5200 of pingServer, after it has given the semaphore: the chip's reset.
ResetsChip ==
  /\ web[Service] = "out"
  /\ status' = AllClosed /\ MovesTo(Service, "unmark")
  /\ UNCHANGED <<visit, spiFree, looked, mark, abort, client, muddle>>

\* No link: the marks stay, and pingServer still breaks off all sending.
FindsNoLink ==
  /\ web[Service] = "unmark"
  /\ MovesTo(Service, "out") /\ abort' = Thread
  /\ UNCHANGED <<status, visit, spiFree, looked, mark, client, muddle>>

Unmarks ==
  /\ web[Service] = "unmark"
  /\ mark' = [t \in Thread |-> NoSock] /\ abort' = {} /\ muddle' = Restarted
  /\ MovesTo(Service, "begin")
  /\ UNCHANGED <<status, visit, spiFree, looked, client>>

\* Ethernet.begin resets the chip once more, beginWeb opens the first socket.
BeginsWeb ==
  /\ web[Service] = "begin"
  /\ status' = Listening /\ abort' = Thread /\ muddle' = Restarted
  /\ MovesTo(Service, "out")
  /\ UNCHANGED <<visit, spiFree, looked, mark, client>>

\* The command of the browser does the same in the middle of its own request.
ResetsByCommand(t) ==
  /\ web[t] = "serve" /\ abort' = Thread
  /\ \/ /\ status' = Listening /\ mark' = [u \in Thread |-> NoSock]
        /\ muddle' = Restarted
     \/ status' = AllClosed /\ UNCHANGED <<mark, muddle>>
  /\ UNCHANGED <<visit, spiFree, web, looked, client>>

SocketsNext ==
  \/ \E s \in Sock : ClientStep(s)
  \/ \E t \in Thread :
       \/ EntersServer(t) \/ Passes(t) \/ Chooses(t) \/ Accepts(t) \/ LeavesServer(t)
       \/ Parts(t) \/ Resumes(t) \/ ResumesBare(t) \/ StopsClient(t) \/ ResetsByCommand(t)
  \/ checkSockStatus \/ Unlocks
  \/ ResetsChip \/ FindsNoLink \/ Unmarks \/ BeginsWeb

SocketsSpec == SocketsInit /\ [][SocketsNext]_socketVars
-----------------------------------------------------------------------------
\* Two threads never serve one socket, and no new client comes to a socket on
\* which an old one is still served, so that a part of an answer could go to him:
\* also when threads go on without the semaphore, vWeb0 gives it away and hanging
\* sockets are closed, as long as no two looked at the socket together and the
\* chip was not restarted under a thread that serves.
ServedAlone ==
  muddle = {} =>
    \A t \in Busy :
      /\ visit[client[t].sock] = client[t].visit
      /\ \A u \in Busy \ {t} : client[u].sock # client[t].sock
=============================================================================
