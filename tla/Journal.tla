------------------------------ MODULE Journal ------------------------------
(***************************************************************************)
(* The journal: a ring of Size bytes in the I2C EEPROM, filled by _write   *)
(* from the one line buffer pbuf, served by send_Data and found again by   *)
(* Init from two marks kept among its bytes, HEAD and TAIL.  A byte of     *)
(* text is the number of its line.  The chip is written page by page, and  *)
(* the writing task sleeps after each: other tasks run, and the power may  *)
(* fail, between two pages.                                                *)
(***************************************************************************)
EXTENDS Integers, Sequences, SequencesExt, FiniteSetsExt

CONSTANTS
  Size,         \* JOURNAL_LEN
  Page,         \* the EEPROM's page
  Packet,       \* W5200_MAX_LEN, by which the journal is read
  Writer,       \* the tasks that print
  Length,       \* lengths of their lines
  ServiceLength,\* and of the lines that Init and a timeout print
  Numbers       \* lines are numbered modulo this

ASSUME Geometry == /\ {Size, Page, Packet} \subseteq Nat \ {0}
                   /\ Size % Packet = 0
ASSUME NumbersPositive == Numbers \in Nat \ {0}
ASSUME ShortLines == Length \union {ServiceLength} \subseteq 1 .. Size - 2
\* PRINTF_BUF is less than W5200_MAX_LEN.
ASSUME LinesFitPacket == Length \union {ServiceLength} \subseteq 1 .. Packet
ASSUME WritersAreTasks == Writer \intersect {"none", "others"} = {}

\* The bytes that are no text; the text's are numbers of lines.
HEAD == -1
TAIL == -2
ZERO == -3
READY == -4
BLANK == -5

VARIABLES
  cells,        \* the ring; cells[-1] is the last byte of the READY mark
  pbuf, head, tail, full,
  holder,       \* of xI2CSemaphore
  job,          \* per task: how far its jprintf is
  line,         \* number of the next line
  recent,       \* history: the last Size bytes written, oldest first
  spoiled       \* history: what has happened that the journal is not made for

journalVars == <<cells, pbuf, head, tail, full, holder, job, line, recent, spoiled>>

\* "setup" runs Init before the other tasks are started.
Printer == Writer \union {"setup"}
Address == -1 .. Size - 1
Off == [at |-> "off", id |-> 0, num |-> 0, pos |-> 0, from |-> 0, left |-> 0,
        part |-> "only"]
Idle == [Off EXCEPT !.at = "idle"]
BufferEnd == Max(Length \union {ServiceLength}) + 1
EmptyBuffer == [i \in 0 .. BufferEnd |-> ZERO]

JournalInit ==
  /\ cells = [a \in Address |-> BLANK]
  /\ pbuf = EmptyBuffer
  /\ head = 0 /\ tail = 0 /\ full = FALSE
  /\ holder = "none" /\ job = [t \in Printer |-> Off]
  /\ line = 0 /\ recent = <<>> /\ spoiled = {}
-----------------------------------------------------------------------------
(* Init *)

Blocks == 0 .. (Size \div Packet) - 1
Marked(m, b) == {a \in b * Packet .. (b + 1) * Packet - 1 : cells[a] = m}

\* The blocks are read until both marks have been met, and a later block's
\* mark replaces an earlier one's.
Looked == {b \in Blocks : \E m \in {HEAD, TAIL} : \A c \in 0 .. b - 1 : Marked(m, c) = {}}
Found(m) == LET with == {b \in Looked : Marked(m, b) # {}}
            IN IF with = {} THEN -1 ELSE Min(Marked(m, Max(with)))

Formats(t, n, buf) ==
  /\ pbuf' = [i \in 0 .. BufferEnd |-> CASE i < n -> line [] i = n -> ZERO [] OTHER -> buf[i]]
  /\ line' = (line + 1) % Numbers

Waits(n) == [Off EXCEPT !.at = "take", !.id = line, !.num = n]

\* The program starts, the first time or after a power failure at any point,
\* looks for the journal or formats it, and prints a line about that.
Start ==
  /\ IF cells[-1] = READY
     THEN /\ head' = Found(HEAD) /\ tail' = Found(TAIL) /\ full' = (tail' < head')
          /\ UNCHANGED cells
     ELSE /\ cells' = [cells EXCEPT ![0] = HEAD, ![1] = TAIL, ![-1] = READY]
          /\ head' = 0 /\ tail' = 1 /\ full' = FALSE
  /\ Formats("setup", ServiceLength, EmptyBuffer)
  /\ job' = [t \in Printer |-> IF t = "setup" THEN Waits(ServiceLength) ELSE Idle]
  /\ holder' = "none"
  /\ spoiled' = spoiled \union {"cut" : t \in {u \in Printer : job[u].at = "write" /\ job[u].from > 0}}
  /\ UNCHANGED recent
-----------------------------------------------------------------------------
(* jprintf and _write *)

Moves(t, j) == job' = [job EXCEPT ![t] = j]

\* m_vsnprintf into pbuf, and strlen, before any semaphore is taken.
Prints(t, n) ==
  /\ Formats(t, n, pbuf)
  /\ Moves(t, Waits(n))
  /\ spoiled' = spoiled \union
       {"overlap" : u \in {u \in Printer \ {t} : job[u].at \in {"take", "write"}}}
  /\ UNCHANGED <<cells, head, tail, full, holder, recent>>

Jprintf(t) == /\ job[t].at = "idle" /\ job["setup"].at = "idle"
            /\ \E n \in Length : Prints(t, n)

\* A line that has waited too long is given up for one about the waiting.
TimesOut(t) == /\ job[t].at = "take" /\ holder # "none"
               /\ Prints(t, ServiceLength)

Wraps(n) == tail + n + 2 > Size

BrokenMarked(n) == [pbuf EXCEPT ![n] = TAIL]
WithMarks(n) == [pbuf EXCEPT ![n] = TAIL, ![n + 1] = IF full THEN HEAD ELSE pbuf[n + 1]]

\* A line that ends on the ring's last byte leaves -1 bytes for the second
\* write, and -1 becomes the tail.
Take(t) ==
  LET n == job[t].num IN
  /\ job[t].at = "take" /\ holder = "none"
  /\ holder' = t
  /\ pbuf' = WithMarks(n)
  /\ Moves(t, [job[t] EXCEPT !.at = "write", !.pos = tail, !.from = 0,
                !.part = IF Wraps(n) THEN "first" ELSE "only",
                !.left = IF Wraps(n) THEN Size - tail ELSE n + 1 + (IF full THEN 1 ELSE 0)])
  /\ spoiled' = spoiled \union {"slip" : x \in {y \in {tail + n + 1} : y = Size}}
  /\ UNCHANGED <<cells, head, tail, full, line, recent>>

TextOf(j) == [i \in 1 .. j.num |-> j.id]
LastOf(s) == SubSeq(s, Max({1, Len(s) - Size + 1}), Len(s))

\* One page of extEEPROM::write, and at the end of the first part the switch
\* to the second.
WritePage(t) ==
  LET j == job[t]
      n == Min({j.left, Page - (j.pos % Page)})
      next == [j EXCEPT !.pos = j.pos + n, !.from = j.from + n, !.left = j.left - n]
      done == j.left = n
  IN /\ j.at = "write"
     /\ cells' = [a \in Address |-> IF a \in j.pos .. j.pos + n - 1
                                    THEN pbuf[j.from + a - j.pos] ELSE cells[a]]
     /\ Moves(t, IF ~done THEN next
                ELSE IF j.part = "first"
                THEN [next EXCEPT !.part = "second", !.pos = 0, !.left = j.num - next.from + 2]
                ELSE [next EXCEPT !.at = "end"])
     /\ full' = (full \/ (done /\ j.part = "first"))
     /\ recent' = IF done /\ j.part # "first" THEN LastOf(recent \o TextOf(j)) ELSE recent
     /\ UNCHANGED <<pbuf, head, tail, holder, line, spoiled>>

\* The I2C bus reports an error: the line is given up where it is.
WriteGivenUp(t) ==
  /\ job[t].at = "write"
  /\ holder' = "none" /\ Moves(t, Idle)
  /\ spoiled' = spoiled \union {"failed"}
  /\ UNCHANGED <<cells, pbuf, head, tail, full, line, recent>>

BrokenHeadAfter(end) == IF full /\ end < tail THEN end + 1 ELSE head
HeadAfter(end) == IF full THEN end + 1 ELSE head

WriteEnds(t) ==
  LET j == job[t] IN
  /\ j.at = "end"
  /\ tail' = IF j.part = "second" THEN j.num - (Size - tail) ELSE tail + j.num
  /\ head' = HeadAfter(tail')
  /\ holder' = "none" /\ Moves(t, Idle)
  /\ UNCHANGED <<cells, pbuf, full, line, recent, spoiled>>

\* Settings and counters use the same chip and semaphore.
OthersUseChip ==
  /\ job["setup"].at = "idle"
  /\ \/ holder = "none" /\ holder' = "others"
     \/ holder = "others" /\ holder' = "none"
  /\ UNCHANGED <<cells, pbuf, head, tail, full, job, line, recent, spoiled>>

JournalNext ==
  \/ Start \/ OthersUseChip
  \/ \E t \in Printer : \/ TimesOut(t) \/ Take(t) \/ WritePage(t) \/ WriteGivenUp(t) \/ WriteEnds(t)
  \/ \E t \in Writer : Jprintf(t)

JournalSpec == JournalInit /\ [][JournalNext]_journalVars
-----------------------------------------------------------------------------
(* send_Data *)

Available == IF full THEN Size - 2 ELSE tail - 1

PacketAt(num) == Min({Packet, IF num > tail THEN Size - num ELSE tail - num})

\* What the client has got after p packets; an empty packet ends the sending.
Sending[p \in 0 .. Size \div Packet + 1] ==
  IF p = 0 THEN [num |-> head + 1, out |-> <<>>, over |-> FALSE]
  ELSE LET s == Sending[p - 1]
           n == PacketAt(s.num)
           out == s.out \o [i \in 1 .. n |-> cells[s.num + i - 1]]
       IN IF s.over THEN s
          ELSE [num |-> IF s.num + n >= Size THEN 0 ELSE s.num + n, out |-> out,
                over |-> n = 0 \/ Len(out) >= Available]
Sent == Sending[Size \div Packet + 1].out
-----------------------------------------------------------------------------
AtRest == /\ job["setup"].at # "off"
          /\ \A t \in Printer : job[t].at \notin {"write", "end"}

\* Served from the ring at any quiet moment, after any wraps and restarts, the
\* journal is the last bytes written, in order, with none of the marks, and as
\* many of them as available() promises.  (With the head on the ring's last
\* byte send_Data serves nothing, and after a restart that found no HEAD it may
\* stop a byte short.)
ReadsBack == AtRest /\ spoiled = {} /\ head \in 0 .. Size - 2 =>
  LET s == Sent
  IN IsSuffix(s, recent) /\ Len(s) >= Available

\* A restart would find the tail where the program has it, and the head too,
\* except after the first wrap of the ring, which writes no HEAD mark.
MarksFound == AtRest /\ spoiled = {} =>
  /\ Found(TAIL) = tail
  /\ Found(HEAD) = IF cells[head] = HEAD THEN head ELSE -1
=============================================================================
