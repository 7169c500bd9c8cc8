---------------------------- MODULE JournalProofs ----------------------------
(***************************************************************************)
(* The journal is found again, for a ring, pages and packets of any size,  *)
(* any lines and any writers.  Between two lines the chip has the marks at *)
(* the tail and the head; in a line, what is written is the line, and what *)
(* is not has no mark but the old ones, which the line is about to cover.  *)
(* And it is read back: the cells before the tail have the last bytes that *)
(* were written, a line leaves what is behind it, and the packets that are *)
(* sent are the whole ring from the head to the tail.                      *)
(***************************************************************************)
EXTENDS Journal, WellFoundedInduction, SequenceTheorems, TLAPS

\* A length of a line.
Lines == Length \union {ServiceLength}

\* The marks of a ring with the tail at tl and, if it has a HEAD mark, the head at hd.  The
\* first wrap may write another TAIL, left in pbuf by a longer line, behind the tail.
MarksAt(tl, hd) ==
  /\ tl \in 0 .. Size - 2 /\ cells[tl] = TAIL
  /\ \A a \in 0 .. Size - 1 : cells[a] = TAIL => a = tl \/ (a = tl + 1 /\ a < Packet)
  /\ \A a \in 0 .. Size - 1 : cells[a] = HEAD => a = hd
  /\ full => hd = tl + 1
  /\ ~full => hd = -1 \/ (hd = 0 /\ tl >= 1 /\ cells[0] = HEAD)

Started == job["setup"].at # "off"

\* The first bytes of the buffer are no marks.
Text(num) == \A i \in 0 .. num - 1 : pbuf[i] \notin {HEAD, TAIL}

\* Of the line that j writes, what the ring has, and where the rest goes.
IsWritten(j, a) ==
  IF j.part = "second" THEN a >= tail \/ a < j.pos ELSE tail <= a /\ a < j.pos
PlaceInLine(a) == IF a >= tail THEN a - tail ELSE a + Size - tail

Writing(j) ==
  /\ tail \in 0 .. Size - 2
  /\ Text(j.num) /\ pbuf[j.num] = TAIL
  /\ j.left >= 1
  /\ full /\ j.part # "second" => head = tail + 1
  /\ head \in {-1, 0, tail + 1}
  /\ ~full => head \in {-1, 0} /\ (head = 0 => tail >= 1)
  /\ j.part = "only" =>
       /\ tail + j.num + 2 <= Size /\ j.pos = tail + j.from
       /\ j.from + j.left = j.num + (IF full THEN 2 ELSE 1)
       /\ full => pbuf[j.num + 1] = HEAD
       /\ head = 0 => cells[0] = HEAD
  /\ j.part = "first" => /\ tail + j.num >= Size /\ j.pos = tail + j.from
                         /\ j.from + j.left = Size - tail
  /\ j.part = "second" => /\ tail + j.num >= Size /\ j.from = Size - tail + j.pos
                          /\ j.from + j.left = j.num + 2 /\ full
  /\ \A a \in 0 .. Size - 1 :
       /\ IsWritten(j, a) => cells[a] = pbuf[PlaceInLine(a)]
       /\ ~IsWritten(j, a) => /\ cells[a] = TAIL => a \in {tail, tail + 1}
                              /\ cells[a] = HEAD => a = head

EndOf(j) == IF j.part = "second" THEN j.num - (Size - tail) ELSE tail + j.num

JobType == [at : {"off", "idle", "take", "write", "end"}, id : Nat, num : Lines \union {0},
            pos : Nat, from : Nat, left : Nat, part : {"only", "first", "second"}]

JournalTypes ==
  /\ cells = [a \in Address |-> cells[a]] /\ pbuf = [i \in 0 .. BufferEnd |-> pbuf[i]]
  /\ full \in BOOLEAN /\ line \in Nat
  /\ job \in [Printer -> JobType]
  /\ ~Started => job = [t \in Printer |-> Off] /\ cells = [a \in Address |-> BLANK]
  /\ Started => cells[-1] = READY

OneWriter ==
  /\ \A t \in Printer : job[t].at \in {"write", "end"} => holder = t
  /\ \A t, u \in Printer :
       job[t].at \in {"take", "write"} /\ job[u].at \in {"take", "write"} => t = u
  /\ \A t \in Printer : job[t].at \in {"take", "write", "end"} => job[t].num \in Lines

MarksAreKnown ==
  /\ \A t \in Printer : job[t].at = "take" => Text(job[t].num)
  /\ \A t \in Printer : job[t].at = "write" => Writing(job[t])
  /\ \A t \in Printer : job[t].at = "end" => MarksAt(EndOf(job[t]), HeadAfter(EndOf(job[t])))
  /\ Started /\ (\A t \in Printer : job[t].at # "end" /\ (job[t].at = "write" => job[t].from = 0))
       => MarksAt(tail, head)

\* A set of numbers up to b has a greatest.
LEMMA Greatest ==
  ASSUME NEW S \in SUBSET Nat, NEW b \in Nat, S # {}, \A x \in S : x <= b
  PROVE  Max(S) \in S /\ \A y \in S : y <= Max(S)
<1> DEFINE D == {b - x : x \in S}
<1>1. D \in SUBSET Nat /\ D # {}
  <2>1. \A x \in S : b - x \in Nat
    OBVIOUS
  <2> QED BY <2>1
<1>2. PICK i \in D : \A j \in D : ~(<<j, i>> \in OpToRel(<, Nat))
  BY <1>1, NatLessThanWellFounded, WFMin
<1>3. \A j \in D : i <= j
  <2> HIDE DEF D
  <2>1. \A j \in D : ~(j < i)
    BY <1>1, <1>2 DEF OpToRel
  <2> QED BY <1>1, <2>1
<1>4. PICK x \in S : i = b - x
  OBVIOUS
<1>5. \A y \in S : x >= y
  BY <1>3, <1>4
<1> QED BY <1>4, <1>5 DEF Max

\* Every line fits the buffer with its marks, the ring, and a packet.
LEMMA LineFitsBuffer ==
  ASSUME NEW n \in Lines
  PROVE  /\ n \in 1 .. Size - 2 /\ n <= Packet
         /\ BufferEnd \in Nat /\ n + 1 \in 0 .. BufferEnd
<1>1. Lines \in SUBSET Nat /\ Lines # {} /\ \A x \in Lines : x <= Size /\ Size \in Nat
  BY ShortLines, Geometry DEF Lines
<1>2. Max(Lines) \in Lines /\ \A y \in Lines : y <= Max(Lines)
  BY <1>1, Greatest
<1> QED BY <1>1, <1>2, ShortLines, LinesFitPacket, Geometry DEF BufferEnd, Lines

\* Every cell is in a block, and in no other.
LEMMA BlockOfCell ==
  ASSUME NEW a \in 0 .. Size - 1
  PROVE  \E b \in Blocks : a \in b * Packet .. (b + 1) * Packet - 1
<1> DEFINE b == a \div Packet
           q == Size \div Packet
<1>1. Packet \in Nat /\ Packet # 0 /\ Size \in Nat /\ a \in Nat /\ a < Size
  BY Geometry
<1>2. b \in Nat /\ Packet * b \in Nat /\ Packet * b <= a /\ a < Packet * b + Packet
  BY <1>1
<1>3. q \in Nat /\ Size = Packet * q
  BY <1>1, Geometry
<1> HIDE DEF b, q
<1>4. (b + 1) * Packet = Packet * b + Packet /\ b * Packet = Packet * b
  BY <1>1, <1>2
<1>5. b < q
  <2>1. ASSUME b >= q PROVE Packet * b >= Packet * q
    <3>1. b - q \in Nat /\ Packet * (b - q) >= 0
      BY <1>1, <1>2, <1>3, <2>1
    <3> QED BY <1>1, <1>2, <1>3, <3>1
  <2> QED BY <1>1, <1>2, <1>3, <2>1
<1>6. b \in Blocks
  BY <1>2, <1>3, <1>5 DEF Blocks, q
<1>7. a \in b * Packet .. (b + 1) * Packet - 1
  BY <1>1, <1>2, <1>4
<1> QED BY <1>6, <1>7

LEMMA BlocksAreApart ==
  ASSUME NEW a \in Int, NEW b \in Nat, NEW c \in Nat,
         a \in b * Packet .. (b + 1) * Packet - 1, a \in c * Packet .. (c + 1) * Packet - 1
  PROVE  b = c
<1>1. Packet \in Nat /\ Packet # 0
  BY Geometry
<1>2. ASSUME NEW x \in Nat, NEW y \in Nat, x < y PROVE (x + 1) * Packet <= y * Packet
  BY <1>1, <1>2
<1>3. /\ b * Packet \in Nat /\ (b + 1) * Packet \in Nat
      /\ c * Packet \in Nat /\ (c + 1) * Packet \in Nat
  BY <1>1
<1>4. ~(b < c)
  BY <1>2, <1>3
<1>5. ~(c < b)
  BY <1>2, <1>3
<1> QED BY <1>4, <1>5

LEMMA BlockIsInRing ==
  ASSUME NEW b \in Blocks, NEW a \in b * Packet .. (b + 1) * Packet - 1
  PROVE  a \in 0 .. Size - 1
<1> DEFINE q == Size \div Packet
<1>1. Packet \in Nat /\ Packet # 0 /\ Size \in Nat
  BY Geometry
<1>2. q \in Nat /\ Size = Packet * q
  BY <1>1, Geometry
<1>3. b \in Nat /\ b + 1 <= q
  BY <1>2 DEF Blocks
<1> HIDE DEF q
<1>4. (b + 1) * Packet <= q * Packet /\ q * Packet = Size /\ b * Packet \in Nat
      /\ (b + 1) * Packet \in Nat
  BY <1>1, <1>2, <1>3
<1> QED BY <1>1, <1>4

\* The search of Init finds a mark that the ring has once, or twice in a row in its
\* first block,
LEMMA FindsMark ==
  ASSUME NEW m \in {HEAD, TAIL}, NEW a \in 0 .. Size - 1, cells[a] = m,
         \A c \in 0 .. Size - 1 : cells[c] = m => c = a \/ (c = a + 1 /\ c < Packet)
  PROVE  Found(m) = a
<1> DEFINE With == {b \in Looked : Marked(m, b) # {}}
<1>0. Packet \in Nat /\ Packet # 0 /\ Size \in Nat /\ a \in Nat
  BY Geometry
<1>1. PICK b \in Blocks : a \in b * Packet .. (b + 1) * Packet - 1
  BY BlockOfCell
<1>2. b \in Nat /\ Blocks \subseteq Nat
  BY DEF Blocks
<1>3. a \in Marked(m, b)
  BY <1>1 DEF Marked
<1>4. ASSUME NEW c \in Blocks, NEW x \in Marked(m, c) PROVE c = b /\ x \in {a, a + 1}
  <2>1. x \in c * Packet .. (c + 1) * Packet - 1 /\ cells[x] = m
    BY DEF Marked
  <2>2. x \in 0 .. Size - 1
    BY <2>1, BlockIsInRing
  <2>3. CASE x = a
    BY <1>0, <1>1, <1>2, <2>1, <2>3, BlocksAreApart
  <2>4. CASE x = a + 1 /\ x < Packet
    <3>1. a \in 0 * Packet .. (0 + 1) * Packet - 1 /\ x \in 0 * Packet .. (0 + 1) * Packet - 1
      BY <1>0, <2>4
    <3>2. b = 0 /\ c = 0
      BY <1>0, <1>1, <1>2, <2>1, <2>2, <3>1, BlocksAreApart
    <3> QED BY <2>4, <3>2
  <2> QED BY <2>1, <2>2, <2>3, <2>4
<1>5. b \in Looked
  <2>1. \A c \in 0 .. b - 1 : c \in Blocks /\ c # b
    <3>1. Size \div Packet \in Nat /\ b <= Size \div Packet - 1
      BY <1>0, <1>1 DEF Blocks
    <3> QED BY <1>2, <3>1 DEF Blocks
  <2>2. \A c \in 0 .. b - 1 : Marked(m, c) = {}
    BY <1>4, <2>1
  <2> QED BY <2>2 DEF Looked
<1>6. With = {b}
  <2>1. Looked \subseteq Blocks
    BY DEF Looked
  <2> QED BY <1>3, <1>4, <1>5, <2>1
<1>7. Max(With) = b
  BY <1>2, <1>6 DEF Max
<1>8. Min(Marked(m, b)) = a
  <2>1. \A x \in Marked(m, b) : a <= x
    BY <1>0, <1>4
  <2>2. \A x \in Marked(m, b) : (\A y \in Marked(m, b) : x <= y) => x = a
    BY <1>0, <1>3, <1>4, <2>1
  <2> QED BY <1>3, <2>1, <2>2 DEF Min
<1>9. With # {}
  BY <1>6
<1> QED BY <1>7, <1>8, <1>9 DEF Found

\* and none if there is none.
LEMMA FindsNone ==
  ASSUME NEW m, \A a \in 0 .. Size - 1 : cells[a] # m
  PROVE  Found(m) = -1
<1>1. \A b \in Looked : Marked(m, b) = {}
  BY BlockIsInRing DEF Looked, Marked
<1> QED BY <1>1 DEF Found

\* The search gives what the marks stand for.
LEMMA MarksTellPlace ==
  ASSUME NEW tl, NEW hd, MarksAt(tl, hd)
  PROVE  /\ Found(TAIL) = tl
         /\ Found(HEAD) = IF cells[hd] = HEAD THEN hd ELSE -1
         /\ hd \in -1 .. Size - 1
<1> USE Geometry
<1>1. tl \in 0 .. Size - 1 /\ cells[tl] = TAIL /\ hd \in -1 .. Size - 1
  BY DEF MarksAt
<1>2. Found(TAIL) = tl
  BY <1>1, FindsMark DEF MarksAt
<1>3. CASE hd \in 0 .. Size - 1 /\ cells[hd] = HEAD
  <2>1. \A c \in 0 .. Size - 1 : cells[c] = HEAD => c = hd
    BY DEF MarksAt
  <2>2. Found(HEAD) = hd
    BY <1>3, <2>1, FindsMark
  <2> QED BY <1>1, <1>2, <1>3, <2>2
<1>4. CASE ~(hd \in 0 .. Size - 1 /\ cells[hd] = HEAD)
  <2>1. \A c \in 0 .. Size - 1 : cells[c] # HEAD
    BY <1>4 DEF MarksAt
  <2>2. Found(HEAD) = -1
    BY <2>1, FindsNone
  <2> QED BY <1>1, <1>2, <1>4, <2>2
<1> QED BY <1>3, <1>4

\* All of it.
JournalWhole == JournalTypes /\ OneWriter /\ MarksAreKnown

LEMMA NobodyIsNobody == "none" \notin Printer /\ "others" \notin Printer
BY WritersAreTasks DEF Printer

\* What the next start would find, unless a write is under way.
LEMMA MarksBetweenWrites ==
  ASSUME JournalWhole, Started,
         \A t \in Printer : job[t].at = "write" => job[t].from = 0
  PROVE  \E tl, hd : MarksAt(tl, hd)
<1>1. CASE \E t \in Printer : job[t].at = "end"
  BY <1>1 DEF JournalWhole, MarksAreKnown
<1>2. CASE \A t \in Printer : job[t].at # "end"
  BY <1>2 DEF JournalWhole, MarksAreKnown
<1> QED BY <1>1, <1>2

LEMMA JournalBegins == JournalInit => JournalWhole
<1> SUFFICES ASSUME JournalInit PROVE JournalWhole
  OBVIOUS
<1>1. Off \in JobType /\ Off.at = "off"
  BY DEF Off, JobType
<1>2. job = [t \in Printer |-> Off] /\ "setup" \in Printer
  BY DEF JournalInit, Printer
<1>3. ~Started
  BY <1>1, <1>2 DEF Started
<1>4. JournalTypes
  BY <1>1, <1>2, <1>3 DEF JournalInit, JournalTypes, EmptyBuffer
<1>5. OneWriter /\ MarksAreKnown
  BY <1>1, <1>2, <1>3 DEF OneWriter, MarksAreKnown
<1> QED BY <1>4, <1>5 DEF JournalWhole

\* Init of the journal.
LEMMA StartKeepsJournal ==
  ASSUME JournalWhole, spoiled = {}, spoiled' = {}, Start PROVE JournalWhole'
<1> USE Geometry
<1>1. "setup" \in Printer /\ ServiceLength \in Lines /\ Size >= 3
  BY ShortLines DEF Printer, Lines
<1>2. /\ job' = [t \in Printer |-> IF t = "setup" THEN Waits(ServiceLength) ELSE Idle]
      /\ pbuf' = [i \in 0 .. BufferEnd |-> CASE i < ServiceLength -> line
                    [] i = ServiceLength -> ZERO [] OTHER -> EmptyBuffer[i]]
      /\ line' = (line + 1) % Numbers
  BY DEF Start, Formats
<1>3. \A t \in Printer : job[t].at = "write" => job[t].from = 0
  <2>1. {"cut" : t \in {u \in Printer : job[u].at = "write" /\ job[u].from > 0}} = {}
    BY DEF Start
  <2>2. {u \in Printer : job[u].at = "write" /\ job[u].from > 0} = {}
    BY <2>1
  <2>3. \A t \in Printer : job[t].from \in Nat
    BY DEF JournalWhole, JournalTypes, JobType
  <2> QED BY <2>2, <2>3
<1>4. line \in Nat /\ line' \in Nat
  BY <1>2, NumbersPositive DEF JournalWhole, JournalTypes
<1>5. /\ Waits(ServiceLength) \in JobType /\ Waits(ServiceLength).at = "take"
      /\ Waits(ServiceLength).num = ServiceLength /\ Idle \in JobType /\ Idle.at = "idle"
  BY <1>1, <1>4, ShortLines DEF Waits, Off, Idle, JobType, Lines
<1>6. Started'
  BY <1>1, <1>2, <1>5 DEF Started
<1>7. \A t \in Printer : /\ job'[t].at \in {"take", "idle"}
                         /\ job'[t].at = "take" => t = "setup" /\ job'[t].num = ServiceLength
  BY <1>2, <1>5
<1>8. OneWriter'
  BY <1>1, <1>7 DEF OneWriter
<1>9. Text(ServiceLength)'
  <2>1. ASSUME NEW i \in 0 .. ServiceLength - 1 PROVE pbuf'[i] = line
    <3>1. i \in 0 .. BufferEnd /\ i < ServiceLength
      BY <1>1, LineFitsBuffer
    <3> QED BY <1>2, <3>1
  <2> QED BY <1>4, <2>1 DEF Text, HEAD, TAIL
<1>10. /\ cells' = [a \in Address |-> cells'[a]] /\ full' \in BOOLEAN /\ cells'[-1] = READY
       /\ MarksAt(tail, head)'
  <2>1. CASE cells[-1] = READY
    <3>1. Started
      <4>1. -1 \in Address /\ READY # BLANK
        BY DEF Address, READY, BLANK
      <4> QED BY <2>1, <4>1 DEF JournalWhole, JournalTypes
    <3>2. PICK tl, hd : MarksAt(tl, hd)
      BY <1>3, <3>1, MarksBetweenWrites
    <3>3. head' = Found(HEAD) /\ tail' = Found(TAIL) /\ cells' = cells
      BY <2>1 DEF Start
    <3>4. tail' = tl /\ head' = (IF cells[hd] = HEAD THEN hd ELSE -1) /\ hd \in -1 .. Size - 1
      BY <3>2, <3>3, MarksTellPlace
    <3>5. full' \in BOOLEAN /\ (full' <=> tail' < head')
      <4>1. full' = (tail' < head')
        BY <2>1 DEF Start
      <4>2. (tail' < head') \in BOOLEAN
        OBVIOUS
      <4>4. full' \in BOOLEAN
        BY <4>1, <4>2, Zenon
      <4>3. full' <=> tail' < head'
        BY <4>1, Zenon
      <4> QED BY <4>3, <4>4
    <3>6. tl \in Nat /\ (hd = -1 \/ hd = 0 \/ hd = tl + 1)
      BY <3>2 DEF MarksAt
    <3>7. MarksAt(tail, head)'
      <4>1. CASE full'
        <5>1. head' = hd /\ hd = tl + 1
          BY <3>4, <3>5, <3>6, <4>1
        <5> QED BY <3>2, <3>3, <3>4, <4>1, <5>1 DEF MarksAt
      <4>2. CASE ~full'
        <5>1. head' = -1 \/ (head' = 0 /\ hd = 0 /\ cells[0] = HEAD)
          BY <3>4, <3>5, <3>6, <4>2
        <5>2. head' = 0 => tl >= 1
          BY <3>2, <3>4, <5>1 DEF MarksAt
        <5>3. \A a \in 0 .. Size - 1 : cells[a] = HEAD => a = head'
          BY <3>2, <3>4 DEF MarksAt
        <5> QED BY <3>2, <3>3, <3>4, <4>2, <5>1, <5>2, <5>3 DEF MarksAt
      <4> QED BY <4>1, <4>2
    <3> QED BY <2>1, <3>3, <3>5, <3>7 DEF JournalWhole, JournalTypes
  <2>2. CASE cells[-1] # READY
    <3>1. /\ cells' = [cells EXCEPT ![0] = HEAD, ![1] = TAIL, ![-1] = READY]
          /\ head' = 0 /\ tail' = 1 /\ full' = FALSE
      BY <2>2 DEF Start
    <3>2. cells = [a \in Address |-> BLANK]
      BY <2>2 DEF JournalWhole, JournalTypes
    <3>3. cells' = [a \in Address |-> IF a = 0 THEN HEAD ELSE IF a = 1 THEN TAIL
                                      ELSE IF a = -1 THEN READY ELSE BLANK]
      BY <1>1, <3>1, <3>2 DEF Address
    <3>4. MarksAt(tail, head)'
      BY <1>1, <3>1, <3>3 DEF MarksAt, Address, HEAD, TAIL, BLANK
    <3>5. cells' = [a \in Address |-> cells'[a]]
      BY <3>3
    <3>6. cells'[-1] = READY
      BY <3>3 DEF Address
    <3> QED BY <3>1, <3>4, <3>5, <3>6
  <2> QED BY <2>1, <2>2
<1>11. JournalTypes'
  <2>1. job' \in [Printer -> JobType]
    BY <1>2, <1>5
  <2>2. pbuf' = [i \in 0 .. BufferEnd |-> pbuf'[i]]
    BY <1>2
  <2> QED BY <1>4, <1>6, <1>10, <2>1, <2>2 DEF JournalTypes
<1>12. MarksAreKnown'
  BY <1>7, <1>9, <1>10 DEF MarksAreKnown
<1> QED BY <1>8, <1>11, <1>12 DEF JournalWhole

\* A line goes into the buffer.
LEMMA PrintKeepsJournal ==
  ASSUME JournalWhole, spoiled = {}, spoiled' = {}, Started,
         NEW t \in Printer, NEW n \in Lines, job[t].at \in {"idle", "take"}, Prints(t, n)
  PROVE  JournalWhole'
<1>1. \A u \in Printer \ {t} : job[u].at \notin {"take", "write"}
  <2>1. {"overlap" : u \in {u \in Printer \ {t} : job[u].at \in {"take", "write"}}} = {}
    BY DEF Prints
  <2>2. {u \in Printer \ {t} : job[u].at \in {"take", "write"}} = {}
    BY <2>1
  <2> QED BY <2>2
<1>2. /\ job' = [job EXCEPT ![t] = Waits(n)] /\ line' = (line + 1) % Numbers
      /\ pbuf' = [i \in 0 .. BufferEnd |-> CASE i < n -> line [] i = n -> ZERO [] OTHER -> pbuf[i]]
      /\ UNCHANGED <<cells, head, tail, full, holder>>
  BY DEF Prints, Formats, Moves
<1>3. line \in Nat /\ line' \in Nat
  BY <1>2, NumbersPositive DEF JournalWhole, JournalTypes
<1>4. Waits(n) \in JobType /\ Waits(n).at = "take" /\ Waits(n).num = n
  BY <1>3 DEF Waits, Off, JobType
<1>5. /\ job' \in [Printer -> JobType] /\ job'[t] = Waits(n)
      /\ \A u \in Printer : u # t => job'[u] = job[u]
  BY <1>2, <1>4 DEF JournalWhole, JournalTypes
<1>6. Started'
  BY <1>4, <1>5 DEF Started, Printer
<1>7. JournalTypes'
  <2>1. pbuf' = [i \in 0 .. BufferEnd |-> pbuf'[i]]
    BY <1>2
  <2> QED BY <1>2, <1>3, <1>5, <1>6, <2>1 DEF JournalWhole, JournalTypes
<1>8. OneWriter'
  BY <1>1, <1>2, <1>4, <1>5 DEF JournalWhole, OneWriter
<1>9. Text(n)'
  <2>1. ASSUME NEW i \in 0 .. n - 1 PROVE pbuf'[i] = line
    <3>1. i \in 0 .. BufferEnd /\ i < n
      BY LineFitsBuffer
    <3> QED BY <1>2, <3>1
  <2> QED BY <1>3, <2>1 DEF Text, HEAD, TAIL
<1>10. \A x, y : MarksAt(x, y) <=> MarksAt(x, y)'
  BY <1>2 DEF MarksAt
<1>11. MarksAreKnown'
  <2>1. \A u \in Printer : job'[u].at = "take" => Text(job[u].num)'
    BY <1>1, <1>4, <1>5, <1>9
  <2>2. \A u \in Printer : job'[u].at # "write"
    BY <1>1, <1>4, <1>5
  <2>3. ASSUME NEW u \in Printer, job'[u].at = "end"
        PROVE  MarksAt(EndOf(job[u]), HeadAfter(EndOf(job[u])))'
    <3>1. job'[u] = job[u] /\ job[u].at = "end"
      BY <1>4, <1>5, <2>3
    <3>2. MarksAt(EndOf(job[u]), HeadAfter(EndOf(job[u])))
      BY <3>1 DEF JournalWhole, MarksAreKnown
    <3> QED BY <1>2, <3>1, <3>2 DEF MarksAt, EndOf, HeadAfter
  <2>4. ASSUME \A u \in Printer : job'[u].at # "end" PROVE MarksAt(tail, head)'
    <3>1. \A u \in Printer : job[u].at # "end" /\ job[u].at # "write"
      BY <1>1, <1>5, <2>4
    <3>2. MarksAt(tail, head)
      BY <3>1 DEF JournalWhole, MarksAreKnown
    <3> QED BY <1>2, <3>2 DEF MarksAt
  <2> QED BY <2>1, <2>2, <2>3, <2>4 DEF MarksAreKnown
<1> QED BY <1>7, <1>8, <1>11 DEF JournalWhole

\* While nobody writes, the marks are at tail and head.
LEMMA MarksBeforeTake ==
  ASSUME JournalWhole, Started, holder \notin Printer PROVE MarksAt(tail, head)
BY DEF JournalWhole, OneWriter, MarksAreKnown

\* _write begins: the marks go behind the line, and the first bytes' place is the tail.
LEMMA TakeKeepsJournal ==
  ASSUME JournalWhole, spoiled = {}, spoiled' = {}, Started, NEW t \in Printer, Take(t)
  PROVE  JournalWhole'
<1> USE Geometry
<1>n. PICK n : n = job[t].num
  OBVIOUS
<1>k. PICK k : k = job'[t]
  OBVIOUS
<1>1. job[t].at = "take" /\ holder = "none" /\ n \in Lines /\ Text(n) /\ job[t] \in JobType
  BY <1>n DEF Take, JournalWhole, OneWriter, MarksAreKnown, JournalTypes
<1>2. MarksAt(tail, head)
  BY <1>1, NobodyIsNobody, MarksBeforeTake
<1>3. n \in 1 .. Size - 2 /\ BufferEnd \in Nat /\ n + 1 \in 0 .. BufferEnd
      /\ n \in 0 .. BufferEnd /\ tail \in 0 .. Size - 2
  BY <1>1, <1>2, LineFitsBuffer DEF MarksAt
<1>4. tail + n + 1 # Size
  <2>1. {"slip" : x \in {y \in {tail + n + 1} : y = Size}} = {}
    BY <1>n DEF Take
  <2>2. {y \in {tail + n + 1} : y = Size} = {}
    BY <2>1
  <2> QED BY <2>2
<1>5. /\ UNCHANGED <<cells, head, tail, full, line>> /\ holder' = t
      /\ pbuf' = [pbuf EXCEPT ![n] = TAIL, ![n + 1] = IF full THEN HEAD ELSE pbuf[n + 1]]
      /\ pbuf = [i \in 0 .. BufferEnd |-> pbuf[i]]
  BY <1>n DEF Take, WithMarks, JournalWhole, JournalTypes
<1>6. job' = [job EXCEPT ![t] = [job[t] EXCEPT !.at = "write", !.pos = tail, !.from = 0,
                !.part = IF Wraps(n) THEN "first" ELSE "only",
                !.left = IF Wraps(n) THEN Size - tail ELSE n + 1 + (IF full THEN 1 ELSE 0)]]
  BY <1>n DEF Take, Moves
<1>7. /\ k.at = "write" /\ k.num = n /\ k.pos = tail /\ k.from = 0
      /\ k.part = IF Wraps(n) THEN "first" ELSE "only"
      /\ k.left = IF Wraps(n) THEN Size - tail ELSE n + 1 + (IF full THEN 1 ELSE 0)
  BY <1>1, <1>6, <1>k, <1>n DEF JournalWhole, JournalTypes, JobType
<1>8. k \in JobType
  <2>1. k = [at |-> "write", id |-> job[t].id, num |-> n, pos |-> tail, from |-> 0,
             left |-> k.left, part |-> k.part]
    BY <1>1, <1>6, <1>7, <1>k, <1>n DEF JournalWhole, JournalTypes, JobType
  <2>2. k.part \in {"only", "first", "second"} /\ k.left \in Nat /\ tail \in Nat
    BY <1>3, <1>7
  <2>3. job[t].id \in Nat
    BY <1>1 DEF JobType
  <2> QED BY <1>1, <2>1, <2>2, <2>3 DEF JobType
<1>9. /\ job' \in [Printer -> JobType]
      /\ \A u \in Printer : u # t => job'[u] = job[u]
  BY <1>6, <1>8, <1>k DEF JournalWhole, JournalTypes
<1>10. Started'
  BY <1>7, <1>9, <1>k DEF Started, Printer
<1>11. /\ pbuf' = [i \in 0 .. BufferEnd |-> pbuf'[i]]
       /\ pbuf'[n] = TAIL /\ (full => pbuf'[n + 1] = HEAD)
       /\ \A i \in 0 .. n - 1 : pbuf'[i] = pbuf[i]
  <2>1. n # n + 1 /\ \A i \in 0 .. n - 1 : i \in 0 .. BufferEnd /\ i # n /\ i # n + 1
    BY <1>3, Geometry
  <2> QED BY <1>3, <1>5, <2>1
<1>12. JournalTypes'
  BY <1>5, <1>9, <1>10, <1>11 DEF JournalWhole, JournalTypes
<1>13. OneWriter'
  <2>1. \A u \in Printer : u # t => job'[u].at \notin {"take", "write", "end"}
    BY <1>1, <1>9, NobodyIsNobody DEF JournalWhole, OneWriter
  <2> QED BY <1>1, <1>5, <1>7, <1>k, <2>1 DEF OneWriter
<1>14. Writing(k)'
  <2>1. Text(n)' /\ pbuf'[n] = TAIL
    BY <1>1, <1>11 DEF Text
  <2>2. k.left >= 1
    BY <1>3, <1>7 DEF Wraps
  <2>3. /\ head \in {-1, 0, tail + 1} /\ (full => head = tail + 1)
        /\ (~full => head \in {-1, 0} /\ (head = 0 => tail >= 1 /\ cells[0] = HEAD))
        /\ \A a \in 0 .. Size - 1 : /\ cells[a] = TAIL => a \in {tail, tail + 1}
                                    /\ cells[a] = HEAD => a = head
    BY <1>2 DEF MarksAt
  <2>4. k.part = "only" =>
          /\ tail + n + 2 <= Size /\ k.pos = tail + k.from
          /\ k.from + k.left = n + (IF full THEN 2 ELSE 1)
          /\ full => pbuf'[n + 1] = HEAD
          /\ head = 0 => cells[0] = HEAD
    BY <1>3, <1>7, <1>11, <2>3 DEF Wraps
  <2>5. k.part = "first" => /\ tail + n >= Size /\ k.pos = tail + k.from
                            /\ k.from + k.left = Size - tail
    BY <1>3, <1>4, <1>7 DEF Wraps
  <2>6. k.part # "second"
    BY <1>7
  <2>7. \A a \in 0 .. Size - 1 : ~IsWritten(k, a)'
    BY <1>3, <1>5, <1>7, <2>6 DEF IsWritten
  <2> QED BY <1>3, <1>5, <1>7, <2>1, <2>2, <2>3, <2>4, <2>5, <2>6, <2>7 DEF Writing
<1>15. MarksAt(tail, head)'
  BY <1>2, <1>5 DEF MarksAt
<1>16. MarksAreKnown'
  <2>1. \A u \in Printer : u # t => job'[u].at \notin {"take", "write", "end"}
    BY <1>1, <1>9, NobodyIsNobody DEF JournalWhole, OneWriter
  <2> QED BY <1>7, <1>14, <1>15, <1>k, <2>1 DEF MarksAreKnown
<1> QED BY <1>12, <1>13, <1>16 DEF JournalWhole

\* What is left of a line, or the rest of the chip's page.
LEMMA LesserOfTwo ==
  ASSUME NEW x \in Int, NEW y \in Int
  PROVE  Min({x, y}) \in {x, y} /\ Min({x, y}) <= x /\ Min({x, y}) <= y
<1> DEFINE S == {x, y}
<1>1. \E m \in S : \A z \in S : m <= z
  <2>1. CASE x <= y
    BY <2>1
  <2>2. CASE y < x
    BY <2>2
  <2> QED BY <2>1, <2>2
<1> HIDE DEF S
<1>2. Min(S) \in S /\ \A z \in S : Min(S) <= z
  BY <1>1 DEF Min
<1> QED BY <1>2 DEF S

LEMMA GreaterOfTwo ==
  ASSUME NEW x \in Int, NEW y \in Int
  PROVE  Max({x, y}) \in {x, y} /\ Max({x, y}) >= x /\ Max({x, y}) >= y
<1> DEFINE S == {x, y}
<1>1. \E m \in S : \A z \in S : m >= z
  <2>1. CASE x >= y
    BY <2>1
  <2>2. CASE y > x
    BY <2>2
  <2> QED BY <2>1, <2>2
<1> HIDE DEF S
<1>2. Max(S) \in S /\ \A z \in S : Max(S) >= z
  BY <1>1 DEF Max
<1> QED BY <1>2 DEF S

LEMMA PageHasBytes ==
  ASSUME NEW l \in Nat, l >= 1, NEW p \in Nat
  PROVE  Min({l, Page - (p % Page)}) \in 1 .. l
<1>1. p % Page \in Nat /\ p % Page < Page
  BY Geometry
<1> DEFINE r == Page - (p % Page)
<1>2. r \in Nat /\ r >= 1
  BY <1>1, Geometry
<1> HIDE DEF r
<1>3. Min({l, r}) \in 1 .. l
  BY <1>2, LesserOfTwo
<1> QED BY <1>3 DEF r

\* The bytes of a page are those of the line at their places.
Covered(j, n, a) == IsWritten(j, a) \/ (j.pos <= a /\ a < j.pos + n)
LineIsPlaced(j, n) ==
  \A a \in 0 .. Size - 1 :
    /\ Covered(j, n, a) => cells'[a] = pbuf[PlaceInLine(a)]
    /\ ~Covered(j, n, a) => /\ cells'[a] = cells[a]
                            /\ cells[a] = TAIL => a \in {tail, tail + 1}
                            /\ cells[a] = HEAD => a = head

LEMMA PageWritesLine ==
  ASSUME JournalWhole, NEW t \in Printer, NEW j, j = job[t], j.at = "write", NEW n \in 1 .. j.left,
         cells' = [a \in Address |-> IF a \in j.pos .. j.pos + n - 1
                                     THEN pbuf[j.from + a - j.pos] ELSE cells[a]]
  PROVE  LineIsPlaced(j, n)
<1> USE Geometry
<1>1. j \in JobType /\ j.num \in Lines /\ Writing(j)
  BY DEF JournalWhole, JournalTypes, OneWriter, MarksAreKnown
<1>2. j.pos \in Nat /\ j.from \in Nat /\ j.left \in Nat /\ j.num \in 1 .. Size - 2
      /\ j.part \in {"only", "first", "second"} /\ tail \in 0 .. Size - 2 /\ n \in Nat
  BY <1>1, LineFitsBuffer DEF JobType, Writing
<1>3. ASSUME NEW a \in 0 .. Size - 1, j.pos <= a, a < j.pos + n
      PROVE  cells'[a] = pbuf[PlaceInLine(a)]
  <2>1. cells'[a] = pbuf[j.from + a - j.pos]
    BY <1>2, <1>3 DEF Address
  <2>2. j.from + a - j.pos = PlaceInLine(a)
    <3>1. CASE j.part \in {"only", "first"}
      <4>1. j.pos = tail + j.from
        BY <1>1, <3>1 DEF Writing
      <4> QED BY <1>2, <1>3, <4>1 DEF PlaceInLine
    <3>2. CASE j.part = "second"
      <4>1. j.from = Size - tail + j.pos /\ j.from + j.left = j.num + 2
        BY <1>1, <3>2 DEF Writing
      <4>2. a < tail
        BY <1>2, <1>3, <4>1
      <4> QED BY <1>2, <1>3, <4>1, <4>2 DEF PlaceInLine
    <3> QED BY <1>2, <3>1, <3>2
  <2> QED BY <2>1, <2>2
<1>4. ASSUME NEW a \in 0 .. Size - 1, ~(j.pos <= a /\ a < j.pos + n)
      PROVE  cells'[a] = cells[a]
  BY <1>2, <1>4 DEF Address
<1>5. \A a \in 0 .. Size - 1 :
        /\ IsWritten(j, a) => cells[a] = pbuf[PlaceInLine(a)]
        /\ ~IsWritten(j, a) => /\ cells[a] = TAIL => a \in {tail, tail + 1}
                               /\ cells[a] = HEAD => a = head
  BY <1>1 DEF Writing
<1> QED BY <1>3, <1>4, <1>5 DEF Covered, LineIsPlaced

\* A page of the line goes into the chip.
LEMMA PageKeepsJournal ==
  ASSUME JournalWhole, Started, NEW t \in Printer, WritePage(t)
  PROVE  JournalWhole'
<1> USE Geometry
<1>j. PICK j : j = job[t]
  OBVIOUS
<1>k. PICK k : k = job'[t]
  OBVIOUS
<1>n. PICK n : n = Min({j.left, Page - (j.pos % Page)})
  OBVIOUS
<1>1. j.at = "write" /\ j \in JobType /\ j.num \in Lines /\ Writing(j) /\ holder = t
  BY <1>j DEF WritePage, JournalWhole, OneWriter, MarksAreKnown, JournalTypes
<1>2. /\ j.pos \in Nat /\ j.from \in Nat /\ j.left \in Nat /\ j.left >= 1
      /\ j.num \in 1 .. Size - 2 /\ j.num <= Packet /\ j.part \in {"only", "first", "second"}
      /\ tail \in 0 .. Size - 2
  BY <1>1, LineFitsBuffer DEF JobType, Writing
<1>3. n \in 1 .. j.left
  BY <1>2, <1>n, PageHasBytes
<1>4. /\ cells' = [a \in Address |-> IF a \in j.pos .. j.pos + n - 1
                                     THEN pbuf[j.from + a - j.pos] ELSE cells[a]]
      /\ UNCHANGED <<pbuf, head, tail, holder, line>>
  BY <1>j, <1>n DEF WritePage
<1> DEFINE done == j.left = n
           next == [j EXCEPT !.pos = j.pos + n, !.from = j.from + n, !.left = j.left - n]
<1>5. LineIsPlaced(j, n)
  BY <1>1, <1>3, <1>4, <1>j, PageWritesLine
<1>6. /\ full' \in BOOLEAN
      /\ full' <=> full \/ (done /\ j.part = "first")
  BY <1>j, <1>n DEF WritePage, JournalWhole, JournalTypes
<1>7. job' = [job EXCEPT ![t] =
                IF ~done THEN next
                ELSE IF j.part = "first"
                THEN [next EXCEPT !.part = "second", !.pos = 0, !.left = j.num - next.from + 2]
                ELSE [next EXCEPT !.at = "end"]]
  BY <1>j, <1>n DEF WritePage, Moves
<1>8. /\ k \in JobType /\ k.num = j.num /\ k.from = j.from + n
      /\ ~done => /\ k.at = "write" /\ k.part = j.part
                  /\ k.pos = j.pos + n /\ k.left = j.left - n
      /\ done /\ j.part = "first" => /\ k.at = "write" /\ k.part = "second"
                                     /\ k.pos = 0 /\ k.left = j.num - k.from + 2
      /\ done /\ j.part # "first" => /\ k.at = "end" /\ k.part = j.part
                                     /\ k.pos = j.pos + n /\ k.left = j.left - n
  <2>1. next \in JobType /\ next.at = "write" /\ next.id = j.id /\ next.num = j.num
        /\ next.part = j.part /\ next.pos = j.pos + n /\ next.from = j.from + n
        /\ next.left = j.left - n
    <3>1. j.pos + n \in Nat /\ j.from + n \in Nat /\ j.left - n \in Nat
      BY <1>2, <1>3
    <3> QED BY <1>1, <3>1 DEF JobType
  <2>2. k = IF ~done THEN next
            ELSE IF j.part = "first"
            THEN [next EXCEPT !.part = "second", !.pos = 0, !.left = j.num - next.from + 2]
            ELSE [next EXCEPT !.at = "end"]
    BY <1>7, <1>k DEF JournalWhole, JournalTypes
  <2> HIDE DEF next, done
  <2>3. CASE ~done
    BY <2>1, <2>2, <2>3
  <2>4. CASE done /\ j.part = "first"
    <3>1. k = [next EXCEPT !.part = "second", !.pos = 0, !.left = j.num - next.from + 2]
      BY <2>2, <2>4
    <3>2. j.num - next.from + 2 \in Nat
      BY <1>1, <1>2, <1>3, <2>1, <2>4 DEF Writing, done
    <3> QED BY <2>1, <2>4, <3>1, <3>2 DEF JobType
  <2>5. CASE done /\ j.part # "first"
    <3>1. k = [next EXCEPT !.at = "end"]
      BY <2>2, <2>5
    <3> QED BY <2>1, <2>5, <3>1 DEF JobType
  <2> QED BY <2>3, <2>4, <2>5
<1> HIDE DEF next
<1>9. k.at \in {"write", "end"} /\ k.from >= 1
  BY <1>2, <1>3, <1>8
<1>10. /\ job' \in [Printer -> JobType]
       /\ \A u \in Printer : u # t => job'[u] = job[u]
  BY <1>7, <1>8, <1>k DEF JournalWhole, JournalTypes
<1>11. Started'
  BY <1>9, <1>10, <1>k DEF Started, Printer
<1>12. JournalTypes'
  <2>1. cells' = [a \in Address |-> cells'[a]]
    BY <1>4
  <2>2. cells'[-1] = cells[-1]
    BY <1>2, <1>4 DEF Address
  <2> QED BY <1>4, <1>6, <1>10, <1>11, <2>1, <2>2 DEF JournalWhole, JournalTypes
<1>13. \A u \in Printer : u # t => job'[u].at \notin {"take", "write", "end"}
  BY <1>1, <1>10, <1>j DEF JournalWhole, OneWriter
<1>14. OneWriter'
  BY <1>1, <1>4, <1>8, <1>9, <1>13, <1>k DEF OneWriter
<1>15. CASE ~done
  <2>1. k.at = "write" /\ k.num = j.num /\ k.part = j.part /\ k.pos = j.pos + n
        /\ k.from = j.from + n /\ k.left = j.left - n
    BY <1>8, <1>15
  <2>0. k.left >= 1
    BY <1>2, <1>3, <1>15, <2>1
  <2>2. full' <=> full
    BY <1>6, <1>15
  <2>3. \A a \in 0 .. Size - 1 : IsWritten(k, a)' <=> Covered(j, n, a)
    <3>1. j.part # "second" => tail <= j.pos
      BY <1>1, <1>2 DEF Writing
    <3> QED BY <1>2, <1>3, <1>4, <2>1, <3>1 DEF IsWritten, Covered
  <2>4. \A a \in 0 .. Size - 1 :
          /\ IsWritten(k, a)' => cells'[a] = pbuf'[PlaceInLine(a)']
          /\ ~IsWritten(k, a)' => /\ cells'[a] = TAIL => a \in {tail, tail + 1}
                                  /\ cells'[a] = HEAD => a = head
    <3> SUFFICES ASSUME NEW a \in 0 .. Size - 1
        PROVE  /\ IsWritten(k, a)' => cells'[a] = pbuf'[PlaceInLine(a)']
               /\ ~IsWritten(k, a)' => /\ cells'[a] = TAIL => a \in {tail, tail + 1}
                                       /\ cells'[a] = HEAD => a = head
      OBVIOUS
    <3>1. PlaceInLine(a)' = PlaceInLine(a) /\ pbuf' = pbuf
      BY <1>4 DEF PlaceInLine
    <3>2. /\ Covered(j, n, a) => cells'[a] = pbuf[PlaceInLine(a)]
          /\ ~Covered(j, n, a) => /\ cells'[a] = cells[a]
                                  /\ cells[a] = TAIL => a \in {tail, tail + 1}
                                  /\ cells[a] = HEAD => a = head
      BY <1>5 DEF LineIsPlaced
    <3>3. IsWritten(k, a)' <=> Covered(j, n, a)
      BY <2>3
    <3> QED BY <3>1, <3>2, <3>3
  <2>5. k.part = "only" => (head = 0 => cells'[0] = HEAD)
    <3>1. SUFFICES ASSUME k.part = "only", head = 0 PROVE cells'[0] = HEAD
      OBVIOUS
    <3>2. tail >= 1 /\ cells[0] = HEAD /\ j.pos >= tail
      BY <1>1, <1>2, <2>1, <3>1 DEF Writing
    <3>3. ~Covered(j, n, 0)
      BY <1>2, <2>1, <3>1, <3>2 DEF IsWritten, Covered
    <3>4. 0 \in 0 .. Size - 1
      BY <1>2
    <3> QED BY <1>5, <3>2, <3>3, <3>4 DEF LineIsPlaced
  <2>6. k.part = "only" =>
          /\ tail + k.num + 2 <= Size /\ k.pos = tail + k.from
          /\ k.from + k.left = k.num + (IF full THEN 2 ELSE 1)
          /\ full => pbuf[k.num + 1] = HEAD
    BY <1>1, <1>2, <1>3, <2>1 DEF Writing
  <2>7. k.part = "first" => /\ tail + k.num >= Size /\ k.pos = tail + k.from
                            /\ k.from + k.left = Size - tail
    BY <1>1, <1>2, <1>3, <2>1 DEF Writing
  <2>8. k.part = "second" => /\ tail + k.num >= Size /\ k.from = Size - tail + k.pos
                             /\ k.from + k.left = k.num + 2 /\ full
    BY <1>1, <1>2, <1>3, <2>1 DEF Writing
  <2>9. Text(k.num)' /\ pbuf'[k.num] = TAIL
    BY <1>1, <1>4, <2>1 DEF Writing, Text
  <2>10. /\ full /\ k.part # "second" => head = tail + 1
         /\ head \in {-1, 0, tail + 1}
         /\ ~full => head \in {-1, 0} /\ (head = 0 => tail >= 1)
    BY <1>1, <2>1 DEF Writing
  <2>11. Writing(k)'
    BY <1>2, <1>4, <2>0, <2>1, <2>2, <2>4, <2>5, <2>6, <2>7, <2>8, <2>9, <2>10 DEF Writing
  <2> QED BY <1>9, <1>12, <1>13, <1>14, <1>k, <2>1, <2>11 DEF JournalWhole, MarksAreKnown
<1>16. CASE done /\ j.part = "first"
  <2>1. k.at = "write" /\ k.num = j.num /\ k.part = "second" /\ k.pos = 0
        /\ k.from = j.from + n /\ k.left = j.num - (j.from + n) + 2
    BY <1>8, <1>16
  <2>2. full' /\ tail + j.num >= Size /\ j.pos = tail + j.from /\ j.from + n = Size - tail
    BY <1>1, <1>6, <1>16 DEF Writing
  <2>3. \A a \in 0 .. Size - 1 : IsWritten(k, a)' <=> Covered(j, n, a)
    BY <1>2, <1>3, <1>4, <1>16, <2>1, <2>2 DEF IsWritten, Covered
  <2>4. \A a \in 0 .. Size - 1 :
          /\ IsWritten(k, a)' => cells'[a] = pbuf'[PlaceInLine(a)']
          /\ ~IsWritten(k, a)' => /\ cells'[a] = TAIL => a \in {tail, tail + 1}
                                  /\ cells'[a] = HEAD => a = head
    <3> SUFFICES ASSUME NEW a \in 0 .. Size - 1
        PROVE  /\ IsWritten(k, a)' => cells'[a] = pbuf'[PlaceInLine(a)']
               /\ ~IsWritten(k, a)' => /\ cells'[a] = TAIL => a \in {tail, tail + 1}
                                       /\ cells'[a] = HEAD => a = head
      OBVIOUS
    <3>1. PlaceInLine(a)' = PlaceInLine(a) /\ pbuf' = pbuf
      BY <1>4 DEF PlaceInLine
    <3>2. /\ Covered(j, n, a) => cells'[a] = pbuf[PlaceInLine(a)]
          /\ ~Covered(j, n, a) => /\ cells'[a] = cells[a]
                                  /\ cells[a] = TAIL => a \in {tail, tail + 1}
                                  /\ cells[a] = HEAD => a = head
      BY <1>5 DEF LineIsPlaced
    <3>3. IsWritten(k, a)' <=> Covered(j, n, a)
      BY <2>3
    <3> QED BY <3>1, <3>2, <3>3
  <2>5. k.left >= 1 /\ k.from = Size - tail + k.pos /\ k.from + k.left = k.num + 2
    BY <1>2, <1>3, <2>1, <2>2
  <2>6. Text(k.num)' /\ pbuf'[k.num] = TAIL
    BY <1>1, <1>4, <2>1 DEF Writing, Text
  <2>7. head \in {-1, 0, tail + 1}
    BY <1>1 DEF Writing
  <2>8. Writing(k)'
    BY <1>2, <1>4, <2>1, <2>2, <2>4, <2>5, <2>6, <2>7 DEF Writing
  <2> QED BY <1>9, <1>12, <1>13, <1>14, <1>k, <2>1, <2>8 DEF JournalWhole, MarksAreKnown
<1>17. CASE done /\ j.part # "first"
  <2>e. PICK e : e = EndOf(j)
    OBVIOUS
  <2>h. PICK h : h = HeadAfter(e)
    OBVIOUS
  <2>1. k.at = "end" /\ k.num = j.num /\ k.part = j.part
    BY <1>8, <1>17
  <2>2. full' <=> full
    BY <1>6, <1>17
  <2>3. Text(j.num) /\ pbuf[j.num] = TAIL
    BY <1>1 DEF Writing
  <2>4. MarksAt(e, h)'
    <3>1. CASE j.part = "only"
      <4>1. /\ tail + j.num + 2 <= Size /\ j.pos = tail + j.from
            /\ j.from + n = j.num + (IF full THEN 2 ELSE 1)
            /\ full => pbuf[j.num + 1] = HEAD /\ head = tail + 1
            /\ ~full => head \in {-1, 0} /\ (head = 0 => tail >= 1 /\ cells[0] = HEAD)
        BY <1>1, <1>17, <3>1 DEF Writing
      <4>2. e = tail + j.num /\ h = IF full THEN e + 1 ELSE head
        BY <2>e, <2>h, <3>1 DEF EndOf, HeadAfter
      <4>3. \A a \in 0 .. Size - 1 :
              Covered(j, n, a) <=> tail <= a /\ a <= e + (IF full THEN 1 ELSE 0)
        BY <1>2, <1>3, <3>1, <4>1, <4>2 DEF Covered, IsWritten
      <4>4. ASSUME NEW a \in 0 .. Size - 1, Covered(j, n, a)
            PROVE  /\ a < e => cells'[a] \notin {HEAD, TAIL}
                   /\ a = e => cells'[a] = TAIL
                   /\ a > e => full /\ a = e + 1 /\ cells'[a] = HEAD
        <5>1. cells'[a] = pbuf[a - tail] /\ tail <= a /\ a <= e + (IF full THEN 1 ELSE 0)
          BY <1>2, <1>5, <4>3, <4>4 DEF LineIsPlaced, PlaceInLine
        <5>2. a < e => a - tail \in 0 .. j.num - 1
          BY <1>2, <4>2, <5>1
        <5>3. a = e => a - tail = j.num
          BY <1>2, <4>2
        <5>4. a > e => full /\ a - tail = j.num + 1 /\ a = e + 1
          BY <1>2, <4>2, <5>1
        <5> QED BY <2>3, <4>1, <5>1, <5>2, <5>3, <5>4 DEF Text
      <4>5. ASSUME NEW a \in 0 .. Size - 1, ~Covered(j, n, a)
            PROVE  /\ cells'[a] = cells[a] /\ cells'[a] # TAIL
                   /\ cells'[a] = HEAD => ~full /\ a = head
        <5>1. a # tail /\ a # tail + 1
          BY <1>2, <4>2, <4>3, <4>5
        <5> QED BY <1>5, <4>1, <4>5, <5>1 DEF LineIsPlaced
      <4>6. e \in 0 .. Size - 2 /\ e \in 0 .. Size - 1 /\ e > tail /\ Covered(j, n, e)
        BY <1>2, <4>1, <4>2, <4>3
      <4>7. cells'[e] = TAIL
        BY <4>4, <4>6
      <4>8. \A a \in 0 .. Size - 1 : cells'[a] = TAIL => a = e
        BY <1>2, <4>4, <4>5, <4>6 DEF HEAD, TAIL
      <4>9. \A a \in 0 .. Size - 1 : cells'[a] = HEAD => a = h
        BY <1>2, <4>2, <4>4, <4>5, <4>6 DEF HEAD, TAIL
      <4>10. ~full /\ h = 0 => e >= 1 /\ cells'[0] = HEAD
        <5>1. SUFFICES ASSUME ~full, head = 0 PROVE e >= 1 /\ cells'[0] = HEAD
          BY <4>2
        <5>2. tail >= 1 /\ cells[0] = HEAD /\ 0 \in 0 .. Size - 1
          BY <1>2, <4>1, <5>1
        <5>3. ~Covered(j, n, 0)
          BY <1>2, <4>3, <5>2
        <5> QED BY <1>2, <4>5, <4>6, <5>2, <5>3
      <4> QED BY <2>2, <4>1, <4>2, <4>6, <4>7, <4>8, <4>9, <4>10 DEF MarksAt
    <3>2. CASE j.part = "second"
      <4>1. /\ tail + j.num >= Size /\ full /\ head \in {-1, 0, tail + 1}
            /\ j.from = Size - tail + j.pos /\ j.from + n = j.num + 2
        BY <1>1, <1>17, <3>2 DEF Writing
      <4>2. e = j.num - (Size - tail) /\ h = e + 1
        BY <2>e, <2>h, <3>2, <4>1 DEF EndOf, HeadAfter
      <4>3. \A a \in 0 .. Size - 1 : Covered(j, n, a) <=> tail <= a \/ a <= e + 1
        BY <1>2, <1>3, <3>2, <4>1, <4>2 DEF Covered, IsWritten
      <4>4. e \in 0 .. Size - 2 /\ e + 1 < tail /\ e + 1 < Packet
        BY <1>2, <4>1, <4>2
      <4>5. ASSUME NEW a \in 0 .. Size - 1, Covered(j, n, a)
            PROVE  /\ cells'[a] = TAIL => a = e \/ a = e + 1
                   /\ cells'[a] = HEAD => a = e + 1
                   /\ a = e => cells'[a] = TAIL
        <5>1. cells'[a] = pbuf[PlaceInLine(a)] /\ (tail <= a \/ a <= e + 1)
          BY <1>5, <4>3, <4>5 DEF LineIsPlaced
        <5>2. a # e /\ a # e + 1 => PlaceInLine(a) \in 0 .. j.num - 1
          <6>1. CASE a >= tail
            BY <1>2, <4>1, <6>1 DEF PlaceInLine
          <6>2. CASE a < tail
            BY <1>2, <4>2, <4>4, <5>1, <6>2 DEF PlaceInLine
          <6> QED BY <1>2, <6>1, <6>2
        <5>3. a = e => PlaceInLine(a) = j.num
          BY <1>2, <4>2, <4>4 DEF PlaceInLine
        <5> QED BY <2>3, <5>1, <5>2, <5>3 DEF Text, HEAD, TAIL
      <4>6. ASSUME NEW a \in 0 .. Size - 1, ~Covered(j, n, a)
            PROVE  cells'[a] \notin {HEAD, TAIL}
        <5>1. a < tail /\ a > e + 1
          BY <1>2, <4>3, <4>4, <4>6
        <5>2. a # tail /\ a # tail + 1 /\ a # head
          BY <1>2, <4>1, <4>4, <5>1
        <5> QED BY <1>5, <4>6, <5>2 DEF LineIsPlaced
      <4>7. e \in 0 .. Size - 1 /\ Covered(j, n, e)
        BY <1>2, <4>3, <4>4
      <4>8. cells'[e] = TAIL
        BY <4>5, <4>7
      <4>9. \A a \in 0 .. Size - 1 : cells'[a] = TAIL => a = e \/ (a = e + 1 /\ a < Packet)
        BY <4>4, <4>5, <4>6
      <4>10. \A a \in 0 .. Size - 1 : cells'[a] = HEAD => a = h
        BY <4>2, <4>5, <4>6
      <4> QED BY <2>2, <4>1, <4>2, <4>4, <4>8, <4>9, <4>10 DEF MarksAt
    <3> QED BY <1>2, <1>17, <3>1, <3>2
  <2>5. EndOf(k)' = e /\ HeadAfter(EndOf(k))' = h
    BY <1>4, <2>1, <2>2, <2>e, <2>h DEF EndOf, HeadAfter
  <2> QED BY <1>9, <1>12, <1>13, <1>14, <1>k, <2>1, <2>4, <2>5 DEF JournalWhole, MarksAreKnown
<1> QED BY <1>2, <1>15, <1>16, <1>17

\* The end of a line becomes the tail.
LEMMA EndKeepsJournal ==
  ASSUME JournalWhole, Started, NEW t \in Printer, WriteEnds(t)
  PROVE  JournalWhole'
<1>j. PICK j : j = job[t]
  OBVIOUS
<1>1. j.at = "end" /\ holder = t /\ MarksAt(EndOf(j), HeadAfter(EndOf(j)))
  BY <1>j DEF WriteEnds, JournalWhole, OneWriter, MarksAreKnown
<1>2. /\ UNCHANGED <<cells, pbuf, full, line>> /\ holder' = "none"
      /\ tail' = EndOf(j) /\ head' = HeadAfter(EndOf(j)) /\ job' = [job EXCEPT ![t] = Idle]
  BY <1>j DEF WriteEnds, Moves, EndOf, HeadAfter
<1>3. MarksAt(tail, head)'
  BY <1>1, <1>2 DEF MarksAt
<1>4. Idle \in JobType /\ Idle.at = "idle"
  BY DEF Idle, Off, JobType
<1>5. /\ job' \in [Printer -> JobType] /\ job'[t].at = "idle"
      /\ \A u \in Printer : u # t => job'[u] = job[u] /\ job'[u].at \notin {"write", "end"}
  BY <1>1, <1>2, <1>4 DEF JournalWhole, JournalTypes, OneWriter
<1>6. Started'
  BY <1>5 DEF Started, Printer
<1>7. JournalTypes'
  BY <1>2, <1>5, <1>6 DEF JournalWhole, JournalTypes
<1>8. OneWriter'
  BY <1>5 DEF JournalWhole, OneWriter
<1>9. MarksAreKnown'
  <2>1. ASSUME NEW u \in Printer, job'[u].at = "take" PROVE Text(job[u].num)' /\ job'[u] = job[u]
    <3>1. u # t /\ job'[u] = job[u]
      BY <1>5, <2>1
    <3>2. Text(job[u].num)
      BY <2>1, <3>1 DEF JournalWhole, MarksAreKnown
    <3> QED BY <1>2, <3>1, <3>2 DEF Text
  <2>2. \A u \in Printer : job'[u].at \notin {"write", "end"}
    BY <1>5
  <2> QED BY <1>3, <2>1, <2>2 DEF MarksAreKnown
<1> QED BY <1>7, <1>8, <1>9 DEF JournalWhole

\* The journal's variables but the semaphore stay, which no writer has.
LEMMA StillJournal ==
  ASSUME JournalWhole, UNCHANGED <<cells, pbuf, head, tail, full, job, line>>,
         holder' = holder \/ holder \notin Printer
  PROVE  JournalWhole'
<1>1. Started' <=> Started
  BY DEF Started
<1>2. JournalTypes'
  BY <1>1 DEF JournalWhole, JournalTypes
<1>3. OneWriter'
  BY DEF JournalWhole, OneWriter
<1>4. MarksAreKnown'
  <2>1. \A n : Text(n)' <=> Text(n)
    BY DEF Text
  <2>2. \A j : Writing(j)' <=> Writing(j)
    BY <2>1 DEF Writing, IsWritten, PlaceInLine
  <2>3. \A x, y : MarksAt(x, y)' <=> MarksAt(x, y)
    BY DEF MarksAt
  <2>4. \A j : EndOf(j)' = EndOf(j) /\ HeadAfter(EndOf(j))' = HeadAfter(EndOf(j))
    BY DEF EndOf, HeadAfter
  <2> QED BY <1>1, <2>1, <2>2, <2>3, <2>4 DEF JournalWhole, MarksAreKnown
<1> QED BY <1>2, <1>3, <1>4 DEF JournalWhole

JournalInv == spoiled = {} => JournalWhole

LEMMA JournalStep == JournalInv /\ [JournalNext]_journalVars => JournalInv'
<1> SUFFICES ASSUME JournalInv, [JournalNext]_journalVars, spoiled' = {} PROVE JournalWhole'
  BY DEF JournalInv
<1>1. CASE UNCHANGED journalVars
  BY <1>1, StillJournal DEF journalVars, JournalInv
<1>2. CASE Start
  BY <1>2, StartKeepsJournal DEF Start, JournalInv
<1>3. CASE OthersUseChip
  BY <1>3, StillJournal, NobodyIsNobody DEF OthersUseChip, JournalInv
<1>4. ASSUME NEW t \in Printer,
             TimesOut(t) \/ Take(t) \/ WritePage(t) \/ WriteEnds(t) \/ Jprintf(t)
      PROVE  JournalWhole'
  <2>1. spoiled = {}
    BY <1>4 DEF TimesOut, Take, WritePage, WriteEnds, Jprintf, Prints
  <2>2. JournalWhole
    BY <2>1 DEF JournalInv
  <2>3. Started
    <3>1. job[t].at # "off"
      BY <1>4 DEF TimesOut, Take, WritePage, WriteEnds, Jprintf
    <3>2. Off.at = "off"
      BY DEF Off
    <3> QED BY <2>2, <3>1, <3>2 DEF JournalWhole, JournalTypes
  <2>4. CASE TimesOut(t)
    <3>1. ServiceLength \in Lines
      BY DEF Lines
    <3> QED BY <2>1, <2>2, <2>3, <2>4, <3>1, PrintKeepsJournal DEF TimesOut
  <2>5. CASE Jprintf(t)
    <3>1. PICK n \in Length : Prints(t, n)
      BY <2>5 DEF Jprintf
    <3>2. n \in Lines /\ job[t].at = "idle"
      BY <2>5 DEF Lines, Jprintf
    <3> QED BY <2>1, <2>2, <2>3, <3>1, <3>2, PrintKeepsJournal
  <2>6. CASE Take(t)
    BY <2>1, <2>2, <2>3, <2>6, TakeKeepsJournal
  <2>7. CASE WritePage(t)
    BY <2>2, <2>3, <2>7, PageKeepsJournal
  <2>8. CASE WriteEnds(t)
    BY <2>2, <2>3, <2>8, EndKeepsJournal
  <2> QED BY <1>4, <2>4, <2>5, <2>6, <2>7, <2>8
<1>5. ASSUME NEW t \in Printer, WriteGivenUp(t) PROVE FALSE
  BY <1>5 DEF WriteGivenUp
<1>6. Writer \subseteq Printer
  BY DEF Printer
<1> QED BY <1>1, <1>2, <1>3, <1>4, <1>5, <1>6 DEF JournalNext

\* Journal::Init finds the journal: at any moment at which the power could fail and no line
\* is being written, the marks in the EEPROM are found at the tail and the head of the
\* program, for a ring, pages and packets of any size, any lines and any writers; as long as
\* what the journal is not made for has not happened.
THEOREM JournalIsFound == JournalSpec => []MarksFound
<1>1. JournalInit => JournalInv
  BY JournalBegins DEF JournalInv
<1>2. JournalInv => MarksFound
  <2> SUFFICES ASSUME JournalInv, AtRest, spoiled = {}
      PROVE  /\ Found(TAIL) = tail
             /\ Found(HEAD) = IF cells[head] = HEAD THEN head ELSE -1
    BY DEF MarksFound
  <2>1. MarksAt(tail, head)
    BY DEF JournalInv, JournalWhole, MarksAreKnown, AtRest, Started
  <2> QED BY <2>1, MarksTellPlace
<1> QED BY <1>1, <1>2, JournalStep, PTL DEF JournalSpec
-----------------------------------------------------------------------------
(* What send_Data serves.                                                  *)

\* The k-th byte of the ring before a.
Before(a, k) == IF a >= k THEN a - k ELSE a - k + Size

\* A packet more than s.
AfterPacket(s) ==
  LET n == PacketAt(s.num)
      out == s.out \o [i \in 1 .. n |-> cells[s.num + i - 1]]
  IN IF s.over THEN s
     ELSE [num |-> IF s.num + n >= Size THEN 0 ELSE s.num + n, out |-> out,
           over |-> n = 0 \/ Len(out) >= Available]
NoPacket == [num |-> head + 1, out |-> <<>>, over |-> FALSE]
LastPacket == Size \div Packet + 1

ArePackets(f, n) == /\ f = [p \in 0 .. n |-> f[p]] /\ f[0] = NoPacket
                    /\ \A p \in 1 .. n : f[p] = AfterPacket(f[p - 1])

LEMMA PacketsExist == LastPacket \in Nat /\ \E f : ArePackets(f, LastPacket)
<1>1. LastPacket \in Nat
  <2>1. Size \div Packet \in Nat
    BY Geometry
  <2> QED BY <2>1 DEF LastPacket
<1> DEFINE Some == {n \in 0 .. LastPacket : \E f : ArePackets(f, n)}
<1>2. 0 \in Some
  <2>1. ArePackets([p \in 0 .. 0 |-> NoPacket], 0)
    BY DEF ArePackets
  <2> QED BY <1>1, <2>1
<1>3. Some # {} /\ Some \in SUBSET Nat /\ \A n \in Some : n <= LastPacket
  BY <1>1, <1>2
<1>4. PICK m \in Some : \A n \in Some : n <= m
  <2> HIDE DEF Some
  <2> QED BY <1>1, <1>3, Greatest
<1>5. m \in 0 .. LastPacket
  OBVIOUS
<1>6. CASE m = LastPacket
  BY <1>1, <1>6
<1>7. CASE m # LastPacket
  <2>1. PICK f : ArePackets(f, m)
    OBVIOUS
  <2> DEFINE g == [p \in 0 .. m + 1 |-> IF p = m + 1 THEN AfterPacket(f[m]) ELSE f[p]]
  <2>2. g[0] = NoPacket
    BY <1>5, <2>1 DEF ArePackets
  <2>3. ASSUME NEW p \in 1 .. m + 1 PROVE g[p] = AfterPacket(g[p - 1])
    <3>1. g[p - 1] = f[p - 1]
      BY <1>5
    <3>2. CASE p = m + 1
      BY <1>5, <3>1, <3>2
    <3>3. CASE p # m + 1
      <4>1. p \in 1 .. m /\ g[p] = f[p]
        BY <1>5, <3>3
      <4> QED BY <2>1, <3>1, <4>1 DEF ArePackets
    <3> QED BY <3>2, <3>3
  <2>4. g = [p \in 0 .. m + 1 |-> g[p]]
    OBVIOUS
  <2> HIDE DEF g
  <2>5. ArePackets(g, m + 1)
    BY <2>2, <2>3, <2>4 DEF ArePackets
  <2>6. m + 1 \in 0 .. LastPacket /\ ~(m + 1 <= m)
    BY <1>1, <1>5, <1>7
  <2>7. m + 1 \in Some
    BY <2>5, <2>6
  <2> QED BY <1>4, <2>6, <2>7
<1> QED BY <1>6, <1>7

LEMMA PacketsFollow == ArePackets(Sending, LastPacket)
<1> DEFINE F(f) == [p \in 0 .. LastPacket |-> IF p = 0 THEN NoPacket ELSE AfterPacket(f[p - 1])]
           h == Sending
<1>1. PICK g : ArePackets(g, LastPacket)
  BY PacketsExist
<1>2. g = F(g)
  <2>1. g = [p \in 0 .. LastPacket |-> g[p]]
    BY <1>1 DEF ArePackets
  <2>2. ASSUME NEW p \in 0 .. LastPacket
        PROVE  g[p] = IF p = 0 THEN NoPacket ELSE AfterPacket(g[p - 1])
    <3>1. p # 0 => p \in 1 .. LastPacket
      BY PacketsExist
    <3> QED BY <1>1, <3>1 DEF ArePackets
  <2> QED BY <2>1, <2>2
<1>3. h = CHOOSE f : f = F(f)
  BY DEF Sending, LastPacket, NoPacket, AfterPacket
<1>4. h = F(h)
  <2> HIDE DEF F, h
  <2> QED BY <1>2, <1>3
<1> HIDE DEF h
<1>5. h = [p \in 0 .. LastPacket |-> h[p]] /\ h[0] = NoPacket
      /\ \A p \in 1 .. LastPacket : h[p] = AfterPacket(h[p - 1])
  BY <1>4, PacketsExist
<1> QED BY <1>5 DEF ArePackets, h

\* What is served when r bytes are left.
ServedTo(r) == [i \in 1 .. Available - r |-> cells[Before(tail, Available - i + 1)]]

\* The text behind the head of a journal that has both marks, or no second one yet.
HasHead == /\ tail \in 0 .. Size - 2
           /\ full => head = tail + 1 /\ head <= Size - 2
           /\ ~full => head = 0 /\ tail >= 1

LEMMA ServesFrom ==
  ASSUME HasHead
  PROVE  /\ Available \in 0 .. Size - 2 /\ head + 1 = Before(tail, Available)
         /\ \A r \in 0 .. Available : Before(tail, r) \in 0 .. Size - 1
BY Geometry DEF HasHead, Available, Before

LEMMA ServedMore ==
  ASSUME HasHead, NEW r \in 0 .. Available, NEW n \in 0 .. r
  PROVE  ServedTo(r) \o [i \in 1 .. n |-> cells[Before(tail, r - i + 1)]] = ServedTo(r - n)
<1> DEFINE S == {cells[a] : a \in 0 .. Size - 1}
           x == [i \in 1 .. n |-> cells[Before(tail, r - i + 1)]]
           a == Available
<1>1. a \in Nat /\ r \in Nat /\ n \in Nat /\ r <= a /\ n <= r
  BY ServesFrom
<1>2. \A k \in 1 .. a : cells[Before(tail, k)] \in S
  BY <1>1, ServesFrom
<1>3. \A k \in 0 .. a : ServedTo(k) \in Seq(S) /\ Len(ServedTo(k)) = a - k
                        /\ \A i \in 1 .. a - k : ServedTo(k)[i] = cells[Before(tail, a - i + 1)]
  <2> SUFFICES ASSUME NEW k \in 0 .. a
               PROVE  ServedTo(k) \in Seq(S) /\ Len(ServedTo(k)) = a - k
                      /\ \A i \in 1 .. a - k : ServedTo(k)[i] = cells[Before(tail, a - i + 1)]
    OBVIOUS
  <2>1. a - k \in Nat /\ \A i \in 1 .. a - k : a - i + 1 \in 1 .. a
    BY <1>1
  <2>2. ServedTo(k) \in [1 .. a - k -> S]
    BY <1>2, <2>1 DEF ServedTo
  <2> HIDE DEF S
  <2> QED BY <2>1, <2>2 DEF ServedTo
<1>4. x \in Seq(S) /\ Len(x) = n /\ \A i \in 1 .. n : x[i] = cells[Before(tail, r - i + 1)]
  <2>1. \A i \in 1 .. n : r - i + 1 \in 1 .. a
    BY <1>1
  <2>2. x \in [1 .. n -> S]
    BY <1>2, <2>1
  <2> HIDE DEF S
  <2> QED BY <1>1, <2>2
<1> HIDE DEF S, x, a
<1>5. r - n \in 0 .. a
  BY <1>1
<1> DEFINE y == ServedTo(r)
<1>9. y \in Seq(S) /\ Len(y) = a - r
  BY <1>1, <1>3
<1> HIDE DEF y
<1>10. /\ y \o x \in Seq(S) /\ Len(y \o x) = Len(y) + Len(x)
       /\ \A i \in 1 .. Len(y) + Len(x) : (y \o x)[i] = IF i <= Len(y) THEN y[i] ELSE x[i - Len(y)]
  BY <1>4, <1>9, ConcatProperties
<1>6. /\ ServedTo(r) \o x \in Seq(S) /\ Len(ServedTo(r) \o x) = a - r + n
      /\ \A i \in 1 .. a - r + n : (ServedTo(r) \o x)[i] =
           IF i <= a - r THEN ServedTo(r)[i] ELSE x[i - (a - r)]
  BY <1>1, <1>4, <1>9, <1>10 DEF y
<1>7. ASSUME NEW i \in 1 .. a - r + n PROVE (ServedTo(r) \o x)[i] = ServedTo(r - n)[i]
  <2>1. ServedTo(r - n)[i] = cells[Before(tail, a - i + 1)]
    BY <1>1, <1>3, <1>5
  <2>2. CASE i <= a - r
    BY <1>1, <1>3, <1>6, <2>1, <2>2
  <2>3. CASE ~(i <= a - r)
    <3>1. i - (a - r) \in 1 .. n /\ r - (i - (a - r)) + 1 = a - i + 1
      BY <1>1, <2>3
    <3> QED BY <1>4, <1>6, <2>1, <2>3, <3>1
  <2> QED BY <2>2, <2>3
<1>8. ServedTo(r) \o x = ServedTo(r - n)
  <2>1. ServedTo(r - n) \in Seq(S) /\ Len(ServedTo(r - n)) = a - r + n
    <3>1. ServedTo(r - n) \in Seq(S) /\ Len(ServedTo(r - n)) = a - (r - n)
      BY <1>3, <1>5
    <3> QED BY <1>1, <3>1
  <2> QED BY <1>6, <1>7, <2>1, SeqEqual
<1> QED BY <1>8 DEF x

\* After p packets, r bytes are left: all packets are full but one at the ring's end.
Served(s, p, r) ==
  /\ r \in 0 .. Available /\ s.num = Before(tail, r) /\ s.out = ServedTo(r)
  /\ s.over => r = 0
  /\ ~s.over => \/ r > tail /\ Available - r = p * Packet
                \/ r <= tail /\ Available - r >= p * Packet - (Packet - 1)

LEMMA PacketIsServed ==
  ASSUME HasHead, NEW p \in Nat, NEW r, NEW s, Served(s, p, r)
  PROVE  \E k : Served(AfterPacket(s), p + 1, k)
<1> USE Geometry
<1>1. CASE s.over
  <2>1. AfterPacket(s) = s
    BY <1>1 DEF AfterPacket
  <2> QED BY <1>1, <2>1 DEF Served
<1>2. CASE ~s.over
  <2>a. PICK a : a = Available
    OBVIOUS
  <2>n. PICK n : n = PacketAt(s.num)
    OBVIOUS
  <2>1. a \in 0 .. Size - 2 /\ tail \in 0 .. Size - 2 /\ r \in 0 .. a /\ s.num = Before(tail, r)
    BY <2>a, ServesFrom DEF HasHead, Served
  <2>2. n \in Nat /\ n <= r /\ n <= Packet /\ (n = 0 => r = 0)
        /\ (r > tail => n <= r - tail /\ n \in {Packet, r - tail})
        /\ (r <= tail => n \in {Packet, r})
    <3>1. CASE r > tail
      <4>1. s.num = tail - r + Size /\ s.num > tail /\ s.num \in Nat /\ Size - s.num = r - tail
        BY <2>1, <3>1 DEF Before
      <4>2. n = Min({Packet, r - tail})
        BY <2>n, <4>1 DEF PacketAt
      <4>3. n \in {Packet, r - tail} /\ n <= Packet /\ n <= r - tail
        <5>1. r - tail \in Int /\ Packet \in Int
          BY <2>1
        <5> QED BY <4>2, <5>1, LesserOfTwo, Zenon
      <4> QED BY <2>1, <3>1, <4>3
    <3>2. CASE ~(r > tail)
      <4>1. s.num = tail - r /\ ~(s.num > tail) /\ tail - s.num = r
        BY <2>1, <3>2 DEF Before
      <4>2. n = Min({Packet, r})
        BY <2>n, <4>1 DEF PacketAt
      <4>3. n \in {Packet, r} /\ n <= Packet /\ n <= r
        <5>1. r \in Int /\ Packet \in Int
          BY <2>1
        <5> QED BY <4>2, <5>1, LesserOfTwo, Zenon
      <4> QED BY <2>1, <3>2, <4>3
    <3> QED BY <3>1, <3>2
  <2>k. PICK k : k = r - n
    OBVIOUS
  <2>3. k \in 0 .. a /\ n \in 0 .. r
    BY <2>1, <2>2, <2>k
  <2>4. Before(tail, k) = IF s.num + n >= Size THEN 0 ELSE s.num + n
    BY <2>1, <2>2, <2>k DEF Before
  <2>5. s.out \o [i \in 1 .. n |-> cells[s.num + i - 1]] = ServedTo(k)
    <3>1. \A i \in 1 .. n : s.num + i - 1 = Before(tail, r - i + 1)
      BY <2>1, <2>2 DEF Before
    <3>2. [i \in 1 .. n |-> cells[s.num + i - 1]]
            = [i \in 1 .. n |-> cells[Before(tail, r - i + 1)]]
      BY <3>1
    <3> QED BY <2>1, <2>3, <2>a, <2>k, <3>2, ServedMore DEF Served
  <2>6. Len(ServedTo(k)) = a - k
    BY <2>1, <2>3, <2>a DEF ServedTo
  <2>7. AfterPacket(s) = [num |-> Before(tail, k), out |-> ServedTo(k),
                          over |-> n = 0 \/ Len(ServedTo(k)) >= Available]
    BY <1>2, <2>4, <2>5, <2>n DEF AfterPacket
  <2>8. AfterPacket(s).over <=> n = 0 \/ a - k >= a
    <3>1. AfterPacket(s).over = (n = 0 \/ Len(ServedTo(k)) >= Available)
      BY <2>7
    <3> QED BY <2>6, <2>a, <3>1
  <2>9. AfterPacket(s).over => k = 0
    BY <2>1, <2>2, <2>3, <2>8, <2>k
  <2>m. PICK m : m = p * Packet
    OBVIOUS
  <2>10. m \in Nat /\ (p + 1) * Packet = m + Packet
    BY <2>m
  <2>11. \/ r > tail /\ a - r = m
         \/ r <= tail /\ a - r >= m - (Packet - 1)
    BY <1>2, <2>a, <2>m DEF Served
  <2>12. ~AfterPacket(s).over =>
           \/ k > tail /\ a - k = m + Packet
           \/ k <= tail /\ a - k >= m + Packet - (Packet - 1)
    BY <2>1, <2>2, <2>3, <2>8, <2>10, <2>11, <2>k
  <2>13. AfterPacket(s).num = Before(tail, k) /\ AfterPacket(s).out = ServedTo(k)
    BY <2>7
  <2> QED BY <2>3, <2>9, <2>10, <2>12, <2>13, <2>a DEF Served
<1> QED BY <1>1, <1>2

\* The text is served as a whole, and nothing else.
LEMMA ServesAll ==
  ASSUME HasHead PROVE Sent = ServedTo(0)
<1> USE Geometry
<1>1. Available \in 0 .. Size - 2 /\ head + 1 = Before(tail, Available)
  BY ServesFrom
<1>2. ArePackets(Sending, LastPacket) /\ LastPacket \in Nat
  BY PacketsFollow, PacketsExist
<1>3. Served(Sending[0], 0, Available)
  <2>1. ServedTo(Available) = <<>>
    <3>1. Available - Available = 0
      BY <1>1
    <3> QED BY <3>1 DEF ServedTo
  <2>2. Sending[0] = NoPacket
    BY <1>2 DEF ArePackets
  <2>3. Available \in 0 .. Available /\ Available - Available = 0 /\ 0 * Packet = 0
    BY <1>1
  <2>4. Sending[0].num = head + 1 /\ Sending[0].out = <<>> /\ ~Sending[0].over
    BY <2>2 DEF NoPacket
  <2> QED BY <1>1, <2>1, <2>3, <2>4 DEF Served, HasHead
<1> DEFINE Right == {p \in 0 .. LastPacket : \E r : Served(Sending[p], p, r)}
<1>4. 0 \in Right /\ Right \in SUBSET Nat /\ \A p \in Right : p <= LastPacket
  BY <1>2, <1>3
<1>5. PICK m \in Right : \A p \in Right : p <= m
  <2> HIDE DEF Right
  <2> QED BY <1>2, <1>4, Greatest
<1>6. m = LastPacket
  <2> SUFFICES ASSUME m # LastPacket PROVE FALSE
    OBVIOUS
  <2>1. m \in Nat /\ m + 1 \in 1 .. LastPacket /\ (m + 1) - 1 = m
    BY <1>2
  <2>2. PICK r : Served(Sending[m], m, r)
    OBVIOUS
  <2>3. Sending[m + 1] = AfterPacket(Sending[m])
    BY <1>2, <2>1 DEF ArePackets
  <2>4. PICK k : Served(AfterPacket(Sending[m]), m + 1, k)
    BY <2>1, <2>2, PacketIsServed
  <2>5. m + 1 \in Right
    BY <2>1, <2>3, <2>4
  <2> QED BY <1>5, <2>1, <2>5
<1>7. PICK r : Served(Sending[LastPacket], LastPacket, r)
  BY <1>5, <1>6
<1>8. LastPacket * Packet = Size + Packet
  <2>1. PICK q \in Nat : q = Size \div Packet
    BY Geometry
  <2>2. Size = Packet * q
    BY <2>1
  <2> QED BY <2>1, <2>2 DEF LastPacket
<1>9. Sending[LastPacket].over
  BY <1>1, <1>7, <1>8 DEF Served
<1>10. r = 0 /\ Sending[LastPacket].out = ServedTo(0)
  BY <1>7, <1>9 DEF Served
<1> QED BY <1>10 DEF Sent, LastPacket
-----------------------------------------------------------------------------
(* The text in the ring is the last that was written.                      *)

TextBefore(a, m) ==
  /\ Len(recent) >= m
  /\ \A k \in 1 .. m : cells[Before(a, k)] = recent[Len(recent) + 1 - k]

\* How many bytes are kept in a journal whose tail is at a; how many stay behind a line
\* that is being written.
NotWrapped == ~full /\ head = 0
Kept(a) == IF NotWrapped THEN a - 1 ELSE Size - 2
KeptBehind(j) == IF j.part = "only" /\ NotWrapped THEN tail - 1 ELSE Size - 2 - j.num

OneLine(j) == \A i \in 0 .. j.num - 1 : pbuf[i] = j.id

TextIsKnown ==
  /\ recent \in Seq(Nat)
  /\ \A t \in Printer : job[t].at = "take" => OneLine(job[t])
  /\ \A t \in Printer : job[t].at = "write" =>
       OneLine(job[t]) /\ (job[t].from > 0 => TextBefore(tail, KeptBehind(job[t])))
  /\ \A t \in Printer : job[t].at = "end" => TextBefore(EndOf(job[t]), Kept(EndOf(job[t])))
  /\ Started /\ (\A t \in Printer : job[t].at # "end" /\ (job[t].at = "write" => job[t].from = 0))
       => TextBefore(tail, Kept(tail))

\* What the next start would find, unless a write is under way.
LEMMA TextBetweenWrites ==
  ASSUME JournalWhole, TextIsKnown, Started,
         \A t \in Printer : job[t].at = "write" => job[t].from = 0
  PROVE  \E tl, hd : /\ MarksAt(tl, hd)
                     /\ TextBefore(tl, IF ~full /\ hd = 0 THEN tl - 1 ELSE Size - 2)
<1>1. CASE \E t \in Printer : job[t].at = "end"
  <2>1. PICK t \in Printer : job[t].at = "end"
    BY <1>1
  <2>a. PICK a : a = EndOf(job[t])
    OBVIOUS
  <2>2. MarksAt(a, HeadAfter(a)) /\ TextBefore(a, Kept(a))
    BY <2>1, <2>a DEF JournalWhole, MarksAreKnown, TextIsKnown
  <2>3. NotWrapped <=> ~full /\ HeadAfter(a) = 0
    BY <2>2 DEF NotWrapped, HeadAfter, MarksAt
  <2> QED BY <2>2, <2>3 DEF Kept
<1>2. CASE \A t \in Printer : job[t].at # "end"
  <2>1. MarksAt(tail, head) /\ TextBefore(tail, Kept(tail))
    BY <1>2 DEF JournalWhole, MarksAreKnown, TextIsKnown
  <2> QED BY <2>1 DEF Kept, NotWrapped
<1> QED BY <1>1, <1>2

LEMMA TextBegins == JournalInit => TextIsKnown
<1> SUFFICES ASSUME JournalInit PROVE TextIsKnown
  OBVIOUS
<1>1. Off.at = "off" /\ "setup" \in Printer /\ job = [t \in Printer |-> Off] /\ recent = <<>>
  BY DEF JournalInit, Off, Printer
<1>2. ~Started /\ \A t \in Printer : job[t].at = "off"
  BY <1>1 DEF Started
<1> QED BY <1>1, <1>2 DEF TextIsKnown

\* A line in the buffer is one line.
LEMMA LineIsFormatted ==
  ASSUME NEW t, NEW n \in Lines, NEW buf, Formats(t, n, buf)
  PROVE  \A i \in 0 .. n - 1 : pbuf'[i] = line
<1> SUFFICES ASSUME NEW i \in 0 .. n - 1 PROVE pbuf'[i] = line
  OBVIOUS
<1>1. i \in 0 .. BufferEnd /\ i < n
  BY LineFitsBuffer
<1> QED BY <1>1 DEF Formats

LEMMA StartKeepsText ==
  ASSUME JournalWhole, TextIsKnown, spoiled = {}, spoiled' = {}, Start PROVE TextIsKnown'
<1> USE Geometry
<1>1. "setup" \in Printer /\ ServiceLength \in Lines /\ Size >= 3
  BY ShortLines DEF Printer, Lines
<1>2. /\ job' = [t \in Printer |-> IF t = "setup" THEN Waits(ServiceLength) ELSE Idle]
      /\ Formats("setup", ServiceLength, EmptyBuffer) /\ recent' = recent
  BY DEF Start
<1>3. \A t \in Printer : job[t].at = "write" => job[t].from = 0
  <2>1. {"cut" : t \in {u \in Printer : job[u].at = "write" /\ job[u].from > 0}} = {}
    BY DEF Start
  <2>2. {u \in Printer : job[u].at = "write" /\ job[u].from > 0} = {}
    BY <2>1
  <2>3. \A t \in Printer : job[t].from \in Nat
    BY DEF JournalWhole, JournalTypes, JobType
  <2> QED BY <2>2, <2>3
<1>4. /\ Waits(ServiceLength).at = "take" /\ Waits(ServiceLength).num = ServiceLength
      /\ Waits(ServiceLength).id = line /\ Idle.at = "idle"
  BY DEF Waits, Off, Idle
<1>5. \A t \in Printer : /\ job'[t].at \in {"take", "idle"}
                         /\ job'[t].at = "take" => job'[t].num = ServiceLength /\ job'[t].id = line
  BY <1>2, <1>4
<1>6. \A t \in Printer : job'[t].at = "take" => OneLine(job[t])'
  BY <1>1, <1>2, <1>5, LineIsFormatted DEF OneLine
<1>7. TextBefore(tail, Kept(tail))'
  <2>1. CASE cells[-1] = READY
    <3>1. Started
      <4>1. -1 \in Address /\ READY # BLANK
        BY DEF Address, READY, BLANK
      <4> QED BY <2>1, <4>1 DEF JournalWhole, JournalTypes
    <3>2. PICK tl, hd : /\ MarksAt(tl, hd)
                        /\ TextBefore(tl, IF ~full /\ hd = 0 THEN tl - 1 ELSE Size - 2)
      BY <1>3, <3>1, TextBetweenWrites
    <3>3. head' = Found(HEAD) /\ tail' = Found(TAIL) /\ cells' = cells
      BY <2>1 DEF Start
    <3>4. tail' = tl /\ head' = (IF cells[hd] = HEAD THEN hd ELSE -1) /\ hd \in -1 .. Size - 1
      BY <3>2, <3>3, MarksTellPlace
    <3>5. full' <=> tail' < head'
      <4>1. full' = (tail' < head')
        BY <2>1 DEF Start
      <4> QED BY <4>1, Zenon
    <3>6. tl \in Nat /\ (~full /\ hd = 0 => cells[0] = HEAD) /\ (full => hd = tl + 1)
      BY <3>2 DEF MarksAt
    <3>7. ~full' /\ head' = 0 <=> ~full /\ hd = 0
      BY <3>4, <3>5, <3>6
    <3>8. Kept(tail)' = IF ~full /\ hd = 0 THEN tl - 1 ELSE Size - 2
      BY <3>4, <3>7 DEF Kept, NotWrapped
    <3> QED BY <1>2, <3>2, <3>3, <3>4, <3>8 DEF TextBefore
  <2>2. CASE cells[-1] # READY
    <3>1. head' = 0 /\ tail' = 1 /\ full' = FALSE
      BY <2>2 DEF Start
    <3>2. Kept(tail)' = 0
      BY <3>1 DEF Kept, NotWrapped
    <3>3. Len(recent') >= 0
      BY <1>2 DEF TextIsKnown
    <3> QED BY <3>2, <3>3 DEF TextBefore
  <2> QED BY <2>1, <2>2
<1> QED BY <1>2, <1>5, <1>6, <1>7 DEF TextIsKnown

LEMMA PrintKeepsText ==
  ASSUME JournalWhole, TextIsKnown, spoiled = {}, spoiled' = {}, Started,
         NEW t \in Printer, NEW n \in Lines, job[t].at \in {"idle", "take"}, Prints(t, n)
  PROVE  TextIsKnown'
<1>1. \A u \in Printer \ {t} : job[u].at \notin {"take", "write"}
  <2>1. {"overlap" : u \in {u \in Printer \ {t} : job[u].at \in {"take", "write"}}} = {}
    BY DEF Prints
  <2>2. {u \in Printer \ {t} : job[u].at \in {"take", "write"}} = {}
    BY <2>1
  <2> QED BY <2>2
<1>2. /\ job' = [job EXCEPT ![t] = Waits(n)] /\ Formats(t, n, pbuf)
      /\ UNCHANGED <<cells, head, tail, full, recent>>
  BY DEF Prints, Moves
<1>3. Waits(n).at = "take" /\ Waits(n).num = n /\ Waits(n).id = line
  BY DEF Waits, Off
<1>4. job'[t] = Waits(n) /\ \A u \in Printer : u # t => job'[u] = job[u]
  BY <1>2 DEF JournalWhole, JournalTypes
<1>5. \A u \in Printer : job'[u].at = "take" => OneLine(job[u])'
  BY <1>1, <1>2, <1>3, <1>4, LineIsFormatted DEF OneLine
<1>6. \A a, m : TextBefore(a, m) <=> TextBefore(a, m)'
  BY <1>2 DEF TextBefore
<1>7. \A u \in Printer : job'[u].at # "write"
  BY <1>1, <1>3, <1>4
<1>8. ASSUME NEW u \in Printer, job'[u].at = "end"
      PROVE  TextBefore(EndOf(job[u]), Kept(EndOf(job[u])))'
  <2>1. job'[u] = job[u] /\ job[u].at = "end"
    BY <1>3, <1>4, <1>8
  <2>2. TextBefore(EndOf(job[u]), Kept(EndOf(job[u])))
    BY <2>1 DEF TextIsKnown
  <2> QED BY <1>2, <2>1, <2>2 DEF TextBefore, EndOf, Kept, NotWrapped
<1>9. ASSUME \A u \in Printer : job'[u].at # "end" PROVE TextBefore(tail, Kept(tail))'
  <2>1. \A u \in Printer : job[u].at # "end" /\ job[u].at # "write"
    BY <1>1, <1>4, <1>9
  <2>2. TextBefore(tail, Kept(tail))
    BY <2>1 DEF TextIsKnown
  <2> QED BY <1>2, <2>2 DEF TextBefore, Kept, NotWrapped
<1> QED BY <1>2, <1>5, <1>7, <1>8, <1>9 DEF TextIsKnown

LEMMA TakeKeepsText ==
  ASSUME JournalWhole, TextIsKnown, Started, NEW t \in Printer, Take(t)
  PROVE  TextIsKnown'
<1>j. PICK j : j = job[t]
  OBVIOUS
<1>k. PICK k : k = job'[t]
  OBVIOUS
<1>1. j.at = "take" /\ holder = "none" /\ j.num \in Lines /\ OneLine(j) /\ j \in JobType
  BY <1>j DEF Take, JournalWhole, OneWriter, JournalTypes, TextIsKnown
<1>2. /\ pbuf' = WithMarks(j.num) /\ UNCHANGED <<cells, head, tail, full, recent>>
  BY <1>j DEF Take
<1>3. job' = [job EXCEPT ![t] = [j EXCEPT !.at = "write", !.pos = tail, !.from = 0,
                !.part = IF Wraps(j.num) THEN "first" ELSE "only",
                !.left = IF Wraps(j.num) THEN Size - tail ELSE j.num + 1 + (IF full THEN 1 ELSE 0)]]
  BY <1>j DEF Take, Moves
<1>4. /\ k.at = "write" /\ k.from = 0 /\ k.num = j.num /\ k.id = j.id
      /\ \A u \in Printer : u # t => job'[u] = job[u]
  BY <1>1, <1>3, <1>k DEF JournalWhole, JournalTypes, JobType
<1>5. \A u \in Printer : u # t => job[u].at \notin {"take", "write", "end"}
  BY <1>1, <1>j, NobodyIsNobody DEF JournalWhole, OneWriter
<1>6. OneLine(k)'
  <2> SUFFICES ASSUME NEW i \in 0 .. j.num - 1 PROVE pbuf'[i] = j.id
    BY <1>4 DEF OneLine
  <2>1. i \in 0 .. BufferEnd /\ i # j.num /\ i # j.num + 1
    BY <1>1, LineFitsBuffer
  <2>2. pbuf'[i] = pbuf[i]
    BY <1>2, <2>1 DEF WithMarks, JournalWhole, JournalTypes
  <2> QED BY <1>1, <2>2 DEF OneLine
<1>7. TextBefore(tail, Kept(tail))
  BY <1>1, <1>5, <1>j DEF TextIsKnown
<1>8. TextBefore(tail, Kept(tail))'
  BY <1>2, <1>7 DEF TextBefore, Kept, NotWrapped
<1>9. ~(k.from > 0)
  BY <1>4
<1>10. \A u \in Printer : job'[u].at \in {"take", "write", "end"} => u = t /\ job'[u] = k
  BY <1>4, <1>5, <1>k
<1>11. recent' \in Seq(Nat)
  BY <1>2 DEF TextIsKnown
<1>12. \A u \in Printer : job'[u].at = "write" =>
         OneLine(job[u])' /\ ~(job'[u].from > 0)
  BY <1>6, <1>9, <1>10 DEF OneLine
<1> QED BY <1>4, <1>8, <1>10, <1>11, <1>12 DEF TextIsKnown

LEMMA EndKeepsText ==
  ASSUME JournalWhole, TextIsKnown, Started, NEW t \in Printer, WriteEnds(t)
  PROVE  TextIsKnown'
<1>j. PICK j : j = job[t]
  OBVIOUS
<1>e. PICK e : e = EndOf(j)
  OBVIOUS
<1>1. /\ j.at = "end" /\ holder = t /\ MarksAt(e, HeadAfter(e)) /\ TextBefore(e, Kept(e))
  BY <1>j, <1>e DEF WriteEnds, JournalWhole, OneWriter, MarksAreKnown, TextIsKnown
<1>2. /\ UNCHANGED <<cells, pbuf, full, recent>> /\ tail' = e /\ head' = HeadAfter(e)
      /\ job' = [job EXCEPT ![t] = Idle]
  BY <1>j, <1>e DEF WriteEnds, Moves, EndOf, HeadAfter
<1>3. NotWrapped' <=> NotWrapped
  BY <1>1, <1>2 DEF NotWrapped, HeadAfter, MarksAt
<1>4. TextBefore(tail, Kept(tail))'
  BY <1>1, <1>2, <1>3 DEF TextBefore, Kept
<1>5. Idle.at = "idle"
  BY DEF Idle, Off
<1>6. /\ job'[t].at = "idle"
      /\ \A u \in Printer : u # t => job'[u] = job[u] /\ job'[u].at \notin {"write", "end"}
  BY <1>1, <1>2, <1>5 DEF JournalWhole, JournalTypes, OneWriter
<1>7. ASSUME NEW u \in Printer, job'[u].at = "take" PROVE OneLine(job[u])'
  <2>1. u # t /\ job'[u] = job[u]
    BY <1>6, <1>7
  <2>2. OneLine(job[u])
    BY <1>7, <2>1 DEF TextIsKnown
  <2> QED BY <1>2, <2>1, <2>2 DEF OneLine
<1>8. \A u \in Printer : job'[u].at \notin {"write", "end"}
  BY <1>6
<1> QED BY <1>2, <1>4, <1>7, <1>8 DEF TextIsKnown

LEMMA StillText ==
  ASSUME TextIsKnown, UNCHANGED <<cells, pbuf, head, tail, full, job, recent>>
  PROVE  TextIsKnown'
<1>1. Started' <=> Started
  BY DEF Started
<1>2. \A j : (OneLine(j)' <=> OneLine(j)) /\ EndOf(j)' = EndOf(j) /\ KeptBehind(j)' = KeptBehind(j)
  BY DEF OneLine, EndOf, KeptBehind, NotWrapped
<1>3. \A a : Kept(a)' = Kept(a)
  BY DEF Kept, NotWrapped
<1>4. \A a, m : TextBefore(a, m)' <=> TextBefore(a, m)
  BY DEF TextBefore
<1> QED BY <1>1, <1>2, <1>3, <1>4 DEF TextIsKnown

\* The last bytes that were written, after a line more.
LEMMA LastOfLine ==
  ASSUME NEW s \in Seq(Nat), NEW j, j.num \in Nat, j.id \in Nat, NEW u,
         u = LastOf(s \o TextOf(j))
  PROVE  /\ u \in Seq(Nat) /\ (Len(u) = Size \/ Len(u) = Len(s) + j.num)
         /\ \A k \in 1 .. Len(u) :
              u[Len(u) + 1 - k] = IF k <= j.num THEN j.id ELSE s[Len(s) + 1 - (k - j.num)]
<1> USE Geometry
<1> DEFINE num == j.num
           id == j.id
           x == TextOf(j)
<1>1. x \in Seq(Nat) /\ Len(x) = num /\ \A i \in 1 .. num : x[i] = id
  BY DEF TextOf
<1>0. num \in Nat /\ id \in Nat
  OBVIOUS
<1> HIDE DEF x, num, id
<1>y. PICK y : y = s \o x
  OBVIOUS
<1>2. /\ y \in Seq(Nat) /\ Len(y) = Len(s) + num /\ Len(s) \in Nat
      /\ \A i \in 1 .. Len(s) + num : y[i] = IF i <= Len(s) THEN s[i] ELSE id
  <2>1. /\ y \in Seq(Nat) /\ Len(y) = Len(s) + Len(x)
        /\ \A i \in 1 .. Len(s) + Len(x) : y[i] = IF i <= Len(s) THEN s[i] ELSE x[i - Len(s)]
    BY <1>1, <1>y, ConcatProperties
  <2>2. Len(s) \in Nat
    OBVIOUS
  <2>3. \A i \in 1 .. Len(s) + num : ~(i <= Len(s)) => i - Len(s) \in 1 .. num
    BY <1>0, <2>2
  <2> QED BY <1>1, <2>1, <2>2, <2>3
<1>m. PICK m : m = Max({1, Len(y) - Size + 1})
  OBVIOUS
<1>3. m \in {1, Len(y) - Size + 1} /\ m >= 1 /\ m >= Len(y) - Size + 1
  <2>1. Len(y) - Size + 1 \in Int
    BY <1>2
  <2>2. 1 \in Int
    OBVIOUS
  <2> QED BY <1>m, <2>1, <2>2, GreaterOfTwo, Zenon
<1>4. u = SubSeq(y, m, Len(y))
  BY <1>m, <1>y DEF LastOf, x
<1>l. PICK l : l = Len(y)
  OBVIOUS
<1>5. /\ l \in Nat /\ m \in Int /\ \A i \in m .. l : y[i] \in Nat
  BY <1>2, <1>3, <1>l
<1>6. /\ u \in Seq(Nat) /\ Len(u) = (IF m <= l THEN l - m + 1 ELSE 0)
      /\ \A i \in 1 .. l - m + 1 : u[i] = y[m + i - 1]
  <2>1. /\ SubSeq(y, m, l) \in Seq(Nat)
        /\ Len(SubSeq(y, m, l)) = (IF m <= l THEN l - m + 1 ELSE 0)
        /\ \A i \in 1 .. l - m + 1 : SubSeq(y, m, l)[i] = y[m + i - 1]
    <3>1. l \in Int
      BY <1>5
    <3> QED BY <1>5, <3>1, SubSeqProperties
  <2> QED BY <1>4, <1>l, <2>1
<1>7. Len(u) = l - m + 1 /\ (Len(u) = Size \/ Len(u) = Len(s) + num)
  <2>1. m \in {1, l - Size + 1} /\ m >= 1 /\ l = Len(s) + num /\ m <= l + 1
    BY <1>2, <1>3, <1>5, <1>l
  <2>2. Len(u) = IF m <= l THEN l - m + 1 ELSE 0
    BY <1>6
  <2>3. Len(u) = l - m + 1
    <3>1. m \in Int /\ l \in Int /\ m <= l + 1
      BY <1>5, <2>1
    <3>2. CASE m <= l
      BY <2>2, <3>2
    <3>3. CASE ~(m <= l)
      <4>1. l - m + 1 = 0
        BY <3>1, <3>3
      <4> QED BY <2>2, <3>3, <4>1
    <3> QED BY <3>2, <3>3
  <2> QED BY <1>5, <2>1, <2>3
<1>8. ASSUME NEW k \in 1 .. Len(u)
      PROVE  u[Len(u) + 1 - k] = IF k <= num THEN id ELSE s[Len(s) + 1 - (k - num)]
  <2>1. Len(u) + 1 - k \in 1 .. l - m + 1 /\ m + (Len(u) + 1 - k) - 1 = l + 1 - k
    <3>1. PICK v : v = Len(u)
      OBVIOUS
    <3>2. v = l - m + 1 /\ k \in 1 .. v
      BY <1>7, <3>1
    <3> QED BY <1>5, <3>1, <3>2
  <2>2. u[Len(u) + 1 - k] = y[l + 1 - k]
    BY <1>6, <2>1
  <2>3. l + 1 - k \in 1 .. Len(s) + num
    <3>1. PICK v : v = Len(u)
      OBVIOUS
    <3>2. v = l - m + 1 /\ k \in 1 .. v /\ l = Len(s) + num /\ m >= 1
      BY <1>2, <1>3, <1>7, <1>l, <3>1
    <3> QED BY <1>5, <3>2
  <2>4. y[l + 1 - k] = IF l + 1 - k <= Len(s) THEN s[l + 1 - k] ELSE id
    BY <1>2, <2>3
  <2>5. l = Len(s) + num /\ Len(s) \in Nat
    BY <1>2, <1>l
  <2>6. (l + 1 - k <= Len(s) <=> ~(k <= num)) /\ l + 1 - k = Len(s) + 1 - (k - num)
    BY <1>0, <2>5
  <2> QED BY <2>2, <2>4, <2>6
<1> QED BY <1>6, <1>7, <1>8 DEF num, id

LEMMA LessIsKept ==
  ASSUME NEW a, NEW m \in Int, NEW n \in Int, n <= m, TextBefore(a, m), recent \in Seq(Nat)
  PROVE  TextBefore(a, n)
BY DEF TextBefore

\* What a line has behind it in the ring, and what it will have when it is written.
LEMMA KeptByLine ==
  ASSUME JournalWhole, TextIsKnown, Started, NEW t \in Printer, NEW j, j = job[t], j.at = "write"
  PROVE  /\ TextBefore(tail, KeptBehind(j))
         /\ KeptBehind(j) \in Nat /\ KeptBehind(j) + j.num <= Size - 2
         /\ j.part # "only" => KeptBehind(j) <= tail - 2
<1> USE Geometry
<1>1. j \in JobType /\ j.num \in Lines /\ Writing(j)
  BY DEF JournalWhole, JournalTypes, OneWriter, MarksAreKnown
<1>2. /\ j.num \in 1 .. Size - 2 /\ j.part \in {"only", "first", "second"} /\ j.from \in Nat
      /\ tail \in 0 .. Size - 2
  BY <1>1, LineFitsBuffer DEF JobType, Writing
<1>3. /\ KeptBehind(j) \in Nat /\ KeptBehind(j) + j.num <= Size - 2
      /\ j.part # "only" => KeptBehind(j) <= tail - 2
  BY <1>1, <1>2 DEF KeptBehind, NotWrapped, Writing
<1>4. CASE j.from > 0
  BY <1>3, <1>4 DEF TextIsKnown
<1>5. CASE j.from = 0
  <2>1. \A u \in Printer : job[u].at # "end" /\ (job[u].at = "write" => job[u].from = 0)
    BY <1>5 DEF JournalWhole, OneWriter
  <2>2. TextBefore(tail, Kept(tail))
    BY <2>1 DEF TextIsKnown
  <2>3. Kept(tail) \in Int /\ KeptBehind(j) <= Kept(tail)
    <3>1. j.part # "second"
      <4>1. j.part = "second" => j.from = Size - tail + j.pos /\ j.pos \in Nat
        BY <1>1 DEF Writing, JobType
      <4> QED BY <1>2, <1>5, <4>1
    <3> QED BY <1>1, <1>2, <3>1 DEF Kept, KeptBehind, NotWrapped, Writing
  <2> QED BY <1>3, <2>2, <2>3, LessIsKept DEF TextIsKnown
<1> QED BY <1>2, <1>4, <1>5

\* n bytes of the line go into the chip.
WritesPage(j, n) == cells' = [a \in Address |-> IF a \in j.pos .. j.pos + n - 1
                                                THEN pbuf[j.from + a - j.pos] ELSE cells[a]]

\* A page spares what the line has behind it.
LEMMA PageSparesText ==
  ASSUME JournalWhole, TextIsKnown, Started, NEW t \in Printer, NEW j, j = job[t], j.at = "write",
         NEW n \in 1 .. j.left, NEW k \in 1 .. KeptBehind(j),
         WritesPage(j, n)
  PROVE  cells'[Before(tail, k)] = cells[Before(tail, k)]
<1> USE Geometry
<1>1. j \in JobType /\ j.num \in Lines /\ Writing(j)
  BY DEF JournalWhole, JournalTypes, OneWriter, MarksAreKnown
<1>2. /\ j.num \in 1 .. Size - 2 /\ j.part \in {"only", "first", "second"} /\ j.from \in Nat
      /\ j.pos \in Nat /\ j.left \in Nat /\ tail \in 0 .. Size - 2
  BY <1>1, LineFitsBuffer DEF JobType, Writing
<1>3. /\ KeptBehind(j) \in Nat /\ KeptBehind(j) + j.num <= Size - 2
      /\ j.part # "only" => KeptBehind(j) <= tail - 2
  BY KeptByLine
<1>4. Before(tail, k) \in 0 .. Size - 1
  BY <1>2, <1>3 DEF Before
<1>b. PICK b : b = Before(tail, k)
  OBVIOUS
<1>8. ASSUME b < j.pos \/ b >= j.pos + n PROVE cells'[b] = cells[b]
  <2>1. b \in Address /\ b \notin j.pos .. j.pos + n - 1
    BY <1>2, <1>4, <1>8, <1>b DEF Address
  <2> QED BY <2>1 DEF WritesPage
<1>5. CASE j.part = "only"
  <2>1. j.pos = tail + j.from /\ j.pos + n <= tail + j.num + 2
    <3>1. j.pos = tail + j.from /\ j.from + j.left = j.num + (IF full THEN 2 ELSE 1)
      BY <1>1, <1>5 DEF Writing
    <3> QED BY <1>2, <3>1
  <2>2. Before(tail, k) < tail \/ Before(tail, k) >= tail + j.num + 2
    BY <1>2, <1>3 DEF Before
  <2> QED BY <1>2, <1>4, <1>8, <1>b, <2>1, <2>2
<1>6. CASE j.part = "first"
  <2>1. j.pos >= tail
    BY <1>1, <1>2, <1>6 DEF Writing
  <2>2. Before(tail, k) < tail
    BY <1>2, <1>3, <1>6 DEF Before
  <2> QED BY <1>2, <1>4, <1>8, <1>b, <2>1, <2>2
<1>7. CASE j.part = "second"
  <2>1. j.pos + n <= j.num + 2 - Size + tail
    BY <1>1, <1>2, <1>7 DEF Writing
  <2>2. Before(tail, k) >= j.num + 2 - Size + tail
    BY <1>2, <1>3, <1>7 DEF Before
  <2> QED BY <1>2, <1>4, <1>8, <1>b, <2>1, <2>2
<1> QED BY <1>2, <1>5, <1>6, <1>7

\* With its last page the line is behind its end, and the text from before behind the line.
LEMMA LineFollowsText ==
  ASSUME JournalWhole, TextIsKnown, Started, NEW t \in Printer, NEW j, j = job[t], j.at = "write",
         j.part # "first",
         WritesPage(j, j.left),
         NEW k \in 1 .. KeptBehind(j) + j.num
  PROVE  cells'[Before(EndOf(j), k)] = IF k <= j.num THEN j.id ELSE cells[Before(tail, k - j.num)]
<1> USE Geometry
<1>1. j \in JobType /\ j.num \in Lines /\ Writing(j) /\ OneLine(j)
  BY DEF JournalWhole, JournalTypes, OneWriter, MarksAreKnown, TextIsKnown
<1>2. /\ j.num \in 1 .. Size - 2 /\ j.part \in {"only", "second"} /\ j.from \in Nat
      /\ j.pos \in Nat /\ j.left \in Nat /\ j.left >= 1 /\ tail \in 0 .. Size - 2
  BY <1>1, LineFitsBuffer DEF JobType, Writing
<1>3. /\ KeptBehind(j) \in Nat /\ KeptBehind(j) + j.num <= Size - 2
      /\ j.part # "only" => KeptBehind(j) <= tail - 2
  BY KeptByLine
<1>4. LineIsPlaced(j, j.left)
  BY <1>2, PageWritesLine DEF WritesPage
<1>e. PICK e : e = EndOf(j)
  OBVIOUS
<1>5. /\ j.part = "only" => /\ e = tail + j.num /\ e + 2 <= Size /\ j.pos = tail + j.from
                            /\ j.pos + j.left > e
      /\ j.part = "second" => /\ e = j.num - (Size - tail) /\ e >= 0 /\ e + 2 <= tail
                              /\ j.pos + j.left = e + 2
  BY <1>1, <1>2, <1>e DEF Writing, EndOf
<1>6. CASE k <= j.num
  <2>a. PICK a : a = Before(e, k)
    OBVIOUS
  <2>1. a \in 0 .. Size - 1 /\ PlaceInLine(a) = j.num - k /\ (j.part = "only" => tail <= a /\ a < e)
        /\ (j.part = "second" => tail <= a \/ a < e)
    BY <1>2, <1>5, <1>6, <2>a DEF Before, PlaceInLine
  <2>2. Covered(j, j.left, a)
    BY <1>2, <1>5, <2>1 DEF Covered, IsWritten
  <2>3. cells'[a] = pbuf[j.num - k]
    BY <1>4, <2>1, <2>2 DEF LineIsPlaced
  <2>4. j.num - k \in 0 .. j.num - 1
    BY <1>2, <1>6
  <2> QED BY <1>1, <1>6, <1>e, <2>3, <2>4, <2>a DEF OneLine
<1>7. CASE ~(k <= j.num)
  <2>1. k - j.num \in 1 .. KeptBehind(j)
    BY <1>2, <1>3, <1>7
  <2>2. Before(e, k) = Before(tail, k - j.num)
    <3>m. PICK m : m = KeptBehind(j)
      OBVIOUS
    <3>0. m \in Nat /\ k \in 1 .. m + j.num /\ (j.part = "second" => m <= tail - 2)
      BY <1>2, <1>3, <3>m
    <3>1. CASE j.part = "only"
      BY <1>2, <1>5, <1>7, <3>0, <3>1 DEF Before
    <3>2. CASE j.part = "second"
      <4>1. e - k < 0 /\ tail >= k - j.num /\ e - k + Size = tail - (k - j.num)
        BY <1>2, <1>5, <1>7, <3>0, <3>2
      <4> QED BY <1>2, <1>5, <3>0, <3>2, <4>1 DEF Before
    <3> QED BY <1>2, <3>1, <3>2
  <2>3. j.left \in 1 .. j.left
    BY <1>2
  <2>4. cells'[Before(tail, k - j.num)] = cells[Before(tail, k - j.num)]
    BY <2>1, <2>3, PageSparesText
  <2> QED BY <1>7, <1>e, <2>2, <2>4
<1> QED BY <1>6, <1>7

LEMMA PageKeepsText ==
  ASSUME JournalWhole, TextIsKnown, Started, NEW t \in Printer, WritePage(t)
  PROVE  TextIsKnown'
<1> USE Geometry
<1>j. PICK j : j = job[t]
  OBVIOUS
<1>k. PICK k : k = job'[t]
  OBVIOUS
<1>n. PICK n : n = Min({j.left, Page - (j.pos % Page)})
  OBVIOUS
<1>1. j.at = "write" /\ j \in JobType /\ j.num \in Lines /\ Writing(j) /\ holder = t /\ OneLine(j)
  BY <1>j DEF WritePage, JournalWhole, OneWriter, MarksAreKnown, JournalTypes, TextIsKnown
<1>2. /\ j.pos \in Nat /\ j.from \in Nat /\ j.left \in Nat /\ j.left >= 1 /\ j.id \in Nat
      /\ j.num \in 1 .. Size - 2 /\ j.part \in {"only", "first", "second"}
      /\ tail \in 0 .. Size - 2
  BY <1>1, LineFitsBuffer DEF JobType, Writing
<1>3. n \in 1 .. j.left
  BY <1>2, <1>n, PageHasBytes
<1>4. WritesPage(j, n) /\ UNCHANGED <<pbuf, head, tail>>
  BY <1>j, <1>n DEF WritePage, WritesPage
<1> DEFINE done == j.left = n
           next == [j EXCEPT !.pos = j.pos + n, !.from = j.from + n, !.left = j.left - n]
<1>5. full' <=> full \/ (done /\ j.part = "first")
  BY <1>j, <1>n DEF WritePage, JournalWhole, JournalTypes
<1>6. recent' = IF done /\ j.part # "first" THEN LastOf(recent \o TextOf(j)) ELSE recent
  BY <1>j, <1>n DEF WritePage
<1>7. k = IF ~done THEN next
          ELSE IF j.part = "first"
          THEN [next EXCEPT !.part = "second", !.pos = 0, !.left = j.num - next.from + 2]
          ELSE [next EXCEPT !.at = "end"]
  BY <1>j, <1>k, <1>n DEF WritePage, Moves, JournalWhole, JournalTypes
<1>8. /\ k.num = j.num /\ k.id = j.id
      /\ ~done => k.at = "write" /\ k.part = j.part
      /\ done /\ j.part = "first" => k.at = "write" /\ k.part = "second"
      /\ done /\ j.part # "first" => k.at = "end" /\ k.part = j.part
  <2>1. next.at = "write" /\ next.num = j.num /\ next.id = j.id /\ next.part = j.part
        /\ next \in JobType
    <3>1. j.pos + n \in Nat /\ j.from + n \in Nat /\ j.left - n \in Nat
      BY <1>2, <1>3
    <3> QED BY <1>1, <3>1 DEF JobType
  <2> HIDE DEF next, done
  <2> QED BY <1>7, <2>1 DEF JobType
<1> HIDE DEF next
<1>9. \A u \in Printer : u # t => job'[u] = job[u] /\ job'[u].at \notin {"take", "write", "end"}
  <2>1. \A u \in Printer : u # t => job'[u] = job[u]
    BY DEF WritePage, Moves, JournalWhole, JournalTypes
  <2> QED BY <1>1, <1>j, <2>1 DEF JournalWhole, OneWriter
<1>10. k.at \in {"write", "end"} /\ k.from > 0
  <2>1. k.from = j.from + n
    <3>1. /\ j.from + n \in Nat /\ next.from = j.from + n
      BY <1>1, <1>2, <1>3 DEF next, JobType
    <3> QED BY <1>7, <3>1 DEF next
  <2> QED BY <1>2, <1>3, <1>8, <2>1
<1>11. /\ TextBefore(tail, KeptBehind(j)) /\ KeptBehind(j) \in Nat
       /\ KeptBehind(j) + j.num <= Size - 2
  BY <1>1, <1>j, KeptByLine
<1>12. recent \in Seq(Nat)
  BY DEF TextIsKnown
<1>13. CASE k.at = "write"
  <2>1. recent' = recent
    BY <1>6, <1>8, <1>13
  <2>2. OneLine(k)'
    BY <1>1, <1>4, <1>8 DEF OneLine
  <2>3. KeptBehind(k)' = KeptBehind(j)
    <3>1. CASE ~done
      BY <1>4, <1>5, <1>8, <3>1 DEF KeptBehind, NotWrapped
    <3>2. CASE done
      BY <1>4, <1>5, <1>8, <1>13, <3>2 DEF KeptBehind, NotWrapped
    <3> QED BY <3>1, <3>2
  <2>4. \A i \in 1 .. KeptBehind(j) : cells'[Before(tail, i)] = cells[Before(tail, i)]
    BY <1>1, <1>3, <1>4, <1>j, PageSparesText
  <2>5. TextBefore(tail, KeptBehind(k))'
    BY <1>4, <1>11, <2>1, <2>3, <2>4 DEF TextBefore
  <2>6. \A u \in Printer : job'[u].at \in {"take", "write", "end"} => u = t /\ job'[u] = k
    BY <1>9, <1>k
  <2>7. \A u \in Printer : job'[u].at = "write" =>
          (OneLine(job[u]) /\ (job[u].from > 0 => TextBefore(tail, KeptBehind(job[u]))))'
    BY <2>2, <2>5, <2>6 DEF OneLine, KeptBehind, TextBefore
  <2> QED BY <1>10, <1>12, <1>13, <1>k, <2>1, <2>6, <2>7 DEF TextIsKnown
<1>14. CASE k.at = "end"
  <2>1. done /\ j.part # "first" /\ k.part = j.part /\ (full' <=> full)
    BY <1>5, <1>8, <1>14
  <2>e. PICK e : e = EndOf(j)
    OBVIOUS
  <2>2. EndOf(k)' = e /\ Kept(EndOf(k))' = KeptBehind(j) + j.num
    BY <1>1, <1>2, <1>4, <1>8, <2>1, <2>e DEF EndOf, Kept, KeptBehind, NotWrapped, Writing
  <2>m. PICK m : m = KeptBehind(j) + j.num
    OBVIOUS
  <2>3. \A i \in 1 .. m :
          cells'[Before(e, i)] = IF i <= j.num THEN j.id ELSE cells[Before(tail, i - j.num)]
    <3>1. WritesPage(j, j.left)
      BY <1>4, <2>1
    <3> QED BY <1>1, <1>j, <2>1, <2>e, <2>m, <3>1, LineFollowsText
  <2>4. /\ recent' \in Seq(Nat) /\ (Len(recent') = Size \/ Len(recent') = Len(recent) + j.num)
        /\ \A i \in 1 .. Len(recent') :
             recent'[Len(recent') + 1 - i] =
               IF i <= j.num THEN j.id ELSE recent[Len(recent) + 1 - (i - j.num)]
    <3>1. recent' = LastOf(recent \o TextOf(j)) /\ j.num \in Nat /\ j.id \in Nat
      BY <1>2, <1>6, <2>1
    <3> HIDE Geometry
    <3> QED BY <1>12, <3>1, LastOfLine, Zenon
  <2>5. Len(recent') >= m /\ Len(recent) \in Nat /\ Len(recent') \in Nat
    BY <1>2, <1>11, <1>12, <2>4, <2>m DEF TextBefore
  <2>6. ASSUME NEW i \in 1 .. m PROVE cells'[Before(e, i)] = recent'[Len(recent') + 1 - i]
    <3>1. i \in 1 .. Len(recent')
      BY <1>2, <1>11, <2>5, <2>m
    <3>2. CASE i <= j.num
      BY <2>3, <2>4, <3>1, <3>2
    <3>3. CASE ~(i <= j.num)
      <4>1. i - j.num \in 1 .. KeptBehind(j)
        BY <1>2, <1>11, <2>m, <3>3
      <4>2. cells[Before(tail, i - j.num)] = recent[Len(recent) + 1 - (i - j.num)]
        BY <1>11, <4>1 DEF TextBefore
      <4> QED BY <2>3, <2>4, <3>1, <3>3, <4>2
    <3> QED BY <3>2, <3>3
  <2>7. TextBefore(EndOf(k), Kept(EndOf(k)))'
    BY <2>2, <2>5, <2>6, <2>m DEF TextBefore
  <2>8. \A u \in Printer : job'[u].at \in {"take", "write", "end"} => u = t /\ job'[u] = k
    BY <1>9, <1>k
  <2>9. \A u \in Printer : job'[u].at = "end" => TextBefore(EndOf(job[u]), Kept(EndOf(job[u])))'
    BY <2>7, <2>8 DEF EndOf, Kept, TextBefore
  <2> QED BY <1>14, <1>k, <2>4, <2>8, <2>9 DEF TextIsKnown
<1> QED BY <1>10, <1>13, <1>14

TextInv == spoiled = {} => JournalWhole /\ TextIsKnown

LEMMA TextStep == TextInv /\ [JournalNext]_journalVars => TextInv'
<1> SUFFICES ASSUME TextInv, [JournalNext]_journalVars, spoiled' = {}
             PROVE  JournalWhole' /\ TextIsKnown'
  BY DEF TextInv
<1>1. JournalInv
  BY DEF TextInv, JournalInv
<1>2. JournalWhole'
  BY <1>1, JournalStep DEF JournalInv
<1>3. CASE UNCHANGED journalVars
  BY <1>2, <1>3, StillText DEF journalVars, TextInv
<1>4. CASE Start
  BY <1>2, <1>4, StartKeepsText DEF Start, TextInv
<1>5. CASE OthersUseChip
  BY <1>2, <1>5, StillText DEF OthersUseChip, TextInv
<1>6. ASSUME NEW t \in Printer,
             TimesOut(t) \/ Take(t) \/ WritePage(t) \/ WriteEnds(t) \/ Jprintf(t)
      PROVE  TextIsKnown'
  <2>1. spoiled = {}
    BY <1>6 DEF TimesOut, Take, WritePage, WriteEnds, Jprintf, Prints
  <2>2. JournalWhole /\ TextIsKnown
    BY <2>1 DEF TextInv
  <2>3. Started
    <3>1. job[t].at # "off"
      BY <1>6 DEF TimesOut, Take, WritePage, WriteEnds, Jprintf
    <3>2. Off.at = "off"
      BY DEF Off
    <3> QED BY <2>2, <3>1, <3>2 DEF JournalWhole, JournalTypes
  <2>4. CASE TimesOut(t)
    <3>1. ServiceLength \in Lines
      BY DEF Lines
    <3> QED BY <2>1, <2>2, <2>3, <2>4, <3>1, PrintKeepsText DEF TimesOut
  <2>5. CASE Jprintf(t)
    <3>1. PICK n \in Length : Prints(t, n)
      BY <2>5 DEF Jprintf
    <3>2. n \in Lines /\ job[t].at = "idle"
      BY <2>5 DEF Lines, Jprintf
    <3> QED BY <2>1, <2>2, <2>3, <3>1, <3>2, PrintKeepsText
  <2>6. CASE Take(t)
    BY <2>2, <2>3, <2>6, TakeKeepsText
  <2>7. CASE WritePage(t)
    BY <2>2, <2>3, <2>7, PageKeepsText
  <2>8. CASE WriteEnds(t)
    BY <2>2, <2>3, <2>8, EndKeepsText
  <2> QED BY <1>6, <2>4, <2>5, <2>6, <2>7, <2>8
<1>7. ASSUME NEW t \in Printer, WriteGivenUp(t) PROVE FALSE
  BY <1>7 DEF WriteGivenUp
<1>8. Writer \subseteq Printer
  BY DEF Printer
<1> QED BY <1>2, <1>3, <1>4, <1>5, <1>6, <1>7, <1>8 DEF JournalNext

\* At rest a client gets the end of what was written, and as much as the ring has.
LEMMA ServedIsRecent ==
  ASSUME HasHead, recent \in Seq(Nat), TextBefore(tail, Available)
  PROVE  IsSuffix(Sent, recent) /\ Len(Sent) >= Available
<1>a. PICK a : a = Available
  OBVIOUS
<1>1. a \in Nat /\ a <= Len(recent) /\ Len(recent) \in Nat
  BY <1>a, ServesFrom DEF TextBefore
<1>2. Sent = [i \in 1 .. a |-> cells[Before(tail, a - i + 1)]]
  <2>1. a - 0 = a
    BY <1>1
  <2> QED BY <1>a, <2>1, ServesAll DEF ServedTo
<1>s. PICK s : s = Sent
  OBVIOUS
<1>3. /\ Len(s) = a /\ \A i \in 1 .. a : s[i] = cells[Before(tail, a - i + 1)]
  BY <1>1, <1>2, <1>s
<1>4. \A k \in 1 .. a : s[a - k + 1] = recent[Len(recent) - k + 1]
  <2> SUFFICES ASSUME NEW k \in 1 .. a PROVE s[a - k + 1] = recent[Len(recent) - k + 1]
    OBVIOUS
  <2>1. a - k + 1 \in 1 .. a /\ a - (a - k + 1) + 1 = k
        /\ Len(recent) - k + 1 = Len(recent) + 1 - k
    BY <1>1
  <2>2. cells[Before(tail, k)] = recent[Len(recent) + 1 - k]
    BY <1>a DEF TextBefore
  <2> QED BY <1>3, <2>1, <2>2
<1>5. /\ Reverse(s) = [k \in 1 .. a |-> s[a - k + 1]]
      /\ Reverse(recent) = [k \in 1 .. Len(recent) |-> recent[Len(recent) - k + 1]]
  BY <1>3 DEF Reverse
<1>6. Len(Reverse(s)) = a /\ Len(Reverse(recent)) = Len(recent)
  BY <1>1, <1>5
<1>7. \A k \in 1 .. a : Reverse(s)[k] = Reverse(recent)[k]
  BY <1>1, <1>4, <1>5
<1>8. SubSeq(Reverse(s), 1, a) = SubSeq(Reverse(recent), 1, a)
  BY <1>1, <1>7 DEF SubSeq
<1> QED BY <1>1, <1>3, <1>6, <1>8, <1>a, <1>s DEF IsSuffix, IsPrefix

\* The journal reads back: at any moment at which no line is being written, a client gets the
\* last bytes that were written, in order and without marks, and all that the ring has of
\* them; over any wraps, restarts and lines, for a ring, pages and packets of any size, as long
\* as what the journal is not made for has not happened.
THEOREM JournalReadsBack == JournalSpec => []ReadsBack
<1>1. JournalInit => TextInv
  BY JournalBegins, TextBegins DEF TextInv
<1>2. TextInv => ReadsBack
  <2> SUFFICES ASSUME TextInv, AtRest, spoiled = {}, head \in 0 .. Size - 2
               PROVE  IsSuffix(Sent, recent) /\ Len(Sent) >= Available
    BY DEF ReadsBack
  <2>1. MarksAt(tail, head) /\ TextBefore(tail, Kept(tail)) /\ recent \in Seq(Nat)
    BY DEF TextInv, JournalWhole, MarksAreKnown, TextIsKnown, AtRest, Started
  <2>2. HasHead
    BY <2>1 DEF MarksAt, HasHead
  <2>3. Kept(tail) = Available
    BY <2>2 DEF HasHead, Kept, NotWrapped, Available
  <2> QED BY <2>1, <2>2, <2>3, ServedIsRecent
<1> QED BY <1>1, <1>2, TextStep, PTL DEF JournalSpec
=============================================================================
