--------------------------- MODULE CardFileProofs ---------------------------
(***************************************************************************)
(* The files on the card, for every size of a block and of a file and for  *)
(* all lengths of lines: the search by halves finds the end of the text,   *)
(* a line that was saved stays in the file, and behind the first line no   *)
(* day has two.                                                            *)
(***************************************************************************)
EXTENDS DayFile, MinuteFile, FiniteSetTheorems, WellFoundedInduction, TLAPS

Files == [BLOCKS -> [OFFSETS -> Nat]]

LEMMA CardNumbers == BlockSize \in Nat /\ BlockSize > 0 /\ LastBlock \in Nat /\ LastBlock > 0
BY CardBlocks

\* A set of numbers has a smallest one: the natural numbers are well-founded.
LEMMA SmallestOf ==
  ASSUME NEW S \in SUBSET Nat, S # {}
  PROVE  \E i \in S : \A j \in S : i <= j
<1>1. PICK i \in S : \A j \in S : ~(<<j, i>> \in OpToRel(<, Nat))
  BY NatLessThanWellFounded, WFMin
<1>2. \A j \in S : ~(j < i)
  BY <1>1 DEF OpToRel
<1> QED BY <1>2

LEMMA OldestIs ==
  ASSUME NEW S \in SUBSET Nat, S # {}
  PROVE  Oldest(S) \in S /\ \A j \in S : Oldest(S) <= j
BY SmallestOf DEF Oldest

\* A set of numbers below a bound has a largest one.
LEMMA NewestIs ==
  ASSUME NEW S \in SUBSET Nat, S # {}, NEW m \in Nat, \A i \in S : i <= m
  PROVE  Newest(S) \in S /\ \A j \in S : j <= Newest(S)
<1> DEFINE D == {m - i : i \in S}
<1>1. D \in SUBSET Nat /\ D # {}
  <2>1. ASSUME NEW i \in S PROVE m - i \in Nat
    OBVIOUS
  <2>2. PICK i \in S : TRUE
    OBVIOUS
  <2>3. m - i \in D
    OBVIOUS
  <2> QED BY <2>1, <2>3
<1>2. PICK d \in D : \A e \in D : d <= e
  <2> HIDE DEF D
  <2> QED BY <1>1, SmallestOf
<1>3. PICK i \in S : d = m - i
  BY <1>2
<1>4. \A j \in S : j <= i
  <2> SUFFICES ASSUME NEW j \in S PROVE j <= i
    OBVIOUS
  <2>1. m - j \in D
    OBVIOUS
  <2> QED BY <1>2, <1>3, <2>1
<1> QED BY <1>3, <1>4 DEF Newest

-----------------------------------------------------------------------------
(* Places in a file: a number, or a block and an offset                        *)

LEMMA Multiples ==
  ASSUME NEW a \in Nat, NEW b \in Nat
  PROVE  /\ a * BlockSize \in Nat
         /\ (a + 1) * BlockSize = a * BlockSize + BlockSize
         /\ a < b => a * BlockSize + BlockSize <= b * BlockSize
         /\ a <= b => a * BlockSize <= b * BlockSize
<1>1. a * BlockSize \in Nat /\ (a + 1) * BlockSize = a * BlockSize + BlockSize
  BY CardNumbers
<1>2. ASSUME a <= b PROVE a * BlockSize <= b * BlockSize
  <2>1. b - a \in Nat /\ b = a + (b - a)
    BY <1>2
  <2>2. b * BlockSize = a * BlockSize + (b - a) * BlockSize /\ (b - a) * BlockSize \in Nat
    BY <2>1, CardNumbers
  <2> QED BY <1>1, <2>2
<1>3. ASSUME a < b PROVE a * BlockSize + BlockSize <= b * BlockSize
  <2>1. b - (a + 1) \in Nat /\ b = (a + 1) + (b - (a + 1))
    BY <1>3
  <2>2. /\ b * BlockSize = (a + 1) * BlockSize + (b - (a + 1)) * BlockSize
        /\ (b - (a + 1)) * BlockSize \in Nat
    BY <2>1, CardNumbers
  <2>3. b * BlockSize \in Nat /\ (a + 1) * BlockSize \in Nat
    BY CardNumbers
  <2>4. (a + 1) * BlockSize <= b * BlockSize
    BY <2>2, <2>3
  <2> QED BY <1>1, <2>4
<1> QED BY <1>1, <1>2, <1>3

\* Two ways to name a place are the same one.
LEMMA SamePlace ==
  ASSUME NEW a \in Nat, NEW b \in Nat, NEW i \in OFFSETS, NEW j \in OFFSETS,
         a * BlockSize + i = b * BlockSize + j
  PROVE  a = b /\ i = j
<1> USE CardNumbers DEF OFFSETS
<1>1. i \in Nat /\ j \in Nat /\ i < BlockSize /\ j < BlockSize
  OBVIOUS
<1>2. ~(a < b)
  BY <1>1, Multiples
<1>3. ~(b < a)
  <2>1. b < a => b * BlockSize + BlockSize <= a * BlockSize
    BY Multiples
  <2>2. a * BlockSize \in Nat /\ b * BlockSize \in Nat
    OBVIOUS
  <2> QED BY <1>1, <2>1, <2>2
<1> QED BY <1>1, <1>2, <1>3, Multiples

\* A number is a block and an offset in it.
LEMMA PlaceOf ==
  ASSUME NEW i \in Nat
  PROVE  /\ i \div BlockSize \in Nat /\ i % BlockSize \in OFFSETS
         /\ i = (i \div BlockSize) * BlockSize + (i % BlockSize)
         /\ i < FileEnd => i \div BlockSize \in BLOCKS
<1> USE CardNumbers DEF OFFSETS
<1>1. i \div BlockSize \in Int /\ i % BlockSize \in 0 .. BlockSize - 1
  OBVIOUS
<1>2. i = BlockSize * (i \div BlockSize) + (i % BlockSize)
  OBVIOUS
<1>3. i \div BlockSize \in Nat
  BY <1>1, <1>2
<1>4. ASSUME i < FileEnd PROVE i \div BlockSize \in BLOCKS
  <2>1. ~(LastBlock + 1 <= i \div BlockSize)
    <3>1. LastBlock + 1 <= i \div BlockSize =>
            (LastBlock + 1) * BlockSize <= (i \div BlockSize) * BlockSize
      BY <1>3, Multiples
    <3>2. (i \div BlockSize) * BlockSize <= i
      BY <1>1, <1>2, <1>3
    <3> QED BY <1>3, <1>4, <3>1, <3>2 DEF FileEnd
  <2> QED BY <1>3, <2>1 DEF BLOCKS
<1> QED BY <1>1, <1>2, <1>3, <1>4

\* A block and an offset are a number.
LEMMA FlatIs ==
  ASSUME NEW b \in Nat, NEW k \in OFFSETS
  PROVE  /\ b * BlockSize + k \in Nat
         /\ (b * BlockSize + k) \div BlockSize = b /\ (b * BlockSize + k) % BlockSize = k
         /\ b \in BLOCKS => b * BlockSize + k < FileEnd
<1> DEFINE i == b * BlockSize + k
<1>1. k \in Nat /\ k < BlockSize /\ b * BlockSize \in Nat /\ i \in Nat
  BY CardNumbers DEF OFFSETS
<1> HIDE DEF i
<1>2. i \div BlockSize \in Nat /\ i % BlockSize \in OFFSETS
      /\ i = (i \div BlockSize) * BlockSize + (i % BlockSize)
  BY <1>1, PlaceOf
<1>3. i \div BlockSize = b /\ i % BlockSize = k
  <2>1. (i \div BlockSize) * BlockSize + (i % BlockSize) = b * BlockSize + k
    BY <1>2 DEF i
  <2> QED BY <1>2, <2>1, SamePlace
<1>4. ASSUME b \in BLOCKS PROVE i < FileEnd
  <2>1. b < LastBlock + 1 /\ LastBlock + 1 \in Nat
    BY <1>4, CardNumbers DEF BLOCKS
  <2>2. b * BlockSize + BlockSize <= (LastBlock + 1) * BlockSize
    BY <2>1, Multiples
  <2>3. (LastBlock + 1) * BlockSize \in Nat
    BY CardNumbers
  <2> QED BY <1>1, <2>2, <2>3, CardNumbers DEF FileEnd, i
<1> QED BY <1>1, <1>3, <1>4 DEF i

LEMMA ByteIs ==
  ASSUME NEW file, NEW b \in Nat, NEW k \in OFFSETS
  PROVE  ByteAt(file, b * BlockSize + k) = file[b][k]
BY FlatIs DEF ByteAt

LEMMA ByteTyped ==
  ASSUME NEW file \in Files, NEW i \in Nat, i < FileEnd
  PROVE  ByteAt(file, i) \in Nat
BY PlaceOf DEF ByteAt, Files

LEMMA FileEndIs == FileEnd \in Nat /\ FileEnd = LastBlock * BlockSize + BlockSize
BY CardNumbers, Multiples DEF FileEnd

LEMMA BlockBounds ==
  ASSUME NEW c \in BLOCKS
  PROVE  /\ c \in Nat /\ c * BlockSize \in Nat /\ (c + 1) * BlockSize = c * BlockSize + BlockSize
         /\ c * BlockSize + BlockSize <= FileEnd /\ FileEnd \in Nat
         /\ BlockSize \in Nat /\ BlockSize > 0 /\ LastBlock \in Nat
         /\ c < LastBlock => c + 1 \in BLOCKS
         /\ c < LastBlock \/ c * BlockSize + BlockSize = FileEnd
<1>1. c \in Nat /\ c <= LastBlock /\ BlockSize \in Nat /\ BlockSize > 0 /\ LastBlock \in Nat
  BY CardNumbers DEF BLOCKS
<1>2. c * BlockSize \in Nat /\ (c + 1) * BlockSize = c * BlockSize + BlockSize
  BY <1>1, Multiples
<1>3. c + 1 \in Nat /\ LastBlock + 1 \in Nat /\ c + 1 <= LastBlock + 1
  BY <1>1
<1>4. (c + 1) * BlockSize <= (LastBlock + 1) * BlockSize
  BY <1>3, Multiples
<1>5. c = LastBlock => c * BlockSize + BlockSize = FileEnd
  BY <1>2 DEF FileEnd
<1>6. c < LastBlock \/ c = LastBlock
  BY <1>1
<1>7. c < LastBlock => c + 1 \in BLOCKS
  BY <1>1 DEF BLOCKS
<1>8. c * BlockSize + BlockSize <= FileEnd
  BY <1>2, <1>4 DEF FileEnd
<1> QED BY <1>1, <1>2, <1>5, <1>6, <1>7, <1>8, FileEndIs

\* What the file has at a place of block c.
LEMMA BytesOfBlock ==
  ASSUME NEW file, NEW c \in BLOCKS, NEW i \in Nat,
         c * BlockSize <= i, i < c * BlockSize + BlockSize
  PROVE  i - c * BlockSize \in OFFSETS /\ ByteAt(file, i) = file[c][i - c * BlockSize]
<1>1. c \in Nat /\ c * BlockSize \in Nat /\ BlockSize \in Nat
  BY BlockBounds
<1>2. i - c * BlockSize \in OFFSETS /\ c * BlockSize + (i - c * BlockSize) = i
  BY <1>1 DEF OFFSETS
<1>3. ByteAt(file, c * BlockSize + (i - c * BlockSize)) = file[c][i - c * BlockSize]
  BY <1>1, <1>2, ByteIs
<1> QED BY <1>2, <1>3

-----------------------------------------------------------------------------
(* The text of a file and its lines                                            *)

TextTo(file, t) ==
  /\ t \in 0 .. FileEnd
  /\ \A i \in 0 .. t - 1 : ByteAt(file, i) # NUL
  /\ t = FileEnd \/ ByteAt(file, t) = NUL

\* The text goes to the first NUL, or to the end of the file.
LEMMA TextEndIs == ASSUME NEW file PROVE TextTo(file, TextEnd(file))
<1> DEFINE S == {i \in 0 .. FileEnd : i = FileEnd \/ ByteAt(file, i) = NUL}
           t == TextEnd(file)
<1>1. S \in SUBSET Nat /\ FileEnd \in S
  BY FileEndIs
<1>2. t = Oldest(S)
  BY DEF TextEnd
<1>3. t \in S /\ \A j \in S : t <= j
  <2> HIDE DEF S, t
  <2> QED BY <1>1, <1>2, OldestIs
<1>4. ASSUME NEW i \in 0 .. t - 1 PROVE ByteAt(file, i) # NUL
  <2>1. t \in 0 .. FileEnd
    BY <1>3
  <2>2. i \in 0 .. FileEnd /\ ~(t <= i)
    BY <2>1, FileEndIs
  <2> QED BY <1>3, <2>2
<1> QED BY <1>3, <1>4 DEF TextTo

LEMMA TextEndOnly ==
  ASSUME NEW file, NEW t, TextTo(file, t)
  PROVE  t = TextEnd(file)
<1> DEFINE u == TextEnd(file)
<1>1. TextTo(file, u)
  BY TextEndIs
<1> HIDE DEF u
<1>2. t \in Nat /\ u \in Nat /\ t <= FileEnd /\ u <= FileEnd
  BY <1>1, FileEndIs DEF TextTo
<1>3. ~(t < u)
  <2>1. t < u => t \in 0 .. u - 1 /\ t # FileEnd
    BY <1>2, FileEndIs
  <2> QED BY <1>1, <2>1 DEF TextTo
<1>4. ~(u < t)
  <2>1. u < t => u \in 0 .. t - 1 /\ u # FileEnd
    BY <1>2, FileEndIs
  <2> QED BY <1>1, <2>1 DEF TextTo
<1> QED BY <1>2, <1>3, <1>4 DEF u

\* The end of the last whole line is the last place where a line may start.
LEMMA EndOfTextIs ==
  ASSUME NEW file
  PROVE  /\ EndOfText(file) \in LineStarts(file)
         /\ \A j \in LineStarts(file) : j <= EndOfText(file)
<1>1. TextEnd(file) \in Nat
  BY TextEndIs, FileEndIs DEF TextTo
<1>2. /\ LineStarts(file) \in SUBSET Nat /\ 0 \in LineStarts(file)
      /\ \A i \in LineStarts(file) : i <= TextEnd(file)
  BY <1>1 DEF LineStarts
<1> QED BY <1>1, <1>2, NewestIs DEF EndOfText

-----------------------------------------------------------------------------
(* The search by halves.  Every turn makes the window lighter.                 *)

Weight(w) == 2 * (LastBlock + 1 - w[1]) + w[2]

HalvesStep(file, f, w) ==
  LET cur == w[1] + (w[2] - w[1]) \div 2
  IN CASE file[cur][0] # NUL /\ Nuls(file, cur) # {} -> <<cur, Oldest(Nuls(file, cur))>>
       [] file[cur][0] # NUL /\ Nuls(file, cur) = {} ->
            IF cur < w[2] THEN f[<<cur + 1, w[2]>>]
            ELSE IF w[2] < LastBlock THEN f[<<cur + 1, w[2] + 1>>] ELSE <<>>
       [] file[cur][0] = NUL /\ cur = w[1] -> <<cur, 0>>
       [] OTHER -> f[<<w[1], cur - 1>>]

\* Every way on from the middle of a window leads to a window of less weight.
LEMMA Middle ==
  ASSUME NEW w \in Windows, NEW cur, cur = w[1] + (w[2] - w[1]) \div 2
  PROVE  /\ w[1] \in BLOCKS /\ w[2] \in BLOCKS /\ cur \in BLOCKS
         /\ w[1] <= cur /\ cur <= w[2] /\ Weight(w) \in Nat
         /\ cur < w[2] => <<cur + 1, w[2]>> \in Windows /\ Weight(<<cur + 1, w[2]>>) < Weight(w)
         /\ cur = w[2] /\ w[2] < LastBlock =>
              /\ <<cur + 1, w[2] + 1>> \in Windows
              /\ Weight(<<cur + 1, w[2] + 1>>) < Weight(w)
         /\ w[1] < cur => <<w[1], cur - 1>> \in Windows /\ Weight(<<w[1], cur - 1>>) < Weight(w)
<1>1. w[1] \in Nat /\ w[2] \in Nat /\ w[1] <= w[2] /\ w[2] <= LastBlock
  BY CardNumbers DEF Windows, BLOCKS
<1>2. cur \in Nat /\ w[1] <= cur /\ cur <= w[2]
  BY <1>1
<1> QED BY <1>1, <1>2, CardNumbers DEF Windows, BLOCKS, Weight

LEMMA WeightIsNat == ASSUME NEW w \in Windows PROVE Weight(w) \in Nat
BY CardNumbers DEF Windows, BLOCKS, Weight

\* A turn asks only about lighter windows.
LEMMA StepLooksAhead ==
  ASSUME NEW file, NEW w \in Windows, NEW f, NEW g,
         \A v \in Windows : Weight(v) < Weight(w) => f[v] = g[v]
  PROVE  HalvesStep(file, f, w) = HalvesStep(file, g, w)
<1> DEFINE cur == w[1] + (w[2] - w[1]) \div 2
           a == <<cur + 1, w[2]>>
           b == <<cur + 1, w[2] + 1>>
           c == <<w[1], cur - 1>>
<1>1. cur \in Nat /\ w[1] \in Nat /\ w[2] \in Nat /\ w[1] <= cur /\ cur <= w[2] /\ LastBlock \in Nat
  <2>1. w[1] \in BLOCKS /\ w[2] \in BLOCKS /\ cur \in BLOCKS /\ w[1] <= cur /\ cur <= w[2]
    BY Middle
  <2> HIDE DEF cur
  <2> QED BY <2>1, CardNumbers DEF BLOCKS
<1>2. cur < w[2] => f[a] = g[a]
  BY Middle
<1>3. ~(cur < w[2]) /\ w[2] < LastBlock => f[b] = g[b]
  <2>1. ~(cur < w[2]) => cur = w[2]
    BY <1>1
  <2> QED BY <2>1, Middle
<1>4. cur # w[1] => f[c] = g[c]
  <2>1. cur # w[1] => w[1] < cur
    BY <1>1
  <2> QED BY <2>1, Middle
<1> HIDE DEF cur, a, b, c
<1>5. /\ HalvesStep(file, f, w) =
           CASE file[cur][0] # NUL /\ Nuls(file, cur) # {} -> <<cur, Oldest(Nuls(file, cur))>>
             [] file[cur][0] # NUL /\ Nuls(file, cur) = {} ->
                  IF cur < w[2] THEN f[a] ELSE IF w[2] < LastBlock THEN f[b] ELSE <<>>
             [] file[cur][0] = NUL /\ cur = w[1] -> <<cur, 0>>
             [] OTHER -> f[c]
      /\ HalvesStep(file, g, w) =
           CASE file[cur][0] # NUL /\ Nuls(file, cur) # {} -> <<cur, Oldest(Nuls(file, cur))>>
             [] file[cur][0] # NUL /\ Nuls(file, cur) = {} ->
                  IF cur < w[2] THEN g[a] ELSE IF w[2] < LastBlock THEN g[b] ELSE <<>>
             [] file[cur][0] = NUL /\ cur = w[1] -> <<cur, 0>>
             [] OTHER -> g[c]
  BY DEF HalvesStep, cur, a, b, c
<1> QED BY <1>2, <1>3, <1>4, <1>5

HalvesTo(file, f, m) ==
  /\ f = [w \in Windows |-> f[w]]
  /\ \A w \in Windows : Weight(w) <= m => f[w] = HalvesStep(file, f, w)

\* There is a search by halves for the windows of a weight up to n: no induction, but the
\* least weight that has none.
LEMMA HalvesExist ==
  ASSUME NEW file, NEW n \in Nat
  PROVE  \E f : HalvesTo(file, f, n)
<1> DEFINE Not == {m \in Nat : ~ \E f : HalvesTo(file, f, m)}
<1> SUFFICES ASSUME Not # {} PROVE FALSE
  OBVIOUS
<1>1. PICK m \in Not : \A k \in Not : m <= k
  <2>1. Not \in SUBSET Nat
    OBVIOUS
  <2> HIDE DEF Not
  <2> QED BY <2>1, SmallestOf
<1>2. m \in Nat /\ ~ \E f : HalvesTo(file, f, m)
  BY <1>1
<1>3. \E f : /\ f = [w \in Windows |-> f[w]]
             /\ \A w \in Windows : Weight(w) < m => f[w] = HalvesStep(file, f, w)
  <2>1. CASE m = 0
    <3>1. \A w \in Windows : ~(Weight(w) < m)
      BY <2>1, WeightIsNat
    <3> DEFINE f == [w \in Windows |-> 0]
    <3>2. f = [w \in Windows |-> f[w]]
      OBVIOUS
    <3> QED BY <3>1, <3>2
  <2>2. CASE m # 0
    <3>1. m - 1 \in Nat /\ ~(m <= m - 1)
      BY <1>2, <2>2
    <3>2. PICK f : HalvesTo(file, f, m - 1)
      BY <1>1, <3>1
    <3>3. \A w \in Windows : Weight(w) < m => Weight(w) <= m - 1
      BY <1>2, WeightIsNat
    <3> QED BY <3>2, <3>3 DEF HalvesTo
  <2> QED BY <2>1, <2>2
<1>4. PICK f : /\ f = [w \in Windows |-> f[w]]
               /\ \A w \in Windows : Weight(w) < m => f[w] = HalvesStep(file, f, w)
  BY <1>3
<1> DEFINE g == [w \in Windows |-> IF Weight(w) < m THEN f[w] ELSE HalvesStep(file, f, w)]
<1>5. ASSUME NEW w \in Windows, Weight(w) <= m PROVE g[w] = HalvesStep(file, g, w)
  <2>1. g[w] = HalvesStep(file, f, w)
    BY <1>4
  <2>2. ASSUME NEW v \in Windows, Weight(v) < Weight(w) PROVE f[v] = g[v]
    <3>1. Weight(v) < m
      BY <1>2, <1>5, <2>2, WeightIsNat
    <3> QED BY <3>1
  <2> HIDE DEF g
  <2> QED BY <2>1, <2>2, StepLooksAhead
<1>6. g = [w \in Windows |-> g[w]]
  OBVIOUS
<1>7. HalvesTo(file, g, m)
  <2> HIDE DEF g
  <2> QED BY <1>5, <1>6 DEF HalvesTo
<1> QED BY <1>2, <1>7

\* The search of a window takes its step and goes on in the window that the step chose.
LEMMA HalvesAre ==
  ASSUME NEW file, NEW w \in Windows
  PROVE  Halves(file)[w] = HalvesStep(file, Halves(file), w)
<1> DEFINE F(f) == [v \in Windows |-> HalvesStep(file, f, v)]
           h == Halves(file)
           n == 2 * (LastBlock + 1) + LastBlock
<1>1. n \in Nat /\ \A v \in Windows : Weight(v) <= n
  BY CardNumbers DEF Windows, BLOCKS, Weight
<1>2. PICK g : HalvesTo(file, g, n)
  BY <1>1, HalvesExist
<1>3. g = F(g)
  <2>1. \A v \in Windows : g[v] = HalvesStep(file, g, v)
    BY <1>1, <1>2 DEF HalvesTo
  <2> QED BY <1>2, <2>1 DEF HalvesTo
<1>4. h = CHOOSE f : f = F(f)
  BY DEF Halves, HalvesStep
<1>5. h = F(h)
  <2> HIDE DEF F, h
  <2> QED BY <1>3, <1>4
<1> HIDE DEF h
<1> QED BY <1>5 DEF h

\* Where a search can work: every block behind the end of the text begins with NUL.
Searchable(file) == \A b \in BLOCKS : TextEnd(file) <= b * BlockSize => file[b][0] = NUL

EndBlock(file) == TextEnd(file) \div BlockSize
Ending(file) == IF TextEnd(file) = FileEnd THEN <<>>
                ELSE <<EndBlock(file), TextEnd(file) % BlockSize>>

LEMMA FirstOffset == 0 \in OFFSETS
BY CardNumbers DEF OFFSETS

\* What the text looks like from block to block.
LEMMA BlocksOfText ==
  ASSUME NEW file, Searchable(file), NEW b \in BLOCKS
  PROVE  /\ EndBlock(file) \in Nat /\ EndBlock(file) <= LastBlock + 1
         /\ EndBlock(file) = LastBlock + 1 <=> TextEnd(file) = FileEnd
         /\ b < EndBlock(file) => Nuls(file, b) = {}
         /\ b = EndBlock(file) => /\ Nuls(file, b) # {}
                                  /\ Oldest(Nuls(file, b)) = TextEnd(file) % BlockSize
         /\ EndBlock(file) < b => file[b][0] = NUL
<1> DEFINE t == TextEnd(file)
           e == EndBlock(file)
           r == t % BlockSize
<1>1. /\ t \in Nat /\ t <= FileEnd /\ FileEnd \in Nat
      /\ \A i \in Nat : i < t => ByteAt(file, i) # NUL
      /\ t # FileEnd => ByteAt(file, t) = NUL
  BY TextEndIs, FileEndIs DEF TextTo
<1>2. e \in Nat /\ r \in OFFSETS /\ t = e * BlockSize + r /\ (t < FileEnd => e \in BLOCKS)
  BY <1>1, PlaceOf DEF EndBlock
<1> HIDE DEF t, e, r
<1>3. b \in Nat /\ b <= LastBlock /\ LastBlock \in Nat /\ BlockSize \in Nat /\ BlockSize > 0
  BY CardNumbers DEF BLOCKS
<1>4. r \in Nat /\ r < BlockSize
  BY <1>2, <1>3 DEF OFFSETS
<1>5. e <= LastBlock + 1 /\ (e = LastBlock + 1 <=> t = FileEnd)
  <2>1. CASE t = FileEnd
    <3>1. e * BlockSize + r = (LastBlock + 1) * BlockSize + 0
      BY <1>2, <1>3, <2>1 DEF FileEnd
    <3>2. e = LastBlock + 1
      <4>1. LastBlock + 1 \in Nat
        BY <1>3
      <4> QED BY <1>2, <3>1, <4>1, SamePlace, FirstOffset
    <3> QED BY <1>3, <2>1, <3>2
  <2>2. CASE t # FileEnd
    <3>1. e \in 0 .. LastBlock
      BY <1>1, <1>2, <2>2 DEF BLOCKS
    <3> QED BY <1>3, <2>2, <3>1
  <2> QED BY <2>1, <2>2
<1>6. ASSUME NEW k \in OFFSETS
      PROVE  /\ b < e => file[b][k] # NUL
             /\ b = e /\ k < r => file[b][k] # NUL
             /\ b = e /\ k = r /\ t # FileEnd => file[b][k] = NUL
  <2>1. k \in Nat /\ k < BlockSize /\ b * BlockSize \in Nat /\ e * BlockSize \in Nat
    BY <1>2, <1>3 DEF OFFSETS
  <2>2. ByteAt(file, b * BlockSize + k) = file[b][k] /\ b * BlockSize + k \in Nat
    BY <1>3, ByteIs, FlatIs
  <2>3. b < e => b * BlockSize + BlockSize <= e * BlockSize
    BY <1>2, <1>3, Multiples
  <2>4. b < e => b * BlockSize + k < t
    BY <1>2, <1>3, <1>4, <2>1, <2>3
  <2>5. b = e /\ k < r => b * BlockSize + k < t
    BY <1>2, <1>3, <1>4, <2>1
  <2>6. b = e /\ k = r => b * BlockSize + k = t
    BY <1>2
  <2> QED BY <1>1, <2>2, <2>4, <2>5, <2>6
<1>7. ASSUME b < e PROVE Nuls(file, b) = {}
  BY <1>6, <1>7 DEF Nuls
<1>8. ASSUME b = e PROVE Nuls(file, b) # {} /\ Oldest(Nuls(file, b)) = r
  <2>1. t # FileEnd
    BY <1>3, <1>5, <1>8
  <2>2. r \in Nuls(file, b)
    BY <1>2, <1>6, <1>8, <2>1 DEF Nuls
  <2>3. ASSUME NEW k \in Nuls(file, b) PROVE k \in Nat /\ r <= k
    <3>1. k \in OFFSETS /\ file[b][k] = NUL /\ k \in Nat
      BY <1>3 DEF Nuls, OFFSETS
    <3> QED BY <1>4, <1>6, <1>8, <3>1
  <2>4. Oldest(Nuls(file, b)) \in Nuls(file, b) /\ Oldest(Nuls(file, b)) <= r
    <3>1. Nuls(file, b) \in SUBSET Nat /\ Nuls(file, b) # {}
      BY <2>2, <2>3
    <3> QED BY <2>2, <3>1, OldestIs
  <2>5. PICK o : o = Oldest(Nuls(file, b))
    OBVIOUS
  <2>6. o \in Nat /\ r <= o /\ o <= r
    BY <2>3, <2>4, <2>5
  <2>7. o = r
    BY <1>4, <2>6
  <2> QED BY <2>2, <2>5, <2>7
<1>9. ASSUME e < b PROVE file[b][0] = NUL
  <2>1. e * BlockSize + BlockSize <= b * BlockSize /\ e * BlockSize \in Nat /\ b * BlockSize \in Nat
    BY <1>2, <1>3, <1>9, Multiples
  <2>2. t <= b * BlockSize
    BY <1>2, <1>3, <1>4, <2>1
  <2> QED BY <2>2 DEF Searchable, t
<1> QED BY <1>2, <1>5, <1>7, <1>8, <1>9 DEF t, e, r

\* A window that has the end of the text, or lies just before it, leads there.
LEMMA WindowFindsEnd ==
  ASSUME NEW file, Searchable(file), NEW v \in Windows,
         v[1] <= EndBlock(file), EndBlock(file) <= v[2] + 1
  PROVE  Halves(file)[v] = Ending(file)
<1> DEFINE e == EndBlock(file)
           half == Halves(file)
           Wrong == {w \in Windows : w[1] <= e /\ e <= w[2] + 1 /\ half[w] # Ending(file)}
           Weights == {Weight(w) : w \in Wrong}
<1> SUFFICES ASSUME Wrong # {} PROVE FALSE
  OBVIOUS
<1>1. Weights \in SUBSET Nat /\ Weights # {}
  BY WeightIsNat
<1>2. PICK m \in Weights : \A k \in Weights : m <= k
  <2> HIDE DEF Weights
  <2> QED BY <1>1, SmallestOf
<1>3. PICK w \in Wrong : m = Weight(w)
  BY <1>2
<1>4. ASSUME NEW u \in Windows, Weight(u) < Weight(w), u[1] <= e, e <= u[2] + 1
      PROVE  half[u] = Ending(file)
  <2>1. ~(Weight(w) <= Weight(u))
    BY <1>3, <1>4, WeightIsNat
  <2>2. u \notin Wrong
    BY <1>2, <1>3, <2>1
  <2> QED BY <1>3, <1>4, <2>2
<1>5. PICK cur : cur = w[1] + (w[2] - w[1]) \div 2
  OBVIOUS
<1>6. /\ w \in Windows /\ w[1] <= e /\ e <= w[2] + 1 /\ half[w] # Ending(file)
  BY <1>3
<1>7. /\ w[1] \in BLOCKS /\ w[2] \in BLOCKS /\ cur \in BLOCKS
      /\ w[1] <= cur /\ cur <= w[2]
      /\ cur < w[2] => <<cur + 1, w[2]>> \in Windows /\ Weight(<<cur + 1, w[2]>>) < Weight(w)
      /\ cur = w[2] /\ w[2] < LastBlock =>
           /\ <<cur + 1, w[2] + 1>> \in Windows
           /\ Weight(<<cur + 1, w[2] + 1>>) < Weight(w)
      /\ w[1] < cur => <<w[1], cur - 1>> \in Windows /\ Weight(<<w[1], cur - 1>>) < Weight(w)
  BY <1>5, <1>6, Middle
<1>8. /\ w[1] \in Nat /\ w[2] \in Nat /\ cur \in Nat /\ w[2] <= LastBlock /\ LastBlock \in Nat
  BY <1>7, CardNumbers DEF BLOCKS
<1>9. /\ e \in Nat /\ e <= LastBlock + 1
      /\ e = LastBlock + 1 <=> TextEnd(file) = FileEnd
      /\ cur < e => Nuls(file, cur) = {}
      /\ cur = e => /\ Nuls(file, cur) # {}
                    /\ Oldest(Nuls(file, cur)) = TextEnd(file) % BlockSize
      /\ e < cur => file[cur][0] = NUL
  BY <1>7, BlocksOfText
<1>10. half[w] = CASE file[cur][0] # NUL /\ Nuls(file, cur) # {} -> <<cur, Oldest(Nuls(file, cur))>>
                   [] file[cur][0] # NUL /\ Nuls(file, cur) = {} ->
                        IF cur < w[2] THEN half[<<cur + 1, w[2]>>]
                        ELSE IF w[2] < LastBlock THEN half[<<cur + 1, w[2] + 1>>] ELSE <<>>
                   [] file[cur][0] = NUL /\ cur = w[1] -> <<cur, 0>>
                   [] OTHER -> half[<<w[1], cur - 1>>]
  BY <1>5, <1>6, HalvesAre DEF HalvesStep
<1>11. e # LastBlock + 1 => Ending(file) = <<e, TextEnd(file) % BlockSize>>
  BY <1>9 DEF Ending
<1>12. e = LastBlock + 1 => Ending(file) = <<>>
  BY <1>9 DEF Ending
<1> HIDE DEF half, e
<1>13. CASE cur < e
  <2>1. Nuls(file, cur) = {} /\ file[cur][0] # NUL
    BY <1>9, <1>13, FirstOffset DEF Nuls
  <2>2. CASE cur < w[2]
    <3> DEFINE u == <<cur + 1, w[2]>>
    <3>1. u[1] <= e /\ e <= u[2] + 1
      BY <1>6, <1>8, <1>9, <1>13
    <3>2. half[u] = Ending(file)
      BY <1>4, <1>7, <2>2, <3>1
    <3> QED BY <1>6, <1>10, <2>1, <2>2, <3>2
  <2>3. CASE ~(cur < w[2]) /\ w[2] < LastBlock
    <3> DEFINE u == <<cur + 1, w[2] + 1>>
    <3>0. cur = w[2]
      BY <1>7, <1>8, <2>3
    <3>1. u[1] <= e /\ e <= u[2] + 1
      BY <1>6, <1>8, <1>9, <1>13
    <3>2. half[u] = Ending(file)
      BY <1>4, <1>7, <2>3, <3>0, <3>1
    <3> QED BY <1>6, <1>10, <2>1, <2>3, <3>2
  <2>4. CASE ~(cur < w[2]) /\ ~(w[2] < LastBlock)
    <3>1. e = LastBlock + 1
      BY <1>7, <1>8, <1>9, <1>13, <2>4
    <3> QED BY <1>6, <1>10, <1>12, <2>1, <2>4, <3>1
  <2> QED BY <2>2, <2>3, <2>4
<1>14. CASE cur = e
  <2>1. e # LastBlock + 1
    BY <1>8, <1>7, <1>14
  <2>2. CASE file[cur][0] # NUL
    BY <1>6, <1>9, <1>10, <1>11, <1>14, <2>1, <2>2
  <2>3. CASE file[cur][0] = NUL
    <3>1. 0 \in Nuls(file, cur) /\ Nuls(file, cur) \in SUBSET Nat
      BY <2>3, FirstOffset, CardNumbers DEF Nuls, OFFSETS
    <3>2. Oldest(Nuls(file, cur)) \in Nat /\ Oldest(Nuls(file, cur)) <= 0
      BY <3>1, OldestIs
    <3>3. TextEnd(file) % BlockSize = 0
      BY <1>9, <1>14, <3>2
    <3>4. CASE cur = w[1]
      BY <1>6, <1>10, <1>11, <1>14, <2>1, <2>3, <3>3, <3>4
    <3>5. CASE cur # w[1]
      <4> DEFINE u == <<w[1], cur - 1>>
      <4>1. u[1] <= e /\ e <= u[2] + 1 /\ w[1] < cur
        BY <1>6, <1>7, <1>8, <1>9, <1>14, <3>5
      <4>2. half[u] = Ending(file)
        BY <1>4, <1>7, <4>1
      <4> QED BY <1>6, <1>10, <2>3, <3>5, <4>2
    <3> QED BY <3>4, <3>5
  <2> QED BY <2>2, <2>3
<1>15. CASE e < cur
  <2>1. file[cur][0] = NUL /\ cur # w[1]
    BY <1>6, <1>8, <1>9, <1>15
  <2> DEFINE u == <<w[1], cur - 1>>
  <2>2. u[1] <= e /\ e <= u[2] + 1 /\ w[1] < cur
    BY <1>6, <1>7, <1>8, <1>9, <1>15, <2>1
  <2>3. half[u] = Ending(file)
    BY <1>4, <1>7, <2>2
  <2> QED BY <1>6, <1>10, <2>1, <2>3
<1> QED BY <1>8, <1>9, <1>13, <1>14, <1>15

\* The search by halves comes to the block in which the text ends, wherever that is.
LEMMA BlockOfEndIs ==
  ASSUME NEW file, Searchable(file)
  PROVE  BlockOfEnd(file) = Ending(file)
<1> DEFINE w == <<0, LastBlock>>
<1>1. w \in Windows /\ w[1] = 0 /\ w[2] = LastBlock
  BY CardNumbers DEF Windows, BLOCKS
<1>2. 0 \in BLOCKS
  BY CardNumbers DEF BLOCKS
<1>3. EndBlock(file) \in Nat /\ EndBlock(file) <= LastBlock + 1
  BY <1>2, BlocksOfText
<1>4. w[1] <= EndBlock(file) /\ EndBlock(file) <= w[2] + 1
  BY <1>1, <1>3
<1> QED BY <1>1, <1>4, WindowFindsEnd DEF BlockOfEnd
-----------------------------------------------------------------------------
(* Back over a line that was cut                                               *)

BackStep(file, b, k, f, c) ==
  LET ends == LineEnds(file, c, IF c = b THEN k ELSE BlockSize)
  IN IF ends # {} THEN <<c, Newest(ends) + 1>>
     ELSE IF c > 0 THEN f[c - 1] ELSE <<0, 0>>

BackTo(file, b, k, f, m) ==
  /\ f = [c \in BLOCKS |-> f[c]]
  /\ \A c \in BLOCKS : c <= m => f[c] = BackStep(file, b, k, f, c)

\* The way back over blocks with no end of a line is there for the blocks up to n.
LEMMA BackExists ==
  ASSUME NEW file, NEW b, NEW k, NEW n \in Nat
  PROVE  \E f : BackTo(file, b, k, f, n)
<1> DEFINE Not == {m \in Nat : ~ \E f : BackTo(file, b, k, f, m)}
<1> SUFFICES ASSUME Not # {} PROVE FALSE
  OBVIOUS
<1>0. \A c \in BLOCKS : c \in Nat /\ (c > 0 => c - 1 \in BLOCKS)
  BY CardNumbers DEF BLOCKS
<1>1. PICK m \in Not : \A j \in Not : m <= j
  <2>1. Not \in SUBSET Nat
    OBVIOUS
  <2> HIDE DEF Not
  <2> QED BY <2>1, SmallestOf
<1>2. m \in Nat /\ ~ \E f : BackTo(file, b, k, f, m)
  BY <1>1
<1>3. \E f : /\ f = [c \in BLOCKS |-> f[c]]
             /\ \A c \in BLOCKS : c < m => f[c] = BackStep(file, b, k, f, c)
  <2>1. CASE m = 0
    <3>1. \A c \in BLOCKS : ~(c < m)
      BY <1>0, <2>1
    <3> DEFINE f == [c \in BLOCKS |-> 0]
    <3>2. f = [c \in BLOCKS |-> f[c]]
      OBVIOUS
    <3> QED BY <3>1, <3>2
  <2>2. CASE m # 0
    <3>1. m - 1 \in Nat /\ ~(m <= m - 1)
      BY <1>2, <2>2
    <3>2. PICK f : BackTo(file, b, k, f, m - 1)
      BY <1>1, <3>1
    <3>3. \A c \in BLOCKS : c < m => c <= m - 1
      BY <1>0, <1>2
    <3> QED BY <3>2, <3>3 DEF BackTo
  <2> QED BY <2>1, <2>2
<1>4. PICK f : /\ f = [c \in BLOCKS |-> f[c]]
               /\ \A c \in BLOCKS : c < m => f[c] = BackStep(file, b, k, f, c)
  BY <1>3
<1> DEFINE g == [c \in BLOCKS |-> IF c < m THEN f[c] ELSE BackStep(file, b, k, f, c)]
<1>5. ASSUME NEW c \in BLOCKS, c <= m PROVE g[c] = BackStep(file, b, k, g, c)
  <2>1. g[c] = BackStep(file, b, k, f, c)
    BY <1>4
  <2>2. c > 0 => f[c - 1] = g[c - 1]
    <3>1. c > 0 => c - 1 \in BLOCKS /\ c - 1 < m
      BY <1>0, <1>2, <1>5
    <3> QED BY <3>1
  <2> HIDE DEF g
  <2> QED BY <2>1, <2>2 DEF BackStep
<1>6. g = [c \in BLOCKS |-> g[c]]
  OBVIOUS
<1>7. BackTo(file, b, k, g, m)
  <2> HIDE DEF g
  <2> QED BY <1>5, <1>6 DEF BackTo
<1> QED BY <1>2, <1>7

\* The way back takes its step and goes on in the block before.
LEMMA BackIs ==
  ASSUME NEW file, NEW b, NEW k, NEW c \in BLOCKS
  PROVE  BackFrom(file, b, k)[c] = BackStep(file, b, k, BackFrom(file, b, k), c)
<1> DEFINE F(f) == [d \in BLOCKS |-> BackStep(file, b, k, f, d)]
           h == BackFrom(file, b, k)
<1>1. LastBlock \in Nat /\ \A d \in BLOCKS : d <= LastBlock
  BY CardNumbers DEF BLOCKS
<1>2. PICK g : BackTo(file, b, k, g, LastBlock)
  BY <1>1, BackExists
<1>3. g = F(g)
  <2>1. \A d \in BLOCKS : g[d] = BackStep(file, b, k, g, d)
    BY <1>1, <1>2 DEF BackTo
  <2> QED BY <1>2, <2>1 DEF BackTo
<1>4. h = CHOOSE f : f = F(f)
  BY DEF BackFrom, BackStep
<1>5. h = F(h)
  <2> HIDE DEF F, h
  <2> QED BY <1>3, <1>4
<1> HIDE DEF h
<1> QED BY <1>5 DEF h

AfterNewLine(file, i) == i = 0 \/ ByteAt(file, i - 1) = NL

\* Position p is behind the last end of a line before place i.
BehindLine(file, p, i) ==
  /\ p = <<p[1], p[2]>> /\ p[1] \in BLOCKS /\ p[2] \in 0 .. BlockSize
  /\ p[2] = 0 => p[1] = 0
  /\ AfterNewLine(file, Flat(p)) /\ Flat(p) <= i
  /\ \A j \in Nat : Flat(p) <= j /\ j < i => ByteAt(file, j) # NL

\* The way back from the end of the text stops behind the last end of a line.
LEMMA AfterLineIs ==
  ASSUME NEW file, NEW b \in BLOCKS, NEW k \in OFFSETS
  PROVE  BehindLine(file, AfterLine(file, b, k), b * BlockSize + k)
<1> DEFINE back == BackFrom(file, b, k)
           m(c) == IF c = b THEN k ELSE BlockSize
           Wrong == {c \in BLOCKS : c <= b /\ ~BehindLine(file, back[c], c * BlockSize + m(c))}
<1>0. /\ BlockSize \in Nat /\ BlockSize > 0 /\ \A c \in BLOCKS : c \in Nat
      /\ k \in Nat /\ k < BlockSize
  BY CardNumbers DEF BLOCKS, OFFSETS
<1>1. Wrong = {}
  <2> SUFFICES ASSUME Wrong # {} PROVE FALSE
    OBVIOUS
  <2>1. Wrong \in SUBSET Nat
    BY <1>0
  <2>2. PICK c \in Wrong : \A d \in Wrong : c <= d
    <3> HIDE DEF Wrong
    <3> QED BY <2>1, SmallestOf
  <2>3. c \in BLOCKS /\ c \in Nat /\ c <= b /\ ~BehindLine(file, back[c], c * BlockSize + m(c))
    BY <1>0, <2>2
  <2> DEFINE ends == LineEnds(file, c, m(c))
  <2>4. back[c] = IF ends # {} THEN <<c, Newest(ends) + 1>>
                  ELSE IF c > 0 THEN back[c - 1] ELSE <<0, 0>>
    BY <2>3, BackIs DEF BackStep
  <2>5. m(c) \in Nat /\ m(c) <= BlockSize /\ c * BlockSize \in Nat
    BY <1>0, <2>3
  <2>6. /\ ends \in SUBSET Nat
        /\ \A i \in OFFSETS : i \in ends <=> i < m(c) /\ file[c][i] = NL
        /\ \A i \in ends : i \in OFFSETS /\ i < BlockSize
    BY <1>0 DEF LineEnds, OFFSETS
  <2> HIDE DEF back, ends, Wrong
  \* No end of a line from offset o of block c on.
  <2>7. ASSUME NEW o \in Nat, \A i \in ends : i < o, NEW j \in Nat,
               c * BlockSize + o <= j, j < c * BlockSize + m(c)
        PROVE  ByteAt(file, j) # NL
    <3> DEFINE i == j - c * BlockSize
    <3>1. i \in OFFSETS /\ o <= i /\ i < m(c) /\ j = c * BlockSize + i
      BY <1>0, <2>5, <2>7 DEF OFFSETS
    <3>2. i \notin ends
      <4>1. i \in Nat /\ ~(i < o)
        BY <1>0, <2>7, <3>1 DEF OFFSETS
      <4> QED BY <2>7, <4>1
    <3>3. ByteAt(file, j) = file[c][i]
      BY <2>3, <3>1, ByteIs
    <3> QED BY <2>6, <3>1, <3>2, <3>3
  <2>8. CASE ends # {}
    <3> DEFINE n == Newest(ends)
    <3>1. n \in ends /\ \A i \in ends : i <= n
      <4>1. \A i \in ends : i <= BlockSize
        BY <1>0, <2>6
      <4> QED BY <1>0, <2>6, <2>8, <4>1, NewestIs
    <3> HIDE DEF n
    <3>2. n \in OFFSETS /\ n \in Nat /\ n < BlockSize /\ n < m(c) /\ file[c][n] = NL
      BY <2>6, <3>1
    <3> DEFINE p == <<c, n + 1>>
    <3>3. back[c] = p
      BY <2>4, <2>8 DEF n
    <3>4. Flat(p) = c * BlockSize + n + 1 /\ Flat(p) - 1 = c * BlockSize + n
      BY <2>5, <3>2 DEF Flat
    <3>5. ByteAt(file, Flat(p) - 1) = NL
      BY <2>3, <3>2, <3>4, ByteIs
    <3>6. ASSUME NEW j \in Nat, Flat(p) <= j, j < c * BlockSize + m(c) PROVE ByteAt(file, j) # NL
      <4>1. n + 1 \in Nat /\ \A i \in ends : i < n + 1
        <5>1. ASSUME NEW i \in ends PROVE i < n + 1
          <6>1. i \in Nat /\ i <= n
            BY <2>6, <3>1
          <6> QED BY <3>2, <6>1
        <5> QED BY <3>2, <5>1
      <4>2. c * BlockSize + (n + 1) <= j
        BY <2>5, <3>2, <3>4, <3>6
      <4> QED BY <2>7, <3>6, <4>1, <4>2
    <3>7. /\ p = <<p[1], p[2]>> /\ p[1] \in BLOCKS /\ p[2] \in 0 .. BlockSize /\ p[2] # 0
          /\ Flat(p) <= c * BlockSize + m(c)
      BY <1>0, <2>3, <2>5, <3>2, <3>4
    <3>8. BehindLine(file, p, c * BlockSize + m(c))
      BY <3>5, <3>6, <3>7 DEF BehindLine, AfterNewLine
    <3> QED BY <2>3, <3>3, <3>8
  <2>9. CASE ends = {} /\ c = 0
    <3> DEFINE p == <<0, 0>>
    <3>1. back[c] = p
      BY <2>3, <2>4, <2>9
    <3>2. Flat(p) = 0
      BY <1>0 DEF Flat
    <3>3. \A j \in Nat : j < c * BlockSize + m(c) => ByteAt(file, j) # NL
      <4>1. 0 \in Nat /\ c * BlockSize = 0 /\ \A i \in ends : i < 0
        BY <1>0, <2>9
      <4> QED BY <2>7, <4>1
    <3>4. /\ p = <<p[1], p[2]>> /\ p[1] \in BLOCKS /\ p[2] \in 0 .. BlockSize /\ p[1] = 0
          /\ Flat(p) <= c * BlockSize + m(c)
      BY <1>0, <2>3, <2>5, <2>9, <3>2
    <3>5. BehindLine(file, p, c * BlockSize + m(c))
      BY <3>2, <3>3, <3>4 DEF BehindLine, AfterNewLine
    <3> QED BY <2>3, <3>1, <3>5
  <2>10. CASE ends = {} /\ c # 0
    <3> DEFINE p == back[c - 1]
    <3>1. c - 1 \in BLOCKS /\ c - 1 \in Nat /\ ~(c <= c - 1) /\ c - 1 # b /\ c - 1 <= b
      BY <1>0, <2>3, <2>10, CardNumbers DEF BLOCKS
    <3>2. c - 1 \notin Wrong /\ m(c - 1) = BlockSize
      BY <2>2, <2>10, <3>1
    <3>3. BehindLine(file, p, (c - 1) * BlockSize + BlockSize)
      BY <3>1, <3>2 DEF Wrong
    <3>4. (c - 1) * BlockSize + BlockSize = c * BlockSize
      <4>1. ((c - 1) + 1) * BlockSize = (c - 1) * BlockSize + BlockSize /\ (c - 1) + 1 = c
        BY <2>3, <3>1, Multiples
      <4> QED BY <4>1
    <3>5. back[c] = p
      BY <2>3, <2>4, <2>10
    <3> HIDE DEF p
    <3>6. BehindLine(file, p, c * BlockSize)
      BY <3>3, <3>4
    <3>7. ASSUME NEW j \in Nat, Flat(p) <= j, j < c * BlockSize + m(c) PROVE ByteAt(file, j) # NL
      <4>1. CASE j < c * BlockSize
        BY <3>6, <3>7, <4>1 DEF BehindLine
      <4>2. CASE ~(j < c * BlockSize)
        <5>1. 0 \in Nat /\ c * BlockSize + 0 <= j /\ \A i \in ends : i < 0
          BY <2>5, <2>10, <4>2
        <5> QED BY <2>7, <3>7, <5>1
      <4> QED BY <4>1, <4>2
    <3>8. Flat(p) \in Nat
      BY <1>0, <3>6 DEF Flat, BehindLine
    <3>9. Flat(p) <= c * BlockSize + m(c)
      BY <2>5, <3>6, <3>8 DEF BehindLine
    <3>10. BehindLine(file, p, c * BlockSize + m(c))
      BY <3>6, <3>7, <3>9 DEF BehindLine
    <3> QED BY <2>3, <3>5, <3>10
  <2> QED BY <2>8, <2>9, <2>10
<1>2. BehindLine(file, back[b], b * BlockSize + m(b))
  <2>1. b <= b
    BY <1>0
  <2> QED BY <1>1, <2>1
<1> QED BY <1>2 DEF AfterLine
-----------------------------------------------------------------------------
(* The end of the last line that is whole                                      *)

\* Only the place behind the last end of a line is the end of the last whole line.
LEMMA EndOfTextOnly ==
  ASSUME NEW file, NEW e \in Nat, e <= TextEnd(file), AfterNewLine(file, e),
         \A j \in Nat : e <= j /\ j < TextEnd(file) => ByteAt(file, j) # NL
  PROVE  EndOfText(file) = e
<1> DEFINE t == TextEnd(file)
           n == EndOfText(file)
<1>1. t \in Nat
  BY TextEndIs, FileEndIs DEF TextTo
<1>2. n \in LineStarts(file) /\ \A j \in LineStarts(file) : j <= n
  BY EndOfTextIs
<1> HIDE DEF n
<1>3. n \in Nat /\ n <= t /\ AfterNewLine(file, n)
  BY <1>1, <1>2 DEF LineStarts, AfterNewLine
<1>4. e \in LineStarts(file)
  BY <1>1 DEF LineStarts, AfterNewLine
<1>5. ~(e < n)
  <2>1. e < n => n - 1 \in Nat /\ e <= n - 1 /\ n - 1 < t /\ n # 0
    BY <1>1, <1>3
  <2> QED BY <1>3, <2>1 DEF AfterNewLine
<1>6. e <= n
  BY <1>2, <1>4
<1> QED BY <1>3, <1>5, <1>6 DEF n

\* The search for the end comes to the end of the last whole line.
LEMMA EndPositionIs ==
  ASSUME NEW file, Searchable(file), EndPosition(file) # <<>>
  PROVE  /\ BehindLine(file, EndPosition(file), TextEnd(file))
         /\ Flat(EndPosition(file)) = EndOfText(file)
         /\ Flat(EndPosition(file)) \in Nat
         /\ TextEnd(file) < FileEnd
<1> DEFINE t == TextEnd(file)
           p == EndPosition(file)
           b == t \div BlockSize
           k == t % BlockSize
<1>1. t \in Nat /\ t <= FileEnd /\ FileEnd \in Nat
  BY TextEndIs, FileEndIs DEF TextTo
<1>2. BlockOfEnd(file) = Ending(file)
  BY BlockOfEndIs
<1>3. t # FileEnd /\ BlockOfEnd(file) = <<b, k>>
  BY <1>2 DEF EndPosition, Ending, EndBlock
<1>4. t < FileEnd
  BY <1>1, <1>3
<1>5. b \in BLOCKS /\ k \in OFFSETS /\ t = b * BlockSize + k
  BY <1>1, <1>4, PlaceOf
<1>6. p = AfterLine(file, b, k)
  BY <1>3 DEF EndPosition
<1> HIDE DEF p, t, b, k
<1>7. BehindLine(file, p, t)
  BY <1>5, <1>6, AfterLineIs
<1>8. Flat(p) \in Nat
  BY <1>7, CardNumbers DEF BehindLine, Flat, BLOCKS
<1>9. EndOfText(file) = Flat(p)
  BY <1>7, <1>8, EndOfTextOnly DEF BehindLine, t
<1> QED BY <1>4, <1>7, <1>8, <1>9 DEF p, t

-----------------------------------------------------------------------------
(* Lines                                                                       *)

LEMMA LineIs ==
  ASSUME NEW n, NEW len \in Nat, len >= 2
  PROVE  /\ Line(n, len)[len] = NUL /\ Line(n, len)[len - 1] = NL
         /\ \A k \in Nat : k < len - 1 => Line(n, len)[k] = n
         /\ DOMAIN Line(n, len) = 0 .. len
BY DEF Line

\* The file has line n from place i on, whole and in a line of its own, below m.
LineAt(file, i, n, len, m) ==
  /\ i \in Nat /\ i + len <= m
  /\ AfterNewLine(file, i)
  /\ \A k \in Nat : k < i + len => ByteAt(file, k) # NUL
  /\ \A k \in 0 .. len - 1 : ByteAt(file, i + k) = Line(n, len)[k]

\* A line that is whole below m begins at the start of a line of the file.
LEMMA LineIsThere ==
  ASSUME NEW file, NEW n, NEW len \in Nat, len >= 2, NEW m \in Nat, m <= FileEnd,
         \E i \in Nat : LineAt(file, i, n, len, m)
  PROVE  \E i \in LineStarts(file) : HasLine(file, i, n, len)
<1>1. PICK i \in Nat : LineAt(file, i, n, len, m)
  OBVIOUS
<1>2. TextEnd(file) \in Nat /\ TextEnd(file) <= FileEnd /\ FileEnd \in Nat
      /\ (TextEnd(file) # FileEnd => ByteAt(file, TextEnd(file)) = NUL)
  BY TextEndIs, FileEndIs DEF TextTo
<1>3. i + len <= TextEnd(file)
  BY <1>1, <1>2 DEF LineAt
<1>4. i \in LineStarts(file)
  BY <1>1, <1>2, <1>3 DEF LineAt, LineStarts, AfterNewLine
<1> QED BY <1>1, <1>3, <1>4 DEF LineAt, HasLine

\* A line that a file has below m is in every file with the same bytes below m.
LEMMA LineStays ==
  ASSUME NEW file, NEW file2, NEW n, NEW len \in Nat, len >= 2, NEW m \in Nat, NEW m2 \in Nat,
         m <= m2, \A j \in Nat : j < m => ByteAt(file2, j) = ByteAt(file, j),
         \E i \in Nat : LineAt(file, i, n, len, m)
  PROVE  \E i \in Nat : LineAt(file2, i, n, len, m2)
<1>1. PICK i \in Nat : LineAt(file, i, n, len, m)
  OBVIOUS
<1>2. i + len <= m /\ i + len <= m2
  BY <1>1 DEF LineAt
<1>3. AfterNewLine(file2, i)
  <2>1. i # 0 => i - 1 \in Nat /\ i - 1 < m
    BY <1>2
  <2> QED BY <1>1, <2>1 DEF LineAt, AfterNewLine
<1>4. \A k \in Nat : k < i + len => ByteAt(file2, k) # NUL
  BY <1>1, <1>2 DEF LineAt
<1>5. ASSUME NEW k \in 0 .. len - 1 PROVE ByteAt(file2, i + k) = Line(n, len)[k]
  <2>1. i + k \in Nat /\ i + k < m
    BY <1>2
  <2> QED BY <1>1, <2>1 DEF LineAt
<1> QED BY <1>2, <1>3, <1>4, <1>5 DEF LineAt

-----------------------------------------------------------------------------
(* The file of the days: lines of days that went up, but that the second may   *)
(* be of the day of the first; then at most one line of the day that is being  *)
(* collected, or a cut one; zeros, and old bytes only behind the end of the    *)
(* text in the block that is being filled                                      *)

StartBefore(file, i, p) == i \in Nat /\ i < p /\ AfterNewLine(file, i)

\* The line at place i is of a day before n, or the first one and of day n itself: that
\* one a restart does not take up.
Earlier(file, i, n) == ByteAt(file, i) < n \/ (i = 0 /\ ByteAt(file, i) = n)

\* Below place p: whole lines of days before d, each later than the one before.
DayLines(file, p, d) ==
  /\ p <= TextEnd(file) /\ AfterNewLine(file, p)
  /\ \A i \in Nat : StartBefore(file, i, p) =>
       /\ 2 <= ByteAt(file, i) /\ Earlier(file, i, d)
       /\ \A j \in Nat : AfterNewLine(file, j) /\ j < i => Earlier(file, j, ByteAt(file, i))

\* Behind p: nothing, or one line of a later day, of day d if it has its end.
NewestLine(file, p, d) ==
  p < TextEnd(file) =>
    /\ 2 <= ByteAt(file, p) /\ ByteAt(file, p) <= d
    /\ \A i \in Nat : StartBefore(file, i, p) => Earlier(file, i, ByteAt(file, p))
    /\ \A i \in Nat : p <= i /\ i < TextEnd(file) - 1 => ByteAt(file, i) # NL
    /\ ByteAt(file, TextEnd(file) - 1) = NL => ByteAt(file, p) = d

\* If that one is cut, then between block c and the next.
CutAtEnd(file, c, k) ==
  c * BlockSize + k < TextEnd(file) /\ ByteAt(file, TextEnd(file) - 1) # NL =>
    TextEnd(file) = (c + 1) * BlockSize /\ k > 0

\* Behind the text there are zeros, or in block c old bytes.
CleanBehind(file, c) ==
  \A i \in Nat : TextEnd(file) <= i /\ i < FileEnd =>
    ByteAt(file, i) = NUL \/ (i < (c + 1) * BlockSize /\ c * BlockSize < TextEnd(file))

\* The text goes no further than the next block.
ShortText(file, c) == TextEnd(file) <= (c + 2) * BlockSize

DayText(file, c, k, d) ==
  /\ DayLines(file, c * BlockSize + k, d) /\ NewestLine(file, c * BlockSize + k, d)
  /\ CutAtEnd(file, c, k) /\ CleanBehind(file, c) /\ ShortText(file, c)

\* A block is written: the bytes of the file.
LEMMA BytesOfUpdate ==
  ASSUME NEW file \in Files, NEW c \in BLOCKS, NEW buf, NEW i \in Nat, i < FileEnd
  PROVE  LET file2 == [file EXCEPT ![c] = buf]
         IN IF c * BlockSize <= i /\ i < c * BlockSize + BlockSize
            THEN i - c * BlockSize \in OFFSETS /\ ByteAt(file2, i) = buf[i - c * BlockSize]
            ELSE ByteAt(file2, i) = ByteAt(file, i)
<1> DEFINE file2 == [file EXCEPT ![c] = buf]
           b == i \div BlockSize
           k == i % BlockSize
<1>1. c \in Nat /\ c * BlockSize \in Nat /\ BlockSize \in Nat /\ BlockSize > 0
  BY CardNumbers DEF BLOCKS
<1>2. b \in Nat /\ k \in OFFSETS /\ i = b * BlockSize + k /\ b \in BLOCKS
  BY PlaceOf
<1>3. ByteAt(file2, i) = file2[b][k] /\ ByteAt(file, i) = file[b][k]
  BY DEF ByteAt
<1>4. k \in Nat /\ k < BlockSize
  BY <1>1, <1>2 DEF OFFSETS
<1> HIDE DEF b, k
<1>5. CASE c * BlockSize <= i /\ i < c * BlockSize + BlockSize
  <2>1. i - c * BlockSize \in OFFSETS /\ i = c * BlockSize + (i - c * BlockSize)
    BY <1>1, <1>5 DEF OFFSETS
  <2>2. c = b /\ i - c * BlockSize = k
    BY <1>1, <1>2, <2>1, SamePlace
  <2>3. file2[b] = buf
    BY <2>2 DEF Files
  <2> QED BY <1>3, <1>5, <2>1, <2>2, <2>3
<1>6. CASE ~(c * BlockSize <= i /\ i < c * BlockSize + BlockSize)
  <2>1. b # c
    BY <1>1, <1>2, <1>4, <1>6
  <2>2. file2[b] = file[b]
    BY <1>2, <2>1 DEF Files
  <2> QED BY <1>3, <1>6, <2>2
<1> QED BY <1>5, <1>6

LEMMA StillFile ==
  ASSUME NEW file \in Files, NEW c \in BLOCKS, NEW buf \in [OFFSETS -> Nat]
  PROVE  [file EXCEPT ![c] = buf] \in Files
BY DEF Files

\* The lines before a place stay with the bytes before it.
LEMMA LinesStay ==
  ASSUME NEW file, NEW file2, NEW p \in Nat, NEW d, DayLines(file, p, d), p <= TextEnd(file2),
         \A i \in Nat : i < p => ByteAt(file2, i) = ByteAt(file, i)
  PROVE  DayLines(file2, p, d)
<1>1. \A i \in Nat : i <= p => (AfterNewLine(file2, i) <=> AfterNewLine(file, i))
  <2>1. \A i \in Nat : i <= p /\ i # 0 => i - 1 \in Nat /\ i - 1 < p
    OBVIOUS
  <2> QED BY <2>1 DEF AfterNewLine
<1>2. AfterNewLine(file2, p)
  BY <1>1 DEF DayLines
<1>3. ASSUME NEW i \in Nat, StartBefore(file2, i, p)
      PROVE  /\ 2 <= ByteAt(file2, i) /\ Earlier(file2, i, d)
             /\ \A j \in Nat : AfterNewLine(file2, j) /\ j < i =>
                  Earlier(file2, j, ByteAt(file2, i))
  <2>1. StartBefore(file, i, p) /\ i < p
    BY <1>1, <1>3 DEF StartBefore
  <2>2. ASSUME NEW j \in Nat, AfterNewLine(file2, j), j < i
        PROVE  Earlier(file2, j, ByteAt(file2, i))
    <3>1. j < p /\ AfterNewLine(file, j)
      BY <1>1, <2>1, <2>2
    <3>2. Earlier(file, j, ByteAt(file, i))
      BY <2>1, <2>2, <3>1 DEF DayLines
    <3> QED BY <2>1, <3>1, <3>2 DEF Earlier
  <2>3. 2 <= ByteAt(file, i) /\ Earlier(file, i, d)
    BY <2>1 DEF DayLines
  <2> QED BY <2>1, <2>2, <2>3 DEF Earlier
<1> QED BY <1>2, <1>3 DEF DayLines

\* The line of the day is in the file from place p on, whole, and the text ends with it.
LEMMA LineWritten ==
  ASSUME NEW file, NEW file2 \in Files, NEW p \in Nat, NEW d \in Nat, d >= 2, NEW len \in Nat, len >= 2,
         DayLines(file, p, d), TextEnd(file2) = p + len,
         \A i \in Nat : i < p => ByteAt(file2, i) = ByteAt(file, i),
         \A k \in 0 .. len - 1 : ByteAt(file2, p + k) = Line(d, len)[k]
  PROVE  /\ DayLines(file2, p, d) /\ NewestLine(file2, p, d)
         /\ ByteAt(file2, TextEnd(file2) - 1) = NL
         /\ LineAt(file2, p, d, len, p + len)
         /\ \A d2 \in Nat : d < d2 => DayLines(file2, p + len, d2)
<1> DEFINE t == p + len
<1>1. /\ ByteAt(file2, p) = d /\ ByteAt(file2, t - 1) = NL
      /\ \A i \in Nat : p <= i /\ i < t - 1 => ByteAt(file2, i) = d
  <2>1. /\ \A k \in 0 .. len - 1 : k < len - 1 => Line(d, len)[k] = d
        /\ Line(d, len)[len - 1] = NL /\ len - 1 \in 0 .. len - 1 /\ 0 \in 0 .. len - 1
    BY LineIs
  <2>2. ByteAt(file2, p + 0) = d
    BY <2>1
  <2>3. ByteAt(file2, p + (len - 1)) = NL
    BY <2>1
  <2>4. ASSUME NEW i \in Nat, p <= i, i < t - 1 PROVE ByteAt(file2, i) = d
    <3>1. i - p \in 0 .. len - 1 /\ i - p < len - 1 /\ p + (i - p) = i
      BY <2>4
    <3>2. ByteAt(file2, p + (i - p)) = d
      BY <2>1, <3>1
    <3> QED BY <3>1, <3>2
  <2>5. p + 0 = p /\ p + (len - 1) = t - 1
    OBVIOUS
  <2> QED BY <2>2, <2>3, <2>4, <2>5
<1>2. \A i \in Nat : i <= p => (AfterNewLine(file2, i) <=> AfterNewLine(file, i))
  <2>1. \A i \in Nat : i <= p /\ i # 0 => i - 1 \in Nat /\ i - 1 < p
    OBVIOUS
  <2> QED BY <2>1 DEF AfterNewLine
<1>3. DayLines(file2, p, d)
  <2>1. p <= TextEnd(file2)
    OBVIOUS
  <2> QED BY <2>1, LinesStay
<1>4. ASSUME NEW i \in Nat, StartBefore(file2, i, t) PROVE i < p \/ i = p
  <2>1. p < i => i - 1 \in Nat /\ p <= i - 1 /\ i - 1 < t - 1 /\ i # 0
    BY <1>4 DEF StartBefore
  <2>2. ~(p < i)
    BY <1>1, <1>4, <2>1 DEF StartBefore, AfterNewLine, NL
  <2> QED BY <2>2
<1>5. \A i \in Nat : StartBefore(file2, i, p) => 2 <= ByteAt(file2, i) /\ Earlier(file2, i, d)
  BY <1>3 DEF DayLines
<1>6. NewestLine(file2, p, d)
  <2>1. \A i \in Nat : p <= i /\ i < t - 1 => ByteAt(file2, i) # NL
    BY <1>1 DEF NL
  <2> QED BY <1>1, <1>5, <2>1 DEF NewestLine
<1>7. LineAt(file2, p, d, len, t)
  <2>1. \A k \in Nat : k < t => ByteAt(file2, k) # NUL
    BY TextEndIs DEF TextTo
  <2> QED BY <1>3, <2>1 DEF LineAt, DayLines
<1>8. ASSUME NEW d2 \in Nat, d < d2 PROVE DayLines(file2, t, d2)
  <2>1. AfterNewLine(file2, t) /\ t <= TextEnd(file2)
    BY <1>1 DEF AfterNewLine
  <2>2. ASSUME NEW i \in Nat, StartBefore(file2, i, t)
        PROVE  /\ 2 <= ByteAt(file2, i) /\ Earlier(file2, i, d2)
               /\ \A j \in Nat : AfterNewLine(file2, j) /\ j < i =>
                    Earlier(file2, j, ByteAt(file2, i))
    <3>1. CASE i < p
      <4>1. StartBefore(file2, i, p) /\ ByteAt(file2, i) = ByteAt(file, i) /\ StartBefore(file, i, p)
        BY <1>2, <2>2, <3>1 DEF StartBefore
      <4>2. Earlier(file2, i, d) /\ 2 <= ByteAt(file2, i)
        BY <1>5, <4>1
      <4>3. Earlier(file2, i, d2)
        <5>1. i < FileEnd
          BY <3>1, TextEndIs, FileEndIs DEF TextTo
        <5>2. ByteAt(file2, i) \in Nat
          BY <5>1, ByteTyped
        <5> QED BY <1>8, <4>2, <5>2 DEF Earlier
      <4> QED BY <1>3, <4>1, <4>2, <4>3 DEF DayLines
    <3>2. CASE i = p
      <4>1. ASSUME NEW j \in Nat, AfterNewLine(file2, j), j < i
            PROVE  Earlier(file2, j, ByteAt(file2, i))
        <5>1. StartBefore(file2, j, p)
          BY <3>2, <4>1 DEF StartBefore
        <5> QED BY <1>1, <1>5, <3>2, <5>1
      <4> QED BY <1>1, <1>8, <3>2, <4>1 DEF Earlier
    <3> QED BY <1>4, <2>2, <3>1, <3>2
  <2> QED BY <2>1, <2>2 DEF DayLines
<1> QED BY <1>1, <1>3, <1>6, <1>7, <1>8

\* The files agree below m.
SameBelow(file2, file, m) == \A i \in Nat : i < m => ByteAt(file2, i) = ByteAt(file, i)

\* SaveStats writes a block that has room for the whole line.
LEMMA WholeLine ==
  ASSUME NEW file \in Files, NEW c \in BLOCKS, NEW k \in 0 .. BlockSize, NEW d \in Nat, d >= 2,
         NEW len \in Nat, len >= 2, k + len + 1 <= BlockSize,
         DayText(file, c, k, d), c < LastBlock => file[c + 1][0] = NUL,
         NEW buf \in [OFFSETS -> Nat], \A j \in OFFSETS : j < k => buf[j] = file[c][j],
         \A j \in OFFSETS : k <= j /\ j <= k + len => buf[j] = Line(d, len)[j - k]
  PROVE  LET file2 == [file EXCEPT ![c] = buf]
         IN /\ DayText(file2, c, k, d)
            /\ LineAt(file2, c * BlockSize + k, d, len, c * BlockSize + (k + len))
            /\ \A d2 \in Nat : d < d2 => DayText(file2, c, k + len, d2)
            /\ SameBelow(file2, file, c * BlockSize + k)
<1> DEFINE file2 == [file EXCEPT ![c] = buf]
           m == c * BlockSize
           p == m + k
           t == p + len
<1>1. /\ m \in Nat /\ BlockSize \in Nat /\ k \in Nat /\ (c + 1) * BlockSize = m + BlockSize
      /\ c \in Nat /\ p \in Nat /\ t \in Nat /\ t < m + BlockSize
  BY BlockBounds
<1>2. file2 \in Files
  BY StillFile
<1>3. m + BlockSize <= FileEnd /\ FileEnd \in Nat
  BY BlockBounds
<1>4. \A i \in Nat : i < FileEnd =>
        IF m <= i /\ i < m + BlockSize
        THEN i - m \in OFFSETS /\ ByteAt(file2, i) = buf[i - m]
        ELSE ByteAt(file2, i) = ByteAt(file, i)
  BY BytesOfUpdate
<1>5. \A i \in Nat : m <= i /\ i < m + BlockSize => ByteAt(file, i) = file[c][i - m]
  BY BytesOfBlock
<1> HIDE DEF file2, m
<1>6. \A i \in Nat : i < p => ByteAt(file2, i) = ByteAt(file, i)
  <2> TAKE i \in Nat
  <2> HAVE i < p
  <2>1. CASE m <= i
    <3>1. i < m + BlockSize /\ i < FileEnd /\ i - m < k
      BY <1>1, <1>3, <2>1
    <3> QED BY <1>4, <1>5, <2>1, <3>1
  <2>2. CASE ~(m <= i)
    <3>1. i < FileEnd
      BY <1>1, <1>3, <2>2
    <3> QED BY <1>4, <2>2, <3>1
  <2> QED BY <2>1, <2>2
<1>7. \A j \in 0 .. len : ByteAt(file2, p + j) = Line(d, len)[j]
  <2> TAKE j \in 0 .. len
  <2>1. p + j \in Nat /\ m <= p + j /\ p + j < m + BlockSize /\ p + j < FileEnd
    BY <1>1, <1>3
  <2>2. (p + j) - m \in OFFSETS /\ ByteAt(file2, p + j) = buf[(p + j) - m]
    BY <1>4, <2>1
  <2>3. k <= (p + j) - m /\ (p + j) - m <= k + len /\ ((p + j) - m) - k = j
    BY <1>1
  <2> QED BY <2>2, <2>3
<1>8. TextEnd(file2) = t
  <2>1. ByteAt(file2, t) = NUL
    BY <1>7, LineIs
  <2>2. ASSUME NEW i \in 0 .. t - 1 PROVE ByteAt(file2, i) # NUL
    <3>1. CASE i < p
      <4>1. p <= TextEnd(file)
        BY DEF DayText, DayLines, m
      <4>2. i \in 0 .. TextEnd(file) - 1
        BY <1>1, <3>1, <4>1, TextEndIs, FileEndIs DEF TextTo
      <4> QED BY <1>6, <3>1, <4>2, TextEndIs DEF TextTo
    <3>2. CASE ~(i < p)
      <4>1. i - p \in 0 .. len /\ i - p <= len - 1 /\ p + (i - p) = i /\ i - p \in Nat
        BY <1>1, <3>2
      <4>2. ByteAt(file2, i) = Line(d, len)[i - p]
        BY <1>7, <4>1
      <4>3. i - p = len - 1 \/ i - p < len - 1
        BY <4>1
      <4>4. Line(d, len)[i - p] = NL \/ Line(d, len)[i - p] = d
        BY <4>1, <4>3, LineIs
      <4> QED BY <4>2, <4>4 DEF NL, NUL
    <3> QED BY <3>1, <3>2
  <2>3. TextTo(file2, t)
    BY <1>1, <1>3, <2>1, <2>2 DEF TextTo
  <2> QED BY <2>3, TextEndOnly
<1>9. DayLines(file, p, d) /\ CleanBehind(file, c)
  BY DEF DayText, m
<1>10. /\ DayLines(file2, p, d) /\ NewestLine(file2, p, d)
       /\ ByteAt(file2, TextEnd(file2) - 1) = NL
       /\ LineAt(file2, p, d, len, p + len)
       /\ \A d2 \in Nat : d < d2 => DayLines(file2, p + len, d2)
  <2>1. \A j \in 0 .. len - 1 : ByteAt(file2, p + j) = Line(d, len)[j]
    BY <1>7
  <2> QED BY <1>1, <1>2, <1>6, <1>8, <1>9, <2>1, LineWritten
<1>11. CleanBehind(file2, c)
  <2> SUFFICES ASSUME NEW i \in Nat, t <= i, i < FileEnd, ByteAt(file2, i) # NUL
               PROVE  i < (c + 1) * BlockSize /\ m < t
    BY <1>8 DEF CleanBehind, m
  <2>1. m < t
    BY <1>1
  <2>2. ASSUME ~(i < m + BlockSize) PROVE FALSE
    <3>1. ByteAt(file2, i) = ByteAt(file, i)
      BY <1>4, <2>2
    <3>2. c < LastBlock /\ (c + 1) * BlockSize <= i
      <4>1. c = LastBlock => (c + 1) * BlockSize = FileEnd
        BY DEF FileEnd
      <4> QED BY <1>1, <1>3, <2>2, <4>1, CardNumbers DEF BLOCKS
    <3>3. TextEnd(file) <= (c + 1) * BlockSize
      <4>1. ByteAt(file, (c + 1) * BlockSize + 0) = file[c + 1][0] /\ c + 1 \in Nat
        <5>1. c + 1 \in Nat
          BY <1>1
        <5> QED BY <5>1, FirstOffset, ByteIs
      <4>2. ByteAt(file, (c + 1) * BlockSize) = NUL
        <5>1. (c + 1) * BlockSize + 0 = (c + 1) * BlockSize
          BY <1>1
        <5> QED BY <3>2, <4>1, <5>1
      <4>3. (c + 1) * BlockSize < TextEnd(file) => (c + 1) * BlockSize \in 0 .. TextEnd(file) - 1
        BY <1>1, TextEndIs, FileEndIs DEF TextTo
      <4>4. ~((c + 1) * BlockSize < TextEnd(file))
        BY <4>2, <4>3, TextEndIs DEF TextTo
      <4> QED BY <1>1, <4>4, TextEndIs, FileEndIs DEF TextTo
    <3>4. TextEnd(file) <= i
      BY <1>1, <3>2, <3>3, TextEndIs, FileEndIs DEF TextTo
    <3>5. i < (c + 1) * BlockSize
      BY <1>9, <3>1, <3>4 DEF CleanBehind
    <3> QED BY <1>1, <2>2, <3>5
  <2> QED BY <1>1, <2>1, <2>2
<1>12. DayText(file2, c, k, d) /\ ShortText(file2, c)
  <2>1. c + 1 \in Nat /\ (c + 1) + 1 = c + 2
    BY <1>1
  <2>2. (c + 2) * BlockSize = (c + 1) * BlockSize + BlockSize
    BY <2>1, Multiples
  <2>3. ShortText(file2, c)
    BY <1>1, <1>8, <2>2 DEF ShortText
  <2> QED BY <1>10, <1>11, <2>3 DEF DayText, CutAtEnd, m
<1>13. ASSUME NEW d2 \in Nat, d < d2 PROVE DayText(file2, c, k + len, d2)
  <2>1. m + (k + len) = t
    BY <1>1
  <2>2. NewestLine(file2, t, d2) /\ CutAtEnd(file2, c, k + len)
    BY <1>1, <1>8, <1>10, <2>1 DEF NewestLine, CutAtEnd
  <2> QED BY <1>10, <1>11, <1>12, <1>13, <2>1, <2>2 DEF DayText, m
<1>14. m + (k + len) = t
  BY <1>1
<1> QED BY <1>6, <1>10, <1>12, <1>13, <1>14 DEF SameBelow, file2, m

\* SaveStats writes the first part of a line that goes on in the next block.
LEMMA FirstPart ==
  ASSUME NEW file \in Files, NEW c \in BLOCKS, NEW k \in 0 .. BlockSize, NEW d \in Nat, d >= 2,
         NEW len \in Nat, len >= 2, len <= BlockSize, BlockSize < k + len + 1,
         DayText(file, c, k, d),
         c < LastBlock /\ file[c + 1][0] # NUL => BlockSize < k + len,
         NEW buf \in [OFFSETS -> Nat], \A j \in OFFSETS : j < k => buf[j] = file[c][j],
         \A j \in OFFSETS : k <= j => buf[j] = Line(d, len)[j - k]
  PROVE  LET file2 == [file EXCEPT ![c] = buf]
         IN /\ DayText(file2, c, k, d)
            /\ SameBelow(file2, file, c * BlockSize + k)
<1> DEFINE file2 == [file EXCEPT ![c] = buf]
           m == c * BlockSize
           p == m + k
           t == TextEnd(file)
           n == m + BlockSize
<1>1. /\ m \in Nat /\ BlockSize \in Nat /\ k \in Nat /\ (c + 1) * BlockSize = n /\ k <= BlockSize
      /\ c \in Nat /\ p \in Nat /\ n <= FileEnd /\ FileEnd \in Nat /\ n \in Nat /\ p <= n
      /\ (c + 2) * BlockSize = n + BlockSize /\ (c < LastBlock \/ n = FileEnd)
  <2>1. c + 1 \in Nat /\ (c + 1) + 1 = c + 2
    BY BlockBounds
  <2>2. (c + 2) * BlockSize = (c + 1) * BlockSize + BlockSize
    BY <2>1, Multiples
  <2> QED BY <2>2, BlockBounds
<1>2. file2 \in Files
  BY StillFile
<1>3. t \in Nat /\ t <= FileEnd /\ \A i \in Nat : i < t => ByteAt(file, i) # NUL
  BY TextEndIs, FileEndIs DEF TextTo
<1>4. \A i \in Nat : i < FileEnd =>
        IF m <= i /\ i < n
        THEN i - m \in OFFSETS /\ ByteAt(file2, i) = buf[i - m]
        ELSE ByteAt(file2, i) = ByteAt(file, i)
  BY BytesOfUpdate
<1>5. \A i \in Nat : m <= i /\ i < n => ByteAt(file, i) = file[c][i - m]
  BY BytesOfBlock
<1> HIDE DEF file2, m, t
<1>6. \A i \in Nat : i < p => ByteAt(file2, i) = ByteAt(file, i)
  <2> TAKE i \in Nat
  <2> HAVE i < p
  <2>1. CASE m <= i
    <3>1. i < n /\ i < FileEnd /\ i - m < k
      BY <1>1, <2>1
    <3> QED BY <1>4, <1>5, <2>1, <3>1
  <2>2. CASE ~(m <= i)
    <3>1. i < FileEnd
      BY <1>1, <2>2
    <3> QED BY <1>4, <2>2, <3>1
  <2> QED BY <2>1, <2>2
<1>7. /\ DayLines(file, p, d) /\ NewestLine(file, p, d) /\ CutAtEnd(file, c, k)
      /\ CleanBehind(file, c) /\ ShortText(file, c) /\ p <= t
  BY DEF DayText, DayLines, m, t
<1>8. CASE k = BlockSize
  <2>1. \A j \in OFFSETS : buf[j] = file[c][j]
    BY <1>1, <1>8 DEF OFFSETS
  <2>2. file2 = file
    BY <2>1 DEF Files, file2
  <2> QED BY <1>6, <2>2 DEF SameBelow, file2, m
<1>9. CASE k # BlockSize
  <2>1. p < n
    BY <1>1, <1>9
  <2>2. ASSUME NEW i \in Nat, p <= i, i < n
        PROVE  /\ ByteAt(file2, i) = NL \/ ByteAt(file2, i) = d
               /\ i < n - 1 => ByteAt(file2, i) = d
               /\ BlockSize < k + len => ByteAt(file2, i) = d
               /\ i = n - 1 /\ k = 0 => ByteAt(file2, i) = NL
    <3>1. m <= i /\ i < FileEnd
      BY <1>1, <2>2
    <3>2. i - m \in OFFSETS /\ ByteAt(file2, i) = buf[i - m]
      BY <1>4, <2>2, <3>1
    <3>3. k <= i - m /\ (i - m) - k = i - p /\ i - p \in Nat /\ i - p <= len - 1
      BY <1>1, <2>2
    <3>4. ByteAt(file2, i) = Line(d, len)[i - p]
      BY <3>2, <3>3
    <3>5. i - p = len - 1 \/ i - p < len - 1
      BY <3>3
    <3>6. /\ Line(d, len)[len - 1] = NL
          /\ i - p < len - 1 => Line(d, len)[i - p] = d
      BY <3>3, LineIs
    <3>7. (i < n - 1 => i - p < len - 1) /\ (BlockSize < k + len => i - p < len - 1)
      BY <1>1, <2>2
    <3>8. i = n - 1 /\ k = 0 => i - p = len - 1
      BY <1>1, <2>2
    <3> QED BY <3>4, <3>5, <3>6, <3>7, <3>8
  <2>3. \A i \in Nat : n <= i /\ i < FileEnd => ByteAt(file2, i) = ByteAt(file, i)
    BY <1>1, <1>4
  <2>4. \A i \in Nat : i < n => ByteAt(file2, i) # NUL
    <3> TAKE i \in Nat
    <3> HAVE i < n
    <3>1. CASE i < p
      BY <1>1, <1>3, <1>6, <1>7, <3>1
    <3>2. CASE ~(i < p)
      BY <1>1, <2>2, <3>2 DEF NL, NUL
    <3> QED BY <3>1, <3>2
  <2>5. ByteAt(file2, p) = d
    <3>1. BlockSize < k + len \/ p < n - 1 
      BY <1>1, <1>9
    <3> QED BY <1>1, <2>1, <2>2, <3>1
  <2>6. c < LastBlock => ByteAt(file, n) = file[c + 1][0]
    <3>1. c + 1 \in Nat /\ (c + 1) * BlockSize + 0 = n
      BY <1>1
    <3>2. ByteAt(file, (c + 1) * BlockSize + 0) = file[c + 1][0]
      BY <3>1, FirstOffset, ByteIs
    <3> QED BY <3>1, <3>2
  \* The next block has the rest of a line that the day had before.
  <2>7. CASE c < LastBlock /\ file[c + 1][0] # NUL
    <3>1. n < FileEnd /\ ByteAt(file, n) # NUL
      <4>1. c + 1 \in BLOCKS
        BY <2>7, BlockBounds
      <4>2. (c + 1) * BlockSize + BlockSize <= FileEnd /\ BlockSize > 0
        BY <4>1, BlockBounds
      <4> QED BY <1>1, <2>6, <2>7, <4>2
    <3>2. n < t
      <4>1. t <= n => ByteAt(file, n) = NUL \/ n < (c + 1) * BlockSize
        BY <1>1, <1>7, <3>1 DEF CleanBehind, t
      <4> QED BY <1>1, <1>3, <3>1, <4>1
    <3>3. TextTo(file2, t)
      <4>1. \A i \in 0 .. t - 1 : ByteAt(file2, i) # NUL
        <5> TAKE i \in 0 .. t - 1
        <5>1. i \in Nat /\ i < t /\ i < FileEnd
          BY <1>3, <1>1
        <5> QED BY <1>1, <1>3, <2>3, <2>4, <5>1
      <4>2. t = FileEnd \/ ByteAt(file2, t) = NUL
        <5>1. t # FileEnd => ByteAt(file, t) = NUL
          BY TextEndIs DEF TextTo, t
        <5>2. t # FileEnd => t < FileEnd /\ n <= t
          BY <1>1, <1>3, <3>2
        <5> QED BY <1>3, <2>3, <5>1, <5>2
      <4> QED BY <1>1, <1>3, <4>1, <4>2 DEF TextTo
    <3>4. TextEnd(file2) = t
      BY <3>3, TextEndOnly
    <3>5. DayLines(file2, p, d)
      BY <1>1, <1>6, <1>7, <3>4, LinesStay DEF t
    <3>6. NewestLine(file2, p, d)
      <4>1. ASSUME NEW i \in Nat, p <= i, i < t - 1 PROVE ByteAt(file2, i) # NL
        <5>1. CASE i < n
          BY <2>2, <2>7, <4>1, <5>1 DEF NL
        <5>2. CASE ~(i < n)
          <6>1. ByteAt(file2, i) = ByteAt(file, i)
            BY <1>1, <1>3, <2>3, <4>1, <5>2
          <6>2. p < t
            BY <1>1, <1>3, <2>1, <3>2
          <6> QED BY <1>7, <4>1, <6>1, <6>2 DEF NewestLine, t
        <5> QED BY <5>1, <5>2
      <4>2. \A i \in Nat : StartBefore(file2, i, p) => Earlier(file2, i, d)
        BY <3>5 DEF DayLines
      <4> QED BY <2>5, <3>4, <4>1, <4>2 DEF NewestLine
    <3>7. CutAtEnd(file2, c, k)
      <4>1. ByteAt(file2, t - 1) = ByteAt(file, t - 1)
        BY <1>1, <1>3, <2>3, <3>2
      <4> QED BY <1>1, <1>7, <3>2, <3>4, <4>1 DEF CutAtEnd, m, t
    <3>8. CleanBehind(file2, c) /\ ShortText(file2, c)
      <4>1. \A i \in Nat : t <= i /\ i < FileEnd => ByteAt(file2, i) = ByteAt(file, i)
        BY <1>1, <1>3, <2>3, <3>2
      <4> QED BY <1>7, <3>4, <4>1 DEF CleanBehind, ShortText, t
    <3> QED BY <1>6, <3>5, <3>6, <3>7, <3>8 DEF SameBelow, DayText, file2, m
  <2>8. CASE ~(c < LastBlock /\ file[c + 1][0] # NUL)
    <3>1. n = FileEnd \/ (ByteAt(file, n) = NUL /\ n < FileEnd)
      <4>1. n \in Nat /\ FileEnd \in Nat /\ n <= FileEnd
        BY <1>1
      <4>2. n = FileEnd \/ n < FileEnd
        BY <4>1
      <4>3. CASE c < LastBlock
        <5>1. ByteAt(file, n) = NUL
          BY <2>6, <2>8, <4>3
        <5> QED BY <4>2, <5>1
      <4>4. CASE ~(c < LastBlock)
        BY <1>1, <4>4
      <4> QED BY <4>3, <4>4
    <3>2. TextTo(file2, n)
      <4>1. n = FileEnd \/ ByteAt(file2, n) = NUL
        BY <1>1, <2>3, <3>1
      <4> QED BY <1>1, <2>4, <4>1 DEF TextTo
    <3>3. TextEnd(file2) = n
      BY <3>2, TextEndOnly
    <3>4. t <= n
      BY <1>1, <1>3, <3>1
    <3>5. DayLines(file2, p, d)
      BY <1>1, <1>6, <1>7, <3>3, LinesStay
    <3>6. NewestLine(file2, p, d)
      <4>1. \A i \in Nat : p <= i /\ i < n - 1 => ByteAt(file2, i) # NL
        BY <1>1, <2>2 DEF NL
      <4>2. \A i \in Nat : StartBefore(file2, i, p) => Earlier(file2, i, d)
        BY <3>5 DEF DayLines
      <4> QED BY <2>5, <3>3, <4>1, <4>2 DEF NewestLine
    <3>7. CutAtEnd(file2, c, k)
      <4>1. k = 0 => ByteAt(file2, n - 1) = NL
        <5>1. n - 1 \in Nat /\ p <= n - 1 /\ n - 1 < n
          BY <1>1, <2>1
        <5> QED BY <2>2, <5>1
      <4> QED BY <1>1, <3>3, <4>1 DEF CutAtEnd
    <3>8. CleanBehind(file2, c) /\ ShortText(file2, c)
      <4>1. \A i \in Nat : n <= i /\ i < FileEnd => ByteAt(file2, i) = NUL
        <5> TAKE i \in Nat
        <5> HAVE n <= i /\ i < FileEnd
        <5>1. t <= i /\ ~(i < (c + 1) * BlockSize)
          BY <1>1, <1>3, <3>4
        <5>2. ByteAt(file, i) = NUL
          BY <1>7, <5>1 DEF CleanBehind, t
        <5> QED BY <2>3, <5>2
      <4> QED BY <1>1, <3>3, <4>1 DEF CleanBehind, ShortText
    <3> QED BY <1>6, <3>5, <3>6, <3>7, <3>8 DEF SameBelow, DayText, file2, m
  <2> QED BY <2>7, <2>8
<1> QED BY <1>8, <1>9

\* SaveStats writes the rest of the line into the next block.
LEMMA SecondPart ==
  ASSUME NEW file \in Files, NEW c \in BLOCKS, c < LastBlock, NEW k \in 0 .. BlockSize,
         NEW d \in Nat, d >= 2, NEW len \in Nat, len >= 2, len <= BlockSize,
         BlockSize < k + len + 1, DayText(file, c, k, d),
         \A j \in OFFSETS : k <= j => file[c][j] = Line(d, len)[j - k],
         Rest(k, len, Line(d, len)) \in [OFFSETS -> Nat]
  PROVE  LET file2 == [file EXCEPT ![c + 1] = Rest(k, len, Line(d, len))]
             l == RestLen(k, len)
         IN /\ DayText(file2, c, k, d)
            /\ l \in 0 .. BlockSize
            /\ LineAt(file2, c * BlockSize + k, d, len, (c + 1) * BlockSize + l)
            /\ \A d2 \in Nat : d < d2 => DayText(file2, c + 1, l, d2)
            /\ SameBelow(file2, file, c * BlockSize + k)
            /\ c * BlockSize + k <= (c + 1) * BlockSize + l
<1> DEFINE buf == Rest(k, len, Line(d, len))
           file2 == [file EXCEPT ![c + 1] = buf]
           l == RestLen(k, len)
           m == c * BlockSize
           p == m + k
           n == m + BlockSize
           t == p + len
<1>1. /\ m \in Nat /\ BlockSize \in Nat /\ BlockSize > 0 /\ k \in Nat /\ k <= BlockSize
      /\ (c + 1) * BlockSize = n /\ c \in Nat /\ c + 1 \in BLOCKS
      /\ p \in Nat /\ n + BlockSize <= FileEnd /\ FileEnd \in Nat /\ n \in Nat /\ p <= n
      /\ (c + 2) * BlockSize = n + BlockSize /\ (c + 3) * BlockSize = n + BlockSize + BlockSize
  <2>1. c + 1 \in Nat /\ (c + 1) + 1 = c + 2 /\ c + 2 \in Nat /\ (c + 2) + 1 = c + 3
    BY BlockBounds
  <2>2. (c + 2) * BlockSize = (c + 1) * BlockSize + BlockSize
    BY <2>1, Multiples
  <2>3. (c + 3) * BlockSize = (c + 2) * BlockSize + BlockSize
    BY <2>1, Multiples
  <2>4. c + 1 \in BLOCKS
    BY BlockBounds
  <2>5. (c + 1) * BlockSize + BlockSize <= FileEnd
    BY <2>4, BlockBounds
  <2> QED BY <2>2, <2>3, <2>4, <2>5, BlockBounds
<1>2. file2 \in Files
  BY <1>1, StillFile
<1>3. \A i \in Nat : i < FileEnd =>
        IF n <= i /\ i < n + BlockSize
        THEN i - n \in OFFSETS /\ ByteAt(file2, i) = buf[i - n]
        ELSE ByteAt(file2, i) = ByteAt(file, i)
  BY <1>1, BytesOfUpdate
<1>4. \A i \in Nat : m <= i /\ i < n => i - m \in OFFSETS /\ ByteAt(file, i) = file[c][i - m]
  BY BytesOfBlock
<1>5. Saved(k, len) = BlockSize - k /\ l = k + len - BlockSize /\ l \in Nat /\ l <= BlockSize
      /\ t = n + l
  BY <1>1 DEF Saved, RestLen
<1>6. \A j \in OFFSETS : j \in Nat /\ buf[j] = IF j <= l THEN Line(d, len)[BlockSize - k + j] ELSE NUL
  <2> TAKE j \in OFFSETS
  <2>1. j \in Nat
    BY <1>1 DEF OFFSETS
  <2>2. Saved(k, len) + j <= len <=> j <= l
    BY <1>1, <1>5, <2>1
  <2> QED BY <1>5, <2>1, <2>2 DEF Rest
<1>7. DayLines(file, p, d) /\ CleanBehind(file, c) /\ ShortText(file, c)
  BY DEF DayText
<1> HIDE DEF file2, m, buf, l
<1>8. \A i \in Nat : i < p => ByteAt(file2, i) = ByteAt(file, i)
  <2> TAKE i \in Nat
  <2> HAVE i < p
  <2>1. i < FileEnd /\ i < n
    BY <1>1
  <2> QED BY <1>1, <1>3, <2>1
<1>9. \A j \in 0 .. len - 1 : ByteAt(file2, p + j) = Line(d, len)[j]
  <2> TAKE j \in 0 .. len - 1
  <2>1. p + j \in Nat /\ p + j < FileEnd /\ p + j < n + BlockSize
    BY <1>1, <1>5
  <2>2. CASE p + j < n
    <3>1. ByteAt(file2, p + j) = ByteAt(file, p + j)
      BY <1>1, <1>3, <2>1, <2>2
    <3>2. (p + j) - m \in OFFSETS /\ ByteAt(file, p + j) = file[c][(p + j) - m]
      BY <1>1, <1>4, <2>1, <2>2
    <3>3. k <= (p + j) - m /\ ((p + j) - m) - k = j
      BY <1>1
    <3> QED BY <3>1, <3>2, <3>3
  <2>3. CASE ~(p + j < n)
    <3>1. (p + j) - n \in OFFSETS /\ ByteAt(file2, p + j) = buf[(p + j) - n]
      BY <1>1, <1>3, <2>1, <2>3
    <3>2. (p + j) - n <= l /\ BlockSize - k + ((p + j) - n) = j
      BY <1>1, <1>5
    <3> QED BY <1>6, <3>1, <3>2
  <2> QED BY <2>2, <2>3
<1>10. \A i \in Nat : t <= i /\ i < FileEnd => ByteAt(file2, i) = NUL
  <2> TAKE i \in Nat
  <2> HAVE t <= i /\ i < FileEnd
  <2>1. CASE i < n + BlockSize
    <3>1. i - n \in OFFSETS /\ ByteAt(file2, i) = buf[i - n] /\ i - n \in Nat
      BY <1>1, <1>3, <1>5, <2>1
    <3>2. i - n = l \/ ~(i - n <= l)
      BY <1>1, <1>5, <2>1
    <3>3. BlockSize - k + l = len
      BY <1>1, <1>5
    <3> QED BY <1>6, <3>1, <3>2, <3>3, LineIs
  <2>2. CASE ~(i < n + BlockSize)
    <3>1. ByteAt(file2, i) = ByteAt(file, i)
      BY <1>1, <1>3, <2>2
    <3>2. TextEnd(file) <= i
      BY <1>1, <1>7, <2>2, TextEndIs DEF TextTo, ShortText
    <3>3. ~(i < (c + 1) * BlockSize)
      BY <1>1, <2>2
    <3> QED BY <1>7, <3>1, <3>2, <3>3 DEF CleanBehind
  <2> QED BY <2>1, <2>2
<1>11. TextEnd(file2) = t
  <2>1. ASSUME NEW i \in 0 .. t - 1 PROVE ByteAt(file2, i) # NUL
    <3>1. CASE i < p
      <4>1. p <= TextEnd(file)
        BY <1>7 DEF DayLines
      <4>2. i \in 0 .. TextEnd(file) - 1
        BY <1>1, <3>1, <4>1, TextEndIs, FileEndIs DEF TextTo
      <4> QED BY <1>8, <3>1, <4>2, TextEndIs DEF TextTo
    <3>2. CASE ~(i < p)
      <4>1. i - p \in 0 .. len - 1 /\ p + (i - p) = i /\ i - p \in Nat
        BY <1>1, <3>2
      <4>2. ByteAt(file2, i) = Line(d, len)[i - p]
        BY <1>9, <4>1
      <4>3. i - p = len - 1 \/ i - p < len - 1
        BY <4>1
      <4>4. Line(d, len)[i - p] = NL \/ Line(d, len)[i - p] = d
        BY <4>1, <4>3, LineIs
      <4> QED BY <4>2, <4>4 DEF NL, NUL
    <3> QED BY <3>1, <3>2
  <2>2. t \in 0 .. FileEnd /\ (t = FileEnd \/ ByteAt(file2, t) = NUL)
    BY <1>1, <1>5, <1>10
  <2>3. TextTo(file2, t)
    BY <2>1, <2>2 DEF TextTo
  <2> QED BY <2>3, TextEndOnly
<1>12. /\ DayLines(file2, p, d) /\ NewestLine(file2, p, d)
       /\ ByteAt(file2, TextEnd(file2) - 1) = NL
       /\ LineAt(file2, p, d, len, p + len)
       /\ \A d2 \in Nat : d < d2 => DayLines(file2, p + len, d2)
  BY <1>1, <1>2, <1>7, <1>8, <1>9, <1>11, LineWritten
<1>13. CleanBehind(file2, c) /\ CleanBehind(file2, c + 1)
  BY <1>10, <1>11 DEF CleanBehind
<1>14. ShortText(file2, c) /\ ShortText(file2, c + 1)
  <2>1. ((c + 1) + 2) * BlockSize = (c + 3) * BlockSize
    BY <1>1
  <2> QED BY <1>1, <1>5, <1>11, <2>1 DEF ShortText
<1>15. DayText(file2, c, k, d)
  BY <1>12, <1>13, <1>14 DEF DayText, CutAtEnd, m
<1>16. (c + 1) * BlockSize + l = t
  BY <1>1, <1>5
<1>17. ASSUME NEW d2 \in Nat, d < d2 PROVE DayText(file2, c + 1, l, d2)
  <2>1. ~(t < TextEnd(file2))
    BY <1>1, <1>11
  <2>2. NewestLine(file2, t, d2) /\ CutAtEnd(file2, c + 1, l)
    BY <1>16, <2>1 DEF NewestLine, CutAtEnd
  <2> QED BY <1>12, <1>13, <1>14, <1>16, <1>17, <2>2 DEF DayText
<1>18. p <= t /\ l \in 0 .. BlockSize
  BY <1>1, <1>5
<1> QED BY <1>8, <1>12, <1>15, <1>16, <1>17, <1>18 DEF SameBelow, file2, m, buf, l

-----------------------------------------------------------------------------
(* A start of the program in such a file                                       *)

\* In a file of days the search by halves can work.
LEMMA DayTextSearchable ==
  ASSUME NEW file, NEW c \in BLOCKS, NEW k, NEW d, DayText(file, c, k, d)
  PROVE  Searchable(file)
<1> SUFFICES ASSUME NEW b \in BLOCKS, TextEnd(file) <= b * BlockSize
             PROVE  file[b][0] = NUL
  BY DEF Searchable
<1>1. b \in Nat /\ c \in Nat /\ b * BlockSize \in Nat /\ b * BlockSize < FileEnd
      /\ c * BlockSize \in Nat /\ TextEnd(file) \in Nat
  BY BlockBounds, TextEndIs, FileEndIs DEF TextTo
<1>2. ByteAt(file, b * BlockSize) = file[b][0]
  <2>1. ByteAt(file, b * BlockSize + 0) = file[b][0] /\ b * BlockSize + 0 = b * BlockSize
    BY <1>1, FirstOffset, ByteIs
  <2> QED BY <2>1
<1>3. ~(b * BlockSize < (c + 1) * BlockSize /\ c * BlockSize < b * BlockSize)
  <2>1. b <= c => b * BlockSize <= c * BlockSize
    BY <1>1, Multiples
  <2>2. c + 1 <= b => (c + 1) * BlockSize <= b * BlockSize
    <3>1. c + 1 \in Nat
      BY <1>1
    <3> QED BY <1>1, <3>1, Multiples
  <2>3. b <= c \/ c + 1 <= b
    BY <1>1
  <2>4. (c + 1) * BlockSize \in Nat
    BY BlockBounds
  <2> QED BY <1>1, <2>1, <2>2, <2>3, <2>4
<1>4. c * BlockSize < TextEnd(file) => c * BlockSize < b * BlockSize
  BY <1>1
<1> QED BY <1>1, <1>2, <1>3, <1>4 DEF DayText, CleanBehind

\* A file of days ends behind the line that was cut, if that has its end, or before it.
LEMMA DayEnd ==
  ASSUME NEW file, NEW c \in BLOCKS, NEW k \in 0 .. BlockSize, NEW d, DayText(file, c, k, d)
  PROVE  LET p == c * BlockSize + k
             t == TextEnd(file)
         IN EndOfText(file) = IF p < t /\ ByteAt(file, t - 1) = NL THEN t ELSE p
<1> DEFINE p == c * BlockSize + k
           t == TextEnd(file)
<1>1. p \in Nat /\ t \in Nat /\ p <= t /\ AfterNewLine(file, p)
  <2>1. c * BlockSize \in Nat /\ k \in Nat
    BY BlockBounds
  <2> QED BY <2>1, TextEndIs, FileEndIs DEF TextTo, DayText, DayLines
<1>2. p < t => \A i \in Nat : p <= i /\ i < t - 1 => ByteAt(file, i) # NL
  BY DEF DayText, NewestLine
<1>3. CASE p < t /\ ByteAt(file, t - 1) = NL
  <2>1. AfterNewLine(file, t) /\ \A j \in Nat : t <= j /\ j < t => ByteAt(file, j) # NL
    BY <1>1, <1>3 DEF AfterNewLine
  <2> QED BY <1>1, <1>3, <2>1, EndOfTextOnly
<1>4. CASE ~(p < t /\ ByteAt(file, t - 1) = NL)
  <2>1. ASSUME NEW j \in Nat, p <= j, j < t PROVE ByteAt(file, j) # NL
    <3>1. j = t - 1 \/ j < t - 1
      BY <1>1, <2>1
    <3> QED BY <1>1, <1>2, <1>4, <2>1, <3>1
  <2> QED BY <1>1, <1>4, <2>1, EndOfTextOnly
<1> QED BY <1>3, <1>4

\* The start of the last line before place e.
LEMMA LastLineIs ==
  ASSUME NEW e \in Nat
  PROVE  /\ LastLine(e) \in Nat /\ AfterNewLine(disk, LastLine(e))
         /\ LastLine(e) = 0 \/ LastLine(e) < e
         /\ \A j \in Nat : LastLine(e) <= j /\ 1 <= j /\ j + 2 <= e => ByteAt(disk, j) # NL
<1> DEFINE ends == {i \in 1 .. e : i + 2 <= e /\ ByteAt(disk, i) = NL}
<1>1. CASE ends = {}
  <2>1. LastLine(e) = 0
    BY <1>1 DEF LastLine
  <2>2. \A j \in Nat : 1 <= j /\ j + 2 <= e => j \in 1 .. e
    OBVIOUS
  <2> QED BY <1>1, <2>1, <2>2 DEF AfterNewLine
<1>2. CASE ends # {}
  <2>1. ends \in SUBSET Nat /\ \A i \in ends : i <= e
    OBVIOUS
  <2>2. Newest(ends) \in ends /\ \A j \in ends : j <= Newest(ends)
    <3> HIDE DEF ends
    <3> QED BY <1>2, <2>1, NewestIs
  <2>3. LastLine(e) = Newest(ends) + 1
    BY <1>2 DEF LastLine
  <2>4. PICK n \in ends : n = Newest(ends)
    BY <2>2
  <2>5. n \in Nat /\ n + 2 <= e /\ ByteAt(disk, n) = NL
    OBVIOUS
  <2>6. ASSUME NEW j \in Nat, n + 1 <= j, 1 <= j, j + 2 <= e PROVE ByteAt(disk, j) # NL
    <3>1. j \in 1 .. e /\ ~(j <= n)
      BY <2>5, <2>6
    <3>2. j \notin ends
      BY <2>2, <2>4, <3>1
    <3> QED BY <2>6, <3>1, <3>2
  <2>7. AfterNewLine(disk, n + 1) /\ n + 1 < e /\ n + 1 \in Nat
    <3>1. (n + 1) - 1 = n
      BY <2>5
    <3> QED BY <2>5, <3>1 DEF AfterNewLine
  <2> QED BY <2>3, <2>4, <2>6, <2>7
<1> QED BY <1>1, <1>2

\* The line found is taken up if it is today's, and not the first one: there the byte
\* read at place 0 ends no line.
LEMMA TodayIs ==
  ASSUME NEW start \in Nat, today >= 2
  PROVE  /\ start = 0 /\ 2 <= ByteAt(disk, 0) => ~IsToday(start)
         /\ start # 0 /\ AfterNewLine(disk, start) => (IsToday(start) <=> ByteAt(disk, start) = today)
<1>1. ASSUME start = 0, 2 <= ByteAt(disk, 0) PROVE ~IsToday(start)
  <2>1. ReadFrom(start) = 1 /\ 1 - 1 = 0 /\ ByteAt(disk, 0) # NL
    BY <1>1 DEF ReadFrom, NL
  <2>2. DateAt(1) = NUL /\ NUL # today
    BY <2>1 DEF DateAt, NUL
  <2> QED BY <2>1, <2>2 DEF IsToday
<1>2. ASSUME start # 0, AfterNewLine(disk, start)
      PROVE  IsToday(start) <=> ByteAt(disk, start) = today
  BY <1>2 DEF IsToday, ReadFrom, DateAt, AfterNewLine
<1> QED BY <1>1, <1>2

\* A place inside of block c is named with block c only.
LEMMA InsideBlock ==
  ASSUME NEW c \in BLOCKS, NEW b \in BLOCKS, NEW j \in 0 .. BlockSize,
         c * BlockSize < b * BlockSize + j, b * BlockSize + j < (c + 1) * BlockSize
  PROVE  b = c
<1>1. /\ c \in Nat /\ c * BlockSize \in Nat /\ (c + 1) * BlockSize = c * BlockSize + BlockSize
      /\ b \in Nat /\ b * BlockSize \in Nat /\ BlockSize \in Nat /\ j \in Nat /\ j <= BlockSize
  BY BlockBounds
<1>2. ~(b < c)
  <2>1. b < c => b * BlockSize + BlockSize <= c * BlockSize
    BY <1>1, Multiples
  <2> QED BY <1>1, <2>1
<1>3. ~(c < b)
  <2>1. c < b => c * BlockSize + BlockSize <= b * BlockSize
    BY <1>1, Multiples
  <2> QED BY <1>1, <2>1
<1> QED BY <1>1, <1>2, <1>3

\* Where the text ends there is old text only in the block of the end.
LEMMA CleanAtEnd ==
  ASSUME NEW file, NEW c \in BLOCKS, CleanBehind(file, c), NEW b \in BLOCKS, NEW j \in 0 .. BlockSize,
         TextEnd(file) = b * BlockSize + j
  PROVE  CleanBehind(file, b) /\ ShortText(file, b)
<1>1. /\ b \in Nat /\ b * BlockSize \in Nat /\ (b + 1) * BlockSize = b * BlockSize + BlockSize
      /\ (b + 2) * BlockSize = b * BlockSize + BlockSize + BlockSize
      /\ BlockSize \in Nat /\ j \in Nat /\ j <= BlockSize /\ (c + 1) * BlockSize \in Nat
  <2>1. b + 1 \in Nat /\ (b + 1) + 1 = b + 2
    BY BlockBounds
  <2>2. ((b + 1) + 1) * BlockSize = (b + 1) * BlockSize + BlockSize
    BY <2>1, Multiples
  <2> QED BY <2>1, <2>2, BlockBounds
<1>2. ASSUME NEW i \in Nat, TextEnd(file) <= i, i < FileEnd, ByteAt(file, i) # NUL
      PROVE  i < (b + 1) * BlockSize /\ b * BlockSize < TextEnd(file)
  <2>1. i < (c + 1) * BlockSize /\ c * BlockSize < TextEnd(file)
    BY <1>2 DEF CleanBehind
  <2>2. TextEnd(file) < (c + 1) * BlockSize
    BY <1>1, <1>2, <2>1
  <2>3. b = c
    BY <2>1, <2>2, InsideBlock
  <2> QED BY <2>1, <2>3
<1> QED BY <1>1, <1>2 DEF CleanBehind, ShortText

\* A day on which the text ends with the line of an earlier day.
LEMMA NextDayText ==
  ASSUME NEW file, NEW p \in Nat, NEW d \in Nat, d >= 2, NEW d2 \in Nat, d <= d2,
         DayLines(file, p, d), file \in Files, p <= FileEnd
  PROVE  DayLines(file, p, d2)
<1>1. ASSUME NEW i \in Nat, StartBefore(file, i, p) PROVE Earlier(file, i, d2)
  <2>1. i < FileEnd /\ Earlier(file, i, d)
    BY <1>1, FileEndIs DEF StartBefore, DayLines
  <2>2. ByteAt(file, i) \in Nat
    BY <2>1, ByteTyped
  <2> QED BY <2>1, <2>2 DEF Earlier
<1> QED BY <1>1 DEF DayLines

\* Where SaveStats goes on after a start: at the line of today, or behind the last one.
LEMMA RestartPlace ==
  ASSUME disk \in Files, NEW c \in BLOCKS, NEW k \in 0 .. BlockSize, NEW d \in Nat, d >= 2,
         today \in Nat, d <= today, today >= 2, DayText(disk, c, k, d), EndPosition(disk) # <<>>
  PROVE  LET end == Flat(EndPosition(disk))
             start == LastLine(end)
             p == IF end > 1 /\ IsToday(start) THEN <<start \div BlockSize, start % BlockSize>>
                  ELSE EndPosition(disk)
         IN /\ p[1] \in BLOCKS /\ p[2] \in 0 .. BlockSize
            /\ DayText(disk, p[1], p[2], today)
            /\ c * BlockSize + k <= p[1] * BlockSize + p[2]
<1> DEFINE e == EndPosition(disk)
           end == Flat(EndPosition(disk))
           start == LastLine(end)
           p == IF end > 1 /\ IsToday(start) THEN <<start \div BlockSize, start % BlockSize>> ELSE e
           P == c * BlockSize + k
           t == TextEnd(disk)
           n == c * BlockSize + BlockSize
<1>1. /\ c \in Nat /\ c * BlockSize \in Nat /\ (c + 1) * BlockSize = n
      /\ BlockSize \in Nat /\ BlockSize > 0 /\ k \in Nat /\ k <= BlockSize /\ P \in Nat /\ n \in Nat
  BY BlockBounds
<1>2. t \in Nat /\ t <= FileEnd /\ FileEnd \in Nat
  BY TextEndIs, FileEndIs DEF TextTo
<1>3. /\ DayLines(disk, P, d) /\ NewestLine(disk, P, d) /\ CutAtEnd(disk, c, k)
      /\ CleanBehind(disk, c) /\ ShortText(disk, c) /\ P <= t /\ AfterNewLine(disk, P)
  BY DEF DayText, DayLines
<1>4. /\ BehindLine(disk, e, t) /\ end = EndOfText(disk) /\ end \in Nat /\ t < FileEnd
  BY DayTextSearchable, EndPositionIs
<1>5. e[1] \in BLOCKS /\ e[2] \in 0 .. BlockSize /\ end = e[1] * BlockSize + e[2]
  BY <1>4 DEF BehindLine, Flat
<1>6. end = IF P < t /\ ByteAt(disk, t - 1) = NL THEN t ELSE P
  BY <1>4, DayEnd
<1> HIDE DEF e, end, t
<1>7. /\ start \in Nat /\ AfterNewLine(disk, start) /\ (start = 0 \/ start < end)
      /\ \A j \in Nat : start <= j /\ 1 <= j /\ j + 2 <= end => ByteAt(disk, j) # NL
  BY <1>4, LastLineIs
<1> HIDE DEF start
<1>8. \A i \in Nat : StartBefore(disk, i, P) =>
        2 <= ByteAt(disk, i) /\ Earlier(disk, i, d) /\ (i # 0 => ByteAt(disk, i) # today)
  <2> TAKE i \in Nat
  <2> HAVE StartBefore(disk, i, P)
  <2>1. i < FileEnd
    BY <1>1, <1>2, <1>3 DEF StartBefore
  <2>2. ByteAt(disk, i) \in Nat
    BY <2>1, ByteTyped
  <2>3. 2 <= ByteAt(disk, i) /\ Earlier(disk, i, d)
    BY <1>3 DEF DayLines
  <2> QED BY <2>2, <2>3 DEF Earlier
<1>9. P <= FileEnd
  BY <1>1, <1>2, <1>3
<1>10. DayLines(disk, P, today)
  BY <1>1, <1>3, <1>9, NextDayText
<1>11. CASE P < t /\ ByteAt(disk, t - 1) = NL
  <2>1. end = t
    BY <1>6, <1>11
  <2>2. /\ 2 <= ByteAt(disk, P) /\ ByteAt(disk, P) = d
        /\ \A i \in Nat : StartBefore(disk, i, P) => Earlier(disk, i, ByteAt(disk, P))
        /\ \A i \in Nat : P <= i /\ i < t - 1 => ByteAt(disk, i) # NL
    BY <1>3, <1>11 DEF NewestLine, t
  <2>3. ~(P < start)
    <3>1. P < start => start - 1 \in Nat /\ P <= start - 1 /\ start - 1 < t - 1 /\ start # 0
      BY <1>1, <1>2, <1>7, <2>1
    <3> QED BY <1>7, <2>2, <3>1 DEF AfterNewLine
  <2>4. ~(start < P)
    <3> SUFFICES ASSUME start < P PROVE FALSE
      OBVIOUS
    <3>1. P # 1
      <4>1. P = 1 => StartBefore(disk, 0, P) /\ P - 1 = 0 /\ P # 0
        BY <1>7 DEF StartBefore, AfterNewLine
      <4> QED BY <1>3, <1>8, <4>1 DEF AfterNewLine, NL
    <3>2. P - 1 \in Nat /\ start <= P - 1 /\ 1 <= P - 1 /\ (P - 1) + 2 <= t /\ P # 0
      BY <1>1, <1>2, <1>7, <1>11, <3>1
    <3> QED BY <1>3, <1>7, <2>1, <3>2 DEF AfterNewLine
  <2>5. start = P
    BY <1>1, <1>7, <2>3, <2>4
  <2>6. end > 1
    <3>1. t = 1 => P = 0 /\ t - 1 = 0
      BY <1>1, <1>11
    <3> QED BY <1>1, <1>2, <1>11, <2>1, <2>2, <3>1 DEF NL
  <2>7. CASE d = today /\ start # 0
    <3>1. IsToday(start)
      BY <1>7, <2>2, <2>5, <2>7, TodayIs
    <3> DEFINE b == P \div BlockSize
               j == P % BlockSize
    <3>2. p = <<b, j>>
      BY <2>5, <2>6, <3>1
    <3>3. P < FileEnd
      BY <1>1, <1>2, <1>11
    <3>4. b \in BLOCKS /\ j \in OFFSETS /\ P = b * BlockSize + j
      BY <1>1, <3>3, PlaceOf
    <3> HIDE DEF b, j
    <3>5. /\ b \in Nat /\ b * BlockSize \in Nat /\ (b + 1) * BlockSize = b * BlockSize + BlockSize
          /\ j \in Nat /\ j < BlockSize
      BY <1>1, <3>4, BlockBounds DEF OFFSETS
    <3>6. c <= b
      <4>1. b < c => b * BlockSize + BlockSize <= c * BlockSize
        BY <1>1, <3>5, Multiples
      <4> QED BY <1>1, <3>4, <3>5, <4>1
    <3>7. CleanBehind(disk, b)
      <4>1. CASE k < BlockSize
        <5>1. k \in OFFSETS
          BY <1>1, <4>1 DEF OFFSETS
        <5>2. c \in Nat /\ b \in Nat /\ c * BlockSize + k = b * BlockSize + j
          BY <1>1, <3>4, <3>5
        <5>3. b = c
          BY <3>4, <5>1, <5>2, SamePlace
        <5> QED BY <1>3, <5>3
      <4>2. CASE k = BlockSize
        <5>1. \A i \in Nat : t <= i => ~(i < (c + 1) * BlockSize)
          BY <1>1, <1>2, <1>11, <4>2
        <5> QED BY <1>3, <5>1 DEF CleanBehind, t
      <4> QED BY <1>1, <4>1, <4>2
    <3>8. ShortText(disk, b)
      <4>1. c + 2 \in Nat /\ b + 2 \in Nat /\ c + 2 <= b + 2
        BY <1>1, <3>5, <3>6
      <4>2. (c + 2) * BlockSize <= (b + 2) * BlockSize
        BY <4>1, Multiples
      <4>3. (c + 2) * BlockSize \in Nat /\ (b + 2) * BlockSize \in Nat
        BY <4>1, Multiples
      <4> QED BY <1>2, <1>3, <4>2, <4>3 DEF ShortText, t
    <3>9. CutAtEnd(disk, b, j)
      BY <1>11 DEF CutAtEnd, t
    <3>10. DayText(disk, b, j, today)
      BY <1>3, <2>7, <3>4, <3>7, <3>8, <3>9 DEF DayText
    <3>11. j \in 0 .. BlockSize
      BY <1>1, <3>5
    <3> QED BY <1>1, <3>2, <3>4, <3>10, <3>11 DEF e, end, start
  <2>8. CASE d < today \/ start = 0
    <3>1. ~IsToday(start)
      BY <1>1, <1>3, <1>7, <2>2, <2>5, <2>8, TodayIs
    <3>2. p = e
      BY <3>1
    <3>3. ASSUME NEW i \in Nat, StartBefore(disk, i, t)
          PROVE  /\ 2 <= ByteAt(disk, i) /\ Earlier(disk, i, today)
                 /\ \A j \in Nat : AfterNewLine(disk, j) /\ j < i =>
                      Earlier(disk, j, ByteAt(disk, i))
      <4>1. ~(P < i)
        <5>1. P < i => i - 1 \in Nat /\ P <= i - 1 /\ i - 1 < t - 1 /\ i # 0
          BY <1>1, <1>2, <3>3 DEF StartBefore
        <5> QED BY <2>2, <3>3, <5>1 DEF StartBefore, AfterNewLine
      <4>2. CASE i < P
        <5>1. StartBefore(disk, i, P)
          BY <3>3, <4>2 DEF StartBefore
        <5> QED BY <1>10, <5>1 DEF DayLines
      <4>3. CASE i = P
        <5>1. ASSUME NEW j \in Nat, AfterNewLine(disk, j), j < i
              PROVE  Earlier(disk, j, ByteAt(disk, i))
          <6>1. StartBefore(disk, j, P)
            BY <4>3, <5>1 DEF StartBefore
          <6> QED BY <2>2, <4>3, <6>1
        <5>2. Earlier(disk, P, today)
          BY <2>2, <2>5, <2>8 DEF Earlier
        <5> QED BY <2>2, <4>3, <5>1, <5>2
      <4> QED BY <1>1, <4>1, <4>2, <4>3
    <3>4. DayLines(disk, t, today)
      <4>1. AfterNewLine(disk, t)
        BY <1>11 DEF AfterNewLine
      <4> QED BY <1>2, <3>3, <4>1 DEF DayLines, t
    <3>5. CleanBehind(disk, e[1]) /\ ShortText(disk, e[1])
      BY <1>3, <1>5, <2>1, CleanAtEnd DEF t
    <3>6. t = e[1] * BlockSize + e[2]
      BY <1>5, <2>1
    <3>7. NewestLine(disk, t, today) /\ CutAtEnd(disk, e[1], e[2])
      <4>1. ~(t < t)
        BY <1>2
      <4> QED BY <3>6, <4>1 DEF NewestLine, CutAtEnd, t
    <3>8. DayText(disk, e[1], e[2], today)
      BY <3>4, <3>5, <3>6, <3>7 DEF DayText
    <3>9. P <= t
      BY <1>3
    <3> QED BY <1>5, <3>2, <3>6, <3>8, <3>9 DEF e, end, start
  <2> QED BY <2>7, <2>8
<1>12. CASE ~(P < t /\ ByteAt(disk, t - 1) = NL)
  <2>1. end = P
    BY <1>6, <1>12
  <2>2. end > 1 => StartBefore(disk, start, P)
    BY <1>7, <2>1 DEF StartBefore
  <2>3. ~(end > 1 /\ IsToday(start))
    <3> SUFFICES ASSUME end > 1 PROVE ~IsToday(start)
      OBVIOUS
    <3>1. CASE start = 0
      <4>1. 2 <= ByteAt(disk, 0)
        BY <1>8, <2>2, <3>1
      <4> QED BY <3>1, <4>1, TodayIs
    <3>2. CASE start # 0
      BY <1>7, <1>8, <2>2, <3>2, TodayIs
    <3> QED BY <3>1, <3>2
  <2>4. p = e
    BY <2>3
  <2>5. P = e[1] * BlockSize + e[2]
    BY <1>5, <2>1
  <2>6. /\ CutAtEnd(disk, e[1], e[2]) /\ CleanBehind(disk, e[1]) /\ ShortText(disk, e[1])
    <3>1. CASE P < t
      <4>1. t = (c + 1) * BlockSize /\ k > 0
        BY <1>3, <1>12, <3>1 DEF CutAtEnd, t
      <4>2. c * BlockSize < P /\ P < (c + 1) * BlockSize
        BY <1>1, <3>1, <4>1
      <4>3. e[1] = c
        BY <1>5, <2>5, <4>2, InsideBlock
      <4>4. e[1] * BlockSize = c * BlockSize /\ e[2] \in Nat
        BY <1>1, <1>5, <4>3
      <4>5. e[2] = k
        BY <1>1, <2>5, <4>4
      <4> QED BY <1>3, <4>3, <4>5
    <3>2. CASE ~(P < t)
      <4>1. t = e[1] * BlockSize + e[2]
        BY <1>1, <1>2, <1>3, <2>5, <3>2
      <4>2. CleanBehind(disk, e[1]) /\ ShortText(disk, e[1])
        BY <1>3, <1>5, <4>1, CleanAtEnd DEF t
      <4> QED BY <2>5, <3>2, <4>2 DEF CutAtEnd, t
    <3> QED BY <3>1, <3>2
  <2>7. NewestLine(disk, P, today)
    <3>1. CASE P < t
      <4>1. P < FileEnd
        BY <1>1, <1>2, <3>1
      <4>2. ByteAt(disk, P) \in Nat
        BY <1>1, <4>1, ByteTyped
      <4>3. ByteAt(disk, P) <= today
        BY <1>3, <3>1, <4>2 DEF NewestLine, t
      <4> QED BY <1>3, <1>12, <3>1, <4>3 DEF NewestLine, t
    <3> QED BY <3>1 DEF NewestLine, t
  <2>8. DayText(disk, e[1], e[2], today)
    BY <1>10, <2>5, <2>6, <2>7 DEF DayText
  <2>9. P <= P
    BY <1>1
  <2> QED BY <1>5, <2>4, <2>5, <2>8, <2>9 DEF e, end, start
<1> QED BY <1>11, <1>12

\* In such a file every line behind the first one is of another day.
LEMMA DaysDiffer ==
  ASSUME NEW file \in Files, NEW c \in BLOCKS, NEW k \in 0 .. BlockSize, NEW d, DayText(file, c, k, d),
         NEW i \in LineStarts(file) \ {0, TextEnd(file)},
         NEW j \in LineStarts(file) \ {0, TextEnd(file)}, i < j
  PROVE  ByteAt(file, i) # ByteAt(file, j)
<1> DEFINE p == c * BlockSize + k
           t == TextEnd(file)
<1>1. /\ t \in Nat /\ t <= FileEnd /\ FileEnd \in Nat /\ p \in Nat
      /\ i \in Nat /\ j \in Nat /\ i < t /\ j < t /\ i # 0
      /\ AfterNewLine(file, i) /\ AfterNewLine(file, j)
  <2>1. c * BlockSize \in Nat /\ k \in Nat
    BY BlockBounds
  <2>2. t \in Nat /\ t <= FileEnd /\ FileEnd \in Nat
    BY TextEndIs, FileEndIs DEF TextTo
  <2> QED BY <2>1, <2>2 DEF LineStarts, AfterNewLine
<1>2. ByteAt(file, i) \in Nat /\ ByteAt(file, j) \in Nat
  BY <1>1, ByteTyped
<1>3. CASE j < p
  <2>1. StartBefore(file, j, p)
    BY <1>1, <1>3 DEF StartBefore
  <2>2. Earlier(file, i, ByteAt(file, j))
    BY <1>1, <2>1 DEF DayText, DayLines
  <2> QED BY <1>1, <1>2, <2>2 DEF Earlier
<1>4. CASE j = p
  <2>1. StartBefore(file, i, p) /\ p < t
    BY <1>1, <1>4 DEF StartBefore
  <2>2. Earlier(file, i, ByteAt(file, j))
    BY <1>1, <1>4, <2>1 DEF DayText, NewestLine
  <2> QED BY <1>1, <1>2, <2>2 DEF Earlier
<1>5. CASE p < j
  <2>1. j - 1 \in Nat /\ p <= j - 1 /\ j - 1 < t - 1 /\ j # 0 /\ p < t
    BY <1>1, <1>5
  <2>2. ByteAt(file, j - 1) # NL
    BY <2>1 DEF DayText, NewestLine
  <2> QED BY <1>1, <2>1, <2>2 DEF AfterNewLine
<1> QED BY <1>1, <1>3, <1>4, <1>5
-----------------------------------------------------------------------------
(* The invariant of the days                                                   *)

\* A line fits if its NUL does.
LEMMA FitsIs ==
  ASSUME NEW k \in 0 .. BlockSize, NEW len \in Nat
  PROVE  Fits(k, len) <=> k + len + 1 <= BlockSize
BY CardNumbers DEF Fits, Saved

SaveTyped == save \in [StatsSaver -> [at : {"idle", "write", "write2"}, len : Nat]]

DaysTypeOK ==
  /\ disk \in Files /\ stats_buffer \in [OFFSETS -> Nat]
  /\ CurrentBlock \in BLOCKS /\ CurrentPos \in 0 .. BlockSize
  /\ day \in Nat /\ 2 <= day /\ today \in Nat /\ day <= today
  /\ SaveTyped /\ semaphore \in BOOLEAN

Busy(u) == save[u].at # "idle"

\* The semaphore keeps the saves apart; vReadSensor saves when the day is over.
SavesInTurn ==
  /\ \A u \in StatsSaver : Busy(u) => semaphore /\ save[u].len \in 2 .. BlockSize
  /\ \A u, v \in StatsSaver : Busy(u) /\ Busy(v) => u = v
  /\ Busy("vReadSensor") => day < today
  /\ \A u \in StatsSaver :
       save[u].at = "write2" => CurrentBlock < LastBlock /\ ~Fits(CurrentPos, save[u].len)

\* What the buffer has of block c when its lines are to go on at offset k.
BufferBefore(file, buf, c, k) == \A j \in OFFSETS : j < k => buf[j] = file[c][j]

\* Before the first write the buffer has line d behind what block c has.
LineInBuffer(file, buf, c, k, d, len) ==
  /\ \A j \in OFFSETS : k <= j /\ j <= k + len => buf[j] = Line(d, len)[j - k]
  /\ c < LastBlock /\ file[c + 1][0] # NUL => BlockSize < k + len

\* Between the two writes block c has the line's beginning and the buffer its rest.
RestInBuffer(file, buf, c, k, d, len) ==
  /\ c < LastBlock /\ ~Fits(k, len) /\ buf = Rest(k, len, Line(d, len))
  /\ \A j \in OFFSETS : k <= j => file[c][j] = Line(d, len)[j - k]

\* Each of these lines is in the file, whole and below m.
LinesBelow(file, lines, m) ==
  \A l \in lines : l[2] \in Nat /\ l[2] >= 2 /\ \E i \in Nat : LineAt(file, i, l[1], l[2], m)

\* What the buffer has, between saves and in each of their places.
SavesKnow ==
  /\ (\A u \in StatsSaver : save[u].at # "write2") =>
       BufferBefore(disk, stats_buffer, CurrentBlock, CurrentPos)
  /\ \A u \in StatsSaver :
       /\ save[u].at = "write" =>
            LineInBuffer(disk, stats_buffer, CurrentBlock, CurrentPos, day, save[u].len)
       /\ save[u].at = "write2" =>
            RestInBuffer(disk, stats_buffer, CurrentBlock, CurrentPos, day, save[u].len)

\* The file, the days that are closed, and the saves under way.
DaysHold ==
  /\ DayText(disk, CurrentBlock, CurrentPos, day)
  /\ LinesBelow(disk, closed, CurrentBlock * BlockSize + CurrentPos)
  /\ SavesKnow

DaysInv == DaysTypeOK /\ SavesInTurn /\ (marred = {} => DaysHold)

LEMMA LineTyped ==
  ASSUME NEW n \in Nat, NEW len \in Nat
  PROVE  \A k \in 0 .. len : Line(n, len)[k] \in Nat
BY DEF Line, NUL, NL

\* What a line put into the buffer makes of it.
LEMMA BuffersTyped ==
  ASSUME NEW buf \in [OFFSETS -> Nat], NEW n \in Nat, NEW len \in Nat, NEW k \in 0 .. BlockSize
  PROVE  /\ WithLine(buf, k, Line(n, len)) \in [OFFSETS -> Nat]
         /\ Rest(k, len, Line(n, len)) \in [OFFSETS -> Nat]
         /\ Blank \in [OFFSETS -> Nat]
         /\ \A j \in OFFSETS : j < k => WithLine(buf, k, Line(n, len))[j] = buf[j]
         /\ \A j \in OFFSETS : k <= j /\ j <= k + len =>
              WithLine(buf, k, Line(n, len))[j] = Line(n, len)[j - k]
<1>1. \A j \in OFFSETS : j \in Nat
  BY CardNumbers DEF OFFSETS
<1>2. \A j \in 0 .. len : Line(n, len)[j] \in Nat
  BY LineTyped
<1>3. DOMAIN Line(n, len) = 0 .. len
  BY DEF Line
<1>4. ASSUME NEW j \in OFFSETS
      PROVE  /\ (IF j >= k /\ j - k \in 0 .. len THEN Line(n, len)[j - k] ELSE buf[j]) \in Nat
             /\ (IF Saved(k, len) + j <= len THEN Line(n, len)[Saved(k, len) + j] ELSE NUL) \in Nat
  <2>1. Saved(k, len) \in Nat
    BY CardNumbers DEF Saved
  <2>2. Saved(k, len) + j <= len => Saved(k, len) + j \in 0 .. len
    BY <1>1, <2>1
  <2> QED BY <1>2, <2>2 DEF NUL
<1>5. WithLine(buf, k, Line(n, len)) =
        [j \in OFFSETS |-> IF j >= k /\ j - k \in 0 .. len THEN Line(n, len)[j - k] ELSE buf[j]]
  BY <1>3 DEF WithLine
<1>6. Rest(k, len, Line(n, len)) \in [OFFSETS -> Nat]
  BY <1>4 DEF Rest
<1>7. \A j \in OFFSETS : j < k => ~(j >= k)
  BY <1>1
<1>8. \A j \in OFFSETS : k <= j /\ j <= k + len => j >= k /\ j - k \in 0 .. len
  BY <1>1
<1>9. Blank \in [OFFSETS -> Nat]
  BY DEF Blank, NUL
<1> QED BY <1>4, <1>5, <1>6, <1>7, <1>8, <1>9

LEMMA DaysInvInit == FileInit => DaysInv
<1> SUFFICES ASSUME FileInit PROVE DaysInv
  OBVIOUS
<1>0. BlockSize \in Nat /\ BlockSize > 0 /\ LastBlock \in Nat /\ 0 \in BLOCKS /\ 0 \in 0 .. BlockSize
  BY CardNumbers DEF BLOCKS
<1>1. Blank \in [OFFSETS -> Nat] /\ NewFile \in Files
  BY DEF Blank, NUL, NewFile, Files
<1>2. DaysTypeOK
  <2>1. SaveTyped
    BY DEF FileInit, SaveTyped, NotSaving
  <2>2. CurrentBlock = 0 /\ CurrentPos = 0 /\ day = 2 /\ today = 2 /\ semaphore = FALSE
        /\ disk = NewFile /\ stats_buffer = Blank
    BY DEF FileInit
  <2>3. day \in Nat /\ 2 <= day /\ today \in Nat /\ day <= today
    BY <2>2
  <2>4. semaphore \in BOOLEAN
    BY <2>2
  <2> QED BY <1>0, <1>1, <2>1, <2>2, <2>3, <2>4 DEF DaysTypeOK
<1>3. \A u \in StatsSaver : save[u].at = "idle"
  BY DEF FileInit, NotSaving
<1>4. SavesInTurn
  BY <1>3 DEF SavesInTurn, Busy, StatsSaver
<1>5. ASSUME NEW i \in Nat, i < FileEnd PROVE ByteAt(NewFile, i) = NUL
  BY <1>5, PlaceOf DEF ByteAt, NewFile, Blank
<1>6. FileEnd \in Nat /\ FileEnd > 0
  BY <1>0, BlockBounds
<1>7. TextEnd(NewFile) = 0
  <2>1. TextTo(NewFile, 0)
    BY <1>5, <1>6 DEF TextTo
  <2> QED BY <2>1, TextEndOnly
<1>8. 0 * BlockSize + 0 = 0 /\ (0 + 1) * BlockSize = BlockSize /\ (0 + 2) * BlockSize >= 0
  BY <1>0
<1>9. \A i \in Nat : ~StartBefore(NewFile, i, 0)
  BY DEF StartBefore
<1>10. DayLines(NewFile, 0, 2)
  BY <1>7, <1>9 DEF DayLines, AfterNewLine
<1>11. NewestLine(NewFile, 0, 2) /\ CutAtEnd(NewFile, 0, 0)
  BY <1>7, <1>8 DEF NewestLine, CutAtEnd
<1>12. CleanBehind(NewFile, 0) /\ ShortText(NewFile, 0)
  BY <1>5, <1>7, <1>8 DEF CleanBehind, ShortText
<1>13. DayText(NewFile, 0, 0, 2)
  BY <1>8, <1>10, <1>11, <1>12 DEF DayText
<1>14. SavesKnow
  BY <1>3, <1>0 DEF SavesKnow, BufferBefore, FileInit, OFFSETS
<1>15. LinesBelow(disk, closed, CurrentBlock * BlockSize + CurrentPos)
  BY DEF FileInit, LinesBelow
<1> QED BY <1>2, <1>4, <1>13, <1>14, <1>15 DEF FileInit, DaysInv, DaysHold

\* Nothing but the buffer and the turn changes: the file and the place stay.
LEMMA FileStays ==
  ASSUME DayText(disk, CurrentBlock, CurrentPos, day) /\
         LinesBelow(disk, closed, CurrentBlock * BlockSize + CurrentPos),
         UNCHANGED <<disk, position, day, closed>>
  PROVE  /\ DayText(disk, CurrentBlock, CurrentPos, day)'
         /\ LinesBelow(disk, closed, CurrentBlock * BlockSize + CurrentPos)'
BY DEF position

\* While the semaphore is free nobody is in SaveStats.
LEMMA NobodySaves ==
  ASSUME SaveTyped, SavesInTurn, ~semaphore
  PROVE  \A u \in StatsSaver : save[u].at = "idle"
BY DEF SavesInTurn, Busy

\* While u saves, the others do not.
LEMMA OneSaves ==
  ASSUME SaveTyped, SavesInTurn, NEW u \in StatsSaver, save[u].at # "idle"
  PROVE  /\ save[u].len \in Nat /\ save[u].len >= 2 /\ save[u].len <= BlockSize
         /\ \A v \in StatsSaver : v # u => save[v].at = "idle"
         /\ u # "web" => day < today
<1>1. save[u].len \in 2 .. BlockSize
  BY DEF SavesInTurn, Busy
<1>2. u # "web" => u = "vReadSensor"
  BY DEF StatsSaver
<1>3. \A v \in StatsSaver : v # u => save[v].at = "idle"
  BY DEF SavesInTurn, Busy
<1>4. u # "web" => day < today
  BY <1>2 DEF SavesInTurn, Busy
<1> QED BY <1>1, <1>3, <1>4, CardNumbers

\* A save ends: nobody saves.
LEMMA SaveEnds ==
  ASSUME SaveTyped, SavesInTurn, NEW u \in StatsSaver, save[u].at # "idle", SaveStops(u), semaphore' = FALSE
  PROVE  /\ SaveTyped' /\ SavesInTurn'
         /\ \A v \in StatsSaver : save'[v].at = "idle"
<1>1. \A v \in StatsSaver : v # u => save[v].at = "idle"
  BY OneSaves
<1>2. SaveTyped'
  BY DEF SaveTyped, SaveStops, NotSaving
<1>3. \A v \in StatsSaver : save'[v].at = "idle"
  BY <1>1 DEF SaveTyped, SaveStops, NotSaving
<1>4. SavesInTurn'
  BY <1>3 DEF SavesInTurn, Busy, StatsSaver
<1> QED BY <1>2, <1>3, <1>4

\* The next block has something of an earlier save.
LEMMA SpilledIs ==
  ASSUME CurrentBlock < LastBlock, CurrentBlock \in BLOCKS, disk[CurrentBlock + 1][0] # NUL
  PROVE  Spilled \in Nat /\ Spilled > 0
<1> DEFINE S == {k \in OFFSETS : disk[CurrentBlock + 1][k] # NUL}
<1>1. Spilled = Cardinality(S)
  BY CardNumbers DEF Spilled, BLOCKS
<1>2. IsFiniteSet(OFFSETS)
  <2>1. PICK m \in Int : m = BlockSize - 1
    BY CardNumbers
  <2>2. IsFiniteSet(0 .. m)
    BY <2>1, FS_Interval
  <2> QED BY <2>1, <2>2 DEF OFFSETS
<1>3. IsFiniteSet(S)
  <2>1. S \in SUBSET OFFSETS
    OBVIOUS
  <2> QED BY <1>2, <2>1, FS_Subset
<1>4. S # {}
  BY FirstOffset
<1> HIDE DEF S
<1>5. Cardinality(S) \in Nat /\ Cardinality(S) # 0
  BY <1>3, <1>4, FS_CardinalityType, FS_EmptySet
<1> QED BY <1>1, <1>5

\* The steps of the days: a line is put into the buffer with the semaphore taken.
LEMMA PutsLineStep ==
  ASSUME DaysInv, NEW u \in StatsSaver, NEW len \in Lengths, PutsLine(u, len)
  PROVE  DaysInv'
<1>0. len \in Nat /\ len >= 2 /\ len <= BlockSize /\ BlockSize \in Nat
  BY LineFits, CardNumbers
<1>1. DaysTypeOK /\ SavesInTurn /\ SaveTyped
  BY DEF DaysInv, DaysTypeOK
<1>2. \A v \in StatsSaver : save[v].at = "idle"
  BY <1>1, NobodySaves DEF PutsLine
<1>3. /\ save' = [save EXCEPT ![u] = [at |-> "write", len |-> len]] /\ semaphore' = TRUE
      /\ stats_buffer' = WithLine(stats_buffer, CurrentPos, Line(day, len))
      /\ UNCHANGED <<disk, position, day, today, closed>>
      /\ CurrentBlock' = CurrentBlock /\ CurrentPos' = CurrentPos
  BY DEF PutsLine, position
<1>4. /\ CurrentBlock \in BLOCKS /\ CurrentPos \in 0 .. BlockSize /\ day \in Nat /\ today \in Nat
      /\ stats_buffer \in [OFFSETS -> Nat] /\ day <= today
  BY <1>1 DEF DaysTypeOK
<1>5. /\ stats_buffer' \in [OFFSETS -> Nat]
      /\ \A j \in OFFSETS : j < CurrentPos => stats_buffer'[j] = stats_buffer[j]
      /\ \A j \in OFFSETS : CurrentPos <= j /\ j <= CurrentPos + len =>
           stats_buffer'[j] = Line(day, len)[j - CurrentPos]
  <2> DEFINE w == WithLine(stats_buffer, CurrentPos, Line(day, len))
  <2>1. /\ w \in [OFFSETS -> Nat]
        /\ \A j \in OFFSETS : j < CurrentPos => w[j] = stats_buffer[j]
        /\ \A j \in OFFSETS : CurrentPos <= j /\ j <= CurrentPos + len =>
             w[j] = Line(day, len)[j - CurrentPos]
    BY <1>0, <1>4, BuffersTyped
  <2>2. stats_buffer' = w
    BY <1>3
  <2> HIDE DEF w
  <2> QED BY <2>1, <2>2
<1>6. SaveTyped'
  BY <1>0, <1>1, <1>3 DEF SaveTyped
<1>7. DaysTypeOK'
  BY <1>1, <1>3, <1>5, <1>6 DEF DaysTypeOK
<1>8. save'[u] = [at |-> "write", len |-> len] /\ \A v \in StatsSaver : v # u => save'[v].at = "idle"
  BY <1>1, <1>2, <1>3 DEF SaveTyped
<1>9. SavesInTurn'
  <2>1. u = "vReadSensor" => day < today
    BY <1>4 DEF PutsLine
  <2>2. \A v \in StatsSaver : Busy(v)' => v = u
    BY <1>8 DEF Busy
  <2>3. save'[u].len \in 2 .. BlockSize
    BY <1>0, <1>8
  <2>4. \A v \in StatsSaver : save'[v].at # "write2"
    BY <1>8
  <2> QED BY <1>3, <2>1, <2>2, <2>3, <2>4 DEF SavesInTurn, StatsSaver
<1>10. ASSUME marred' = {} PROVE DaysHold'
  <2>1. marred = {} /\ ~(Spilled > 0 /\ CurrentPos + len < BlockSize + Spilled)
    BY <1>10 DEF PutsLine, Spoils
  <2>2. DaysHold
    BY <2>1 DEF DaysInv
  <2>3. /\ DayText(disk, CurrentBlock, CurrentPos, day)'
        /\ LinesBelow(disk, closed, CurrentBlock * BlockSize + CurrentPos)'
    BY <1>3, <2>2, FileStays DEF DaysHold
  <2>4. BufferBefore(disk, stats_buffer, CurrentBlock, CurrentPos)
    BY <1>2, <2>2 DEF DaysHold, SavesKnow
  <2>5. BufferBefore(disk, stats_buffer, CurrentBlock, CurrentPos)'
    BY <1>3, <1>5, <2>4 DEF BufferBefore
  <2>6. CurrentBlock < LastBlock /\ disk[CurrentBlock + 1][0] # NUL => BlockSize < CurrentPos + len
    <3> HAVE CurrentBlock < LastBlock /\ disk[CurrentBlock + 1][0] # NUL
    <3>1. Spilled \in Nat /\ Spilled > 0
      BY <1>4, SpilledIs
    <3> QED BY <1>0, <1>4, <2>1, <3>1
  <2>7. LineInBuffer(disk, stats_buffer, CurrentBlock, CurrentPos, day, len)'
    BY <1>3, <1>5, <2>6 DEF LineInBuffer
  <2>8. SavesKnow'
    BY <1>8, <2>5, <2>7 DEF SavesKnow
  <2> QED BY <2>3, <2>8 DEF DaysHold
<1> QED BY <1>7, <1>9, <1>10 DEF DaysInv

\* A line is put into the buffer and the semaphore does not come.
LEMMA PutsInVainStep ==
  ASSUME DaysInv, NEW len \in Lengths, PutsInVain(len)
  PROVE  DaysInv'
<1>0. len \in Nat /\ len >= 2 /\ len <= BlockSize /\ BlockSize \in Nat
  BY LineFits, CardNumbers
<1>1. DaysTypeOK /\ SavesInTurn /\ SaveTyped
  BY DEF DaysInv, DaysTypeOK
<1>2. /\ stats_buffer' = WithLine(stats_buffer, CurrentPos, Line(day, len))
      /\ UNCHANGED <<disk, position, day, today, closed>> /\ UNCHANGED <<save, semaphore>>
      /\ CurrentBlock' = CurrentBlock /\ CurrentPos' = CurrentPos
  BY DEF PutsInVain, position
<1>3. /\ CurrentBlock \in BLOCKS /\ CurrentPos \in 0 .. BlockSize /\ day \in Nat
      /\ stats_buffer \in [OFFSETS -> Nat]
  BY <1>1 DEF DaysTypeOK
<1>4. /\ stats_buffer' \in [OFFSETS -> Nat]
      /\ \A j \in OFFSETS : j < CurrentPos => stats_buffer'[j] = stats_buffer[j]
  BY <1>0, <1>2, <1>3, BuffersTyped
<1>5. DaysTypeOK' /\ SavesInTurn'
  BY <1>1, <1>2, <1>4 DEF DaysTypeOK, SaveTyped, SavesInTurn, Busy
<1>6. ASSUME marred' = {} PROVE DaysHold'
  <2>1. marred = {} /\ save["web"].at = "idle" /\ save["vReadSensor"].at = "idle"
    BY <1>6 DEF PutsInVain, Spoils
  <2>2. DaysHold /\ \A v \in StatsSaver : save[v].at = "idle"
    BY <2>1 DEF DaysInv, StatsSaver
  <2>3. /\ DayText(disk, CurrentBlock, CurrentPos, day)'
        /\ LinesBelow(disk, closed, CurrentBlock * BlockSize + CurrentPos)'
    BY <1>2, <2>2, FileStays DEF DaysHold
  <2>4. BufferBefore(disk, stats_buffer, CurrentBlock, CurrentPos)
    BY <2>2 DEF DaysHold, SavesKnow
  <2>5. BufferBefore(disk, stats_buffer, CurrentBlock, CurrentPos)'
    BY <1>2, <1>4, <2>4 DEF BufferBefore
  <2>6. SavesKnow'
    BY <1>2, <2>2, <2>5 DEF SavesKnow
  <2> QED BY <2>3, <2>6 DEF DaysHold
<1> QED BY <1>5, <1>6 DEF DaysInv

\* Lines stay where the bytes before their end stay.
LEMMA LinesBelowStay ==
  ASSUME NEW file, NEW file2, NEW lines, NEW m \in Nat, NEW m2 \in Nat, m <= m2,
         SameBelow(file2, file, m), LinesBelow(file, lines, m)
  PROVE  LinesBelow(file2, lines, m2)
<1> SUFFICES ASSUME NEW l \in lines
             PROVE  l[2] \in Nat /\ l[2] >= 2 /\ \E i \in Nat : LineAt(file2, i, l[1], l[2], m2)
  BY DEF LinesBelow
<1>1. l[2] \in Nat /\ l[2] >= 2 /\ \E i \in Nat : LineAt(file, i, l[1], l[2], m)
  BY DEF LinesBelow
<1>2. PICK n, len : n = l[1] /\ len = l[2]
  OBVIOUS
<1>3. len \in Nat /\ len >= 2 /\ \E i \in Nat : LineAt(file, i, n, len, m)
  BY <1>1, <1>2
<1>4. \E i \in Nat : LineAt(file2, i, n, len, m2)
  BY <1>3, LineStays DEF SameBelow
<1> QED BY <1>1, <1>2, <1>4

LEMMA PlaceTyped ==
  ASSUME NEW c \in BLOCKS, NEW k \in 0 .. BlockSize
  PROVE  c * BlockSize + k \in Nat
BY BlockBounds

\* The line ends in its block, or with it.
LEMMA WritesWholeStep ==
  ASSUME DaysInv, NEW u \in StatsSaver, WritesWhole(u)
  PROVE  DaysInv'
<1>1. DaysTypeOK /\ SavesInTurn /\ SaveTyped
  BY DEF DaysInv, DaysTypeOK
<1>2. PICK len, c, k, d, file, file2, buf, place :
        /\ len = save[u].len /\ c = CurrentBlock /\ k = CurrentPos /\ d = day
        /\ file = disk /\ file2 = disk' /\ buf = stats_buffer /\ place = c * BlockSize + k
  OBVIOUS
<1>3. /\ c \in BLOCKS /\ k \in 0 .. BlockSize /\ d \in Nat /\ d >= 2 /\ file \in Files
      /\ buf \in [OFFSETS -> Nat]
  BY <1>1, <1>2 DEF DaysTypeOK
<1>4. /\ save[u].at = "write" /\ Fits(k, len) /\ file2 = [file EXCEPT ![c] = buf]
      /\ semaphore' = FALSE /\ SaveStops(u)
      /\ UNCHANGED <<stats_buffer, CurrentBlock, today, marred>>
      /\ CurrentPos' = (IF u = "web" THEN k ELSE k + len)
      /\ day' = (IF u = "web" THEN d ELSE today)
      /\ closed' = (IF u = "web" THEN closed ELSE closed \union {<<d, len>>})
  BY <1>2 DEF WritesWhole, Closes
<1>5. /\ len \in Nat /\ len >= 2 /\ len <= BlockSize /\ (u # "web" => day < today)
      /\ \A v \in StatsSaver : v # u => save[v].at = "idle"
  BY <1>1, <1>2, <1>4, OneSaves
<1>6. BlockSize \in Nat /\ k + len + 1 <= BlockSize /\ k + len \in 0 .. BlockSize
  BY <1>3, <1>4, <1>5, FitsIs, CardNumbers
<1>7. SaveTyped' /\ SavesInTurn' /\ \A v \in StatsSaver : save'[v].at = "idle"
  BY <1>1, <1>4, SaveEnds
<1>8. file2 \in Files
  BY <1>3, <1>4, StillFile
<1>9. DaysTypeOK'
  <2>1. CurrentPos' \in 0 .. BlockSize
    BY <1>3, <1>4, <1>6
  <2>2. day' \in Nat /\ 2 <= day' /\ today' \in Nat /\ day' <= today'
    BY <1>1, <1>2, <1>4 DEF DaysTypeOK
  <2> QED BY <1>1, <1>2, <1>4, <1>7, <1>8, <2>1, <2>2 DEF DaysTypeOK
<1>10. ASSUME marred' = {} PROVE DaysHold'
  <2>1. DaysHold
    BY <1>4, <1>10 DEF DaysInv
  <2>2. /\ DayText(file, c, k, d) /\ LinesBelow(file, closed, place)
        /\ BufferBefore(file, buf, c, k) /\ LineInBuffer(file, buf, c, k, d, len)
    <3>1. \A v \in StatsSaver : save[v].at # "write2"
      BY <1>4, <1>5
    <3> QED BY <1>2, <1>4, <2>1, <3>1 DEF DaysHold, SavesKnow
  <2>3. c < LastBlock => file[c + 1][0] = NUL
    BY <1>3, <1>5, <1>6, <2>2 DEF LineInBuffer
  <2>4. /\ DayText(file2, c, k, d)
        /\ LineAt(file2, c * BlockSize + k, d, len, c * BlockSize + (k + len))
        /\ \A d2 \in Nat : d < d2 => DayText(file2, c, k + len, d2)
        /\ SameBelow(file2, file, c * BlockSize + k)
    <3>1. /\ \A j \in OFFSETS : j < k => buf[j] = file[c][j]
          /\ \A j \in OFFSETS : k <= j /\ j <= k + len => buf[j] = Line(d, len)[j - k]
      BY <2>2 DEF BufferBefore, LineInBuffer
    <3> DEFINE file3 == [file EXCEPT ![c] = buf]
    <3>2. /\ DayText(file3, c, k, d)
          /\ LineAt(file3, c * BlockSize + k, d, len, c * BlockSize + (k + len))
          /\ \A d2 \in Nat : d < d2 => DayText(file3, c, k + len, d2)
          /\ SameBelow(file3, file, c * BlockSize + k)
      BY <1>3, <1>5, <1>6, <2>2, <2>3, <3>1, WholeLine
    <3>3. file2 = file3
      BY <1>4
    <3> HIDE DEF file3
    <3> QED BY <3>2, <3>3
  <2>5. place \in Nat /\ c * BlockSize + (k + len) \in Nat /\ place <= c * BlockSize + (k + len)
    BY <1>2, <1>3, <1>5, BlockBounds
  <2>6. BufferBefore(disk, stats_buffer, CurrentBlock, CurrentPos)'
    <3>1. file2[c] = buf
      BY <1>3, <1>4 DEF Files
    <3> QED BY <1>2, <1>4, <3>1 DEF BufferBefore
  <2>7. SavesKnow'
    BY <1>7, <2>6 DEF SavesKnow
  <2>8. CASE u = "web"
    <3>1. LinesBelow(file2, closed, place)
      BY <1>2, <2>2, <2>4, <2>5, LinesBelowStay
    <3>2. CurrentBlock' = c /\ CurrentPos' = k /\ day' = d /\ closed' = closed /\ disk' = file2
      BY <1>2, <1>4, <2>8
    <3> QED BY <1>2, <2>4, <2>7, <3>1, <3>2 DEF DaysHold
  <2>9. CASE u # "web"
    <3>1. LinesBelow(file2, closed, c * BlockSize + (k + len))
      BY <1>2, <2>2, <2>4, <2>5, LinesBelowStay
    <3>2. LinesBelow(file2, closed \union {<<d, len>>}, c * BlockSize + (k + len))
      BY <1>2, <1>5, <2>4, <2>5, <3>1 DEF LinesBelow
    <3>3. /\ CurrentBlock' = c /\ CurrentPos' = k + len /\ day' = today
          /\ closed' = closed \union {<<d, len>>} /\ disk' = file2
      BY <1>2, <1>4, <2>9
    <3>4. DayText(file2, c, k + len, today)
      BY <1>1, <1>2, <1>5, <2>4, <2>9 DEF DaysTypeOK
    <3> QED BY <2>7, <3>2, <3>3, <3>4 DEF DaysHold
  <2> QED BY <2>8, <2>9
<1> QED BY <1>7, <1>9, <1>10 DEF DaysInv

\* The line goes on in the next block: first its beginning is written.
LEMMA WritesFirstStep ==
  ASSUME DaysInv, NEW u \in StatsSaver, WritesFirst(u)
  PROVE  DaysInv'
<1>1. DaysTypeOK /\ SavesInTurn /\ SaveTyped
  BY DEF DaysInv, DaysTypeOK
<1>2. PICK len, c, k, d, file, file2, buf, place :
        /\ len = save[u].len /\ c = CurrentBlock /\ k = CurrentPos /\ d = day
        /\ file = disk /\ file2 = disk' /\ buf = stats_buffer /\ place = c * BlockSize + k
  OBVIOUS
<1>3. /\ c \in BLOCKS /\ k \in 0 .. BlockSize /\ d \in Nat /\ d >= 2 /\ file \in Files
      /\ buf \in [OFFSETS -> Nat]
  BY <1>1, <1>2 DEF DaysTypeOK
<1>4. /\ save[u].at = "write" /\ ~Fits(k, len) /\ file2 = [file EXCEPT ![c] = buf]
      /\ UNCHANGED <<position, day, today, closed, marred>>
      /\ CurrentBlock' = c /\ CurrentPos' = k /\ day' = d /\ closed' = closed
      /\ c < LastBlock =>
           /\ stats_buffer' = Rest(k, len, Line(d, len))
           /\ save' = [save EXCEPT ![u].at = "write2"] /\ semaphore' = semaphore
      /\ ~(c < LastBlock) => SaveStops(u) /\ semaphore' = FALSE /\ stats_buffer' = buf
  BY <1>2 DEF WritesFirst, position
<1>5. /\ len \in Nat /\ len >= 2 /\ len <= BlockSize
      /\ \A v \in StatsSaver : v # u => save[v].at = "idle"
  BY <1>1, <1>2, <1>4, OneSaves
<1>6. BlockSize \in Nat /\ k \in Nat /\ BlockSize < k + len + 1
  BY <1>3, <1>4, <1>5, FitsIs, CardNumbers
<1>7. file2 \in Files /\ file2[c] = buf
  BY <1>3, <1>4, StillFile DEF Files
<1>8. ASSUME marred' = {}
      PROVE  /\ DayText(file2, c, k, d) /\ LinesBelow(file2, closed, place)
             /\ LineInBuffer(file, buf, c, k, d, len)
  <2>1. DaysHold
    BY <1>4, <1>8 DEF DaysInv
  <2>2. /\ DayText(file, c, k, d) /\ LinesBelow(file, closed, place)
        /\ BufferBefore(file, buf, c, k) /\ LineInBuffer(file, buf, c, k, d, len)
    <3>1. \A v \in StatsSaver : save[v].at # "write2"
      BY <1>4, <1>5
    <3> QED BY <1>2, <1>4, <2>1, <3>1 DEF DaysHold, SavesKnow
  <2>3. \A j \in OFFSETS : k <= j => buf[j] = Line(d, len)[j - k]
    <3>1. \A j \in OFFSETS : j \in Nat /\ j <= k + len
      BY <1>5, <1>6 DEF OFFSETS
    <3> QED BY <2>2, <3>1 DEF LineInBuffer
  <2>4. c < LastBlock /\ file[c + 1][0] # NUL => BlockSize < k + len
    BY <2>2 DEF LineInBuffer
  <2>5. /\ DayText(file2, c, k, d)
        /\ SameBelow(file2, file, c * BlockSize + k)
    <3>1. \A j \in OFFSETS : j < k => buf[j] = file[c][j]
      BY <2>2 DEF BufferBefore
    <3> DEFINE file3 == [file EXCEPT ![c] = buf]
    <3>2. /\ DayText(file3, c, k, d)
          /\ SameBelow(file3, file, c * BlockSize + k)
      BY <1>3, <1>5, <1>6, <2>2, <2>3, <2>4, <3>1, FirstPart
    <3>3. file2 = file3
      BY <1>4
    <3> HIDE DEF file3
    <3> QED BY <3>2, <3>3
  <2>6. place \in Nat /\ place <= place
    BY <1>2, <1>3, BlockBounds
  <2>7. LinesBelow(file2, closed, place)
    BY <1>2, <2>2, <2>5, <2>6, LinesBelowStay
  <2> QED BY <2>2, <2>5, <2>7
<1>9. CASE c < LastBlock
  <2>1. save'[u].at = "write2" /\ save'[u].len = len /\ \A v \in StatsSaver : v # u => save'[v] = save[v]
    BY <1>1, <1>2, <1>4, <1>9 DEF SaveTyped
  <2>2. SaveTyped'
    BY <1>1, <1>4, <1>9 DEF SaveTyped
  <2>3. stats_buffer' \in [OFFSETS -> Nat]
    BY <1>3, <1>4, <1>5, <1>9, BuffersTyped
  <2>4. DaysTypeOK'
    BY <1>1, <1>2, <1>4, <1>7, <1>9, <2>2, <2>3 DEF DaysTypeOK
  <2>5. \A v \in StatsSaver : (Busy(v)' <=> Busy(v)) /\ save'[v].len = save[v].len
    BY <1>2, <1>4, <2>1 DEF Busy
  <2>6. SavesInTurn'
    <3>1. "vReadSensor" \in StatsSaver
      BY DEF StatsSaver
    <3>2. \A v \in StatsSaver : save'[v].at = "write2" => v = u
      BY <1>5, <2>1
    <3> QED BY <1>1, <1>4, <1>9, <2>1, <2>5, <3>1, <3>2 DEF SavesInTurn
  <2>7. ASSUME marred' = {} PROVE DaysHold'
    <3>1. \A j \in OFFSETS : k <= j => file2[c][j] = Line(d, len)[j - k]
      <4>1. \A j \in OFFSETS : j \in Nat /\ j <= k + len
        BY <1>5, <1>6 DEF OFFSETS
      <4> QED BY <1>7, <1>8, <2>7, <4>1 DEF LineInBuffer
    <3>2. RestInBuffer(disk, stats_buffer, CurrentBlock, CurrentPos, day, len)'
      BY <1>2, <1>4, <1>9, <3>1 DEF RestInBuffer
    <3>3. SavesKnow'
      BY <1>5, <2>1, <3>2 DEF SavesKnow
    <3> QED BY <1>2, <1>4, <1>8, <2>7, <3>3 DEF DaysHold
  <2> QED BY <2>4, <2>6, <2>7 DEF DaysInv
<1>10. CASE ~(c < LastBlock)
  <2>1. SaveTyped' /\ SavesInTurn' /\ \A v \in StatsSaver : save'[v].at = "idle"
    BY <1>1, <1>4, <1>10, SaveEnds
  <2>2. DaysTypeOK'
    BY <1>1, <1>2, <1>4, <1>7, <1>10, <2>1 DEF DaysTypeOK
  <2>3. ASSUME marred' = {} PROVE DaysHold'
    <3>1. BufferBefore(disk, stats_buffer, CurrentBlock, CurrentPos)'
      BY <1>2, <1>4, <1>7, <1>10 DEF BufferBefore
    <3>2. SavesKnow'
      BY <2>1, <3>1 DEF SavesKnow
    <3> QED BY <1>2, <1>4, <1>8, <2>3, <3>2 DEF DaysHold
  <2> QED BY <2>1, <2>2, <2>3 DEF DaysInv
<1> QED BY <1>9, <1>10

\* Then its rest, with what the next block had behind it.
LEMMA WritesSecondStep ==
  ASSUME DaysInv, NEW u \in StatsSaver, WritesSecond(u)
  PROVE  DaysInv'
<1>1. DaysTypeOK /\ SavesInTurn /\ SaveTyped
  BY DEF DaysInv, DaysTypeOK
<1>2. PICK len, c, k, d, file, file2, place, l :
        /\ len = save[u].len /\ c = CurrentBlock /\ k = CurrentPos /\ d = day
        /\ file = disk /\ file2 = disk' /\ place = c * BlockSize + k /\ l = RestLen(k, len)
  OBVIOUS
<1>3. c \in BLOCKS /\ k \in 0 .. BlockSize /\ d \in Nat /\ d >= 2 /\ file \in Files
  BY <1>1, <1>2 DEF DaysTypeOK
<1>4. /\ save[u].at = "write2" /\ file2 = [file EXCEPT ![c + 1] = stats_buffer]
      /\ semaphore' = FALSE /\ SaveStops(u) /\ UNCHANGED <<today, marred>>
      /\ u = "web" => /\ stats_buffer' = file[c] /\ CurrentBlock' = c /\ CurrentPos' = k
                      /\ day' = d /\ closed' = closed
      /\ u # "web" => /\ stats_buffer' = stats_buffer /\ CurrentBlock' = c + 1 /\ CurrentPos' = l
                      /\ day' = today /\ closed' = closed \union {<<d, len>>}
  BY <1>2 DEF WritesSecond, Closes, ReadBack, position
<1>5. /\ len \in Nat /\ len >= 2 /\ len <= BlockSize /\ (u # "web" => day < today)
  BY <1>1, <1>2, <1>4, OneSaves
<1>6. SaveTyped' /\ SavesInTurn' /\ \A v \in StatsSaver : save'[v].at = "idle"
  BY <1>1, <1>4, SaveEnds
<1>7. c < LastBlock /\ ~Fits(k, len) /\ c + 1 \in BLOCKS /\ c \in Nat
  BY <1>1, <1>2, <1>3, <1>4, BlockBounds DEF SavesInTurn
<1>8. BlockSize \in Nat /\ BlockSize < k + len + 1
  BY <1>3, <1>5, <1>7, FitsIs, CardNumbers
<1>9. l \in 0 .. BlockSize
  BY <1>2, <1>3, <1>5, <1>8 DEF RestLen, Saved
<1>10. file2 \in Files /\ file2[c] = file[c] /\ file2[c + 1] = stats_buffer
  <2>1. c # c + 1 /\ stats_buffer \in [OFFSETS -> Nat]
    BY <1>1, <1>7 DEF DaysTypeOK
  <2>2. file2 \in Files
    BY <1>3, <1>4, <1>7, <2>1, StillFile
  <2> QED BY <1>3, <1>4, <1>7, <2>1, <2>2 DEF Files
<1>11. DaysTypeOK'
  <2>1. file[c] \in [OFFSETS -> Nat]
    BY <1>3 DEF Files
  <2>2. day' \in Nat /\ 2 <= day' /\ today' \in Nat /\ day' <= today'
    BY <1>1, <1>2, <1>4 DEF DaysTypeOK
  <2>3. stats_buffer' \in [OFFSETS -> Nat] /\ CurrentBlock' \in BLOCKS /\ CurrentPos' \in 0 .. BlockSize
    BY <1>1, <1>3, <1>4, <1>7, <1>9, <2>1 DEF DaysTypeOK
  <2> QED BY <1>2, <1>4, <1>6, <1>10, <2>2, <2>3 DEF DaysTypeOK
<1>12. ASSUME marred' = {} PROVE DaysHold'
  <2>1. DaysHold
    BY <1>4, <1>12 DEF DaysInv
  <2>2. /\ DayText(file, c, k, d) /\ LinesBelow(file, closed, place)
        /\ RestInBuffer(file, stats_buffer, c, k, d, len)
    BY <1>2, <1>4, <2>1 DEF DaysHold, SavesKnow
  <2>3. /\ stats_buffer = Rest(k, len, Line(d, len))
        /\ \A j \in OFFSETS : k <= j => file[c][j] = Line(d, len)[j - k]
    BY <2>2 DEF RestInBuffer
  <2>4. Rest(k, len, Line(d, len)) \in [OFFSETS -> Nat]
    BY <1>1, <2>3 DEF DaysTypeOK
  <2>5. /\ DayText(file2, c, k, d)
        /\ LineAt(file2, c * BlockSize + k, d, len, (c + 1) * BlockSize + l)
        /\ \A d2 \in Nat : d < d2 => DayText(file2, c + 1, l, d2)
        /\ SameBelow(file2, file, c * BlockSize + k)
        /\ c * BlockSize + k <= (c + 1) * BlockSize + l
    <3> DEFINE file3 == [file EXCEPT ![c + 1] = Rest(k, len, Line(d, len))]
               l3 == RestLen(k, len)
    <3>1. /\ DayText(file3, c, k, d)
          /\ l3 \in 0 .. BlockSize
          /\ LineAt(file3, c * BlockSize + k, d, len, (c + 1) * BlockSize + l3)
          /\ \A d2 \in Nat : d < d2 => DayText(file3, c + 1, l3, d2)
          /\ SameBelow(file3, file, c * BlockSize + k)
          /\ c * BlockSize + k <= (c + 1) * BlockSize + l3
      BY <1>3, <1>5, <1>7, <1>8, <2>2, <2>3, <2>4, SecondPart
    <3>2. file2 = file3 /\ l = l3
      BY <1>2, <1>4, <2>3
    <3> HIDE DEF file3, l3
    <3> QED BY <3>1, <3>2
  <2>6. place \in Nat /\ (c + 1) * BlockSize + l \in Nat /\ place <= place
    BY <1>2, <1>3, <1>7, <1>9, PlaceTyped
  <2>7. SavesKnow'
    BY <1>2, <1>4, <1>6, <1>10 DEF SavesKnow, BufferBefore
  <2>8. CASE u = "web"
    <3>1. LinesBelow(file2, closed, place)
      BY <1>2, <2>2, <2>5, <2>6, LinesBelowStay
    <3> QED BY <1>2, <1>4, <2>5, <2>7, <2>8, <3>1 DEF DaysHold
  <2>9. CASE u # "web"
    <3>1. LinesBelow(file2, closed, (c + 1) * BlockSize + l)
      BY <1>2, <2>2, <2>5, <2>6, LinesBelowStay
    <3>2. LinesBelow(file2, closed \union {<<d, len>>}, (c + 1) * BlockSize + l)
      BY <1>2, <1>5, <2>5, <2>6, <3>1 DEF LinesBelow
    <3>3. DayText(file2, c + 1, l, today)
      BY <1>1, <1>2, <1>5, <2>5, <2>9 DEF DaysTypeOK
    <3> QED BY <1>2, <1>4, <2>7, <2>9, <3>2, <3>3 DEF DaysHold
  <2> QED BY <2>8, <2>9
<1> QED BY <1>6, <1>11, <1>12 DEF DaysInv

\* What a failure spoils is known to history; the types and the turn stay.
LEMMA FailedSaveStep ==
  ASSUME DaysInv, NEW u \in StatsSaver, SaveStatsFails(u) \/ (u = "web" /\ RereadFails)
  PROVE  DaysInv'
<1>1. DaysTypeOK /\ SavesInTurn /\ SaveTyped
  BY DEF DaysInv, DaysTypeOK
<1>2. /\ save[u].at # "idle" /\ semaphore' = FALSE /\ SaveStops(u)
      /\ UNCHANGED <<stats_buffer, position, day, today, closed>>
      /\ CurrentBlock' = CurrentBlock /\ CurrentPos' = CurrentPos
  BY DEF SaveStatsFails, RereadFails, position
<1>3. SaveTyped' /\ SavesInTurn' /\ \A v \in StatsSaver : save'[v].at = "idle"
  BY <1>1, <1>2, SaveEnds
<1>4. disk' \in Files
  <2>1. CASE SaveStatsFails(u)
    BY <1>1, <2>1 DEF SaveStatsFails, DaysTypeOK
  <2>2. CASE RereadFails
    <3>1. disk' = [disk EXCEPT ![CurrentBlock + 1] = stats_buffer]
      BY <2>2 DEF RereadFails
    <3>2. disk \in [BLOCKS -> [OFFSETS -> Nat]] /\ stats_buffer \in [OFFSETS -> Nat]
      BY <1>1 DEF DaysTypeOK, Files
    <3> QED BY <3>1, <3>2 DEF Files
  <2> QED BY <2>1, <2>2
<1>5. DaysTypeOK'
  BY <1>1, <1>2, <1>3, <1>4 DEF DaysTypeOK
<1>6. ASSUME marred' = {} PROVE DaysHold'
  <2>1. SaveStatsFails(u) /\ save[u].at = "write" /\ marred = {} /\ disk' = disk
    BY <1>6 DEF SaveStatsFails, RereadFails, Spoils
  <2>2. DaysHold
    BY <2>1 DEF DaysInv
  <2>3. \A v \in StatsSaver : save[v].at # "write2"
    BY <1>1, <2>1, OneSaves
  <2>4. /\ DayText(disk, CurrentBlock, CurrentPos, day)'
        /\ LinesBelow(disk, closed, CurrentBlock * BlockSize + CurrentPos)'
    BY <1>2, <2>1, <2>2, FileStays DEF DaysHold
  <2>5. BufferBefore(disk, stats_buffer, CurrentBlock, CurrentPos)
    BY <2>2, <2>3 DEF DaysHold, SavesKnow
  <2>6. SavesKnow'
    BY <1>2, <1>3, <2>1, <2>5 DEF SavesKnow, BufferBefore
  <2> QED BY <2>4, <2>6 DEF DaysHold
<1> QED BY <1>3, <1>5, <1>6 DEF DaysInv

\* A day ends.
LEMMA NextDayStep ==
  ASSUME DaysInv, NextDay
  PROVE  DaysInv'
<1>1. DaysTypeOK /\ SavesInTurn
  BY DEF DaysInv
<1>2. /\ today' = today + 1
      /\ UNCHANGED <<disk, stats_buffer, position, day, save, semaphore, closed, marred>>
      /\ CurrentBlock' = CurrentBlock /\ CurrentPos' = CurrentPos
  BY DEF NextDay, position
<1>3. today' \in Nat /\ day <= today' /\ (day < today => day < today')
  BY <1>1, <1>2 DEF DaysTypeOK
<1>4. DaysTypeOK'
  BY <1>1, <1>2, <1>3 DEF DaysTypeOK, SaveTyped
<1>5. SavesInTurn'
  BY <1>1, <1>2, <1>3 DEF SavesInTurn, Busy
<1>6. ASSUME marred' = {} PROVE DaysHold'
  <2>1. DaysHold
    BY <1>2, <1>6 DEF DaysInv
  <2>2. SavesKnow'
    BY <1>2, <2>1 DEF DaysHold, SavesKnow
  <2>3. /\ DayText(disk, CurrentBlock, CurrentPos, day)'
        /\ LinesBelow(disk, closed, CurrentBlock * BlockSize + CurrentPos)'
    BY <1>2, <2>1, FileStays DEF DaysHold
  <2> QED BY <2>2, <2>3 DEF DaysHold
<1> QED BY <1>4, <1>5, <1>6 DEF DaysInv

\* A start searches the end and takes up the line of today, if that is the last one.
LEMMA RestartStep ==
  ASSUME DaysInv, marred = {}, Restart
  PROVE  DaysInv'
<1> DEFINE end == Flat(EndPosition(disk))
           start == LastLine(end)
           p == IF end > 1 /\ IsToday(start) THEN <<start \div BlockSize, start % BlockSize>>
                ELSE EndPosition(disk)
<1>1. DaysTypeOK /\ DaysHold
  BY DEF DaysInv
<1>2. /\ EndPosition(disk) # <<>>
      /\ CurrentBlock' = p[1] /\ CurrentPos' = p[2] /\ stats_buffer' = disk[p[1]]
      /\ day' = today /\ save' = [u \in StatsSaver |-> NotSaving] /\ semaphore' = FALSE
      /\ UNCHANGED <<disk, today, closed, marred>>
  BY DEF Restart
<1>3. PICK c, k, d, m : c = CurrentBlock /\ k = CurrentPos /\ d = day /\ m = c * BlockSize + k
  OBVIOUS
<1>4. /\ disk \in Files /\ c \in BLOCKS /\ k \in 0 .. BlockSize /\ d \in Nat /\ d >= 2
      /\ today \in Nat /\ d <= today /\ 2 <= today /\ DayText(disk, c, k, d)
      /\ LinesBelow(disk, closed, m)
  BY <1>1, <1>3 DEF DaysTypeOK, DaysHold
<1>5. /\ p[1] \in BLOCKS /\ p[2] \in 0 .. BlockSize
      /\ DayText(disk, p[1], p[2], today)
      /\ c * BlockSize + k <= p[1] * BlockSize + p[2]
  BY <1>2, <1>4, RestartPlace
<1> HIDE DEF p
<1>6. \A u \in StatsSaver : save'[u].at = "idle"
  BY <1>2 DEF NotSaving
<1>7. SaveTyped'
  BY <1>2 DEF SaveTyped, NotSaving
<1>8. disk[p[1]] \in [OFFSETS -> Nat]
  BY <1>4, <1>5 DEF Files
<1>9. DaysTypeOK'
  <2>1. day' \in Nat /\ 2 <= day' /\ today' \in Nat /\ day' <= today'
    BY <1>2, <1>4
  <2>2. disk' \in Files /\ stats_buffer' \in [OFFSETS -> Nat] /\ semaphore' \in BOOLEAN
    BY <1>2, <1>4, <1>8
  <2>3. CurrentBlock' \in BLOCKS /\ CurrentPos' \in 0 .. BlockSize
    BY <1>2, <1>5
  <2> QED BY <1>7, <2>1, <2>2, <2>3 DEF DaysTypeOK
<1>10. SavesInTurn'
  BY <1>6 DEF SavesInTurn, Busy, StatsSaver
<1>11. SavesKnow'
  BY <1>2, <1>6 DEF SavesKnow, BufferBefore
<1>12. LinesBelow(disk, closed, p[1] * BlockSize + p[2])
  <2>1. m \in Nat /\ p[1] * BlockSize + p[2] \in Nat /\ m <= p[1] * BlockSize + p[2]
    BY <1>3, <1>4, <1>5, PlaceTyped
  <2>2. SameBelow(disk, disk, m)
    BY DEF SameBelow
  <2> QED BY <1>4, <2>1, <2>2, LinesBelowStay
<1>13. DaysHold'
  BY <1>2, <1>5, <1>11, <1>12 DEF DaysHold
<1> QED BY <1>9, <1>10, <1>13 DEF DaysInv

LEMMA DaysIdleStep ==
  ASSUME DaysInv, UNCHANGED fileVars
  PROVE  DaysInv'
<1>1. /\ UNCHANGED <<disk, stats_buffer, position, day, today, save, semaphore, closed, marred>>
      /\ CurrentBlock' = CurrentBlock /\ CurrentPos' = CurrentPos
  BY DEF fileVars, position
<1>2. DaysTypeOK' <=> DaysTypeOK
  BY <1>1 DEF DaysTypeOK, SaveTyped
<1>3. SavesInTurn' <=> SavesInTurn
  BY <1>1 DEF SavesInTurn, Busy
<1>4. DaysHold' <=> DaysHold
  <2>1. SavesKnow' <=> SavesKnow
    BY <1>1 DEF SavesKnow
  <2> QED BY <1>1, <2>1 DEF DaysHold
<1> QED BY <1>1, <1>2, <1>3, <1>4 DEF DaysInv

\* As long as nothing went wrong the invariant holds; what went wrong is remembered.
DaysSafe == marred = {} => DaysInv

\* Every step keeps the invariant, or is the one that spoils the file.
LEMMA DaysSafeStep == DaysSafe /\ [FileNext]_fileVars => DaysSafe'
<1> SUFFICES ASSUME DaysSafe, [FileNext]_fileVars, marred' = {} PROVE DaysInv'
  BY DEF DaysSafe
<1>1. marred = {}
  <2>1. CASE FileNext
    BY <2>1 DEF FileNext, PutsLine, PutsInVain, WritesWhole, WritesFirst, WritesSecond, RereadFails,
       SaveStatsFails, NextDay, Restart, Spoils
  <2>2. CASE UNCHANGED fileVars
    BY <2>2 DEF fileVars
  <2> QED BY <2>1, <2>2
<1>2. DaysInv
  BY <1>1 DEF DaysSafe
<1>3. ASSUME NEW u \in StatsSaver, NEW len \in Lengths, PutsLine(u, len) PROVE DaysInv'
  BY <1>2, <1>3, PutsLineStep
<1>4. ASSUME NEW u \in StatsSaver, WritesWhole(u) PROVE DaysInv'
  BY <1>2, <1>4, WritesWholeStep
<1>5. ASSUME NEW u \in StatsSaver, WritesFirst(u) PROVE DaysInv'
  BY <1>2, <1>5, WritesFirstStep
<1>6. ASSUME NEW u \in StatsSaver, WritesSecond(u) PROVE DaysInv'
  BY <1>2, <1>6, WritesSecondStep
<1>7. ASSUME NEW u \in StatsSaver, SaveStatsFails(u) PROVE DaysInv'
  BY <1>2, <1>7, FailedSaveStep
<1>8. ASSUME NEW len \in Lengths, PutsInVain(len) PROVE DaysInv'
  BY <1>2, <1>8, PutsInVainStep
<1>9. CASE RereadFails
  BY <1>2, <1>9, FailedSaveStep DEF StatsSaver
<1>10. CASE NextDay
  BY <1>2, <1>10, NextDayStep
<1>11. CASE Restart
  BY <1>1, <1>2, <1>11, RestartStep
<1>12. CASE UNCHANGED fileVars
  BY <1>2, <1>12, DaysIdleStep
<1> QED BY <1>3, <1>4, <1>5, <1>6, <1>7, <1>8, <1>9, <1>10, <1>11, <1>12 DEF FileNext

LEMMA DaysSafeInit == FileInit => DaysSafe
BY DaysInvInit DEF DaysSafe

\* Whatever the saves of the days leave on the card, a line that was cut between its two
\* blocks too, the search of a start comes to the end of the last whole line.
THEOREM EndOfDaysIsFound == FileSpec => []EndIsFound
<1>1. DaysSafe => EndIsFound
  <2> SUFFICES ASSUME DaysSafe, marred = {}, EndPosition(disk) # <<>>
               PROVE  Flat(EndPosition(disk)) = EndOfText(disk)
    BY DEF EndIsFound
  <2>1. CurrentBlock \in BLOCKS /\ DayText(disk, CurrentBlock, CurrentPos, day)
    BY DEF DaysSafe, DaysInv, DaysTypeOK, DaysHold
  <2>2. Searchable(disk)
    BY <2>1, DayTextSearchable
  <2> QED BY <2>2, EndPositionIs
<1> QED BY <1>1, DaysSafeInit, DaysSafeStep, PTL DEF FileSpec

\* The line of a day that was saved as finished is in the file for good.
THEOREM DaysAreKept == FileSpec => []DaysKept
<1>1. DaysSafe => DaysKept
  <2> SUFFICES ASSUME DaysSafe, marred = {}, NEW l \in closed
               PROVE  \E i \in LineStarts(disk) : HasLine(disk, i, l[1], l[2])
    BY DEF DaysKept
  <2>1. PICK n, len, m : n = l[1] /\ len = l[2] /\ m = CurrentBlock * BlockSize + CurrentPos
    OBVIOUS
  <2>2. /\ CurrentBlock \in BLOCKS /\ CurrentPos \in 0 .. BlockSize
        /\ LinesBelow(disk, closed, CurrentBlock * BlockSize + CurrentPos)
    BY DEF DaysSafe, DaysInv, DaysTypeOK, DaysHold
  <2>3. len \in Nat /\ len >= 2 /\ \E i \in Nat : LineAt(disk, i, n, len, m)
    BY <2>1, <2>2 DEF LinesBelow
  <2>4. m \in Nat /\ m <= FileEnd
    BY <2>1, <2>2, BlockBounds
  <2>5. \E i \in LineStarts(disk) : HasLine(disk, i, n, len)
    BY <2>3, <2>4, LineIsThere
  <2> QED BY <2>1, <2>5
<1> QED BY <1>1, DaysSafeInit, DaysSafeStep, PTL DEF FileSpec

\* Behind its first line, which a restart does not take up, the file never has two lines
\* of one day.
THEOREM LaterDayHasOneLine == FileSpec => []LaterDayOnce
<1>1. DaysSafe => LaterDayOnce
  <2> SUFFICES ASSUME DaysSafe, marred = {},
                      NEW i \in LineStarts(disk) \ {0, TextEnd(disk)},
                      NEW j \in LineStarts(disk) \ {0, TextEnd(disk)}, i # j
               PROVE  ByteAt(disk, i) # ByteAt(disk, j)
    BY DEF LaterDayOnce, OneLineEach
  <2>1. /\ CurrentBlock \in BLOCKS /\ CurrentPos \in 0 .. BlockSize /\ disk \in Files
        /\ DayText(disk, CurrentBlock, CurrentPos, day)
    BY DEF DaysSafe, DaysInv, DaysTypeOK, DaysHold
  <2>2. i < j => ByteAt(disk, i) # ByteAt(disk, j)
    BY <2>1, DaysDiffer
  <2>3. j < i => ByteAt(disk, j) # ByteAt(disk, i)
    BY <2>1, DaysDiffer
  <2>4. i \in Nat /\ j \in Nat
    BY TextEndIs, FileEndIs DEF TextTo, LineStarts
  <2>5. i < j \/ j < i
    BY <2>4
  <2> QED BY <2>2, <2>3, <2>5
<1> QED BY <1>1, DaysSafeInit, DaysSafeStep, PTL DEF FileSpec
-----------------------------------------------------------------------------
(* The file of the minutes: full blocks, the block in which the text ends, and *)
(* zeroed blocks; each block begins with a line, or has the end of one, for no *)
(* line is longer than a block                                                 *)

FullBlock(file, b) == \A j \in OFFSETS : file[b][j] # NUL

\* Of z zeroed blocks those before e are full of text and those behind it blank.
EndsIn(file, e, z) ==
  /\ \A b \in BLOCKS : b < e => FullBlock(file, b)
  /\ \A b \in BLOCKS : e < b /\ b < z => file[b] = Blank

\* Block b begins behind the end of a line, or has the end of one in its text.
Lined(file, b) ==
  \/ b = 0 \/ file[b - 1][BlockSize - 1] = NL
  \/ \E j \in OFFSETS : file[b][j] = NL /\ \A i \in OFFSETS : i < j => file[b][i] # NUL

BlocksLined(file, z) == \A b \in BLOCKS : b < z => file[b] = Blank \/ Lined(file, b)

\* In the buffer for block c, offset q is behind the end of a line.
AfterLineIn(file, buf, c, q) ==
  IF q > 0 THEN buf[q - 1] = NL ELSE c = 0 \/ file[c - 1][BlockSize - 1] = NL

\* Two buffers for block c that agree below q make files that agree up to there.
LEMMA BufferAgrees ==
  ASSUME NEW file \in Files, NEW c \in BLOCKS, NEW buf, NEW buf2, NEW q \in 0 .. BlockSize,
         \A j \in OFFSETS : j < q => buf2[j] = buf[j]
  PROVE  SameBelow([file EXCEPT ![c] = buf2], [file EXCEPT ![c] = buf], c * BlockSize + q)
<1> SUFFICES ASSUME NEW i \in Nat, i < c * BlockSize + q
             PROVE  ByteAt([file EXCEPT ![c] = buf2], i) = ByteAt([file EXCEPT ![c] = buf], i)
  BY DEF SameBelow
<1>1. /\ c * BlockSize \in Nat /\ BlockSize \in Nat /\ c * BlockSize + BlockSize <= FileEnd
      /\ FileEnd \in Nat /\ q \in Nat /\ q <= BlockSize
  BY BlockBounds
<1>2. i < FileEnd /\ i < c * BlockSize + BlockSize
  BY <1>1
<1>3. CASE c * BlockSize <= i
  <2>1. i - c * BlockSize \in OFFSETS /\ i - c * BlockSize < q
    BY <1>1, <1>2, <1>3 DEF OFFSETS
  <2>2. /\ ByteAt([file EXCEPT ![c] = buf], i) = buf[i - c * BlockSize]
        /\ ByteAt([file EXCEPT ![c] = buf2], i) = buf2[i - c * BlockSize]
    BY <1>2, <1>3, BytesOfUpdate
  <2> QED BY <2>1, <2>2
<1>4. CASE ~(c * BlockSize <= i)
  <2>1. ByteAt([file EXCEPT ![c] = buf], i) = ByteAt(file, i)
    BY <1>2, <1>4, BytesOfUpdate
  <2>2. ByteAt([file EXCEPT ![c] = buf2], i) = ByteAt(file, i)
    BY <1>2, <1>4, BytesOfUpdate
  <2> QED BY <2>1, <2>2
<1> QED BY <1>3, <1>4

\* Bytes below the place in the buffer.
LEMMA TextBelow ==
  ASSUME NEW file \in Files, NEW c \in BLOCKS, NEW buf, NEW q \in 0 .. BlockSize,
         \A b \in BLOCKS : b < c => FullBlock(file, b),
         \A j \in OFFSETS : j < q => buf[j] # NUL
  PROVE  \A i \in Nat : i < c * BlockSize + q => ByteAt([file EXCEPT ![c] = buf], i) # NUL
<1> SUFFICES ASSUME NEW i \in Nat, i < c * BlockSize + q
             PROVE  ByteAt([file EXCEPT ![c] = buf], i) # NUL
  OBVIOUS
<1>1. /\ c \in Nat /\ c * BlockSize \in Nat /\ BlockSize \in Nat
      /\ c * BlockSize + BlockSize <= FileEnd /\ FileEnd \in Nat /\ q \in Nat /\ q <= BlockSize
  BY BlockBounds
<1>2. i < FileEnd /\ i < c * BlockSize + BlockSize
  BY <1>1
<1>3. CASE c * BlockSize <= i
  <2>1. i - c * BlockSize \in OFFSETS /\ i - c * BlockSize < q
    BY <1>1, <1>2, <1>3 DEF OFFSETS
  <2>2. ByteAt([file EXCEPT ![c] = buf], i) = buf[i - c * BlockSize]
    BY <1>2, <1>3, BytesOfUpdate
  <2> QED BY <2>1, <2>2
<1>4. CASE ~(c * BlockSize <= i)
  <2>1. ByteAt([file EXCEPT ![c] = buf], i) = ByteAt(file, i)
    BY <1>2, <1>4, BytesOfUpdate
  <2>2. PICK b, j : b = i \div BlockSize /\ j = i % BlockSize
    OBVIOUS
  <2>3. b \in BLOCKS /\ b \in Nat /\ j \in OFFSETS /\ i = b * BlockSize + j
    BY <1>2, <2>2, PlaceOf
  <2>4. b < c
    <3>1. c <= b => c * BlockSize <= b * BlockSize
      BY <1>1, <2>3, Multiples
    <3>2. b * BlockSize \in Nat /\ j \in Nat
      BY <2>3, CardNumbers DEF OFFSETS
    <3> QED BY <1>1, <1>4, <2>3, <3>1, <3>2
  <2>5. ByteAt(file, i) = file[b][j]
    BY <2>2 DEF ByteAt
  <2> QED BY <2>1, <2>3, <2>4, <2>5 DEF FullBlock
<1> QED BY <1>3, <1>4

\* Behind the end of a line a line starts, in the block before or in this one.
LEMMA LineStartsAt ==
  ASSUME NEW file \in Files, NEW c \in BLOCKS, NEW buf, NEW q \in 0 .. BlockSize,
         AfterLineIn(file, buf, c, q)
  PROVE  AfterNewLine([file EXCEPT ![c] = buf], c * BlockSize + q)
<1>1. /\ c \in Nat /\ c * BlockSize \in Nat /\ BlockSize \in Nat /\ BlockSize > 0
      /\ c * BlockSize + BlockSize <= FileEnd /\ FileEnd \in Nat /\ q \in Nat /\ q <= BlockSize
  <2>1. /\ c \in Nat /\ c * BlockSize \in Nat /\ BlockSize \in Nat /\ BlockSize > 0
        /\ c * BlockSize + BlockSize <= FileEnd /\ FileEnd \in Nat
    BY BlockBounds
  <2> QED BY <2>1
<1>2. CASE q > 0
  <2>1. PICK i : i = (c * BlockSize + q) - 1
    OBVIOUS
  <2>2. /\ i \in Nat /\ i < FileEnd /\ c * BlockSize <= i /\ i < c * BlockSize + BlockSize
        /\ i - c * BlockSize = q - 1
    BY <1>1, <1>2, <2>1
  <2>3. ByteAt([file EXCEPT ![c] = buf], i) = buf[i - c * BlockSize]
    BY <2>2, BytesOfUpdate
  <2> QED BY <1>2, <2>1, <2>2, <2>3 DEF AfterLineIn, AfterNewLine
<1>3. CASE q = 0 /\ c = 0
  BY <1>1, <1>3 DEF AfterNewLine
<1>4. CASE q = 0 /\ c # 0
  <2>1. PICK i : i = (c * BlockSize + q) - 1
    OBVIOUS
  <2>2. c - 1 \in Nat /\ (c - 1) + 1 = c /\ BlockSize - 1 \in OFFSETS
    BY <1>1, <1>4 DEF OFFSETS
  <2>3. c * BlockSize = (c - 1) * BlockSize + BlockSize /\ (c - 1) * BlockSize \in Nat
    BY <2>2, Multiples
  <2>4. /\ i \in Nat /\ i < FileEnd /\ ~(c * BlockSize <= i)
        /\ i = (c - 1) * BlockSize + (BlockSize - 1)
    BY <1>1, <1>4, <2>1, <2>3
  <2>5. ByteAt([file EXCEPT ![c] = buf], i) = ByteAt(file, i)
    BY <2>4, BytesOfUpdate
  <2>6. ByteAt(file, (c - 1) * BlockSize + (BlockSize - 1)) = file[c - 1][BlockSize - 1]
    BY <2>2, ByteIs
  <2>7. ByteAt(file, i) = NL
    BY <1>4, <2>4, <2>6 DEF AfterLineIn
  <2> QED BY <2>1, <2>5, <2>7 DEF AfterNewLine
<1> QED BY <1>1, <1>2, <1>3, <1>4

\* The block in which the text of the minutes ends.
LEMMA LastTextBlock ==
  ASSUME NEW file, NEW z, NEW e0 \in BLOCKS, EndsIn(file, e0, z)
  PROVE  \E e \in BLOCKS : EndsIn(file, e, z) /\ (e = 0 \/ file[e] # Blank)
<1>1. CASE e0 = 0 \/ file[e0] # Blank
  BY <1>1
<1>2. CASE e0 # 0 /\ file[e0] = Blank
  <2>1. e0 \in Nat /\ e0 - 1 \in BLOCKS /\ e0 - 1 < e0
    BY <1>2, CardNumbers DEF BLOCKS
  <2>2. FullBlock(file, e0 - 1)
    BY <2>1 DEF EndsIn
  <2>3. file[e0 - 1] # Blank
    BY <2>2, FirstOffset DEF FullBlock, Blank
  <2>4. \A b \in BLOCKS : b \in Nat
    BY DEF BLOCKS
  <2>5. EndsIn(file, e0 - 1, z)
    <3>1. \A b \in BLOCKS : b < e0 - 1 => b < e0
      BY <2>1, <2>4
    <3>2. \A b \in BLOCKS : e0 - 1 < b => b = e0 \/ e0 < b
      BY <2>1, <2>4
    <3> QED BY <1>2, <3>1, <3>2 DEF EndsIn
  <2> QED BY <2>1, <2>3, <2>5
<1> QED BY <1>1, <1>2

\* The bytes of a place, by block and offset.
LEMMA ByteOfBlock ==
  ASSUME NEW file, NEW b \in BLOCKS, NEW j \in OFFSETS
  PROVE  /\ b * BlockSize + j \in Nat /\ ByteAt(file, b * BlockSize + j) = file[b][j]
         /\ b * BlockSize + j < FileEnd
BY ByteIs, FlatIs DEF BLOCKS

\* Where the text of such a file ends.
LEMMA TextOfMinutes ==
  ASSUME NEW file, NEW e \in BLOCKS, EndsIn(file, e, LastBlock + 1)
  PROVE  /\ Searchable(file)
         /\ e * BlockSize <= TextEnd(file) /\ TextEnd(file) <= e * BlockSize + BlockSize
<1> DEFINE t == TextEnd(file)
<1>1. /\ e \in Nat /\ e * BlockSize \in Nat /\ (e + 1) * BlockSize = e * BlockSize + BlockSize
      /\ BlockSize \in Nat /\ BlockSize > 0 /\ e * BlockSize + BlockSize <= FileEnd
      /\ FileEnd \in Nat /\ LastBlock \in Nat
      /\ (e < LastBlock => e + 1 \in BLOCKS)
      /\ (e < LastBlock \/ e * BlockSize + BlockSize = FileEnd)
  BY BlockBounds
<1>2. /\ t \in Nat /\ t <= FileEnd /\ (t = FileEnd \/ ByteAt(file, t) = NUL)
      /\ \A i \in Nat : i < t => ByteAt(file, i) # NUL
  <2>1. TextTo(file, t)
    BY TextEndIs
  <2>2. \A i \in Nat : i < t => i \in 0 .. t - 1
    BY <1>1, <2>1 DEF TextTo
  <2> QED BY <1>1, <2>1, <2>2 DEF TextTo
<1> HIDE DEF t
<1>3. e * BlockSize <= t
  <2> SUFFICES ASSUME t < e * BlockSize PROVE FALSE
    BY <1>1, <1>2
  <2>1. t < FileEnd
    BY <1>1, <1>2
  <2>2. PICK b, j : b = t \div BlockSize /\ j = t % BlockSize
    OBVIOUS
  <2>3. b \in BLOCKS /\ b \in Nat /\ j \in OFFSETS /\ t = b * BlockSize + j
    BY <1>2, <2>1, <2>2, PlaceOf
  <2>4. b < e
    <3>1. e <= b => e * BlockSize <= b * BlockSize
      BY <1>1, <2>3, Multiples
    <3>2. b * BlockSize \in Nat /\ j \in Nat
      BY <1>1, <2>3 DEF OFFSETS
    <3> QED BY <1>1, <2>3, <3>1, <3>2
  <2>5. file[b][j] = NUL
    BY <1>2, <2>1, <2>2, FileEndIs DEF ByteAt
  <2> QED BY <2>3, <2>4, <2>5 DEF EndsIn, FullBlock
<1>4. \A b \in BLOCKS : e < b => file[b][0] = NUL
  <2> TAKE b \in BLOCKS
  <2> HAVE e < b
  <2>1. file[b] = Blank
    BY <1>1 DEF EndsIn, BLOCKS
  <2> QED BY <2>1, FirstOffset DEF Blank
<1>5. \A b \in BLOCKS : b * BlockSize \in Nat /\ b * BlockSize + 0 = b * BlockSize
                        /\ ByteAt(file, b * BlockSize) = file[b][0] /\ b * BlockSize < FileEnd
  <2> TAKE b \in BLOCKS
  <2>1. b * BlockSize \in Nat
    BY BlockBounds
  <2>2. b * BlockSize + 0 = b * BlockSize
    BY <2>1
  <2> QED BY <2>1, <2>2, FirstOffset, ByteOfBlock
<1>6. t <= e * BlockSize + BlockSize
  <2>1. CASE e < LastBlock
    <3>1. e + 1 \in BLOCKS /\ e < e + 1
      BY <1>1, <2>1
    <3>2. ByteAt(file, (e + 1) * BlockSize) = NUL /\ (e + 1) * BlockSize \in Nat
      BY <1>4, <1>5, <3>1
    <3>3. ~((e + 1) * BlockSize < t)
      BY <1>2, <3>2
    <3> QED BY <1>1, <1>2, <3>2, <3>3
  <2> QED BY <1>1, <1>2, <2>1
<1>7. Searchable(file)
  <2> SUFFICES ASSUME NEW b \in BLOCKS, t <= b * BlockSize PROVE file[b][0] = NUL
    BY DEF Searchable, t
  <2>1. b \in Nat
    BY DEF BLOCKS
  <2>2. ~(b < e)
    <3>1. b < e => b * BlockSize + BlockSize <= e * BlockSize
      BY <1>1, <2>1, Multiples
    <3>2. b * BlockSize \in Nat
      BY <1>5
    <3> QED BY <1>1, <1>2, <1>3, <3>1, <3>2
  <2>3. CASE b = e
    <3>1. t = e * BlockSize
      BY <1>1, <1>2, <1>3, <2>3
    <3>2. t # FileEnd
      BY <1>1, <1>5, <2>3, <3>1
    <3> QED BY <1>2, <1>5, <2>3, <3>1, <3>2
  <2>4. CASE e < b
    BY <1>4, <2>4
  <2> QED BY <1>1, <2>1, <2>2, <2>3, <2>4
<1> QED BY <1>3, <1>6, <1>7 DEF t

\* The search of a start comes to the block in which the text ends, or to the end of the
\* full block before it.
LEMMA MinutesEnd ==
  ASSUME NEW file \in Files, BlocksLined(file, LastBlock + 1),
         \E e \in BLOCKS : EndsIn(file, e, LastBlock + 1), EndPosition(file) # <<>>
  PROVE  LET p == EndPosition(file)
         IN /\ p[1] \in BLOCKS /\ p[2] \in 0 .. BlockSize
            /\ BehindLine(file, p, TextEnd(file))
            /\ \/ EndsIn(file, p[1], LastBlock + 1)
               \/ p[2] = BlockSize /\ p[1] < LastBlock /\ EndsIn(file, p[1] + 1, LastBlock + 1)
<1>1. PICK e \in BLOCKS : EndsIn(file, e, LastBlock + 1) /\ (e = 0 \/ file[e] # Blank)
  BY LastTextBlock
<1>2. PICK p, t : p = EndPosition(file) /\ t = TextEnd(file)
  OBVIOUS
<1>3. /\ Searchable(file) /\ e * BlockSize <= t /\ t <= e * BlockSize + BlockSize
  BY <1>1, <1>2, TextOfMinutes
<1>4. BehindLine(file, p, t) /\ Flat(p) \in Nat
  BY <1>2, <1>3, EndPositionIs
<1>5. /\ p[1] \in BLOCKS /\ p[2] \in 0 .. BlockSize /\ (p[2] = 0 => p[1] = 0) /\ Flat(p) <= t
      /\ \A j \in Nat : Flat(p) <= j /\ j < t => ByteAt(file, j) # NL
  BY <1>4 DEF BehindLine
<1>6. /\ e \in Nat /\ e * BlockSize \in Nat /\ BlockSize \in Nat /\ BlockSize > 0
      /\ e <= LastBlock /\ LastBlock \in Nat
      /\ t \in Nat /\ t <= FileEnd /\ \A i \in Nat : i < t => ByteAt(file, i) # NUL
      /\ (t = FileEnd \/ ByteAt(file, t) = NUL)
  <2>1. TextTo(file, t)
    BY <1>2, TextEndIs
  <2>2. t \in Nat
    BY <2>1, FileEndIs DEF TextTo
  <2>3. \A i \in Nat : i < t => i \in 0 .. t - 1
    BY <2>2
  <2> QED BY <2>1, <2>2, <2>3, FileEndIs, BlockBounds, CardNumbers DEF TextTo, BLOCKS
<1>7. e * BlockSize <= Flat(p)
  <2>1. CASE e = 0
    BY <1>4, <1>6, <2>1
  <2>2. CASE e # 0
    <3>1. Lined(file, e)
      <4>1. e < LastBlock + 1
        BY <1>6
      <4> QED BY <1>1, <2>2, <4>1 DEF BlocksLined
    <3>2. CASE file[e - 1][BlockSize - 1] = NL
      <4>1. e - 1 \in BLOCKS /\ (e - 1) + 1 = e /\ BlockSize - 1 \in OFFSETS /\ e - 1 \in Nat
        BY <1>6, <2>2 DEF BLOCKS, OFFSETS
      <4>2. e * BlockSize = (e - 1) * BlockSize + BlockSize /\ (e - 1) * BlockSize \in Nat
        BY <4>1, Multiples
      <4>3. PICK i : i = (e - 1) * BlockSize + (BlockSize - 1)
        OBVIOUS
      <4>4. ByteAt(file, i) = NL /\ i \in Nat
        BY <3>2, <4>1, <4>3, ByteOfBlock
      <4>5. i < t /\ i + 1 = e * BlockSize
        BY <1>3, <1>6, <4>2, <4>3, <4>4
      <4>6. ~(Flat(p) <= i)
        BY <1>5, <4>4, <4>5
      <4> QED BY <1>4, <1>6, <4>4, <4>5, <4>6
    <3>3. ASSUME NEW j \in OFFSETS, file[e][j] = NL, \A i \in OFFSETS : i < j => file[e][i] # NUL
          PROVE  e * BlockSize <= Flat(p)
      <4>1. j \in Nat /\ j < BlockSize
        BY <1>6 DEF OFFSETS
      <4>2. e * BlockSize + j < FileEnd /\ ByteAt(file, e * BlockSize + j) = NL
        BY <3>3, ByteOfBlock
      <4>3. ~(t <= e * BlockSize + j)
        <5> SUFFICES ASSUME t <= e * BlockSize + j PROVE FALSE
          OBVIOUS
        <5>1. PICK i : i = t - e * BlockSize
          OBVIOUS
        <5>2. i \in OFFSETS /\ i <= j /\ t = e * BlockSize + i
          BY <1>3, <1>6, <4>1, <5>1 DEF OFFSETS
        <5>3. file[e][i] = NUL
          <6>1. ByteAt(file, t) = file[e][i] /\ t < FileEnd
            BY <5>2, ByteOfBlock
          <6> QED BY <1>6, <6>1, FileEndIs
        <5>4. i = j
          BY <3>3, <4>1, <5>2, <5>3 DEF OFFSETS
        <5> QED BY <3>3, <5>3, <5>4 DEF NUL, NL
      <4>4. e * BlockSize + j < t
        BY <1>6, <4>1, <4>3
      <4>5. ~(Flat(p) <= e * BlockSize + j)
        BY <1>5, <1>6, <4>1, <4>2, <4>4
      <4> QED BY <1>4, <1>6, <4>1, <4>5
    <3> QED BY <2>2, <3>1, <3>2, <3>3 DEF Lined
  <2> QED BY <2>1, <2>2
<1>8. p[1] = e \/ (p[2] = BlockSize /\ p[1] + 1 = e)
  <2>1. PICK b, j : b = p[1] /\ j = p[2]
    OBVIOUS
  <2>2. /\ b \in Nat /\ j \in Nat /\ j <= BlockSize /\ b * BlockSize \in Nat
        /\ Flat(p) = b * BlockSize + j /\ (j = 0 => b = 0)
    BY <1>5, <1>6, <2>1 DEF Flat, BLOCKS
  <2>3. ~(e < b)
    <3>1. e < b => e * BlockSize + BlockSize <= b * BlockSize
      BY <1>6, <2>2, Multiples
    <3> QED BY <1>3, <1>5, <1>6, <2>2, <3>1
  <2>4. ASSUME b < e PROVE j = BlockSize /\ b + 1 = e
    <3>1. b * BlockSize + BlockSize <= e * BlockSize
      BY <1>6, <2>2, <2>4, Multiples
    <3>2. j = BlockSize
      BY <1>6, <1>7, <2>2, <3>1
    <3>3. ~(b + 1 < e)
      <4>1. b + 1 \in Nat /\ (b + 1) * BlockSize = b * BlockSize + BlockSize
        BY <2>2, Multiples
      <4>2. b + 1 < e => (b + 1) * BlockSize + BlockSize <= e * BlockSize
        BY <1>6, <4>1, Multiples
      <4> QED BY <1>6, <1>7, <2>2, <3>2, <4>1, <4>2
    <3> QED BY <1>6, <2>2, <2>4, <3>2, <3>3
  <2> QED BY <1>6, <2>1, <2>2, <2>3, <2>4
<1>9. p[1] = e \/ (p[2] = BlockSize /\ p[1] < LastBlock /\ p[1] + 1 = e)
  <2>1. p[1] \in Nat
    BY <1>5 DEF BLOCKS
  <2> QED BY <1>6, <1>8, <2>1
<1> QED BY <1>1, <1>2, <1>4, <1>5, <1>9

\* The file and the buffer for its block c, to be filled from offset k on, of a file with
\* z zeroed blocks; the lines are in the file or in the buffer.
MinuteText(file, buf, c, k, z, lines) ==
  /\ \/ EndsIn(file, c, z)
     \/ k = BlockSize /\ c < LastBlock /\ z = LastBlock + 1 /\ EndsIn(file, c + 1, z)
  /\ c <= z /\ AfterLineIn(file, buf, c, k)
  /\ \A j \in OFFSETS : j < k => buf[j] # NUL
  /\ LinesBelow([file EXCEPT ![c] = buf], lines, c * BlockSize + k)

\* Blocks before the current one are full of text.
LEMMA FullBefore ==
  ASSUME NEW file, NEW buf, NEW c \in BLOCKS, NEW k, NEW z, NEW lines,
         MinuteText(file, buf, c, k, z, lines)
  PROVE  \A b \in BLOCKS : b < c => FullBlock(file, b)
<1>1. \A b \in BLOCKS : b \in Nat /\ c \in Nat
  BY DEF BLOCKS
<1>2. \A b \in BLOCKS : b < c => b < c + 1
  BY <1>1
<1> QED BY <1>2 DEF MinuteText, EndsIn

\* What is put into the buffer behind its lines leaves them.
LEMMA PutBehind ==
  ASSUME NEW file \in Files, NEW buf, NEW buf2, NEW c \in BLOCKS, NEW k \in 0 .. BlockSize, NEW z,
         NEW lines, MinuteText(file, buf, c, k, z, lines),
         \A j \in OFFSETS : j < k => buf2[j] = buf[j]
  PROVE  MinuteText(file, buf2, c, k, z, lines)
<1>1. SameBelow([file EXCEPT ![c] = buf2], [file EXCEPT ![c] = buf], c * BlockSize + k)
  BY BufferAgrees
<1>2. c * BlockSize + k \in Nat /\ c * BlockSize + k <= c * BlockSize + k
  BY PlaceTyped
<1>3. LinesBelow([file EXCEPT ![c] = buf2], lines, c * BlockSize + k)
  BY <1>1, <1>2, LinesBelowStay DEF MinuteText
<1>4. AfterLineIn(file, buf2, c, k)
  <2>1. k > 0 => k - 1 \in OFFSETS /\ k - 1 < k
    BY CardNumbers DEF OFFSETS
  <2> QED BY <2>1 DEF MinuteText, AfterLineIn
<1> QED BY <1>3, <1>4 DEF MinuteText

\* A minute that fits into the block is put into the buffer.
LEMMA PutMinute ==
  ASSUME NEW file \in Files, NEW buf, NEW buf2, NEW c \in BLOCKS, NEW k \in 0 .. BlockSize, NEW z,
         NEW lines, MinuteText(file, buf, c, k, z, lines),
         NEW n \in Nat, n >= 2, NEW len \in Nat, len >= 2, k + len + 1 <= BlockSize,
         \A j \in OFFSETS : j < k => buf2[j] = buf[j],
         \A j \in OFFSETS : k <= j /\ j <= k + len => buf2[j] = Line(n, len)[j - k]
  PROVE  MinuteText(file, buf2, c, k + len, z, lines \union {<<n, len>>})
<1> DEFINE file2 == [file EXCEPT ![c] = buf2]
           p == c * BlockSize + k
<1>1. /\ c \in Nat /\ c * BlockSize \in Nat /\ BlockSize \in Nat /\ BlockSize > 0
      /\ c * BlockSize + BlockSize <= FileEnd /\ FileEnd \in Nat
  BY BlockBounds
<1>2. /\ k \in Nat /\ p \in Nat /\ k + len \in 0 .. BlockSize /\ k + len \in Nat
      /\ c * BlockSize + (k + len) = p + len /\ p + len \in Nat /\ p <= p + len
  BY <1>1
<1>3. /\ MinuteText(file, buf2, c, k, z, lines)
  BY PutBehind
<1>4. \A j \in OFFSETS : j \in Nat
  BY <1>1 DEF OFFSETS
<1>5. \A j \in Nat : j < len => Line(n, len)[j] # NUL
  BY DEF Line, NUL, NL
<1>6. \A j \in OFFSETS : j < k + len => buf2[j] # NUL
  <2> TAKE j \in OFFSETS
  <2> HAVE j < k + len
  <2>1. CASE j < k
    BY <1>3, <2>1 DEF MinuteText
  <2>2. CASE k <= j
    <3>1. j - k \in Nat /\ j - k < len /\ j <= k + len
      BY <1>2, <1>4, <2>2
    <3> QED BY <1>5, <2>2, <3>1
  <2> QED BY <1>2, <1>4, <2>1, <2>2
<1>7. AfterLineIn(file, buf2, c, k + len)
  <2>1. (k + len) - 1 \in OFFSETS /\ k + len > 0 /\ ((k + len) - 1) - k = len - 1
        /\ k <= (k + len) - 1 /\ (k + len) - 1 <= k + len
    BY <1>1, <1>2 DEF OFFSETS
  <2>2. buf2[(k + len) - 1] = NL
    BY <2>1, LineIs
  <2> QED BY <2>1, <2>2 DEF AfterLineIn
<1>8. \A i \in Nat : i < c * BlockSize + (k + len) => ByteAt(file2, i) # NUL
  BY <1>2, <1>3, <1>6, FullBefore, TextBelow
<1>9. AfterNewLine(file2, p)
  BY <1>3, LineStartsAt DEF MinuteText
<1>10. ASSUME NEW j \in 0 .. len - 1 PROVE ByteAt(file2, p + j) = Line(n, len)[j]
  <2>1. PICK i : i = p + j
    OBVIOUS
  <2>2. /\ i \in Nat /\ i < FileEnd /\ c * BlockSize <= i /\ i < c * BlockSize + BlockSize
        /\ i - c * BlockSize = k + j /\ k + j \in OFFSETS /\ k <= k + j /\ k + j <= k + len
        /\ (k + j) - k = j
    BY <1>1, <1>2, <2>1 DEF OFFSETS
  <2>3. ByteAt(file2, i) = buf2[i - c * BlockSize]
    BY <2>2, BytesOfUpdate
  <2> QED BY <2>1, <2>2, <2>3
<1> HIDE DEF file2
<1>11. LineAt(file2, p, n, len, c * BlockSize + (k + len))
  BY <1>2, <1>8, <1>9, <1>10 DEF LineAt
<1>12. LinesBelow(file2, lines, c * BlockSize + (k + len))
  <2>1. SameBelow(file2, file2, p)
    BY DEF SameBelow
  <2>2. LinesBelow(file2, lines, p)
    BY <1>3 DEF MinuteText, file2
  <2> QED BY <1>2, <2>1, <2>2, LinesBelowStay
<1>13. LinesBelow(file2, lines \union {<<n, len>>}, c * BlockSize + (k + len))
  BY <1>2, <1>11, <1>12 DEF LinesBelow
<1>14. EndsIn(file, c, z) /\ c <= z
  <2>1. k # BlockSize
    BY <1>1, <1>2
  <2> QED BY <1>3, <2>1 DEF MinuteText
<1> QED BY <1>6, <1>7, <1>13, <1>14 DEF MinuteText, file2

\* Block mix has the lines of the buffer that end before offset q.
HasPart(file, buf, c, k, q, mix) ==
  /\ q \in 0 .. k /\ (k = BlockSize => q = BlockSize) /\ AfterLineIn(file, buf, c, q)
  /\ mix \in [OFFSETS -> Nat] /\ \A j \in OFFSETS : j < q => mix[j] = buf[j]

\* A block is written of which the bytes below q are those of the buffer, and behind
\* which the text goes on only if it is written whole.
LEMMA BlockWritten ==
  ASSUME NEW file \in Files, NEW buf, NEW c \in BLOCKS, NEW k \in 0 .. BlockSize, NEW z, NEW lines,
         MinuteText(file, buf, c, k, z, lines), BlocksLined(file, z),
         NEW q, NEW mix, HasPart(file, buf, c, k, q, mix)
  PROVE  BlocksLined([file EXCEPT ![c] = mix], z)
<1> DEFINE file2 == [file EXCEPT ![c] = mix]
<1>0. /\ q \in 0 .. k /\ (k = BlockSize => q = BlockSize) /\ AfterLineIn(file, buf, c, q)
      /\ mix \in [OFFSETS -> Nat] /\ \A j \in OFFSETS : j < q => mix[j] = buf[j]
  BY DEF HasPart
<1> SUFFICES ASSUME NEW b \in BLOCKS, b < z, file2[b] # Blank PROVE Lined(file2, b)
  BY DEF BlocksLined
<1>1. /\ c \in Nat /\ b \in Nat /\ c <= LastBlock /\ BlockSize \in Nat /\ BlockSize > 0
      /\ q \in Nat /\ q <= BlockSize /\ q <= k /\ k \in Nat
  BY <1>0, CardNumbers DEF BLOCKS
<1>2. file2[c] = mix /\ \A d \in BLOCKS : d # c => file2[d] = file[d]
  BY DEF Files
<1>3. \A j \in OFFSETS : j < q => mix[j] = buf[j] /\ buf[j] # NUL
  BY <1>0, <1>1 DEF MinuteText, OFFSETS
<1> HIDE DEF file2
<1>4. CASE b = c
  <2>1. CASE q > 0
    <3>1. q - 1 \in OFFSETS /\ q - 1 < q
      BY <1>1, <2>1 DEF OFFSETS
    <3>2. mix[q - 1] = NL
      BY <1>0, <1>3, <2>1, <3>1 DEF AfterLineIn
    <3>3. \A i \in OFFSETS : i < q - 1 => mix[i] # NUL
      <4>1. \A i \in OFFSETS : i < q - 1 => i < q
        BY <1>1 DEF OFFSETS
      <4> QED BY <1>3, <4>1
    <3> QED BY <1>2, <1>4, <3>1, <3>2, <3>3 DEF Lined
  <2>2. CASE ~(q > 0)
    <3>1. c # 0 => c - 1 \in BLOCKS /\ c - 1 # c
      BY <1>1, CardNumbers DEF BLOCKS
    <3>2. c = 0 \/ file[c - 1][BlockSize - 1] = NL
      BY <1>0, <2>2 DEF AfterLineIn
    <3> QED BY <1>2, <1>4, <3>1, <3>2 DEF Lined
  <2> QED BY <2>1, <2>2
<1>5. CASE b = c + 1
  <2>1. file[b] # Blank
    <3>1. b # c
      BY <1>1, <1>5
    <3> QED BY <1>2, <3>1
  <2>2. k = BlockSize
    <3>1. c < b
      BY <1>1, <1>5
    <3>2. ~EndsIn(file, c, z)
      BY <2>1, <3>1 DEF EndsIn
    <3> QED BY <3>2 DEF MinuteText
  <2>3. BlockSize - 1 \in OFFSETS /\ BlockSize - 1 < BlockSize /\ BlockSize > 0
    BY <1>1 DEF OFFSETS
  <2>4. mix[BlockSize - 1] = NL
    BY <1>0, <1>3, <2>2, <2>3 DEF AfterLineIn
  <2>5. b - 1 = c
    BY <1>1, <1>5
  <2> QED BY <1>2, <2>4, <2>5 DEF Lined
<1>6. CASE b # c /\ b # c + 1
  <2>1. file2[b] = file[b]
    BY <1>2, <1>6
  <2>2. Lined(file, b)
    BY <2>1 DEF BlocksLined
  <2>3. b # 0 => b - 1 \in BLOCKS /\ b - 1 # c
    BY <1>1, <1>6, CardNumbers DEF BLOCKS
  <2> QED BY <1>2, <2>1, <2>2, <2>3 DEF Lined
<1> QED BY <1>4, <1>5, <1>6

\* SaveHistory from the browser: it had the bytes below q, and it writes what the buffer
\* has by then of the rest.
LEMMA WebWrites ==
  ASSUME NEW file \in Files, NEW buf, NEW c \in BLOCKS, NEW k \in 0 .. BlockSize, NEW z \in Nat,
         NEW lines, MinuteText(file, buf, c, k, z, lines), BlocksLined(file, z), c < z,
         NEW q, NEW mix, HasPart(file, buf, c, k, q, mix),
         NEW sent, LinesBelow([file EXCEPT ![c] = buf], sent, c * BlockSize + q)
  PROVE  LET file2 == [file EXCEPT ![c] = mix]
         IN /\ BlocksLined(file2, z) /\ \E e \in BLOCKS : EndsIn(file2, e, z)
            /\ LinesBelow(file2, sent, z * BlockSize)
            /\ MinuteText(file2, buf, c, k, z, lines \union sent)
<1> DEFINE file2 == [file EXCEPT ![c] = mix]
<1>0. /\ q \in 0 .. k /\ (k = BlockSize => q = BlockSize) /\ AfterLineIn(file, buf, c, q)
      /\ mix \in [OFFSETS -> Nat] /\ \A j \in OFFSETS : j < q => mix[j] = buf[j]
  BY DEF HasPart
<1>1. /\ c \in Nat /\ c * BlockSize \in Nat /\ BlockSize \in Nat /\ BlockSize > 0
      /\ q \in Nat /\ q <= BlockSize /\ q <= k /\ k \in Nat /\ k <= BlockSize /\ q \in 0 .. BlockSize
  <2>1. c \in Nat /\ c * BlockSize \in Nat /\ BlockSize \in Nat /\ BlockSize > 0
    BY BlockBounds
  <2> QED BY <1>0, <2>1
<1>2. BlocksLined(file2, z)
  BY BlockWritten
<1>3. file2[c] = mix /\ (\A d \in BLOCKS : d # c => file2[d] = file[d]) /\ file2 \in Files
  BY <1>0, StillFile DEF Files
<1>4. [file2 EXCEPT ![c] = buf] = [file EXCEPT ![c] = buf]
  BY DEF Files
<1>5. SameBelow(file2, [file EXCEPT ![c] = buf], c * BlockSize + q)
  BY <1>0, <1>1, BufferAgrees
<1> HIDE DEF file2
<1>6. \A b \in BLOCKS : b \in Nat
  BY DEF BLOCKS
<1>7. ASSUME EndsIn(file, c, z) PROVE EndsIn(file2, c, z)
  <2>1. \A b \in BLOCKS : b < c \/ c < b => b # c
    BY <1>1, <1>6
  <2> QED BY <1>3, <1>7, <2>1 DEF EndsIn, FullBlock
<1>8. ASSUME ~EndsIn(file, c, z)
      PROVE  /\ k = BlockSize /\ c < LastBlock /\ z = LastBlock + 1 /\ c + 1 \in BLOCKS
             /\ EndsIn(file2, c + 1, z)
  <2>1. k = BlockSize /\ c < LastBlock /\ z = LastBlock + 1 /\ EndsIn(file, c + 1, z)
    BY <1>8 DEF MinuteText
  <2>2. c + 1 \in BLOCKS
    BY <2>1, BlockBounds
  <2>3. FullBlock(file2, c)
    <3>1. \A j \in OFFSETS : j < q /\ j < k
      BY <1>0, <1>1, <2>1 DEF OFFSETS
    <3> QED BY <1>0, <1>3, <3>1 DEF FullBlock, MinuteText
  <2>4. EndsIn(file2, c + 1, z)
    <3>1. \A b \in BLOCKS : c + 1 < b => b # c
      BY <1>1, <1>6
    <3>2. \A b \in BLOCKS : b < c + 1 => b = c \/ b # c
      OBVIOUS
    <3> QED BY <1>3, <2>1, <2>3, <3>1, <3>2 DEF EndsIn, FullBlock
  <2> QED BY <2>1, <2>2, <2>4
<1>9. /\ \E e \in BLOCKS : EndsIn(file2, e, z)
      /\ \/ EndsIn(file2, c, z)
         \/ k = BlockSize /\ c < LastBlock /\ z = LastBlock + 1 /\ EndsIn(file2, c + 1, z)
  <2>1. CASE EndsIn(file, c, z)
    BY <1>7, <2>1
  <2>2. CASE ~EndsIn(file, c, z)
    BY <1>8, <2>2
  <2> QED BY <2>1, <2>2
<1>10. LinesBelow(file2, sent, z * BlockSize)
  <2>1. c * BlockSize + BlockSize <= z * BlockSize /\ z * BlockSize \in Nat
    BY <1>1, Multiples
  <2>2. c * BlockSize + q \in Nat /\ c * BlockSize + q <= z * BlockSize
    BY <1>1, <2>1
  <2> QED BY <1>5, <2>1, <2>2, LinesBelowStay
<1>11. LinesBelow([file2 EXCEPT ![c] = buf], lines \union sent, c * BlockSize + k)
  <2>1. SameBelow([file EXCEPT ![c] = buf], [file EXCEPT ![c] = buf], c * BlockSize + q)
    BY DEF SameBelow
  <2>2. /\ c * BlockSize + q \in Nat /\ c * BlockSize + k \in Nat
        /\ c * BlockSize + q <= c * BlockSize + k
    BY <1>1
  <2>3. LinesBelow([file EXCEPT ![c] = buf], sent, c * BlockSize + k)
    BY <2>1, <2>2, LinesBelowStay
  <2>4. LinesBelow([file EXCEPT ![c] = buf], lines, c * BlockSize + k)
    BY DEF MinuteText
  <2> QED BY <1>4, <2>3, <2>4 DEF LinesBelow
<1>12. AfterLineIn(file2, buf, c, k) /\ c <= z /\ \A j \in OFFSETS : j < k => buf[j] # NUL
  <2>1. c # 0 => c - 1 \in BLOCKS /\ c - 1 # c
    BY <1>1, CardNumbers DEF BLOCKS
  <2>2. AfterLineIn(file, buf, c, k) /\ c <= z /\ \A j \in OFFSETS : j < k => buf[j] # NUL
    BY DEF MinuteText
  <2> QED BY <1>3, <2>1, <2>2 DEF AfterLineIn
<1> QED BY <1>2, <1>9, <1>10, <1>11, <1>12 DEF MinuteText, file2

\* History saves a full block, and the rest of the line begins the next one.
LEMMA BlockSaved ==
  ASSUME NEW file \in Files, NEW buf \in [OFFSETS -> Nat], NEW c \in BLOCKS, c < LastBlock,
         NEW k \in 0 .. BlockSize, NEW z \in Nat, c < z, NEW lines,
         MinuteText(file, buf, c, k, z, lines), BlocksLined(file, z),
         NEW n \in Nat, n >= 2, NEW len \in Nat, len >= 2, len <= BlockSize, BlockSize < k + len + 1,
         \A j \in OFFSETS : k <= j => buf[j] = Line(n, len)[j - k]
  PROVE  LET file2 == [file EXCEPT ![c] = buf]
         IN /\ BlocksLined(file2, z) /\ \E e \in BLOCKS : EndsIn(file2, e, z)
            /\ LinesBelow(file2, lines, z * BlockSize)
            /\ MinuteText(file2, Rest(k, len, Line(n, len)), c + 1, RestLen(k, len), z,
                          lines \union {<<n, len>>})
<1> DEFINE file2 == [file EXCEPT ![c] = buf]
           buf2 == Rest(k, len, Line(n, len))
           l == RestLen(k, len)
           meant == [file2 EXCEPT ![c + 1] = buf2]
           m == c * BlockSize
           p == m + k
<1>1. /\ c \in Nat /\ m \in Nat /\ BlockSize \in Nat /\ BlockSize > 0
      /\ c + 1 \in BLOCKS /\ c + 1 \in Nat /\ (c + 1) * BlockSize = m + BlockSize /\ k \in Nat /\ k <= BlockSize
      /\ m + BlockSize + BlockSize <= FileEnd /\ FileEnd \in Nat
  <2>1. /\ c \in Nat /\ m \in Nat /\ BlockSize \in Nat /\ BlockSize > 0 /\ c + 1 \in BLOCKS
        /\ (c + 1) * BlockSize = m + BlockSize /\ FileEnd \in Nat
    BY BlockBounds
  <2>2. (c + 1) * BlockSize + BlockSize <= FileEnd /\ c + 1 \in Nat
    BY <2>1, BlockBounds
  <2> QED BY <2>1, <2>2
<1>2. /\ Saved(k, len) = BlockSize - k /\ l = (k + len) - BlockSize /\ l \in 0 .. BlockSize
      /\ l \in Nat /\ p \in Nat /\ (c + 1) * BlockSize + l = p + len
  BY <1>1 DEF RestLen, Saved
<1>3. /\ \A j \in Nat : j < len => Line(n, len)[j] # NUL
      /\ Line(n, len)[len - 1] = NL
  BY LineIs DEF Line, NUL, NL
<1>4. \A j \in OFFSETS : j \in Nat /\ j < BlockSize
  BY <1>1 DEF OFFSETS
<1>5. /\ file2[c] = buf /\ (\A d \in BLOCKS : d # c => file2[d] = file[d]) /\ file2 \in Files
  BY StillFile DEF Files
<1>6. FullBlock(file2, c)
  <2> SUFFICES ASSUME NEW j \in OFFSETS PROVE buf[j] # NUL
    BY <1>5 DEF FullBlock
  <2>1. CASE j < k
    BY <2>1 DEF MinuteText
  <2>2. CASE k <= j
    <3>1. j - k \in Nat /\ j - k < len
      BY <1>1, <1>4, <2>2
    <3> QED BY <1>3, <2>2, <3>1
  <2> QED BY <1>1, <1>4, <2>1, <2>2
<1>7. AfterLineIn(file, buf, c, k) /\ LinesBelow(file2, lines, p)
  BY DEF MinuteText
<1>8. BlocksLined(file2, z)
  <2>1. HasPart(file, buf, c, k, k, buf)
    BY <1>1, <1>7 DEF HasPart
  <2> QED BY <2>1, BlockWritten
<1>9. EndsIn(file2, c + 1, z)
  <2>1. \A b \in BLOCKS : b \in Nat
    BY DEF BLOCKS
  <2>2. \A b \in BLOCKS : b < c => FullBlock(file, b)
    BY FullBefore
  <2>3. \A b \in BLOCKS : b < c + 1 => b = c \/ (b < c /\ b # c)
    BY <1>1, <2>1
  <2>4. \A b \in BLOCKS : b < c + 1 => FullBlock(file2, b)
    BY <1>5, <1>6, <2>2, <2>3 DEF FullBlock
  <2>5. \A b \in BLOCKS : c + 1 < b => b # c /\ c < b
    BY <1>1, <2>1
  <2>6. \A b \in BLOCKS : c + 1 < b /\ b < z => file[b] = Blank
    BY <2>5 DEF MinuteText, EndsIn
  <2> QED BY <1>5, <2>4, <2>5, <2>6 DEF EndsIn
<1> HIDE DEF file2
<1>10. SameBelow(file2, file2, p) /\ p <= p + len /\ p + len \in Nat
  BY <1>2 DEF SameBelow
<1>11. LinesBelow(file2, lines, z * BlockSize)
  <2>1. m + BlockSize <= z * BlockSize /\ z * BlockSize \in Nat
    BY <1>1, Multiples
  <2>2. p <= z * BlockSize
    BY <1>1, <2>1
  <2> QED BY <1>2, <1>7, <1>10, <2>1, <2>2, LinesBelowStay
<1>12. \A j \in OFFSETS : j < l => buf2[j] = Line(n, len)[(BlockSize - k) + j] /\ buf2[j] # NUL
  <2> TAKE j \in OFFSETS
  <2> HAVE j < l
  <2>1. (BlockSize - k) + j \in Nat /\ (BlockSize - k) + j < len /\ (BlockSize - k) + j <= len
    BY <1>1, <1>2, <1>4
  <2>2. buf2[j] = Line(n, len)[(BlockSize - k) + j]
    BY <1>2, <2>1 DEF Rest
  <2> QED BY <1>3, <2>1, <2>2
<1>13. AfterLineIn(file2, buf2, c + 1, l)
  <2>1. CASE l > 0
    <3>1. l - 1 \in OFFSETS /\ l - 1 < l /\ (BlockSize - k) + (l - 1) = len - 1
      BY <1>1, <1>2, <2>1 DEF OFFSETS
    <3>2. buf2[l - 1] = NL
      BY <1>3, <1>12, <3>1
    <3> QED BY <2>1, <3>2 DEF AfterLineIn
  <2>2. CASE ~(l > 0)
    <3>1. /\ BlockSize - 1 \in OFFSETS /\ k <= BlockSize - 1 /\ (BlockSize - 1) - k = len - 1
          /\ (c + 1) - 1 = c
      BY <1>1, <1>2, <2>2 DEF OFFSETS
    <3>2. buf[BlockSize - 1] = NL
      BY <1>3, <3>1
    <3> QED BY <1>5, <2>2, <3>1, <3>2 DEF AfterLineIn
  <2> QED BY <2>1, <2>2
<1> HIDE DEF buf2, l
<1>14. \A i \in Nat : i < (c + 1) * BlockSize + l => ByteAt(meant, i) # NUL
  <2>1. \A b \in BLOCKS : b < c + 1 => FullBlock(file2, b)
    BY <1>9 DEF EndsIn
  <2> QED BY <1>1, <1>2, <1>5, <1>12, <2>1, TextBelow
<1>15. SameBelow(meant, file2, m + BlockSize)
  <2> SUFFICES ASSUME NEW i \in Nat, i < m + BlockSize PROVE ByteAt(meant, i) = ByteAt(file2, i)
    BY DEF SameBelow
  <2>1. i < FileEnd /\ ~((c + 1) * BlockSize <= i)
    BY <1>1
  <2> QED BY <1>1, <1>5, <2>1, BytesOfUpdate
<1> HIDE DEF meant
<1>16. AfterNewLine(meant, p)
  <2>1. AfterNewLine(file2, p)
    BY <1>7, LineStartsAt DEF file2
  <2>2. p # 0 => p - 1 \in Nat /\ p - 1 < m + BlockSize
    BY <1>1, <1>2
  <2> QED BY <1>15, <2>1, <2>2 DEF AfterNewLine, SameBelow
<1>17. ASSUME NEW j \in 0 .. len - 1 PROVE ByteAt(meant, p + j) = Line(n, len)[j]
  <2>1. PICK i : i = p + j
    OBVIOUS
  <2>2. i \in Nat /\ i < FileEnd
    BY <1>1, <1>2, <2>1
  <2>3. CASE i < m + BlockSize
    <3>1. /\ m <= i /\ i - m = k + j /\ k + j \in OFFSETS /\ k <= k + j /\ (k + j) - k = j
      BY <1>1, <1>2, <2>1, <2>3 DEF OFFSETS
    <3>2. ByteAt(file2, i) = file2[c][k + j]
      BY <2>2, <2>3, <3>1, BytesOfBlock
    <3>3. buf[k + j] = Line(n, len)[(k + j) - k]
      BY <3>1
    <3> QED BY <1>5, <1>15, <2>1, <2>2, <2>3, <3>1, <3>2, <3>3 DEF SameBelow
  <2>4. CASE ~(i < m + BlockSize)
    <3>1. PICK x : x = i - (c + 1) * BlockSize
      OBVIOUS
    <3>2. /\ (c + 1) * BlockSize <= i /\ i < (c + 1) * BlockSize + BlockSize
          /\ x \in OFFSETS /\ x < l /\ (BlockSize - k) + x = j
      BY <1>1, <1>2, <2>1, <2>2, <2>4, <3>1 DEF OFFSETS
    <3>3. ByteAt(meant, i) = buf2[x]
      BY <1>1, <1>5, <2>2, <3>1, <3>2, BytesOfUpdate DEF meant
    <3> QED BY <1>12, <2>1, <3>2, <3>3
  <2> QED BY <2>3, <2>4
<1>18. LineAt(meant, p, n, len, (c + 1) * BlockSize + l)
  BY <1>2, <1>14, <1>16, <1>17 DEF LineAt
<1>19. LinesBelow(meant, lines \union {<<n, len>>}, (c + 1) * BlockSize + l)
  <2>1. SameBelow(meant, file2, p)
    <3>1. p <= m + BlockSize
      BY <1>1
    <3>2. \A i \in Nat : i < p => i < m + BlockSize
      BY <1>1, <1>2, <3>1
    <3> QED BY <1>15, <3>2 DEF SameBelow
  <2>2. LinesBelow(meant, lines, (c + 1) * BlockSize + l)
    BY <1>2, <1>7, <1>10, <2>1, LinesBelowStay
  <2> QED BY <1>2, <1>18, <2>2 DEF LinesBelow
<1>20. c + 1 <= z
  BY <1>1
<1>21. MinuteText(file2, buf2, c + 1, l, z, lines \union {<<n, len>>})
  BY <1>9, <1>12, <1>13, <1>19, <1>20 DEF MinuteText, meant
<1> QED BY <1>1, <1>8, <1>9, <1>11, <1>21 DEF file2, buf2, l

\* What is put behind the lines of the buffer leaves what a save has of them.
LEMMA PartStays ==
  ASSUME NEW file \in Files, NEW buf, NEW buf2, NEW c \in BLOCKS, NEW k \in 0 .. BlockSize,
         NEW k2 \in 0 .. BlockSize, k <= k2, k2 = BlockSize => k = BlockSize,
         NEW q, NEW mix, HasPart(file, buf, c, k, q, mix),
         NEW sent, LinesBelow([file EXCEPT ![c] = buf], sent, c * BlockSize + q),
         \A j \in OFFSETS : j < k => buf2[j] = buf[j]
  PROVE  /\ HasPart(file, buf2, c, k2, q, mix)
         /\ LinesBelow([file EXCEPT ![c] = buf2], sent, c * BlockSize + q)
<1>1. /\ q \in 0 .. k /\ (k = BlockSize => q = BlockSize) /\ AfterLineIn(file, buf, c, q)
      /\ mix \in [OFFSETS -> Nat] /\ \A j \in OFFSETS : j < q => mix[j] = buf[j]
  BY DEF HasPart
<1>2. q \in 0 .. k2 /\ q \in 0 .. BlockSize /\ q \in Nat /\ q <= k /\ k \in Nat /\ BlockSize \in Nat
  BY <1>1, CardNumbers
<1>3. \A j \in OFFSETS : j < q => j < k
  BY <1>2 DEF OFFSETS
<1>4. AfterLineIn(file, buf2, c, q)
  <2>1. q > 0 => q - 1 \in OFFSETS /\ q - 1 < k
    BY <1>2 DEF OFFSETS
  <2> QED BY <1>1, <2>1 DEF AfterLineIn
<1>5. HasPart(file, buf2, c, k2, q, mix)
  BY <1>1, <1>2, <1>3, <1>4 DEF HasPart
<1>6. SameBelow([file EXCEPT ![c] = buf2], [file EXCEPT ![c] = buf], c * BlockSize + q)
  BY <1>2, <1>3, BufferAgrees
<1>7. c * BlockSize + q \in Nat /\ c * BlockSize + q <= c * BlockSize + q
  BY <1>2, PlaceTyped
<1> QED BY <1>5, <1>6, <1>7, LinesBelowStay

\* vService zeroes the next block of a file that it creates.
LEMMA BlockZeroed ==
  ASSUME NEW file \in Files, NEW buf, NEW c \in BLOCKS, NEW k \in 0 .. BlockSize, NEW z \in BLOCKS,
         NEW lines, MinuteText(file, buf, c, k, z, lines), BlocksLined(file, z),
         NEW done, LinesBelow(file, done, z * BlockSize)
  PROVE  LET file2 == [file EXCEPT ![z] = Blank]
         IN /\ BlocksLined(file2, z + 1) /\ EndsIn(file2, c, z + 1)
            /\ LinesBelow(file2, done, (z + 1) * BlockSize)
            /\ MinuteText(file2, buf, c, k, z + 1, lines)
<1> DEFINE file2 == [file EXCEPT ![z] = Blank]
<1>1. /\ z \in Nat /\ z <= LastBlock /\ z # LastBlock + 1 /\ c \in Nat /\ c <= LastBlock
      /\ BlockSize \in Nat /\ k \in Nat /\ k <= BlockSize /\ LastBlock \in Nat
      /\ \A b \in BLOCKS : b \in Nat
  BY CardNumbers DEF BLOCKS
<1>2. /\ z * BlockSize \in Nat /\ (z + 1) * BlockSize = z * BlockSize + BlockSize
      /\ z * BlockSize + BlockSize <= FileEnd /\ c * BlockSize \in Nat
      /\ c * BlockSize + BlockSize <= FileEnd /\ FileEnd \in Nat
  BY BlockBounds
<1>3. c <= z /\ EndsIn(file, c, z) /\ AfterLineIn(file, buf, c, k)
      /\ LinesBelow([file EXCEPT ![c] = buf], lines, c * BlockSize + k)
  BY <1>1 DEF MinuteText
<1>4. file2[z] = Blank /\ (\A b \in BLOCKS : b # z => file2[b] = file[b]) /\ file2 \in Files
  <2>1. Blank \in [OFFSETS -> Nat]
    BY DEF Blank, NUL
  <2> QED BY <2>1, StillFile DEF Files
<1>5. \A i \in Nat : i < z * BlockSize => ByteAt(file2, i) = ByteAt(file, i)
  <2> TAKE i \in Nat
  <2> HAVE i < z * BlockSize
  <2>1. i < FileEnd /\ ~(z * BlockSize <= i)
    BY <1>1, <1>2
  <2> QED BY <2>1, BytesOfUpdate
<1>6. SameBelow([file2 EXCEPT ![c] = buf], [file EXCEPT ![c] = buf], c * BlockSize + k)
  <2> SUFFICES ASSUME NEW i \in Nat, i < c * BlockSize + k
               PROVE  ByteAt([file2 EXCEPT ![c] = buf], i) = ByteAt([file EXCEPT ![c] = buf], i)
    BY DEF SameBelow
  <2>1. i < FileEnd /\ i < c * BlockSize + BlockSize
    BY <1>1, <1>2
  <2>2. c * BlockSize <= z * BlockSize
    BY <1>1, <1>3, Multiples
  <2> HIDE DEF file2
  <2>3. CASE c * BlockSize <= i
    <3>1. ByteAt([file2 EXCEPT ![c] = buf], i) = buf[i - c * BlockSize]
      BY <1>4, <2>1, <2>3, BytesOfUpdate
    <3>2. ByteAt([file EXCEPT ![c] = buf], i) = buf[i - c * BlockSize]
      BY <2>1, <2>3, BytesOfUpdate
    <3> QED BY <3>1, <3>2
  <2>4. CASE ~(c * BlockSize <= i)
    <3>1. ByteAt([file2 EXCEPT ![c] = buf], i) = ByteAt(file2, i)
      BY <1>4, <2>1, <2>4, BytesOfUpdate
    <3>2. ByteAt([file EXCEPT ![c] = buf], i) = ByteAt(file, i)
      BY <2>1, <2>4, BytesOfUpdate
    <3>3. ByteAt(file2, i) = ByteAt(file, i)
      BY <1>2, <1>5, <2>2, <2>4
    <3> QED BY <3>1, <3>2, <3>3
  <2> QED BY <2>3, <2>4
<1> HIDE DEF file2
<1>7. LinesBelow([file2 EXCEPT ![c] = buf], lines, c * BlockSize + k)
  <2>1. c * BlockSize + k \in Nat /\ c * BlockSize + k <= c * BlockSize + k
    BY <1>1, <1>2
  <2> QED BY <1>3, <1>6, <2>1, LinesBelowStay
<1>8. LinesBelow(file2, done, (z + 1) * BlockSize)
  <2>1. (z + 1) * BlockSize \in Nat /\ z * BlockSize <= (z + 1) * BlockSize
    BY <1>1, <1>2
  <2>2. SameBelow(file2, file, z * BlockSize)
    BY <1>5 DEF SameBelow
  <2> QED BY <1>2, <2>1, <2>2, LinesBelowStay
<1>9. EndsIn(file2, c, z + 1)
  <2>1. \A b \in BLOCKS : b < c => FullBlock(file2, b)
    <3>1. \A b \in BLOCKS : b < c => b # z
      BY <1>1, <1>3
    <3> QED BY <1>3, <1>4, <3>1 DEF EndsIn, FullBlock
  <2>2. \A b \in BLOCKS : c < b /\ b < z + 1 => file2[b] = Blank
    <3>1. \A b \in BLOCKS : b < z + 1 => b = z \/ (b < z /\ b # z)
      BY <1>1
    <3> QED BY <1>3, <1>4, <3>1 DEF EndsIn
  <2> QED BY <2>1, <2>2 DEF EndsIn
<1>10. BlocksLined(file2, z + 1)
  <2> SUFFICES ASSUME NEW b \in BLOCKS, b < z + 1, file2[b] # Blank PROVE Lined(file2, b)
    BY DEF BlocksLined
  <2>1. b < z /\ b # z
    BY <1>1, <1>4
  <2>2. Lined(file, b)
    BY <1>4, <2>1 DEF BlocksLined
  <2>3. b # 0 => b - 1 \in BLOCKS /\ b - 1 # z
    BY <1>1, <2>1 DEF BLOCKS
  <2> QED BY <1>4, <2>1, <2>2, <2>3 DEF Lined
<1>11. AfterLineIn(file2, buf, c, k)
  <2>1. c # 0 => c - 1 \in BLOCKS /\ c - 1 # z
    BY <1>1, <1>3 DEF BLOCKS
  <2> QED BY <1>3, <1>4, <2>1 DEF AfterLineIn
<1>12. c <= z + 1
  BY <1>1, <1>3
<1>13. MinuteText(file2, buf, c, k, z + 1, lines)
  BY <1>7, <1>9, <1>11, <1>12 DEF MinuteText
<1> QED BY <1>8, <1>9, <1>10, <1>13 DEF file2

\* The end of the text that a start finds is behind every line of the file.
LEMMA LinesBeforeEnd ==
  ASSUME NEW file, NEW lines, NEW m \in Nat, m <= FileEnd, LinesBelow(file, lines, m),
         NEW p, Flat(p) \in Nat, BehindLine(file, p, TextEnd(file))
  PROVE  LinesBelow(file, lines, Flat(p))
<1> DEFINE t == TextEnd(file)
<1>1. t \in Nat /\ t <= FileEnd /\ FileEnd \in Nat /\ (t = FileEnd \/ ByteAt(file, t) = NUL)
  BY TextEndIs, FileEndIs DEF TextTo
<1>2. \A j \in Nat : Flat(p) <= j /\ j < t => ByteAt(file, j) # NL
  BY DEF BehindLine
<1> SUFFICES ASSUME NEW l \in lines
             PROVE  l[2] \in Nat /\ l[2] >= 2 /\ \E i \in Nat : LineAt(file, i, l[1], l[2], Flat(p))
  BY DEF LinesBelow
<1>3. l[2] \in Nat /\ l[2] >= 2 /\ \E i \in Nat : LineAt(file, i, l[1], l[2], m)
  BY DEF LinesBelow
<1>4. PICK n, len : n = l[1] /\ len = l[2]
  OBVIOUS
<1>5. PICK i \in Nat : LineAt(file, i, n, len, m)
  BY <1>3, <1>4
<1>6. len \in Nat /\ len >= 2 /\ i + len <= m
  BY <1>3, <1>4, <1>5 DEF LineAt
<1>7. i + len <= t
  <2>1. t < i + len => ByteAt(file, t) # NUL
    BY <1>1, <1>5 DEF LineAt
  <2> QED BY <1>1, <1>6, <2>1
<1>8. ByteAt(file, i + (len - 1)) = NL
  <2>1. len - 1 \in 0 .. len - 1 /\ Line(n, len)[len - 1] = NL
    BY <1>6, LineIs
  <2> QED BY <1>5, <2>1 DEF LineAt
<1>9. i + len <= Flat(p)
  <2>1. i + (len - 1) \in Nat /\ i + (len - 1) < t
    BY <1>1, <1>6, <1>7
  <2>2. ~(Flat(p) <= i + (len - 1))
    BY <1>2, <1>8, <2>1
  <2> QED BY <1>6, <2>2
<1>10. LineAt(file, i, n, len, Flat(p))
  BY <1>5, <1>9 DEF LineAt
<1> QED BY <1>3, <1>4, <1>10

\* A start reads the block back in which the search came to an end.
LEMMA OpenedText ==
  ASSUME NEW file \in Files, BlocksLined(file, LastBlock + 1),
         \E e \in BLOCKS : EndsIn(file, e, LastBlock + 1), EndPosition(file) # <<>>,
         NEW lines, LinesBelow(file, lines, (LastBlock + 1) * BlockSize)
  PROVE  LET p == EndPosition(file)
         IN /\ p[1] \in BLOCKS /\ p[2] \in 0 .. BlockSize
            /\ MinuteText(file, file[p[1]], p[1], p[2], LastBlock + 1, lines)
<1>1. PICK p, c, k : p = EndPosition(file) /\ c = p[1] /\ k = p[2]
  OBVIOUS
<1>2. /\ c \in BLOCKS /\ k \in 0 .. BlockSize /\ BehindLine(file, p, TextEnd(file))
      /\ \/ EndsIn(file, c, LastBlock + 1)
         \/ k = BlockSize /\ c < LastBlock /\ EndsIn(file, c + 1, LastBlock + 1)
  BY <1>1, MinutesEnd
<1>3. /\ c \in Nat /\ c * BlockSize \in Nat /\ BlockSize \in Nat /\ k \in Nat /\ k <= BlockSize
      /\ LastBlock \in Nat /\ c <= LastBlock + 1 /\ FileEnd \in Nat
      /\ c * BlockSize + BlockSize <= FileEnd
  <2>1. /\ c \in Nat /\ c * BlockSize \in Nat /\ BlockSize \in Nat /\ LastBlock \in Nat
        /\ FileEnd \in Nat /\ c * BlockSize + BlockSize <= FileEnd
    BY <1>2, BlockBounds
  <2>2. c <= LastBlock
    BY <1>2, <2>1 DEF BLOCKS
  <2> QED BY <1>2, <2>1, <2>2
<1>4. /\ Flat(p) = c * BlockSize + k /\ Flat(p) \in Nat /\ (k = 0 => c = 0)
      /\ AfterNewLine(file, Flat(p)) /\ Flat(p) <= TextEnd(file)
  <2>1. Flat(p) = c * BlockSize + k
    BY <1>1 DEF Flat
  <2> QED BY <1>1, <1>2, <1>3, <2>1 DEF BehindLine
<1>5. AfterLineIn(file, file[c], c, k)
  <2>1. CASE k > 0
    <3>1. k - 1 \in OFFSETS /\ Flat(p) - 1 = c * BlockSize + (k - 1) /\ Flat(p) # 0
      BY <1>3, <1>4, <2>1 DEF OFFSETS
    <3>2. ByteAt(file, c * BlockSize + (k - 1)) = file[c][k - 1]
      BY <1>2, <3>1, ByteOfBlock
    <3> QED BY <1>4, <2>1, <3>1, <3>2 DEF AfterNewLine, AfterLineIn
  <2>2. CASE ~(k > 0)
    BY <1>3, <1>4, <2>2 DEF AfterLineIn
  <2> QED BY <2>1, <2>2
<1>6. ASSUME NEW j \in OFFSETS, j < k PROVE file[c][j] # NUL
  <2>1. j \in Nat
    BY <1>3 DEF OFFSETS
  <2>2. /\ c * BlockSize + j \in Nat /\ ByteAt(file, c * BlockSize + j) = file[c][j]
    BY <1>2, ByteOfBlock
  <2>3. TextTo(file, TextEnd(file)) /\ TextEnd(file) \in Nat
    BY TextEndIs, FileEndIs DEF TextTo
  <2>4. c * BlockSize + j \in 0 .. TextEnd(file) - 1
    BY <1>3, <1>4, <1>6, <2>1, <2>2, <2>3
  <2> QED BY <2>2, <2>3, <2>4 DEF TextTo
<1>7. LinesBelow(file, lines, c * BlockSize + k)
  <2>1. (LastBlock + 1) * BlockSize = FileEnd /\ FileEnd <= FileEnd
    BY <1>3 DEF FileEnd
  <2>2. PICK m : m = (LastBlock + 1) * BlockSize
    OBVIOUS
  <2>3. m \in Nat /\ m <= FileEnd /\ LinesBelow(file, lines, m)
    BY <1>3, <2>1, <2>2
  <2>4. LinesBelow(file, lines, Flat(p))
    BY <1>2, <1>4, <2>3, LinesBeforeEnd
  <2> QED BY <1>4, <2>4
<1>8. [file EXCEPT ![c] = file[c]] = file
  BY <1>2 DEF Files
<1>9. MinuteText(file, file[c], c, k, LastBlock + 1, lines)
  BY <1>2, <1>3, <1>5, <1>6, <1>7, <1>8 DEF MinuteText
<1> QED BY <1>1, <1>2, <1>9
-----------------------------------------------------------------------------
(* The invariant of the minutes                                                *)

MinutesTypeOK ==
  /\ minuteDisk \in Files /\ history_buffer \in [OFFSETS -> Nat]
  /\ HistoryCurrentBlock \in BLOCKS /\ HistoryCurrentPos \in 0 .. BlockSize
  /\ zeroed \in Nat /\ zeroed <= LastBlock + 1
  /\ HistoryBlockCreating => opened = "yes" /\ zeroed <= LastBlock
  /\ sending # <<>> => opened = "yes"
  /\ minute \in Nat /\ minute >= 2
  /\ split \in Nat
  /\ split > 0 => split >= 2 /\ split <= BlockSize /\ ~Fits(HistoryCurrentPos, split)

\* What the card has, whether the file is open or not.
CardHolds ==
  /\ BlocksLined(minuteDisk, zeroed) /\ \E e \in BLOCKS : EndsIn(minuteDisk, e, zeroed)
  /\ LinesBelow(minuteDisk, kept, zeroed * BlockSize)

\* What History and the browser's save rely on.
OpenHolds ==
  /\ MinuteText(minuteDisk, history_buffer, HistoryCurrentBlock, HistoryCurrentPos, zeroed,
                held \union kept)
  /\ ~HistoryBlockCreating => zeroed = LastBlock + 1
  /\ split > 0 \/ sending # <<>> => HistoryCurrentBlock < zeroed
  /\ split > 0 => \A j \in OFFSETS : HistoryCurrentPos <= j =>
                    history_buffer[j] = Line(minute, split)[j - HistoryCurrentPos]

\* What the browser's save has is in lines that end before an offset q.
SentHolds == \E q \in 0 .. BlockSize :
  /\ HasPart(minuteDisk, history_buffer, HistoryCurrentBlock, HistoryCurrentPos, q, sending[1])
  /\ LinesBelow([minuteDisk EXCEPT ![HistoryCurrentBlock] = history_buffer],
                sending[2] \union kept, HistoryCurrentBlock * BlockSize + q)

\* OpenHolds only while the file is open: with the history off nothing is written any more.
MinutesInv ==
  /\ MinutesTypeOK /\ CardHolds
  /\ opened = "yes" => OpenHolds
  /\ sending # <<>> => SentHolds

MinutesSafe == harm = {} => MinutesInv

LEMMA MinutesInvInit == MinutesInit => MinutesInv
<1> SUFFICES ASSUME MinutesInit PROVE MinutesInv
  OBVIOUS
<1>1. BlockSize \in Nat /\ LastBlock \in Nat /\ 0 \in BLOCKS /\ 0 \in 0 .. BlockSize
      /\ 0 * BlockSize = 0 /\ \A b \in BLOCKS : ~(b < 0)
  BY CardNumbers DEF BLOCKS
<1>2. Unmade \in Files /\ Blank \in [OFFSETS -> Nat]
  BY MinutesBounded DEF Unmade, Files, Rubbish, Blank, NUL
<1>3. MinutesTypeOK
  BY <1>1, <1>2 DEF MinutesInit, MinutesTypeOK
<1>4. EndsIn(Unmade, 0, 0) /\ BlocksLined(Unmade, 0)
  BY <1>1 DEF EndsIn, BlocksLined
<1>5. CardHolds
  BY <1>1, <1>4 DEF CardHolds, MinutesInit, LinesBelow
<1> QED BY <1>3, <1>5 DEF MinutesInit, MinutesInv

\* The steps of the minutes: vService makes a file, of which the first block is zeroed.
LEMMA CreatesFileStep ==
  ASSUME MinutesInv, CreatesFile
  PROVE  MinutesInv'
<1>1. /\ MinutesTypeOK /\ CardHolds /\ opened = "no" /\ zeroed = 0 /\ split = 0
      /\ opened' = "yes" /\ zeroed' = 1 /\ HistoryBlockCreating' = TRUE
      /\ minuteDisk' = [minuteDisk EXCEPT ![0] = Blank]
      /\ HistoryCurrentBlock' = 0 /\ HistoryCurrentPos' = 0 /\ held' = {}
      /\ UNCHANGED <<history_buffer, minute, split, sending, kept, harm>>
  BY DEF MinutesInv, CreatesFile
<1>2. BlockSize \in Nat /\ LastBlock \in Nat /\ LastBlock > 0 /\ 0 \in BLOCKS /\ 0 \in 0 .. BlockSize
      /\ 0 * BlockSize = 0 /\ \A b \in BLOCKS : ~(b < 0) /\ (b < 1 => b = 0) /\ ~(0 < b /\ b < 1)
  BY CardNumbers DEF BLOCKS
<1>3. Blank \in [OFFSETS -> Nat] /\ minuteDisk' \in Files
  <2>1. Blank \in [OFFSETS -> Nat]
    BY DEF Blank, NUL
  <2> QED BY <1>1, <1>2, <2>1, StillFile DEF MinutesTypeOK
<1>4. sending = <<>>
  BY <1>1 DEF MinutesTypeOK
<1>5. MinutesTypeOK'
  BY <1>1, <1>2, <1>3, <1>4 DEF MinutesTypeOK
<1>6. kept = {}
  <2> SUFFICES ASSUME NEW l \in kept PROVE FALSE
    OBVIOUS
  <2>1. l[2] \in Nat /\ l[2] >= 2 /\ \E i \in Nat : LineAt(minuteDisk, i, l[1], l[2], 0)
    BY <1>1, <1>2 DEF CardHolds, LinesBelow
  <2> QED BY <2>1 DEF LineAt
<1>7. PICK file2 : file2 = minuteDisk'
  OBVIOUS
<1>8. EndsIn(file2, 0, 1) /\ BlocksLined(file2, 1)
  BY <1>2 DEF EndsIn, BlocksLined, Lined
<1>9. CardHolds'
  BY <1>1, <1>2, <1>6, <1>7, <1>8 DEF CardHolds, LinesBelow
<1>10. MinuteText(file2, history_buffer, 0, 0, 1, {})
  <2>1. \A j \in OFFSETS : ~(j < 0)
    BY <1>2 DEF OFFSETS
  <2> QED BY <1>8, <2>1 DEF MinuteText, AfterLineIn, LinesBelow
<1>11. OpenHolds'
  BY <1>1, <1>4, <1>6, <1>7, <1>10 DEF OpenHolds
<1> QED BY <1>1, <1>4, <1>5, <1>9, <1>11 DEF MinutesInv

\* It zeroes the next block.
LEMMA ZeroesBlockStep ==
  ASSUME MinutesInv, ZeroesBlock
  PROVE  MinutesInv'
<1>1. /\ MinutesTypeOK /\ CardHolds /\ OpenHolds
      /\ opened = "yes" /\ HistoryBlockCreating /\ split = 0 /\ sending = <<>>
      /\ minuteDisk' = [minuteDisk EXCEPT ![zeroed] = Blank]
      /\ zeroed' = zeroed + 1 /\ HistoryBlockCreating' = (zeroed < LastBlock)
      /\ UNCHANGED <<history_buffer, minutePlace, opened, minute, split, sending, held, kept, harm>>
  BY DEF MinutesInv, ZeroesBlock
<1>2. PICK file, buf, c, k, z : file = minuteDisk /\ buf = history_buffer /\ z = zeroed
                              /\ c = HistoryCurrentBlock /\ k = HistoryCurrentPos
  OBVIOUS
<1>3. /\ file \in Files /\ c \in BLOCKS /\ k \in 0 .. BlockSize /\ z \in BLOCKS /\ z \in Nat
      /\ z <= LastBlock /\ LastBlock \in Nat
  BY <1>1, <1>2, CardNumbers DEF MinutesTypeOK, BLOCKS
<1>4. /\ MinuteText(file, buf, c, k, z, held \union kept) /\ BlocksLined(file, z)
      /\ LinesBelow(file, kept, z * BlockSize)
  BY <1>1, <1>2 DEF OpenHolds, CardHolds
<1>5. PICK file2 : file2 = [file EXCEPT ![z] = Blank]
  OBVIOUS
<1>6. /\ BlocksLined(file2, z + 1) /\ EndsIn(file2, c, z + 1)
      /\ LinesBelow(file2, kept, (z + 1) * BlockSize)
      /\ MinuteText(file2, buf, c, k, z + 1, held \union kept)
  BY <1>3, <1>4, <1>5, BlockZeroed
<1>7. file2 \in Files
  <2>1. Blank \in [OFFSETS -> Nat]
    BY DEF Blank, NUL
  <2> QED BY <1>3, <1>5, <2>1, StillFile
<1>8. HistoryCurrentBlock' = c /\ HistoryCurrentPos' = k /\ minuteDisk' = file2 /\ zeroed' = z + 1
      /\ history_buffer' = buf
  BY <1>1, <1>2, <1>5 DEF minutePlace
<1>9. (HistoryBlockCreating' <=> z < LastBlock) /\ opened' = "yes" /\ sending' = <<>> /\ split' = 0
      /\ minute' = minute /\ held' = held /\ kept' = kept /\ harm' = harm
  <2>1. HistoryBlockCreating' = (zeroed < LastBlock)
    BY <1>1
  <2>2. HistoryBlockCreating' <=> z < LastBlock
    BY <1>2, <2>1, Zenon
  <2> QED BY <1>1, <2>2
<1>10. MinutesTypeOK'
  <2>1. z + 1 \in Nat /\ z + 1 <= LastBlock + 1 /\ (z < LastBlock => z + 1 <= LastBlock)
    BY <1>3
  <2>2. minute \in Nat /\ minute >= 2 /\ buf \in [OFFSETS -> Nat]
    BY <1>1, <1>2 DEF MinutesTypeOK
  <2> QED BY <1>3, <1>7, <1>8, <1>9, <2>1, <2>2 DEF MinutesTypeOK
<1>11. CardHolds'
  BY <1>1, <1>3, <1>6, <1>8 DEF CardHolds
<1>12. OpenHolds'
  <2>1. ~HistoryBlockCreating' => zeroed' = LastBlock + 1
    BY <1>3, <1>8, <1>9
  <2> QED BY <1>6, <1>8, <1>9, <2>1 DEF OpenHolds
<1> QED BY <1>9, <1>10, <1>11, <1>12 DEF MinutesInv

\* The card fails, and the history is switched off.
LEMMA ZeroFailsStep ==
  ASSUME MinutesInv, ZeroFails
  PROVE  MinutesInv'
<1>1. /\ MinutesTypeOK /\ CardHolds /\ sending = <<>> /\ opened' = "off" /\ HistoryBlockCreating' = FALSE
      /\ UNCHANGED <<minuteDisk, history_buffer, minutePlace, zeroed, minute, split, sending, held,
                     kept, harm>>
  BY DEF MinutesInv, ZeroFails
<1>2. MinutesTypeOK'
  BY <1>1 DEF MinutesTypeOK, minutePlace
<1>3. CardHolds'
  BY <1>1 DEF CardHolds
<1> QED BY <1>1, <1>2, <1>3 DEF MinutesInv

\* A start finds the end and reads its block back.
LEMMA OpensStep ==
  ASSUME MinutesInv, Opens, harm' = {}
  PROVE  MinutesInv'
<1> DEFINE p == EndPosition(minuteDisk)
<1>1. /\ MinutesTypeOK /\ CardHolds /\ opened = "no" /\ split = 0 /\ held' = {}
      /\ UNCHANGED <<minuteDisk, zeroed, HistoryBlockCreating, minute, split, sending, kept>>
      /\ ~(zeroed <= LastBlock)
      /\ p = <<>> => opened' = "off" /\ UNCHANGED <<history_buffer, minutePlace>>
      /\ p # <<>> => /\ opened' = "yes" /\ history_buffer' = minuteDisk[p[1]]
                     /\ HistoryCurrentBlock' = p[1] /\ HistoryCurrentPos' = p[2]
  BY DEF MinutesInv, Opens, Reread
<1>2. zeroed = LastBlock + 1 /\ sending = <<>> /\ ~HistoryBlockCreating /\ minuteDisk \in Files
  BY <1>1, CardNumbers DEF MinutesTypeOK
<1>3. CardHolds'
  BY <1>1 DEF CardHolds
<1>4. CASE p = <<>>
  <2>1. MinutesTypeOK'
    BY <1>1, <1>2, <1>4 DEF MinutesTypeOK, minutePlace
  <2> QED BY <1>1, <1>2, <1>3, <1>4, <2>1 DEF MinutesInv
<1>5. CASE p # <<>>
  <2>1. /\ p[1] \in BLOCKS /\ p[2] \in 0 .. BlockSize
        /\ MinuteText(minuteDisk, minuteDisk[p[1]], p[1], p[2], LastBlock + 1, kept)
    BY <1>1, <1>2, <1>5, OpenedText DEF CardHolds
  <2> HIDE DEF p
  <2>2. history_buffer' \in [OFFSETS -> Nat]
    BY <1>1, <1>2, <1>5, <2>1 DEF Files
  <2>3. MinutesTypeOK'
    BY <1>1, <1>2, <1>5, <2>1, <2>2 DEF MinutesTypeOK
  <2>4. held' \union kept' = kept
    BY <1>1
  <2>5. OpenHolds'
    BY <1>1, <1>2, <1>5, <2>1, <2>4 DEF OpenHolds
  <2> QED BY <1>1, <1>2, <1>3, <2>3, <2>5 DEF MinutesInv
<1> QED BY <1>4, <1>5

\* A line goes into the buffer, behind what the browser's save has of it.
LEMMA PutsMinuteStep ==
  ASSUME MinutesInv, NEW len \in Lengths, PutsMinute(len)
  PROVE  MinutesInv'
<1>0. len \in Nat /\ len >= 2 /\ len <= BlockSize /\ BlockSize \in Nat
  BY LineFits, CardNumbers
<1>1. MinutesTypeOK /\ CardHolds
  BY DEF MinutesInv
<1>2. PICK file, buf, buf2, c, k, z, n :
        /\ file = minuteDisk /\ buf = history_buffer /\ z = zeroed /\ n = minute
        /\ c = HistoryCurrentBlock /\ k = HistoryCurrentPos /\ buf2 = WithLine(buf, k, Line(n, len))
  OBVIOUS
<1>3. /\ file \in Files /\ c \in BLOCKS /\ k \in 0 .. BlockSize /\ buf \in [OFFSETS -> Nat]
      /\ n \in Nat /\ n >= 2 /\ z \in Nat /\ k \in Nat
  BY <1>0, <1>1, <1>2 DEF MinutesTypeOK
<1>4. /\ split = 0 /\ Ahead /\ history_buffer' = buf2
      /\ UNCHANGED <<minuteDisk, HistoryCurrentBlock, minuteFile, sending, kept, harm>>
      /\ opened' = opened /\ zeroed' = zeroed /\ HistoryBlockCreating' = HistoryBlockCreating
      /\ Fits(k, len) => /\ HistoryCurrentPos' = k + len /\ held' = held \union {<<n, len>>}
                         /\ minute' = n + 1 /\ split' = 0
      /\ ~Fits(k, len) => split' = len /\ HistoryCurrentPos' = k /\ held' = held /\ minute' = n
  BY <1>2 DEF PutsMinute, minuteFile
<1>5. /\ buf2 \in [OFFSETS -> Nat]
      /\ \A j \in OFFSETS : j < k => buf2[j] = buf[j]
      /\ \A j \in OFFSETS : k <= j /\ j <= k + len => buf2[j] = Line(n, len)[j - k]
  <2>1. buf \in [OFFSETS -> Nat] /\ n \in Nat /\ len \in Nat /\ k \in 0 .. BlockSize
    BY <1>0, <1>3
  <2>2. WithLine(buf, k, Line(n, len)) \in [OFFSETS -> Nat]
    BY <2>1, BuffersTyped
  <2>3. \A j \in OFFSETS : j < k => WithLine(buf, k, Line(n, len))[j] = buf[j]
    BY <2>1, BuffersTyped
  <2>4. \A j \in OFFSETS : k <= j /\ j <= k + len =>
          WithLine(buf, k, Line(n, len))[j] = Line(n, len)[j - k]
    BY <2>1, BuffersTyped
  <2>5. buf2 = WithLine(buf, k, Line(n, len))
    BY <1>2
  <2> QED BY <2>2, <2>3, <2>4, <2>5
<1>6. Fits(k, len) <=> k + len + 1 <= BlockSize
  BY <1>0, <1>3, FitsIs
<1>7. MinutesTypeOK'
  <2>1. CASE Fits(k, len)
    <3>1. HistoryCurrentPos' \in 0 .. BlockSize /\ minute' \in Nat /\ minute' >= 2 /\ split' = 0
      BY <1>0, <1>3, <1>4, <1>6, <2>1
    <3> QED BY <1>1, <1>4, <1>5, <3>1 DEF MinutesTypeOK
  <2>2. CASE ~Fits(k, len)
    BY <1>0, <1>1, <1>2, <1>3, <1>4, <1>5, <2>2 DEF MinutesTypeOK
  <2> QED BY <2>1, <2>2
<1>8. CardHolds'
  BY <1>1, <1>4 DEF CardHolds
<1>9. ASSUME opened = "yes" PROVE OpenHolds'
  <2>1. MinuteText(file, buf, c, k, z, held \union kept) /\ (~HistoryBlockCreating => z = LastBlock + 1)
        /\ (sending # <<>> => c < z)
    BY <1>2, <1>9 DEF MinutesInv, OpenHolds
  <2>2. c < z
    <3>1. HistoryBlockCreating => c < z
      BY <1>2, <1>4 DEF Ahead
    <3>2. c < LastBlock + 1
      BY <1>3, CardNumbers DEF BLOCKS
    <3> QED BY <2>1, <3>1, <3>2
  <2>3. CASE Fits(k, len)
    <3>1. MinuteText(file, buf2, c, k + len, z, (held \union kept) \union {<<n, len>>})
      BY <1>0, <1>3, <1>5, <1>6, <2>1, <2>3, PutMinute
    <3>2. held' \union kept' = (held \union kept) \union {<<n, len>>}
      BY <1>4, <2>3
    <3>3. /\ HistoryCurrentPos' = k + len /\ split' = 0 /\ minuteDisk' = file /\ history_buffer' = buf2
          /\ HistoryCurrentBlock' = c /\ zeroed' = z /\ (HistoryBlockCreating' <=> HistoryBlockCreating)
      BY <1>2, <1>4, <2>3
    <3>4. ~(split' > 0)
      BY <3>3
    <3> QED BY <2>1, <2>2, <3>1, <3>2, <3>3, <3>4 DEF OpenHolds
  <2>4. CASE ~Fits(k, len)
    <3>1. MinuteText(file, buf2, c, k, z, held \union kept)
      BY <1>3, <1>5, <2>1, PutBehind
    <3>2. \A j \in OFFSETS : k <= j => buf2[j] = Line(n, len)[j - k]
      <4>1. \A j \in OFFSETS : j <= k + len
        BY <1>0, <1>3, <1>6, <2>4 DEF OFFSETS
      <4> QED BY <1>5, <4>1
    <3> QED BY <1>2, <1>4, <2>1, <2>2, <2>4, <3>1, <3>2 DEF OpenHolds
  <2> QED BY <2>3, <2>4
<1>10. ASSUME sending # <<>> PROVE SentHolds'
  <2>1. PICK q \in 0 .. BlockSize :
          /\ HasPart(file, buf, c, k, q, sending[1])
          /\ LinesBelow([file EXCEPT ![c] = buf], sending[2] \union kept, c * BlockSize + q)
    BY <1>2, <1>10 DEF MinutesInv, SentHolds
  <2>2. PICK k2 : k2 = HistoryCurrentPos'
    OBVIOUS
  <2>3. k2 \in 0 .. BlockSize /\ k <= k2 /\ (k2 = BlockSize => k = BlockSize)
    <3>1. CASE Fits(k, len)
      BY <1>0, <1>3, <1>4, <1>6, <2>2, <3>1
    <3>2. CASE ~Fits(k, len)
      BY <1>3, <1>4, <2>2, <3>2
    <3> QED BY <3>1, <3>2
  <2>4. PICK mix, sent : mix = sending[1] /\ sent = sending[2] \union kept
    OBVIOUS
  <2>5. /\ HasPart(file, buf, c, k, q, mix)
        /\ LinesBelow([file EXCEPT ![c] = buf], sent, c * BlockSize + q)
    BY <2>1, <2>4
  <2>6. file \in Files /\ c \in BLOCKS /\ k \in 0 .. BlockSize
    BY <1>3
  <2>7. \A j \in OFFSETS : j < k => buf2[j] = buf[j]
    BY <1>5
  <2>8. /\ HasPart(file, buf2, c, k2, q, mix)
        /\ LinesBelow([file EXCEPT ![c] = buf2], sent, c * BlockSize + q)
    BY <2>3, <2>5, <2>6, <2>7, PartStays
  <2>9. /\ minuteDisk' = file /\ HistoryCurrentBlock' = c /\ sending' = sending /\ kept' = kept
    BY <1>2, <1>4
  <2> QED BY <1>4, <2>2, <2>4, <2>8, <2>9 DEF SentHolds
<1> QED BY <1>4, <1>7, <1>8, <1>9, <1>10 DEF MinutesInv

\* A full block is saved, and the rest of its last line begins the next one.
LEMMA SavesBlockStep ==
  ASSUME MinutesInv, SavesBlock, harm' = {}
  PROVE  MinutesInv'
<1>1. /\ MinutesTypeOK /\ CardHolds /\ OpenHolds
      /\ split > 0 /\ opened = "yes" /\ sending = <<>>
  BY DEF MinutesInv, SavesBlock
<1>2. PICK file, buf, c, k, z, n, len :
        /\ file = minuteDisk /\ buf = history_buffer /\ z = zeroed /\ n = minute /\ len = split
        /\ c = HistoryCurrentBlock /\ k = HistoryCurrentPos
  OBVIOUS
<1>3. /\ file \in Files /\ c \in BLOCKS /\ k \in 0 .. BlockSize /\ buf \in [OFFSETS -> Nat]
      /\ n \in Nat /\ n >= 2 /\ z \in Nat /\ z <= LastBlock + 1
      /\ len \in Nat /\ len >= 2 /\ len <= BlockSize /\ ~Fits(k, len)
  BY <1>1, <1>2 DEF MinutesTypeOK
<1>4. c < LastBlock
  <2>1. c # LastBlock
    BY <1>2 DEF SavesBlock
  <2> QED BY <1>3, <2>1, CardNumbers DEF BLOCKS
<1>5. PICK file2, buf2, l : /\ file2 = [file EXCEPT ![c] = buf]
                            /\ buf2 = Rest(k, len, Line(n, len)) /\ l = RestLen(k, len)
  OBVIOUS
<1>6. /\ minuteDisk' = file2 /\ kept' = kept \union held
      /\ HistoryCurrentBlock' = c + 1 /\ history_buffer' = buf2 /\ HistoryCurrentPos' = l
      /\ held' = held \union {<<n, len>>} /\ minute' = n + 1 /\ split' = 0
      /\ opened' = opened /\ zeroed' = z /\ HistoryBlockCreating' = HistoryBlockCreating
      /\ sending' = sending
  BY <1>2, <1>4, <1>5 DEF SavesBlock, NextBlock, minuteFile
<1>7. BlockSize \in Nat /\ BlockSize < k + len + 1 /\ k \in Nat /\ k <= BlockSize /\ c + 1 \in BLOCKS
  <2>1. BlockSize \in Nat /\ ~(k + len + 1 <= BlockSize)
    BY <1>3, FitsIs, CardNumbers
  <2> QED BY <1>3, <1>4, <2>1, BlockBounds
<1>8. l \in 0 .. BlockSize
  BY <1>3, <1>5, <1>7 DEF RestLen, Saved
<1>9. file2 \in Files /\ buf2 \in [OFFSETS -> Nat]
  <2>1. buf2 \in [OFFSETS -> Nat]
    BY <1>3, <1>5, BuffersTyped
  <2> QED BY <1>3, <1>5, <2>1, StillFile
<1>10. /\ MinuteText(file, buf, c, k, z, held \union kept) /\ BlocksLined(file, z) /\ c < z
       /\ \A j \in OFFSETS : k <= j => buf[j] = Line(n, len)[j - k]
       /\ (~HistoryBlockCreating => z = LastBlock + 1)
  BY <1>1, <1>2 DEF OpenHolds, CardHolds
<1>11. /\ BlocksLined(file2, z) /\ \E e \in BLOCKS : EndsIn(file2, e, z)
       /\ LinesBelow(file2, held \union kept, z * BlockSize)
       /\ MinuteText(file2, buf2, c + 1, l, z, (held \union kept) \union {<<n, len>>})
  <2>1. PICK lines : lines = held \union kept
    OBVIOUS
  <2>2. MinuteText(file, buf, c, k, z, lines)
    BY <1>10, <2>1
  <2>3. /\ BlocksLined([file EXCEPT ![c] = buf], z)
        /\ \E e \in BLOCKS : EndsIn([file EXCEPT ![c] = buf], e, z)
        /\ LinesBelow([file EXCEPT ![c] = buf], lines, z * BlockSize)
        /\ MinuteText([file EXCEPT ![c] = buf], Rest(k, len, Line(n, len)), c + 1, RestLen(k, len),
                      z, lines \union {<<n, len>>})
    <3>1. file \in Files /\ buf \in [OFFSETS -> Nat] /\ c \in BLOCKS /\ c < LastBlock
      BY <1>3, <1>4
    <3>2. k \in 0 .. BlockSize /\ z \in Nat /\ c < z /\ BlocksLined(file, z)
      BY <1>3, <1>10
    <3>3. n \in Nat /\ n >= 2 /\ len \in Nat /\ len >= 2 /\ len <= BlockSize /\ BlockSize < k + len + 1
      BY <1>3, <1>7
    <3>4. \A j \in OFFSETS : k <= j => buf[j] = Line(n, len)[j - k]
      BY <1>10
    <3> QED BY <2>2, <3>1, <3>2, <3>3, <3>4, BlockSaved
  <2> QED BY <1>5, <2>1, <2>3
<1>12. MinutesTypeOK'
  <2>1. n + 1 \in Nat /\ n + 1 >= 2
    BY <1>3
  <2> QED BY <1>1, <1>2, <1>3, <1>6, <1>7, <1>8, <1>9, <2>1 DEF MinutesTypeOK
<1>13. kept' = held \union kept /\ held' \union kept' = (held \union kept) \union {<<n, len>>}
  BY <1>6
<1>14. CardHolds'
  BY <1>6, <1>11, <1>13 DEF CardHolds
<1>15. OpenHolds'
  <2>1. ~(split' > 0) /\ ~(sending' # <<>>)
    BY <1>1, <1>6
  <2>2. ~HistoryBlockCreating' => zeroed' = LastBlock + 1
    BY <1>6, <1>10
  <2>3. PICK lines : lines = (held \union kept) \union {<<n, len>>}
    OBVIOUS
  <2>4. MinuteText(file2, buf2, c + 1, l, z, lines) /\ held' \union kept' = lines
    BY <1>11, <1>13, <2>3
  <2>5. MinuteText(minuteDisk', history_buffer', HistoryCurrentBlock', HistoryCurrentPos', zeroed', lines)
    BY <1>6, <2>4
  <2> QED BY <2>1, <2>2, <2>4, <2>5 DEF OpenHolds
<1> QED BY <1>1, <1>6, <1>12, <1>14, <1>15 DEF MinutesInv

\* A block is full before there is a file.
LEMMA SavesNothingStep ==
  ASSUME MinutesInv, SavesNothing
  PROVE  MinutesInv'
<1>1. /\ MinutesTypeOK /\ CardHolds /\ split > 0 /\ opened = "no" /\ sending = <<>>
      /\ UNCHANGED <<minuteDisk, minuteFile, sending, kept, harm>> /\ opened' = opened
      /\ zeroed' = zeroed /\ HistoryBlockCreating' = HistoryBlockCreating
      /\ HistoryCurrentBlock' = HistoryCurrentBlock
      /\ history_buffer' = Rest(HistoryCurrentPos, split, Line(minute, split))
      /\ HistoryCurrentPos' = RestLen(HistoryCurrentPos, split)
      /\ minute' = minute + 1 /\ split' = 0
  BY DEF MinutesInv, SavesNothing, NextBlock, minuteFile, MinutesTypeOK
<1>2. PICK k, len, n : k = HistoryCurrentPos /\ len = split /\ n = minute
  OBVIOUS
<1>3. /\ k \in 0 .. BlockSize /\ len \in Nat /\ len <= BlockSize /\ ~Fits(k, len)
      /\ n \in Nat /\ n >= 2 /\ history_buffer \in [OFFSETS -> Nat]
  BY <1>1, <1>2 DEF MinutesTypeOK
<1>4. Rest(k, len, Line(n, len)) \in [OFFSETS -> Nat]
  BY <1>3, BuffersTyped
<1>5. RestLen(k, len) \in 0 .. BlockSize
  <2>1. BlockSize \in Nat /\ ~(k + len + 1 <= BlockSize)
    BY <1>3, FitsIs, CardNumbers
  <2> QED BY <1>3, <2>1 DEF RestLen, Saved
<1>6. MinutesTypeOK'
  <2>1. n + 1 \in Nat /\ n + 1 >= 2
    BY <1>3
  <2> QED BY <1>1, <1>2, <1>4, <1>5, <2>1 DEF MinutesTypeOK
<1>7. CardHolds'
  BY <1>1 DEF CardHolds
<1> QED BY <1>1, <1>6, <1>7 DEF MinutesInv

\* A full block cannot be saved: its last line is given up.
LEMMA GivesMinuteUpStep ==
  ASSUME MinutesInv, GivesMinuteUp
  PROVE  MinutesInv'
<1>1. /\ MinutesTypeOK /\ CardHolds /\ OpenHolds /\ split > 0 /\ opened = "yes"
      /\ minute' = minute + 1 /\ split' = 0
      /\ UNCHANGED <<minuteDisk, history_buffer, minutePlace, minuteFile, sending, held, kept, harm>>
      /\ HistoryCurrentBlock' = HistoryCurrentBlock /\ HistoryCurrentPos' = HistoryCurrentPos
      /\ opened' = opened /\ zeroed' = zeroed /\ HistoryBlockCreating' = HistoryBlockCreating
  BY DEF MinutesInv, GivesMinuteUp, minutePlace, minuteFile
<1>2. MinutesTypeOK'
  <2>1. minute + 1 \in Nat /\ minute + 1 >= 2
    BY <1>1 DEF MinutesTypeOK
  <2> QED BY <1>1, <2>1 DEF MinutesTypeOK
<1>3. CardHolds'
  BY <1>1 DEF CardHolds
<1>4. OpenHolds'
  BY <1>1 DEF OpenHolds
<1>5. SentHolds' <=> SentHolds
  BY <1>1 DEF SentHolds
<1> QED BY <1>1, <1>2, <1>3, <1>4, <1>5 DEF MinutesInv

\* The browser's save sets out with the buffer as it is.
LEMMA WebSendsStep ==
  ASSUME MinutesInv, WebSends
  PROVE  MinutesInv'
<1>1. /\ MinutesTypeOK /\ CardHolds /\ OpenHolds /\ opened = "yes" /\ Ahead
      /\ sending' = <<history_buffer, held>>
      /\ UNCHANGED <<minuteDisk, history_buffer, minutePlace, minuteFile, minute, split, held, kept,
                     harm>>
      /\ HistoryCurrentBlock' = HistoryCurrentBlock /\ HistoryCurrentPos' = HistoryCurrentPos
      /\ opened' = opened /\ zeroed' = zeroed /\ HistoryBlockCreating' = HistoryBlockCreating
  BY DEF MinutesInv, WebSends, minutePlace, minuteFile
<1>2. MinutesTypeOK'
  BY <1>1 DEF MinutesTypeOK
<1>3. CardHolds'
  BY <1>1 DEF CardHolds
<1>4. HistoryCurrentBlock < zeroed
  <2>1. HistoryCurrentBlock < LastBlock + 1
    BY <1>1, CardNumbers DEF MinutesTypeOK, BLOCKS
  <2> QED BY <1>1, <2>1 DEF Ahead, OpenHolds
<1>5. OpenHolds'
  BY <1>1, <1>4 DEF OpenHolds
<1>6. SentHolds'
  <2>1. PICK file, buf, c, k : /\ file = minuteDisk /\ buf = history_buffer
                               /\ c = HistoryCurrentBlock /\ k = HistoryCurrentPos
    OBVIOUS
  <2>2. /\ k \in 0 .. BlockSize /\ buf \in [OFFSETS -> Nat] /\ BlockSize \in Nat
        /\ AfterLineIn(file, buf, c, k)
        /\ LinesBelow([file EXCEPT ![c] = buf], held \union kept, c * BlockSize + k)
    BY <1>1, <2>1, CardNumbers DEF MinutesTypeOK, OpenHolds, MinuteText
  <2>3. HasPart(file, buf, c, k, k, buf)
    BY <2>2 DEF HasPart
  <2>4. sending'[1] = buf /\ sending'[2] = held
    BY <1>1, <2>1
  <2> QED BY <1>1, <2>1, <2>2, <2>3, <2>4 DEF SentHolds
<1> QED BY <1>2, <1>3, <1>5, <1>6 DEF MinutesInv

\* What arrives is the buffer of then up to a cut, and that of now behind it.
LEMMA WebSavedStep ==
  ASSUME MinutesInv, NEW cut \in 0 .. BlockSize, WebSaved(cut)
  PROVE  MinutesInv'
<1>1. /\ MinutesTypeOK /\ CardHolds /\ OpenHolds /\ SentHolds /\ sending # <<>> /\ opened = "yes"
  BY DEF MinutesInv, WebSaved, MinutesTypeOK
<1>2. PICK file, buf, c, k, z, had, mix :
        /\ file = minuteDisk /\ buf = history_buffer /\ z = zeroed
        /\ c = HistoryCurrentBlock /\ k = HistoryCurrentPos /\ had = sending[1]
        /\ mix = [j \in OFFSETS |-> IF j < cut THEN had[j] ELSE buf[j]]
  OBVIOUS
<1>3. /\ file \in Files /\ c \in BLOCKS /\ k \in 0 .. BlockSize /\ buf \in [OFFSETS -> Nat] /\ z \in Nat
  BY <1>1, <1>2 DEF MinutesTypeOK
<1>4. PICK q \in 0 .. BlockSize :
        /\ HasPart(file, buf, c, k, q, had)
        /\ LinesBelow([file EXCEPT ![c] = buf], sending[2] \union kept, c * BlockSize + q)
  BY <1>1, <1>2 DEF SentHolds
<1>5. HasPart(file, buf, c, k, q, mix)
  <2>1. /\ q \in 0 .. k /\ (k = BlockSize => q = BlockSize) /\ AfterLineIn(file, buf, c, q)
        /\ had \in [OFFSETS -> Nat] /\ \A j \in OFFSETS : j < q => had[j] = buf[j]
    BY <1>4 DEF HasPart
  <2>2. mix \in [OFFSETS -> Nat] /\ \A j \in OFFSETS : j < q => mix[j] = buf[j]
    BY <1>2, <1>3, <2>1
  <2> QED BY <2>1, <2>2 DEF HasPart
<1>6. /\ MinuteText(file, buf, c, k, z, held \union kept) /\ BlocksLined(file, z) /\ c < z
  BY <1>1, <1>2 DEF OpenHolds, CardHolds
<1>7. PICK file2, sent : file2 = [file EXCEPT ![c] = mix] /\ sent = sending[2] \union kept
  OBVIOUS
<1>8. /\ minuteDisk' = file2 /\ kept' = sent /\ sending' = <<>>
      /\ UNCHANGED <<history_buffer, minutePlace, minuteFile, minute, split, held, harm>>
      /\ HistoryCurrentBlock' = HistoryCurrentBlock /\ HistoryCurrentPos' = HistoryCurrentPos
      /\ opened' = opened /\ zeroed' = zeroed /\ HistoryBlockCreating' = HistoryBlockCreating
  <2>1. minuteDisk' = file2
    BY <1>2, <1>7 DEF WebSaved
  <2>2. kept' = sent
    BY <1>7 DEF WebSaved
  <2> QED BY <2>1, <2>2 DEF WebSaved, minutePlace, minuteFile
<1>9. /\ BlocksLined(file2, z) /\ \E e \in BLOCKS : EndsIn(file2, e, z)
      /\ LinesBelow(file2, sent, z * BlockSize)
      /\ MinuteText(file2, buf, c, k, z, (held \union kept) \union sent)
  BY <1>3, <1>4, <1>5, <1>6, <1>7, WebWrites
<1>10. file2 \in Files
  <2>1. mix \in [OFFSETS -> Nat]
    BY <1>5 DEF HasPart
  <2> QED BY <1>3, <1>7, <2>1, StillFile
<1>11. MinutesTypeOK'
  BY <1>1, <1>8, <1>10 DEF MinutesTypeOK
<1>12. CardHolds'
  BY <1>2, <1>8, <1>9 DEF CardHolds
<1>13. OpenHolds'
  <2>1. held' \union kept' = (held \union kept) \union sent
    BY <1>7, <1>8
  <2> QED BY <1>1, <1>2, <1>8, <1>9, <2>1 DEF OpenHolds
<1> QED BY <1>8, <1>11, <1>12, <1>13 DEF MinutesInv

\* The browser's save fails.
LEMMA WebSaveFailsStep ==
  ASSUME MinutesInv, WebSaveFails
  PROVE  MinutesInv'
<1>1. /\ MinutesTypeOK /\ CardHolds /\ OpenHolds /\ opened = "yes" /\ sending' = <<>>
      /\ UNCHANGED <<minuteDisk, history_buffer, minutePlace, minuteFile, minute, split, held, kept,
                     harm>>
      /\ HistoryCurrentBlock' = HistoryCurrentBlock /\ HistoryCurrentPos' = HistoryCurrentPos
      /\ opened' = opened /\ zeroed' = zeroed /\ HistoryBlockCreating' = HistoryBlockCreating
  BY DEF MinutesInv, MinutesTypeOK, WebSaveFails, minutePlace, minuteFile
<1>2. MinutesTypeOK'
  BY <1>1 DEF MinutesTypeOK
<1>3. CardHolds' /\ OpenHolds'
  BY <1>1 DEF CardHolds, OpenHolds
<1> QED BY <1>1, <1>2, <1>3 DEF MinutesInv

\* The power fails: the buffer is lost, the card stays.
LEMMA PowerCutStep ==
  ASSUME MinutesInv, PowerCut
  PROVE  MinutesInv'
<1>1. /\ MinutesTypeOK /\ CardHolds /\ history_buffer' = Blank
      /\ HistoryCurrentBlock' = 0 /\ HistoryCurrentPos' = 0
      /\ opened' = "no" /\ HistoryBlockCreating' = FALSE
      /\ split' = 0 /\ sending' = <<>> /\ held' = {}
      /\ UNCHANGED <<minuteDisk, zeroed, minute, kept, harm>>
  BY DEF MinutesInv, PowerCut
<1>2. Blank \in [OFFSETS -> Nat] /\ 0 \in BLOCKS /\ 0 \in 0 .. BlockSize
  BY CardNumbers DEF Blank, NUL, BLOCKS
<1>3. MinutesTypeOK'
  BY <1>1, <1>2 DEF MinutesTypeOK
<1>4. CardHolds'
  BY <1>1 DEF CardHolds
<1> QED BY <1>1, <1>3, <1>4 DEF MinutesInv

LEMMA MinutesIdleStep ==
  ASSUME MinutesInv, UNCHANGED minuteVars
  PROVE  MinutesInv'
<1>1. /\ UNCHANGED <<minuteDisk, history_buffer, minutePlace, minuteFile, minute, split, sending, held,
                     kept, harm>>
      /\ HistoryCurrentBlock' = HistoryCurrentBlock /\ HistoryCurrentPos' = HistoryCurrentPos
      /\ opened' = opened /\ zeroed' = zeroed /\ HistoryBlockCreating' = HistoryBlockCreating
  BY DEF minuteVars, minutePlace, minuteFile
<1>2. (MinutesTypeOK' <=> MinutesTypeOK) /\ (CardHolds' <=> CardHolds)
  BY <1>1 DEF MinutesTypeOK, CardHolds
<1>3. (OpenHolds' <=> OpenHolds) /\ (SentHolds' <=> SentHolds)
  BY <1>1 DEF OpenHolds, SentHolds
<1> QED BY <1>1, <1>2, <1>3 DEF MinutesInv

\* Every step keeps the invariant, or is the one that harms the file.
LEMMA MinutesSafeStep == MinutesSafe /\ [MinutesNext]_minuteVars => MinutesSafe'
<1> SUFFICES ASSUME MinutesSafe, [MinutesNext]_minuteVars, harm' = {} PROVE MinutesInv'
  BY DEF MinutesSafe
<1>1. harm = {}
  <2>1. CASE MinutesNext
    BY <2>1 DEF MinutesNext, CreatesFile, ZeroesBlock, ZeroFails, Opens, PutsMinute, SavesBlock,
       SavesNothing, GivesMinuteUp, WebSends, WebSaved, WebSaveFails, PowerCut
  <2>2. CASE UNCHANGED minuteVars
    BY <2>2 DEF minuteVars
  <2> QED BY <2>1, <2>2
<1>2. MinutesInv
  BY <1>1 DEF MinutesSafe
<1>3. CASE CreatesFile
  BY <1>2, <1>3, CreatesFileStep
<1>4. CASE ZeroesBlock
  BY <1>2, <1>4, ZeroesBlockStep
<1>5. CASE ZeroFails
  BY <1>2, <1>5, ZeroFailsStep
<1>6. CASE Opens
  BY <1>2, <1>6, OpensStep
<1>7. ASSUME NEW len \in Lengths, PutsMinute(len) PROVE MinutesInv'
  BY <1>2, <1>7, PutsMinuteStep
<1>8. CASE SavesBlock
  BY <1>2, <1>8, SavesBlockStep
<1>9. CASE SavesNothing
  BY <1>2, <1>9, SavesNothingStep
<1>10. CASE GivesMinuteUp
  BY <1>2, <1>10, GivesMinuteUpStep
<1>11. CASE WebSends
  BY <1>2, <1>11, WebSendsStep
<1>12. ASSUME NEW cut \in 0 .. BlockSize, WebSaved(cut) PROVE MinutesInv'
  BY <1>2, <1>12, WebSavedStep
<1>13. CASE WebSaveFails
  BY <1>2, <1>13, WebSaveFailsStep
<1>14. CASE PowerCut
  BY <1>2, <1>14, PowerCutStep
<1>15. CASE UNCHANGED minuteVars
  BY <1>2, <1>15, MinutesIdleStep
<1> QED BY <1>3, <1>4, <1>5, <1>6, <1>7, <1>8, <1>9, <1>10, <1>11, <1>12, <1>13, <1>14, <1>15
    DEF MinutesNext

\* A minute that a save was to write is in the file for good, whatever the browser saves
\* while vService fills the buffer, and wherever the power fails.
THEOREM MinutesAreKept == MinutesSpec => []MinutesKept
<1>1. MinutesSafe => MinutesKept
  <2> SUFFICES ASSUME MinutesSafe, harm = {}, NEW l \in kept
               PROVE  \E i \in LineStarts(minuteDisk) : HasLine(minuteDisk, i, l[1], l[2])
    BY DEF MinutesKept
  <2>1. PICK n, len, m : n = l[1] /\ len = l[2] /\ m = zeroed * BlockSize
    OBVIOUS
  <2>2. /\ zeroed \in Nat /\ zeroed <= LastBlock + 1
        /\ LinesBelow(minuteDisk, kept, zeroed * BlockSize)
    BY DEF MinutesSafe, MinutesInv, MinutesTypeOK, CardHolds
  <2>3. len \in Nat /\ len >= 2 /\ \E i \in Nat : LineAt(minuteDisk, i, n, len, m)
    BY <2>1, <2>2 DEF LinesBelow
  <2>4. m \in Nat /\ m <= FileEnd
    <3>1. LastBlock + 1 \in Nat
      BY CardNumbers
    <3>2. zeroed * BlockSize <= (LastBlock + 1) * BlockSize /\ zeroed * BlockSize \in Nat
      BY <2>2, <3>1, Multiples
    <3> QED BY <2>1, <3>2 DEF FileEnd
  <2>5. \E i \in LineStarts(minuteDisk) : HasLine(minuteDisk, i, n, len)
    BY <2>3, <2>4, LineIsThere
  <2> QED BY <2>1, <2>5
<1>2. MinutesInit => MinutesSafe
  BY MinutesInvInit DEF MinutesSafe
<1> QED BY <1>1, <1>2, MinutesSafeStep, PTL DEF MinutesSpec
=============================================================================
