------------------------------ MODULE CardFile ------------------------------
(***************************************************************************)
(* The files of class Statistics on the SD card: zeroed blocks that fill   *)
(* with lines of text, and the search for the end of the text after a      *)
(* start (FindEndPosition).  A file is a function from blocks to functions *)
(* from offsets to bytes.  A byte is NUL, NL, or a character of a line,    *)
(* which is the number of the line.                                        *)
(***************************************************************************)
EXTENDS Naturals

CONSTANTS BlockSize,    \* SD_BLOCK
          LastBlock,    \* BlockEnd, with BlockStart = 0
          Lengths,      \* lengths of a line, with its NL
          CardFails     \* may writes to the card fail?

ASSUME CardBlocks == {BlockSize, LastBlock} \subseteq Nat \ {0} /\ CardFails \in BOOLEAN
ASSUME LineFits == Lengths \subseteq 2 .. BlockSize

NUL == 0
NL == 1
BLOCKS == 0 .. LastBlock
OFFSETS == 0 .. BlockSize - 1
Blank == [k \in OFFSETS |-> NUL]
NewFile == [b \in BLOCKS |-> Blank]

Newest(S) == CHOOSE i \in S : \A j \in S : j <= i
Oldest(S) == CHOOSE i \in S : \A j \in S : i <= j

\* Line n with the NUL that ends it, and a block that has it from offset pos.
Line(n, len) == [k \in 0 .. len |-> IF k = len THEN NUL ELSE IF k = len - 1 THEN NL ELSE n]
WithLine(block, pos, line) == [k \in OFFSETS |->
  IF k >= pos /\ k - pos \in DOMAIN line THEN line[k - pos] ELSE block[k]]

\* How much of it the block takes (lensav), and the next block with the rest, of
\* which the NUL is not counted.
Saved(pos, len) == IF BlockSize - pos < len + 1 THEN BlockSize - pos ELSE len + 1
Fits(pos, len) == Saved(pos, len) = len + 1
Rest(pos, len, line) == [k \in OFFSETS |->
  IF Saved(pos, len) + k <= len THEN line[Saved(pos, len) + k] ELSE NUL]
RestLen(pos, len) == len - Saved(pos, len)
-----------------------------------------------------------------------------
\* A search by halves for the block in which the text ends.  In a window bst .. bend
\* of blocks it finds <<>> (the file is full) or the block and the place of its
\* first NUL.
Windows == {w \in BLOCKS \X BLOCKS : w[1] <= w[2]}
Nuls(file, b) == {k \in OFFSETS : file[b][k] = NUL}

Halves(file) ==
  LET half[w \in Windows] ==
        LET cur == w[1] + (w[2] - w[1]) \div 2
        IN CASE file[cur][0] # NUL /\ Nuls(file, cur) # {} -> <<cur, Oldest(Nuls(file, cur))>>
             [] file[cur][0] # NUL /\ Nuls(file, cur) = {} ->
                  IF cur < w[2] THEN half[<<cur + 1, w[2]>>]
                  ELSE IF w[2] < LastBlock THEN half[<<cur + 1, w[2] + 1>>] ELSE <<>>
             [] file[cur][0] = NUL /\ cur = w[1] -> <<cur, 0>>
             [] OTHER -> half[<<w[1], cur - 1>>]
  IN half

BlockOfEnd(file) == Halves(file)[<<0, LastBlock>>]

\* Back over a line that was cut, into the block before it if need be.
BrokenAfterLine(file, b, k) == <<b, k>>
LineEnds(file, c, m) == {i \in OFFSETS : i < m /\ file[c][i] = NL}

BackFrom(file, b, k) ==
  LET back[c \in BLOCKS] ==
        LET ends == LineEnds(file, c, IF c = b THEN k ELSE BlockSize)
        IN IF ends # {} THEN <<c, Newest(ends) + 1>>
           ELSE IF c > 0 THEN back[c - 1] ELSE <<0, 0>>
  IN back

AfterLine(file, b, k) == BackFrom(file, b, k)[b]

EndPosition(file) ==
  LET found == BlockOfEnd(file)
  IN IF found = <<>> THEN <<>> ELSE AfterLine(file, found[1], found[2])
-----------------------------------------------------------------------------
(* What a reader of a file finds: the text up to the first NUL *)

Flat(p) == p[1] * BlockSize + p[2]
ByteAt(file, i) == file[i \div BlockSize][i % BlockSize]
FileEnd == (LastBlock + 1) * BlockSize

TextEnd(file) == Oldest({i \in 0 .. FileEnd : i = FileEnd \/ ByteAt(file, i) = NUL})
LineStarts(file) == {i \in 0 .. TextEnd(file) : i = 0 \/ ByteAt(file, i - 1) = NL}
HasLine(file, i, n, len) ==
  /\ i + len <= TextEnd(file)
  /\ \A k \in 0 .. len - 1 : ByteAt(file, i + k) = Line(n, len)[k]

\* Where a reader sees the end of the last line that is whole.
EndOfText(file) == Newest(LineStarts(file))
=============================================================================
