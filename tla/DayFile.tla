------------------------------ MODULE DayFile ------------------------------
(***************************************************************************)
(* The statistics of the days on the SD card: one line per day.  Only the  *)
(* block that is being filled is in memory.  After a start the end of the  *)
(* text is searched for, and the line of today is taken up again.          *)
(***************************************************************************)
EXTENDS CardFile, FiniteSets

CONSTANTS MaxDay        \* bound of this model on the days, which begin with 2

ASSUME DaysBounded == MaxDay \in Nat

StatsSaver == {"vReadSensor", "web"}

VARIABLES
  disk,         \* the file of this year
  stats_buffer, \* stats_buffer
  CurrentBlock, \* CurrentBlock
  CurrentPos,   \* CurrentPos
  day,          \* the day of the statistics that are being collected
  today,        \* the day by the clock
  save,         \* per task: its place in SaveStats, its len
  semaphore,    \* xWebThreadSemaphore: does a save have it?
  closed,       \* history: days that were saved as finished
  marred        \* history: what went wrong

position == <<CurrentBlock, CurrentPos>>
fileVars == <<disk, stats_buffer, position, day, today, save, semaphore, closed, marred>>

NotSaving == [at |-> "idle", len |-> 2]

FileInit ==
  /\ disk = NewFile /\ stats_buffer = Blank
  /\ CurrentBlock = 0 /\ CurrentPos = 0
  /\ day = 2 /\ today = 2
  /\ save = [u \in StatsSaver |-> NotSaving] /\ semaphore = FALSE
  /\ closed = {} /\ marred = {}
-----------------------------------------------------------------------------
(* SaveStats: of vReadSensor for a new day (newday = 2), and from the browser    *)
(* (newday = 1), which has the semaphore                                         *)

SaveStops(u) == save' = [save EXCEPT ![u] = NotSaving]
Spoils(name, on) == marred' = IF on THEN marred \union {name} ELSE marred

\* How much of the line the next block has from an earlier save.
Spilled == IF CurrentBlock = LastBlock \/ disk[CurrentBlock + 1][0] = NUL THEN 0
           ELSE Cardinality({k \in OFFSETS : disk[CurrentBlock + 1][k] # NUL})

PutsLine(u, len) ==
  /\ save[u].at = "idle" /\ ~semaphore
  /\ u = "vReadSensor" => today # day
  /\ semaphore' = TRUE
  /\ save' = [save EXCEPT ![u] = [at |-> "write", len |-> len]]
  /\ stats_buffer' = WithLine(stats_buffer, CurrentPos, Line(day, len))
  /\ Spoils("shorter", Spilled > 0 /\ CurrentPos + len < BlockSize + Spilled)
  /\ UNCHANGED <<disk, position, day, today, closed>>

\* vReadSensor puts its line into the buffer before it asks for the semaphore,
\* which a save from the browser may have, or the network; it does not wait.
PutsInVain(len) ==
  /\ save["vReadSensor"].at = "idle" /\ today # day
  /\ stats_buffer' = WithLine(stats_buffer, CurrentPos, Line(day, len))
  /\ Spoils("mixed", save["web"].at # "idle")
  /\ UNCHANGED <<disk, position, day, today, save, semaphore, closed>>

\* A new day begins: the line that was written is the last one of its day.
Closes(u) ==
  /\ day' = IF u = "web" THEN day ELSE today
  /\ closed' = IF u = "web" THEN closed ELSE closed \union {<<day, save[u].len>>}

WritesWhole(u) ==
  /\ save[u].at = "write" /\ Fits(CurrentPos, save[u].len)
  /\ disk' = [disk EXCEPT ![CurrentBlock] = stats_buffer]
  /\ CurrentPos' = IF u = "web" THEN CurrentPos ELSE CurrentPos + save[u].len
  /\ Closes(u)
  /\ semaphore' = FALSE /\ SaveStops(u)
  /\ UNCHANGED <<stats_buffer, CurrentBlock, today, marred>>

WritesFirst(u) ==
  /\ save[u].at = "write" /\ ~Fits(CurrentPos, save[u].len)
  /\ disk' = [disk EXCEPT ![CurrentBlock] = stats_buffer]
  /\ IF CurrentBlock < LastBlock
     THEN /\ stats_buffer' = Rest(CurrentPos, save[u].len, Line(day, save[u].len))
          /\ save' = [save EXCEPT ![u].at = "write2"] /\ semaphore' = semaphore
     ELSE SaveStops(u) /\ semaphore' = FALSE /\ UNCHANGED stats_buffer
  /\ UNCHANGED <<position, day, today, closed, marred>>

\* The block that is still being filled, after a save from the browser.
BrokenReadBack == stats_buffer
ReadBack == disk[CurrentBlock]

WritesSecond(u) ==
  /\ save[u].at = "write2"
  /\ disk' = [disk EXCEPT ![CurrentBlock + 1] = stats_buffer]
  /\ IF u = "web" THEN stats_buffer' = ReadBack /\ UNCHANGED position
     ELSE /\ CurrentBlock' = CurrentBlock + 1
          /\ CurrentPos' = RestLen(CurrentPos, save[u].len)
          /\ UNCHANGED stats_buffer
  /\ Closes(u)
  /\ semaphore' = FALSE /\ SaveStops(u)
  /\ UNCHANGED <<today, marred>>

RereadFails ==
  /\ CardFails /\ save["web"].at = "write2"
  /\ disk' = [disk EXCEPT ![CurrentBlock + 1] = stats_buffer]
  /\ Spoils("buffer", TRUE)
  /\ semaphore' = FALSE /\ SaveStops("web")
  /\ UNCHANGED <<stats_buffer, position, day, today, closed>>

\* After a failure of the second write the buffer keeps what was meant for the
\* next block, and the position is that of the first.
SaveStatsFails(u) ==
  /\ CardFails /\ save[u].at \in {"write", "write2"}
  /\ Spoils("buffer", save[u].at = "write2")
  /\ semaphore' = FALSE /\ SaveStops(u)
  /\ UNCHANGED <<disk, stats_buffer, position, day, today, closed>>
-----------------------------------------------------------------------------
NextDay == /\ today < MaxDay
           /\ today' = today + 1
           /\ UNCHANGED <<disk, stats_buffer, position, day, save, semaphore, closed, marred>>

\* Where the last line before position p is looked for: read backwards byte by
\* byte, to the end of the line before it or to place 0 (pos in Init).
LastLine(p) ==
  LET ends == {i \in 1 .. p : i + 2 <= p /\ ByteAt(disk, i) = NL}
  IN IF ends = {} THEN 0 ELSE Newest(ends) + 1

\* Where its record is read then.  The byte read last has moved the file on to the
\* place behind it, and nothing seeks back: at place 0 that is one byte too far.
ReadFrom(start) == IF start = 0 THEN 1 ELSE start

\* The date that a record read from place i begins with; inside of a date is none.
DateAt(i) == IF ByteAt(disk, i - 1) = NL THEN ByteAt(disk, i) ELSE NUL

BrokenIsToday(start) == FALSE                                      \* LaterDayOnce
IsToday(start) == DateAt(ReadFrom(start)) = today

\* The power fails, and the program starts (Init).  With a full file it would go
\* on without saving.
Restart ==
  /\ EndPosition(disk) # <<>>
  /\ LET end == Flat(EndPosition(disk))
         start == LastLine(end)
         p == IF end > 1 /\ IsToday(start) THEN <<start \div BlockSize, start % BlockSize>>
              ELSE EndPosition(disk)
     IN /\ CurrentBlock' = p[1] /\ CurrentPos' = p[2]
        /\ stats_buffer' = disk[p[1]]
  /\ day' = today
  /\ save' = [u \in StatsSaver |-> NotSaving] /\ semaphore' = FALSE
  /\ UNCHANGED <<disk, today, closed, marred>>

FileNext ==
  \/ \E u \in StatsSaver :
       \/ \E len \in Lengths : PutsLine(u, len)
       \/ WritesWhole(u) \/ WritesFirst(u) \/ WritesSecond(u) \/ SaveStatsFails(u)
  \/ \E len \in Lengths : PutsInVain(len)
  \/ RereadFails \/ NextDay \/ Restart

FileSpec == FileInit /\ [][FileNext]_fileVars
-----------------------------------------------------------------------------
\* The search finds the end of the last line that is whole, whatever the card has
\* when the power fails: a line of which only the first block was written, too.
EndIsFound == marred = {} /\ EndPosition(disk) # <<>> =>
  Flat(EndPosition(disk)) = EndOfText(disk)

\* The line of a day that was saved as finished stays in the file, whole and in a
\* line of its own, whatever is saved after it and wherever the power fails; as
\* long as no line got shorter than what the next block has of it, vReadSensor did
\* not write into the buffer of another's save and no second write failed.
DaysKept == marred = {} =>
  \A c \in closed : \E i \in LineStarts(disk) : HasLine(disk, i, c[1], c[2])

OneLineEach(starts) == \A i, j \in starts : i # j => ByteAt(disk, i) # ByteAt(disk, j)

\* No day has two lines: after a restart the line of today is taken up again.  The
\* code does not keep to it.
DayOnce == marred = {} => OneLineEach(LineStarts(disk) \ {TextEnd(disk)})

\* Behind the file's first line no day has two: a restart takes up the line of today,
\* which a save from the browser or one of before a midnight left, even when the first
\* line is of the same day or a line behind it was cut.
LaterDayOnce == marred = {} => OneLineEach(LineStarts(disk) \ {0, TextEnd(disk)})
=============================================================================
