----------------------------- MODULE MinuteFile -----------------------------
(***************************************************************************)
(* The history on the SD card: one line per minute.  Lines are collected   *)
(* in history_buffer and written when it is full or from the browser.  The *)
(* file is created block by block, so the power may fail before the last   *)
(* block is zeroed.  One year; its end is left out.                        *)
(***************************************************************************)
EXTENDS CardFile

CONSTANTS MaxMinute     \* bound of this model on the minutes, which begin with 2

ASSUME MinutesBounded == MaxMinute \in Nat

VARIABLES
  minuteDisk,           \* the file of this year
  history_buffer,       \* history_buffer
  HistoryCurrentBlock,  \* HistoryCurrentBlock
  HistoryCurrentPos,    \* HistoryCurrentPos
  opened,               \* "no": HistoryCurrentBlock is 0; "yes"; "off": fHistory is 0
  zeroed,               \* blocks of the file that are zeroed; 0: there is no file
  HistoryBlockCreating, \* does vService create the file? (HistoryBlockCreating # 0)
  minute,               \* the next minute
  split,                \* length of the line that waits for its block to be saved, or 0
  sending,              \* the buffer, and its lines, that the browser's save sends, or <<>>
  held,                 \* history: the lines that History put into the buffer
  kept,                 \* history: the lines that a save was to write
  harm                  \* history: what went wrong

minutePlace == <<HistoryCurrentBlock, HistoryCurrentPos>>
minuteFile == <<opened, zeroed, HistoryBlockCreating>>
minuteVars == <<minuteDisk, history_buffer, minutePlace, minuteFile, minute, split,
                sending, held, kept, harm>>

\* What the card had where the file is now.
Rubbish == MaxMinute + 1
Unmade == [b \in BLOCKS |-> [k \in OFFSETS |-> Rubbish]]

MinutesInit ==
  /\ minuteDisk = Unmade /\ history_buffer = Blank
  /\ HistoryCurrentBlock = 0 /\ HistoryCurrentPos = 0
  /\ opened = "no" /\ zeroed = 0 /\ HistoryBlockCreating = FALSE
  /\ minute = 2 /\ split = 0 /\ sending = <<>>
  /\ held = {} /\ kept = {} /\ harm = {}
-----------------------------------------------------------------------------
(* CheckCreateNewFile of vService: a file that does not exist is created, in     *)
(* parts with pauses; one that exists is searched for its end                    *)

CreatesFile ==
  /\ opened = "no" /\ zeroed = 0 /\ split = 0
  /\ opened' = "yes" /\ zeroed' = 1 /\ HistoryBlockCreating' = TRUE
  /\ minuteDisk' = [minuteDisk EXCEPT ![0] = Blank]
  /\ HistoryCurrentBlock' = 0 /\ HistoryCurrentPos' = 0 /\ held' = {}
  /\ UNCHANGED <<history_buffer, minute, split, sending, kept, harm>>

ZeroesBlock ==
  /\ opened = "yes" /\ HistoryBlockCreating /\ split = 0 /\ sending = <<>>
  /\ minuteDisk' = [minuteDisk EXCEPT ![zeroed] = Blank]
  /\ zeroed' = zeroed + 1 /\ HistoryBlockCreating' = (zeroed < LastBlock)
  /\ UNCHANGED <<history_buffer, minutePlace, opened, minute, split, sending, held, kept,
                 harm>>

\* The option to save the history is switched off.
ZeroFails == /\ CardFails /\ HistoryBlockCreating /\ split = 0 /\ sending = <<>>
             /\ opened' = "off" /\ HistoryBlockCreating' = FALSE
             /\ UNCHANGED <<minuteDisk, history_buffer, minutePlace, zeroed, minute, split,
                            sending, held, kept, harm>>

BrokenReread(b) == Blank
Reread(b) == minuteDisk[b]

Opens ==
  /\ opened = "no" /\ zeroed > 0 /\ split = 0
  /\ LET end == EndPosition(minuteDisk)
     IN IF end = <<>> THEN opened' = "off" /\ UNCHANGED <<history_buffer, minutePlace>>
        ELSE /\ opened' = "yes"
             /\ HistoryCurrentBlock' = end[1] /\ HistoryCurrentPos' = end[2]
             /\ history_buffer' = Reread(end[1])
  /\ harm' = IF zeroed <= LastBlock THEN harm \union {"unmade"} ELSE harm
  /\ held' = {}
  /\ UNCHANGED <<minuteDisk, zeroed, HistoryBlockCreating, minute, split, sending, kept>>
-----------------------------------------------------------------------------
(* History of vService: a line goes into the buffer; if it does not fit, the     *)
(* block is saved first, and the rest goes into the next one                     *)

\* Creating is ahead of the lines: up to 512 blocks a second, one line a minute.
Ahead == HistoryBlockCreating => HistoryCurrentBlock < zeroed

PutsMinute(len) ==
  /\ opened # "off" /\ split = 0 /\ minute <= MaxMinute /\ Ahead
  /\ history_buffer' = WithLine(history_buffer, HistoryCurrentPos, Line(minute, len))
  /\ IF Fits(HistoryCurrentPos, len)
     THEN /\ HistoryCurrentPos' = HistoryCurrentPos + len
          /\ held' = held \union {<<minute, len>>}
          /\ minute' = minute + 1 /\ split' = 0
     ELSE split' = len /\ UNCHANGED <<HistoryCurrentPos, held, minute>>
  /\ UNCHANGED <<minuteDisk, HistoryCurrentBlock, minuteFile, sending, kept, harm>>

\* Behind the last block there is none: it is filled again from its beginning.
\* Before the file is open nothing is written.
NextBlock(on) ==
  /\ HistoryCurrentBlock' = IF on THEN HistoryCurrentBlock + 1 ELSE HistoryCurrentBlock
  /\ history_buffer' = Rest(HistoryCurrentPos, split, Line(minute, split))
  /\ HistoryCurrentPos' = RestLen(HistoryCurrentPos, split)
  /\ held' = held \union {<<minute, split>>}
  /\ minute' = minute + 1 /\ split' = 0

SavesBlock ==
  /\ split > 0 /\ opened = "yes" /\ sending = <<>>
  /\ minuteDisk' = [minuteDisk EXCEPT ![HistoryCurrentBlock] = history_buffer]
  /\ kept' = kept \union held
  /\ harm' = IF HistoryCurrentBlock = LastBlock THEN harm \union {"full"} ELSE harm
  /\ NextBlock(HistoryCurrentBlock < LastBlock)
  /\ UNCHANGED <<minuteFile, sending>>

SavesNothing == /\ split > 0 /\ opened = "no"
                /\ NextBlock(FALSE)
                /\ UNCHANGED <<minuteDisk, minuteFile, sending, kept, harm>>

\* The browser or the network has the semaphore for too long, or the card fails:
\* the next minute writes over this one.
GivesMinuteUp ==
  /\ split > 0 /\ opened = "yes" /\ (CardFails \/ sending # <<>>)
  /\ minute' = minute + 1 /\ split' = 0
  /\ UNCHANGED <<minuteDisk, history_buffer, minutePlace, minuteFile, sending, held,
                 kept, harm>>
-----------------------------------------------------------------------------
(* SaveHistory from the browser; vService may put a line into the buffer while   *)
(* it goes to the card                                                           *)

WebSends == /\ opened = "yes" /\ sending = <<>> /\ Ahead
            /\ sending' = <<history_buffer, held>>
            /\ UNCHANGED <<minuteDisk, history_buffer, minutePlace, minuteFile, minute,
                           split, held, kept, harm>>

WebSaved(cut) ==
  /\ sending # <<>>
  /\ minuteDisk' = [minuteDisk EXCEPT ![HistoryCurrentBlock] =
                      [k \in OFFSETS |-> IF k < cut THEN sending[1][k] ELSE history_buffer[k]]]
  /\ kept' = kept \union sending[2]
  /\ sending' = <<>>
  /\ UNCHANGED <<history_buffer, minutePlace, minuteFile, minute, split, held, harm>>

WebSaveFails == /\ CardFails /\ sending # <<>>
                /\ sending' = <<>>
                /\ UNCHANGED <<minuteDisk, history_buffer, minutePlace, minuteFile, minute,
                               split, held, kept, harm>>

\* The power fails, and the program starts.
PowerCut ==
  /\ history_buffer' = Blank
  /\ HistoryCurrentBlock' = 0 /\ HistoryCurrentPos' = 0
  /\ opened' = "no" /\ HistoryBlockCreating' = FALSE
  /\ split' = 0 /\ sending' = <<>> /\ held' = {}
  /\ UNCHANGED <<minuteDisk, zeroed, minute, kept, harm>>

MinutesNext ==
  \/ CreatesFile \/ ZeroesBlock \/ ZeroFails \/ Opens
  \/ \E len \in Lengths : PutsMinute(len)
  \/ SavesBlock \/ SavesNothing \/ GivesMinuteUp
  \/ WebSends \/ (\E cut \in 0 .. BlockSize : WebSaved(cut)) \/ WebSaveFails
  \/ PowerCut

MinutesSpec == MinutesInit /\ [][MinutesNext]_minuteVars
-----------------------------------------------------------------------------
\* A line that was in the buffer at a save that succeeded stays in the file, whole
\* and in a line of its own, whatever comes after it: a save of the browser into
\* which vService writes, a block that is not saved, a failure of the power; as long
\* as the file is not full and was created to its end before it was opened again.
MinutesKept == harm = {} =>
  \A l \in kept : \E i \in LineStarts(minuteDisk) : HasLine(minuteDisk, i, l[1], l[2])
=============================================================================
