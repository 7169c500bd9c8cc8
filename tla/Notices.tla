------------------------------ MODULE Notices ------------------------------
(***************************************************************************)
(* Class Message: one place for a notice, which any task fills with        *)
(* setMessage and vWeb0 sends with sendMessage.  Nothing is locked.  Mail  *)
(* is on and all kinds of notice are allowed.                              *)
(***************************************************************************)
CONSTANTS Notifier,     \* tasks that call setMessage
          Text,         \* texts of the notices of errors, set_Error's note_error
          NoText

LifeSign == "life"      \* a sign of life or a test; it may be sent again at once
ASSUME TextsDiffer == NoText \notin Text /\ LifeSign \notin Text \union {NoText}

VARIABLES
  notice,       \* messageData: type and text
  waitSend,     \* waitSend
  withinRepeat, \* less than REPEAT_TIME since sendTime
  young,        \* less than cDELAY_START_MESSAGE since the start
  setting,      \* per task: the text that it is about to store, of its type
  sender,       \* place of vWeb0 in sendMessage
  owed,         \* history: the text that was taken and not yet read for sending
  late          \* history: it came behind the one that was being sent

noticeVars == <<notice, waitSend, withinRepeat, young, setting, sender, owed, late>>

TypeOf(text) == IF text = LifeSign THEN LifeSign ELSE "error"

NoticesInit ==
  /\ notice = [type |-> "none", text |-> NoText]
  /\ waitSend = FALSE /\ withinRepeat = FALSE /\ young = TRUE
  /\ setting = [t \in Notifier |-> NoText] /\ sender = "idle"
  /\ owed = NoText /\ late = FALSE
-----------------------------------------------------------------------------
(* setMessage: one of the same type is a repetition *)

Repeats(text) == withinRepeat /\ notice.type = TypeOf(text) /\ text # LifeSign

\* It is refused: nothing changes.
Refuses(t, text) == /\ setting[t] = NoText /\ Repeats(text)
                    /\ UNCHANGED noticeVars

SetsType(t, text) ==
  /\ setting[t] = NoText /\ ~Repeats(text)
  /\ notice' = [notice EXCEPT !.type = TypeOf(text)]
  /\ withinRepeat' = TRUE
  /\ setting' = [setting EXCEPT ![t] = text]
  /\ UNCHANGED <<waitSend, young, sender, owed, late>>

SetsText(t) ==
  /\ setting[t] # NoText
  /\ notice' = [notice EXCEPT !.text = setting[t]]
  /\ waitSend' = TRUE
  /\ setting' = [setting EXCEPT ![t] = NoText]
  /\ owed' = setting[t] /\ late' = (sender = "end")
  /\ UNCHANGED <<withinRepeat, young, sender>>

\* REPEAT_TIME has passed, and cDELAY_START_MESSAGE.
TimePasses == /\ withinRepeat' = FALSE /\ young' = FALSE
              /\ UNCHANGED <<notice, waitSend, setting, sender, owed, late>>
-----------------------------------------------------------------------------
(* sendMessage *)

BrokenEarly == FALSE
Early == waitSend

NotYet == /\ sender = "idle" /\ waitSend /\ young
          /\ waitSend' = Early
          /\ UNCHANGED <<notice, withinRepeat, young, setting, sender, owed, late>>

SendBegins == /\ sender = "idle" /\ waitSend /\ ~young
              /\ sender' = "text"
              /\ UNCHANGED <<notice, waitSend, withinRepeat, young, setting, owed, late>>

\* The text goes out, or the server does not answer; it is not tried again.
SendsText == /\ sender = "text"
             /\ sender' = "end"
             /\ owed' = NoText
             /\ UNCHANGED <<notice, waitSend, withinRepeat, young, setting, late>>

SendEnds == /\ sender = "end"
            /\ sender' = "idle" /\ waitSend' = FALSE
            /\ UNCHANGED <<notice, withinRepeat, young, setting, owed, late>>

NoticesNext ==
  \/ \E t \in Notifier : \/ \E text \in Text \union {LifeSign} :
                              Refuses(t, text) \/ SetsType(t, text)
                         \/ SetsText(t)
  \/ TimePasses \/ NotYet \/ SendBegins \/ SendsText \/ SendEnds

NoticesSpec == NoticesInit /\ [][NoticesNext]_noticeVars
-----------------------------------------------------------------------------
\* A notice that was taken is sent, or is waiting, or was replaced; unless it
\* came when the sender had read the text and not yet ended.
NoticeIsSent == owed # NoText /\ ~late => waitSend
=============================================================================
