---------------------------- MODULE QuestionCard ----------------------------
(***************************************************************************)
(* A teacher's window on the lesson's question (question-card.tsx,         *)
(* useLiveQuestion; live-question.ts): what its card holds, from its reads *)
(* of the session, its stream and its own asks and closes, and the poll of *)
(* the question's results.  The teacher has other windows too, of which    *)
(* only what they have the server do is seen here.                         *)
(*                                                                         *)
(* A request stays in asks or closes until the server takes it up; one     *)
(* whose window has stopped waiting (live is FALSE) may be taken up much   *)
(* later, or never.                                                        *)
(***************************************************************************)
EXTENDS Lesson

CONSTANTS Drafts, MaxActs    \* bound: what people do

VARIABLES
    acts,        \* history: how much people have done
    up,          \* the window's grid has not heard of the lesson's end
    heard,       \* how much of the log its stream has brought
    card,        \* the question held, or NoCard
    newest,      \* the newest question shown
    reading,     \* its read of the session
    poll,        \* its poll of the results of the question held
    presses,     \* history: its asks, and which had a question for an answer
    unanswered,  \* unansweredOpen: the press to send again
    asking,      \* its ask on its way, and the answer come
    asks,        \* asks the server has yet to take up
    closing,     \* its close on its way, and the answer come
    closes       \* closes the server has yet to take up

window == <<up, heard, card, newest, reading, poll, presses, unanswered,
            asking, asks, closing, closes>>
sends == <<presses, unanswered, asking, asks, closing, closes>>

Idle == [state |-> "idle", answer |-> NoCard]
NoPress == 0
NoResults == [open |-> TRUE, recorded |-> FALSE, counted |-> NoAnswer]
NewPoll == [state |-> "idle", known |-> FALSE, late |-> FALSE, row |-> NoResults,
            results |-> NoResults, final |-> FALSE]

CardInit(open) ==
    /\ acts = 0 /\ up = open /\ heard = 0
    /\ card = NoCard /\ newest = NoQuestion
    /\ reading = [state |-> IF open THEN "out" ELSE "idle", again |-> FALSE, question |-> NoCard]
    /\ poll = NewPoll
    /\ presses = <<>> /\ unanswered = NoPress
    /\ asking = Idle /\ asks = {}
    /\ closing = Idle /\ closes = {}

Act == acts < MaxActs /\ acts' = acts + 1

-----------------------------------------------------------------------------
(* What the card shows. *)

isOpen == card.open /\ poll.results.open

(* put: a new question is polled afresh, one closed now polled once more. *)
put(question) ==
    /\ card' = question
    /\ newest' = Larger(newest, question.q)
    /\ poll' = IF question.q # card.q THEN NewPoll
               ELSE IF card.open /\ ~question.open THEN [poll EXCEPT !.known = TRUE]
               ELSE poll
Keep == UNCHANGED <<card, newest, poll>>

-----------------------------------------------------------------------------
(* Its reads of the session, one at a time. *)

read_Once ==
    reading' = IF reading.state = "idle" THEN [reading EXCEPT !.state = "out"] ELSE reading
read ==
    reading' = IF reading.state = "idle" THEN [reading EXCEPT !.state = "out"]
               ELSE [reading EXCEPT !.again = TRUE]

ReadServed ==
    /\ up /\ reading.state = "out"
    /\ reading' = [reading EXCEPT !.state = "served", !.question = SnapshotQuestion]
    /\ UNCHANGED <<acts, up, heard, card, newest, poll, sends, server>>

ReadTaken ==
    /\ up /\ reading.state = "served"
    /\ IF reading.question.q > newest THEN put(reading.question) ELSE Keep
    /\ reading' = [state |-> IF reading.again THEN "out" ELSE "idle",
                   again |-> FALSE, question |-> NoCard]
    /\ UNCHANGED <<acts, up, heard, sends, server>>

-----------------------------------------------------------------------------
(* Its stream: questionAfter, and the grid's own end. *)

HearOpened(event) ==
    /\ event.type = "question_opened"
    /\ IF card.q = event.q THEN UNCHANGED reading ELSE read
    /\ Keep /\ UNCHANGED <<up, sends>>
HearClosed(event) ==
    /\ event.type = "question_closed"
    /\ IF card.open /\ card.q = event.q
       THEN put([card EXCEPT !.open = FALSE])
       ELSE Keep
    /\ UNCHANGED <<up, reading, sends>>
HearEnd(event) ==
    /\ event.type = "session_ended"
    /\ up' = FALSE
    /\ card' = NoCard /\ newest' = NoQuestion /\ poll' = NewPoll
    /\ reading' = [reading EXCEPT !.state = "idle", !.again = FALSE, !.question = NoCard]
    /\ asking' = Idle /\ closing' = Idle
    /\ asks' = {[r EXCEPT !.live = FALSE] : r \in asks}
    /\ closes' = {[r EXCEPT !.live = FALSE] : r \in closes}
    /\ UNCHANGED <<presses, unanswered>>

Hear ==
    /\ up /\ heard < Len(log)
    /\ heard' = heard + 1
    /\ LET event == log[heard + 1]
       IN  HearOpened(event) \/ HearClosed(event) \/ HearEnd(event)
    /\ UNCHANGED <<acts, server>>

-----------------------------------------------------------------------------
(* Its asks. *)

(* openAttemptFor: the words of the last press are sent again under its id  *)
(* while no answer to it came; the id of a press is its number.             *)
openAttemptFor_Fresh(draft) == Len(presses) + 1
openAttemptFor(draft) ==
    IF unanswered # NoPress /\ presses[unanswered].draft = draft
    THEN presses[unanswered].ev ELSE Len(presses) + 1

Ask(draft) ==
    /\ Act
    /\ up /\ asking.state = "idle"
    /\ LET ev == openAttemptFor(draft)
       IN  /\ presses' = Append(presses, [draft |-> draft, ev |-> ev, told |-> FALSE])
           /\ asks' = asks \cup {[ev |-> ev, at |-> now, live |-> TRUE]}
    /\ asking' = [Idle EXCEPT !.state = "out"]
    /\ UNCHANGED <<up, heard, card, newest, reading, poll, unanswered, closing, closes, server>>

AskServed(r) ==
    /\ asks' = asks \ {r}
    /\ \E at \in r.at .. now :
         \/ /\ openQuestion(r.ev, at)
            /\ asking' = IF ~r.live THEN asking
                         ELSE [state |-> "answered",
                               answer |-> teacherQuestion(CHOOSE q \in HeldAs(r.ev) : TRUE, at)']
         \/ /\ RefusesOpen(r.ev, at) /\ UNCHANGED server
            /\ asking' = IF r.live THEN [state |-> "answered", answer |-> NoCard] ELSE asking
    /\ UNCHANGED <<acts, up, heard, card, newest, reading, poll, presses, unanswered,
                   closing, closes>>

(* Answered: nothing is left to send again, whatever the answer says. *)
AskAnswered ==
    /\ asking.state = "answered"
    /\ unanswered' = NoPress
    /\ asking' = Idle
    /\ presses' = [presses EXCEPT ![Len(presses)].told = asking.answer.q # NoQuestion]
    /\ IF asking.answer.q # NoQuestion /\ asking.answer.q >= newest
       THEN put(asking.answer) ELSE Keep
    /\ UNCHANGED <<acts, up, heard, reading, asks, closing, closes, server>>

AskFails ==
    /\ asking.state # "idle"
    /\ unanswered' = Len(presses)
    /\ asking' = Idle
    /\ asks' = {[r EXCEPT !.live = FALSE] : r \in asks}
    /\ UNCHANGED <<acts, up, heard, card, newest, reading, poll, presses, closing, closes, server>>

-----------------------------------------------------------------------------
(* Its closes, and Done.  A close's own id settles nothing: a question is    *)
(* closed once.                                                              *)

Close ==
    /\ Act
    /\ up /\ isOpen /\ closing.state = "idle"
    /\ closes' = closes \cup {[q |-> card.q, at |-> now, live |-> TRUE]}
    /\ closing' = [state |-> "out", answer |-> card]
    /\ UNCHANGED <<up, heard, card, newest, reading, poll, presses, unanswered, asking, asks, server>>

CloseServed(r) ==
    /\ closes' = closes \ {r}
    /\ \E at \in r.at .. now :
         /\ closeQuestion(r.q, at)
         /\ closing' = IF r.live THEN [state |-> "answered", answer |-> teacherQuestion(r.q, at)']
                       ELSE closing
    /\ UNCHANGED <<acts, up, heard, card, newest, reading, poll, presses, unanswered, asking, asks>>

CloseAnswered ==
    /\ closing.state = "answered"
    /\ closing' = Idle
    /\ IF card.q = closing.answer.q THEN put(closing.answer) ELSE Keep
    /\ UNCHANGED <<acts, up, heard, reading, presses, unanswered, asking, asks, closes, server>>

CloseFails ==
    /\ closing.state # "idle"
    /\ closing' = Idle
    /\ closes' = {[r EXCEPT !.live = FALSE] : r \in closes}
    /\ UNCHANGED <<acts, up, heard, card, newest, reading, poll, presses, unanswered,
                   asking, asks, server>>

Done ==
    /\ up /\ card.q # NoQuestion /\ ~isOpen
    /\ put(NoCard)
    /\ UNCHANGED <<acts, up, heard, reading, sends, server>>

(* heardDone: another window, where the question was closed, put it away. *)
HeardDone(q) ==
    /\ Act
    /\ up /\ q \in Asked /\ ~questionOpen(q, now)
    /\ IF card.q # NoQuestion /\ card.q =< q
       THEN card' = NoCard /\ poll' = NewPoll ELSE UNCHANGED <<card, poll>>
    /\ newest' = Larger(newest, q)
    /\ UNCHANGED <<up, heard, reading, sends, server>>

-----------------------------------------------------------------------------
(* Its poll of the results: the question and its session are read, then the *)
(* answers counted, and the clock read last.                                *)

PollReads ==
    /\ up /\ card.q # NoQuestion /\ poll.state = "idle" /\ ~poll.final
    /\ poll' = [poll EXCEPT !.state = "out", !.late = poll.known,
                  !.row = [open |-> ~Recorded(card.q) /\ ~ended,
                           recorded |-> Recorded(card.q), counted |-> NoAnswer]]
    /\ UNCHANGED <<acts, up, heard, card, newest, reading, sends, server>>

(* closed: known from this read on, if not before; final: known before it. *)
PollTaken ==
    /\ poll.state = "out"
    /\ LET open == poll.row.open /\ now < Bell
       IN  poll' = [poll EXCEPT !.state = "idle", !.row = NoResults,
                      !.results = [poll.row EXCEPT !.open = open,
                                                   !.counted = responses[card.q]],
                      !.known = poll.known \/ ~open,
                      !.final = ~open /\ poll.late]
    /\ UNCHANGED <<acts, up, heard, card, newest, reading, sends, server>>

-----------------------------------------------------------------------------
(* The teacher's other windows, and the lesson's end.  Bound: the clock of  *)
(* a lesson that is over stands still; only a poll's read reads it then.     *)

OthersOpen ==
    /\ Act /\ \E at \in startedAt .. now : openQuestion(0, at)
    /\ UNCHANGED window
OthersClose(q) ==
    /\ Act /\ questionOpen(q, now) /\ closeQuestion(q, now)
    /\ UNCHANGED window
Ends ==
    /\ EndSession
    /\ UNCHANGED <<acts, window>>

Reads == ReadServed \/ ReadTaken
Polls == PollReads \/ PollTaken
Asks ==
    \/ \E draft \in Drafts : Ask(draft)
    \/ \E r \in asks : AskServed(r)
    \/ AskAnswered \/ AskFails
Closings ==
    \/ Close
    \/ \E r \in closes : CloseServed(r)
    \/ CloseAnswered \/ CloseFails
PutsAway == Done \/ \E q \in Asked : HeardDone(q)
Others ==
    \/ OthersOpen \/ Ends
    \/ \E q \in Asked : OthersClose(q)
    \/ ~ended /\ Tick /\ UNCHANGED <<acts, window>>

CardNext == Reads \/ Polls \/ Hear \/ Asks \/ Closings \/ PutsAway \/ Others
=============================================================================
