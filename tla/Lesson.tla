------------------------------- MODULE Lesson -------------------------------
(***************************************************************************)
(* A running lesson's questions, and one student's answers to them, on the *)
(* server (transitions.ts, "A live lesson's questions"; routes/questions.ts;*)
(* queries.ts).  Each transaction holds the session's row and the          *)
(* question's until it ends, and so is one step.  Its route reads the clock *)
(* before it waits for those locks: the instant it works at is given to it.*)
(* Words, options and the correct one, shown or not, are left out.         *)
(***************************************************************************)
EXTENDS Naturals, Sequences

CONSTANTS
    Bell,          \* the session's ends_at
    MaxTime,       \* bound: instants
    MaxQuestions   \* bound: questions asked in the session

ASSUME LessonAssumption ==
    /\ Bell \in Nat \ {0} /\ MaxTime \in Nat /\ Bell =< MaxTime
    /\ MaxQuestions \in Nat

VARIABLES
    now,        \* the server's clock
    startedAt,  \* when the session started
    ended,      \* the session's row has its end
    questions,  \* the session's questions, by id: a later one's sorts after
    responses,  \* the student's answer to each: the id it went under, or NoAnswer
    log         \* the session's events of questions, and its end, by seq

server == <<now, startedAt, ended, questions, responses, log>>

Times == 0 .. MaxTime
NotClosed == MaxTime + 1    \* closed_at is null, which findShownQuestion sorts first
NoQuestion == 0
NoAnswer == 0
Larger(a, b) == IF a < b THEN b ELSE a
Smaller(a, b) == IF a < b THEN a ELSE b

Asked == DOMAIN questions
Recorded(q) == questions[q].closedAt # NotClosed
sessionRunning(at) == ~ended /\ at < Bell

questionOpen_Unstamped(q, at) == sessionRunning(at)
questionOpen(q, at) == ~Recorded(q) /\ sessionRunning(at)

ServerInit(start) ==
    /\ now = start /\ startedAt = start /\ ended = FALSE
    /\ questions = <<>> /\ responses = <<>> /\ log = <<>>

Tick ==
    /\ now < MaxTime
    /\ now' = now + 1
    /\ UNCHANGED <<startedAt, ended, questions, responses, log>>

-----------------------------------------------------------------------------
(* The teacher's transactions. *)

Event(type, q) == [type |-> type, q |-> q]
Unclosed == {q \in Asked : ~Recorded(q)}

(* closeQuestionRow, for every question still open: there is one at most. *)
Closing(at) ==
    [q \in Asked |-> IF Recorded(q) THEN questions[q]
                     ELSE [questions[q] EXCEPT !.closedAt = at]]
ClosingEvents ==
    IF Unclosed = {} THEN <<>>
    ELSE <<Event("question_closed", CHOOSE q \in Unclosed : TRUE)>>

HeldAs(ev) == {q \in Asked : ev # 0 /\ questions[q].ev = ev}
Opened(ev, at) ==
    [ev |-> ev, openedAt |-> at, closedAt |-> NotClosed]

(* An open under an id that a question holds is its replay.  Another closes  *)
(* the open question at its own instant; ev is 0 for another window's.       *)
openQuestion(ev, at) ==
    \/ /\ HeldAs(ev) # {}
       /\ UNCHANGED server
    \/ /\ HeldAs(ev) = {} /\ sessionRunning(at) /\ Len(questions) < MaxQuestions
       /\ questions' = Append(Closing(at), Opened(ev, at))
       /\ responses' = Append(responses, NoAnswer)
       /\ log' = log \o ClosingEvents
                     \o <<Event("question_opened", Len(questions) + 1)>>
       /\ UNCHANGED <<now, startedAt, ended>>
RefusesOpen(ev, at) == HeldAs(ev) = {} /\ ~sessionRunning(at)

closeQuestion(q, at) ==
    \/ /\ ~questionOpen(q, at)
       /\ UNCHANGED server
    \/ /\ questionOpen(q, at)
       /\ questions' = [questions EXCEPT ![q].closedAt = at]
       /\ log' = Append(log, Event("question_closed", q))
       /\ UNCHANGED <<now, startedAt, ended, responses>>

(* endHeldSession: no read of a session that is over looks at its instant. *)
EndSession ==
    /\ ~ended
    /\ ended' = TRUE
    /\ questions' = Closing(Smaller(now, Bell))
    /\ log' = log \o ClosingEvents \o <<Event("session_ended", NoQuestion)>>
    /\ UNCHANGED <<now, startedAt, responses>>

-----------------------------------------------------------------------------
(* The student's answer, by its id, a UUIDv7: the one held stays unless the *)
(* new one's id sorts after it.  Its option goes where its id goes.         *)

Kept_Last(q, answer) == answer
Kept(q, answer) == Larger(responses[q], answer)

TakesAnswer(q, answer, at) == responses[q] = answer \/ questionOpen(q, at)
answerQuestion(q, answer, at) ==
    /\ responses' = IF TakesAnswer(q, answer, at)
                    THEN [responses EXCEPT ![q] = Kept(q, answer)]
                    ELSE responses
    /\ UNCHANGED <<now, startedAt, ended, questions, log>>

-----------------------------------------------------------------------------
(* The reads. *)

teacherQuestion(q, at) ==
    [q |-> q, open |-> questionOpen(q, at)]
NoCard == [q |-> NoQuestion, open |-> FALSE]

(* GET /v1/sessions/:id's question: unclosed, and open by the clock. *)
SnapshotQuestion ==
    LET open == {q \in Asked : questionOpen(q, now)}
    IN  IF open = {} THEN NoCard ELSE teacherQuestion(CHOOSE q \in open : TRUE, now)

(* findShownQuestion's order. *)
SortsAfter_Opened(p, q) ==
    LET a == questions[p]
        b == questions[q]
    IN  \/ a.openedAt > b.openedAt
        \/ a.openedAt = b.openedAt /\ p > q
SortsAfter(p, q) ==
    LET a == questions[p]
        b == questions[q]
    IN  \/ a.closedAt > b.closedAt
        \/ a.closedAt = b.closedAt /\ a.openedAt > b.openedAt
        \/ a.closedAt = b.closedAt /\ a.openedAt = b.openedAt /\ p > q

findShownQuestion ==
    IF Asked = {} THEN NoQuestion
    ELSE CHOOSE q \in Asked : \A p \in Asked \ {q} : SortsAfter(q, p)

(* GET /v1/sessions/:id/presentation, as far as its question. *)
NoPresentation == [running |-> TRUE, q |-> NoQuestion, open |-> FALSE, answer |-> NoAnswer]
Presentation ==
    LET q == findShownQuestion
    IN  IF ~sessionRunning(now) THEN [NoPresentation EXCEPT !.running = FALSE]
        ELSE IF q = NoQuestion THEN NoPresentation
        ELSE [running |-> TRUE, q |-> q, open |-> questionOpen(q, now),
              answer |-> responses[q]]
=============================================================================
