----------------------------- MODULE LessonPage -----------------------------
(***************************************************************************)
(* A student's page on the lesson (student-web.ts: followLesson, picker):  *)
(* the lesson as it last read it, and the picks sent, each in one request  *)
(* under an id of its own.  The student's other devices answer too.        *)
(***************************************************************************)
EXTENDS Lesson

CONSTANT MaxId    \* bound: the ids answers go under

VARIABLES
    seen,     \* the lesson as the page holds it
    fetch,    \* its read of the lesson
    picks,    \* its picks, as pressed
    taken     \* ids answers went under, from any device

page == <<seen, fetch, picks, taken>>

Ids == 1 .. MaxId

PageInit(open) ==
    /\ seen = [NoPresentation EXCEPT !.running = open]
    /\ fetch = [state |-> "idle", got |-> NoPresentation]
    /\ picks = <<>> /\ taken = {}

-----------------------------------------------------------------------------
(* keepLater: of two answers to a question, the one whose id sorts last. *)

later_Own(held, other) == IF other = NoAnswer THEN held ELSE other
later(held, other) == Larger(held, other)
keepLater(lesson, q, answer) ==
    IF lesson.q = q /\ q # NoQuestion THEN [lesson EXCEPT !.answer = later(@, answer)] ELSE lesson

Fetch ==
    /\ seen.running /\ fetch.state = "idle"
    /\ fetch' = [state |-> "served", got |-> Presentation]
    /\ UNCHANGED <<seen, picks, taken, server>>

FetchTaken_Whole ==
    /\ fetch.state = "served"
    /\ seen' = fetch.got
    /\ fetch' = [state |-> "idle", got |-> NoPresentation]
    /\ UNCHANGED <<picks, taken, server>>
FetchTaken ==
    /\ fetch.state = "served"
    /\ seen' = keepLater(fetch.got, seen.q, seen.answer)
    /\ fetch' = [state |-> "idle", got |-> NoPresentation]
    /\ UNCHANGED <<picks, taken, server>>

-----------------------------------------------------------------------------
(* The picks: an id is minted after the answer the page holds and after the *)
(* last it minted, however far behind its clock stands.                     *)

Minted == IF picks # <<>> /\ picks[Len(picks)].q = seen.q THEN picks[Len(picks)].answer ELSE 0
MintsAfter == Larger(seen.answer, Minted)

Pick(id) ==
    /\ seen.running /\ seen.open
    /\ id \notin taken /\ id > MintsAfter
    /\ taken' = taken \cup {id}
    /\ picks' = Append(picks, [q |-> seen.q, answer |-> id, at |-> now,
                               state |-> "out", told |-> NoAnswer, waits |-> TRUE])
    /\ UNCHANGED <<seen, fetch, server>>

(* The server takes a pick up; a page that has stopped waiting hears nothing. *)
AnswerServed(i) ==
    LET pick == picks[i]
    IN  /\ pick.state = "out"
        /\ \E at \in pick.at .. now :
             /\ answerQuestion(pick.q, pick.answer, at)
             /\ picks' = [picks EXCEPT ![i].state = "served",
                            ![i].told = IF TakesAnswer(pick.q, pick.answer, at)
                                        THEN Kept(pick.q, pick.answer) ELSE NoAnswer]
        /\ UNCHANGED <<seen, fetch, taken>>

AnswerTold(i) ==
    LET pick == picks[i]
    IN  /\ pick.state = "served" /\ pick.waits
        /\ picks' = [picks EXCEPT ![i].waits = FALSE, ![i].state = "told"]
        /\ seen' = IF pick.told = NoAnswer THEN seen
                   ELSE keepLater(seen, pick.q, pick.told)
        /\ UNCHANGED <<fetch, taken, server>>

AnswerFails(i) ==
    /\ picks[i].waits
    /\ picks' = [picks EXCEPT ![i].waits = FALSE]
    /\ UNCHANGED <<seen, fetch, taken, server>>

(* What the card says of the last pick, by the read since (answerSaid, saidNow). *)
saidNow ==
    IF picks = <<>> THEN "nothing"
    ELSE LET last == picks[Len(picks)]
         IN  IF last.q # seen.q \/ last.waits THEN "nothing"
             ELSE IF last.state = "told"
             THEN IF last.told = NoAnswer THEN "too_late" ELSE "nothing"
             ELSE IF seen.answer >= last.answer THEN "nothing" ELSE "failed"

(* Another device of the student's: its id is its own clock's. *)
OtherAnswers(q, id) ==
    /\ id \notin taken /\ taken' = taken \cup {id}
    /\ \E at \in startedAt .. now : answerQuestion(q, id, at)
    /\ UNCHANGED <<seen, fetch, picks>>

PageReads == Fetch \/ FetchTaken
PageHears == \E i \in DOMAIN picks : AnswerServed(i) \/ AnswerTold(i) \/ AnswerFails(i)
StudentActs ==
    \/ \E id \in Ids : Pick(id)
    \/ \E q \in Asked, id \in Ids : OtherAnswers(q, id)
=============================================================================
