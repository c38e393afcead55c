---------------------------- MODULE LessonProps -----------------------------
(* What a running lesson's questions promise, of the state in LiveLesson.tla. *)
EXTENDS LiveLesson

(* Students of a running session are shown the question asked last, whatever *)
(* instants the racing opens and closes carried (findShownQuestion): but     *)
(* where two were closed at one instant, whose order then is their opens'.   *)
ShownIsLastAsked ==
    LET last == Len(questions)
    IN  ~ended /\ (\A q \in Asked \ {last} : questions[q].closedAt # questions[last].closedAt)
        => findShownQuestion = last

(* Of a student's picks the newest stands: once one the page sent is taken,  *)
(* no earlier one of its picks is their answer, in whatever order they land  *)
(* and however far back its clock is put (answerQuestion, eventIdAfter).     *)
NewestPickStands ==
    \A i, j \in DOMAIN picks :
        i < j /\ picks[i].q = picks[j].q /\ picks[j].state # "out" /\ picks[j].told # NoAnswer
        => responses[picks[i].q] # picks[i].answer

(* A page that holds an answer never goes back to an earlier one, whatever   *)
(* read was on its way (followLesson).                                       *)
AnswerNeverGoesBack ==
    [][seen'.q = seen.q => seen'.answer >= seen.answer]_vars

(* The same words asked again while no answer came are one question.         *)
AskedOnce ==
    \A i \in 1 .. Len(presses) - 1 :
        presses[i].draft = presses[i + 1].draft /\ ~presses[i].told
        => \A p, q \in HeldAs(presses[i].ev) \cup HeldAs(presses[i + 1].ev) : p = q

(* A poll that has stopped, its question closed on record when it last read  *)
(* it, holds the counts that stand (routes/questions.ts, results).           *)
FinalCounts ==
    poll.final /\ poll.results.recorded => poll.results.counted = responses[card.q]

(* A window comes to show the open question, and no other as open, and to    *)
(* stay so once nothing more is done, whatever its reads, its stream and its *)
(* poll brought late or out of order.                                        *)
Open(q) == q \in Asked /\ questionOpen(q, now)
CardTrue ==
    up => /\ Open(Len(questions)) => card.q = Len(questions)
          /\ card.q # NoQuestion => isOpen = Open(card.q)
CardCatchesUp == <>[]CardTrue

(* A student's page comes to show the question asked last and the answer     *)
(* Bali holds, from whichever device, and no longer says that one it holds   *)
(* did not send.                                                             *)
PageTrue ==
    seen.running =>
        /\ seen.q = findShownQuestion
        /\ seen.q # NoQuestion => seen.answer = responses[seen.q]
        /\ saidNow = "failed" => responses[seen.q] < picks[Len(picks)].answer
PageCatchesUp == <>[]PageTrue
=============================================================================
