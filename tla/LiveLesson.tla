----------------------------- MODULE LiveLesson -----------------------------
(***************************************************************************)
(* The questions of a running lesson: the server, and either a window of   *)
(* the teacher's, with the student's devices and the other windows about   *)
(* it, or a student's page, with the teacher's windows about it.  The two  *)
(* know of each other through the server alone.                            *)
(***************************************************************************)
EXTENDS QuestionCard, LessonPage

vars == <<acts, window, page, server>>

(* Bound: a lesson a window follows is an instant long, one a page follows  *)
(* runs from 0.                                                             *)
Init ==
    \/ CardInit(TRUE) /\ PageInit(FALSE) /\ ServerInit(Bell - 1)
    \/ CardInit(FALSE) /\ PageInit(TRUE) /\ ServerInit(0)

PageNext ==
    \/ (PageReads \/ PageHears) /\ UNCHANGED <<acts, window>>
    \/ StudentActs /\ Act /\ UNCHANGED window

Next == (CardNext /\ UNCHANGED page) \/ PageNext

(* A window's reads and polls are repeated while it is in view, and its      *)
(* stream is resumed until it has brought every event (Feed.tla).            *)
Fairness ==
    /\ WF_vars(Reads /\ UNCHANGED page) /\ WF_vars(Polls /\ UNCHANGED page)
    /\ WF_vars(Hear /\ UNCHANGED page)
    /\ WF_vars(PageReads /\ UNCHANGED <<acts, window>>)

Spec == Init /\ [][Next]_vars /\ Fairness
=============================================================================
