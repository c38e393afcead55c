------------------------------ MODULE MCLesson ------------------------------
(* Small instances of a running lesson's questions for TLC. *)
EXTENDS LessonProps
=============================================================================
