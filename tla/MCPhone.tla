------------------------------ MODULE MCPhone ------------------------------
(* Small instances of one phone and the engine for TLC. *)
EXTENDS PhoneProps

CONSTANTS s1, maths, teacher

OneTeacher == [c \in Classes |-> teacher]
Everyone == Students \X Classes
Now == {0}
=============================================================================
