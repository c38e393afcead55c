------------------------------ MODULE MCEngine ------------------------------
(* Small instances of the engine for TLC. *)
EXTENDS EngineProps, Readings

CONSTANTS s1, s2, maths, art, teacher, other

OneTeacher == [c \in Classes |-> teacher]
TwoTeachers == [c \in Classes |-> IF c = art THEN other ELSE teacher]
Everyone == Students \X Classes

(* Phones' clocks: right, or off by a tick. *)
Now == {0}
Behind == {-1, 0}
Off == {-1, 0, 1}
=============================================================================
