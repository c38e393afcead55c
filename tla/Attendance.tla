----------------------------- MODULE Attendance -----------------------------
(***************************************************************************)
(* What the transition engine comes to, with every row and record of it    *)
(* left out: lessons open and close once, and a student is nowhere or in   *)
(* one open lesson, moving from one to another in a single step.           *)
(***************************************************************************)
CONSTANTS Students, Ids, Nowhere
VARIABLES stage, place

vars == <<stage, place>>

Init ==
    /\ stage = [l \in Ids |-> "ahead"]
    /\ place = [st \in Students |-> Nowhere]

(* A lesson opens, others closing at their bell in the same step, with the  *)
(* students who waited for it already in it.                                *)
Begin(l, closing) ==
    /\ stage[l] = "ahead"
    /\ \A o \in closing : stage[o] = "open"
    /\ stage' = [o \in Ids |-> IF o = l THEN "open"
                               ELSE IF o \in closing THEN "over" ELSE stage[o]]
    /\ \E waiting \in SUBSET Students :
          place' = [st \in Students |-> IF st \in waiting THEN l
                                        ELSE IF place[st] \in closing THEN Nowhere
                                        ELSE place[st]]

(* A lesson closes, and no one is left in it. *)
Close(l) ==
    /\ stage[l] = "open"
    /\ stage' = [stage EXCEPT ![l] = "over"]
    /\ place' = [st \in Students |-> IF place[st] = l THEN Nowhere ELSE place[st]]

(* A student goes into an open lesson, out of any other they are in, or out. *)
Move(st, to) ==
    /\ to # Nowhere => stage[to] = "open"
    /\ place' = [place EXCEPT ![st] = to]
    /\ UNCHANGED stage

Next ==
    \/ \E l \in Ids : Close(l) \/ \E closing \in SUBSET Ids : Begin(l, closing)
    \/ \E st \in Students, to \in Ids \cup {Nowhere} : Move(st, to)

Spec == Init /\ [][Next]_vars
=============================================================================
