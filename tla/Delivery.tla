------------------------------ MODULE Delivery ------------------------------
(***************************************************************************)
(* What the live feed promises the teacher's tab, as the whole of it: of   *)
(* the events a lesson comes to show, each is told, once it shows, and     *)
(* stays told.                                                             *)
(***************************************************************************)
CONSTANT Events

VARIABLES
    shown,     \* the lesson's events that have committed
    told       \* those the tab knows, from its first read or from its stream

vars == <<shown, told>>

Init == shown = {} /\ told = {}

(* A transaction commits: its events show together. *)
Show == /\ \E S \in SUBSET Events : shown' = shown \cup S
        /\ told' = told

(* The tab comes to know an event, others with it where it reads the roster. *)
Tell(e) == /\ e \in shown \ told
           /\ \E S \in SUBSET shown : told' = told \cup S \cup {e}
           /\ shown' = shown

Next == Show \/ \E e \in Events : Tell(e)

Spec == Init /\ [][Next]_vars /\ \A e \in Events : WF_vars(Tell(e))
=============================================================================
