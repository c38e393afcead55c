------------------------------ MODULE History ------------------------------
(***************************************************************************)
(* The questions Bali's transition engine asks of the events table         *)
(* (packages/db/src/transitions.ts and queries.ts).  A student's history   *)
(* is a set of rows.  A row's place in the table (its bigserial seq) is    *)
(* the pair <<tx, place>>: the transaction that wrote it and its place     *)
(* among that transaction's rows.  Rows of two students are never          *)
(* compared, so each student's transactions are counted on their own.      *)
(*                                                                         *)
(*   id      the event id the phone minted, the number of the record it    *)
(*           names; 0 for a row the server minted                          *)
(*   at      occurred_at          rec    recorded_at                       *)
(*   order   the phone's own order (A12): its install and the place in it  *)
(*   note    payload.recorded_as  claim  payload.tap_event_id, or the      *)
(*           unlock a reason change names                                  *)
(*   from    payload.unattached_event_id                                   *)
(***************************************************************************)
EXTENDS Integers

NoSession == 0
Never == -1                                    \* a null ended_at
NoOrder == [install |-> 0, seq |-> 0]          \* no order knownOrder can compare

Least(a, b) == IF a < b THEN a ELSE b
Greatest(a, b) == IF a < b THEN b ELSE a

(* A time held to a session's window: clampToWindow. *)
Clamp(t, s) == Least(Greatest(t, s.startedAt), Greatest(s.startedAt, s.endsAt))

(* A session that runs: not marked over, its bell still ahead (A17). *)
Running(s, t) == s.endedAt = Never /\ s.endsAt > t

Live(p) == p.ended = "live"

(* e comes after f in the table. *)
After(e, f) == e.tx > f.tx \/ (e.tx = f.tx /\ e.place > f.place)

(* The newest row of rows is of one of the types. *)
NewestIs(rows, types) ==
    \E e \in rows : e.type \in types /\ \A f \in rows : ~After(f, e)

(* The phone made e after a record of this order: same install, later seq. *)
MadeAfter(e, order) ==
    /\ order.install # 0
    /\ e.order.install = order.install
    /\ e.order.seq > order.seq

(* The latest of a set of times: the set of that one time. *)
Latest(times) == {a \in times : \A b \in times : b =< a}

InWindow(e, s) == s.startedAt =< e.at /\ e.at =< s.endsAt

Of(h, sid, types) == {e \in h : e.session = sid /\ e.type \in types}

(* An unlock (or a protection off) the phone made after this return (A13). *)
MadeSince_AnyOrder(h, sid, s, order, type) == FALSE
MadeSince(h, sid, s, order, type) ==
    \E e \in Of(h, sid, {type}) : InWindow(e, s) /\ MadeAfter(e, order)

(* A tap the phone made after this one, recorded in another session (A14). *)
TappedSince_Never(h, order, sid) == FALSE
TappedSince(h, order, sid) ==
    \E e \in h : /\ e.type = "tap_in"
                 /\ e.session # sid
                 /\ MadeAfter(e, order)

(* A return to focus that came after this unlock: by the phone's order where *)
(* one install numbered both, else by the times (A10, A12).                  *)
ReturnedSince(h, sid, s, at, order) ==
    \E e \in Of(h, sid, {"tap_in", "refocus"}) :
        /\ InWindow(e, s)
        /\ IF order.install # 0 /\ e.order.install = order.install
           THEN e.order.seq > order.seq
           ELSE Least(e.at, e.rec) > at

(* The rows a chip may show (A9): a tap, a return or an unlock, never a late *)
(* one.  The newest is the student's latest turn.                            *)
Turns(h, sid) ==
    {e \in Of(h, sid, {"tap_in", "refocus", "unlock"}) : e.note # "superseded"}
=============================================================================
