------------------------------- MODULE Outbox -------------------------------
(***************************************************************************)
(* The phone's outbox (Outbox.kt): the file the app keeps, as operators    *)
(* over its value.  A file f holds                                         *)
(*   queue       the records not settled yet, in the order made            *)
(*   standing    where the phone stood when it last said                   *)
(*   reported    the session protection off was last reported in           *)
(*   offFrom     where the phone stood there before it                     *)
(*   lastUnlock, lastTap   the newest unlock's and tap's ids               *)
(*   waitEnds    when the wait for the teacher's Start ends                *)
(* A row names the session and the tap it is filed under (0: none) and its *)
(* place in what the phone did; due says that its backoff or its hold is   *)
(* over, tried that a send of it settled nothing, and stuck that it holds  *)
(* nothing behind it.                                                      *)
(***************************************************************************)
EXTENDS Integers, Sequences, FiniteSets

CONSTANT Bound           \* BOUND: the answers that leave a record stuck
ASSUME OutboxAssumption == Bound \in Nat \ {0}

Out == [at |-> "out", session |-> 0, state |-> "none", ends |-> 0]
Waits == [Out EXCEPT !.at = "waiting"]
Unread == [Out EXCEPT !.at = "unread"]
In(sid, state, ends) == [at |-> "in", session |-> sid, state |-> state, ends |-> ends]

EmptyFile == [queue |-> <<>>, standing |-> Out, reported |-> 0, offFrom |-> "none",
              lastUnlock |-> 0, lastTap |-> 0, waitEnds |-> 0]

Row(id, place, change, follows, due) ==
    [id |-> id, kind |-> change.kind, session |-> change.session, tap |-> change.tap,
     place |-> place, follows |-> follows, due |-> due, tried |-> FALSE,
     answers |-> 0, stuck |-> FALSE]
Change(kind, sid, tap) == [kind |-> kind, session |-> sid, tap |-> tap]

Each(q, F(_)) == [i \in DOMAIN q |-> F(q[i])]
At(q, S) ==     \* the records at these places of the queue, in its order
    [k \in 1..Cardinality(S) |-> q[CHOOSE i \in S : Cardinality({j \in S : j =< i}) = k]]
Ids(q) == {q[i].id : i \in DOMAIN q}
IsUnlock(r) == r.kind = "unlock"
IsReturn(r) == r.kind \in {"tap", "refocus"}
IsUnfiled(r) == IsUnlock(r) /\ r.session = 0 /\ r.tap = 0

(* Standing.acting: a change of the phone's own, at once, where it stands. *)
Acting(standing, change, offFrom) ==
    LET to == CASE change.kind = "unlock" -> "unlocked"
                [] change.kind = "refocus" -> "focused"
                [] change.kind = "protection_off" -> "protection_off"
                [] change.kind = "protection_on" -> IF offFrom = "none" THEN "focused" ELSE offFrom
                [] OTHER -> standing.state
    IN IF standing.at = "in" /\ change.session \in {0, standing.session}
       THEN [standing EXCEPT !.state = to] ELSE standing

(* An unlock held for its reason, never sent, is due now. *)
Released(q) == Each(q, LAMBDA r : IF IsUnlock(r) /\ ~r.tried THEN [r EXCEPT !.due = TRUE] ELSE r)

(* The standing kept, and every unlock not filed yet filed where it says: in *)
(* its session, or under the phone's last tap.                              *)
FileUnder_Kept(f, standing) == [f EXCEPT !.standing = standing]
FileUnder(f, standing) ==
    [f EXCEPT
        !.standing = standing,
        !.queue = Each(@, LAMBDA r :
            IF IsUnfiled(r)
            THEN [r EXCEPT !.session = standing.session,
                           !.tap = IF standing.session = 0 THEN f.lastTap ELSE 0]
            ELSE r)]

(* Where the file says the phone stood; an unlock not filed acts on it. *)
StandsIn(f) ==
    IF \E i \in DOMAIN f.queue : IsUnfiled(f.queue[i])
    THEN Acting(f.standing, Change("unlock", 0, 0), "none")
    ELSE f.standing

(* The unlock a refocus of the session returns from, while it is queued. *)
ReturnsFrom(f, sid) ==
    IF \E i \in DOMAIN f.queue :
          LET r == f.queue[i]
          IN r.id = f.lastUnlock /\ (r.session = sid \/ (r.tap # 0 /\ r.session = 0))
    THEN f.lastUnlock ELSE 0

(* record: the change queued under the id, and where it leaves the phone kept, *)
(* in one write.  A tap or an unlock supersedes every queued refocus.         *)
Superseding(q, change) ==
    IF change.kind \in {"tap", "unlock"}
    THEN At(q, {i \in DOMAIN q : q[i].kind # "refocus"}) ELSE q

Queueing(f, id, change, standing, due) ==
    LET before == StandsIn(f)
        released == [f EXCEPT !.queue = Released(@)]
        h == IF standing.at = "unread" THEN released ELSE FileUnder(released, standing)
        guards == IF change.kind = "unlock" /\ change.tap # 0
                  THEN [change EXCEPT !.session = standing.session] ELSE change
        follows == IF change.kind = "refocus" THEN ReturnsFrom(h, change.session) ELSE 0
        stood == IF before.at = "in" /\ before.session = change.session
                    /\ before.state # "protection_off"
                 THEN before.state ELSE h.offFrom
    IN [h EXCEPT
          !.queue = Append(Superseding(@, change), Row(id, id, guards, follows, due)),
          !.reported = CASE change.kind = "protection_off" -> change.session
                         [] change.kind \in {"tap", "protection_on"} -> 0
                         [] OTHER -> @,
          !.offFrom = CASE change.kind = "tap" -> "none"
                        [] change.kind = "unlock" -> "unlocked"
                        [] change.kind = "protection_off" -> stood
                        [] OTHER -> @,
          !.lastTap = IF change.kind = "tap" THEN id ELSE @,
          !.lastUnlock = IF change.kind = "unlock" THEN id ELSE @]

(* nextDue: the first due record that nothing before it holds.  A record not *)
(* stuck holds those behind it, and a refocus waits for the unlock it        *)
(* returns from.                                                             *)
CanGo_Any(q, r) == ~IsUnfiled(r)
CanGo(q, r) == ~IsUnfiled(r) /\ r.follows \notin Ids(q)
NextDue(q) ==
    {i \in DOMAIN q :
        /\ CanGo(q, q[i]) /\ q[i].due
        /\ \A j \in 1..(i - 1) : CanGo(q, q[j]) => q[j].stuck /\ ~q[j].due}

(* awaiting() = 0: no change still waits for its answer. *)
Settled(q) ==
    LET stuck == {q[i].id : i \in {j \in DOMAIN q : q[j].stuck}}
    IN \A i \in DOMAIN q : q[i].stuck \/ IsUnfiled(q[i]) \/ q[i].follows \in stuck

(* holdsUnlock: an unlock the server has yet to record, made after this place, *)
(* may be the session's.                                                       *)
HoldsUnlock(q, sid, after) ==
    \E i \in DOMAIN q :
        /\ IsUnlock(q[i]) /\ q[i].place > after
        /\ \/ q[i].session = sid
           \/ \E j \in DOMAIN q : q[j].kind = "tap" /\ q[j].id = q[i].tap
           \/ IsUnfiled(q[i])

(* refile: each press filed again, in the session it still holds, under the *)
(* next ids; the press gives its session up, and what followed it follows   *)
(* the new one.                                                             *)
Refiled_Never(f, presses, last) == f
Refiled(f, presses, last) ==
    LET again(id) == IF \E k \in DOMAIN presses : presses[k].id = id
                     THEN last + (CHOOSE k \in DOMAIN presses : presses[k].id = id) ELSE id
        pressed(r) == again(r.id) # r.id
    IN [f EXCEPT
          !.queue = Each(@, LAMBDA r : [r EXCEPT !.session = IF pressed(r) THEN 0 ELSE @,
                                                 !.follows = again(@)])
                    \o [k \in DOMAIN presses |->
                          Row(last + k, presses[k].place,
                              Change("unlock", presses[k].session, 0), 0, TRUE)],
          !.lastUnlock = again(@)]

(* What one answer asks of the record, by its kind's table: tapDisposition, *)
(* unlockDisposition, stateChangeDisposition.                               *)
Refusals == {"SESSION_NOT_RUNNING", "NOT_PARTICIPATING", "PROTECTION", "EVENT_ID_CONFLICT",
             "ACCOUNT_DELETED", "unknown_block"}
Disposition(kind, answer) ==
    IF answer.outcome \in {"lost", "busy"} THEN "retry"
    ELSE IF answer.outcome \in Refusals
    THEN IF kind \in {"tap", "unlock"} THEN "retry_and_surface" ELSE "drop"
    ELSE IF kind = "unlock" THEN "recorded"
    ELSE IF answer.outcome \in {"armed", "already_armed"} THEN "wait_for_start"
    ELSE IF answer.session = 0 \/ answer.outcome = "recorded" THEN "reread"
    ELSE "apply_session"
Keeps(d) == d \in {"retry", "retry_and_surface"}

(* settle: the presses it files again, and the file it leaves. *)
Unjoined(f, id, d, answer) ==
    LET pressed(r) == IsUnlock(r) /\ r.tap # 0 /\ r.session # 0
        queued(tap) == \E j \in DOMAIN f.queue : f.queue[j].kind = "tap" /\ f.queue[j].id = tap
        again(r) == \/ d \in {"wait_for_start", "retry_and_surface"} /\ r.tap = id
                    \/ d = "recorded" /\ answer.session = 0 /\ r.id = id /\ queued(r.tap)
    IN At(f.queue, {i \in DOMAIN f.queue : pressed(f.queue[i]) /\ again(f.queue[i])})

Without(q, id) == At(q, {i \in DOMAIN q : q[i].id # id})
Settle_Drops(f, id, d, answer, last) ==
    [f EXCEPT !.queue = Without(@, id)]
Settle(f, id, d, answer, last) ==
    LET g == Refiled(f, Unjoined(f, id, d, answer), last)
        answers(r) == IF answer.outcome = "lost" \/ r.answers = Bound THEN r.answers
                      ELSE r.answers + 1
    IN IF id \notin Ids(f.queue) THEN f
       ELSE IF Keeps(d)
       THEN [g EXCEPT !.queue = Each(@, LAMBDA r :
               IF r.id # id THEN r
               ELSE [r EXCEPT !.due = FALSE, !.tried = TRUE, !.answers = answers(r),
                              !.stuck = @ \/ d = "retry_and_surface" \/ answers(r) = Bound])]
       ELSE [g EXCEPT !.queue = Without(
               IF d = "apply_session"
               THEN Each(@, LAMBDA r : IF r.tap = id THEN [r EXCEPT !.session = answer.session]
                                       ELSE r)
               ELSE @, id)]
=============================================================================
