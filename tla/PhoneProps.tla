----------------------------- MODULE PhoneProps -----------------------------
(***************************************************************************)
(* What a phone promises its student and the class, of the state in        *)
(* Phone.tla.                                                              *)
(***************************************************************************)
EXTENDS Phone

(* The newest act is an unlock the server keeps in no session, as yet or for *)
(* good: its tap waits for a Start, or was folded into one that does, or is   *)
(* still on its way.                                                          *)
KeptApart ==
    /\ Recorded(Me, turn.id) # {}
    /\ \A e \in Recorded(Me, turn.id) : e.session = 0

(* Locked in a lesson that the student's newest act, an unlock, was made in. *)
LockedOver(standing) ==
    /\ standing.at = "in" /\ standing.state = "focused" /\ standing.ends > now
    /\ standing.session \in turn.begun
NeverLockedOver ==
    turn.kind = "unlock" =>
        /\ app.up => ~LockedOver(app.standing) /\ TapHeld(Seen) = {}
        /\ ~LockedOver(StandsIn(file))

(* While the student's newest act is an Emergency Unlock, nothing the phone   *)
(* then hears or reads, and no relaunch, locks it again: not for the tap it   *)
(* was made over, and not in any lesson begun by then and not over            *)
(* (keepsUnlocked).  Left out: it is kept in no session; it is stuck, and its *)
(* tap joined no class, as the phone heard; or it was made under a tap where  *)
(* the phone stood unread.                                                    *)
Adrift(r) == r.stuck /\ r.tap # 0 /\ r.session = 0 /\ r.tap \notin Ids(file.queue)
UnlockOutlivesLesson ==
    \/ NeverLockedOver
    \/ ~turn.sure \/ KeptApart
    \/ \E i \in DOMAIN file.queue : Adrift(file.queue[i])
UnlockStands ==
    UnlockOutlivesLesson \/ (file.standing.at = "in" /\ ~Open(file.standing.session))

(* No Emergency Unlock is lost: each one pressed, or filed again, is in the   *)
(* file until the server has recorded it, through every answer and crash.     *)
UnlockKept ==
    \A id \in DOMAIN made[Me] : made[Me][id].kind = "unlock" =>
        id \in Ids(file.queue) \/ Recorded(Me, id) # {}

(* A return to focus never goes ahead of the unlock it returns from: once a   *)
(* return is recorded, the newest unlock made before it is not on the phone   *)
(* still, filed in that lesson.  Left out: one filed there by the answer to   *)
(* its tap, which may name a lesson the phone did not stand in.               *)
FiledIn(q, r, sid) == r.session = sid /\ (r.tap = 0 \/ r.tap \in Ids(q))
NewestBefore(m, r, id) ==
    /\ IsUnlock(r) /\ r.place < id
    /\ \A n \in DOMAIN m : m[n].kind = "unlock" /\ m[n].place < id => m[n].place =< r.place
RefocusAfterUnlock ==
    \A e \in log[Me] : e.type = "refocus" =>
        \A i \in DOMAIN file.queue :
            LET r == file.queue[i]
            IN NewestBefore(made[Me], r, e.id) => ~FiledIn(file.queue, r, e.session)

(* The last thing the student did stands: once nothing waits on the phone or  *)
(* on the wire, the server has them unlocked, in a lesson begun by their      *)
(* newest act, exactly where that was an unlock.                              *)
LastActStands ==
    file.queue = <<>> /\ wire = {} /\ asking[Me] = Idle /\ ~KeptApart =>
        \A sid \in turn.begun \cap LiveIn :
            \/ ~Running(sessions[sid], now)
            \/ parts[Me][sid].state = "protection_off"
            \/ (parts[Me][sid].state = "unlocked") <=> (turn.kind = "unlock")

(* What must happen in the end: *)
(* every record is answered, but what the server refuses, and an unlock that  *)
(* the phone, in no lesson, pressed before the first tap it knows of: nothing *)
(* names a lesson or a tap to file it under, and a later tap need not;        *)
PressedFirst(r) ==
    /\ IsUnfiled(r) /\ app.standing.session = NoSession
    /\ \A n \in DOMAIN made[Me] : made[Me][n].kind = "tap" => n > r.place
QueueDrains ==
    <>[](\A i \in DOMAIN file.queue :
            file.queue[i].stuck \/ PressedFirst(file.queue[i]))
(* and the phone comes to stand where the server has the student, in a lesson *)
(* whose bell has not rung, once nothing is refused it again and again: each  *)
(* answer heard puts off the reads sent before it.                            *)
Converges ==
    \/ <>[](\E i \in DOMAIN file.queue : file.queue[i].stuck)
    \/ <>[](app.up /\ \A sid \in LiveIn : Running(sessions[sid], now) => app.standing = Truth)
=============================================================================
