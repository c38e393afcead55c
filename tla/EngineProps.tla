---------------------------- MODULE EngineProps ----------------------------
(***************************************************************************)
(* What the transition engine promises, of the state in Engine.tla.        *)
(***************************************************************************)
EXTENDS Engine

States == {"focused", "unlocked", "protection_off"}
Endings == {"session_ended", "session_expired", "left_for_other_session",
            "left_class", "removed_from_class"}
Kinds == {"tap", "unlock", "refocus", "protection_off", "protection_on", "reason"}
RowTypes == {"tap_in", "unlock", "refocus", "protection_off", "protection_on",
             "unlock_reason_changed", "left_for_other_session", "came_back",
             "went_silent", "armed_tap_skipped", "enrollment_joined",
             "enrollment_left", "enrollment_removed", "account_deleted"}
Notes == {"none", "superseded", "protection_off", "after_session_end",
          "no_live_participation", "not_enrolled", "tap_armed", "unknown_tap"}

PartType == [state : States, ended : Endings \cup {"no_row", "live"},
             silent : BOOLEAN, quiet : BOOLEAN]
RowType == [tx : Nat, place : Nat, id : Nat, type : RowTypes,
            session : SessionIds \cup {NoSession},
            at : Int, rec : Nat, order : [install : Nat, seq : Nat],
            note : Notes, claim : Nat, from : Nat]
SessionType == [class : Classes \cup {NoClass}, startedAt : Nat, endsAt : Nat,
                endedAt : Nat \cup {Never}]
MadeType == [kind : Kinds, session : SessionIds \cup {NoSession}, claim : Nat,
             teacher : Teachers \cup {NoTeacher}, at : Int, when : Nat, install : Nat,
             place : Nat]
ArmedType == [id : Nat, expires : Int, waiting : BOOLEAN]
AskType == [record : Nat, target : SessionIds \cup {NoSession}, ran : BOOLEAN, at : Nat,
            stage : {"idle", "tap", "again", "reread", "arm"}]

(* What names a record the phone made, or a session, names one there is. *)
Referring ==
    \A st \in Students :
        /\ \A a \in armed[st] : a.id \in DOMAIN made[st]
        /\ \A e \in log[st] :
              /\ e.type = "tap_in" => e.session # NoSession
              /\ e.type = "unlock" /\ e.session = NoSession => e.id \in DOMAIN made[st]
        /\ asking[st].stage # "idle" => asking[st].record \in DOMAIN made[st]
        /\ asking[st].stage \in {"tap", "again"} => asking[st].target # NoSession
        /\ \A n \in DOMAIN made[st] :
              made[st][n].kind \in {"tap", "reason", "unlock"} \/ made[st][n].session # NoSession

(* The rows the engine keeps have the shapes the schema gives them. *)
TypeOK ==
    /\ now \in Nat
    /\ sessions \in [SessionIds -> SessionType]
    /\ enrolled \subseteq Students \X Classes
    /\ deleted \subseteq Students
    /\ parts \in [Students -> [SessionIds -> PartType]]
    /\ log \in [Students -> SUBSET RowType]
    /\ written \in [Students -> Nat]
    /\ armed \in [Students -> SUBSET ArmedType]
    /\ made \in [Students -> Seq(MadeType)]
    /\ install \in [Students -> Nat]
    /\ asking \in [Students -> AskType]
    /\ Referring

-----------------------------------------------------------------------------
(* Where a student is. *)

(* A student is live in at most one lesson: a tap or a Start that joins them  *)
(* ends the stint elsewhere in the same transaction.                          *)
OneLessonPerStudent ==
    \A st \in Students : \A a, b \in SessionIds :
        Live(parts[st][a]) /\ Live(parts[st][b]) => a = b

(* A class has at most one lesson not marked over, the past-bell one a Start  *)
(* finds being ended first (A18).                                             *)
OneOpenLessonPerClass ==
    \A a, b \in SessionIds :
        Open(a) /\ Open(b) /\ sessions[a].class = sessions[b].class => a = b

(* No one is in a lesson that is over or has not started, whatever was under  *)
(* way when it ended.                                                         *)
OverLessonHasNoOne ==
    \A st \in Students, sid \in SessionIds : Live(parts[st][sid]) => Open(sid)

(* The three at once: the portal's grid, the phone's standing and the next    *)
(* Start each take one of them for granted of the rows of the other two.      *)
LessonsApart == OneLessonPerStudent /\ OneOpenLessonPerClass /\ OverLessonHasNoOne

(* A live student is enrolled in the class: a removal ends the stint, and a   *)
(* tap that read the enrollment before it joins nothing (A19).                *)
LiveIsEnrolled ==
    \A st \in Students, sid \in SessionIds : Live(parts[st][sid]) => IsIn(st, sid)

(* A student has one waiting tap per teacher, and one armed row per tap.      *)
WaitingOnce ==
    \A st \in Students : \A a, b \in armed[st] :
        a.id = b.id \/ ( a.waiting /\ b.waiting
                         /\ made[st][a.id].teacher = made[st][b.id].teacher) => a = b

(* A record the phone sends again is never recorded again.                    *)
RecordedOnce ==
    \A st \in Students : \A e, f \in log[st] : e.id # 0 /\ e.id = f.id => e = f

(* A deleted account keeps no class, no lesson, no waiting tap and no order   *)
(* of its phone's, whatever request was under way (deleteAccount, keptOrder). *)
DeletedLeavesNothing ==
    \A st \in deleted :
        /\ \A c \in Classes : <<st, c>> \notin enrolled
        /\ \A sid \in SessionIds : ~Live(parts[st][sid])
        /\ \A a \in armed[st] : ~a.waiting
        /\ \A e \in log[st] : e.order = NoOrder

-----------------------------------------------------------------------------
(* What the history says. *)

OnTime(h, sid, types) == {e \in Of(h, sid, types) : e.note = "none"}

(* A silence opens and closes in pairs: a live student is silent exactly when *)
(* the newest word on it is a went_silent, and only while focused.            *)
SilencePaired ==
    \A st \in Students, sid \in SessionIds :
        Live(parts[st][sid]) =>
            /\ parts[st][sid].silent <=>
                 NewestIs(OnTime(log[st], sid, {"tap_in", "went_silent", "came_back"}),
                          {"went_silent"})
            /\ parts[st][sid].silent => parts[st][sid].state = "focused"

(* The live picture is what the events say: a student is in the lesson while  *)
(* it is open and their newest coming or going is a tap that was not late;    *)
(* off while their newest change of protection is an off; and otherwise       *)
(* unlocked exactly when their latest turn is an unlock.                      *)
PictureExplained ==
    \A st \in Students, sid \in SessionIds :
        LET p == parts[st][sid]
            moves == OnTime(log[st], sid, {"tap_in", "left_for_other_session",
                                           "enrollment_left", "enrollment_removed"})
            cover == OnTime(log[st], sid, {"tap_in", "protection_off", "protection_on"})
        IN /\ Live(p) <=> Open(sid) /\ NewestIs(moves, {"tap_in"})
           /\ Live(p) =>
                IF NewestIs(cover, {"protection_off"}) THEN p.state = "protection_off"
                ELSE p.state = IF NewestIs(Turns(log[st], sid), {"unlock"})
                               THEN "unlocked" ELSE "focused"

(* The rows whose order one install numbered. *)
OneInstall(rows) == \A e, f \in rows : e.order.install = f.order.install /\ e.order.install # 0

(* Every tap ran its course: none of them was late for a tap the phone made   *)
(* after it, recorded in another session (A14), and so began nothing here.    *)
NotOvertaken(h, sid, turns) ==
    \A e \in turns : e.type = "tap_in" /\ e.note = "superseded" => ~TappedSince(h, e.order, sid)

(* Where a phone numbers its actions, the order the records reached the       *)
(* server in does not matter: a live student is unlocked exactly when the     *)
(* last of the recorded turns the phone made there is an unlock (A12, A13),   *)
(* so long as no tap in another lesson went ahead of one of them.             *)
NewestActionStands ==
    \A st \in Students, sid \in SessionIds :
        LET turns == Of(log[st], sid, {"tap_in", "refocus", "unlock"})
        IN Live(parts[st][sid]) /\ parts[st][sid].state # "protection_off"
           /\ OneInstall(turns) /\ NotOvertaken(log[st], sid, turns) =>
              ( parts[st][sid].state = "unlocked" <=>
                \E e \in turns : e.type = "unlock"
                                 /\ \A f \in turns : f.order.seq =< e.order.seq )

(* Nor does it for where they are: no tap made after every tap of theirs in   *)
(* the lesson they are live in has joined another (A14).                      *)
LastTapDecides ==
    \A st \in Students, sid \in SessionIds :
        LET taps == {e \in log[st] : e.type = "tap_in"}
        IN Live(parts[st][sid]) /\ OneInstall(taps) =>
              \A e \in taps : e.session # sid /\ e.note = "none" =>
                  \E f \in taps : f.session = sid /\ f.order.seq > e.order.seq

(* An answer to a tap or a return names a session only where the student is   *)
(* then live, in the state it names, and in the class (A4).                   *)
AnswersNameTrueSessions ==
    \A st \in Students, t \in Clocks : \A n \in DOMAIN made[st] :
        LET answers == CASE made[st][n].kind = "tap" ->
                              {TapIn(st, n, sid, t) : sid \in {o \in SessionIds : Open(o)}}
                         [] made[st][n].kind \in {"refocus", "protection_on"} ->
                              {ChangeState(st, n, t)}
                         [] OTHER -> {}
        IN \A tx \in answers :
              LET sid == tx.answer.session
              IN sid # NoSession => /\ Live(tx.parts[sid])
                                    /\ tx.parts[sid].state = tx.answer.state
                                    /\ Running(sessions[sid], t)
                                    /\ IsIn(st, sid)

(* An unlock kept under a tap no one had seen is filed where that tap lands,  *)
(* once, in its session (transitions.ts fileKeptUnlocks).                     *)
KeptUnlockFiled ==
    \A st \in Students : \A e, tap \in log[st] :
        /\ e.type = "unlock" /\ e.note = "unknown_tap"
        /\ tap.type = "tap_in" /\ tap.id = e.claim
        /\ \A a \in armed[st] : a.id = tap.id => a.waiting
        => /\ \E f \in log[st] : f.from = e.id /\ f.session = tap.session
           /\ \A f, g \in log[st] : f.from = e.id /\ g.from = e.id => f = g
-----------------------------------------------------------------------------
(* What the documents say and the code does not do. *)

(* docs/ARCHITECTURE.md:552 says a tap landing after an unlock sent under it  *)
(* files it then.  One kept as tap_armed is never looked for.                 *)
EveryTapUnlockFiled ==
    \A st \in Students : \A e, tap \in log[st] :
        /\ e.type = "unlock" /\ e.note \in {"unknown_tap", "tap_armed"}
        /\ tap.type = "tap_in" /\ tap.id = e.claim /\ After(tap, e)
        /\ \A a \in armed[st] : a.id = tap.id => a.waiting
        => \E f \in log[st] : f.from = e.id /\ f.session = tap.session

-----------------------------------------------------------------------------
(* What a step may never do. *)

(* A bell only moves later, and only while the lesson is open; a lesson is    *)
(* over once, within its own window and the cap on a lesson's length.         *)
BellStep ==
    \A sid \in SessionIds : Started(sid) =>
        LET s == sessions[sid]
        IN /\ sessions'[sid].startedAt = s.startedAt
           /\ sessions'[sid].endsAt >= s.endsAt
           /\ s.endedAt # Never => sessions'[sid] = s
           /\ sessions'[sid].endedAt # Never =>
                 InWindow([at |-> sessions'[sid].endedAt], sessions'[sid])
           /\ sessions'[sid].endsAt # s.endsAt =>
                 sessions'[sid].endsAt - s.startedAt =< MaxTotal
BellMovesLater == [][BellStep]_vars

(* The abstract attendance of Attendance.tla: where each student is, and how  *)
(* far each lesson has come.                                                  *)
LessonStage == [sid \in SessionIds |->
    IF ~Started(sid) THEN "ahead" ELSE IF Open(sid) THEN "open" ELSE "over"]
Place == [st \in Students |->
    IF \E sid \in SessionIds : Live(parts[st][sid])
    THEN CHOOSE sid \in SessionIds : Live(parts[st][sid]) ELSE NoSession]

A == INSTANCE Attendance WITH Ids <- SessionIds, Nowhere <- NoSession,
                              stage <- LessonStage, place <- Place

(* The engine's transactions, with all their rows, do no more to attendance   *)
(* than Attendance.tla allows.                                                *)
Attends == A!Spec

-----------------------------------------------------------------------------
(* What must happen in the end. *)

(* Every lesson started is over at last, however often it is extended and     *)
(* whoever is in it: the sweep ends it at its bell (decision 6).              *)
EveryLessonOver == \A sid \in SessionIds : Open(sid) ~> ~Open(sid)

(* Every unlock made is recorded at last: none is refused for good (rule 5).  *)
EveryUnlockRecorded ==
    \A st \in Students, n \in Records :
        (n \in DOMAIN made[st] /\ made[st][n].kind = "unlock") ~> Recorded(st, n) # {}

(* Every tap the server takes it answers: the route reads afresh only once.   *)
EveryTapAnswered == \A st \in Students : asking[st] # Idle ~> asking[st] = Idle
=============================================================================
