------------------------------- MODULE Engine -------------------------------
(***************************************************************************)
(* Bali's transition engine (packages/db/src/transitions.ts) with the      *)
(* routes that call it: sessions, taps, unlocks, returns, protection, the  *)
(* sweep, enrollments and account deletion, over one Postgres database.    *)
(*                                                                         *)
(* A phone MAKES records, each with an event id of its own and, on the     *)
(* builds that number their actions, its order (install, seq); a record    *)
(* then REACHES the server any number of times, in any order, with its     *)
(* answer heard or lost.  Every engine transaction is one step here: each  *)
(* takes the locks its comments name before it reads what it decides on.   *)
(* What is not one step is the tap's route, which picks a session with no  *)
(* lock, then runs tapIn, then perhaps armTap (apps/api/src/routes/taps.ts)*)
(***************************************************************************)
EXTENDS History, Sequences

CONSTANTS
    Students, Classes, Teachers,
    NoClass,          \* the class of a session not started yet
    NoTeacher,        \* the block of a record that is no tap
    TeacherOf,        \* classes.teacher_id
    Roster0,          \* who is in which class at first
    Ordered,          \* the students whose phones number their actions (A12)
    Doings,           \* what people do in this instance, see Init
    MaxSessions,      \* bound: sessions ever started
    MaxTime,          \* bound: the clock's last value
    MaxRecords,       \* bound: records one phone makes
    MaxInstalls,      \* bound: installs of the app on one phone
    MaxWrites,        \* bound: transactions in a log a student may join after
    Lessons,          \* the lengths a teacher may start or add
    MaxTotal,         \* MAX_SESSION_TOTAL_MINUTES, in ticks
    Day,              \* ticks in a school day: an armed tap waits until its end
    Lag,              \* how old the clock a request read may be when it commits
    Skews             \* how far a phone's clock may be off

ASSUME BoundAssumption ==
    /\ MaxSessions \in Nat /\ MaxTime \in Nat /\ MaxRecords \in Nat
    /\ MaxInstalls \in Nat /\ MaxWrites \in Nat /\ Lag \in Nat
ASSUME TimeAssumption ==
    /\ Lessons \subseteq Nat \ {0} /\ MaxTotal \in Nat
    /\ Day \in Nat \ {0} /\ Skews \subseteq Int
ASSUME PeopleAssumption ==
    /\ NoClass \notin Classes /\ NoTeacher \notin Teachers
    /\ TeacherOf \in [Classes -> Teachers]
    /\ Roster0 \subseteq Students \X Classes
    /\ Ordered \subseteq Students

VARIABLES
    now,        \* the server's clock
    sessions,   \* session id |-> the sessions row
    enrolled,   \* enrollments with removed_at null
    deleted,    \* accounts deleted
    parts,      \* student |-> session id |-> the participations row
    log,        \* student |-> the events rows that name the student
    written,    \* student |-> how many transactions wrote to the student's log
    armed,      \* student |-> armed_taps rows
    made,       \* student |-> the records the phone made, in its order
    install,    \* student |-> which install of the app the phone runs
    asking      \* student |-> the POST /v1/taps the server is working on

vars == <<now, sessions, enrolled, deleted, parts, log, written, armed, made,
          install, asking>>
server == <<sessions, enrolled, deleted, parts, log, written, armed>>
phones == <<made, install>>

SessionIds == 1..MaxSessions
Records == 1..MaxRecords

NotStarted == [class |-> NoClass, startedAt |-> 0, endsAt |-> 0, endedAt |-> Never]
NoRow == [state |-> "focused", ended |-> "no_row", silent |-> FALSE, quiet |-> FALSE]
Fresh == [state |-> "focused", ended |-> "live", silent |-> FALSE, quiet |-> FALSE]
Idle == [record |-> 0, target |-> NoSession, ran |-> FALSE, at |-> 0, stage |-> "idle"]

(* The clock a request read before its transaction took its locks. *)
Clocks == {t \in (now - Lag)..now : t >= 0}

Started(sid) == sessions[sid].class # NoClass
Open(sid) == Started(sid) /\ sessions[sid].endedAt = Never
IsIn(st, sid) == <<st, sessions[sid].class>> \in enrolled

-----------------------------------------------------------------------------
(* Rows.  The places a transaction writes at: the phone's own row, the rows *)
(* that end stints elsewhere, the end of a silence, the unlocks it files.   *)

Order(st, n) == IF st \in Ordered
                THEN [install |-> made[st][n].install, seq |-> made[st][n].place]
                ELSE NoOrder

(* keptOrder: a deleted account's row keeps no order. *)
KeptOrder_Always(st, order) == order
KeptOrder(st, order) == IF st \in deleted THEN NoOrder ELSE order

ServerRow(st, place, type, sid, at) ==
    [tx |-> written[st] + 1, place |-> place, id |-> 0, type |-> type,
     session |-> sid, at |-> at, rec |-> now, order |-> NoOrder,
     note |-> "none", claim |-> 0, from |-> 0]

PhoneRow_PhonesClock(st, n, type, sid, at, note) ==
    [ServerRow(st, 1, type, sid, at) EXCEPT
        !.id = n, !.order = KeptOrder(st, Order(st, n)), !.note = note,
        !.claim = made[st][n].claim, !.rec = made[st][n].at]
PhoneRow(st, n, type, sid, at, note) ==
    [ServerRow(st, 1, type, sid, at) EXCEPT
        !.id = n, !.order = KeptOrder(st, Order(st, n)), !.note = note,
        !.claim = made[st][n].claim]

Recorded_Never(st, n) == {}
Recorded(st, n) == {e \in log[st] : e.id = n}

(* What one student's transaction comes to, and how it commits. *)
Answer(outcome, sid, state) == [outcome |-> outcome, session |-> sid, state |-> state]
NoChange(st, answer) ==
    [rows |-> {}, parts |-> parts[st], armed |-> armed[st], answer |-> answer]
Refuse(st, code) == NoChange(st, Answer(code, NoSession, "none"))
Replay(st) == NoChange(st, Answer("replay", NoSession, "none"))

Commit(st, tx) ==
    /\ log' = [log EXCEPT ![st] = @ \cup tx.rows]
    /\ written' = [written EXCEPT ![st] = IF tx.rows = {} THEN @ ELSE @ + 1]
    /\ parts' = [parts EXCEPT ![st] = tx.parts]
    /\ armed' = [armed EXCEPT ![st] = tx.armed]
    /\ UNCHANGED <<now, sessions, enrolled, deleted>>

-----------------------------------------------------------------------------
(* Silence: the phone was heard from, so an open episode closes. *)

Heard(p) == IF Live(p) THEN [p EXCEPT !.silent = FALSE, !.quiet = FALSE] ELSE p

(* A silence left open. *)
BackRows_Never(st, sid, t) == {}
BackRows(st, sid, t) ==
    LET p == parts[st][sid]
        wentSilent == {e.at : e \in Of(log[st], sid, {"went_silent"})}
    IN IF Live(p) /\ p.silent
       THEN {ServerRow(st, 3, "came_back", sid, at) :
                at \in Latest({Clamp(t, sessions[sid])} \cup wentSilent)}
       ELSE {}

(* One lesson at a time: endParticipationsElsewhere, over the stints ps. *)
LiveElsewhere(ps, sid) == {o \in SessionIds : o # sid /\ Live(ps[o])}
LeftRows(st, ps, sid, at) ==
    {ServerRow(st, 2, "left_for_other_session", o, at) : o \in LiveElsewhere(ps, sid)}

(* The bug: the stint elsewhere is left live. *)
JoinedOnly_StaysElsewhere(ps, sid) == [ps EXCEPT ![sid] = Fresh]
JoinedOnly(ps, sid) ==
    [o \in SessionIds |->
        IF o = sid THEN Fresh
        ELSE IF o \in LiveElsewhere(ps, sid)
             THEN [ps[o] EXCEPT !.ended = "left_for_other_session"]
             ELSE ps[o]]

-----------------------------------------------------------------------------
(* Unlocks: always recorded, never refused. *)

(* What the server notes of an unlock at this time and order, where p is the *)
(* student's stint in the session and h their history so far.                *)
UnlockNote(h, p, sid, at, order) ==
    LET s == sessions[sid]
    IN IF p.ended # "no_row" /\ ReturnedSince(h, sid, s, at, order) THEN "superseded"
       ELSE IF Live(p) THEN IF p.state = "protection_off" THEN "protection_off" ELSE "none"
       ELSE IF s.endedAt # Never THEN "after_session_end" ELSE "no_live_participation"

(* unlocksAwaitingTap: the student's unlocks kept under a tap no one had seen. *)
Kept(st, n) ==
    {e \in log[st] : /\ e.type = "unlock" /\ e.session = NoSession
                     /\ e.note = "unknown_tap" /\ e.claim = n}

(* fileKeptUnlocks: each of them filed in the session the tap landed in, where *)
(* h and p are the history and the stint as the tap leaves them.  None changes *)
(* another's note, so all are filed at once; the student is in the class, so   *)
(* none is turned away.                                                        *)
Filed_None(st, n, sid, h, p) == {}
Filed(st, n, sid, h, p) ==
    {LET at == Clamp(made[st][e.id].at, sessions[sid])
     IN [ServerRow(st, 3 + e.tx, "unlock", sid, at) EXCEPT
            !.order = KeptOrder(st, e.order), !.claim = n, !.from = e.id,
            !.note = UnlockNote(h, p, sid, at, e.order)] : e \in Kept(st, n)}

(* recordOrphanUnlock: kept under no session. *)
Orphan_Refused(st, n, note) == Refuse(st, "UNKNOWN_TAP")
Orphan(st, n, note) ==
    IF \E e \in Recorded(st, n) : e.session # NoSession
    THEN Refuse(st, "EVENT_ID_CONFLICT")
    ELSE IF Recorded(st, n) # {} THEN Replay(st)
    ELSE [NoChange(st, Answer("recorded", NoSession, "none")) EXCEPT
             !.rows = {PhoneRow(st, n, "unlock", NoSession, now, note)}]

(* unlockIn, under the session's row lock. *)
UnlockIn(st, n, sid, t) ==
    LET p == parts[st][sid]
        at == Clamp(made[st][n].at, sessions[sid])
        note == UnlockNote(log[st], p, sid, at, Order(st, n))
        state == IF note = "none" THEN "unlocked" ELSE p.state
    IN IF p.ended = "no_row" /\ ~IsIn(st, sid) THEN Orphan(st, n, "not_enrolled")
       ELSE IF Recorded(st, n) # {}
            THEN IF \E e \in Recorded(st, n) : e.session # sid
                 THEN Refuse(st, "EVENT_ID_CONFLICT")
                 ELSE NoChange(st, Answer("replay", sid,
                                          IF p.ended = "no_row" THEN "none" ELSE p.state))
       ELSE [rows |-> {PhoneRow(st, n, "unlock", sid, at, note)} \cup BackRows(st, sid, t),
             parts |-> [parts[st] EXCEPT ![sid] = [Heard(p) EXCEPT !.state = state]],
             armed |-> armed[st],
             answer |-> IF Live(p)
                        THEN Answer(IF note = "none" THEN "applied" ELSE "recorded", sid, state)
                        ELSE Answer("recorded", sid, "none")]

(* unlockUnderTap, under the tap's advisory lock: in the session its earlier  *)
(* record is in, else the one the tap landed in, else kept.                   *)
UnlockUnderTap(st, n, t) ==
    LET tap == made[st][n].claim
        own == Recorded(st, n)
        landed == IF own # {} THEN own ELSE {e \in Recorded(st, tap) : e.type = "tap_in"}
    IN IF \E e \in landed : e.session # NoSession
       THEN UnlockIn(st, n, (CHOOSE e \in landed : e.session # NoSession).session, t)
       ELSE Orphan(st, n, IF \E a \in armed[st] : a.id = tap
                          THEN "tap_armed" ELSE "unknown_tap")

Unlock(st, n, t) ==
    IF made[st][n].claim # 0
    THEN UnlockUnderTap(st, n, t)
    ELSE UnlockIn(st, n, made[st][n].session, t)

-----------------------------------------------------------------------------
(* Taps. *)

(* A retry of a recorded tap names its session while it is live there (A4). *)
ReplayTap_NamesAlways(st, n, t) ==
    LET sid == (CHOOSE e \in Recorded(st, n) : TRUE).session
    IN NoChange(st, Answer("replay", sid, parts[st][sid].state))
ReplayTap(st, n, t) ==
    LET sid == (CHOOSE e \in Recorded(st, n) : TRUE).session
    IN IF Running(sessions[sid], t) /\ Live(parts[st][sid])
       THEN NoChange(st, Answer("replay", sid, parts[st][sid].state))
       ELSE Replay(st)

(* The tap recorded in the session: a late one, which an unlock or a tap made *)
(* after it went ahead of (A13, A14), changes no stint of the student's but   *)
(* for the contact; any other joins, and ends the stints elsewhere.           *)
LandTap(st, n, sid, t) ==
    LET s == sessions[sid]
        at == Clamp(made[st][n].at, s)
        order == Order(st, n)
        late == \/ MadeSince(log[st], sid, s, order, "unlock")
                \/ TappedSince(log[st], order, sid)
        tap == PhoneRow(st, n, "tap_in", sid, at, IF late THEN "superseded" ELSE "none")
        ps == IF late THEN [parts[st] EXCEPT ![sid] = Heard(@)]
                      ELSE JoinedOnly(parts[st], sid)
        filed == Filed(st, n, sid, log[st] \cup {tap}, ps[sid])
        state == IF \E e \in filed : e.note = "none" THEN "unlocked" ELSE ps[sid].state
    IN [rows |-> {tap} \cup filed \cup BackRows(st, sid, t)
                 \cup (IF late THEN {} ELSE LeftRows(st, parts[st], sid, at)),
        parts |-> [ps EXCEPT ![sid].state = state],
        armed |-> armed[st],
        answer |-> IF Live(ps[sid])
                   THEN Answer(IF late THEN "replay" ELSE "joined", sid, state)
                   ELSE Answer("replay", NoSession, "none")]

(* tapIn, under the tap's, the student's and the session's locks. *)
TapIn_PastBell(st, n, sid, t) ==
    IF Recorded(st, n) # {} THEN ReplayTap(st, n, t)
    ELSE IF st \in deleted THEN Refuse(st, "ACCOUNT_DELETED")
    ELSE IF ~IsIn(st, sid) THEN Refuse(st, "not_enrolled")
    ELSE LandTap(st, n, sid, t)
TapIn(st, n, sid, t) ==
    IF Recorded(st, n) # {} THEN ReplayTap(st, n, t)
    ELSE IF ~Running(sessions[sid], t) THEN Refuse(st, "SESSION_NOT_RUNNING")
    ELSE IF st \in deleted THEN Refuse(st, "ACCOUNT_DELETED")
    ELSE IF ~IsIn(st, sid) THEN Refuse(st, "not_enrolled")
    ELSE LandTap(st, n, sid, t)

(* armTap, under the tap's advisory lock: a tap with no class running waits. *)
Waiting(st, teacher) ==
    {a \in armed[st] : a.waiting /\ made[st][a.id].teacher = teacher}
Stale(st, a, t) == a.expires =< t \/ Recorded(st, a.id) # {}
EndOfDay(t) == (t \div Day + 1) * Day

ArmTap(st, n, t) ==
    LET standing == Waiting(st, made[st][n].teacher)
        row == [id |-> n, expires |-> EndOfDay(t), waiting |-> TRUE]
        settled(outcome, rows) ==
            [NoChange(st, Answer(outcome, NoSession, "none")) EXCEPT !.armed = rows]
    IN IF Recorded(st, n) # {} THEN Replay(st)
       ELSE IF \E a \in armed[st] : a.id = n
            THEN IF \E a \in armed[st] : a.id = n /\ a.waiting /\ ~Stale(st, a, t)
                 THEN settled("already_armed", armed[st]) ELSE Replay(st)
       ELSE IF st \in deleted THEN Refuse(st, "ACCOUNT_DELETED")
       ELSE IF TappedSince(log[st], Order(st, n), NoSession)
            THEN settled("replay", armed[st] \cup {[row EXCEPT !.waiting = FALSE]})
       ELSE IF \E a \in standing : ~Stale(st, a, t)
            THEN settled("already_armed", armed[st])
       ELSE settled("armed", (armed[st] \ standing) \cup {row})
-----------------------------------------------------------------------------
(* Changes of a live stint: refocus, protection off and protection on, each  *)
(* one changeState under the session's row lock.  A return to focus is       *)
(* judged by the clock, protection off by the session's own mark of its end. *)

IsOver(type, s, t) == IF type = "protection_off" THEN s.endedAt # Never ELSE ~Running(s, t)

(* The states the change may be made from: protection is out only by a re-tap *)
(* or by turning it on, and it can be turned on only where it is off.         *)
Allowed(type, p) ==
    CASE type = "refocus" -> p.state # "protection_off"
      [] type = "protection_on" -> p.state = "protection_off"
      [] type = "protection_off" -> TRUE

(* A return the phone made before an unlock, or before an off, already here (A13). *)
IsLate(st, n, sid, type) ==
    /\ type # "protection_off"
    /\ MadeSince(log[st], sid, sessions[sid], Order(st, n),
                 IF type = "refocus" THEN "unlock" ELSE "protection_off")

(* protectionOn goes back to where the student was: stateBeforeOff. *)
NextState_Focused(st, sid, type) == IF type = "protection_off" THEN type ELSE "focused"
NextState(st, sid, type) ==
    CASE type = "refocus" -> "focused"
      [] type = "protection_off" -> "protection_off"
      [] type = "protection_on" ->
            IF NewestIs(Turns(log[st], sid), {"unlock"}) THEN "unlocked" ELSE "focused"

(* recordProtectionOffAfterEnd: evidence, for a stint the lesson itself ended. *)
OffAfterEnd(st, n, sid) ==
    IF parts[st][sid].ended \notin {"session_ended", "session_expired"}
    THEN Refuse(st, "SESSION_NOT_RUNNING")
    ELSE IF Recorded(st, n) # {}
         THEN IF \E e \in Recorded(st, n) : e.note = "after_session_end"
              THEN Replay(st) ELSE Refuse(st, "SESSION_NOT_RUNNING")
    ELSE [NoChange(st, Answer("recorded", NoSession, "none")) EXCEPT
             !.rows = {PhoneRow(st, n, "protection_off", sid,
                                Clamp(made[st][n].at, sessions[sid]), "after_session_end")}]

ReplayChange(st, type, sid) ==
    LET p == parts[st][sid]
    IN IF Live(p) THEN NoChange(st, Answer("replay", sid, p.state))
       ELSE IF p.ended = "no_row" \/ type = "protection_off"
            THEN Refuse(st, "NOT_PARTICIPATING")
       ELSE Replay(st)

ApplyChange(st, n, sid, type, t) ==
    LET late == IsLate(st, n, sid, type)
        state == IF late THEN parts[st][sid].state ELSE NextState(st, sid, type)
    IN [rows |-> {PhoneRow(st, n, type, sid, Clamp(made[st][n].at, sessions[sid]),
                           IF late THEN "superseded" ELSE "none")}
                 \cup BackRows(st, sid, t),
        parts |-> [parts[st] EXCEPT ![sid] = [Heard(@) EXCEPT !.state = state]],
        armed |-> armed[st],
        answer |-> Answer(IF late THEN "replay" ELSE "applied", sid, state)]

ChangeState(st, n, t) ==
    LET sid == made[st][n].session
        type == made[st][n].kind
    IN IF IsOver(type, sessions[sid], t)
       THEN IF type = "protection_off" THEN OffAfterEnd(st, n, sid)
            ELSE Refuse(st, "SESSION_NOT_RUNNING")
       ELSE IF Recorded(st, n) # {} THEN ReplayChange(st, type, sid)
       ELSE IF ~Live(parts[st][sid]) THEN Refuse(st, "NOT_PARTICIPATING")
       ELSE IF ~Allowed(type, parts[st][sid]) THEN Refuse(st, "PROTECTION")
       ELSE ApplyChange(st, n, sid, type, t)

(* changeUnlockReason (A20): only of the latest turn, only while it runs. *)
ChangeReason(st, n, t) ==
    LET unlock == {e \in log[st] : /\ e.id = made[st][n].claim /\ e.type = "unlock"
                                   /\ e.session # NoSession}
        sid == (CHOOSE e \in unlock : TRUE).session
        latest == {e \in Turns(log[st], sid) : \A f \in Turns(log[st], sid) : ~After(f, e)}
    IN IF unlock = {} THEN Refuse(st, "UNLOCK_NOT_FOUND")
       ELSE IF Recorded(st, n) # {} THEN Replay(st)
       ELSE IF ~Running(sessions[sid], t) THEN Refuse(st, "SESSION_NOT_RUNNING")
       ELSE IF latest \cap unlock = {} THEN Refuse(st, "UNLOCK_SUPERSEDED")
       ELSE [NoChange(st, Answer("applied", NoSession, "none")) EXCEPT
                !.rows = {[PhoneRow(st, n, "unlock_reason_changed", sid, t, "none")
                              EXCEPT !.order = NoOrder]}]

-----------------------------------------------------------------------------
(* The phone makes its records.  It names a session the server has named to  *)
(* it (one it has a stint in), or, for an unlock, the last tap it made.      *)

Make(st, record) ==
    /\ Len(made[st]) < MaxRecords
    /\ \E skew \in Skews :
          made' = [made EXCEPT ![st] = Append(@,
                      [kind |-> record.kind, session |-> record.session,
                       claim |-> record.claim, teacher |-> record.teacher,
                       at |-> now + skew, when |-> now, install |-> install[st],
                       place |-> Len(made[st]) + 1])]
    /\ UNCHANGED <<now, server, install, asking>>

Record(kind, session, claim, teacher) ==
    [kind |-> kind, session |-> session, claim |-> claim, teacher |-> teacher]

Known(st) == {sid \in SessionIds : parts[st][sid].ended # "no_row"}
MadeKind(st, kind) == {n \in DOMAIN made[st] : made[st][n].kind = kind
                                               /\ made[st][n].install = install[st]}

MakeTap(st) ==
    /\ "tap" \in Doings
    /\ \E te \in Teachers : Make(st, Record("tap", NoSession, 0, te))

MakeUnlock(st) ==
    /\ "unlock" \in Doings
    /\ \E sid \in Known(st) : Make(st, Record("unlock", sid, 0, NoTeacher))

MakeTapUnlock(st) ==
    /\ "tap_unlock" \in Doings
    /\ \E n \in MadeKind(st, "tap") :
          /\ \A m \in MadeKind(st, "tap") : m =< n
          /\ Make(st, Record("unlock", NoSession, n, NoTeacher))

MakeChange(st) ==
    \E type \in Doings \cap {"refocus", "protection_off", "protection_on"} :
        \E sid \in Known(st) : Make(st, Record(type, sid, 0, NoTeacher))

MakeReason(st) ==
    /\ "reason" \in Doings
    /\ \E n \in MadeKind(st, "unlock") :
          Make(st, Record("reason", NoSession, n, NoTeacher))

Reinstall(st) ==
    /\ "reinstall" \in Doings
    /\ install[st] < MaxInstalls
    /\ install' = [install EXCEPT ![st] = @ + 1]
    /\ UNCHANGED <<now, server, made, asking>>
-----------------------------------------------------------------------------
(* A record reaches the server, its answer heard or lost. *)

Handle(st, n, t) ==
    CASE made[st][n].kind = "unlock" -> Unlock(st, n, t)
      [] made[st][n].kind = "reason" -> ChangeReason(st, n, t)
      [] OTHER -> ChangeState(st, n, t)

(* A request names the session it is for, or an unlock's its tap. *)
Addressed(st, n) ==
    made[st][n].kind = "unlock" => made[st][n].session # NoSession \/ made[st][n].claim # 0

Reach(st, n) ==
    /\ made[st][n].kind # "tap" /\ Addressed(st, n)
    /\ \E t \in Clocks : t >= made[st][n].when /\ Commit(st, Handle(st, n, t))
    /\ UNCHANGED <<phones, asking>>

(* POST /v1/taps.  resolveTapTarget reads, with no lock, the open sessions of  *)
(* the block's teacher in the classes the student is in, the newest first; the *)
(* route takes the first running, else the first.                              *)
Newest(sids) == {sid \in sids : \A o \in sids : sessions[o].startedAt =< sessions[sid].startedAt}

ReadTarget(st, n, stage) ==
    LET open == {sid \in SessionIds : /\ Open(sid) /\ IsIn(st, sid)
                                      /\ TeacherOf[sessions[sid].class] = made[st][n].teacher}
        running == {sid \in open : Running(sessions[sid], now)}
    IN \E sid \in IF open = {} THEN {NoSession}
                  ELSE Newest(IF running # {} THEN running ELSE open) :
          asking' = [asking EXCEPT ![st] =
              [record |-> n, target |-> sid, ran |-> running # {}, at |-> now,
               stage |-> IF sid = NoSession THEN "arm" ELSE stage]]

AskTap(st, n) ==
    /\ asking[st] = Idle
    /\ st \notin deleted
    /\ made[st][n].kind = "tap"
    /\ ReadTarget(st, n, "tap")
    /\ UNCHANGED <<now, server, phones>>

TapTx(st) == TapIn(st, asking[st].record, asking[st].target, asking[st].at)

(* Where the route goes on this outcome of tapIn. *)
Onward_Insists(ask, outcome) ==
    CASE outcome = "SESSION_NOT_RUNNING" -> ask.stage
      [] outcome = "not_enrolled" -> IF ask.stage = "tap" THEN "reread" ELSE "arm"
      [] OTHER -> "idle"
Onward(ask, outcome) ==
    CASE outcome = "SESSION_NOT_RUNNING" /\ ~ask.ran -> "arm"
      [] outcome = "not_enrolled" -> IF ask.stage = "tap" THEN "reread" ELSE "arm"
      [] OTHER -> "idle"

TapLands(st) ==
    /\ asking[st].stage \in {"tap", "again"}
    /\ Commit(st, TapTx(st))
    /\ LET next == Onward(asking[st], TapTx(st).answer.outcome)
       IN asking' = [asking EXCEPT ![st] =
                        IF next = "idle" THEN Idle ELSE [@ EXCEPT !.stage = next]]
    /\ UNCHANGED phones

(* Found out of its class under the lock, the route reads afresh, once. *)
TapRereads(st) ==
    /\ asking[st].stage = "reread"
    /\ ReadTarget(st, asking[st].record, "again")
    /\ UNCHANGED <<now, server, phones>>

TapArms(st) ==
    /\ asking[st].stage = "arm"
    /\ Commit(st, ArmTap(st, asking[st].record, asking[st].at))
    /\ asking' = [asking EXCEPT ![st] = Idle]
    /\ UNCHANGED phones

-----------------------------------------------------------------------------
(* The lesson. *)

(* endHeldSession: the sessions over, and with them every stint still live. *)
EndedSessions(sids, t) ==
    [o \in SessionIds |-> IF o \in sids
                          THEN [sessions[o] EXCEPT !.endedAt = Clamp(t, sessions[o])]
                          ELSE sessions[o]]
EndedParts(sids, reason) ==
    [st \in Students |-> [o \in SessionIds |->
        IF o \in sids /\ Live(parts[st][o])
        THEN [parts[st][o] EXCEPT !.ended = reason]
        ELSE parts[st][o]]]

EndHeld(sid, t, reason) ==
    /\ sessions' = EndedSessions({sid}, t)
    /\ parts' = EndedParts({sid}, reason)
    /\ UNCHANGED <<now, enrolled, deleted, log, written, armed, phones, asking>>

(* convertArmedTaps, one student's: their waiting tap becomes a focused stint, *)
(* unless it had landed already or a tap made after it went ahead (A14).       *)
Converted(st, sid, s, ps, t) ==
    LET waiting == {a \in Waiting(st, TeacherOf[s.class]) : a.expires > t}
        a == CHOOSE b \in waiting : TRUE
        at == Clamp(made[st][a.id].at, s)
        late == TappedSince(log[st], Order(st, a.id), sid)
        tap == PhoneRow(st, a.id, "tap_in", sid, at, IF late THEN "superseded" ELSE "none")
        skip == [ServerRow(st, 2, "armed_tap_skipped", sid, s.startedAt) EXCEPT !.claim = a.id]
        spent == Recorded(st, a.id) # {}
    IN IF waiting = {} \/ <<st, s.class>> \notin enrolled
       THEN [rows |-> {}, parts |-> ps, armed |-> armed[st]]
       ELSE [rows |-> IF spent THEN {skip}
                      ELSE IF late THEN {tap} ELSE {tap} \cup LeftRows(st, ps, sid, at),
             parts |-> IF spent \/ late THEN ps ELSE JoinedOnly(ps, sid),
             armed |-> (armed[st] \ {a}) \cup {[a EXCEPT !.waiting = FALSE]}]

(* startSession: nothing where one runs, and one past its bell ends first (A18). *)
NoneRuns(c, t) == \A o \in SessionIds : Open(o) /\ sessions[o].class = c => ~Running(sessions[o], t)
PastBell(c) == {o \in SessionIds : Open(o) /\ sessions[o].class = c}

StartSession(c, sid, t, d) ==
    LET s == [class |-> c, startedAt |-> t, endsAt |-> t + d, endedAt |-> Never]
        base == EndedParts(PastBell(c), "session_expired")
        tx(st) == Converted(st, sid, s, base[st], t)
    IN /\ NoneRuns(c, t)
       /\ sessions' = [EndedSessions(PastBell(c), t) EXCEPT ![sid] = s]
       /\ parts' = [st \in Students |-> tx(st).parts]
       /\ armed' = [st \in Students |-> tx(st).armed]
       /\ log' = [st \in Students |-> log[st] \cup tx(st).rows]
       /\ written' = [st \in Students |->
             IF tx(st).rows = {} THEN written[st] ELSE written[st] + 1]
       /\ UNCHANGED <<now, enrolled, deleted, phones, asking>>

Start(c) ==
    \E d \in Lessons, t \in Clocks, sid \in SessionIds :
        /\ t + d =< MaxTime
        /\ ~Started(sid) /\ \A o \in 1..(sid - 1) : Started(o)
        /\ StartSession(c, sid, t, d)

(* extendSession: a bell only moves later, and never past the cap. *)
WithinCap_Any(sid, d) == TRUE
WithinCap(sid, d) == sessions[sid].endsAt + d - sessions[sid].startedAt =< MaxTotal

Extend(sid) ==
    /\ "extend" \in Doings
    /\ \E d \in Lessons, t \in Clocks :
          /\ Open(sid) /\ Running(sessions[sid], t)
          /\ WithinCap(sid, d)
          /\ sessions[sid].endsAt + d =< MaxTime
          /\ sessions' = [sessions EXCEPT ![sid].endsAt = @ + d]
    /\ UNCHANGED <<now, enrolled, deleted, parts, log, written, armed, phones, asking>>

(* The teacher's end, before the bell or after it. *)
End(sid) ==
    /\ "end" \in Doings
    /\ Open(sid)
    /\ \E t \in Clocks : EndHeld(sid, t, "session_ended")

(* The sweep: expireDueSessions, judged again under the session's lock. *)
IsDue_AfterTheBell(sid, t) == Open(sid) /\ sessions[sid].endsAt < t
IsDue(sid, t) == Open(sid) /\ sessions[sid].endsAt =< t
Sweep(sid) == \E t \in Clocks : IsDue(sid, t) /\ EndHeld(sid, t, "session_expired")

(* The sweep: a focused phone quiet past the threshold goes silent. *)
GoesSilent(p) == Live(p) /\ ~p.silent /\ p.quiet /\ p.state = "focused"
MarkSilent(st, sid) ==
    /\ "silence" \in Doings
    /\ GoesSilent(parts[st][sid])
    /\ Commit(st, [NoChange(st, Answer("silent", NoSession, "none")) EXCEPT
           !.rows = {ServerRow(st, 2, "went_silent", sid, Clamp(now, sessions[sid]))},
           !.parts[sid].silent = TRUE])
    /\ UNCHANGED <<phones, asking>>

CheckIn(st, sid) ==
    /\ "silence" \in Doings
    /\ Live(parts[st][sid])
    /\ \E t \in Clocks :
          Commit(st, [NoChange(st, Answer("live", sid, parts[st][sid].state)) EXCEPT
             !.rows = BackRows(st, sid, t),
             !.parts[sid] = Heard(@)])
    /\ UNCHANGED <<phones, asking>>

-----------------------------------------------------------------------------
(* Enrollments and the account. *)

JoinClass(st, c) ==
    /\ "join" \in Doings
    /\ written[st] < MaxWrites
    /\ st \notin deleted /\ <<st, c>> \notin enrolled
    /\ enrolled' = enrolled \cup {<<st, c>>}
    /\ log' = [log EXCEPT ![st] = @ \cup {ServerRow(st, 1, "enrollment_joined", NoSession, now)}]
    /\ written' = [written EXCEPT ![st] = @ + 1]
    /\ UNCHANGED <<now, sessions, deleted, parts, armed, phones, asking>>

(* endLiveEnrollment, of these classes: the stint in a class's open session, *)
(* past its bell or not, ends with the enrollment, and the row names it.     *)
DroppedParts_None(st, cs, reason) == parts[st]
DroppedParts(st, cs, reason) ==
    [o \in SessionIds |-> IF Open(o) /\ sessions[o].class \in cs /\ Live(parts[st][o])
                          THEN [parts[st][o] EXCEPT !.ended = reason] ELSE parts[st][o]]
DroppedRows(st, cs, type, t) ==
    LET stints == {o \in SessionIds : Open(o) /\ sessions[o].class \in cs /\ Live(parts[st][o])}
        others == {c \in cs : \A o \in stints : sessions[o].class # c}
    IN {ServerRow(st, 2, type, o, Clamp(t, sessions[o])) : o \in stints}
       \cup {ServerRow(st, 2, type, NoSession, t) : c \in others}

EndEnrollment(st, c, t, type, reason) ==
    /\ <<st, c>> \in enrolled
    /\ enrolled' = enrolled \ {<<st, c>>}
    /\ parts' = [parts EXCEPT ![st] = DroppedParts(st, {c}, reason)]
    /\ log' = [log EXCEPT ![st] = @ \cup DroppedRows(st, {c}, type, t)]
    /\ written' = [written EXCEPT ![st] = @ + 1]
    /\ UNCHANGED <<now, sessions, deleted, armed, phones, asking>>

(* A student may not leave a class that runs; a teacher may remove them. *)
LeaveClass(st, c) ==
    /\ "leave" \in Doings
    /\ \E t \in Clocks :
          NoneRuns(c, t) /\ EndEnrollment(st, c, t, "enrollment_left", "left_class")
RemoveFromClass(st, c) ==
    /\ "remove" \in Doings
    /\ \E t \in Clocks :
          EndEnrollment(st, c, t, "enrollment_removed", "removed_from_class")

(* deleteAccount: every class left, whatever runs; no tap waits any more; no *)
(* row keeps the phone's order.                                              *)
DeleteAccount(st) ==
    /\ "delete" \in Doings
    /\ st \notin deleted
    /\ \E t \in Clocks :
          LET cs == {c \in Classes : <<st, c>> \in enrolled}
          IN /\ enrolled' = enrolled \ ({st} \X Classes)
             /\ parts' = [parts EXCEPT ![st] = DroppedParts(st, cs, "left_class")]
             /\ log' = [log EXCEPT ![st] =
                   {[e EXCEPT !.order = NoOrder] : e \in @}
                   \cup DroppedRows(st, cs, "enrollment_left", t)
                   \cup {ServerRow(st, 3, "account_deleted", NoSession, t)}]
    /\ written' = [written EXCEPT ![st] = @ + 1]
    /\ armed' = [armed EXCEPT ![st] = {[a EXCEPT !.waiting = FALSE] : a \in @}]
    /\ deleted' = deleted \cup {st}
    /\ UNCHANGED <<now, sessions, phones, asking>>

-----------------------------------------------------------------------------
(* Time passes, while no request is older than Lag; every live phone is quiet *)
(* until it is heard from.                                                    *)
Tick ==
    /\ now < MaxTime
    /\ \A st \in Students : asking[st] # Idle => now - asking[st].at < Lag
    /\ now' = now + 1
    /\ parts' = [st \in Students |-> [sid \in SessionIds |->
          [parts[st][sid] EXCEPT !.quiet = "silence" \in Doings /\ Live(parts[st][sid])]]]
    /\ UNCHANGED <<sessions, enrolled, deleted, log, written, armed, phones, asking>>

Init ==
    /\ now = 0
    /\ sessions = [sid \in SessionIds |-> NotStarted]
    /\ enrolled = Roster0
    /\ deleted = {}
    /\ parts = [st \in Students |-> [sid \in SessionIds |-> NoRow]]
    /\ log = [st \in Students |-> {}]
    /\ written = [st \in Students |-> 0]
    /\ armed = [st \in Students |-> {}]
    /\ made = [st \in Students |-> <<>>]
    /\ install = [st \in Students |-> 1]
    /\ asking = [st \in Students |-> Idle]

Phone(st) ==
    \/ MakeTap(st) \/ MakeUnlock(st) \/ MakeTapUnlock(st) \/ MakeChange(st)
    \/ MakeReason(st) \/ Reinstall(st)
Request(st) ==
    \/ \E n \in DOMAIN made[st] : Reach(st, n) \/ AskTap(st, n)
    \/ TapLands(st) \/ TapRereads(st) \/ TapArms(st)
    \/ \E sid \in SessionIds : MarkSilent(st, sid) \/ CheckIn(st, sid)
Enrollment(st) ==
    \/ \E c \in Classes : JoinClass(st, c) \/ LeaveClass(st, c) \/ RemoveFromClass(st, c)
    \/ DeleteAccount(st)
Lesson ==
    \/ \E c \in Classes : Start(c)
    \/ \E sid \in SessionIds : Extend(sid) \/ End(sid) \/ Sweep(sid)

Next ==
    \/ \E st \in Students : Phone(st) \/ Request(st) \/ Enrollment(st)
    \/ Lesson
    \/ Tick

Spec == Init /\ [][Next]_vars

(* The sweep runs every minute (apps/api/src/sweep.ts), a request the server  *)
(* took it finishes, and a phone sends a record until it is answered.         *)
Fairness ==
    /\ WF_vars(Tick)
    /\ \A sid \in SessionIds : WF_vars(Sweep(sid))
    /\ \A st \in Students :
          /\ WF_vars(TapLands(st) \/ TapRereads(st) \/ TapArms(st))
          /\ \A n \in Records : WF_vars(n \in DOMAIN made[st] /\ Reach(st, n))

LiveSpec == Spec /\ Fairness
=============================================================================
