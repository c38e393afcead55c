----------------------------- MODULE Taps_proofs -----------------------------
(***************************************************************************)
(* That the order in which a phone made its records decides, and not the   *)
(* order they reached the server in, for every value of the constants: a   *)
(* live student is in the lesson of their last tap and in the state of     *)
(* their last turn, an unlock kept under a tap is filed where the tap      *)
(* lands, and an answer names a session only where the student then is.    *)
(*                                                                         *)
(* Every step of a student's log is one of four (LogSteps): rows of the    *)
(* server's own, a record that is no tap, a tap with the unlocks kept      *)
(* under it, or the end of the account.  Each invariant below is shown of  *)
(* the four.                                                               *)
(***************************************************************************)
EXTENDS Picture_proofs

-----------------------------------------------------------------------------
(* Answers. *)

LEMMA TapInNames ==
    ASSUME IInv, NEW st \in Students, NEW n \in DOMAIN made[st], NEW sid \in SessionIds, NEW t,
           LET tx == TapIn(st, n, sid, t) IN tx.answer.session # NoSession
    PROVE  LET tx == TapIn(st, n, sid, t)
               o == tx.answer.session
           IN /\ Live(tx.parts[o]) /\ tx.parts[o].state = tx.answer.state
              /\ Running(sessions[o], t) /\ IsIn(st, o)
<1> DEFINE tx == TapIn(st, n, sid, t)
           Names(x) == LET o == x.answer.session
                       IN o # NoSession => /\ Live(x.parts[o]) /\ x.parts[o].state = x.answer.state
                                           /\ Running(sessions[o], t) /\ IsIn(st, o)
<1>1. parts[st] \in [SessionIds -> PartType] /\ log[st] \in SUBSET RowType
    BY DEF IInv, TypeOK
<1>2. \A code : Names(Refuse(st, code)) /\ Names(Replay(st))
    BY DEF Refuse, Replay, NoChange, Answer
<1>3. ASSUME Recorded(st, n) # {}
      PROVE  Names(ReplayTap(st, n, t))
    <2> DEFINE o == (CHOOSE e \in Recorded(st, n) : TRUE).session
    <2>1. o \in SessionIds \cup {NoSession}
        <3>1. PICK e \in Recorded(st, n) : o = e.session
            BY <1>3
        <3>2. QED BY <1>1, <3>1 DEF Recorded, RowType
    <2>2. ASSUME Running(sessions[o], t), Live(parts[st][o]), o # NoSession
          PROVE  IsIn(st, o)
        BY <2>1, <2>2 DEF IInv, LiveIsEnrolled
    <2> HIDE DEF o
    <2>3. ASSUME Running(sessions[o], t), Live(parts[st][o])
          PROVE  Names(NoChange(st, Answer("replay", o, parts[st][o].state)))
        BY <2>2, <2>3 DEF NoChange, Answer
    <2> HIDE DEF Names
    <2>4. QED BY <1>2, <2>3 DEF ReplayTap, o
<1>4. ASSUME Running(sessions[sid], t), IsIn(st, sid)
      PROVE  Names(LandTap(st, n, sid, t))
    <2> DEFINE late == \/ MadeSince(log[st], sid, sessions[sid], Order(st, n), "unlock")
                       \/ TappedSince(log[st], Order(st, n), sid)
               note == IF late THEN "superseded" ELSE "none"
               tap == PhoneRow(st, n, "tap_in", sid, Clamp(made[st][n].at, sessions[sid]), note)
               ps == IF late THEN [parts[st] EXCEPT ![sid] = Heard(@)]
                     ELSE JoinedOnly(parts[st], sid)
               filed == Filed(st, n, sid, log[st] \cup {tap}, ps[sid])
               state == IF \E e \in filed : e.note = "none" THEN "unlocked" ELSE ps[sid].state
               x == LandTap(st, n, sid, t)
    <2>1. /\ x.parts = [ps EXCEPT ![sid].state = state]
          /\ x.answer = IF Live(ps[sid])
                        THEN Answer(IF late THEN "replay" ELSE "joined", sid, state)
                        ELSE Answer("replay", NoSession, "none")
        BY DEF LandTap
    <2>2. ps \in [SessionIds -> PartType]
        BY <1>1, JoinedOnlyOK, HeardType
    <2> HIDE DEF ps, state, late, x
    <2>3. x.parts[sid] = [ps[sid] EXCEPT !.state = state] /\ ps[sid] \in PartType
        BY <2>1, <2>2
    <2>4. x.parts[sid].state = state /\ x.parts[sid].ended = ps[sid].ended
        BY <2>3 DEF PartType
    <2>5. Names(x)
        BY <1>4, <2>1, <2>4 DEF Answer, Live
    <2>6. QED BY <2>5 DEF x
<1> HIDE DEF Names
<1>5. Names(tx)
    BY <1>2, <1>3, <1>4 DEF TapIn
<1>6. QED BY <1>5 DEF Names

LEMMA ChangeStateNames ==
    ASSUME IInv, NEW st \in Students, NEW n \in DOMAIN made[st], NEW t,
           made[st][n].kind \in {"refocus", "protection_on"},
           LET tx == ChangeState(st, n, t) IN tx.answer.session # NoSession
    PROVE  LET tx == ChangeState(st, n, t)
               o == tx.answer.session
           IN /\ Live(tx.parts[o]) /\ tx.parts[o].state = tx.answer.state
              /\ Running(sessions[o], t) /\ IsIn(st, o)
<1> DEFINE sid == made[st][n].session
           type == made[st][n].kind
           Names(x) == LET o == x.answer.session
                       IN o # NoSession => /\ Live(x.parts[o]) /\ x.parts[o].state = x.answer.state
                                           /\ Running(sessions[o], t) /\ IsIn(st, o)
<1>1. parts[st] \in [SessionIds -> PartType] /\ sid \in SessionIds
    BY MadeRecord DEF IInv, TypeOK, Referring, MadeType
<1>2. \A code : Names(Refuse(st, code)) /\ Names(Replay(st))
    BY DEF Refuse, Replay, NoChange, Answer
<1>3. Live(parts[st][sid]) => IsIn(st, sid)
    BY <1>1 DEF IInv, LiveIsEnrolled
<1>4. IsOver(type, sessions[sid], t) <=> ~Running(sessions[sid], t)
    BY DEF IsOver
<1>5. ASSUME Running(sessions[sid], t)
      PROVE  Names(ReplayChange(st, type, sid))
    <2>1. ASSUME Live(parts[st][sid])
          PROVE  Names(NoChange(st, Answer("replay", sid, parts[st][sid].state)))
        BY <1>3, <1>5, <2>1 DEF NoChange, Answer
    <2> HIDE DEF Names
    <2>2. QED BY <1>2, <2>1 DEF ReplayChange
<1>6. ASSUME Running(sessions[sid], t), Live(parts[st][sid])
      PROVE  Names(ApplyChange(st, n, sid, type, t))
    <2> DEFINE late == IsLate(st, n, sid, type)
               state == IF late THEN parts[st][sid].state ELSE NextState(st, sid, type)
               x == ApplyChange(st, n, sid, type, t)
    <2>1. /\ x.parts = [parts[st] EXCEPT ![sid] = [Heard(@) EXCEPT !.state = state]]
          /\ x.answer = Answer(IF late THEN "replay" ELSE "applied", sid, state)
        BY DEF ApplyChange
    <2> HIDE DEF state, late, x
    <2>2. x.parts[sid] = [Heard(parts[st][sid]) EXCEPT !.state = state]
        BY <1>1, <2>1
    <2>3. Heard(parts[st][sid]) \in PartType /\ Heard(parts[st][sid]).ended = parts[st][sid].ended
        BY <1>1, HeardType
    <2>4. x.parts[sid].state = state /\ x.parts[sid].ended = parts[st][sid].ended
        BY <2>2, <2>3 DEF PartType
    <2>5. x.answer.session = sid /\ x.answer.state = state
        BY <2>1 DEF Answer
    <2>6. Live(x.parts[sid])
        BY <1>6, <2>4 DEF Live
    <2>7. Running(sessions[sid], t) /\ IsIn(st, sid)
        BY <1>3, <1>6
    <2>8. Names(x)
        BY <2>4, <2>5, <2>6, <2>7
    <2>9. QED BY <2>8 DEF x
<1> HIDE DEF Names
<1>7. Names(ChangeState(st, n, t))
    BY <1>2, <1>4, <1>5, <1>6 DEF ChangeState
<1>8. QED BY <1>7 DEF Names

(* Whatever is recorded already and whoever asks again, an answer to a tap or *)
(* a return names a session only where the student is then live, in the state *)
(* it names (tapIn, changeState; A4).                                         *)
THEOREM AnswersAreTrue == Spec => []AnswersNameTrueSessions
<1>1. IInv => AnswersNameTrueSessions
    <2> SUFFICES ASSUME IInv, NEW st \in Students, NEW t \in Clocks, NEW n \in DOMAIN made[st],
                        NEW tx, tx \in CASE made[st][n].kind = "tap" ->
                                             {TapIn(st, n, sid, t) :
                                                 sid \in {o \in SessionIds : Open(o)}}
                                        [] made[st][n].kind \in {"refocus", "protection_on"} ->
                                             {ChangeState(st, n, t)}
                                        [] OTHER -> {},
                        tx.answer.session # NoSession
                 PROVE  LET o == tx.answer.session
                        IN /\ Live(tx.parts[o]) /\ tx.parts[o].state = tx.answer.state
                           /\ Running(sessions[o], t) /\ IsIn(st, o)
        BY DEF AnswersNameTrueSessions
    <2>1. CASE made[st][n].kind = "tap"
        <3>1. PICK sid \in SessionIds : tx = TapIn(st, n, sid, t)
            BY <2>1
        <3>2. QED BY <3>1, TapInNames
    <2>2. CASE made[st][n].kind \in {"refocus", "protection_on"}
        <3>1. tx = ChangeState(st, n, t)
            BY <2>2
        <3>2. QED BY <2>2, <3>1, ChangeStateNames
    <2>3. QED BY <2>1, <2>2
<1>2. QED BY <1>1, Invariance, PTL

-----------------------------------------------------------------------------
(* What a step writes of one student. *)

TurnTypes == {"tap_in", "refocus", "unlock"}

(* A row of the server's own: of no record, no order and no turn. *)
Plain(st, e) ==
    /\ e.id = 0 /\ e.from = 0 /\ e.order = NoOrder /\ e.type \notin TurnTypes
    /\ e.tx = written[st] + 1 /\ e.place =< 3

(* The row of a record not recorded before. *)
OwnOf(st, n, e) ==
    /\ n \in DOMAIN made[st] /\ Recorded(st, n) = {}
    /\ e.id = n /\ e.from = 0 /\ e.claim = made[st][n].claim
    /\ e.order = NoOrder \/ e.order = Order(st, n)
    /\ e.tx = written[st] + 1 /\ e.place = 1

(* No stint begins, and none is forgotten. *)
StintsStay(st, ps) ==
    \A sid \in SessionIds : /\ Live(ps[sid]) => Live(parts[st][sid])
                            /\ ps[sid].ended = "no_row" => parts[st][sid].ended = "no_row"

(* A tap that waits no more has waited. *)
SpentStay(st, waits) ==
    \A a \in armed[st] : ~a.waiting => \E b \in waits : b.id = a.id /\ ~b.waiting

(* Rows of the server's own. *)
Plainly(st, rows, ps, waits) ==
    /\ \A e \in rows : Plain(st, e)
    /\ StintsStay(st, ps) /\ SpentStay(st, waits)

(* A record that is no tap: an unlock kept, or noted by what is there; a      *)
(* return, late or not; or another change.                                    *)
UnlockTrue(st, n, e) ==
    IF e.session = NoSession
    THEN e.note = "unknown_tap" => /\ e.claim # 0
                                   /\ \A f \in log[st] : f.id = e.claim => f.type # "tap_in"
    ELSE e.note = UnlockNote(log[st], parts[st][e.session], e.session, e.at, Order(st, n))
RefocusTrue(st, n, e) ==
    /\ e.session \in SessionIds /\ Live(parts[st][e.session])
    /\ e.note = IF MadeSince(log[st], e.session, sessions[e.session], Order(st, n), "unlock")
                THEN "superseded" ELSE "none"
ActTrue(st, n, e) ==
    /\ e.type # "tap_in"
    /\ e.type = "unlock" => UnlockTrue(st, n, e)
    /\ e.type = "refocus" => RefocusTrue(st, n, e)

Acts(st, rows, ps, waits) ==
    \E n, e : /\ OwnOf(st, n, e) /\ ActTrue(st, n, e)
              /\ e \in rows /\ \A f \in rows : f = e \/ Plain(st, f)
              /\ StintsStay(st, ps) /\ SpentStay(st, waits)

(* A tap: late for what is there, or joining; with the unlocks kept under it  *)
(* filed, or, for one that waited for a Start, none and marked spent.         *)
TapTrue(st, n, e, late) ==
    /\ e.type = "tap_in" /\ e.session \in SessionIds
    /\ e.order = Order(st, n) /\ e.note = IF late THEN "superseded" ELSE "none"
    /\ late <=> \/ TappedSince(log[st], e.order, e.session)
                \/ \E a \in Of(log[st], e.session, {"unlock"}) : MadeAfter(a, e.order)
TapLeaves(st, e, late, ps) ==
    IF late THEN StintsStay(st, ps)
    ELSE \A o \in SessionIds :
            /\ Live(ps[o]) => o = e.session
            /\ ps[o].ended = "no_row" => parts[st][o].ended = "no_row" /\ o # e.session
TapFiles(st, n, e, late, filed) ==
    \E p : /\ filed = Filed(st, n, e.session, log[st] \cup {e}, p)
           /\ p.ended = "no_row" => late /\ parts[st][e.session].ended = "no_row"
           /\ InWindow(e, sessions[e.session])
Unfiled(n, filed, waits) == filed = {} /\ \E b \in waits : b.id = n /\ ~b.waiting

Taps(st, rows, ps, waits) ==
    \E n, e, filed : \E late \in BOOLEAN :
        /\ OwnOf(st, n, e) /\ TapTrue(st, n, e, late) /\ TapLeaves(st, e, late, ps)
        /\ e \in rows /\ filed \subseteq rows
        /\ \A f \in rows : f = e \/ f \in filed \/ Plain(st, f)
        /\ TapFiles(st, n, e, late, filed) \/ Unfiled(n, filed, waits)
        /\ SpentStay(st, waits) /\ st \notin deleted

Writes(st, rows, ps, waits) ==
    Plainly(st, rows, ps, waits) \/ Acts(st, rows, ps, waits) \/ Taps(st, rows, ps, waits)

WritesTx(st, tx) == Writes(st, tx.rows, tx.parts, tx.armed)

-----------------------------------------------------------------------------
(* Transactions. *)

LEMMA PlainRow ==
    ASSUME NEW st, NEW place, place =< 3, NEW type, type \notin TurnTypes, NEW sid, NEW at
    PROVE  Plain(st, ServerRow(st, place, type, sid, at))
BY DEF Plain, ServerRow

LEMMA PlainBack ==
    ASSUME NEW st, NEW sid, NEW t
    PROVE  \A e \in BackRows(st, sid, t) : Plain(st, e)
<1>1. ASSUME NEW e \in BackRows(st, sid, t)
      PROVE  \E at : e = ServerRow(st, 3, "came_back", sid, at)
    BY <1>1 DEF BackRows
<1>2. QED BY <1>1, PlainRow DEF TurnTypes

LEMMA PlainLeft ==
    ASSUME NEW st, NEW ps, NEW sid, NEW at
    PROVE  \A e \in LeftRows(st, ps, sid, at) : Plain(st, e)
<1>1. ASSUME NEW e \in LeftRows(st, ps, sid, at)
      PROVE  \E o : e = ServerRow(st, 2, "left_for_other_session", o, at)
    BY <1>1 DEF LeftRows
<1>2. QED BY <1>1, PlainRow DEF TurnTypes

LEMMA PlainDropped ==
    ASSUME NEW st, NEW cs, NEW type, type \notin TurnTypes, NEW t
    PROVE  \A e \in DroppedRows(st, cs, type, t) : Plain(st, e)
<1>1. ASSUME NEW e \in DroppedRows(st, cs, type, t)
      PROVE  \E o, at : e = ServerRow(st, 2, type, o, at)
    BY <1>1 DEF DroppedRows
<1>2. QED BY <1>1, PlainRow

LEMMA OwnOfRow ==
    ASSUME NEW st, NEW n \in DOMAIN made[st], Recorded(st, n) = {},
           NEW type, NEW sid, NEW at, NEW note
    PROVE  LET e == PhoneRow(st, n, type, sid, at, note)
           IN OwnOf(st, n, e) /\ e.type = type /\ e.session = sid /\ e.at = at /\ e.note = note
BY DEF PhoneRow, ServerRow, KeptOrder, OwnOf

LEMMA StintsAsTheyAre ==
    ASSUME NEW st
    PROVE  StintsStay(st, parts[st]) /\ SpentStay(st, armed[st])
BY DEF StintsStay, SpentStay

LEMMA NoChangeWrites ==
    ASSUME NEW st, NEW answer, NEW code
    PROVE  /\ WritesTx(st, NoChange(st, answer))
           /\ WritesTx(st, Refuse(st, code))
           /\ WritesTx(st, Replay(st))
<1>1. ASSUME NEW any
      PROVE  WritesTx(st, NoChange(st, any))
    BY StintsAsTheyAre DEF NoChange, WritesTx, Writes, Plainly
<1>2. QED BY <1>1 DEF Refuse, Replay

(* Being heard from, whatever the state after it, ends and begins no stint. *)
LEMMA HeardStays ==
    ASSUME TypeOK, NEW st \in Students, NEW sid \in SessionIds, NEW q,
           q.ended = parts[st][sid].ended
    PROVE  StintsStay(st, [parts[st] EXCEPT ![sid] = q])
<1>1. parts[st] \in [SessionIds -> PartType]
    BY DEF TypeOK
<1>2. QED BY <1>1 DEF StintsStay, Live

LEMMA HeardEnds ==
    ASSUME TypeOK, NEW st \in Students, NEW sid \in SessionIds, NEW state
    PROVE  LET p == parts[st][sid]
           IN Heard(p).ended = p.ended /\ [Heard(p) EXCEPT !.state = state].ended = p.ended
BY DEF TypeOK, PartType, Heard

LEMMA OneAct ==
    ASSUME NEW st, NEW n, NEW e, OwnOf(st, n, e), ActTrue(st, n, e),
           NEW rows, e \in rows, \A f \in rows : f = e \/ Plain(st, f),
           NEW tx, tx.rows = rows, StintsStay(st, tx.parts), tx.armed = armed[st]
    PROVE  WritesTx(st, tx)
BY StintsAsTheyAre DEF WritesTx, Writes, Acts

LEMMA OrphanWrites ==
    ASSUME NEW st, NEW n \in DOMAIN made[st], NEW note,
           note = "unknown_tap" => /\ made[st][n].claim # 0
                                   /\ \A f \in log[st] : f.id = made[st][n].claim => f.type # "tap_in"
    PROVE  WritesTx(st, Orphan(st, n, note))
<1> DEFINE row == PhoneRow(st, n, "unlock", NoSession, now, note)
           tx == [NoChange(st, Answer("recorded", NoSession, "none")) EXCEPT !.rows = {row}]
<1>1. tx.rows = {row} /\ tx.parts = parts[st] /\ tx.armed = armed[st]
    BY DEF NoChange
<1>2. ASSUME Recorded(st, n) = {}
      PROVE  WritesTx(st, tx)
    <2>1. /\ OwnOf(st, n, row) /\ row.type = "unlock" /\ row.session = NoSession
          /\ row.note = note
        BY <1>2, OwnOfRow
    <2> HIDE DEF row, tx
    <2>2. ActTrue(st, n, row)
        BY <2>1 DEF ActTrue, UnlockTrue, OwnOf
    <2>3. QED BY <1>1, <2>1, <2>2, OneAct, StintsAsTheyAre
<1> HIDE DEF tx
<1>3. QED BY <1>2, NoChangeWrites DEF Orphan, tx

LEMMA UnlockInWrites ==
    ASSUME TypeOK, NEW st \in Students, NEW n \in DOMAIN made[st], NEW sid \in SessionIds, NEW t
    PROVE  WritesTx(st, UnlockIn(st, n, sid, t))
<1> DEFINE p == parts[st][sid]
           at == Clamp(made[st][n].at, sessions[sid])
           note == UnlockNote(log[st], p, sid, at, Order(st, n))
           state == IF note = "none" THEN "unlocked" ELSE p.state
           row == PhoneRow(st, n, "unlock", sid, at, note)
           q == [Heard(p) EXCEPT !.state = state]
<1>1. ASSUME NEW answer, Recorded(st, n) = {}
      PROVE  WritesTx(st, [rows |-> {row} \cup BackRows(st, sid, t),
                           parts |-> [parts[st] EXCEPT ![sid] = q],
                           armed |-> armed[st], answer |-> answer])
    <2> DEFINE tx == [rows |-> {row} \cup BackRows(st, sid, t),
                      parts |-> [parts[st] EXCEPT ![sid] = q],
                      armed |-> armed[st], answer |-> answer]
    <2>1. /\ OwnOf(st, n, row) /\ row.type = "unlock" /\ row.session = sid
          /\ row.at = at /\ row.note = note
        BY <1>1, OwnOfRow
    <2>2. StintsStay(st, [parts[st] EXCEPT ![sid] = q])
        <3>1. q.ended = p.ended
            BY HeardEnds
        <3> HIDE DEF q
        <3>2. QED BY <3>1, HeardStays
    <2>3. /\ tx.rows = {row} \cup BackRows(st, sid, t) /\ tx.armed = armed[st]
          /\ tx.parts = [parts[st] EXCEPT ![sid] = q]
        OBVIOUS
    <2>4. sid # NoSession
        BY DEF SessionIds, NoSession
    <2>5. ActTrue(st, n, row)
        <3> HIDE DEF row
        <3>1. QED BY <2>1, <2>4 DEF ActTrue, UnlockTrue
    <2> HIDE DEF row, tx, q
    <2>6. \A f \in {row} \cup BackRows(st, sid, t) : f = row \/ Plain(st, f)
        BY PlainBack
    <2>7. WritesTx(st, tx)
        BY <2>1, <2>2, <2>3, <2>5, <2>6, OneAct
    <2>8. QED BY <2>7 DEF tx
<1>2. WritesTx(st, Orphan(st, n, "not_enrolled"))
    BY OrphanWrites
<1>3. QED BY <1>1, <1>2, NoChangeWrites DEF UnlockIn

LEMMA UnlockWrites ==
    ASSUME TypeOK, NEW st \in Students, NEW n \in DOMAIN made[st], NEW t,
           made[st][n].kind = "unlock", Addressed(st, n)
    PROVE  WritesTx(st, Unlock(st, n, t))
<1>1. made[st][n] \in MadeType
    BY MadeRecord
<1>2. CASE made[st][n].claim = 0
    <2>1. made[st][n].session \in SessionIds
        BY <1>1, <1>2 DEF Addressed, MadeType
    <2>2. QED BY <1>2, <2>1, UnlockInWrites DEF Unlock
<1>3. CASE made[st][n].claim # 0
    <2> DEFINE claim == made[st][n].claim
               own == Recorded(st, n)
               landed == IF own # {} THEN own ELSE {e \in Recorded(st, claim) : e.type = "tap_in"}
               sid == (CHOOSE e \in landed : e.session # NoSession).session
               note == IF \E a \in armed[st] : a.id = claim THEN "tap_armed" ELSE "unknown_tap"
    <2>1. \A e \in landed : e \in RowType
        BY DEF TypeOK, Recorded
    <2>2. CASE \E e \in landed : e.session # NoSession
        <3>1. sid \in SessionIds
            <4> HIDE DEF landed
            <4>1. QED BY <2>1, <2>2 DEF RowType
        <3>2. QED BY <1>3, <2>2, <3>1, UnlockInWrites DEF Unlock, UnlockUnderTap
    <2>3. CASE ~\E e \in landed : e.session # NoSession
        <3>1. Unlock(st, n, t) = Orphan(st, n, note)
            BY <1>3, <2>3 DEF Unlock, UnlockUnderTap
        <3>2. CASE own = {}
            <4>1. \A f \in log[st] : f.id = claim => f.type # "tap_in"
                BY <2>3, <3>2 DEF Recorded, TypeOK, Referring
            <4> HIDE DEF note
            <4>2. QED BY <1>3, <3>1, <4>1, OrphanWrites
        <3>3. CASE own # {}
            <4>1. \A any : WritesTx(st, Refuse(st, any)) /\ WritesTx(st, Replay(st))
                BY NoChangeWrites
            <4>2. QED BY <3>1, <3>3, <4>1 DEF Orphan
        <3>4. QED BY <3>2, <3>3
    <2>4. QED BY <2>2, <2>3
<1>4. QED BY <1>2, <1>3

LEMMA ApplyChangeWrites ==
    ASSUME TypeOK, NEW st \in Students, NEW n \in DOMAIN made[st], NEW sid \in SessionIds,
           NEW type \in {"refocus", "protection_off", "protection_on"}, NEW t,
           Live(parts[st][sid]), Recorded(st, n) = {}
    PROVE  WritesTx(st, ApplyChange(st, n, sid, type, t))
<1> DEFINE p == parts[st][sid]
           late == IsLate(st, n, sid, type)
           state == IF late THEN p.state ELSE NextState(st, sid, type)
           note == IF late THEN "superseded" ELSE "none"
           row == PhoneRow(st, n, type, sid, Clamp(made[st][n].at, sessions[sid]), note)
           q == [Heard(p) EXCEPT !.state = state]
           tx == ApplyChange(st, n, sid, type, t)
<1>1. OwnOf(st, n, row) /\ row.type = type /\ row.session = sid /\ row.note = note
    BY OwnOfRow
<1>2. /\ tx.rows = {row} \cup BackRows(st, sid, t) /\ tx.armed = armed[st]
      /\ tx.parts = [parts[st] EXCEPT ![sid] = q]
    BY DEF ApplyChange, TypeOK
<1>3. StintsStay(st, [parts[st] EXCEPT ![sid] = q])
    <2>1. q.ended = p.ended
        BY HeardEnds
    <2> HIDE DEF q
    <2>2. QED BY <2>1, HeardStays
<1>4. type = "refocus" =>
          (late <=> MadeSince(log[st], sid, sessions[sid], Order(st, n), "unlock"))
    BY DEF IsLate
<1> HIDE DEF row, late, q, tx
<1>5. ActTrue(st, n, row)
    BY <1>1, <1>4 DEF ActTrue, RefocusTrue
<1>6. \A f \in {row} \cup BackRows(st, sid, t) : f = row \/ Plain(st, f)
    BY PlainBack
<1>7. WritesTx(st, tx)
    BY <1>1, <1>2, <1>3, <1>5, <1>6, OneAct
<1>8. QED BY <1>7 DEF tx

(* One row of the phone's that is no turn, and no stint changed. *)
LEMMA LoneRow ==
    ASSUME NEW st, NEW n, NEW e, OwnOf(st, n, e), e.type \notin TurnTypes,
           NEW tx, tx.rows = {e}, tx.parts = parts[st], tx.armed = armed[st]
    PROVE  WritesTx(st, tx)
BY OneAct, StintsAsTheyAre DEF ActTrue, TurnTypes

LEMMA OffAfterEndWrites ==
    ASSUME NEW st, NEW n \in DOMAIN made[st], NEW sid
    PROVE  WritesTx(st, OffAfterEnd(st, n, sid))
<1> DEFINE row == PhoneRow(st, n, "protection_off", sid,
                           Clamp(made[st][n].at, sessions[sid]), "after_session_end")
           tx == [NoChange(st, Answer("recorded", NoSession, "none")) EXCEPT !.rows = {row}]
<1>1. ASSUME Recorded(st, n) = {}
      PROVE  WritesTx(st, tx)
    <2>1. tx.rows = {row} /\ tx.parts = parts[st] /\ tx.armed = armed[st]
        BY DEF NoChange
    <2>2. OwnOf(st, n, row) /\ row.type = "protection_off"
        BY <1>1, OwnOfRow
    <2> HIDE DEF row, tx
    <2>3. QED BY <2>1, <2>2, LoneRow DEF TurnTypes
<1> HIDE DEF tx
<1>2. QED BY <1>1, NoChangeWrites DEF OffAfterEnd, tx

LEMMA ChangeStateWrites ==
    ASSUME TypeOK, NEW st \in Students, NEW n \in DOMAIN made[st], NEW t,
           made[st][n].kind \in {"refocus", "protection_off", "protection_on"}
    PROVE  WritesTx(st, ChangeState(st, n, t))
<1>1. made[st][n].session \in SessionIds
    <2>1. made[st][n] \in MadeType
        BY MadeRecord
    <2>2. Referring
        BY DEF TypeOK
    <2>3. made[st][n].session # NoSession
        BY <2>2 DEF Referring
    <2>4. QED BY <2>1, <2>3 DEF MadeType
<1>2. QED BY <1>1, NoChangeWrites, OffAfterEndWrites, ApplyChangeWrites
          DEF ChangeState, ReplayChange

LEMMA ChangeReasonWrites ==
    ASSUME NEW st, NEW n \in DOMAIN made[st], NEW t
    PROVE  WritesTx(st, ChangeReason(st, n, t))
<1> DEFINE unlock == {e \in log[st] : /\ e.id = made[st][n].claim /\ e.type = "unlock"
                                      /\ e.session # NoSession}
           sid == (CHOOSE e \in unlock : TRUE).session
           base == PhoneRow(st, n, "unlock_reason_changed", sid, t, "none")
           row == [base EXCEPT !.order = NoOrder]
           tx == [NoChange(st, Answer("applied", NoSession, "none")) EXCEPT !.rows = {row}]
<1>1. ASSUME Recorded(st, n) = {}
      PROVE  WritesTx(st, tx)
    <2>1. tx.rows = {row} /\ tx.parts = parts[st] /\ tx.armed = armed[st]
        BY DEF NoChange
    <2>2. OwnOf(st, n, row) /\ row.type = "unlock_reason_changed"
        BY <1>1 DEF OwnOf, PhoneRow, ServerRow
    <2> HIDE DEF row, tx
    <2>3. QED BY <2>1, <2>2, LoneRow DEF TurnTypes
<1> HIDE DEF sid, row, tx
<1>2. QED BY <1>1, NoChangeWrites DEF ChangeReason, sid, row, tx

LEMMA HandleWrites ==
    ASSUME TypeOK, NEW st \in Students, NEW n \in DOMAIN made[st], NEW t,
           made[st][n].kind # "tap", Addressed(st, n)
    PROVE  WritesTx(st, Handle(st, n, t))
<1>1. made[st][n].kind \in Kinds
    BY MadeRecord DEF MadeType
<1>2. QED BY <1>1, UnlockWrites, ChangeReasonWrites, ChangeStateWrites DEF Handle, Kinds

(* Arming takes away only what waits. *)
LEMMA ArmTapWrites ==
    ASSUME NEW st, NEW n, NEW t
    PROVE  WritesTx(st, ArmTap(st, n, t))
<1>1. ASSUME NEW outcome, NEW rows, SpentStay(st, rows)
      PROVE  WritesTx(st, [NoChange(st, Answer(outcome, NoSession, "none")) EXCEPT !.armed = rows])
    BY <1>1, StintsAsTheyAre DEF NoChange, WritesTx, Writes, Plainly
<1>2. \A any : /\ SpentStay(st, armed[st]) /\ SpentStay(st, armed[st] \cup {any})
               /\ SpentStay(st, (armed[st] \ Waiting(st, made[st][n].teacher)) \cup {any})
    BY DEF SpentStay, Waiting
<1>3. QED BY <1>1, <1>2, NoChangeWrites DEF ArmTap

LEMMA ContactWrites ==
    ASSUME TypeOK, NEW st \in Students, NEW sid \in SessionIds, NEW t
    PROVE  WritesTx(st, SilentTx(st, sid)) /\ WritesTx(st, CheckInTx(st, sid, t))
<1> DEFINE row == ServerRow(st, 2, "went_silent", sid, Clamp(now, sessions[sid]))
           p == parts[st][sid]
           q == [p EXCEPT !.silent = TRUE]
<1>1. /\ SilentTx(st, sid).rows = {row} /\ SilentTx(st, sid).armed = armed[st]
      /\ SilentTx(st, sid).parts = [parts[st] EXCEPT ![sid] = q]
    BY DEF SilentTx, NoChange, TypeOK
<1>2. /\ CheckInTx(st, sid, t).rows = BackRows(st, sid, t)
      /\ CheckInTx(st, sid, t).armed = armed[st]
      /\ CheckInTx(st, sid, t).parts = [parts[st] EXCEPT ![sid] = Heard(p)]
    BY DEF CheckInTx, NoChange, TypeOK
<1>3. Plain(st, row)
    BY PlainRow DEF TurnTypes
<1>4. q.ended = p.ended /\ Heard(p).ended = p.ended
    BY HeardEnds DEF TypeOK, PartType
<1>5. StintsStay(st, [parts[st] EXCEPT ![sid] = q])
      /\ StintsStay(st, [parts[st] EXCEPT ![sid] = Heard(p)])
    <2> HIDE DEF q, p
    <2>1. QED BY <1>4, HeardStays DEF p
<1> HIDE DEF row, q, p
<1>6. QED BY <1>1, <1>2, <1>3, <1>5, PlainBack, StintsAsTheyAre DEF WritesTx, Writes, Plainly

(* In a session that has started, an unlock recorded is in its window, so a   *)
(* tap is late for it whenever the phone made it after the tap.               *)
LEMMA LateIs ==
    ASSUME Standing, NEW st \in Students, NEW sid \in SessionIds, NEW order
    PROVE  MadeSince(log[st], sid, sessions[sid], order, "unlock") <=>
               \E a \in Of(log[st], sid, {"unlock"}) : MadeAfter(a, order)
<1>1. LogTold(st) /\ sid # NoSession
    BY StandingStint DEF SessionIds, NoSession
<1>2. \A a \in Of(log[st], sid, {"unlock"}) : InWindow(a, sessions[sid])
    BY <1>1 DEF Of, LogTold, InSession, HeldTypes
<1>3. QED BY <1>2 DEF MadeSince

LEMMA JoinedOnlyEnds ==
    ASSUME NEW ps \in [SessionIds -> PartType], NEW sid \in SessionIds
    PROVE  \A o \in SessionIds :
               /\ Live(JoinedOnly(ps, sid)[o]) => o = sid
               /\ JoinedOnly(ps, sid)[o].ended = "no_row" => o # sid /\ ps[o].ended = "no_row"
<1>1. \A p \in PartType : [p EXCEPT !.ended = "left_for_other_session"].ended # "no_row"
    BY DEF PartType
<1>2. \A o \in SessionIds : JoinedOnly(ps, sid)[o] =
          IF o = sid THEN Fresh
          ELSE IF o \in LiveElsewhere(ps, sid)
               THEN [ps[o] EXCEPT !.ended = "left_for_other_session"] ELSE ps[o]
    BY DEF JoinedOnly
<1>3. Fresh.ended # "no_row"
    BY DEF Fresh
<1>4. QED BY <1>1, <1>2, <1>3, JoinedOnlyOK

LEMMA LandTapWrites ==
    ASSUME Standing, NEW st \in Students, st \notin deleted, NEW n \in DOMAIN made[st],
           Recorded(st, n) = {}, NEW sid \in SessionIds, NEW t \in Nat, Open(sid)
    PROVE  WritesTx(st, LandTap(st, n, sid, t))
<1> DEFINE at == Clamp(made[st][n].at, sessions[sid])
           late == \/ MadeSince(log[st], sid, sessions[sid], Order(st, n), "unlock")
                   \/ TappedSince(log[st], Order(st, n), sid)
           note == IF late THEN "superseded" ELSE "none"
           tap == PhoneRow(st, n, "tap_in", sid, at, note)
           ps == IF late THEN [parts[st] EXCEPT ![sid] = Heard(@)] ELSE JoinedOnly(parts[st], sid)
           filed == Filed(st, n, sid, log[st] \cup {tap}, ps[sid])
           state == IF \E e \in filed : e.note = "none" THEN "unlocked" ELSE ps[sid].state
           left == IF late THEN {} ELSE LeftRows(st, parts[st], sid, at)
           qs == [ps EXCEPT ![sid].state = state]
           tx == LandTap(st, n, sid, t)
<1>1. TypeOK /\ parts[st] \in [SessionIds -> PartType] /\ Started(sid)
    BY StandingStint DEF TypeOK, Open
<1>2. /\ tx.rows = {tap} \cup filed \cup BackRows(st, sid, t) \cup left
      /\ tx.parts = qs /\ tx.armed = armed[st]
    BY DEF LandTap
<1>3. /\ OwnOf(st, n, tap) /\ tap.type = "tap_in" /\ tap.session = sid /\ tap.note = note
      /\ tap.order = Order(st, n)
    <2>1. tap.order = Order(st, n)
        BY DEF PhoneRow, ServerRow, KeptOrder
    <2>2. QED BY <2>1, OwnOfRow
<1>4. InWindow(tap, sessions[sid])
    <2>1. note \in Notes /\ "tap_in" \in RowTypes
        BY DEF Notes, RowTypes
    <2>2. sid # NoSession
        BY DEF SessionIds, NoSession
    <2> HIDE DEF note
    <2>3. InSession(tap)
        BY <1>1, <2>1, PhoneRowNew
    <2> HIDE DEF tap
    <2>4. QED BY <1>3, <2>2, <2>3 DEF InSession, HeldTypes
<1>5. late <=> \/ TappedSince(log[st], Order(st, n), sid)
               \/ \E a \in Of(log[st], sid, {"unlock"}) : MadeAfter(a, Order(st, n))
    BY LateIs
<1>6. /\ ps \in [SessionIds -> PartType]
      /\ late => \A o \in SessionIds : ps[o].ended = parts[st][o].ended
      /\ ~late => \A o \in SessionIds :
                     /\ Live(ps[o]) => o = sid
                     /\ ps[o].ended = "no_row" => o # sid /\ parts[st][o].ended = "no_row"
    <2>1. CASE late
        <3>1. ps = [parts[st] EXCEPT ![sid] = Heard(parts[st][sid])]
            BY <2>1
        <3>2. Heard(parts[st][sid]) \in PartType /\ Heard(parts[st][sid]).ended = parts[st][sid].ended
            BY <1>1, HeardType
        <3> HIDE DEF ps, late
        <3>3. QED BY <1>1, <2>1, <3>1, <3>2
    <2>2. CASE ~late
        <3>1. ps = JoinedOnly(parts[st], sid)
            BY <2>2
        <3> HIDE DEF ps, late
        <3>2. QED BY <1>1, <2>2, <3>1, JoinedOnlyOK, JoinedOnlyEnds
    <2>3. QED BY <2>1, <2>2
<1> HIDE DEF late
<1>7. late \in BOOLEAN
    BY DEF late
<1> DEFINE same == \A o \in SessionIds : qs[o].ended = ps[o].ended
<1>8. same
    <2> HIDE DEF ps, state
    <2>1. \A p \in PartType : [p EXCEPT !.state = state].ended = p.ended
        BY DEF PartType
    <2>2. \A o \in SessionIds : qs[o] = IF o = sid THEN [ps[o] EXCEPT !.state = state] ELSE ps[o]
        BY <1>6
    <2> HIDE DEF qs
    <2>3. QED BY <1>6, <2>1, <2>2
<1>9. TapTrue(st, n, tap, late)
    <2> HIDE DEF tap
    <2>1. QED BY <1>3, <1>5 DEF TapTrue
<1>10. TapFiles(st, n, tap, late, filed)
    <2>1. filed = Filed(st, n, tap.session, log[st] \cup {tap}, ps[sid])
        BY <1>3
    <2>2. ps[sid].ended = "no_row" => late /\ parts[st][sid].ended = "no_row"
        <3> HIDE DEF ps
        <3>1. QED BY <1>6
    <2> HIDE DEF filed, tap, ps
    <2>3. QED BY <1>3, <1>4, <2>1, <2>2 DEF TapFiles
<1> HIDE DEF tap, filed, ps, qs
<1>11. TapLeaves(st, tap, late, qs)
    BY <1>3, <1>6, <1>8 DEF TapLeaves, StintsStay, Live
<1>12. \A f \in tx.rows : f = tap \/ f \in filed \/ Plain(st, f)
    BY <1>2, PlainBack, PlainLeft
<1>13. tap \in tx.rows /\ filed \subseteq tx.rows
    BY <1>2
<1> HIDE DEF tx
<1>14. Taps(st, tx.rows, tx.parts, tx.armed)
    BY <1>2, <1>3, <1>7, <1>9, <1>10, <1>11, <1>12, <1>13, StintsAsTheyAre DEF Taps
<1>15. QED BY <1>14 DEF WritesTx, Writes, tx

LEMMA OwnTxWrites ==
    ASSUME Standing, NEW st \in Students, NEW tx, OwnTx(st, tx)
    PROVE  WritesTx(st, tx)
<1>1. TypeOK
    BY StandingStint
<1>2. ASSUME NEW n \in DOMAIN made[st], NEW sid \in SessionIds, NEW t \in Nat
      PROVE  WritesTx(st, TapIn(st, n, sid, t))
    <2>1. WritesTx(st, ReplayTap(st, n, t))
        BY NoChangeWrites DEF ReplayTap
    <2>2. ASSUME Running(sessions[sid], t), IsIn(st, sid)
          PROVE  Open(sid)
        BY <1>1, <2>2, RunningIsOpen
    <2>3. QED BY <2>1, <2>2, NoChangeWrites, LandTapWrites DEF TapIn
<1>3. QED BY <1>1, <1>2, HandleWrites, ArmTapWrites, ContactWrites DEF OwnTx

(* A Start in which the student's waiting tap becomes a stint, or is passed over. *)
LEMMA BeginsWrites ==
    ASSUME Standing, Filing, NEW st \in Students, NEW c \in Classes,
           NEW sid \in SessionIds, NEW t \in Nat, NEW d \in Nat, Begins(st, c, sid, t, d)
    PROVE  WritesTx(st, Conversion(st, c, sid, t, d))
<1> DEFINE s == NewLesson(c, t, d)
           ps == LeftOver(c)[st]
           waiting == Awaits(st, c, t)
           a == CHOOSE b \in waiting : TRUE
           at == Clamp(made[st][a.id].at, s)
           late == TappedSince(log[st], Order(st, a.id), sid)
           note == IF late THEN "superseded" ELSE "none"
           tap == PhoneRow(st, a.id, "tap_in", sid, at, note)
           base == ServerRow(st, 2, "armed_tap_skipped", sid, s.startedAt)
           skip == [base EXCEPT !.claim = a.id]
           gone == [a EXCEPT !.waiting = FALSE]
           spent == Recorded(st, a.id) # {}
           left == LeftRows(st, ps, sid, at)
           tx == Conversion(st, c, sid, t, d)
<1>1. TypeOK /\ LogTold(st) /\ ~Started(sid) /\ sid # NoSession
    BY StandingStint DEF Begins, SessionIds, NoSession
<1>2. waiting # {} /\ <<st, c>> \in enrolled
    BY DEF Begins
<1>3. st \notin deleted
    BY <1>2 DEF Filing, DeletedLeavesNothing
<1>4. /\ tx.rows = IF spent THEN {skip} ELSE IF late THEN {tap} ELSE {tap} \cup left
      /\ tx.parts = IF spent \/ late THEN ps ELSE JoinedOnly(ps, sid)
      /\ tx.armed = (armed[st] \ {a}) \cup {gone}
    <2>1. s.class = c
        BY DEF NewLesson
    <2>2. waiting = {b \in Waiting(st, TeacherOf[s.class]) : b.expires > t}
        BY <2>1 DEF Awaits
    <2>3. <<st, s.class>> \in enrolled
        BY <1>2, <2>1
    <2> HIDE DEF waiting, s
    <2>4. QED BY <1>2, <2>2, <2>3 DEF Conversion, Converted, s
<1>5. /\ a \in armed[st] /\ a.waiting /\ a.id \in DOMAIN made[st]
      /\ gone.id = a.id /\ ~gone.waiting
    <2>1. a \in waiting
        BY <1>2
    <2>2. \A b \in waiting : b \in armed[st] /\ b.waiting
        BY DEF Awaits, Waiting
    <2> HIDE DEF a, waiting
    <2>3. a \in ArmedType /\ a.id \in DOMAIN made[st]
        BY <1>1, <2>1, <2>2 DEF TypeOK, Referring
    <2>4. QED BY <2>1, <2>2, <2>3 DEF ArmedType
<1>6. /\ ps \in [SessionIds -> PartType]
      /\ StintsStay(st, ps)
    <2>1. "session_expired" \in Endings
        BY DEF Endings
    <2>2. /\ EndedParts(PastBell(c), "session_expired") \in [Students -> [SessionIds -> PartType]]
          /\ \A o \in SessionIds : Live(ps[o]) => Live(parts[st][o])
        BY <1>1, <2>1, EndedPartsOK DEF LeftOver
    <2>3. \A o \in SessionIds : parts[st][o] \in PartType
        BY <1>1 DEF TypeOK
    <2>4. \A p \in PartType : [p EXCEPT !.ended = "session_expired"].ended # "no_row"
        BY DEF PartType
    <2>5. \A o \in SessionIds : ps[o].ended = "no_row" => parts[st][o].ended = "no_row"
        BY <2>3, <2>4 DEF LeftOver, EndedParts
    <2>6. QED BY <2>2, <2>5 DEF LeftOver, StintsStay
<1> HIDE DEF a, ps, gone
<1>7. SpentStay(st, tx.armed)
    BY <1>4, <1>5 DEF SpentStay
<1>8. CASE spent
    <2>1. Plain(st, skip)
        BY DEF Plain, ServerRow, NoOrder, TurnTypes
    <2> HIDE DEF skip
    <2>2. tx.rows = {skip} /\ tx.parts = ps
        BY <1>4, <1>8
    <2> HIDE DEF tx
    <2>3. Plainly(st, tx.rows, tx.parts, tx.armed)
        BY <1>6, <1>7, <2>1, <2>2 DEF Plainly
    <2>4. QED BY <2>3 DEF WritesTx, Writes, tx
<1>9. CASE ~spent
    <2>1. /\ OwnOf(st, a.id, tap) /\ tap.type = "tap_in" /\ tap.session = sid /\ tap.note = note
          /\ tap.order = Order(st, a.id)
        <3>1. tap.order = Order(st, a.id)
            BY <1>3 DEF PhoneRow, ServerRow, KeptOrder
        <3>2. QED BY <1>5, <1>9, <3>1, OwnOfRow
    <2>2. Of(log[st], sid, {"unlock"}) = {}
        BY <1>1 DEF Of, LogTold, InSession
    <2>3. late \in BOOLEAN
        BY DEF TappedSince
    <2>4. TapTrue(st, a.id, tap, late)
        <3> HIDE DEF tap
        <3>1. QED BY <2>1, <2>2 DEF TapTrue
    <2>5. tx.parts = IF late THEN ps ELSE JoinedOnly(ps, sid)
        BY <1>4, <1>9
    <2>6. TapLeaves(st, tap, late, tx.parts)
        <3> HIDE DEF tap, tx, late
        <3>1. QED BY <1>6, <2>1, <2>5, JoinedOnlyEnds DEF TapLeaves, StintsStay
    <2>7. Unfiled(a.id, {}, tx.armed)
        <3> HIDE DEF tx
        <3>1. QED BY <1>4, <1>5 DEF Unfiled, tx
    <2> HIDE DEF tap, at
    <2>8. tap \in tx.rows /\ \A f \in tx.rows : f = tap \/ Plain(st, f)
        BY <1>4, <1>9, PlainLeft
    <2> HIDE DEF tx, late
    <2>9. Taps(st, tx.rows, tx.parts, tx.armed)
        <3>1. {} \subseteq tx.rows
            OBVIOUS
        <3>2. QED BY <1>3, <1>7, <2>1, <2>3, <2>4, <2>6, <2>7, <2>8, <3>1 DEF Taps
    <2>10. QED BY <2>9 DEF WritesTx, Writes, tx
<1>10. QED BY <1>8, <1>9

-----------------------------------------------------------------------------
(* Steps. *)

(* What a step starts from, and ends in. *)
Ground == Standing /\ Filing

(* The end of the account. *)
Closes(st) ==
    /\ \E rows : log'[st] = Bare(log[st]) \cup rows /\ \A e \in rows : Plain(st, e)
    /\ written'[st] = written[st] + 1
    /\ st \in deleted'
    /\ \A a \in armed[st] : \E b \in armed'[st] : b.id = a.id
    /\ \A sid \in SessionIds : parts'[st][sid].ended = "no_row" => parts[st][sid].ended = "no_row"

Grows(st) ==
    \E rows : /\ log'[st] = log[st] \cup rows
              /\ Writes(st, rows, parts'[st], armed'[st])
              /\ written'[st] = (IF rows = {} THEN written[st] ELSE written[st] + 1)

LEMMA LogSteps ==
    ASSUME Ground, [Next]_vars, NEW st \in Students
    PROVE  Grows(st) \/ Closes(st)
<1>1. Standing /\ Filing /\ IInv /\ TypeOK
    BY StandingStint DEF Ground, Standing
<1>2. CASE Rests(st)
    <2>1. /\ log'[st] = log[st] \cup {} /\ written'[st] = written[st]
          /\ armed'[st] = armed[st]
        BY <1>2 DEF Rests
    <2>2. StintsStay(st, parts'[st])
        BY <1>2 DEF Rests, StintsStay
    <2>3. Writes(st, {}, parts'[st], armed'[st])
        BY <2>1, <2>2, StintsAsTheyAre DEF Writes, Plainly
    <2>4. QED BY <2>1, <2>3 DEF Grows
<1>3. ASSUME NEW tx, OwnTx(st, tx), Does(st, tx)
      PROVE  Grows(st)
    BY <1>1, <1>3, OwnTxWrites DEF Does, WritesTx, Grows
<1>4. ASSUME NEW c \in Classes, NEW sid \in SessionIds, NEW t \in Nat, NEW d \in Nat,
             Begins(st, c, sid, t, d)
      PROVE  Grows(st)
    <2> DEFINE tx == Conversion(st, c, sid, t, d)
    <2>1. WritesTx(st, tx)
        BY <1>1, <1>4, BeginsWrites
    <2>2. /\ log'[st] = log[st] \cup tx.rows /\ written'[st] = written[st] + 1
          /\ parts'[st] = tx.parts /\ armed'[st] = tx.armed
        BY <1>4 DEF Begins
    <2>3. tx.rows # {}
        <3>1. Awaits(st, c, t) # {} /\ <<st, c>> \in enrolled
            BY <1>4 DEF Begins
        <3>2. NewLesson(c, t, d).class = c
            BY DEF NewLesson
        <3>3. QED BY <3>1, <3>2 DEF Conversion, Converted, Awaits
    <2> HIDE DEF tx
    <2>4. QED BY <2>1, <2>2, <2>3 DEF WritesTx, Grows
<1>5. ASSUME NEW rows, rows # {}, \A e \in rows : Plain(st, e), log'[st] = log[st] \cup rows,
             written'[st] = written[st] + 1, armed'[st] = armed[st], StintsStay(st, parts'[st])
      PROVE  Grows(st)
    BY <1>5, StintsAsTheyAre DEF Grows, Writes, Plainly
<1>6. ASSUME NEW c \in Classes, JoinClass(st, c)
      PROVE  Grows(st)
    <2> DEFINE row == ServerRow(st, 1, "enrollment_joined", NoSession, now)
    <2>1. Plain(st, row)
        BY PlainRow DEF TurnTypes
    <2>2. /\ log'[st] = log[st] \cup {row} /\ written'[st] = written[st] + 1
          /\ armed'[st] = armed[st] /\ parts'[st] = parts[st]
        BY <1>1, <1>6 DEF JoinClass, TypeOK
    <2>3. StintsStay(st, parts'[st])
        BY <2>2, StintsAsTheyAre
    <2> DEFINE rows == {row}
    <2>4. rows # {} /\ (\A e \in rows : Plain(st, e)) /\ log'[st] = log[st] \cup rows
        BY <2>1, <2>2
    <2> HIDE DEF row, rows
    <2>5. QED BY <1>5, <2>2, <2>3, <2>4
<1>7. ASSUME NEW cs, NEW reason \in Endings
      PROVE  /\ StintsStay(st, DroppedParts(st, cs, reason))
    <2>1. \A p \in PartType : [p EXCEPT !.ended = reason].ended = reason
        BY DEF PartType
    <2>2. reason \notin {"live", "no_row"}
        BY <1>7 DEF Endings
    <2>3. \A o \in SessionIds : parts[st][o] \in PartType
        BY <1>1 DEF TypeOK
    <2>4. QED BY <2>1, <2>2, <2>3 DEF StintsStay, DroppedParts, Live
<1>8. ASSUME NEW c \in Classes, NEW t \in Nat, NEW reason \in Endings,
             NEW type \in {"enrollment_left", "enrollment_removed"},
             EndEnrollment(st, c, t, type, reason)
      PROVE  Grows(st)
    <2> DEFINE rows == DroppedRows(st, {c}, type, t)
    <2>1. \A e \in rows : Plain(st, e)
        BY PlainDropped DEF TurnTypes
    <2>2. /\ log'[st] = log[st] \cup rows /\ written'[st] = written[st] + 1
          /\ armed'[st] = armed[st] /\ parts'[st] = DroppedParts(st, {c}, reason)
        BY <1>1, <1>8 DEF EndEnrollment, TypeOK
    <2>3. rows # {}
        BY DEF DroppedRows
    <2> HIDE DEF rows
    <2>4. QED BY <1>5, <1>7, <2>1, <2>2, <2>3
<1>9. ASSUME DeleteAccount(st)
      PROVE  Closes(st)
    <2> DEFINE cs == {c \in Classes : <<st, c>> \in enrolled}
               row(t) == ServerRow(st, 3, "account_deleted", NoSession, t)
    <2>1. PICK t \in Clocks :
              /\ parts' = [parts EXCEPT ![st] = DroppedParts(st, cs, "left_class")]
              /\ log' = [log EXCEPT ![st] = {[e EXCEPT !.order = NoOrder] : e \in log[st]}
                                            \cup DroppedRows(st, cs, "enrollment_left", t)
                                            \cup {row(t)}]
        BY <1>9 DEF DeleteAccount
    <2>2. /\ written' = [written EXCEPT ![st] = written[st] + 1]
          /\ armed' = [armed EXCEPT ![st] = {[a EXCEPT !.waiting = FALSE] : a \in armed[st]}]
          /\ st \in deleted'
        BY <1>9 DEF DeleteAccount
    <2>3. /\ parts'[st] = DroppedParts(st, cs, "left_class")
          /\ log'[st] = Bare(log[st]) \cup (DroppedRows(st, cs, "enrollment_left", t) \cup {row(t)})
          /\ written'[st] = written[st] + 1
          /\ armed'[st] = {[a EXCEPT !.waiting = FALSE] : a \in armed[st]}
        BY <1>1, <2>1, <2>2 DEF TypeOK, Bare
    <2>4. Plain(st, row(t))
        BY PlainRow DEF TurnTypes
    <2>5. \A e \in DroppedRows(st, cs, "enrollment_left", t) : Plain(st, e)
        BY PlainDropped DEF TurnTypes
    <2>6. StintsStay(st, DroppedParts(st, cs, "left_class"))
        BY <1>7 DEF Endings
    <2>7. \A a \in armed[st] : [a EXCEPT !.waiting = FALSE].id = a.id
        BY <1>1 DEF TypeOK, ArmedType
    <2> DEFINE rows == DroppedRows(st, cs, "enrollment_left", t) \cup {row(t)}
    <2>8. \A e \in rows : Plain(st, e)
        BY <2>4, <2>5
    <2>9. \A a \in armed[st] : \E b \in armed'[st] : b.id = a.id
        BY <2>3, <2>7
    <2>10. log'[st] = Bare(log[st]) \cup rows
        BY <2>3
    <2>11. \A sid \in SessionIds : parts'[st][sid].ended = "no_row" => parts[st][sid].ended = "no_row"
        BY <2>3, <2>6 DEF StintsStay
    <2> HIDE DEF rows
    <2>12. QED BY <2>2, <2>3, <2>8, <2>9, <2>10, <2>11 DEF Closes
<1>10. QED BY <1>1, <1>2, <1>3, <1>4, <1>6, <1>8, <1>9, StudentSteps DEF StudentStep

(* What a phone made stays as it made it, and is numbered in that order. *)
LEMMA MadeGrows ==
    ASSUME TypeOK, TypeOK', [Next]_vars, NEW st \in Students
    PROVE  /\ \A n \in DOMAIN made[st] : n \in DOMAIN made'[st] /\ made'[st][n] = made[st][n]
           /\ \A n \in DOMAIN made'[st] : n \in DOMAIN made[st] \/ made'[st][n].place = n
<1>1. made[st] \in Seq(MadeType) /\ made \in [Students -> Seq(MadeType)]
    BY DEF TypeOK
<1>2. CASE made' = made
    BY <1>2
<1>3. ASSUME NEW s \in Students, NEW record, Make(s, record)
      PROVE  /\ \A n \in DOMAIN made[st] : n \in DOMAIN made'[st] /\ made'[st][n] = made[st][n]
             /\ \A n \in DOMAIN made'[st] : n \in DOMAIN made[st] \/ made'[st][n].place = n
    <2> DEFINE recorded(skew) ==
            [kind |-> record.kind, session |-> record.session, claim |-> record.claim,
             teacher |-> record.teacher, at |-> now + skew, when |-> now,
             install |-> install[s], place |-> Len(made[s]) + 1]
    <2>0. PICK skew : made' = [made EXCEPT ![s] = Append(made[s], recorded(skew))]
        BY <1>3 DEF Make
    <2> DEFINE new == recorded(skew)
    <2>1. made' = [made EXCEPT ![s] = Append(made[s], new)] /\ new.place = Len(made[s]) + 1
        BY <2>0
    <2> HIDE DEF new
    <2>2. CASE s # st
        BY <1>1, <2>1, <2>2
    <2>3. CASE s = st
        <3>1. made'[st] = Append(made[st], new)
            BY <1>1, <2>1, <2>3
        <3>2. QED BY <1>1, <2>1, <2>3, <3>1
    <2>4. QED BY <2>2, <2>3
<1>4. CASE \E s \in Students : Phone(s)
    <2>1. \E s \in Students : Reinstall(s) \/ \E record : Make(s, record)
        BY <1>4 DEF Phone, MakeTap, MakeUnlock, MakeTapUnlock, MakeChange, MakeReason
    <2>2. QED BY <1>2, <1>3, <2>1 DEF Reinstall
<1>5. CASE \E s \in Students : Request(s) \/ Enrollment(s)
    <2>1. ASSUME NEW s \in Students, Request(s)
          PROVE  made' = made
        BY <2>1 DEF Request, Reach, AskTap, TapLands, TapRereads, TapArms, MarkSilent, CheckIn,
                    phones
    <2>2. ASSUME NEW s \in Students, Enrollment(s)
          PROVE  made' = made
        <3>1. \A c, t, type, reason : EndEnrollment(s, c, t, type, reason) => made' = made
            BY DEF EndEnrollment, phones
        <3>2. DeleteAccount(s) => made' = made
            BY DEF DeleteAccount, phones
        <3>3. \A c : JoinClass(s, c) => made' = made
            BY DEF JoinClass, phones
        <3>4. QED BY <2>2, <3>1, <3>2, <3>3 DEF Enrollment, LeaveClass, RemoveFromClass
    <2>3. QED BY <1>2, <1>5, <2>1, <2>2
<1>6. CASE Lesson \/ Tick \/ UNCHANGED vars
    <2>1. \A c, sid, t, d : StartSession(c, sid, t, d) => made' = made
        BY DEF StartSession, phones
    <2>2. \A sid, t, reason : EndHeld(sid, t, reason) => made' = made
        BY DEF EndHeld, phones
    <2>3. \A sid : Extend(sid) => made' = made
        BY DEF Extend, phones
    <2>4. Tick \/ UNCHANGED vars => made' = made
        BY DEF Tick, phones, vars
    <2>5. \A c : Start(c) => made' = made
        BY <2>1 DEF Start
    <2>6. \A sid : End(sid) \/ Sweep(sid) => made' = made
        BY <2>2 DEF End, Sweep
    <2>7. made' = made
        BY <1>6, <2>3, <2>4, <2>5, <2>6 DEF Lesson
    <2>8. QED BY <1>2, <2>7
<1>7. QED BY <1>4, <1>5, <1>6 DEF Next

(* An unlock filed where its tap landed. *)
FiledFrom(st, n, sid, h, p, k, f) ==
    /\ f.id = 0 /\ f.from = k.id /\ f.claim = n /\ f.session = sid /\ f.type = "unlock"
    /\ f.order = NoOrder \/ f.order = k.order
    /\ f.note = UnlockNote(h, p, sid, f.at, k.order)
    /\ f.tx = written[st] + 1 /\ f.place = 3 + k.tx

LEMMA FiledIs ==
    ASSUME NEW st, NEW n, NEW sid, NEW h, NEW p
    PROVE  /\ \A f \in Filed(st, n, sid, h, p) :
                 \E k \in Kept(st, n) : FiledFrom(st, n, sid, h, p, k, f)
           /\ \A k \in Kept(st, n) :
                 \E f \in Filed(st, n, sid, h, p) : FiledFrom(st, n, sid, h, p, k, f)
           /\ (\A k, l \in Kept(st, n) : k.id = l.id => k = l) =>
                 \A f, g \in Filed(st, n, sid, h, p) : f.from = g.from => f = g
<1> DEFINE at(k) == Clamp(made[st][k.id].at, sessions[sid])
           filing(k) == [ServerRow(st, 3 + k.tx, "unlock", sid, at(k)) EXCEPT
                            !.order = KeptOrder(st, k.order), !.claim = n, !.from = k.id,
                            !.note = UnlockNote(h, p, sid, at(k), k.order)]
<1>1. Filed(st, n, sid, h, p) = {filing(k) : k \in Kept(st, n)}
    BY DEF Filed
<1>2. \A k : FiledFrom(st, n, sid, h, p, k, filing(k))
    <2>1. ASSUME NEW k
          PROVE  /\ filing(k).id = 0 /\ filing(k).from = k.id /\ filing(k).claim = n
                 /\ filing(k).session = sid /\ filing(k).type = "unlock"
                 /\ filing(k).order = KeptOrder(st, k.order) /\ filing(k).at = at(k)
                 /\ filing(k).note = UnlockNote(h, p, sid, at(k), k.order)
                 /\ filing(k).tx = written[st] + 1 /\ filing(k).place = 3 + k.tx
        BY DEF ServerRow
    <2> HIDE DEF filing, at
    <2>2. QED BY <2>1 DEF FiledFrom, KeptOrder
<1> HIDE DEF filing
<1>3. \A f \in Filed(st, n, sid, h, p) :
          \E k \in Kept(st, n) : f = filing(k) /\ FiledFrom(st, n, sid, h, p, k, f)
    BY <1>1, <1>2
<1>4. \A k \in Kept(st, n) :
          \E f \in Filed(st, n, sid, h, p) : FiledFrom(st, n, sid, h, p, k, f)
    BY <1>1, <1>2
<1>5. ASSUME \A k, l \in Kept(st, n) : k.id = l.id => k = l,
             NEW f \in Filed(st, n, sid, h, p), NEW g \in Filed(st, n, sid, h, p),
             f.from = g.from
      PROVE  f = g
    <2>1. PICK k \in Kept(st, n) : f = filing(k) /\ FiledFrom(st, n, sid, h, p, k, f)
        BY <1>3
    <2>2. PICK l \in Kept(st, n) : g = filing(l) /\ FiledFrom(st, n, sid, h, p, l, g)
        BY <1>3
    <2>3. k = l
        BY <1>5, <2>1, <2>2 DEF FiledFrom
    <2>4. QED BY <2>1, <2>2, <2>3
<1>6. QED BY <1>3, <1>4, <1>5

(* Every row a step adds is the server's, a record's, or an unlock filed. *)
LEMMA NewRowIs ==
    ASSUME NEW st, NEW rows, NEW ps, NEW waits, Writes(st, rows, ps, waits), NEW e \in rows
    PROVE  \/ Plain(st, e)
           \/ \E n : OwnOf(st, n, e)
           \/ \E n, sid, h, p : \E k \in Kept(st, n) : FiledFrom(st, n, sid, h, p, k, e)
<1>1. CASE Plainly(st, rows, ps, waits)
    BY <1>1 DEF Plainly
<1>2. CASE Acts(st, rows, ps, waits)
    BY <1>2 DEF Acts
<1>3. CASE Taps(st, rows, ps, waits)
    <2>1. PICK n, o, filed, late : /\ OwnOf(st, n, o) /\ (e = o \/ e \in filed \/ Plain(st, e))
                                   /\ TapFiles(st, n, o, late, filed) \/ Unfiled(n, filed, waits)
        BY <1>3 DEF Taps
    <2>2. CASE e \in filed
        <3>1. PICK p : filed = Filed(st, n, o.session, log[st] \cup {o}, p)
            BY <2>1, <2>2 DEF TapFiles, Unfiled
        <3>2. \E k \in Kept(st, n) : FiledFrom(st, n, o.session, log[st] \cup {o}, p, k, e)
            BY <2>2, <3>1, FiledIs
        <3>3. QED BY <3>2
    <2>3. QED BY <2>1, <2>2
<1>4. QED BY <1>1, <1>2, <1>3 DEF Writes

LEMMA BareRow ==
    ASSUME NEW h \in SUBSET RowType, NEW e \in Bare(h)
    PROVE  /\ e.order = NoOrder
           /\ \E f \in h : /\ e = [f EXCEPT !.order = NoOrder]
                           /\ e.tx = f.tx /\ e.place = f.place /\ e.id = f.id
                           /\ e.type = f.type /\ e.session = f.session /\ e.note = f.note
                           /\ e.claim = f.claim /\ e.from = f.from
<1>1. PICK f \in h : e = [f EXCEPT !.order = NoOrder]
    BY DEF Bare
<1>2. f \in RowType
    OBVIOUS
<1>3. QED BY <1>1, <1>2 DEF RowType

LEMMA BareOf ==
    ASSUME NEW h \in SUBSET RowType, NEW f \in h
    PROVE  \E e \in Bare(h) : /\ e.id = f.id /\ e.type = f.type /\ e.session = f.session
                              /\ e.note = f.note /\ e.claim = f.claim /\ e.from = f.from
<1> DEFINE e == [f EXCEPT !.order = NoOrder]
<1>1. e \in Bare(h)
    BY DEF Bare
<1>2. f \in RowType
    OBVIOUS
<1>3. /\ e.id = f.id /\ e.type = f.type /\ e.session = f.session
      /\ e.note = f.note /\ e.claim = f.claim /\ e.from = f.from
    BY <1>2 DEF RowType
<1> HIDE DEF e
<1>4. QED BY <1>1, <1>3

-----------------------------------------------------------------------------
(* Numbers. *)

(* A phone's place of a record is the record's, and a row's place in the      *)
(* phone's order that of a record recorded.                                   *)
Numbered(st) ==
    /\ \A n \in DOMAIN made[st] : made[st][n].place = n
    /\ \A e \in log[st] : e.id = 0 \/ e.id \in DOMAIN made[st]
    /\ \A e \in log[st] : e.order.install # 0 =>
          \E k \in log[st] : k.id # 0 /\ k.id = e.order.seq

LEMMA RecordNumber ==
    ASSUME TypeOK, NEW st \in Students, NEW n \in DOMAIN made[st]
    PROVE  n \in Nat /\ n # 0
<1>1. made[st] \in Seq(MadeType)
    BY DEF TypeOK
<1>2. QED BY <1>1

LEMMA OwnNumber ==
    ASSUME TypeOK, NEW st \in Students, Numbered(st), NEW n, NEW e, OwnOf(st, n, e),
           e.order.install # 0
    PROVE  e.order = Order(st, n) /\ e.order.seq = n /\ e.id = n /\ n # 0
<1>1. e.order = Order(st, n)
    BY DEF OwnOf, NoOrder
<1>2. made[st][n].place = n /\ n \in DOMAIN made[st] /\ e.id = n
    BY DEF Numbered, OwnOf
<1>3. e.order.seq = made[st][n].place
    BY <1>1 DEF Order, NoOrder
<1>4. QED BY <1>1, <1>2, <1>3, RecordNumber

(* The record not recorded before has a number no row has. *)
LEMMA NewNumber ==
    ASSUME TypeOK, NEW st \in Students, Numbered(st), NEW n, NEW e, OwnOf(st, n, e),
           NEW f \in log[st], f.order.install # 0
    PROVE  f.order.seq # n
<1>1. PICK k \in log[st] : k.id # 0 /\ k.id = f.order.seq
    BY DEF Numbered
<1>2. Recorded(st, n) = {}
    BY DEF OwnOf
<1>3. QED BY <1>1, <1>2 DEF Recorded

LEMMA NumberedStep ==
    ASSUME Ground, TypeOK', [Next]_vars, NEW st \in Students, Numbered(st)
    PROVE  Numbered(st)'
<1>1. TypeOK
    BY StandingStint DEF Ground
<1>2. \A n \in DOMAIN made'[st] : made'[st][n].place = n
    BY <1>1, MadeGrows DEF Numbered
<1>3. \A n \in DOMAIN made[st] : n \in DOMAIN made'[st]
    BY <1>1, MadeGrows
<1>4. NoOrder.install = 0
    BY DEF NoOrder
<1>5. CASE Grows(st)
    <2>1. PICK rows : log'[st] = log[st] \cup rows /\ Writes(st, rows, parts'[st], armed'[st])
        BY <1>5 DEF Grows
    <2>2. ASSUME NEW e \in log'[st]
          PROVE  /\ e.id = 0 \/ e.id \in DOMAIN made[st]
                 /\ e.order.install # 0 =>
                       \E k \in log'[st] : k.id # 0 /\ k.id = e.order.seq
        <3>1. CASE e \in log[st]
            BY <2>1, <3>1 DEF Numbered
        <3>2. CASE e \in rows /\ Plain(st, e)
            BY <1>4, <3>2 DEF Plain
        <3>3. ASSUME NEW n, OwnOf(st, n, e)
              PROVE  /\ e.id = 0 \/ e.id \in DOMAIN made[st]
                     /\ e.order.install # 0 =>
                           \E k \in log'[st] : k.id # 0 /\ k.id = e.order.seq
            BY <1>1, <3>3, OwnNumber DEF OwnOf
        <3>4. ASSUME NEW n, NEW sid, NEW h, NEW p, NEW k \in Kept(st, n),
                     FiledFrom(st, n, sid, h, p, k, e)
              PROVE  /\ e.id = 0
                     /\ e.order.install # 0 =>
                           \E l \in log'[st] : l.id # 0 /\ l.id = e.order.seq
            <4>1. k \in log[st]
                BY DEF Kept
            <4>2. QED BY <1>4, <2>1, <3>4, <4>1 DEF FiledFrom, Numbered
        <3>5. QED BY <2>1, <3>1, <3>2, <3>3, <3>4, NewRowIs
    <2>3. QED BY <1>2, <1>3, <2>2 DEF Numbered
<1>6. CASE Closes(st)
    <2>1. PICK rows : log'[st] = Bare(log[st]) \cup rows /\ \A e \in rows : Plain(st, e)
        BY <1>6 DEF Closes
    <2>2. log[st] \in SUBSET RowType
        BY <1>1 DEF TypeOK
    <2>3. ASSUME NEW e \in log'[st]
          PROVE  /\ e.id = 0 \/ e.id \in DOMAIN made[st]
                 /\ e.order.install = 0
        <3>1. CASE e \in rows
            BY <1>4, <2>1, <3>1 DEF Plain
        <3>2. CASE e \in Bare(log[st])
            BY <1>4, <2>2, <3>2, BareRow DEF Numbered
        <3>3. QED BY <2>1, <3>1, <3>2
    <2>4. QED BY <1>2, <1>3, <2>3 DEF Numbered
<1>7. QED BY <1>5, <1>6, LogSteps

-----------------------------------------------------------------------------
(* Where a student is. *)

(* The tap that joined the lesson the student is live in comes after every    *)
(* tap of its install that joined another.                                    *)
Outdone(f, e) ==
    e.order.install = f.order.install /\ f.order.install # 0 => e.order.seq < f.order.seq
JoinedBy(h, sid, f) ==
    /\ f.type = "tap_in" /\ f.session = sid
    /\ \A e \in h : e.type = "tap_in" /\ e.session # sid /\ e.note = "none" => Outdone(f, e)
JoinsLast(st) ==
    \A sid \in SessionIds : Live(parts[st][sid]) => \E f \in log[st] : JoinedBy(log[st], sid, f)

(* Rows that are no taps that joined leave the order as it was. *)
LEMMA JoinsLastStays ==
    ASSUME NEW st, JoinsLast(st), NEW rows, log'[st] = log[st] \cup rows,
           StintsStay(st, parts'[st]), \A e \in rows : e.type = "tap_in" => e.note # "none"
    PROVE  JoinsLast(st)'
<1>1. ASSUME NEW sid \in SessionIds, Live(parts'[st][sid])
      PROVE  \E f \in log'[st] : JoinedBy(log'[st], sid, f)
    <2>1. PICK f \in log[st] : JoinedBy(log[st], sid, f)
        BY <1>1 DEF StintsStay, JoinsLast
    <2>2. QED BY <2>1 DEF JoinedBy
<1>2. QED BY <1>1 DEF JoinsLast, Live

LEMMA JoinsLastStep ==
    ASSUME Ground, Ground', [Next]_vars, NEW st \in Students, Numbered(st), JoinsLast(st)
    PROVE  JoinsLast(st)'
<1>1. TypeOK /\ TypeOK'
    BY DEF Ground, Standing, IInv
<1>2. log[st] \in SUBSET RowType /\ log'[st] \in SUBSET RowType
    BY <1>1 DEF TypeOK
<1>3. CASE Closes(st)
    <2>1. \A sid \in SessionIds : ~Live(parts'[st][sid])
        BY <1>3 DEF Closes, Ground, Filing, DeletedLeavesNothing
    <2>2. QED BY <2>1 DEF JoinsLast
<1>4. ASSUME NEW rows, log'[st] = log[st] \cup rows, Writes(st, rows, parts'[st], armed'[st])
      PROVE  JoinsLast(st)'
    <2>1. CASE Plainly(st, rows, parts'[st], armed'[st])
        <3>1. \A e \in rows : e.type # "tap_in"
            BY <2>1 DEF Plainly, Plain, TurnTypes
        <3>2. QED BY <1>4, <2>1, <3>1, JoinsLastStays DEF Plainly
    <2>2. CASE Acts(st, rows, parts'[st], armed'[st])
        <3>1. \A e \in rows : e.type # "tap_in"
            BY <2>2 DEF Acts, ActTrue, Plain, TurnTypes
        <3>2. StintsStay(st, parts'[st])
            BY <2>2 DEF Acts
        <3>3. QED BY <1>4, <3>1, <3>2, JoinsLastStays
    <2>3. CASE Taps(st, rows, parts'[st], armed'[st])
        <3>1. PICK n, e, filed : \E late \in BOOLEAN :
                  /\ OwnOf(st, n, e) /\ TapTrue(st, n, e, late)
                  /\ TapLeaves(st, e, late, parts'[st]) /\ e \in rows
                  /\ \A f \in rows : f = e \/ f \in filed \/ Plain(st, f)
                  /\ TapFiles(st, n, e, late, filed) \/ Unfiled(n, filed, armed'[st])
            BY <2>3 DEF Taps
        <3>2. PICK late \in BOOLEAN :
                  /\ OwnOf(st, n, e) /\ TapTrue(st, n, e, late)
                  /\ TapLeaves(st, e, late, parts'[st]) /\ e \in rows
                  /\ \A f \in rows : f = e \/ f \in filed \/ Plain(st, f)
                  /\ TapFiles(st, n, e, late, filed) \/ Unfiled(n, filed, armed'[st])
            BY <3>1
        <3>3. \A f \in filed : f.type = "unlock"
            BY <3>2, FiledIs DEF TapFiles, Unfiled, FiledFrom
        <3>4. \A f \in rows : f.type = "tap_in" => f = e
            BY <3>2, <3>3 DEF Plain, TurnTypes
        <3>5. CASE late
            <4>1. StintsStay(st, parts'[st]) /\ e.note # "none"
                BY <3>2, <3>5 DEF TapLeaves, TapTrue
            <4>2. QED BY <1>4, <3>4, <4>1, JoinsLastStays
        <3>6. CASE ~late
            <4>1. /\ e.type = "tap_in" /\ e.order = Order(st, n)
                  /\ ~TappedSince(log[st], e.order, e.session)
                BY <3>2, <3>6 DEF TapTrue
            <4>2. ASSUME NEW g \in log'[st], g.type = "tap_in", g.session # e.session,
                         g.note = "none"
                  PROVE  Outdone(e, g)
                <5>1. SUFFICES ASSUME g.order.install = e.order.install, e.order.install # 0
                               PROVE  g.order.seq < e.order.seq
                    BY DEF Outdone
                <5>2. g \in log[st]
                    BY <1>4, <3>4, <4>2
                <5>3. ~(g.order.seq > e.order.seq)
                    BY <4>1, <4>2, <5>1, <5>2 DEF TappedSince, MadeAfter
                <5>4. g.order.seq # e.order.seq
                    BY <1>1, <3>2, <5>1, <5>2, OwnNumber, NewNumber
                <5>5. g.order.seq \in Nat /\ e.order.seq \in Nat
                    BY <1>2, <1>4, <3>2, <5>2 DEF RowType
                <5>6. QED BY <5>3, <5>4, <5>5
            <4>3. JoinedBy(log'[st], e.session, e) /\ e \in log'[st]
                BY <1>4, <3>2, <4>1, <4>2 DEF JoinedBy
            <4>4. \A o \in SessionIds : Live(parts'[st][o]) => o = e.session
                BY <3>2, <3>6 DEF TapLeaves
            <4>5. QED BY <4>3, <4>4 DEF JoinsLast, Live
        <3>7. QED BY <3>5, <3>6
    <2>4. QED BY <1>4, <2>1, <2>2, <2>3 DEF Writes
<1>5. QED BY <1>3, <1>4, LogSteps DEF Grows

-----------------------------------------------------------------------------
(* Unlocks kept under a tap. *)

IsKept(e) == e.type = "unlock" /\ e.note = "unknown_tap"

(* An unlock kept is a record's, of no session; what is filed from it is      *)
(* filed after its tap is recorded, and once.                                 *)
KeptPlace(h) == \A e \in h : IsKept(e) => e.session = NoSession /\ e.id # 0
FromKept(h) ==
    \A f \in h : f.from # 0 =>
        \E k, r \in h : k.id = f.from /\ IsKept(k) /\ r.id = k.claim /\ r.id # 0
FiledSingly(h) == \A f, g \in h : f.from # 0 /\ f.from = g.from => f = g
FiledWithTap(h, waits) ==
    \A e, tap \in h :
        /\ IsKept(e) /\ tap.type = "tap_in" /\ tap.id = e.claim
        /\ \A a \in waits : a.id = tap.id => a.waiting
        => \E f \in h : f.from = e.id /\ f.session = tap.session
KeptTrue(h, waits) ==
    KeptPlace(h) /\ FromKept(h) /\ FiledSingly(h) /\ FiledWithTap(h, waits)

LEMMA NeverUnknown ==
    ASSUME NEW h, NEW p, NEW sid, NEW at, NEW order
    PROVE  UnlockNote(h, p, sid, at, order) # "unknown_tap"
BY DEF UnlockNote

(* A tap spent stays spent, so a tap not spent after a step was not before it. *)
LEMMA NotSpent ==
    ASSUME TypeOK, NEW st \in Students, NEW waits, SpentStay(st, waits), NEW n,
           \A b \in waits : b.id = n => b.waiting
    PROVE  \A a \in armed[st] : a.id = n => a.waiting
<1>1. \A a \in armed[st] : a.waiting \in BOOLEAN
    BY DEF TypeOK, ArmedType
<1>2. QED BY <1>1 DEF SpentStay

(* Rows that are neither taps, nor filed, nor kept under a tap recorded. *)
SetApart(h, rows) ==
    \A e \in rows : /\ e.from = 0 /\ e.type # "tap_in"
                    /\ IsKept(e) => /\ e.session = NoSession /\ e.id # 0
                                    /\ \A f \in h : f.id = e.claim => f.type # "tap_in"

LEMMA KeptBeside ==
    ASSUME TypeOK, NEW st \in Students, NEW waits, SpentStay(st, waits),
           KeptTrue(log[st], armed[st]), NEW rows, SetApart(log[st], rows)
    PROVE  KeptTrue(log[st] \cup rows, waits)
<1> DEFINE h == log[st]
           g == log[st] \cup rows
<1>1. KeptPlace(g) /\ FromKept(g) /\ FiledSingly(g)
    BY DEF KeptTrue, KeptPlace, FromKept, FiledSingly, SetApart
<1>2. ASSUME NEW e \in g, NEW tap \in g, IsKept(e), tap.type = "tap_in", tap.id = e.claim,
             \A a \in waits : a.id = tap.id => a.waiting
      PROVE  \E f \in g : f.from = e.id /\ f.session = tap.session
    <2>1. tap \in h /\ e \in h
        BY <1>2 DEF SetApart
    <2>2. \A a \in armed[st] : a.id = tap.id => a.waiting
        BY <1>2, NotSpent
    <2>3. \E f \in h : f.from = e.id /\ f.session = tap.session
        BY <1>2, <2>1, <2>2 DEF KeptTrue, FiledWithTap
    <2>4. QED BY <2>3
<1> HIDE DEF g
<1>3. FiledWithTap(g, waits)
    BY <1>2 DEF FiledWithTap
<1>4. QED BY <1>1, <1>3 DEF KeptTrue, g

(* A tap, with what it files or having waited. *)
LEMMA KeptWithTap ==
    ASSUME TypeOK, NEW st \in Students, NEW waits, SpentStay(st, waits),
           \A e, f \in log[st] : e.id # 0 /\ e.id = f.id => e = f,
           KeptTrue(log[st], armed[st]), NEW rows, NEW n, NEW tap, NEW filed,
           OwnOf(st, n, tap), tap.type = "tap_in", tap \in rows, filed \subseteq rows,
           \A f \in rows : f = tap \/ f \in filed \/ Plain(st, f),
           \/ \E p : filed = Filed(st, n, tap.session, log[st] \cup {tap}, p)
           \/ Unfiled(n, filed, waits)
    PROVE  KeptTrue(log[st] \cup rows, waits)
<1> DEFINE h == log[st]
           g == log[st] \cup rows
<1>1. tap.id = n /\ n # 0 /\ tap.from = 0 /\ \A f \in h : f.id # n
    BY RecordNumber DEF OwnOf, Recorded
<1>2. \A k \in Kept(st, n) : k \in h /\ IsKept(k) /\ k.claim = n /\ k.id # 0
    BY DEF Kept, IsKept, KeptTrue, KeptPlace
<1>3. ASSUME NEW f \in filed
      PROVE  /\ f.id = 0 /\ f.session = tap.session /\ f.type = "unlock" /\ ~IsKept(f)
             /\ \E k \in Kept(st, n) : f.from = k.id
    <2>1. PICK p : filed = Filed(st, n, tap.session, log[st] \cup {tap}, p)
        BY <1>3 DEF Unfiled
    <2>2. PICK k \in Kept(st, n) : FiledFrom(st, n, tap.session, log[st] \cup {tap}, p, k, f)
        BY <2>1, FiledIs
    <2>3. QED BY <2>2, NeverUnknown DEF FiledFrom, IsKept
<1>4. \A f \in rows : f \notin filed => f.from = 0 /\ ~IsKept(f)
    BY <1>1 DEF Plain, TurnTypes, IsKept
<1>5. KeptPlace(g)
    BY <1>3, <1>4 DEF KeptPlace, KeptTrue
<1>6. FromKept(g)
    <2>1. ASSUME NEW f \in g, f.from # 0
          PROVE  \E k, r \in g : k.id = f.from /\ IsKept(k) /\ r.id = k.claim /\ r.id # 0
        <3>1. CASE f \in h
            <4>1. \E k, r \in h : k.id = f.from /\ IsKept(k) /\ r.id = k.claim /\ r.id # 0
                BY <2>1, <3>1 DEF KeptTrue, FromKept
            <4>2. QED BY <4>1
        <3>2. CASE f \in filed
            <4>1. PICK k \in Kept(st, n) : f.from = k.id
                BY <1>3, <3>2
            <4>2. k \in g /\ tap \in g /\ IsKept(k) /\ tap.id = k.claim /\ tap.id # 0
                BY <1>1, <1>2
            <4>3. QED BY <4>1, <4>2
        <3>3. QED BY <1>4, <2>1, <3>1, <3>2
    <2> HIDE DEF g
    <2>2. QED BY <2>1 DEF FromKept
(* No unlock of this tap's was filed before it. *)
<1>7. ASSUME NEW f \in h, NEW k \in Kept(st, n), f.from = k.id
      PROVE  FALSE
    <2>1. PICK l, r \in h : l.id = f.from /\ IsKept(l) /\ r.id = l.claim /\ r.id # 0
        BY <1>2, <1>7 DEF KeptTrue, FromKept
    <2>2. l = k
        BY <1>2, <1>7, <2>1
    <2>3. QED BY <1>1, <1>2, <2>1, <2>2
<1>8. \A f, e \in filed : f.from = e.from => f = e
    <2>1. ASSUME NEW p, filed = Filed(st, n, tap.session, log[st] \cup {tap}, p)
          PROVE  \A f, e \in filed : f.from = e.from => f = e
        <3>1. \A k, l \in Kept(st, n) : k.id = l.id => k = l
            BY <1>2
        <3>2. QED BY <2>1, <3>1, FiledIs
    <2>2. QED BY <2>1 DEF Unfiled
<1>9. FiledSingly(g)
    <2>1. ASSUME NEW f \in g, NEW e \in g, f.from # 0, f.from = e.from
          PROVE  f = e
        <3>1. (f \in h \/ f \in filed) /\ (e \in h \/ e \in filed)
            BY <1>4, <2>1
        <3>2. CASE f \in h /\ e \in h
            BY <2>1, <3>2 DEF KeptTrue, FiledSingly
        <3>3. QED BY <1>3, <1>7, <1>8, <2>1, <3>1, <3>2
    <2> HIDE DEF g
    <2>2. QED BY <2>1 DEF FiledSingly
<1>10. ASSUME NEW e \in g, NEW r \in g, IsKept(e), r.type = "tap_in", r.id = e.claim,
              \A a \in waits : a.id = r.id => a.waiting
       PROVE  \E f \in g : f.from = e.id /\ f.session = r.session
    <2>1. e \in h /\ (r \in h \/ r = tap)
        BY <1>3, <1>4, <1>10 DEF Plain, TurnTypes
    <2>2. CASE r \in h
        <3>1. \A a \in armed[st] : a.id = r.id => a.waiting
            BY <1>10, NotSpent
        <3>2. \E f \in h : f.from = e.id /\ f.session = r.session
            BY <1>10, <2>1, <2>2, <3>1 DEF KeptTrue, FiledWithTap
        <3>3. QED BY <3>2
    <2>3. CASE r = tap
        <3>1. e \in Kept(st, n)
            BY <1>1, <1>10, <2>1, <2>3 DEF Kept, IsKept, KeptTrue, KeptPlace
        <3>2. ~Unfiled(n, filed, waits)
            BY <1>1, <1>10, <2>3 DEF Unfiled
        <3>3. PICK p : filed = Filed(st, n, tap.session, log[st] \cup {tap}, p)
            BY <3>2
        <3>4. PICK f \in filed : FiledFrom(st, n, tap.session, log[st] \cup {tap}, p, e, f)
            BY <3>1, <3>3, FiledIs
        <3>5. f \in g /\ f.from = e.id /\ f.session = r.session
            BY <2>3, <3>4 DEF FiledFrom
        <3>6. QED BY <3>5
    <2>4. QED BY <2>1, <2>2, <2>3
<1> HIDE DEF g
<1>11. FiledWithTap(g, waits)
    BY <1>10 DEF FiledWithTap
<1>12. QED BY <1>5, <1>6, <1>9, <1>11 DEF KeptTrue, g

(* The end of the account takes the orders away, and no row. *)
LEMMA KeptAtEnd ==
    ASSUME NEW h \in SUBSET RowType, NEW waits, NEW ends, KeptTrue(h, waits),
           \A a \in waits : \E b \in ends : b.id = a.id, \A b \in ends : ~b.waiting,
           NEW st, NEW rows, \A e \in rows : Plain(st, e)
    PROVE  KeptTrue(Bare(h) \cup rows, ends)
<1> DEFINE g == Bare(h) \cup rows
<1>1. \A e \in rows : e.from = 0 /\ e.type # "tap_in" /\ ~IsKept(e)
    BY DEF Plain, TurnTypes, IsKept
<1>2. KeptPlace(g)
    BY <1>1, BareRow DEF KeptTrue, KeptPlace, IsKept
<1>3. FromKept(g)
    <2>1. ASSUME NEW f \in Bare(h), f.from # 0
          PROVE  \E k, r \in g : k.id = f.from /\ IsKept(k) /\ r.id = k.claim /\ r.id # 0
        <3>1. PICK e \in h : e.from = f.from
            BY BareRow
        <3>2. PICK k, r \in h : k.id = f.from /\ IsKept(k) /\ r.id = k.claim /\ r.id # 0
            BY <2>1, <3>1 DEF KeptTrue, FromKept
        <3>3. PICK l \in Bare(h) : l.id = k.id /\ l.type = k.type /\ l.note = k.note
                                   /\ l.claim = k.claim
            BY BareOf
        <3>4. PICK s \in Bare(h) : s.id = r.id
            BY BareOf
        <3>5. l \in g /\ s \in g
            OBVIOUS
        <3> HIDE DEF g
        <3>6. QED BY <3>2, <3>3, <3>4, <3>5 DEF IsKept
    <2>2. \A f \in g : f.from # 0 => f \in Bare(h)
        BY <1>1
    <2> HIDE DEF g
    <2>3. QED BY <2>1, <2>2 DEF FromKept
<1>4. FiledSingly(g)
    <2>1. ASSUME NEW f \in Bare(h), NEW e \in Bare(h), f.from # 0, f.from = e.from
          PROVE  f = e
        <3>1. PICK k \in h : f = [k EXCEPT !.order = NoOrder] /\ f.from = k.from
            BY BareRow
        <3>2. PICK l \in h : e = [l EXCEPT !.order = NoOrder] /\ e.from = l.from
            BY BareRow
        <3>3. k = l
            BY <2>1, <3>1, <3>2 DEF KeptTrue, FiledSingly
        <3>4. QED BY <3>1, <3>2, <3>3
    <2>2. QED BY <1>1, <2>1 DEF FiledSingly
<1>5. ASSUME NEW e \in g, NEW tap \in g, IsKept(e), tap.type = "tap_in", tap.id = e.claim,
             \A b \in ends : b.id = tap.id => b.waiting
      PROVE  \E f \in g : f.from = e.id /\ f.session = tap.session
    <2>1. e \in Bare(h) /\ tap \in Bare(h)
        BY <1>1, <1>5
    <2>2. PICK k \in h : k.id = e.id /\ k.type = e.type /\ k.note = e.note /\ k.claim = e.claim
        BY <2>1, BareRow
    <2>3. PICK r \in h : r.id = tap.id /\ r.type = tap.type /\ r.session = tap.session
        BY <2>1, BareRow
    <2>4. \A a \in waits : a.id # tap.id
        BY <1>5
    <2>5. PICK f \in h : f.from = k.id /\ f.session = r.session
        BY <1>5, <2>2, <2>3, <2>4 DEF KeptTrue, FiledWithTap, IsKept
    <2>6. PICK i \in Bare(h) : i.from = f.from /\ i.session = f.session
        BY BareOf
    <2>7. QED BY <2>2, <2>3, <2>5, <2>6
<1> HIDE DEF g
<1>6. FiledWithTap(g, ends)
    BY <1>5 DEF FiledWithTap
<1>7. QED BY <1>2, <1>3, <1>4, <1>6 DEF KeptTrue, g

LEMMA KeptStep ==
    ASSUME Ground, Ground', [Next]_vars, NEW st \in Students, KeptTrue(log[st], armed[st])
    PROVE  KeptTrue(log'[st], armed'[st])
<1>1. /\ TypeOK /\ log[st] \in SUBSET RowType
      /\ \A e, f \in log[st] : e.id # 0 /\ e.id = f.id => e = f
    BY DEF Ground, Standing, IInv, TypeOK, Filing, RecordedOnce
<1>2. CASE Closes(st)
    <2>1. PICK rows : log'[st] = Bare(log[st]) \cup rows /\ \A e \in rows : Plain(st, e)
        BY <1>2 DEF Closes
    <2>2. \A b \in armed'[st] : ~b.waiting
        BY <1>2 DEF Closes, Ground, Filing, DeletedLeavesNothing
    <2>3. \A a \in armed[st] : \E b \in armed'[st] : b.id = a.id
        BY <1>2 DEF Closes
    <2> DEFINE h == log[st]
               waits == armed[st]
               ends == armed'[st]
    <2>4. h \in SUBSET RowType /\ KeptTrue(h, waits)
        BY <1>1
    <2>5. (\A a \in waits : \E b \in ends : b.id = a.id) /\ \A b \in ends : ~b.waiting
        BY <2>2, <2>3
    <2>6. log'[st] = Bare(h) \cup rows
        BY <2>1
    <2> HIDE DEF h, waits, ends
    <2>7. KeptTrue(Bare(h) \cup rows, ends)
        BY <2>1, <2>4, <2>5, KeptAtEnd
    <2>8. QED BY <2>6, <2>7 DEF ends
<1>3. ASSUME NEW rows, NEW ps, NEW waits, Writes(st, rows, ps, waits)
      PROVE  KeptTrue(log[st] \cup rows, waits)
    <2>1. CASE Plainly(st, rows, ps, waits)
        <3>1. \A e \in rows : e.from = 0 /\ e.type # "tap_in" /\ ~IsKept(e)
            BY <2>1 DEF Plainly, Plain, TurnTypes, IsKept
        <3>2. SpentStay(st, waits)
            BY <2>1 DEF Plainly
        <3>3. SetApart(log[st], rows)
            BY <3>1 DEF SetApart
        <3>4. QED BY <1>1, <3>2, <3>3, KeptBeside
    <2>2. CASE Acts(st, rows, ps, waits)
        <3>1. PICK n, e : /\ OwnOf(st, n, e) /\ ActTrue(st, n, e)
                          /\ \A f \in rows : f = e \/ Plain(st, f)
                          /\ SpentStay(st, waits)
            BY <2>2 DEF Acts
        <3>2. e.from = 0 /\ e.type # "tap_in" /\ e.id # 0
            BY <1>1, <3>1, RecordNumber DEF OwnOf, ActTrue
        <3>3. IsKept(e) => /\ e.session = NoSession
                           /\ \A f \in log[st] : f.id = e.claim => f.type # "tap_in"
            BY <3>1, NeverUnknown DEF ActTrue, UnlockTrue, IsKept
        <3>4. \A f \in rows : f = e \/ (f.from = 0 /\ f.type # "tap_in" /\ ~IsKept(f))
            BY <3>1 DEF Plain, TurnTypes, IsKept
        <3>5. SetApart(log[st], rows)
            BY <3>2, <3>3, <3>4 DEF SetApart
        <3>6. QED BY <1>1, <3>1, <3>5, KeptBeside
    <2>3. CASE Taps(st, rows, ps, waits)
        <3>1. PICK n, e, filed, late :
                  /\ OwnOf(st, n, e) /\ TapTrue(st, n, e, late)
                  /\ e \in rows /\ filed \subseteq rows
                  /\ \A f \in rows : f = e \/ f \in filed \/ Plain(st, f)
                  /\ TapFiles(st, n, e, late, filed) \/ Unfiled(n, filed, waits)
                  /\ SpentStay(st, waits)
            BY <2>3 DEF Taps
        <3>2. \/ \E p : filed = Filed(st, n, e.session, log[st] \cup {e}, p)
              \/ Unfiled(n, filed, waits)
            BY <3>1 DEF TapFiles
        <3>3. e.type = "tap_in"
            BY <3>1 DEF TapTrue
        <3>4. QED BY <1>1, <3>1, <3>2, <3>3, KeptWithTap
    <2>4. QED BY <1>3, <2>1, <2>2, <2>3 DEF Writes
<1>4. CASE Grows(st)
    <2>1. PICK rows : log'[st] = log[st] \cup rows /\ Writes(st, rows, parts'[st], armed'[st])
        BY <1>4 DEF Grows
    <2>2. KeptTrue(log[st] \cup rows, armed'[st])
        BY <1>3, <2>1
    <2>3. QED BY <2>1, <2>2
<1>5. QED BY <1>2, <1>4, LogSteps

-----------------------------------------------------------------------------
(* Turns. *)

Returns == {"tap_in", "refocus"}

(* One install numbered both. *)
Level(a, e) == a.order.install = e.order.install /\ e.order.install # 0

(* A return that stands was made after every unlock before it in the table;   *)
(* a late one was made before some unlock, or some tap elsewhere.             *)
ReturnTrue(h, e) ==
    /\ e.note # "superseded" =>
          \A a \in Of(h, e.session, {"unlock"}) :
              Level(a, e) => After(a, e) \/ a.order.seq < e.order.seq
    /\ e.note = "superseded" /\ e.order.install # 0 =>
          \/ e.type = "tap_in" /\ TappedSince(h, e.order, e.session)
          \/ \E a \in Of(h, e.session, {"unlock"}) : MadeAfter(a, e.order)

(* An unlock that stands was made after every return before it in the table   *)
(* that does; a late one was not made after all the returns.                  *)
UnlockStands(h, e) ==
    /\ e.note # "superseded" =>
          \A a \in Of(h, e.session, Returns) :
              Level(a, e) => \/ After(a, e) \/ a.note = "superseded"
                             \/ a.order.seq =< e.order.seq
    /\ e.note = "superseded" /\ e.order.install # 0 =>
          \E a \in Of(h, e.session, Returns) :
              a.order.install = e.order.install => a.order.seq > e.order.seq

TurnTrue(h, e) ==
    /\ e.type \in Returns => ReturnTrue(h, e)
    /\ e.type = "unlock" /\ e.session # NoSession => UnlockStands(h, e)
TurnsTrue(h) == \A e \in h : TurnTrue(h, e)

(* Only late returns where the student has no stint. *)
NeverIn(h, ps) ==
    \A sid \in SessionIds : ps[sid].ended = "no_row" =>
        \A e \in Of(h, sid, Returns) : e.note = "superseded"
Placed(st) == \A e \in log[st] : e.place =< 3 + written[st]

Turned(st) == TurnsTrue(log[st]) /\ NeverIn(log[st], parts[st]) /\ Placed(st)

(* Rows written later leave it true of those before. *)
LEMMA TurnsAdded ==
    ASSUME NEW h \in SUBSET RowType, NEW rows \in SUBSET RowType, NEW w \in Nat,
           \A e \in h : e.tx =< w, \A e \in rows : e.tx = w + 1,
           TurnsTrue(h), \A e \in rows : TurnTrue(h \cup rows, e)
    PROVE  TurnsTrue(h \cup rows)
<1> DEFINE g == h \cup rows
<1>1. ASSUME NEW e \in h, NEW a \in rows
      PROVE  After(a, e)
    <2>1. e.tx \in Nat /\ e.tx =< w /\ a.tx = w + 1
        BY DEF RowType
    <2>2. QED BY <2>1 DEF After
<1>2. ASSUME NEW e \in h, e.type \in Returns
      PROVE  ReturnTrue(g, e)
    <2>1. ReturnTrue(h, e)
        BY <1>2 DEF TurnsTrue, TurnTrue
    <2>2. ASSUME e.note # "superseded", NEW a \in Of(g, e.session, {"unlock"}), Level(a, e)
          PROVE  After(a, e) \/ a.order.seq < e.order.seq
        BY <1>1, <2>1, <2>2 DEF ReturnTrue, Of
    <2>3. TappedSince(h, e.order, e.session) => TappedSince(g, e.order, e.session)
        BY DEF TappedSince
    <2>4. Of(h, e.session, {"unlock"}) \subseteq Of(g, e.session, {"unlock"})
        BY DEF Of
    <2> HIDE DEF g
    <2>5. QED BY <2>1, <2>2, <2>3, <2>4 DEF ReturnTrue
<1>3. ASSUME NEW e \in h, e.type = "unlock", e.session # NoSession
      PROVE  UnlockStands(g, e)
    <2>1. UnlockStands(h, e)
        BY <1>3 DEF TurnsTrue, TurnTrue
    <2>2. ASSUME e.note # "superseded", NEW a \in Of(g, e.session, Returns), Level(a, e)
          PROVE  After(a, e) \/ a.note = "superseded" \/ a.order.seq =< e.order.seq
        BY <1>1, <2>1, <2>2 DEF UnlockStands, Of
    <2>3. Of(h, e.session, Returns) \subseteq Of(g, e.session, Returns)
        BY DEF Of
    <2> HIDE DEF g
    <2>4. QED BY <2>1, <2>2, <2>3 DEF UnlockStands
<1>4. QED BY <1>2, <1>3 DEF TurnsTrue, TurnTrue

(* What the note of an unlock says of the returns there. *)
Noted(h, e) ==
    /\ e.note # "superseded" =>
          \A a \in Of(h, e.session, Returns) :
              Level(a, e) => a.note = "superseded" \/ a.order.seq =< e.order.seq
    /\ e.note = "superseded" /\ e.order.install # 0 =>
          \E a \in Of(h, e.session, Returns) :
              a.order.install = e.order.install => a.order.seq > e.order.seq
Met(h, sid, p) ==
    /\ \A a \in Of(h, sid, Returns) : InWindow(a, sessions[sid])
    /\ p.ended = "no_row" => \A a \in Of(h, sid, Returns) : a.note = "superseded"

LEMMA UnlockNoted ==
    ASSUME NEW h \in SUBSET RowType, NEW p, NEW e \in RowType, NEW order, Met(h, e.session, p),
           e.note = UnlockNote(h, p, e.session, e.at, order), e.order = NoOrder \/ e.order = order
    PROVE  Noted(h, e)
<1> DEFINE sid == e.session
           at == e.at
<1>1. e.order.install # 0 => e.order = order
    BY DEF NoOrder
<1>2. e.note = "superseded" <=>
          p.ended # "no_row" /\ ReturnedSince(h, sid, sessions[sid], at, order)
    BY DEF UnlockNote
<1>3. ASSUME e.note # "superseded", NEW a \in Of(h, sid, Returns), Level(a, e)
      PROVE  a.note = "superseded" \/ a.order.seq =< e.order.seq
    <2>1. CASE p.ended = "no_row"
        BY <2>1 DEF Met
    <2>2. CASE ~ReturnedSince(h, sid, sessions[sid], at, order)
        <3>1. e.order = order /\ order.install # 0 /\ a.order.install = order.install
            BY <1>1, <1>3 DEF Level
        <3>2. ~(a.order.seq > order.seq)
            BY <2>2, <3>1 DEF ReturnedSince, Returns, Met
        <3>3. a.order.seq \in Nat /\ e.order.seq \in Nat
            BY DEF Of, RowType
        <3>4. QED BY <3>1, <3>2, <3>3
    <2>3. QED BY <1>2, <1>3, <2>1, <2>2
<1>4. ASSUME e.note = "superseded", e.order.install # 0
      PROVE  \E a \in Of(h, sid, Returns) :
                 a.order.install = e.order.install => a.order.seq > e.order.seq
    <2>1. e.order = order /\ order.install # 0
        BY <1>1, <1>4
    <2>2. PICK a \in Of(h, sid, Returns) :
              a.order.install = order.install => a.order.seq > order.seq
        BY <1>2, <1>4, <2>1 DEF ReturnedSince, Returns
    <2>3. QED BY <2>1, <2>2
<1>5. QED BY <1>3, <1>4 DEF Noted

(* A return recorded: the unlocks there, by their numbers. *)
LEMMA ReturnNoted ==
    ASSUME TypeOK, NEW st \in Students, Numbered(st), NEW n, NEW e \in RowType,
           OwnOf(st, n, e),
           ~\E a \in Of(log[st], e.session, {"unlock"}) : MadeAfter(a, Order(st, n)),
           NEW a \in Of(log[st], e.session, {"unlock"}), Level(a, e)
    PROVE  a.order.seq < e.order.seq
<1>1. e.order = Order(st, n) /\ e.order.seq = n
    BY OwnNumber DEF Level
<1>2. ~(a.order.seq > e.order.seq)
    BY <1>1 DEF MadeAfter, Level
<1>3. a \in log[st] /\ a.order.install # 0
    BY DEF Of, Level
<1>4. a.order.seq # n
    BY <1>3, NewNumber
<1>5. a.order.seq \in Nat /\ e.order.seq \in Nat
    <2>1. a \in RowType
        BY <1>3 DEF TypeOK
    <2>2. QED BY <2>1 DEF RowType
<1>6. QED BY <1>1, <1>2, <1>4, <1>5

(* A record that is no tap. *)
LEMMA ActTurns ==
    ASSUME Standing, NEW st \in Students, Numbered(st), NeverIn(log[st], parts[st]),
           NEW n, NEW e \in RowType, OwnOf(st, n, e), ActTrue(st, n, e),
           NEW rows, e \in rows, \A f \in rows : f = e \/ Plain(st, f)
    PROVE  TurnTrue(log[st] \cup rows, e)
<1> DEFINE g == log[st] \cup rows
           sid == e.session
<1>1. TypeOK /\ LogTold(st) /\ log[st] \in SUBSET RowType
    BY StandingStint DEF TypeOK
<1>2. \A f \in rows : f.type \in TurnTypes => f = e
    BY DEF Plain
<1>3. ASSUME e.type \in Returns
      PROVE  ReturnTrue(g, e)
    <2> DEFINE late == MadeSince(log[st], sid, sessions[sid], Order(st, n), "unlock")
               older == \E a \in Of(log[st], sid, {"unlock"}) : MadeAfter(a, Order(st, n))
    <2>1. e.type = "refocus" /\ RefocusTrue(st, n, e)
        BY <1>3 DEF Returns, ActTrue
    <2>2. e.note = "superseded" <=> late
        BY <2>1 DEF RefocusTrue
    <2>3. late <=> older
        BY <2>1, LateIs DEF RefocusTrue
    <2>4. Of(g, sid, {"unlock"}) = Of(log[st], sid, {"unlock"})
        BY <1>2, <2>1 DEF Of, TurnTypes
    <2>5. e.order.install # 0 => e.order = Order(st, n)
        BY DEF OwnOf, NoOrder
    <2>6. ASSUME e.note # "superseded", NEW a \in Of(log[st], sid, {"unlock"}), Level(a, e)
          PROVE  a.order.seq < e.order.seq
        BY <1>1, <2>2, <2>3, <2>6, ReturnNoted
    <2> HIDE DEF g, late
    <2>7. QED BY <2>2, <2>3, <2>4, <2>5, <2>6 DEF ReturnTrue
<1>4. ASSUME e.type = "unlock", sid # NoSession
      PROVE  UnlockStands(g, e)
    <2> DEFINE h == log[st]
               p == parts[st][sid]
               order == Order(st, n)
    <2>1. e.note = UnlockNote(h, p, sid, e.at, order)
        BY <1>4 DEF ActTrue, UnlockTrue
    <2>2. \A a \in Of(h, sid, Returns) : InWindow(a, sessions[sid])
        BY <1>1, <1>4 DEF Of, LogTold, InSession, HeldTypes, Returns
    <2>3. sid \in SessionIds
        BY <1>4 DEF RowType
    <2>4. p.ended = "no_row" => \A a \in Of(h, sid, Returns) : a.note = "superseded"
        BY <2>3 DEF NeverIn
    <2>5. e.order = NoOrder \/ e.order = order
        BY DEF OwnOf
    <2>6. Of(g, sid, Returns) = Of(h, sid, Returns)
        BY <1>2, <1>4 DEF Of, TurnTypes, Returns
    <2>7. h \in SUBSET RowType
        BY <1>1
    <2> HIDE DEF h, p, order, g
    <2>8. Met(h, sid, p)
        BY <2>2, <2>4 DEF Met
    <2>9. Noted(h, e)
        BY <2>1, <2>5, <2>7, <2>8, UnlockNoted
    <2>10. QED BY <2>6, <2>9 DEF UnlockStands, Noted
<1>5. QED BY <1>3, <1>4 DEF TurnTrue

(* A tap. *)
LEMMA TapTurns ==
    ASSUME Standing, NEW st \in Students, Numbered(st),
           NEW n, NEW e \in RowType, OwnOf(st, n, e), NEW late, TapTrue(st, n, e, late),
           NEW rows, e \in rows, NEW filed, NEW waits,
           \A f \in rows : f = e \/ f \in filed \/ Plain(st, f),
           TapFiles(st, n, e, late, filed) \/ Unfiled(n, filed, waits)
    PROVE  TurnTrue(log[st] \cup rows, e)
<1> DEFINE g == log[st] \cup rows
           sid == e.session
           older == \E a \in Of(log[st], sid, {"unlock"}) : MadeAfter(a, e.order)
<1>1. TypeOK /\ log[st] \in SUBSET RowType
    BY StandingStint DEF TypeOK
<1>2. /\ e.type = "tap_in" /\ e.order = Order(st, n)
      /\ e.note = "superseded" <=> TappedSince(log[st], e.order, sid) \/ older
    BY DEF TapTrue
<1>3. ASSUME NEW a \in filed
      PROVE  After(a, e)
    <2>1. PICK k \in Kept(st, n) : a.tx = written[st] + 1 /\ a.place = 3 + k.tx
        BY FiledIs DEF TapFiles, Unfiled, FiledFrom
    <2>2. k.tx \in Nat /\ written[st] \in Nat
        BY <1>1 DEF Kept, RowType, TypeOK
    <2>3. QED BY <2>1, <2>2 DEF After, OwnOf
<1>4. \A a \in Of(g, sid, {"unlock"}) : a \in Of(log[st], sid, {"unlock"}) \/ After(a, e)
    BY <1>2, <1>3 DEF Of, Plain, TurnTypes
<1>5. ASSUME e.note # "superseded", NEW a \in Of(log[st], sid, {"unlock"}), Level(a, e)
      PROVE  a.order.seq < e.order.seq
    BY <1>1, <1>2, <1>5, ReturnNoted
<1>6. older => \E a \in Of(g, sid, {"unlock"}) : MadeAfter(a, e.order)
    BY DEF Of
<1>7. TappedSince(log[st], e.order, sid) => TappedSince(g, e.order, sid)
    BY DEF TappedSince
<1>8. ReturnTrue(g, e)
    <2> HIDE DEF g, older
    <2>1. QED BY <1>2, <1>4, <1>5, <1>6, <1>7 DEF ReturnTrue
<1>9. QED BY <1>2, <1>8 DEF TurnTrue

(* An unlock filed with it. *)
LEMMA FiledTurns ==
    ASSUME Standing, NEW st \in Students, NeverIn(log[st], parts[st]),
           NEW n, NEW e \in RowType, OwnOf(st, n, e), NEW late, TapTrue(st, n, e, late),
           NEW rows, e \in rows, NEW filed,
           \A f \in rows : f = e \/ f \in filed \/ Plain(st, f),
           TapFiles(st, n, e, late, filed), NEW f \in filed, f \in RowType
    PROVE  TurnTrue(log[st] \cup rows, f)
<1> DEFINE g == log[st] \cup rows
           h == log[st] \cup {e}
           sid == e.session
<1>1. TypeOK /\ LogTold(st) /\ log[st] \in SUBSET RowType
    BY StandingStint DEF TypeOK
<1>2. PICK p : /\ filed = Filed(st, n, sid, h, p)
               /\ p.ended = "no_row" => late /\ parts[st][sid].ended = "no_row"
               /\ InWindow(e, sessions[sid])
    BY DEF TapFiles
<1>3. \A a \in filed : \E k \in Kept(st, n) : FiledFrom(st, n, sid, h, p, k, a)
    BY <1>2, FiledIs
<1>4. PICK k \in Kept(st, n) : FiledFrom(st, n, sid, h, p, k, f)
    BY <1>3
<1>5. sid \in SessionIds /\ sid # NoSession /\ (late => e.note = "superseded")
    BY DEF TapTrue, SessionIds, NoSession
<1>6. \A a \in Of(h, sid, Returns) : InWindow(a, sessions[sid])
    BY <1>1, <1>2, <1>5 DEF Of, LogTold, InSession, HeldTypes, Returns
<1>7. p.ended = "no_row" => \A a \in Of(h, sid, Returns) : a.note = "superseded"
    BY <1>2, <1>5 DEF NeverIn, Of
<1>8. Of(g, sid, Returns) = Of(h, sid, Returns)
    <2>1. \A a \in filed : a.type = "unlock"
        BY <1>3 DEF FiledFrom
    <2>2. QED BY <2>1 DEF Of, Plain, TurnTypes, Returns
<1>9. /\ f.session = sid /\ f.type = "unlock" /\ (f.order = NoOrder \/ f.order = k.order)
      /\ f.note = UnlockNote(h, p, sid, f.at, k.order)
    BY <1>4 DEF FiledFrom
<1>10. h \in SUBSET RowType
    BY <1>1
<1> HIDE DEF g, h
<1>11. Met(h, sid, p)
    BY <1>6, <1>7 DEF Met
<1>12. Noted(h, f)
    BY <1>9, <1>10, <1>11, UnlockNoted
<1>13. UnlockStands(g, f)
    BY <1>8, <1>9, <1>12 DEF UnlockStands, Noted
<1>14. QED BY <1>9, <1>13 DEF TurnTrue, Returns, g

LEMMA TurnedStep ==
    ASSUME Ground, Ground', [Next]_vars, NEW st \in Students, Numbered(st), Turned(st)
    PROVE  Turned(st)'
<1>1. TypeOK /\ TypeOK' /\ Standing /\ LogTold(st)
    BY StandingStint DEF Ground, Standing, IInv
<1>2. /\ log[st] \in SUBSET RowType /\ log'[st] \in SUBSET RowType
      /\ written[st] \in Nat /\ \A e \in log[st] : e.tx =< written[st]
    BY <1>1 DEF TypeOK, LogTold
<1>3. TurnsTrue(log[st]) /\ NeverIn(log[st], parts[st])
    BY DEF Turned
<1>4. ASSUME NEW rows, log'[st] = log[st] \cup rows, Writes(st, rows, parts'[st], armed'[st]),
             written'[st] = IF rows = {} THEN written[st] ELSE written[st] + 1
      PROVE  Turned(st)'
    <2>1. rows \in SUBSET RowType
        BY <1>2, <1>4
    <2>2. \A e \in rows : e.tx = written[st] + 1 /\ e.place =< 4 + written[st]
        <3>1. ASSUME NEW e \in rows, Plain(st, e) \/ \E n : OwnOf(st, n, e)
              PROVE  e.tx = written[st] + 1 /\ e.place =< 4 + written[st]
            <4>1. e.place \in Nat
                BY <2>1 DEF RowType
            <4>2. QED BY <1>2, <3>1, <4>1 DEF Plain, OwnOf
        <3>2. ASSUME NEW e \in rows, NEW n, NEW sid, NEW h, NEW p, NEW k \in Kept(st, n),
                     FiledFrom(st, n, sid, h, p, k, e)
              PROVE  e.tx = written[st] + 1 /\ e.place =< 4 + written[st]
            <4>1. k.tx \in Nat /\ k.tx =< written[st]
                BY <1>2 DEF Kept, RowType
            <4>2. QED BY <1>2, <3>2, <4>1 DEF FiledFrom
        <3>3. QED BY <1>4, <3>1, <3>2, NewRowIs
    <2>3. Placed(st)'
        <3>1. \A e \in log[st] : e.place \in Nat /\ e.place =< 3 + written[st]
            BY <1>2 DEF Turned, Placed, RowType
        <3>2. \A e \in log'[st] : e.place =< 3 + written'[st]
            BY <1>2, <1>4, <2>2, <3>1
        <3>3. QED BY <3>2 DEF Placed
    <2>4. ASSUME NEW e \in rows, Plain(st, e)
          PROVE  TurnTrue(log[st] \cup rows, e)
        BY <2>4 DEF Plain, TurnTrue, TurnTypes, Returns
    <2>5. /\ \A e \in rows : TurnTrue(log[st] \cup rows, e)
          /\ NeverIn(log[st] \cup rows, parts'[st])
        <3>1. CASE Plainly(st, rows, parts'[st], armed'[st])
            <4>1. \A e \in rows : e.type \notin Returns
                BY <3>1 DEF Plainly, Plain, TurnTypes, Returns
            <4>2. NeverIn(log[st] \cup rows, parts'[st])
                BY <1>3, <3>1, <4>1 DEF Plainly, StintsStay, NeverIn, Of
            <4>3. QED BY <2>4, <3>1, <4>2 DEF Plainly
        <3>2. CASE Acts(st, rows, parts'[st], armed'[st])
            <4>1. PICK n, e : /\ OwnOf(st, n, e) /\ ActTrue(st, n, e)
                              /\ e \in rows /\ \A f \in rows : f = e \/ Plain(st, f)
                              /\ StintsStay(st, parts'[st])
                BY <3>2 DEF Acts
            <4>2. TurnTrue(log[st] \cup rows, e)
                BY <1>1, <1>3, <2>1, <4>1, ActTurns
            <4>3. ASSUME NEW sid \in SessionIds, parts'[st][sid].ended = "no_row",
                         NEW f \in Of(log[st] \cup rows, sid, Returns)
                  PROVE  f.note = "superseded"
                <5>1. parts[st][sid].ended = "no_row"
                    BY <4>1, <4>3 DEF StintsStay
                <5>2. CASE f \in log[st]
                    BY <1>3, <5>1, <5>2 DEF NeverIn, Of
                <5>3. CASE f \in rows
                    <6>1. f = e /\ e.type = "refocus" /\ e.session = sid
                        BY <4>1, <5>3 DEF Of, Plain, TurnTypes, Returns, ActTrue
                    <6>2. QED BY <4>1, <5>1, <6>1 DEF ActTrue, RefocusTrue, Live
                <5>4. QED BY <5>2, <5>3 DEF Of
            <4>4. NeverIn(log[st] \cup rows, parts'[st])
                BY <4>3 DEF NeverIn
            <4>5. QED BY <2>4, <4>1, <4>2, <4>4
        <3>3. CASE Taps(st, rows, parts'[st], armed'[st])
            <4>1. PICK n, e, filed : \E late \in BOOLEAN :
                      /\ OwnOf(st, n, e) /\ TapTrue(st, n, e, late)
                      /\ TapLeaves(st, e, late, parts'[st]) /\ e \in rows /\ filed \subseteq rows
                      /\ \A f \in rows : f = e \/ f \in filed \/ Plain(st, f)
                      /\ TapFiles(st, n, e, late, filed) \/ Unfiled(n, filed, armed'[st])
                BY <3>3 DEF Taps
            <4>2. PICK late \in BOOLEAN :
                      /\ OwnOf(st, n, e) /\ TapTrue(st, n, e, late)
                      /\ TapLeaves(st, e, late, parts'[st]) /\ e \in rows /\ filed \subseteq rows
                      /\ \A f \in rows : f = e \/ f \in filed \/ Plain(st, f)
                      /\ TapFiles(st, n, e, late, filed) \/ Unfiled(n, filed, armed'[st])
                BY <4>1
            <4>3. TurnTrue(log[st] \cup rows, e)
                BY <1>1, <2>1, <4>2, TapTurns
            <4>4. ASSUME NEW f \in filed
                  PROVE  TurnTrue(log[st] \cup rows, f) /\ f.type = "unlock"
                <5>1. f \in RowType /\ TapFiles(st, n, e, late, filed)
                    BY <2>1, <4>2 DEF Unfiled
                <5>2. f.type = "unlock"
                    BY <5>1, FiledIs DEF TapFiles, FiledFrom
                <5>3. e \in RowType
                    BY <2>1, <4>2
                <5>4. QED BY <1>1, <1>3, <4>2, <5>1, <5>2, <5>3, FiledTurns
            <4>5. ASSUME NEW sid \in SessionIds, parts'[st][sid].ended = "no_row",
                         NEW f \in Of(log[st] \cup rows, sid, Returns)
                  PROVE  f.note = "superseded"
                <5>1. parts[st][sid].ended = "no_row" /\ (late \/ sid # e.session)
                    BY <4>2, <4>5 DEF TapLeaves, StintsStay
                <5>2. CASE f \in log[st]
                    BY <1>3, <5>1, <5>2 DEF NeverIn, Of
                <5>3. CASE f \in rows
                    <6>1. f = e /\ e.session = sid
                        BY <4>2, <4>4, <5>3 DEF Of, Plain, TurnTypes, Returns
                    <6>2. QED BY <4>2, <5>1, <6>1 DEF TapTrue
                <5>4. QED BY <5>2, <5>3 DEF Of
            <4>6. NeverIn(log[st] \cup rows, parts'[st])
                BY <4>5 DEF NeverIn
            <4>7. QED BY <2>4, <4>2, <4>3, <4>4, <4>6
        <3>4. QED BY <1>4, <3>1, <3>2, <3>3 DEF Writes
    <2>6. TurnsTrue(log[st] \cup rows)
        BY <1>2, <1>3, <2>1, <2>2, <2>5, TurnsAdded
    <2>7. TurnsTrue(log'[st]) /\ NeverIn(log'[st], parts'[st])
        BY <1>4, <2>5, <2>6
    <2>8. QED BY <2>3, <2>7 DEF Turned, TurnsTrue, NeverIn, TurnTrue, ReturnTrue, UnlockStands,
                                 Of, TappedSince
<1>5. CASE Closes(st)
    <2>1. PICK rows : log'[st] = Bare(log[st]) \cup rows /\ \A e \in rows : Plain(st, e)
        BY <1>5 DEF Closes
    <2>2. written'[st] = written[st] + 1
        BY <1>5 DEF Closes
    <2>3. ASSUME NEW e \in log'[st]
          PROVE  /\ e.order.install = 0 /\ e.place =< 3 + written'[st]
                 /\ e.type \in TurnTypes =>
                       \E f \in log[st] : /\ e.type = f.type /\ e.session = f.session
                                          /\ e.note = f.note
        <3>1. CASE e \in rows
            <4>1. e.order.install = 0 /\ e.place =< 3 /\ e.type \notin TurnTypes
                BY <2>1, <3>1 DEF Plain, NoOrder
            <4>2. e.place \in Nat
                BY <1>2 DEF RowType
            <4>3. QED BY <1>2, <2>2, <4>1, <4>2
        <3>2. CASE e \in Bare(log[st])
            <4>1. e.order.install = 0
                BY <1>2, <3>2, BareRow DEF NoOrder
            <4>2. PICK f \in log[st] : /\ e.place = f.place /\ e.type = f.type
                                       /\ e.session = f.session /\ e.note = f.note
                BY <1>2, <3>2, BareRow
            <4>3. f.place \in Nat /\ f.place =< 3 + written[st]
                BY <1>2 DEF Turned, Placed, RowType
            <4>4. QED BY <1>2, <2>2, <4>1, <4>2, <4>3
        <3>3. QED BY <2>1, <3>1, <3>2
    <2>4. TurnsTrue(log'[st])
        BY <2>3 DEF TurnsTrue, TurnTrue, ReturnTrue, UnlockStands, Level
    <2>5. NeverIn(log'[st], parts'[st])
        <3>1. \A sid \in SessionIds : parts'[st][sid].ended = "no_row"
                  => parts[st][sid].ended = "no_row"
            BY <1>5 DEF Closes
        <3>2. QED BY <1>3, <2>3, <3>1 DEF NeverIn, Of, TurnTypes, Returns
    <2>6. QED BY <2>3, <2>4, <2>5 DEF Turned, Placed
<1>6. QED BY <1>4, <1>5, LogSteps DEF Grows

-----------------------------------------------------------------------------
(* The invariant. *)

Decided ==
    \A st \in Students : /\ Numbered(st) /\ JoinsLast(st)
                         /\ KeptTrue(log[st], armed[st]) /\ Turned(st)

LEMMA DecidedHolds == Spec => [](Ground /\ Decided)
<1>1. Init => Decided
    <2>1. ASSUME Init, NEW st \in Students
          PROVE  /\ Numbered(st) /\ JoinsLast(st)
                 /\ KeptTrue(log[st], armed[st]) /\ Turned(st)
        <3>1. log[st] = {} /\ made[st] = <<>> /\ \A sid \in SessionIds : ~Live(parts[st][sid])
            BY <2>1 DEF Init, NoRow, Live
        <3>2. Numbered(st)
            BY <3>1 DEF Numbered
        <3>3. JoinsLast(st)
            BY <3>1 DEF JoinsLast
        <3>4. KeptTrue(log[st], armed[st])
            BY <3>1 DEF KeptTrue, KeptPlace, FromKept, FiledSingly, FiledWithTap
        <3>5. Turned(st)
            BY <3>1 DEF Turned, TurnsTrue, NeverIn, Placed, Of
        <3>6. QED BY <3>2, <3>3, <3>4, <3>5
    <2>2. QED BY <2>1 DEF Decided
<1>2. Ground /\ Ground' /\ [Next]_vars /\ Decided => Decided'
    <2>1. ASSUME Ground, Ground', [Next]_vars, Decided, NEW st \in Students
          PROVE  /\ Numbered(st)' /\ JoinsLast(st)'
                 /\ KeptTrue(log'[st], armed'[st]) /\ Turned(st)'
        <3>1. Numbered(st) /\ JoinsLast(st) /\ KeptTrue(log[st], armed[st]) /\ Turned(st)
            BY <2>1 DEF Decided
        <3>2. TypeOK'
            BY <2>1 DEF Ground, Standing, IInv
        <3>3. QED BY <2>1, <3>1, <3>2, NumberedStep, JoinsLastStep, KeptStep, TurnedStep
    <2>2. ASSUME Ground, Ground', [Next]_vars, Decided
          PROVE  Decided'
        <3>1. \A st \in Students : /\ Numbered(st)' /\ JoinsLast(st)'
                                   /\ KeptTrue(log'[st], armed'[st]) /\ Turned(st)'
            BY <2>1, <2>2
        <3>2. QED BY <3>1 DEF Decided, KeptTrue, KeptPlace, FromKept, FiledSingly, FiledWithTap,
                              IsKept
    <2>3. QED BY <2>2
<1>3. IInv /\ (Windows /\ Told) /\ Filing => Ground
    BY DEF Ground, Standing
<1>4. QED BY <1>1, <1>2, <1>3, Invariance, FilingHolds, ToldHolds, PTL DEF Spec

(* The order the taps of one install reached the server in does not matter:   *)
(* of the lessons they joined, the student is in that of the one made last    *)
(* (tapIn's late tap, A14).                                                   *)
THEOREM LastTapJoins == Spec => []LastTapDecides
<1>1. Ground /\ Decided => LastTapDecides
    <2> SUFFICES ASSUME Ground, Decided, NEW st \in Students, NEW sid \in SessionIds,
                        Live(parts[st][sid]),
                        OneInstall({e \in log[st] : e.type = "tap_in"}),
                        NEW e \in log[st], e.type = "tap_in", e.session # sid, e.note = "none"
                 PROVE  \E f \in log[st] : /\ f.type = "tap_in" /\ f.session = sid
                                           /\ f.order.seq > e.order.seq
        BY DEF LastTapDecides
    <2>1. PICK f \in log[st] : JoinedBy(log[st], sid, f)
        BY DEF Decided, JoinsLast
    <2>2. f.type = "tap_in" /\ f.session = sid /\ Outdone(f, e)
        BY <2>1 DEF JoinedBy
    <2>3. e.order.install = f.order.install /\ f.order.install # 0
        BY <2>2 DEF OneInstall
    <2>4. e.order.seq \in Nat /\ f.order.seq \in Nat
        <3>1. e \in RowType /\ f \in RowType
            BY StandingStint DEF Ground, TypeOK
        <3>2. QED BY <3>1 DEF RowType
    <2>5. QED BY <2>2, <2>3, <2>4 DEF Outdone
<1>2. QED BY <1>1, DecidedHolds, PTL

(* An unlock kept under a tap no one had seen is filed where that tap lands,  *)
(* once and in its session, unless the tap waited for a Start                 *)
(* (fileKeptUnlocks).                                                         *)
THEOREM KeptIsFiled == Spec => []KeptUnlockFiled
<1>1. Ground /\ Decided => KeptUnlockFiled
    <2> SUFFICES ASSUME Ground, Decided, NEW st \in Students, NEW e \in log[st], NEW tap \in log[st],
                        e.type = "unlock", e.note = "unknown_tap", tap.type = "tap_in",
                        tap.id = e.claim, \A a \in armed[st] : a.id = tap.id => a.waiting
                 PROVE  /\ \E f \in log[st] : f.from = e.id /\ f.session = tap.session
                        /\ \A f, g \in log[st] : f.from = e.id /\ g.from = e.id => f = g
        BY DEF KeptUnlockFiled
    <2>1. KeptTrue(log[st], armed[st]) /\ IsKept(e)
        BY DEF Decided, IsKept
    <2>2. \E f \in log[st] : f.from = e.id /\ f.session = tap.session
        BY <2>1 DEF KeptTrue, FiledWithTap
    <2>3. e.id # 0
        BY <2>1 DEF KeptTrue, KeptPlace
    <2>4. \A f, g \in log[st] : f.from = e.id /\ g.from = e.id => f = g
        BY <2>1, <2>3 DEF KeptTrue, FiledSingly
    <2>5. QED BY <2>2, <2>4
<1>2. QED BY <1>1, DecidedHolds, PTL

(* A set of rows at or below a bound has one that none comes after. *)
LEMMA SomeNewest ==
    ASSUME NEW rows \in SUBSET RowType, rows # {}, NEW w \in Nat, NEW b \in Nat,
           \A e \in rows : e.tx =< w /\ e.place =< b
    PROVE  \E e \in rows : \A f \in rows : ~After(f, e)
<1> DEFINE txs == {e.tx : e \in rows}
<1>1. txs \in SUBSET Int /\ txs # {} /\ w \in Int /\ \A i \in txs : i =< w
    BY DEF RowType
<1> HIDE DEF txs
<1>2. PICK i \in txs : \A j \in txs : j =< i
    BY <1>1, SomeGreatest
<1>3. PICK d \in rows : d.tx = i
    BY <1>2 DEF txs
<1>4. \A e \in rows : e.tx =< d.tx
    BY <1>2, <1>3 DEF txs
<1> DEFINE last == {e \in rows : e.tx = d.tx}
           places == {e.place : e \in last}
<1>5. places \in SUBSET Int /\ places # {} /\ b \in Int /\ \A j \in places : j =< b
    BY <1>3 DEF RowType
<1> HIDE DEF places
<1>6. PICK k \in places : \A j \in places : j =< k
    BY <1>5, SomeGreatest
<1>7. PICK e \in last : e.place = k
    BY <1>6 DEF places
<1>8. \A f \in last : f.place =< e.place
    BY <1>6, <1>7 DEF places
<1>9. \A f \in rows : f.tx \in Nat /\ f.place \in Nat
    BY DEF RowType
<1>10. \A f \in rows : ~After(f, e)
    BY <1>4, <1>7, <1>8, <1>9 DEF After
<1>11. QED BY <1>7, <1>10

(* So has a phone's order of the rows one install numbered a last. *)
LEMMA SomeLast ==
    ASSUME TypeOK, NEW st \in Students, Numbered(st), NEW turns \in SUBSET log[st], turns # {},
           OneInstall(turns)
    PROVE  \E e \in turns : \A f \in turns : f.order.seq =< e.order.seq
<1> DEFINE seqs == {e.order.seq : e \in turns}
           n == Len(made[st])
<1>1. made[st] \in Seq(MadeType) /\ log[st] \in SUBSET RowType
    BY DEF TypeOK
<1>2. n \in Nat /\ DOMAIN made[st] = 1 .. n
    BY <1>1
<1>3. \A e \in turns : e.order.seq =< n
    <2>1. ASSUME NEW e \in turns
          PROVE  e.order.seq =< n
        <3>1. e.order.install # 0
            BY DEF OneInstall
        <3>2. PICK k \in log[st] : k.id # 0 /\ k.id = e.order.seq
            BY <3>1 DEF Numbered
        <3>3. k.id \in DOMAIN made[st]
            BY <3>2 DEF Numbered
        <3>4. QED BY <1>2, <3>2, <3>3
    <2>2. QED BY <2>1
<1> HIDE DEF n
<1>4. seqs \in SUBSET Int /\ seqs # {} /\ n \in Int /\ \A i \in seqs : i =< n
    BY <1>1, <1>2, <1>3 DEF RowType
<1> HIDE DEF seqs
<1>5. PICK i \in seqs : \A j \in seqs : j =< i
    BY <1>4, SomeGreatest
<1>6. PICK e \in turns : e.order.seq = i
    BY <1>5 DEF seqs
<1>7. QED BY <1>5, <1>6 DEF seqs

(* Where one install numbered the turns there and no tap elsewhere went       *)
(* ahead of one of them, the order they reached the server in does not        *)
(* matter: a live student is unlocked exactly when the turn made last is an   *)
(* unlock (decideUnlock, changeState's and tapIn's late records; A12, A13).   *)
THEOREM LastTurnStands == Spec => []NewestActionStands
<1>1. Ground /\ Decided => NewestActionStands
    <2> SUFFICES ASSUME Ground, Decided, NEW st \in Students, NEW sid \in SessionIds,
                        NEW turns, turns = Of(log[st], sid, {"tap_in", "refocus", "unlock"}),
                        Live(parts[st][sid]), parts[st][sid].state # "protection_off",
                        OneInstall(turns), NotOvertaken(log[st], sid, turns)
                 PROVE  parts[st][sid].state = "unlocked" <=>
                            \E e \in turns : /\ e.type = "unlock"
                                             /\ \A f \in turns : f.order.seq =< e.order.seq
        BY DEF NewestActionStands
    <2> DEFINE h == log[st]
               T == Turns(h, sid)
    <2>1. /\ TypeOK /\ h \in SUBSET RowType /\ written[st] \in Nat
          /\ StintTold(h, parts[st][sid], sid, Open(sid))
          /\ \A e \in h : e.tx =< written[st] /\ e.place =< 3 + written[st]
        <3>1. TypeOK /\ LogTold(st) /\ StintTold(h, parts[st][sid], sid, Open(sid))
            BY StandingStint DEF Ground
        <3>2. QED BY <3>1 DEF TypeOK, LogTold, Decided, Turned, Placed
    <2>2. Numbered(st) /\ TurnsTrue(h)
        BY DEF Decided, Turned
    <2>3. sid # NoSession
        BY DEF SessionIds, NoSession
    <2>4. parts[st][sid].state = "unlocked" <=> NewestIs(T, {"unlock"})
        BY <2>1 DEF StintTold, StateTold, Unlocked
    <2>5. T = {e \in turns : e.note # "superseded"} /\ turns \subseteq h
        BY DEF Turns, Of
    <2>6. turns # {}
        BY <2>1 DEF StintTold, Came, Moves, OnTime, Of, MoveTypes, NewestIs
    <2>7. PICK m \in turns : \A f \in turns : f.order.seq =< m.order.seq
        BY <2>1, <2>2, <2>5, <2>6, SomeLast
    <2>8. \A e, f \in turns : Level(e, f)
        BY DEF OneInstall, Level
    <2>9. \A e \in turns : e.order.seq \in Nat /\ e.session = sid
                           /\ e.type \in {"tap_in", "refocus", "unlock"}
        BY <2>1, <2>5 DEF RowType, Of
    <2>10. \A e \in turns : /\ e.type \in Returns => ReturnTrue(h, e)
                            /\ e.type = "unlock" => UnlockStands(h, e)
        BY <2>2, <2>3, <2>5, <2>9 DEF TurnsTrue, TurnTrue
    <2>11. /\ \A e : e \in Of(h, sid, {"unlock"}) <=> e \in turns /\ e.type = "unlock"
           /\ \A e : e \in Of(h, sid, Returns) <=> e \in turns /\ e.type \in Returns
        BY DEF Of, Returns
    (* The turn made last is late for nothing. *)
    <2>12. m.note # "superseded"
        <3>1. CASE m.type = "unlock"
            <4>1. UnlockStands(h, m) /\ m.order.install # 0
                BY <2>8, <2>10, <3>1 DEF Level
            <4>2. ASSUME NEW a \in Of(h, sid, Returns)
                  PROVE  a.order.install = m.order.install /\ ~(a.order.seq > m.order.seq)
                BY <2>7, <2>8, <2>9, <2>11 DEF Level
            <4>3. QED BY <2>9, <4>1, <4>2 DEF UnlockStands
        <3>2. CASE m.type \in Returns
            <4>1. ReturnTrue(h, m) /\ m.order.install # 0
                BY <2>8, <2>10, <3>2 DEF Level
            <4>2. ASSUME NEW a \in Of(h, sid, {"unlock"})
                  PROVE  ~MadeAfter(a, m.order)
                BY <2>7, <2>9, <2>11 DEF MadeAfter
            <4>3. m.type = "tap_in" /\ m.note = "superseded" => ~TappedSince(h, m.order, sid)
                BY DEF NotOvertaken
            <4>4. QED BY <2>9, <4>1, <4>2, <4>3 DEF ReturnTrue
        <3>3. QED BY <2>9, <3>1, <3>2 DEF Returns
    <2>13. ASSUME NEW u \in T, u.type = "unlock", \A f \in T : ~After(f, u)
           PROVE  \E e \in turns : e.type = "unlock" /\ \A f \in turns : f.order.seq =< e.order.seq
        <3>1. CASE m.type = "unlock"
            BY <2>7, <3>1
        <3>2. CASE m.type \in Returns
            <4>1. UnlockStands(h, u) /\ u.note # "superseded" /\ u \in turns /\ ~After(m, u)
                BY <2>5, <2>10, <2>12, <2>13
            <4>2. m \in Of(h, u.session, Returns) /\ Level(m, u)
                BY <2>8, <2>9, <2>11, <3>2, <4>1
            <4>3. m.order.seq =< u.order.seq
                BY <2>12, <4>1, <4>2 DEF UnlockStands
            <4>4. \A f \in turns : f.order.seq =< u.order.seq
                BY <2>7, <2>9, <4>1, <4>3
            <4>5. QED BY <2>13, <4>1, <4>4
        <3>3. QED BY <2>9, <3>1, <3>2 DEF Returns
    <2>14. ASSUME NEW e \in turns, e.type = "unlock", \A f \in turns : f.order.seq =< e.order.seq
           PROVE  NewestIs(T, {"unlock"})
        <3>1. PICK w \in T : \A f \in T : ~After(f, w)
            <4>1. T \in SUBSET RowType /\ T # {} /\ 3 + written[st] \in Nat
                BY <2>1, <2>5, <2>7, <2>12
            <4>2. \A f \in T : f.tx =< written[st] /\ f.place =< 3 + written[st]
                BY <2>1, <2>5
            <4> HIDE DEF T
            <4>3. QED BY <2>1, <4>1, <4>2, SomeNewest
        <3>2. CASE w.type = "unlock"
            BY <3>1, <3>2 DEF NewestIs
        <3>3. CASE w.type \in Returns
            <4>1. ReturnTrue(h, w) /\ w.note # "superseded" /\ w \in turns
                BY <2>5, <2>10, <3>1, <3>3
            <4>2. e \in Of(h, w.session, {"unlock"}) /\ Level(e, w)
                BY <2>8, <2>9, <2>11, <2>14, <4>1
            <4>3. After(e, w) \/ e.order.seq < w.order.seq
                BY <4>1, <4>2 DEF ReturnTrue
            <4>4. After(e, w)
                BY <2>9, <2>14, <4>1, <4>3
            (* So e is late, though it is made last: not so. *)
            <4>5. e.note = "superseded"
                BY <2>5, <3>1, <4>4
            <4>6. UnlockStands(h, e) /\ e.order.install # 0
                BY <2>8, <2>10, <2>14 DEF Level
            <4>7. ASSUME NEW a \in Of(h, sid, Returns)
                  PROVE  a.order.install = e.order.install /\ ~(a.order.seq > e.order.seq)
                BY <2>8, <2>9, <2>11, <2>14 DEF Level
            <4>8. QED BY <2>9, <4>5, <4>6, <4>7 DEF UnlockStands
        <3>4. QED BY <2>5, <2>9, <3>1, <3>2, <3>3 DEF Returns
    <2>15. QED BY <2>4, <2>13, <2>14 DEF NewestIs
<1>2. QED BY <1>1, DecidedHolds, PTL
=============================================================================
