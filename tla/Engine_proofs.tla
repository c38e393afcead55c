--------------------------- MODULE Engine_proofs ---------------------------
(***************************************************************************)
(* Proofs, for every value of the constants, about the engine's state.     *)
(* Each transaction of one student's is first shown, on its own, to keep   *)
(* the shapes of its rows and to move the student in one of two ways only: *)
(* no stint of theirs comes to life, or one does, in an open session of a  *)
(* class they are in, and it is then the only one (TxOK).  Every action    *)
(* then preserves the inductive invariant because the transactions do.     *)
(***************************************************************************)
EXTENDS EngineProps, TLAPS

RowOK(st, e) ==
    /\ e \in RowType
    /\ e.type = "tap_in" => e.session # NoSession
    /\ e.type = "unlock" /\ e.session = NoSession => e.id \in DOMAIN made[st]

ArmedOK(st, a) == a \in ArmedType /\ a.id \in DOMAIN made[st]

(* No stint of qs is live that was not. *)
Stays(st, qs) == \A o \in SessionIds : Live(qs[o]) => Live(parts[st][o])

(* The session's stint is the only one of qs that is live. *)
Joins(st, qs, sid) ==
    /\ Open(sid) /\ IsIn(st, sid)
    /\ \A o \in SessionIds : Live(qs[o]) => o = sid

Settles(st, qs) == Stays(st, qs) \/ \E sid \in SessionIds : Joins(st, qs, sid)

TxOK(st, tx) ==
    /\ \A e \in tx.rows : RowOK(st, e)
    /\ tx.parts \in [SessionIds -> PartType]
    /\ \A a \in tx.armed : ArmedOK(st, a)
    /\ Settles(st, tx.parts)

(* The inductive invariant: a join keeps OneLessonPerStudent only because no  *)
(* one is live in a session before it opens, and a removal ends the stint     *)
(* because it is in an open session.                                          *)
IInv ==
    /\ TypeOK
    /\ OneLessonPerStudent
    /\ OneOpenLessonPerClass
    /\ OverLessonHasNoOne
    /\ LiveIsEnrolled

-----------------------------------------------------------------------------
(* Rows. *)

(* A time held to a session's window is a time, and a natural number. *)
LEMMA ClampType ==
    ASSUME NEW s \in SessionType, NEW t \in Int
    PROVE  Clamp(t, s) \in Nat
BY DEF SessionType, Clamp, Least, Greatest

LEMMA SessionClamp ==
    ASSUME TypeOK, NEW sid \in SessionIds, NEW t \in Int
    PROVE  Clamp(t, sessions[sid]) \in Nat /\ Clamp(t, sessions[sid]) \in Int
<1>1. sessions[sid] \in SessionType
    BY DEF TypeOK
<1>2. QED BY <1>1, ClampType

(* A server's row is a row, in any session that may be. *)
LEMMA ServerRowType ==
    ASSUME TypeOK, NEW st \in Students, NEW place \in Nat, NEW type \in RowTypes,
           NEW sid \in SessionIds \cup {NoSession}, NEW at \in Int
    PROVE  ServerRow(st, place, type, sid, at) \in RowType
<1>1. NoOrder \in [install : Nat, seq : Nat]
    BY DEF NoOrder
<1>2. written[st] + 1 \in Nat /\ now \in Nat
    BY DEF TypeOK
<1>3. "none" \in Notes
    BY DEF Notes
<1>4. QED BY <1>1, <1>2, <1>3 DEF ServerRow, RowType

(* A record a phone made has the shape Make gives it. *)
LEMMA MadeRecord ==
    ASSUME TypeOK, NEW st \in Students, NEW n \in DOMAIN made[st]
    PROVE  n \in Nat /\ made[st][n] \in MadeType
<1>1. made[st] \in Seq(MadeType)
    BY DEF TypeOK
<1>2. QED BY <1>1

LEMMA RecordClamp ==
    ASSUME TypeOK, NEW st \in Students, NEW n \in DOMAIN made[st], NEW sid \in SessionIds
    PROVE  Clamp(made[st][n].at, sessions[sid]) \in Int
<1>1. made[st][n].at \in Int
    BY MadeRecord DEF MadeType
<1>2. QED BY <1>1, SessionClamp

LEMMA OrderType ==
    ASSUME TypeOK, NEW st \in Students, NEW n \in DOMAIN made[st]
    PROVE  Order(st, n) \in [install : Nat, seq : Nat]
BY MadeRecord DEF Order, NoOrder, MadeType

LEMMA KeptOrderType ==
    ASSUME NEW st \in Students, NEW order \in [install : Nat, seq : Nat]
    PROVE  KeptOrder(st, order) \in [install : Nat, seq : Nat]
BY DEF KeptOrder, NoOrder

(* The phone's own row is a row, named by the record it keeps. *)
LEMMA PhoneRowType ==
    ASSUME TypeOK, NEW st \in Students, NEW n \in DOMAIN made[st], NEW type \in RowTypes,
           NEW sid \in SessionIds \cup {NoSession}, NEW at \in Int, NEW note \in Notes
    PROVE  /\ PhoneRow(st, n, type, sid, at, note) \in RowType
           /\ PhoneRow(st, n, type, sid, at, note).id = n
           /\ PhoneRow(st, n, type, sid, at, note).type = type
           /\ PhoneRow(st, n, type, sid, at, note).session = sid
<1>1. KeptOrder(st, Order(st, n)) \in [install : Nat, seq : Nat]
    BY OrderType, KeptOrderType
<1>2. ServerRow(st, 1, type, sid, at) \in RowType
    BY ServerRowType
<1>3. n \in Nat /\ made[st][n].claim \in Nat
    BY MadeRecord DEF MadeType
<1>4. QED BY <1>1, <1>2, <1>3 DEF PhoneRow, ServerRow, RowType

-----------------------------------------------------------------------------
(* The pieces transactions are made of. *)

(* A transaction that changes no stint, and writes and arms nothing new. *)
LEMMA NoChangeOK ==
    ASSUME TypeOK, NEW st \in Students, NEW answer
    PROVE  TxOK(st, NoChange(st, answer))
<1>1. /\ \A a \in armed[st] : ArmedOK(st, a)
      /\ parts[st] \in [SessionIds -> PartType]
    BY DEF TypeOK, Referring, ArmedOK
<1>2. QED BY <1>1 DEF NoChange, TxOK, Settles, Stays

LEMMA RefuseOK ==
    ASSUME TypeOK, NEW st \in Students, NEW code
    PROVE  TxOK(st, Refuse(st, code)) /\ TxOK(st, Replay(st))
BY NoChangeOK DEF Refuse, Replay

(* Being heard from changes neither where nor in what state a student is. *)
LEMMA HeardType ==
    ASSUME NEW p \in PartType
    PROVE  /\ Heard(p) \in PartType
           /\ Heard(p).ended = p.ended
           /\ Heard(p).state = p.state
BY DEF Heard, PartType

LEMMA BackRowsOK ==
    ASSUME TypeOK, NEW st \in Students, NEW sid \in SessionIds, NEW t \in Nat
    PROVE  \A e \in BackRows(st, sid, t) : RowOK(st, e)
<1> DEFINE silences == {e.at : e \in Of(log[st], sid, {"went_silent"})}
           times == {Clamp(t, sessions[sid])} \cup silences
<1>1. "came_back" \in RowTypes
    BY DEF RowTypes
<1>2. sessions[sid] \in SessionType /\ log[st] \in SUBSET RowType
    BY DEF TypeOK
<1>3. \A at \in times : at \in Int
    BY <1>2, ClampType DEF Of, RowType
<1>4. \A at \in Latest(times) : at \in Int
    BY <1>3 DEF Latest
<1>5. \A at \in Int : RowOK(st, ServerRow(st, 3, "came_back", sid, at))
    <2>1. TAKE at \in Int
    <2>2. ServerRow(st, 3, "came_back", sid, at) \in RowType
        BY <1>1, ServerRowType
    <2>3. ServerRow(st, 3, "came_back", sid, at).type = "came_back"
        BY DEF ServerRow
    <2>4. QED BY <2>2, <2>3 DEF RowOK
<1>6. QED BY <1>4, <1>5 DEF BackRows

(* The rows that end stints elsewhere. *)
LEMMA LeftRowsOK ==
    ASSUME TypeOK, NEW st \in Students, NEW ps, NEW sid \in SessionIds, NEW at \in Int
    PROVE  \A e \in LeftRows(st, ps, sid, at) : RowOK(st, e)
<1>1. "left_for_other_session" \in RowTypes
    BY DEF RowTypes
<1>2. \A o \in SessionIds : RowOK(st, ServerRow(st, 2, "left_for_other_session", o, at))
    <2>1. TAKE o \in SessionIds
    <2>2. ServerRow(st, 2, "left_for_other_session", o, at) \in RowType
        BY <1>1, ServerRowType
    <2>3. ServerRow(st, 2, "left_for_other_session", o, at).type = "left_for_other_session"
        BY DEF ServerRow
    <2>4. QED BY <2>2, <2>3 DEF RowOK
<1>3. QED BY <1>2 DEF LeftRows, LiveElsewhere

(* A join leaves a student live in that one session, fresh. *)
LEMMA JoinedOnlyOK ==
    ASSUME NEW ps \in [SessionIds -> PartType], NEW sid \in SessionIds
    PROVE  /\ JoinedOnly(ps, sid) \in [SessionIds -> PartType]
           /\ \A o \in SessionIds : Live(JoinedOnly(ps, sid)[o]) => o = sid
<1>1. Fresh \in PartType
    BY DEF Fresh, PartType, States, Endings
<1>2. \A p \in PartType : [p EXCEPT !.ended = "left_for_other_session"] \in PartType
    BY DEF PartType, Endings
<1>3. \A p \in PartType : ~Live([p EXCEPT !.ended = "left_for_other_session"])
    BY DEF PartType, Live
<1>4. QED BY <1>1, <1>2, <1>3 DEF JoinedOnly, LiveElsewhere

(* The student's stint in the session takes a new state, after contact, and   *)
(* lives no more than it did.                                                 *)
LEMMA SetStateOK ==
    ASSUME TypeOK, NEW st \in Students, NEW sid \in SessionIds, NEW state \in States
    PROVE  LET qs == [parts[st] EXCEPT ![sid] = [Heard(@) EXCEPT !.state = state]]
           IN qs \in [SessionIds -> PartType] /\ Stays(st, qs)
<1>1. parts[st] \in [SessionIds -> PartType]
    BY DEF TypeOK
<1>2. \A p \in PartType : /\ [Heard(p) EXCEPT !.state = state] \in PartType
                          /\ [Heard(p) EXCEPT !.state = state].ended = p.ended
    BY HeardType DEF PartType
<1>3. QED BY <1>1, <1>2 DEF Stays, Live

-----------------------------------------------------------------------------
(* Unlocks. *)

LEMMA UnlockNoteType ==
    ASSUME NEW h, NEW p, NEW sid, NEW at, NEW order
    PROVE  UnlockNote(h, p, sid, at, order) \in Notes
BY DEF UnlockNote, Notes

(* Each kept unlock is filed as a row of the session it is filed in. *)
LEMMA FiledOK ==
    ASSUME TypeOK, NEW st \in Students, NEW n \in DOMAIN made[st],
           NEW sid \in SessionIds, NEW h, NEW p
    PROVE  \A e \in Filed(st, n, sid, h, p) : RowOK(st, e)
<1> DEFINE row(e, at, note) ==
        [ServerRow(st, 3 + e.tx, "unlock", sid, at) EXCEPT
            !.order = KeptOrder(st, e.order), !.claim = n, !.from = e.id, !.note = note]
<1>1. "unlock" \in RowTypes
    BY DEF RowTypes
<1>2. n \in Nat
    BY MadeRecord
<1>3. ASSUME NEW e \in Kept(st, n), NEW at \in Int, NEW note \in Notes
      PROVE  RowOK(st, row(e, at, note))
    <2>1. e \in RowType
        BY DEF Kept, TypeOK
    <2>2. 3 + e.tx \in Nat /\ e.id \in Nat
        BY <2>1 DEF RowType
    <2>3. KeptOrder(st, e.order) \in [install : Nat, seq : Nat]
        BY <2>1, KeptOrderType DEF RowType
    <2>4. ServerRow(st, 3 + e.tx, "unlock", sid, at) \in RowType
        BY <1>1, <2>2, ServerRowType
    <2>5. /\ row(e, at, note) \in RowType
          /\ row(e, at, note).type = "unlock"
          /\ row(e, at, note).session = sid
        BY <1>2, <2>2, <2>3, <2>4 DEF ServerRow, RowType
    <2>6. sid # NoSession
        BY DEF SessionIds, NoSession
    <2>7. QED BY <2>5, <2>6 DEF RowOK
<1>4. ASSUME NEW e \in Kept(st, n)
      PROVE  Clamp(made[st][e.id].at, sessions[sid]) \in Int
    <2>1. e.id \in DOMAIN made[st]
        BY DEF Kept, TypeOK, Referring
    <2>2. QED BY <2>1, RecordClamp
<1>5. ASSUME NEW f \in Filed(st, n, sid, h, p)
      PROVE  RowOK(st, f)
    <2>1. PICK e \in Kept(st, n) :
              LET at == Clamp(made[st][e.id].at, sessions[sid])
              IN f = row(e, at, UnlockNote(h, p, sid, at, e.order))
        BY DEF Filed
    <2>2. QED BY <1>3, <1>4, <2>1, UnlockNoteType
<1>6. QED BY <1>5

LEMMA OrphanOK ==
    ASSUME TypeOK, NEW st \in Students, NEW n \in DOMAIN made[st], NEW note \in Notes
    PROVE  TxOK(st, Orphan(st, n, note))
<1> DEFINE row == PhoneRow(st, n, "unlock", NoSession, now, note)
           tx == [NoChange(st, Answer("recorded", NoSession, "none")) EXCEPT !.rows = {row}]
<1>1. "unlock" \in RowTypes /\ now \in Int
    BY DEF RowTypes, TypeOK
<1>2. RowOK(st, row)
    BY <1>1, PhoneRowType DEF RowOK
<1>3. TxOK(st, NoChange(st, Answer("recorded", NoSession, "none")))
    BY NoChangeOK
<1>4. TxOK(st, tx)
    BY <1>2, <1>3 DEF TxOK, NoChange
<1>5. QED BY <1>4, RefuseOK DEF Orphan

LEMMA UnlockInOK ==
    ASSUME TypeOK, NEW st \in Students, NEW n \in DOMAIN made[st],
           NEW sid \in SessionIds, NEW t \in Nat
    PROVE  TxOK(st, UnlockIn(st, n, sid, t))
<1> DEFINE p == parts[st][sid]
           at == Clamp(made[st][n].at, sessions[sid])
           note == UnlockNote(log[st], p, sid, at, Order(st, n))
           state == IF note = "none" THEN "unlocked" ELSE p.state
           row == PhoneRow(st, n, "unlock", sid, at, note)
           qs == [parts[st] EXCEPT ![sid] = [Heard(p) EXCEPT !.state = state]]
<1>1. "unlock" \in RowTypes /\ "not_enrolled" \in Notes
    BY DEF RowTypes, Notes
<1>2. p \in PartType /\ sid # NoSession
    <2>1. p \in PartType
        BY DEF TypeOK
    <2>2. QED BY <2>1 DEF SessionIds, NoSession
<1>3. at \in Int
    BY RecordClamp
<1>4. note \in Notes
    BY UnlockNoteType
<1>5. RowOK(st, row)
    BY <1>1, <1>2, <1>3, <1>4, PhoneRowType DEF RowOK
<1>6. state \in States
    BY <1>2 DEF PartType, States
<1>7. qs \in [SessionIds -> PartType] /\ Stays(st, qs)
    BY <1>6, SetStateOK
<1>8. \A a \in armed[st] : ArmedOK(st, a)
    BY DEF TypeOK, Referring, ArmedOK
<1>9. \A e \in {row} \cup BackRows(st, sid, t) : RowOK(st, e)
    BY <1>5, BackRowsOK
<1>10. ASSUME NEW answer
       PROVE  TxOK(st, [rows |-> {row} \cup BackRows(st, sid, t), parts |-> qs,
                        armed |-> armed[st], answer |-> answer])
    BY <1>7, <1>8, <1>9 DEF TxOK, Settles
<1>11. QED BY <1>1, <1>10, OrphanOK, RefuseOK, NoChangeOK DEF UnlockIn

LEMMA UnlockOK ==
    ASSUME TypeOK, NEW st \in Students, NEW n \in DOMAIN made[st], NEW t \in Nat,
           made[st][n].kind = "unlock", Addressed(st, n)
    PROVE  TxOK(st, Unlock(st, n, t))
<1>1. CASE made[st][n].claim # 0
    <2> DEFINE tap == made[st][n].claim
               own == Recorded(st, n)
               landed == IF own # {} THEN own
                         ELSE {e \in Recorded(st, tap) : e.type = "tap_in"}
               sid == (CHOOSE e \in landed : e.session # NoSession).session
    <2>1. "tap_armed" \in Notes /\ "unknown_tap" \in Notes
        BY DEF Notes
    <2>2. ASSUME \E e \in landed : e.session # NoSession
          PROVE  sid \in SessionIds
        <3>1. landed \subseteq RowType
            BY DEF Recorded, TypeOK
        <3>2. PICK e \in landed : e.session # NoSession
            BY <2>2
        <3>3. (CHOOSE f \in landed : f.session # NoSession) \in landed /\ sid # NoSession
            BY <3>2
        <3>4. QED BY <3>1, <3>3 DEF RowType
    <2>3. QED BY <1>1, <2>1, <2>2, UnlockInOK, OrphanOK DEF Unlock, UnlockUnderTap
<1>2. CASE made[st][n].claim = 0
    <2>1. made[st][n].session \in SessionIds
        BY <1>2, MadeRecord DEF Addressed, MadeType
    <2>2. QED BY <1>2, <2>1, UnlockInOK DEF Unlock
<1>3. QED BY <1>1, <1>2

-----------------------------------------------------------------------------
(* Taps. *)

(* A running session a student is in the class of has started: only a session *)
(* with a class is in a class.                                                *)
LEMMA RunningIsOpen ==
    ASSUME TypeOK, NEW st \in Students, NEW sid \in SessionIds, NEW t,
           Running(sessions[sid], t), IsIn(st, sid)
    PROVE  Open(sid)
<1>1. sessions[sid].class \in Classes
    BY DEF IsIn, TypeOK
<1>2. QED BY <1>1, PeopleAssumption DEF Open, Started, Running

(* A new state for one stint ends none and begins none. *)
LEMMA StateOnly ==
    ASSUME NEW ps \in [SessionIds -> PartType], NEW sid \in SessionIds, NEW state \in States
    PROVE  /\ [ps EXCEPT ![sid].state = state] \in [SessionIds -> PartType]
           /\ \A o \in SessionIds : [ps EXCEPT ![sid].state = state][o].ended = ps[o].ended
<1>1. \A p \in PartType : /\ [p EXCEPT !.state = state] \in PartType
                          /\ [p EXCEPT !.state = state].ended = p.ended
    BY DEF PartType
<1>2. QED BY <1>1

(* A tap that lands: a late one stays where the student is, any other joins.  *)
LEMMA LandTapOK ==
    ASSUME TypeOK, NEW st \in Students, NEW n \in DOMAIN made[st],
           NEW sid \in SessionIds, NEW t \in Nat, Open(sid), IsIn(st, sid)
    PROVE  TxOK(st, LandTap(st, n, sid, t))
<1> DEFINE at == Clamp(made[st][n].at, sessions[sid])
           late == \/ MadeSince(log[st], sid, sessions[sid], Order(st, n), "unlock")
                   \/ TappedSince(log[st], Order(st, n), sid)
           note == IF late THEN "superseded" ELSE "none"
           tap == PhoneRow(st, n, "tap_in", sid, at, note)
           ps == IF late THEN [parts[st] EXCEPT ![sid] = Heard(@)]
                 ELSE JoinedOnly(parts[st], sid)
           filed == Filed(st, n, sid, log[st] \cup {tap}, ps[sid])
           left == IF late THEN {} ELSE LeftRows(st, parts[st], sid, at)
           state == IF \E e \in filed : e.note = "none" THEN "unlocked" ELSE ps[sid].state
           qs == [ps EXCEPT ![sid].state = state]
<1>1. "tap_in" \in RowTypes /\ note \in Notes /\ sid # NoSession
    BY DEF RowTypes, Notes, SessionIds, NoSession
<1>2. at \in Int
    BY RecordClamp
<1>3. RowOK(st, tap)
    BY <1>1, <1>2, PhoneRowType DEF RowOK
<1>4. \A e \in {tap} \cup filed \cup BackRows(st, sid, t) \cup left : RowOK(st, e)
    BY <1>2, <1>3, FiledOK, BackRowsOK, LeftRowsOK
<1>5. parts[st] \in [SessionIds -> PartType]
    BY DEF TypeOK
<1>6. ps \in [SessionIds -> PartType]
    BY <1>5, HeardType, JoinedOnlyOK
<1>7. state \in States
    <2>1. ps[sid] \in PartType
        BY <1>6
    <2>2. "unlocked" \in States /\ ps[sid].state \in States
        BY <2>1 DEF PartType, States
    <2> HIDE DEF ps, filed
    <2>3. QED BY <2>2
<1>8. /\ qs \in [SessionIds -> PartType]
      /\ \A o \in SessionIds : qs[o].ended = ps[o].ended
    <2> HIDE DEF ps, state
    <2>1. QED BY <1>6, <1>7, StateOnly
<1>9. Settles(st, qs)
    <2>1. CASE late
        <3>1. \A o \in SessionIds : ps[o].ended = parts[st][o].ended
            BY <1>5, <2>1, HeardType
        <3>2. QED BY <1>8, <3>1 DEF Settles, Stays, Live
    <2>2. CASE ~late
        <3>1. \A o \in SessionIds : Live(ps[o]) => o = sid
            BY <1>5, <2>2, JoinedOnlyOK
        <3>2. QED BY <1>8, <3>1 DEF Settles, Joins, Live
    <2>3. QED BY <2>1, <2>2
<1>10. \A a \in armed[st] : ArmedOK(st, a)
    BY DEF TypeOK, Referring, ArmedOK
<1>11. QED BY <1>4, <1>8, <1>9, <1>10 DEF TxOK, LandTap

LEMMA TapInOK ==
    ASSUME TypeOK, NEW st \in Students, NEW n \in DOMAIN made[st],
           NEW sid \in SessionIds, NEW t \in Nat
    PROVE  TxOK(st, TapIn(st, n, sid, t))
<1>1. TxOK(st, ReplayTap(st, n, t))
    BY NoChangeOK, RefuseOK DEF ReplayTap
<1>2. ASSUME Running(sessions[sid], t), IsIn(st, sid)
      PROVE  TxOK(st, LandTap(st, n, sid, t))
    BY <1>2, RunningIsOpen, LandTapOK
<1>3. QED BY <1>1, <1>2, RefuseOK DEF TapIn

(* An armed row takes the place of those that stood, or is folded into one.   *)
LEMMA ArmTapOK ==
    ASSUME TypeOK, NEW st \in Students, NEW n \in DOMAIN made[st], NEW t \in Nat
    PROVE  TxOK(st, ArmTap(st, n, t))
<1> DEFINE row == [id |-> n, expires |-> EndOfDay(t), waiting |-> TRUE]
           gone == [row EXCEPT !.waiting = FALSE]
           settled(outcome, rows) ==
               [NoChange(st, Answer(outcome, NoSession, "none")) EXCEPT !.armed = rows]
<1>1. ArmedOK(st, row) /\ ArmedOK(st, gone)
    <2>1. n \in Nat
        BY MadeRecord
    <2>2. EndOfDay(t) \in Int
        BY TimeAssumption DEF EndOfDay
    <2>3. QED BY <2>1, <2>2 DEF ArmedOK, ArmedType
<1>2. \A a \in armed[st] : ArmedOK(st, a)
    BY DEF TypeOK, Referring, ArmedOK
<1>3. ASSUME NEW outcome, NEW rows, \A a \in rows : ArmedOK(st, a)
      PROVE  TxOK(st, settled(outcome, rows))
    <2>1. TxOK(st, NoChange(st, Answer(outcome, NoSession, "none")))
        BY NoChangeOK
    <2>2. QED BY <1>3, <2>1 DEF TxOK, NoChange
<1>4. QED BY <1>1, <1>2, <1>3, RefuseOK DEF ArmTap

-----------------------------------------------------------------------------
(* Changes of a live stint, reasons, silence and contact. *)

LEMMA NextStateType ==
    ASSUME NEW st, NEW sid, NEW type \in {"refocus", "protection_off", "protection_on"}
    PROVE  NextState(st, sid, type) \in States
BY DEF NextState, States

(* A change applied keeps the student in the one session they changed in.     *)
LEMMA ApplyChangeOK ==
    ASSUME TypeOK, NEW st \in Students, NEW n \in DOMAIN made[st], NEW sid \in SessionIds,
           NEW type \in {"refocus", "protection_off", "protection_on"}, NEW t \in Nat
    PROVE  TxOK(st, ApplyChange(st, n, sid, type, t))
<1> DEFINE late == IsLate(st, n, sid, type)
           state == IF late THEN parts[st][sid].state ELSE NextState(st, sid, type)
           note == IF late THEN "superseded" ELSE "none"
           row == PhoneRow(st, n, type, sid, Clamp(made[st][n].at, sessions[sid]), note)
           qs == [parts[st] EXCEPT ![sid] = [Heard(@) EXCEPT !.state = state]]
<1>1. type \in RowTypes /\ type # "tap_in" /\ type # "unlock" /\ note \in Notes
    BY DEF RowTypes, Notes
<1>2. RowOK(st, row)
    BY <1>1, RecordClamp, PhoneRowType DEF RowOK
<1>3. state \in States
    BY NextStateType DEF TypeOK, PartType
<1>4. qs \in [SessionIds -> PartType] /\ Stays(st, qs)
    BY <1>3, SetStateOK
<1>5. \A e \in {row} \cup BackRows(st, sid, t) : RowOK(st, e)
    BY <1>2, BackRowsOK
<1>6. \A a \in armed[st] : ArmedOK(st, a)
    BY DEF TypeOK, Referring, ArmedOK
<1>7. QED BY <1>4, <1>5, <1>6 DEF TxOK, Settles, ApplyChange

(* A protection off after the end writes its row and nothing else. *)
LEMMA OffAfterEndOK ==
    ASSUME TypeOK, NEW st \in Students, NEW n \in DOMAIN made[st], NEW sid \in SessionIds
    PROVE  TxOK(st, OffAfterEnd(st, n, sid))
<1> DEFINE row == PhoneRow(st, n, "protection_off", sid,
                           Clamp(made[st][n].at, sessions[sid]), "after_session_end")
           answer == Answer("recorded", NoSession, "none")
<1>1. "protection_off" \in RowTypes /\ "after_session_end" \in Notes
    BY DEF RowTypes, Notes
<1>2. RowOK(st, row)
    BY <1>1, RecordClamp, PhoneRowType DEF RowOK
<1>3. TxOK(st, NoChange(st, answer))
    BY NoChangeOK
<1>4. TxOK(st, [NoChange(st, answer) EXCEPT !.rows = {row}])
    BY <1>2, <1>3 DEF TxOK, NoChange
<1>5. QED BY <1>4, RefuseOK DEF OffAfterEnd

LEMMA ChangeStateOK ==
    ASSUME TypeOK, NEW st \in Students, NEW n \in DOMAIN made[st], NEW t \in Nat,
           made[st][n].kind \in {"refocus", "protection_off", "protection_on"},
           made[st][n].session \in SessionIds
    PROVE  TxOK(st, ChangeState(st, n, t))
<1>1. TxOK(st, ReplayChange(st, made[st][n].kind, made[st][n].session))
    BY NoChangeOK, RefuseOK DEF ReplayChange
<1>2. QED BY <1>1, OffAfterEndOK, ApplyChangeOK, RefuseOK DEF ChangeState

LEMMA ChangeReasonOK ==
    ASSUME TypeOK, NEW st \in Students, NEW n \in DOMAIN made[st], NEW t \in Nat
    PROVE  TxOK(st, ChangeReason(st, n, t))
<1> DEFINE unlock == {e \in log[st] : /\ e.id = made[st][n].claim /\ e.type = "unlock"
                                      /\ e.session # NoSession}
           sid == (CHOOSE e \in unlock : TRUE).session
           base == PhoneRow(st, n, "unlock_reason_changed", sid, t, "none")
           row == [base EXCEPT !.order = NoOrder]
           answer == Answer("applied", NoSession, "none")
<1>1. ASSUME unlock # {}
      PROVE  RowOK(st, row)
    <2>1. "unlock_reason_changed" \in RowTypes /\ "none" \in Notes
        BY DEF RowTypes, Notes
    <2>2. (CHOOSE e \in unlock : TRUE) \in log[st]
        BY <1>1
    <2>3. sid \in SessionIds \cup {NoSession}
        BY <2>2 DEF TypeOK, RowType
    <2>4. base \in RowType /\ base.type = "unlock_reason_changed"
        BY <2>1, <2>3, PhoneRowType
    <2>5. NoOrder \in [install : Nat, seq : Nat]
        BY DEF NoOrder
    <2>6. row \in RowType /\ row.type = "unlock_reason_changed"
        BY <2>4, <2>5 DEF RowType
    <2>7. QED BY <2>6 DEF RowOK
<1>2. TxOK(st, NoChange(st, answer))
    BY NoChangeOK
<1>3. ASSUME unlock # {}
      PROVE  TxOK(st, [NoChange(st, answer) EXCEPT !.rows = {row}])
    BY <1>1, <1>2, <1>3 DEF TxOK, NoChange
<1>4. QED BY <1>3, RefuseOK DEF ChangeReason

(* What the server does with any record a phone sends it but a tap. *)
LEMMA HandleOK ==
    ASSUME TypeOK, NEW st \in Students, NEW n \in DOMAIN made[st], NEW t \in Nat,
           made[st][n].kind # "tap", Addressed(st, n)
    PROVE  TxOK(st, Handle(st, n, t))
<1>1. made[st][n] \in MadeType
    BY MadeRecord
<1>2. CASE made[st][n].kind = "unlock"
    BY <1>2, UnlockOK DEF Handle
<1>3. CASE made[st][n].kind = "reason"
    BY <1>3, ChangeReasonOK DEF Handle
<1>4. CASE made[st][n].kind \notin {"unlock", "reason"}
    <2>1. made[st][n].kind \in {"refocus", "protection_off", "protection_on"}
        BY <1>1, <1>4 DEF MadeType, Kinds
    <2>2. made[st][n].session \in SessionIds
        BY <1>1, <2>1 DEF TypeOK, Referring, MadeType
    <2>3. QED BY <1>4, <2>1, <2>2, ChangeStateOK DEF Handle
<1>5. QED BY <1>2, <1>3, <1>4

SilentTx(st, sid) ==
    [NoChange(st, Answer("silent", NoSession, "none")) EXCEPT
        !.rows = {ServerRow(st, 2, "went_silent", sid, Clamp(now, sessions[sid]))},
        !.parts[sid].silent = TRUE]

LEMMA SilentOK ==
    ASSUME TypeOK, NEW st \in Students, NEW sid \in SessionIds
    PROVE  TxOK(st, SilentTx(st, sid))
<1> DEFINE row == ServerRow(st, 2, "went_silent", sid, Clamp(now, sessions[sid]))
           qs == [parts[st] EXCEPT ![sid].silent = TRUE]
<1>1. "went_silent" \in RowTypes /\ now \in Int
    BY DEF RowTypes, TypeOK
<1>2. row \in RowType /\ row.type = "went_silent"
    BY <1>1, ServerRowType, SessionClamp DEF ServerRow
<1>3. \A p \in PartType : /\ [p EXCEPT !.silent = TRUE] \in PartType
                          /\ [p EXCEPT !.silent = TRUE].ended = p.ended
    BY DEF PartType
<1>4. parts[st] \in [SessionIds -> PartType]
    BY DEF TypeOK
<1>5. qs \in [SessionIds -> PartType] /\ Stays(st, qs)
    BY <1>3, <1>4 DEF Stays, Live
<1>6. \A a \in armed[st] : ArmedOK(st, a)
    BY DEF TypeOK, Referring, ArmedOK
<1>7. SilentTx(st, sid).rows = {row} /\ SilentTx(st, sid).parts = qs
      /\ SilentTx(st, sid).armed = armed[st]
    BY DEF SilentTx, NoChange
<1>8. QED BY <1>2, <1>5, <1>6, <1>7 DEF TxOK, RowOK, Settles

CheckInTx(st, sid, t) ==
    [NoChange(st, Answer("live", sid, parts[st][sid].state)) EXCEPT
        !.rows = BackRows(st, sid, t),
        !.parts[sid] = Heard(@)]

LEMMA CheckInOK ==
    ASSUME TypeOK, NEW st \in Students, NEW sid \in SessionIds, NEW t \in Nat
    PROVE  TxOK(st, CheckInTx(st, sid, t))
<1> DEFINE qs == [parts[st] EXCEPT ![sid] = Heard(@)]
<1>1. parts[st] \in [SessionIds -> PartType]
    BY DEF TypeOK
<1>2. qs \in [SessionIds -> PartType] /\ Stays(st, qs)
    BY <1>1, HeardType DEF Stays, Live
<1>3. \A a \in armed[st] : ArmedOK(st, a)
    BY DEF TypeOK, Referring, ArmedOK
<1>4. CheckInTx(st, sid, t).rows = BackRows(st, sid, t) /\ CheckInTx(st, sid, t).parts = qs
      /\ CheckInTx(st, sid, t).armed = armed[st]
    BY DEF CheckInTx, NoChange
<1>5. QED BY <1>2, <1>3, <1>4, BackRowsOK DEF TxOK, Settles

-----------------------------------------------------------------------------
(* A Start. *)

(* What a Start writes of one student: their waiting tap becomes a stint in   *)
(* the session, and then their only one, or nothing of theirs begins.         *)
LEMMA ConvertedOK ==
    ASSUME TypeOK, NEW st \in Students, NEW sid \in SessionIds, NEW s \in SessionType,
           NEW ps \in [SessionIds -> PartType], NEW t \in Nat
    PROVE  LET tx == Converted(st, sid, s, ps, t)
           IN /\ \A e \in tx.rows : RowOK(st, e)
              /\ \A a \in tx.armed : ArmedOK(st, a)
              /\ tx.parts \in [SessionIds -> PartType]
              /\ \/ tx.parts = ps
                 \/ /\ <<st, s.class>> \in enrolled
                    /\ \A o \in SessionIds : Live(tx.parts[o]) => o = sid
<1> DEFINE waiting == {a \in Waiting(st, TeacherOf[s.class]) : a.expires > t}
           a == CHOOSE b \in waiting : TRUE
           at == Clamp(made[st][a.id].at, s)
           late == TappedSince(log[st], Order(st, a.id), sid)
           note == IF late THEN "superseded" ELSE "none"
           tap == PhoneRow(st, a.id, "tap_in", sid, at, note)
           base == ServerRow(st, 2, "armed_tap_skipped", sid, s.startedAt)
           skip == [base EXCEPT !.claim = a.id]
           spent == Recorded(st, a.id) # {}
           rows == IF spent THEN {skip}
                   ELSE IF late THEN {tap} ELSE {tap} \cup LeftRows(st, ps, sid, at)
           qs == IF spent \/ late THEN ps ELSE JoinedOnly(ps, sid)
           kept == (armed[st] \ {a}) \cup {[a EXCEPT !.waiting = FALSE]}
<1>1. \A b \in armed[st] : ArmedOK(st, b)
    BY DEF TypeOK, Referring, ArmedOK
<1>2. CASE waiting = {} \/ <<st, s.class>> \notin enrolled
    BY <1>1, <1>2 DEF Converted
<1>3. CASE waiting # {} /\ <<st, s.class>> \in enrolled
    <2>1. a \in armed[st] /\ ArmedOK(st, a)
        BY <1>1, <1>3 DEF Waiting
    <2>2. a.id \in DOMAIN made[st] /\ a.id \in Nat /\ a \in ArmedType
        BY <2>1 DEF ArmedOK, ArmedType
    <2>3. at \in Int
        <3>1. made[st][a.id].at \in Int
            BY <2>2, MadeRecord DEF MadeType
        <3>2. QED BY <3>1, ClampType
    <2>4. RowOK(st, tap)
        <3>1. "tap_in" \in RowTypes /\ note \in Notes /\ sid # NoSession
            BY DEF RowTypes, Notes, SessionIds, NoSession
        <3> HIDE DEF a, at, note
        <3>2. QED BY <2>2, <2>3, <3>1, PhoneRowType DEF RowOK
    <2>5. RowOK(st, skip)
        <3>1. "armed_tap_skipped" \in RowTypes /\ s.startedAt \in Int
            BY DEF RowTypes, SessionType
        <3>2. base \in RowType /\ base.type = "armed_tap_skipped"
            BY <3>1, ServerRowType DEF ServerRow
        <3>3. skip \in RowType /\ skip.type = "armed_tap_skipped"
            BY <2>2, <3>2 DEF RowType
        <3>4. QED BY <3>3 DEF RowOK
    <2>6. \A e \in rows : RowOK(st, e)
        BY <2>3, <2>4, <2>5, LeftRowsOK
    <2>7. \A b \in kept : ArmedOK(st, b)
        BY <1>1, <2>2 DEF ArmedOK, ArmedType
    <2>8. qs \in [SessionIds -> PartType]
          /\ (qs = ps \/ \A o \in SessionIds : Live(qs[o]) => o = sid)
        BY JoinedOnlyOK
    <2>9. Converted(st, sid, s, ps, t) = [rows |-> rows, parts |-> qs, armed |-> kept]
        BY <1>3 DEF Converted
    <2> HIDE DEF rows, qs, kept
    <2>10. QED BY <1>3, <2>6, <2>7, <2>8, <2>9
<1>4. QED BY <1>2, <1>3

-----------------------------------------------------------------------------
(* What each action needs to keep of the invariant. *)

AskOK ==
    /\ asking \in [Students -> AskType]
    /\ \A st \in Students :
          /\ asking[st].stage # "idle" => asking[st].record \in DOMAIN made[st]
          /\ asking[st].stage \in {"tap", "again"} => asking[st].target # NoSession

Places == OneLessonPerStudent /\ OneOpenLessonPerClass /\ OverLessonHasNoOne /\ LiveIsEnrolled

(* With the lessons and the enrollments as they were, students who settle     *)
(* keep every promise about where they are.                                   *)
LEMMA SettledPlaces ==
    ASSUME IInv, sessions' = sessions, enrolled' = enrolled,
           \A st \in Students : Settles(st, parts'[st])
    PROVE  Places'
<1>1. OneOpenLessonPerClass'
    BY DEF IInv, OneOpenLessonPerClass, Open, Started
<1>2. ASSUME NEW st \in Students, NEW sid \in SessionIds, Live(parts[st][sid])'
      PROVE  Open(sid) /\ IsIn(st, sid)
    BY <1>2 DEF Settles, Stays, Joins, IInv, OverLessonHasNoOne, LiveIsEnrolled, Live
<1>3. OverLessonHasNoOne' /\ LiveIsEnrolled'
    BY <1>2 DEF OverLessonHasNoOne, LiveIsEnrolled, Open, Started, IsIn
<1>4. ASSUME NEW st \in Students, NEW a \in SessionIds, NEW b \in SessionIds,
             Live(parts[st][a])', Live(parts[st][b])'
      PROVE  a = b
    BY <1>4 DEF Settles, Stays, Joins, IInv, OneLessonPerStudent, Live
<1>5. OneLessonPerStudent'
    BY <1>4 DEF OneLessonPerStudent
<1>6. QED BY <1>1, <1>3, <1>5 DEF Places

(* A step that adds only good rows and armed taps, to a database of the right *)
(* shapes, keeps the shapes and what they refer to.                           *)
LEMMA ShapesKept ==
    ASSUME TypeOK, UNCHANGED phones, AskOK',
           now' \in Nat, sessions' \in [SessionIds -> SessionType],
           enrolled' \subseteq Students \X Classes, deleted' \subseteq Students,
           parts' \in [Students -> [SessionIds -> PartType]],
           log' \in [Students -> SUBSET RowType],
           \A st \in Students : \A e \in log'[st] : RowOK(st, e),
           written' \in [Students -> Nat],
           armed' \in [Students -> SUBSET ArmedType],
           \A st \in Students : \A a \in armed'[st] : ArmedOK(st, a)
    PROVE  TypeOK'
<1>1. made' = made /\ install' = install
    BY DEF phones
<1>2. Referring'
    BY <1>1 DEF TypeOK, Referring, AskOK, RowOK, ArmedOK
<1>3. QED BY <1>1, <1>2 DEF TypeOK, AskOK

LEMMA AllRowsOK ==
    ASSUME TypeOK, NEW st \in Students
    PROVE  /\ \A e \in log[st] : RowOK(st, e)
           /\ \A a \in armed[st] : ArmedOK(st, a)
BY DEF TypeOK, Referring, RowOK, ArmedOK

(* A transaction that keeps its promise, committed, keeps the invariant.      *)
LEMMA CommitKeeps ==
    ASSUME IInv, NEW st \in Students, NEW tx, TxOK(st, tx), Commit(st, tx),
           UNCHANGED phones, AskOK'
    PROVE  IInv'
<1>1. TypeOK
    BY DEF IInv
<1>2. UNCHANGED <<now, sessions, enrolled, deleted>>
    BY DEF Commit
<1>3. parts' = [parts EXCEPT ![st] = tx.parts]
    BY DEF Commit
<1>4. parts' \in [Students -> [SessionIds -> PartType]]
    BY <1>1, <1>3 DEF TypeOK, TxOK
<1>5. /\ log' \in [Students -> SUBSET RowType]
      /\ \A s \in Students : \A e \in log'[s] : RowOK(s, e)
    <2>1. log' = [log EXCEPT ![st] = log[st] \cup tx.rows]
        BY DEF Commit
    <2>2. tx.rows \subseteq RowType
        BY DEF TxOK, RowOK
    <2>3. log \in [Students -> SUBSET RowType]
        BY <1>1 DEF TypeOK
    <2>4. log' \in [Students -> SUBSET RowType]
        BY <2>1, <2>2, <2>3
    <2>5. ASSUME NEW s \in Students, NEW e \in log'[s]
          PROVE  RowOK(s, e)
        BY <1>1, <2>1, <2>3, AllRowsOK DEF TxOK
    <2>6. QED BY <2>4, <2>5
<1>6. /\ armed' \in [Students -> SUBSET ArmedType]
      /\ \A s \in Students : \A a \in armed'[s] : ArmedOK(s, a)
    <2>1. armed' = [armed EXCEPT ![st] = tx.armed]
        BY DEF Commit
    <2>2. tx.armed \subseteq ArmedType
        BY DEF TxOK, ArmedOK
    <2>3. armed \in [Students -> SUBSET ArmedType]
        BY <1>1 DEF TypeOK
    <2>4. armed' \in [Students -> SUBSET ArmedType]
        BY <2>1, <2>2, <2>3
    <2>5. ASSUME NEW s \in Students, NEW a \in armed'[s]
          PROVE  ArmedOK(s, a)
        BY <1>1, <2>1, <2>3, AllRowsOK DEF TxOK
    <2>6. QED BY <2>4, <2>5
<1>7. written' \in [Students -> Nat]
    BY <1>1 DEF TypeOK, Commit
<1>8. TypeOK'
    BY <1>1, <1>2, <1>4, <1>5, <1>6, <1>7, ShapesKept DEF TypeOK
<1>9. \A s \in Students : Settles(s, parts'[s])
    BY <1>1, <1>3 DEF TxOK, Settles, Stays, TypeOK
<1>10. Places'
    BY <1>2, <1>9, SettledPlaces
<1>11. QED BY <1>8, <1>10 DEF IInv, Places

-----------------------------------------------------------------------------
(* What phones do, and the steps of a request. *)

(* A phone makes a record that names a session, if it has to. *)
LEMMA MakeKeeps ==
    ASSUME IInv, NEW st \in Students, NEW kind \in Kinds,
           NEW sid \in SessionIds \cup {NoSession}, NEW claim \in Nat,
           NEW te \in Teachers \cup {NoTeacher},
           kind \in {"tap", "reason"} \/ (kind = "unlock" /\ claim # 0) \/ sid # NoSession,
           Make(st, Record(kind, sid, claim, te))
    PROVE  IInv'
<1>1. PICK skew \in Skews :
          made' = [made EXCEPT ![st] = Append(made[st],
              [kind |-> kind, session |-> sid, claim |-> claim, teacher |-> te,
               at |-> now + skew, when |-> now, install |-> install[st],
               place |-> Len(made[st]) + 1])]
    BY DEF Make, Record
<1>2. UNCHANGED <<now, server, install, asking>>
    BY DEF Make
<1> DEFINE record == [kind |-> kind, session |-> sid, claim |-> claim, teacher |-> te,
                      at |-> now + skew, when |-> now, install |-> install[st],
                      place |-> Len(made[st]) + 1]
<1>3. made \in [Students -> Seq(MadeType)] /\ now \in Nat /\ install[st] \in Nat
    BY DEF IInv, TypeOK
<1>4. record \in MadeType
    BY <1>3, TimeAssumption DEF MadeType
<1>5. /\ made' \in [Students -> Seq(MadeType)]
      /\ \A s \in Students : DOMAIN made[s] \subseteq DOMAIN made'[s]
      /\ \A s \in Students : \A n \in DOMAIN made'[s] :
            (n \in DOMAIN made[s] /\ made'[s][n] = made[s][n]) \/ made'[s][n] = record
    <2>1. Append(made[st], record) \in Seq(MadeType)
        BY <1>3, <1>4
    <2>2. made' = [made EXCEPT ![st] = Append(made[st], record)]
        BY <1>1
    <2>3. made[st] \in Seq(MadeType)
        BY <1>3
    <2> HIDE DEF record
    <2>4. /\ DOMAIN made[st] \subseteq DOMAIN Append(made[st], record)
          /\ \A n \in DOMAIN Append(made[st], record) :
                \/ n \in DOMAIN made[st] /\ Append(made[st], record)[n] = made[st][n]
                \/ Append(made[st], record)[n] = record
        BY <2>3
    <2>5. QED BY <1>3, <2>1, <2>2, <2>4
<1>6. Referring'
    <2>1. UNCHANGED <<armed, log, asking>>
        BY <1>2 DEF server
    <2>2. \A s \in Students : \A n \in DOMAIN made'[s] :
              made'[s][n].kind \in {"tap", "reason", "unlock"} \/ made'[s][n].session # NoSession
        BY <1>5 DEF IInv, TypeOK, Referring
    <2>3. QED BY <1>5, <2>1, <2>2 DEF IInv, TypeOK, Referring
<1>7. TypeOK'
    BY <1>2, <1>5, <1>6 DEF IInv, TypeOK, server
<1>8. Places'
    BY <1>2 DEF server, IInv, Places, OneLessonPerStudent, OneOpenLessonPerClass,
                OverLessonHasNoOne, LiveIsEnrolled, Open, Started, IsIn, Live
<1>9. QED BY <1>7, <1>8 DEF IInv, Places

LEMMA PhoneKeeps ==
    ASSUME IInv, NEW st \in Students, Phone(st)
    PROVE  IInv'
<1>1. CASE MakeTap(st)
    BY <1>1, MakeKeeps DEF MakeTap, Kinds
<1>2. CASE MakeUnlock(st)
    <2>1. PICK sid \in SessionIds : Make(st, Record("unlock", sid, 0, NoTeacher))
        BY <1>2 DEF MakeUnlock, Known
    <2>2. sid # NoSession
        BY DEF SessionIds, NoSession
    <2>3. QED BY <2>1, <2>2, MakeKeeps DEF Kinds
<1>3. CASE MakeTapUnlock(st)
    <2>1. PICK n \in DOMAIN made[st] : Make(st, Record("unlock", NoSession, n, NoTeacher))
        BY <1>3 DEF MakeTapUnlock, MadeKind
    <2>2. n \in Nat /\ n # 0
        BY MadeRecord DEF IInv, TypeOK
    <2>3. QED BY <2>1, <2>2, MakeKeeps DEF Kinds
<1>4. CASE MakeChange(st)
    <2>1. PICK type \in {"refocus", "protection_off", "protection_on"}, sid \in SessionIds :
              Make(st, Record(type, sid, 0, NoTeacher))
        BY <1>4 DEF MakeChange, Known
    <2>2. sid # NoSession /\ type \in Kinds
        BY DEF SessionIds, NoSession, Kinds
    <2>3. QED BY <2>1, <2>2, MakeKeeps
<1>5. CASE MakeReason(st)
    <2>1. PICK n \in DOMAIN made[st] : Make(st, Record("reason", NoSession, n, NoTeacher))
        BY <1>5 DEF MakeReason, MadeKind
    <2>2. n \in Nat
        BY MadeRecord DEF IInv
    <2>3. QED BY <2>1, <2>2, MakeKeeps DEF Kinds
<1>6. CASE Reinstall(st)
    <2>1. UNCHANGED <<now, server, made, asking>> /\ install' \in [Students -> Nat]
        BY <1>6 DEF Reinstall, IInv, TypeOK
    <2>2. TypeOK'
        BY <2>1 DEF IInv, TypeOK, Referring, server
    <2>3. Places'
        BY <2>1 DEF server, IInv, Places, OneLessonPerStudent, OneOpenLessonPerClass,
                    OverLessonHasNoOne, LiveIsEnrolled, Open, Started, IsIn, Live
    <2>4. QED BY <2>2, <2>3 DEF IInv, Places
<1>7. QED BY <1>1, <1>2, <1>3, <1>4, <1>5, <1>6 DEF Phone

(* The clock a request read is a time. *)
LEMMA ClocksType ==
    ASSUME TypeOK, NEW t \in Clocks
    PROVE  t \in Nat
BY BoundAssumption DEF TypeOK, Clocks

LEMMA AskUnchanged ==
    ASSUME IInv, UNCHANGED <<made, asking>>
    PROVE  AskOK'
BY DEF IInv, TypeOK, Referring, AskOK

LEMMA ReachKeeps ==
    ASSUME IInv, NEW st \in Students, NEW n \in DOMAIN made[st], Reach(st, n)
    PROVE  IInv'
<1>1. PICK t \in Clocks : Commit(st, Handle(st, n, t))
    BY DEF Reach
<1>2. t \in Nat /\ made[st][n].kind # "tap" /\ Addressed(st, n)
    BY ClocksType DEF IInv, Reach
<1>3. TxOK(st, Handle(st, n, t))
    BY <1>2, HandleOK DEF IInv
<1>4. UNCHANGED phones /\ AskOK'
    BY AskUnchanged DEF Reach, phones
<1>5. QED BY <1>1, <1>3, <1>4, CommitKeeps

(* The route's read of the session a tap is for. *)
LEMMA ReadTargetOK ==
    ASSUME IInv, NEW st \in Students, NEW n \in DOMAIN made[st],
           NEW stage \in {"tap", "again"}, ReadTarget(st, n, stage), UNCHANGED made
    PROVE  AskOK'
<1> DEFINE open == {sid \in SessionIds : /\ Open(sid) /\ IsIn(st, sid)
                                         /\ TeacherOf[sessions[sid].class] = made[st][n].teacher}
           running == {sid \in open : Running(sessions[sid], now)}
           ask(sid) == [record |-> n, target |-> sid, ran |-> running # {}, at |-> now,
                        stage |-> IF sid = NoSession THEN "arm" ELSE stage]
<1>1. PICK sid \in SessionIds \cup {NoSession} : asking' = [asking EXCEPT ![st] = ask(sid)]
    BY DEF ReadTarget, Newest
<1>2. n \in Nat /\ now \in Nat
    BY MadeRecord DEF IInv, TypeOK
<1>3. ask(sid) \in AskType
    BY <1>2 DEF AskType
<1>4. asking \in [Students -> AskType] /\ Referring
    BY DEF IInv, TypeOK
<1>5. QED BY <1>1, <1>3, <1>4 DEF AskOK, Referring

LEMMA RequestKeeps ==
    ASSUME IInv, NEW st \in Students, Request(st)
    PROVE  IInv'
<1>1. ASSUME UNCHANGED <<now, server, phones>>, AskOK'
      PROVE  IInv'
    <2>1. TypeOK'
        BY <1>1, AllRowsOK, ShapesKept DEF IInv, TypeOK, server
    <2>2. Places'
        BY <1>1 DEF server, IInv, Places, OneLessonPerStudent, OneOpenLessonPerClass,
                    OverLessonHasNoOne, LiveIsEnrolled, Open, Started, IsIn, Live
    <2>3. QED BY <2>1, <2>2 DEF IInv, Places
<1>2. ASSUME NEW n \in DOMAIN made[st], AskTap(st, n)
      PROVE  IInv'
    BY <1>1, <1>2, ReadTargetOK DEF AskTap, phones
<1>3. CASE TapRereads(st)
    <2>1. asking[st].record \in DOMAIN made[st]
        BY <1>3 DEF TapRereads, IInv, TypeOK, Referring
    <2>2. QED BY <1>1, <1>3, <2>1, ReadTargetOK DEF TapRereads, phones
<1>4. CASE TapLands(st)
    <2> DEFINE ask == asking[st]
               next == Onward(ask, TapTx(st).answer.outcome)
    <2>1. ask \in AskType /\ ask.record \in DOMAIN made[st] /\ ask.target # NoSession
        BY <1>4 DEF TapLands, IInv, TypeOK, Referring
    <2>2. ask.target \in SessionIds /\ ask.at \in Nat
        BY <2>1 DEF AskType
    <2>3. TxOK(st, TapTx(st))
        BY <2>1, <2>2, TapInOK DEF TapTx, IInv
    <2>4. next \in {"idle", "reread", "arm"}
        BY DEF Onward
    <2>5. asking' = [asking EXCEPT ![st] = IF next = "idle" THEN Idle
                                           ELSE [ask EXCEPT !.stage = next]]
        BY <1>4 DEF TapLands
    <2>6. Idle \in AskType /\ Idle.stage = "idle"
        BY DEF Idle, AskType
    <2>7. UNCHANGED phones /\ made' = made
        BY <1>4 DEF TapLands, phones
    <2> HIDE DEF next
    <2>8. AskOK'
        BY <2>1, <2>4, <2>5, <2>6, <2>7 DEF AskOK, AskType, IInv, TypeOK, Referring
    <2>9. QED BY <1>4, <2>3, <2>7, <2>8, CommitKeeps DEF TapLands
<1>5. CASE TapArms(st)
    <2>1. asking[st].record \in DOMAIN made[st] /\ asking[st].at \in Nat
        BY <1>5 DEF TapArms, IInv, TypeOK, Referring, AskType
    <2>2. TxOK(st, ArmTap(st, asking[st].record, asking[st].at))
        BY <2>1, ArmTapOK DEF IInv
    <2>3. Idle \in AskType /\ Idle.stage = "idle"
        BY DEF Idle, AskType
    <2>4. UNCHANGED phones /\ AskOK'
        BY <1>5, <2>3 DEF TapArms, phones, AskOK, IInv, TypeOK, Referring
    <2>5. QED BY <1>5, <2>2, <2>4, CommitKeeps DEF TapArms
<1>6. ASSUME NEW sid \in SessionIds, MarkSilent(st, sid)
      PROVE  IInv'
    <2>1. Commit(st, SilentTx(st, sid)) /\ UNCHANGED phones /\ AskOK'
        BY <1>6, AskUnchanged DEF MarkSilent, SilentTx, phones
    <2>2. QED BY <2>1, SilentOK, CommitKeeps DEF IInv
<1>7. ASSUME NEW sid \in SessionIds, CheckIn(st, sid)
      PROVE  IInv'
    <2>1. PICK t \in Clocks : Commit(st, CheckInTx(st, sid, t))
        BY <1>7 DEF CheckIn, CheckInTx
    <2>2. UNCHANGED phones /\ AskOK'
        BY <1>7, AskUnchanged DEF CheckIn, phones
    <2>3. QED BY <2>1, <2>2, ClocksType, CheckInOK, CommitKeeps DEF IInv
<1>8. QED BY <1>2, <1>3, <1>4, <1>5, <1>6, <1>7, ReachKeeps DEF Request

-----------------------------------------------------------------------------
(* What ends stints: a lesson's end, a removal, a deleted account. *)

(* Stints end and none begins, and those left live are in sessions still open *)
(* of classes still the student's.                                            *)
LEMMA EndedPlaces ==
    ASSUME IInv, OneOpenLessonPerClass',
           \A st \in Students, sid \in SessionIds :
              Live(parts[st][sid])' =>
                 Live(parts[st][sid]) /\ Open(sid)' /\ IsIn(st, sid)'
    PROVE  Places'
<1>1. OverLessonHasNoOne' /\ LiveIsEnrolled'
    BY DEF OverLessonHasNoOne, LiveIsEnrolled
<1>2. OneLessonPerStudent'
    BY DEF IInv, OneLessonPerStudent, Live
<1>3. QED BY <1>1, <1>2 DEF Places

LEMMA EndedPartsOK ==
    ASSUME TypeOK, NEW sids, NEW reason \in Endings
    PROVE  /\ EndedParts(sids, reason) \in [Students -> [SessionIds -> PartType]]
           /\ \A st \in Students, o \in SessionIds :
                 Live(EndedParts(sids, reason)[st][o]) => Live(parts[st][o]) /\ o \notin sids
<1>1. \A p \in PartType : /\ [p EXCEPT !.ended = reason] \in PartType
                          /\ [p EXCEPT !.ended = reason].ended = reason
    BY DEF PartType
<1>2. reason # "live"
    BY DEF Endings
<1>3. parts \in [Students -> [SessionIds -> PartType]]
    BY DEF TypeOK
<1>4. ASSUME NEW st \in Students, NEW o \in SessionIds
      PROVE  LET q == IF o \in sids /\ Live(parts[st][o])
                      THEN [parts[st][o] EXCEPT !.ended = reason] ELSE parts[st][o]
             IN q \in PartType /\ (Live(q) => Live(parts[st][o]) /\ o \notin sids)
    BY <1>1, <1>2, <1>3 DEF Live
<1>5. QED BY <1>4 DEF EndedParts

LEMMA EndedSessionsOK ==
    ASSUME TypeOK, NEW sids, NEW t \in Nat
    PROVE  /\ EndedSessions(sids, t) \in [SessionIds -> SessionType]
           /\ \A o \in SessionIds :
                 LET s == EndedSessions(sids, t)[o]
                 IN /\ s.class = sessions[o].class
                    /\ o \in sids => s.endedAt # Never
                    /\ o \notin sids => s = sessions[o]
<1>1. sessions \in [SessionIds -> SessionType]
    BY DEF TypeOK
<1>2. \A o \in SessionIds : Clamp(t, sessions[o]) \in Nat
    BY SessionClamp
<1>3. \A s \in SessionType : \A c \in Nat :
          /\ [s EXCEPT !.endedAt = c] \in SessionType
          /\ [s EXCEPT !.endedAt = c].class = s.class
          /\ [s EXCEPT !.endedAt = c].endedAt # Never
    BY DEF SessionType, Never
<1>4. QED BY <1>1, <1>2, <1>3 DEF EndedSessions

LEMMA EndHeldKeeps ==
    ASSUME IInv, NEW sid \in SessionIds, NEW t \in Nat, NEW reason \in Endings,
           EndHeld(sid, t, reason)
    PROVE  IInv'
<1>1. TypeOK
    BY DEF IInv
<1>2. /\ sessions' = EndedSessions({sid}, t)
      /\ parts' = EndedParts({sid}, reason)
      /\ UNCHANGED <<now, enrolled, deleted, log, written, armed, phones, asking>>
    BY DEF EndHeld
<1>3. UNCHANGED phones /\ AskOK'
    BY <1>2, AskUnchanged DEF phones
<1>4. TypeOK'
    <2>1. /\ sessions' \in [SessionIds -> SessionType]
          /\ parts' \in [Students -> [SessionIds -> PartType]]
        BY <1>1, <1>2, EndedPartsOK, EndedSessionsOK
    <2>2. /\ \A s \in Students : \A e \in log'[s] : RowOK(s, e)
          /\ \A s \in Students : \A a \in armed'[s] : ArmedOK(s, a)
        BY <1>1, <1>2, AllRowsOK
    <2>3. /\ now' \in Nat /\ enrolled' \subseteq Students \X Classes
          /\ deleted' \subseteq Students /\ log' \in [Students -> SUBSET RowType]
          /\ written' \in [Students -> Nat] /\ armed' \in [Students -> SUBSET ArmedType]
        BY <1>1, <1>2 DEF TypeOK
    <2>4. QED BY <1>1, <1>3, <2>1, <2>2, <2>3, ShapesKept
<1>5. OneOpenLessonPerClass'
    BY <1>1, <1>2, EndedSessionsOK DEF IInv, OneOpenLessonPerClass, Open, Started
<1>6. \A st \in Students, o \in SessionIds :
          Live(parts[st][o])' => Live(parts[st][o]) /\ Open(o)' /\ IsIn(st, o)'
    <2>1. TAKE st \in Students, o \in SessionIds
    <2>2. HAVE Live(parts[st][o])'
    <2>3. Live(parts[st][o]) /\ o # sid
        BY <1>1, <1>2, <2>2, EndedPartsOK DEF Live
    <2>4. sessions'[o] = sessions[o]
        BY <1>1, <1>2, <2>3, EndedSessionsOK
    <2>5. Open(o) /\ IsIn(st, o)
        BY <2>3 DEF IInv, OverLessonHasNoOne, LiveIsEnrolled
    <2>6. QED BY <1>2, <2>3, <2>4, <2>5 DEF Open, Started, IsIn
<1>7. QED BY <1>4, <1>5, <1>6, EndedPlaces DEF IInv, Places

LEMMA DroppedPartsOK ==
    ASSUME IInv, NEW st \in Students, NEW cs, NEW reason \in Endings
    PROVE  /\ DroppedParts(st, cs, reason) \in [SessionIds -> PartType]
           /\ \A o \in SessionIds :
                 Live(DroppedParts(st, cs, reason)[o]) =>
                    Live(parts[st][o]) /\ sessions[o].class \notin cs
<1>1. \A p \in PartType : /\ [p EXCEPT !.ended = reason] \in PartType
                          /\ [p EXCEPT !.ended = reason].ended = reason
    BY DEF PartType
<1>2. reason # "live"
    BY DEF Endings
<1>3. parts[st] \in [SessionIds -> PartType]
    BY DEF IInv, TypeOK
<1>4. \A o \in SessionIds : Live(parts[st][o]) => Open(o)
    BY DEF IInv, OverLessonHasNoOne
<1>5. ASSUME NEW o \in SessionIds
      PROVE  LET q == IF Open(o) /\ sessions[o].class \in cs /\ Live(parts[st][o])
                      THEN [parts[st][o] EXCEPT !.ended = reason] ELSE parts[st][o]
             IN q \in PartType
                /\ (Live(q) => Live(parts[st][o]) /\ sessions[o].class \notin cs)
    BY <1>1, <1>2, <1>3, <1>4 DEF Live
<1>6. QED BY <1>5 DEF DroppedParts

LEMMA DroppedRowsOK ==
    ASSUME TypeOK, NEW st \in Students, NEW cs, NEW t \in Nat,
           NEW type \in {"enrollment_left", "enrollment_removed"}
    PROVE  \A e \in DroppedRows(st, cs, type, t) : RowOK(st, e)
<1>1. ASSUME NEW sid \in SessionIds \cup {NoSession}, NEW at \in Int
      PROVE  RowOK(st, ServerRow(st, 2, type, sid, at))
    <2>1. type \in RowTypes
        BY DEF RowTypes
    <2>2. ServerRow(st, 2, type, sid, at) \in RowType
        BY <2>1, ServerRowType
    <2>3. ServerRow(st, 2, type, sid, at).type = type
        BY DEF ServerRow
    <2>4. QED BY <2>2, <2>3 DEF RowOK
<1>2. \A o \in SessionIds : Clamp(t, sessions[o]) \in Int
    BY SessionClamp
<1>3. QED BY <1>1, <1>2 DEF DroppedRows

(* With the lessons as they were, students out of a class and its lessons.    *)
LEMMA LeftPlaces ==
    ASSUME IInv, sessions' = sessions,
           \A st \in Students, o \in SessionIds :
              Live(parts[st][o])' => /\ Live(parts[st][o])
                                     /\ IsIn(st, o) => <<st, sessions[o].class>> \in enrolled'
    PROVE  Places'
<1>1. OneOpenLessonPerClass'
    BY DEF IInv, OneOpenLessonPerClass, Open, Started
<1>2. \A st \in Students, o \in SessionIds :
          Live(parts[st][o])' => Live(parts[st][o]) /\ Open(o)' /\ IsIn(st, o)'
    BY DEF IInv, OverLessonHasNoOne, LiveIsEnrolled, Open, Started, IsIn
<1>3. QED BY <1>1, <1>2, EndedPlaces

LEMMA EndEnrollmentKeeps ==
    ASSUME IInv, NEW st \in Students, NEW c \in Classes, NEW t \in Nat,
           NEW type \in {"enrollment_left", "enrollment_removed"}, NEW reason \in Endings,
           EndEnrollment(st, c, t, type, reason)
    PROVE  IInv'
<1>1. TypeOK
    BY DEF IInv
<1>2. /\ enrolled' = enrolled \ {<<st, c>>}
      /\ parts' = [parts EXCEPT ![st] = DroppedParts(st, {c}, reason)]
      /\ log' = [log EXCEPT ![st] = log[st] \cup DroppedRows(st, {c}, type, t)]
      /\ written' = [written EXCEPT ![st] = written[st] + 1]
      /\ UNCHANGED <<now, sessions, deleted, armed, phones, asking>>
    BY DEF EndEnrollment
<1>3. UNCHANGED phones /\ AskOK'
    BY <1>2, AskUnchanged DEF phones
<1>4. parts' \in [Students -> [SessionIds -> PartType]]
    BY <1>1, <1>2, DroppedPartsOK DEF TypeOK
<1>5. /\ log' \in [Students -> SUBSET RowType]
      /\ \A s \in Students : \A e \in log'[s] : RowOK(s, e)
    <2>1. \A e \in DroppedRows(st, {c}, type, t) : RowOK(st, e) /\ e \in RowType
        BY <1>1, DroppedRowsOK DEF RowOK
    <2>2. log \in [Students -> SUBSET RowType]
        BY <1>1 DEF TypeOK
    <2>3. log' \in [Students -> SUBSET RowType]
        BY <1>2, <2>1, <2>2
    <2>4. QED BY <1>1, <1>2, <2>1, <2>2, <2>3, AllRowsOK
<1>6. TypeOK'
    <2>1. \A s \in Students : \A a \in armed'[s] : ArmedOK(s, a)
        BY <1>1, <1>2, AllRowsOK
    <2>2. /\ now' \in Nat /\ enrolled' \subseteq Students \X Classes
          /\ deleted' \subseteq Students /\ sessions' \in [SessionIds -> SessionType]
          /\ written' \in [Students -> Nat] /\ armed' \in [Students -> SUBSET ArmedType]
        BY <1>1, <1>2 DEF TypeOK
    <2>3. QED BY <1>1, <1>3, <1>4, <1>5, <2>1, <2>2, ShapesKept
<1>7. ASSUME NEW s \in Students, NEW o \in SessionIds, Live(parts[s][o])'
      PROVE  /\ Live(parts[s][o])
             /\ IsIn(s, o) => <<s, sessions[o].class>> \in enrolled'
    <2>1. CASE s = st
        <3>1. parts'[s] = DroppedParts(st, {c}, reason)
            BY <1>1, <1>2, <2>1 DEF TypeOK
        <3>2. QED BY <1>2, <1>7, <2>1, <3>1, DroppedPartsOK DEF IsIn, Live
    <2>2. CASE s # st
        BY <1>1, <1>2, <1>7, <2>2 DEF TypeOK, IsIn, Live
    <2>3. QED BY <2>1, <2>2
<1>8. Places'
    BY <1>2, <1>7, LeftPlaces
<1>9. QED BY <1>6, <1>8 DEF IInv, Places

LEMMA DeleteAccountKeeps ==
    ASSUME IInv, NEW st \in Students, DeleteAccount(st)
    PROVE  IInv'
<1> DEFINE cs == {c \in Classes : <<st, c>> \in enrolled}
           last(t) == ServerRow(st, 3, "account_deleted", NoSession, t)
<1>1. TypeOK
    BY DEF IInv
<1>2. PICK t \in Clocks :
          /\ enrolled' = enrolled \ ({st} \X Classes)
          /\ parts' = [parts EXCEPT ![st] = DroppedParts(st, cs, "left_class")]
          /\ log' = [log EXCEPT ![st] = {[e EXCEPT !.order = NoOrder] : e \in log[st]}
                         \cup DroppedRows(st, cs, "enrollment_left", t) \cup {last(t)}]
    BY DEF DeleteAccount
<1>3. /\ written' = [written EXCEPT ![st] = written[st] + 1]
      /\ armed' = [armed EXCEPT ![st] = {[a EXCEPT !.waiting = FALSE] : a \in armed[st]}]
      /\ deleted' = deleted \cup {st}
      /\ UNCHANGED <<now, sessions, phones, asking>>
    BY DEF DeleteAccount
<1>4. UNCHANGED phones /\ AskOK'
    BY <1>3, AskUnchanged DEF phones
<1>5. t \in Nat /\ "left_class" \in Endings
    BY <1>1, ClocksType DEF Endings
<1>6. parts' \in [Students -> [SessionIds -> PartType]]
    BY <1>1, <1>2, <1>5, DroppedPartsOK DEF TypeOK
<1>7. /\ log' \in [Students -> SUBSET RowType]
      /\ \A s \in Students : \A e \in log'[s] : RowOK(s, e)
    <2>1. \A e \in DroppedRows(st, cs, "enrollment_left", t) : RowOK(st, e)
        BY <1>1, <1>5, DroppedRowsOK
    <2>2. RowOK(st, last(t))
        <3>1. "account_deleted" \in RowTypes
            BY DEF RowTypes
        <3>2. last(t) \in RowType /\ last(t).type = "account_deleted"
            BY <1>1, <1>5, <3>1, ServerRowType DEF ServerRow
        <3>3. QED BY <3>2 DEF RowOK
    <2>3. \A e \in log[st] : RowOK(st, [e EXCEPT !.order = NoOrder])
        <3>1. TAKE e \in log[st]
        <3>2. RowOK(st, e)
            BY <1>1, AllRowsOK
        <3>3. NoOrder \in [install : Nat, seq : Nat]
            BY DEF NoOrder
        <3>4. /\ [e EXCEPT !.order = NoOrder] \in RowType
              /\ [e EXCEPT !.order = NoOrder].type = e.type
              /\ [e EXCEPT !.order = NoOrder].session = e.session
              /\ [e EXCEPT !.order = NoOrder].id = e.id
            BY <3>2, <3>3 DEF RowOK, RowType
        <3>5. QED BY <3>2, <3>4 DEF RowOK
    <2> DEFINE rows == {[e EXCEPT !.order = NoOrder] : e \in log[st]}
                       \cup DroppedRows(st, cs, "enrollment_left", t) \cup {last(t)}
    <2>4. \A e \in rows : RowOK(st, e) /\ e \in RowType
        BY <2>1, <2>2, <2>3 DEF RowOK
    <2>5. log \in [Students -> SUBSET RowType] /\ log' = [log EXCEPT ![st] = rows]
        BY <1>1, <1>2 DEF TypeOK
    <2> HIDE DEF rows
    <2>6. log' \in [Students -> SUBSET RowType]
        BY <2>4, <2>5
    <2>7. QED BY <1>1, <2>4, <2>5, <2>6, AllRowsOK
<1>8. /\ armed' \in [Students -> SUBSET ArmedType]
      /\ \A s \in Students : \A a \in armed'[s] : ArmedOK(s, a)
    <2> DEFINE settled == {[a EXCEPT !.waiting = FALSE] : a \in armed[st]}
    <2>1. \A a \in settled : ArmedOK(st, a) /\ a \in ArmedType
        <3>1. \A a \in armed[st] : ArmedOK(st, a)
            BY <1>1, AllRowsOK
        <3>2. \A a \in armed[st] : ArmedOK(st, [a EXCEPT !.waiting = FALSE])
            BY <3>1 DEF ArmedOK, ArmedType
        <3>3. QED BY <3>2 DEF ArmedOK
    <2>2. armed \in [Students -> SUBSET ArmedType] /\ armed' = [armed EXCEPT ![st] = settled]
        BY <1>1, <1>3 DEF TypeOK
    <2> HIDE DEF settled
    <2>3. armed' \in [Students -> SUBSET ArmedType]
        BY <2>1, <2>2
    <2>4. QED BY <1>1, <2>1, <2>2, <2>3, AllRowsOK
<1>9. TypeOK'
    <2>1. /\ now' \in Nat /\ enrolled' \subseteq Students \X Classes
          /\ deleted' \subseteq Students /\ sessions' \in [SessionIds -> SessionType]
          /\ written' \in [Students -> Nat]
        BY <1>1, <1>2, <1>3 DEF TypeOK
    <2>2. QED BY <1>1, <1>4, <1>6, <1>7, <1>8, <2>1, ShapesKept
<1>10. ASSUME NEW s \in Students, NEW o \in SessionIds, Live(parts[s][o])'
       PROVE  /\ Live(parts[s][o])
              /\ IsIn(s, o) => <<s, sessions[o].class>> \in enrolled'
    <2>1. CASE s = st
        <3>1. parts'[s] = DroppedParts(st, cs, "left_class")
            BY <1>1, <1>2, <2>1 DEF TypeOK
        <3>2. Live(parts[s][o]) /\ sessions[o].class \notin cs
            BY <1>5, <1>10, <2>1, <3>1, DroppedPartsOK DEF Live
        <3>3. IsIn(s, o) => sessions[o].class \in cs
            BY <1>1, <2>1 DEF IsIn, TypeOK
        <3>4. QED BY <3>2, <3>3
    <2>2. CASE s # st
        BY <1>1, <1>2, <1>10, <2>2 DEF TypeOK, IsIn, Live
    <2>3. QED BY <2>1, <2>2
<1>11. Places'
    BY <1>3, <1>10, LeftPlaces
<1>12. QED BY <1>9, <1>11 DEF IInv, Places

LEMMA JoinClassKeeps ==
    ASSUME IInv, NEW st \in Students, NEW c \in Classes, JoinClass(st, c)
    PROVE  IInv'
<1> DEFINE row == ServerRow(st, 1, "enrollment_joined", NoSession, now)
<1>1. TypeOK
    BY DEF IInv
<1>2. /\ enrolled' = enrolled \cup {<<st, c>>}
      /\ log' = [log EXCEPT ![st] = log[st] \cup {row}]
      /\ written' = [written EXCEPT ![st] = written[st] + 1]
      /\ UNCHANGED <<now, sessions, deleted, parts, armed, phones, asking>>
    BY DEF JoinClass
<1>3. UNCHANGED phones /\ AskOK'
    BY <1>2, AskUnchanged DEF phones
<1>4. RowOK(st, row) /\ row \in RowType
    <2>1. "enrollment_joined" \in RowTypes /\ now \in Int
        BY <1>1 DEF RowTypes, TypeOK
    <2>2. row \in RowType /\ row.type = "enrollment_joined"
        BY <1>1, <2>1, ServerRowType DEF ServerRow
    <2>3. QED BY <2>2 DEF RowOK
<1>5. /\ log' \in [Students -> SUBSET RowType]
      /\ \A s \in Students : \A e \in log'[s] : RowOK(s, e)
    <2>1. log \in [Students -> SUBSET RowType]
        BY <1>1 DEF TypeOK
    <2> HIDE DEF row
    <2>2. log' \in [Students -> SUBSET RowType]
        BY <1>2, <1>4, <2>1
    <2>3. QED BY <1>1, <1>2, <1>4, <2>1, <2>2, AllRowsOK
<1>6. TypeOK'
    <2>1. \A s \in Students : \A a \in armed'[s] : ArmedOK(s, a)
        BY <1>1, <1>2, AllRowsOK
    <2>2. /\ now' \in Nat /\ enrolled' \subseteq Students \X Classes
          /\ deleted' \subseteq Students /\ sessions' \in [SessionIds -> SessionType]
          /\ parts' \in [Students -> [SessionIds -> PartType]]
          /\ written' \in [Students -> Nat] /\ armed' \in [Students -> SUBSET ArmedType]
        BY <1>1, <1>2 DEF TypeOK
    <2>3. QED BY <1>1, <1>3, <1>5, <2>1, <2>2, ShapesKept
<1>7. Places'
    BY <1>2, LeftPlaces DEF IsIn, Live
<1>8. QED BY <1>6, <1>7 DEF IInv, Places

LEMMA EnrollmentKeeps ==
    ASSUME IInv, NEW st \in Students, Enrollment(st)
    PROVE  IInv'
<1>1. ASSUME NEW c \in Classes, LeaveClass(st, c)
      PROVE  IInv'
    <2>1. PICK t \in Clocks : EndEnrollment(st, c, t, "enrollment_left", "left_class")
        BY <1>1 DEF LeaveClass
    <2>2. QED BY <2>1, ClocksType, EndEnrollmentKeeps DEF IInv, Endings
<1>2. ASSUME NEW c \in Classes, RemoveFromClass(st, c)
      PROVE  IInv'
    <2>1. PICK t \in Clocks :
              EndEnrollment(st, c, t, "enrollment_removed", "removed_from_class")
        BY <1>2 DEF RemoveFromClass
    <2>2. QED BY <2>1, ClocksType, EndEnrollmentKeeps DEF IInv, Endings
<1>3. QED BY <1>1, <1>2, JoinClassKeeps, DeleteAccountKeeps DEF Enrollment

-----------------------------------------------------------------------------
(* The lesson. *)

(* A Start opens one session, where no one is yet, in the place of any of the *)
(* class's past its bell: those it ends hold no one, and whoever waited comes *)
(* in from elsewhere.                                                         *)
LEMMA StartKeeps ==
    ASSUME IInv, NEW c \in Classes, Start(c)
    PROVE  IInv'
<1>1. TypeOK
    BY DEF IInv
<1>2. PICK d \in Lessons, t \in Clocks, sid \in SessionIds :
          ~Started(sid) /\ StartSession(c, sid, t, d)
    BY DEF Start
<1> DEFINE s == [class |-> c, startedAt |-> t, endsAt |-> t + d, endedAt |-> Never]
           base == EndedParts(PastBell(c), "session_expired")
           tx(st) == Converted(st, sid, s, base[st], t)
           ended == EndedSessions(PastBell(c), t)
<1>3. t \in Nat /\ d \in Nat /\ "session_expired" \in Endings
    BY <1>1, ClocksType, TimeAssumption DEF Endings
<1>4. s \in SessionType
    BY <1>3 DEF SessionType
<1>5. /\ base \in [Students -> [SessionIds -> PartType]]
      /\ \A st \in Students, o \in SessionIds :
            Live(base[st][o]) => Live(parts[st][o]) /\ o \notin PastBell(c)
    BY <1>1, <1>3, EndedPartsOK
<1>6. \A st \in Students :
          /\ \A e \in tx(st).rows : RowOK(st, e) /\ e \in RowType
          /\ \A a \in tx(st).armed : ArmedOK(st, a) /\ a \in ArmedType
          /\ tx(st).parts \in [SessionIds -> PartType]
          /\ \/ tx(st).parts = base[st]
             \/ /\ <<st, c>> \in enrolled
                /\ \A o \in SessionIds : Live(tx(st).parts[o]) => o = sid
    <2>1. TAKE st \in Students
    <2>2. base[st] \in [SessionIds -> PartType] /\ s.class = c
        BY <1>5
    <2> HIDE DEF s, base
    <2>3. QED BY <1>1, <1>3, <1>4, <2>2, ConvertedOK DEF RowOK, ArmedOK
<1>7. /\ ended \in [SessionIds -> SessionType]
      /\ \A o \in SessionIds : /\ ended[o].class = sessions[o].class
                               /\ o \in PastBell(c) => ended[o].endedAt # Never
                               /\ o \notin PastBell(c) => ended[o] = sessions[o]
    BY <1>1, <1>3, EndedSessionsOK
<1>8. /\ ~Started(sid)
      /\ sessions' = [ended EXCEPT ![sid] = s]
      /\ parts' = [st \in Students |-> tx(st).parts]
      /\ armed' = [st \in Students |-> tx(st).armed]
      /\ log' = [st \in Students |-> log[st] \cup tx(st).rows]
      /\ written' = [st \in Students |->
            IF tx(st).rows = {} THEN written[st] ELSE written[st] + 1]
      /\ UNCHANGED <<now, enrolled, deleted, phones, asking>>
    BY <1>2 DEF StartSession
<1>9. UNCHANGED phones /\ AskOK'
    BY <1>8, AskUnchanged DEF phones
<1>10. s.class = c /\ s.endedAt = Never /\ c # NoClass
    BY PeopleAssumption
<1> HIDE DEF s, base, tx, ended
<1>11. TypeOK'
    <2>1. /\ log' \in [Students -> SUBSET RowType]
          /\ \A st \in Students : \A e \in log'[st] : RowOK(st, e)
        BY <1>1, <1>6, <1>8, AllRowsOK DEF TypeOK
    <2>2. /\ armed' \in [Students -> SUBSET ArmedType]
          /\ \A st \in Students : \A a \in armed'[st] : ArmedOK(st, a)
        BY <1>6, <1>8
    <2>3. /\ sessions' \in [SessionIds -> SessionType]
          /\ parts' \in [Students -> [SessionIds -> PartType]]
        BY <1>4, <1>6, <1>7, <1>8
    <2>4. /\ now' \in Nat /\ enrolled' \subseteq Students \X Classes
          /\ deleted' \subseteq Students /\ written' \in [Students -> Nat]
        BY <1>1, <1>8 DEF TypeOK
    <2>5. QED BY <1>1, <1>9, <2>1, <2>2, <2>3, <2>4, ShapesKept
<1>12. \A o \in SessionIds :
          Open(o)' => \/ o = sid
                      \/ Open(o) /\ o \notin PastBell(c) /\ sessions'[o] = sessions[o]
    BY <1>7, <1>8 DEF Open, Started
<1>13. Open(sid)' /\ sessions'[sid].class = c
    BY <1>7, <1>8, <1>10 DEF Open, Started
<1>14. OneOpenLessonPerClass'
    <2>1. \A o \in SessionIds : Open(o) /\ o \notin PastBell(c) => sessions[o].class # c
        BY DEF PastBell
    <2>2. QED BY <1>12, <1>13, <2>1 DEF IInv, OneOpenLessonPerClass
<1>15. \A st \in Students, o \in SessionIds :
          Live(parts[st][o])' =>
             \/ o = sid /\ <<st, c>> \in enrolled
                /\ \A b \in SessionIds : Live(parts[st][b])' => b = sid
             \/ Live(parts[st][o]) /\ o \notin PastBell(c) /\ parts'[st] = base[st]
    BY <1>5, <1>6, <1>8 DEF Live
<1>16. \A st \in Students, o \in SessionIds :
          Live(parts[st][o]) /\ o \notin PastBell(c) =>
             o # sid /\ Open(o)' /\ IsIn(st, o)'
    BY <1>7, <1>8 DEF IInv, OverLessonHasNoOne, LiveIsEnrolled, Open, Started, IsIn
<1>17. OverLessonHasNoOne' /\ LiveIsEnrolled'
    <2>1. ASSUME NEW st \in Students, NEW o \in SessionIds, Live(parts[st][o])'
          PROVE  Open(o)' /\ IsIn(st, o)'
        <3>1. CASE o = sid /\ <<st, c>> \in enrolled
            BY <1>8, <1>13, <3>1 DEF IsIn
        <3>2. CASE Live(parts[st][o]) /\ o \notin PastBell(c)
            BY <1>16, <3>2
        <3>3. QED BY <1>15, <2>1, <3>1, <3>2
    <2>2. QED BY <2>1 DEF OverLessonHasNoOne, LiveIsEnrolled
<1>18. OneLessonPerStudent'
    <2>1. ASSUME NEW st \in Students, NEW a \in SessionIds, NEW b \in SessionIds,
                 Live(parts[st][a])', Live(parts[st][b])'
          PROVE  a = b
        BY <1>15, <2>1 DEF IInv, OneLessonPerStudent
    <2>2. QED BY <2>1 DEF OneLessonPerStudent
<1>19. QED BY <1>11, <1>14, <1>17, <1>18 DEF IInv

LEMMA ExtendKeeps ==
    ASSUME IInv, NEW sid \in SessionIds, Extend(sid)
    PROVE  IInv'
<1>1. TypeOK
    BY DEF IInv
<1>2. PICK d \in Lessons : sessions' = [sessions EXCEPT ![sid].endsAt = sessions[sid].endsAt + d]
    BY DEF Extend
<1>3. UNCHANGED <<now, enrolled, deleted, parts, log, written, armed, phones, asking>>
    BY DEF Extend
<1>4. UNCHANGED phones /\ AskOK'
    BY <1>3, AskUnchanged DEF phones
<1>5. d \in Nat
    BY TimeAssumption
<1>6. /\ sessions' \in [SessionIds -> SessionType]
      /\ \A o \in SessionIds : /\ sessions'[o].class = sessions[o].class
                               /\ sessions'[o].endedAt = sessions[o].endedAt
    <2>1. \A s \in SessionType :
             /\ [s EXCEPT !.endsAt = s.endsAt + d] \in SessionType
             /\ [s EXCEPT !.endsAt = s.endsAt + d].class = s.class
             /\ [s EXCEPT !.endsAt = s.endsAt + d].endedAt = s.endedAt
        BY <1>5 DEF SessionType
    <2>2. sessions \in [SessionIds -> SessionType]
        BY <1>1 DEF TypeOK
    <2>3. QED BY <1>2, <2>1, <2>2
<1>7. TypeOK'
    <2>1. /\ \A s \in Students : \A e \in log'[s] : RowOK(s, e)
          /\ \A s \in Students : \A a \in armed'[s] : ArmedOK(s, a)
        BY <1>1, <1>3, AllRowsOK
    <2>2. /\ now' \in Nat /\ enrolled' \subseteq Students \X Classes
          /\ deleted' \subseteq Students /\ log' \in [Students -> SUBSET RowType]
          /\ parts' \in [Students -> [SessionIds -> PartType]]
          /\ written' \in [Students -> Nat] /\ armed' \in [Students -> SUBSET ArmedType]
        BY <1>1, <1>3 DEF TypeOK
    <2>3. QED BY <1>1, <1>4, <1>6, <2>1, <2>2, ShapesKept
<1>8. Places'
    BY <1>3, <1>6 DEF IInv, Places, OneLessonPerStudent, OneOpenLessonPerClass,
                      OverLessonHasNoOne, LiveIsEnrolled, Open, Started, IsIn, Live
<1>9. QED BY <1>7, <1>8 DEF IInv, Places

LEMMA LessonKeeps ==
    ASSUME IInv, Lesson
    PROVE  IInv'
<1>1. ASSUME NEW sid \in SessionIds, End(sid)
      PROVE  IInv'
    <2>1. PICK t \in Clocks : EndHeld(sid, t, "session_ended")
        BY <1>1 DEF End
    <2>2. QED BY <2>1, ClocksType, EndHeldKeeps DEF IInv, Endings
<1>2. ASSUME NEW sid \in SessionIds, Sweep(sid)
      PROVE  IInv'
    <2>1. PICK t \in Clocks : EndHeld(sid, t, "session_expired")
        BY <1>2 DEF Sweep
    <2>2. QED BY <2>1, ClocksType, EndHeldKeeps DEF IInv, Endings
<1>3. QED BY <1>1, <1>2, StartKeeps, ExtendKeeps DEF Lesson

LEMMA TickKeeps ==
    ASSUME IInv, Tick
    PROVE  IInv'
<1>1. TypeOK
    BY DEF IInv
<1>2. UNCHANGED <<sessions, enrolled, deleted, log, written, armed, phones, asking>>
    BY DEF Tick
<1>3. UNCHANGED phones /\ AskOK'
    BY <1>2, AskUnchanged DEF phones
<1>4. \A st \in Students, sid \in SessionIds :
          parts'[st][sid] = [parts[st][sid] EXCEPT
              !.quiet = "silence" \in Doings /\ Live(parts[st][sid])]
    BY DEF Tick
<1>5. \A p \in PartType : \A q \in BOOLEAN : /\ [p EXCEPT !.quiet = q] \in PartType
                                            /\ [p EXCEPT !.quiet = q].ended = p.ended
    BY DEF PartType
<1>6. /\ parts' \in [Students -> [SessionIds -> PartType]]
      /\ \A st \in Students, sid \in SessionIds :
            parts'[st][sid].ended = parts[st][sid].ended
    <2>1. parts \in [Students -> [SessionIds -> PartType]]
        BY <1>1 DEF TypeOK
    <2>2. \A st \in Students, sid \in SessionIds :
              ("silence" \in Doings /\ Live(parts[st][sid])) \in BOOLEAN
        BY DEF Live
    <2>3. \A st \in Students, sid \in SessionIds :
              /\ parts'[st][sid] \in PartType
              /\ parts'[st][sid].ended = parts[st][sid].ended
        <3>1. TAKE st \in Students, sid \in SessionIds
        <3>2. PICK q \in BOOLEAN : parts'[st][sid] = [parts[st][sid] EXCEPT !.quiet = q]
            BY <1>4, <2>2
        <3>3. parts[st][sid] \in PartType
            BY <2>1
        <3>4. QED BY <1>5, <3>2, <3>3
    <2>4. DOMAIN parts' = Students /\ parts' = [st \in Students |-> parts'[st]]
        BY DEF Tick
    <2>5. \A st \in Students : parts'[st] = [sid \in SessionIds |-> parts'[st][sid]]
        BY DEF Tick
    <2>6. \A st \in Students : parts'[st] \in [SessionIds -> PartType]
        BY <2>3, <2>5
    <2>7. QED BY <2>3, <2>4, <2>6
<1>7. TypeOK'
    <2>1. /\ \A s \in Students : \A e \in log'[s] : RowOK(s, e)
          /\ \A s \in Students : \A a \in armed'[s] : ArmedOK(s, a)
        BY <1>1, <1>2, AllRowsOK
    <2>2. /\ now' \in Nat /\ enrolled' \subseteq Students \X Classes
          /\ deleted' \subseteq Students /\ log' \in [Students -> SUBSET RowType]
          /\ sessions' \in [SessionIds -> SessionType]
          /\ written' \in [Students -> Nat] /\ armed' \in [Students -> SUBSET ArmedType]
        BY <1>1, <1>2 DEF TypeOK, Tick
    <2>3. QED BY <1>1, <1>3, <1>6, <2>1, <2>2, ShapesKept
<1>8. Places'
    BY <1>2, <1>6 DEF IInv, Places, OneLessonPerStudent, OneOpenLessonPerClass,
                      OverLessonHasNoOne, LiveIsEnrolled, Open, Started, IsIn, Live
<1>9. QED BY <1>7, <1>8 DEF IInv, Places

-----------------------------------------------------------------------------
(* The theorems. *)

LEMMA InitIInv ==
    ASSUME Init
    PROVE  IInv
<1>1. \A st \in Students, sid \in SessionIds : ~Live(parts[st][sid])
    BY DEF Init, Live, NoRow
<1>2. \A sid \in SessionIds : ~Open(sid)
    BY DEF Init, Open, Started, NotStarted
<1>3. Places
    BY <1>1, <1>2 DEF Places, OneLessonPerStudent, OneOpenLessonPerClass,
                      OverLessonHasNoOne, LiveIsEnrolled
<1>4. /\ NotStarted \in SessionType /\ NoRow \in PartType /\ Idle \in AskType
      /\ Idle.stage = "idle"
    BY DEF NotStarted, SessionType, NoRow, PartType, States, Idle, AskType, NoSession, Never
<1>5. TypeOK
    BY <1>4, PeopleAssumption DEF Init, TypeOK, Referring
<1>6. QED BY <1>3, <1>5 DEF IInv, Places

LEMMA NextIInv ==
    ASSUME IInv, [Next]_vars
    PROVE  IInv'
<1>1. CASE UNCHANGED vars
    <2>1. UNCHANGED <<now, server, phones, asking>>
        BY <1>1 DEF vars, server, phones
    <2>2. TypeOK'
        BY <2>1 DEF IInv, TypeOK, Referring, server, phones
    <2>3. Places'
        BY <2>1 DEF server, IInv, Places, OneLessonPerStudent, OneOpenLessonPerClass,
                    OverLessonHasNoOne, LiveIsEnrolled, Open, Started, IsIn, Live
    <2>4. QED BY <2>2, <2>3 DEF IInv, Places
<1>2. CASE Next
    BY <1>2, PhoneKeeps, RequestKeeps, EnrollmentKeeps, LessonKeeps, TickKeeps DEF Next
<1>3. QED BY <1>1, <1>2

(* The invariant the theorems below follow from holds of every behaviour.     *)
THEOREM Invariance == Spec => []IInv
<1>1. Init => IInv
    BY InitIInv
<1>2. IInv /\ [Next]_vars => IInv'
    BY NextIInv
<1>3. QED BY <1>1, <1>2, PTL DEF Spec

(* Whatever phones send, and in whatever order it arrives, the engine's rows  *)
(* keep the shapes of the schema and name records and sessions there are.     *)
THEOREM TypeCorrect == Spec => []TypeOK
<1>1. IInv => TypeOK
    BY DEF IInv
<1>2. QED BY <1>1, Invariance, PTL

(* No student is ever live in two lessons (endParticipationsElsewhere).       *)
THEOREM NoTwoLessons == Spec => []OneLessonPerStudent
<1>1. IInv => OneLessonPerStudent
    BY DEF IInv
<1>2. QED BY <1>1, Invariance, PTL

(* No class ever has two lessons open (startSession, A18).                    *)
THEOREM NoTwoOpenLessons == Spec => []OneOpenLessonPerClass
<1>1. IInv => OneOpenLessonPerClass
    BY DEF IInv
<1>2. QED BY <1>1, Invariance, PTL

(* No student is ever live in a lesson that is over (endHeldSession, tapIn).  *)
THEOREM NoOneInOverLesson == Spec => []OverLessonHasNoOne
<1>1. IInv => OverLessonHasNoOne
    BY DEF IInv
<1>2. QED BY <1>1, Invariance, PTL

(* No student is ever live in a lesson of a class they are not in (A19).      *)
THEOREM NoOneInAnothersClass == Spec => []LiveIsEnrolled
<1>1. IInv => LiveIsEnrolled
    BY DEF IInv
<1>2. QED BY <1>1, Invariance, PTL

(* The three about lessons at once (sessions_one_running_per_class and        *)
(* participations_one_live_per_student, which the schema also holds).         *)
THEOREM LessonsKeptApart == Spec => []LessonsApart
<1>1. IInv => LessonsApart
    BY DEF IInv, LessonsApart
<1>2. QED BY <1>1, Invariance, PTL

-----------------------------------------------------------------------------
(* What a step may do to a lesson's bell.  It rests on an invariant of its   *)
(* own: a lesson that has started has a window that is not empty, and if it  *)
(* is over it ended in that window, so that a time held to the window by     *)
(* Clamp lies in it.                                                         *)

WindowOK(s) == /\ s.startedAt =< s.endsAt
               /\ s.endedAt # Never => InWindow([at |-> s.endedAt], s)

Windows == \A sid \in SessionIds : Started(sid) => WindowOK(sessions[sid])

(* What a step may do to one lesson: keep it, end it in its window, or move   *)
(* its bell later within the cap, and the last two only while it is open.     *)
Follows(s, r) ==
    \/ r = s
    \/ /\ s.endedAt = Never
       /\ r.class = s.class /\ r.startedAt = s.startedAt /\ r.endsAt = s.endsAt
       /\ InWindow([at |-> r.endedAt], r)
    \/ /\ s.endedAt = Never
       /\ r.class = s.class /\ r.startedAt = s.startedAt /\ r.endedAt = Never
       /\ r.endsAt >= s.endsAt /\ r.endsAt - s.startedAt =< MaxTotal

-----------------------------------------------------------------------------
(* One lesson. *)

(* What a step does to a lesson, started or not. *)
BellKept(o) ==
    IF Started(o) THEN Follows(sessions[o], sessions'[o])
    ELSE sessions'[o] = sessions[o] \/ WindowOK(sessions'[o])

(* Held to a window that is not empty, a time lies in it. *)
LEMMA ClampInWindow ==
    ASSUME NEW s \in SessionType, WindowOK(s), NEW t \in Nat
    PROVE  InWindow([at |-> Clamp(t, s)], s)
BY DEF SessionType, WindowOK, InWindow, Clamp, Least, Greatest

(* A lesson kept has a window that is not empty still. *)
LEMMA KeepsWindow ==
    ASSUME NEW s \in SessionType, NEW r \in SessionType, WindowOK(s), Follows(s, r)
    PROVE  WindowOK(r)
BY DEF SessionType, WindowOK, Follows, InWindow

(* Lessons that are open, ended, each keep what a step must keep of them. *)
LEMMA EndedKeeps ==
    ASSUME TypeOK, Windows, NEW sids, \A o \in sids : Open(o), NEW t \in Nat,
           NEW o \in SessionIds
    PROVE  IF Started(o) THEN Follows(sessions[o], EndedSessions(sids, t)[o])
           ELSE EndedSessions(sids, t)[o] = sessions[o]
<1> DEFINE s == sessions[o]
           end == Clamp(t, s)
           r == [s EXCEPT !.endedAt = end]
<1>1. CASE o \in sids
    <2>1. EndedSessions(sids, t)[o] = r /\ s.endedAt = Never /\ Started(o)
        BY <1>1 DEF EndedSessions, Open
    <2>2. s \in SessionType /\ WindowOK(s)
        BY <2>1 DEF TypeOK, Windows
    <2>3. InWindow([at |-> end], s)
        BY <2>2, ClampInWindow
    <2>4. /\ r.class = s.class /\ r.startedAt = s.startedAt /\ r.endsAt = s.endsAt
          /\ r.endedAt = end
        BY <2>2 DEF SessionType
    <2> HIDE DEF s, end, r
    <2>5. InWindow([at |-> r.endedAt], r)
        BY <2>3, <2>4 DEF InWindow
    <2>6. Follows(s, r)
        BY <2>1, <2>4, <2>5 DEF Follows
    <2>7. QED BY <2>1, <2>6 DEF s
<1>2. CASE o \notin sids
    BY <1>2 DEF EndedSessions, Follows
<1>3. QED BY <1>1, <1>2

-----------------------------------------------------------------------------
(* One step. *)

(* A student's steps touch no lesson. *)
LEMMA StudentLeavesLessons ==
    ASSUME NEW st \in Students, Phone(st) \/ Request(st) \/ Enrollment(st)
    PROVE  sessions' = sessions
<1>1. CASE Phone(st)
    BY <1>1 DEF Phone, MakeTap, MakeUnlock, MakeTapUnlock, MakeChange, MakeReason, Make,
                Reinstall, server
<1>2. CASE Request(st)
    BY <1>2 DEF Request, Reach, AskTap, TapLands, TapRereads, TapArms, MarkSilent,
                CheckIn, Commit, server
<1>3. CASE Enrollment(st)
    BY <1>3 DEF Enrollment, JoinClass, LeaveClass, RemoveFromClass, EndEnrollment,
                DeleteAccount
<1>4. QED BY <1>1, <1>2, <1>3

LEMMA StartBells ==
    ASSUME TypeOK, Windows, NEW c \in Classes, Start(c), NEW o \in SessionIds
    PROVE  BellKept(o)
<1>1. PICK d \in Lessons, t \in Clocks, sid \in SessionIds :
          ~Started(sid) /\ StartSession(c, sid, t, d)
    BY DEF Start
<1> DEFINE s == [class |-> c, startedAt |-> t, endsAt |-> t + d, endedAt |-> Never]
           ended == EndedSessions(PastBell(c), t)
<1>2. t \in Nat /\ d \in Nat /\ \A b \in PastBell(c) : Open(b)
    BY ClocksType, TimeAssumption DEF PastBell
<1>3. sessions' = [ended EXCEPT ![sid] = s]
    BY <1>1 DEF StartSession
<1>4. WindowOK(s)
    BY <1>2 DEF WindowOK
<1>5. IF Started(o) THEN Follows(sessions[o], ended[o]) ELSE ended[o] = sessions[o]
    BY <1>2, EndedKeeps
<1>6. ended \in [SessionIds -> SessionType]
    BY <1>2, EndedSessionsOK
<1> HIDE DEF s, ended
<1>7. QED BY <1>1, <1>3, <1>4, <1>5, <1>6 DEF BellKept

LEMMA ExtendBells ==
    ASSUME TypeOK, NEW sid \in SessionIds, Extend(sid), NEW o \in SessionIds
    PROVE  BellKept(o)
<1>1. PICK d \in Lessons :
          /\ Open(sid) /\ WithinCap(sid, d)
          /\ sessions' = [sessions EXCEPT ![sid].endsAt = sessions[sid].endsAt + d]
    BY DEF Extend
<1>2. sessions \in [SessionIds -> SessionType] /\ d \in Nat
    BY TimeAssumption DEF TypeOK
<1>3. CASE o = sid
    <2>1. sessions[o].endsAt \in Nat /\ sessions[o].startedAt \in Nat
        BY <1>2 DEF SessionType
    <2>2. /\ sessions'[o].class = sessions[o].class
          /\ sessions'[o].startedAt = sessions[o].startedAt
          /\ sessions'[o].endedAt = sessions[o].endedAt
          /\ sessions'[o].endsAt = sessions[o].endsAt + d
        BY <1>1, <1>2, <1>3 DEF SessionType
    <2>3. Started(o) /\ sessions[o].endedAt = Never
          /\ sessions[o].endsAt + d - sessions[o].startedAt =< MaxTotal
        BY <1>1, <1>3 DEF Open, WithinCap
    <2>4. sessions'[o].endsAt >= sessions[o].endsAt
          /\ sessions'[o].endsAt - sessions[o].startedAt =< MaxTotal
        BY <1>2, <2>1, <2>2, <2>3
    <2>5. QED BY <2>2, <2>3, <2>4 DEF BellKept, Follows
<1>4. CASE o # sid
    BY <1>1, <1>2, <1>4 DEF BellKept, Follows
<1>5. QED BY <1>3, <1>4

LEMMA NextBells ==
    ASSUME IInv, Windows, [Next]_vars, NEW o \in SessionIds
    PROVE  BellKept(o)
<1>1. TypeOK
    BY DEF IInv
<1>2. ASSUME sessions' = sessions
      PROVE  BellKept(o)
    BY <1>2 DEF BellKept, Follows
<1>3. CASE UNCHANGED vars \/ Tick
    BY <1>2, <1>3 DEF vars, Tick
<1>4. CASE \E st \in Students : Phone(st) \/ Request(st) \/ Enrollment(st)
    BY <1>2, <1>4, StudentLeavesLessons
<1>5. ASSUME NEW sid \in SessionIds, End(sid) \/ Sweep(sid)
      PROVE  BellKept(o)
    <2>1. PICK t \in Clocks : Open(sid) /\ sessions' = EndedSessions({sid}, t)
        BY <1>5 DEF End, Sweep, IsDue, EndHeld
    <2>2. IF Started(o) THEN Follows(sessions[o], sessions'[o]) ELSE sessions'[o] = sessions[o]
        BY <1>1, <2>1, ClocksType, EndedKeeps
    <2>3. QED BY <2>2 DEF BellKept
<1>6. QED BY <1>1, <1>3, <1>4, <1>5, StartBells, ExtendBells DEF Next, Lesson

(* The windows are kept. *)
LEMMA NextWindows ==
    ASSUME IInv, IInv', Windows, [Next]_vars
    PROVE  Windows'
<1> SUFFICES ASSUME NEW o \in SessionIds, Started(o)'
             PROVE  WindowOK(sessions'[o])
    BY DEF Windows, WindowOK, InWindow
<1>1. sessions[o] \in SessionType /\ sessions'[o] \in SessionType /\ BellKept(o)
    BY NextBells DEF IInv, TypeOK
<1>2. CASE Started(o)
    BY <1>1, <1>2, KeepsWindow DEF BellKept, Windows
<1>3. CASE ~Started(o)
    BY <1>1, <1>3 DEF BellKept, Started
<1>4. QED BY <1>2, <1>3

(* What is kept of a lesson is what is promised of its bell. *)
LEMMA NextBellStep ==
    ASSUME IInv, IInv', Windows, [Next]_vars
    PROVE  BellStep
<1> SUFFICES ASSUME NEW o \in SessionIds, Started(o)
             PROVE  LET s == sessions[o]
                        r == sessions'[o]
                    IN /\ r.startedAt = s.startedAt
                       /\ r.endsAt >= s.endsAt
                       /\ s.endedAt # Never => r = s
                       /\ r.endedAt # Never => InWindow([at |-> r.endedAt], r)
                       /\ r.endsAt # s.endsAt => r.endsAt - s.startedAt =< MaxTotal
    BY DEF BellStep
<1>1. sessions[o] \in SessionType /\ sessions'[o] \in SessionType
    BY DEF IInv, TypeOK
<1>2. WindowOK(sessions[o]) /\ Follows(sessions[o], sessions'[o])
    BY NextBells DEF BellKept, Windows
<1>3. WindowOK(sessions'[o])
    BY <1>1, <1>2, KeepsWindow
<1>4. QED BY <1>1, <1>2, <1>3 DEF Follows, WindowOK, SessionType

-----------------------------------------------------------------------------
(* The theorem. *)

(* A bell only moves later, within the cap and while the lesson is open, and  *)
(* a lesson is over once, at a time of its own window (extendSession,         *)
(* endHeldSession, expireDueSessions, startSession).                          *)
THEOREM BellsMoveLater == Spec => BellMovesLater
<1>1. Init => Windows
    BY DEF Init, Windows, Started, NotStarted
<1>2. IInv /\ IInv' /\ Windows /\ [Next]_vars => Windows' /\ BellStep
    BY NextWindows, NextBellStep
<1>3. QED BY <1>1, <1>2, Invariance, PTL DEF Spec, BellMovesLater

-----------------------------------------------------------------------------
(* The engine implements Attendance.tla, for every value of the constants.    *)
(* A transaction of one student's is a Move of that student, wherever it      *)
(* leaves them; the end of a lesson is a Close; a Start is a Begin, with the  *)
(* lessons past their bell closing and the converted taps' students in it.    *)
(* Each rests on the engine's invariant before and after the step.            *)

(* Where a student with these stints is. *)
PlaceOf(ps) == IF \E sid \in SessionIds : Live(ps[sid])
               THEN CHOOSE sid \in SessionIds : Live(ps[sid]) ELSE NoSession

-----------------------------------------------------------------------------
(* Places and stages. *)

(* Live in at most one lesson, a student is in that one or nowhere. *)
LEMMA PlaceOfIs ==
    ASSUME NEW ps,
           \A a, b \in SessionIds : Live(ps[a]) /\ Live(ps[b]) => a = b
    PROVE  /\ PlaceOf(ps) \in SessionIds \cup {NoSession}
           /\ \A sid \in SessionIds : PlaceOf(ps) = sid <=> Live(ps[sid])
<1>1. NoSession \notin SessionIds
    BY DEF NoSession, SessionIds
<1>2. CASE \E sid \in SessionIds : Live(ps[sid])
    BY <1>2 DEF PlaceOf
<1>3. CASE ~ \E sid \in SessionIds : Live(ps[sid])
    BY <1>1, <1>3 DEF PlaceOf
<1>4. QED BY <1>2, <1>3

(* Two sets of stints live in the same lessons are the same place. *)
LEMMA SamePlaceOf ==
    ASSUME NEW ps, NEW qs,
           \A a, b \in SessionIds : Live(ps[a]) /\ Live(ps[b]) => a = b,
           \A sid \in SessionIds : Live(qs[sid]) <=> Live(ps[sid])
    PROVE  PlaceOf(qs) = PlaceOf(ps)
<1>1. /\ PlaceOf(ps) \in SessionIds \cup {NoSession}
      /\ \A sid \in SessionIds : PlaceOf(ps) = sid <=> Live(ps[sid])
    BY PlaceOfIs
<1>2. \A a, b \in SessionIds : Live(qs[a]) /\ Live(qs[b]) => a = b
    OBVIOUS
<1>3. /\ PlaceOf(qs) \in SessionIds \cup {NoSession}
      /\ \A sid \in SessionIds : PlaceOf(qs) = sid <=> Live(qs[sid])
    BY <1>2, PlaceOfIs
<1>4. QED BY <1>1, <1>3

(* Both states' places, as functions of their stints. *)
LEMMA PlaceIs ==
    /\ Place = [st \in Students |-> PlaceOf(parts[st])]
    /\ Place' = [st \in Students |-> PlaceOf(parts'[st])]
BY DEF Place, PlaceOf

(* With the lessons as they were, one student's stints changed is a Move. *)
LEMMA OneMoves ==
    ASSUME IInv', NEW st \in Students, sessions' = sessions,
           \A o \in Students : o # st => parts'[o] = parts[o]
    PROVE  A!Next
<1> DEFINE to == PlaceOf(parts'[st])
<1>1. LessonStage' = LessonStage
    BY DEF LessonStage, Open, Started
<1>2. Place' = [Place EXCEPT ![st] = to]
    BY PlaceIs
<1>3. /\ to \in SessionIds \cup {NoSession}
      /\ \A sid \in SessionIds : to = sid <=> Live(parts[st][sid])'
    <2>1. \A a, b \in SessionIds : Live(parts'[st][a]) /\ Live(parts'[st][b]) => a = b
        BY DEF IInv, OneLessonPerStudent, Live
    <2>2. QED BY <2>1, PlaceOfIs DEF Live
<1> HIDE DEF to
<1>4. to # NoSession => LessonStage[to] = "open"
    <2>1. \A sid \in SessionIds : Live(parts[st][sid])' => Open(sid)'
        BY DEF IInv, OverLessonHasNoOne
    <2>2. \A sid \in SessionIds : to = sid => Open(sid) /\ Started(sid)
        BY <1>3, <2>1 DEF Open, Started
    <2>3. QED BY <1>3, <2>2 DEF LessonStage
<1>5. A!Move(st, to)
    BY <1>1, <1>2, <1>4 DEF A!Move
<1>6. QED BY <1>3, <1>5 DEF A!Next

(* With every stint live where it was, no one moves. *)
LEMMA NoOneMoves ==
    ASSUME IInv, \A st \in Students, sid \in SessionIds :
                    Live(parts'[st][sid]) <=> Live(parts[st][sid])
    PROVE  Place' = Place
<1>1. ASSUME NEW st \in Students
      PROVE  PlaceOf(parts'[st]) = PlaceOf(parts[st])
    <2>1. \A a, b \in SessionIds : Live(parts[st][a]) /\ Live(parts[st][b]) => a = b
        BY DEF IInv, OneLessonPerStudent
    <2>2. QED BY <2>1, SamePlaceOf
<1>2. QED BY <1>1, PlaceIs

-----------------------------------------------------------------------------
(* The steps of one student's. *)

(* A student's records, requests and enrollments move that student only. *)
LEMMA StudentMoves ==
    ASSUME IInv, IInv', NEW st \in Students, Phone(st) \/ Request(st) \/ Enrollment(st)
    PROVE  A!Next
<1>1. parts \in [Students -> [SessionIds -> PartType]]
    BY DEF IInv, TypeOK
<1>2. ASSUME UNCHANGED server
      PROVE  A!Next
    BY <1>2, OneMoves DEF server
<1>3. ASSUME NEW tx, Commit(st, tx)
      PROVE  A!Next
    BY <1>1, <1>3, OneMoves DEF Commit
<1>4. CASE Phone(st)
    <2>1. UNCHANGED server
        BY <1>4 DEF Phone, MakeTap, MakeUnlock, MakeTapUnlock, MakeChange, MakeReason,
                    Make, Reinstall
    <2>2. QED BY <1>2, <2>1
<1>5. CASE Request(st)
    <2>1. ASSUME NEW n \in DOMAIN made[st], Reach(st, n)
          PROVE  A!Next
        BY <1>3, <2>1 DEF Reach
    <2>2. ASSUME NEW n \in DOMAIN made[st], AskTap(st, n)
          PROVE  A!Next
        BY <1>2, <2>2 DEF AskTap
    <2>3. CASE TapLands(st)
        BY <1>3, <2>3 DEF TapLands
    <2>4. CASE TapRereads(st)
        BY <1>2, <2>4 DEF TapRereads
    <2>5. CASE TapArms(st)
        BY <1>3, <2>5 DEF TapArms
    <2>6. ASSUME NEW sid \in SessionIds, MarkSilent(st, sid)
          PROVE  A!Next
        BY <1>3, <2>6 DEF MarkSilent
    <2>7. ASSUME NEW sid \in SessionIds, CheckIn(st, sid)
          PROVE  A!Next
        BY <1>3, <2>7 DEF CheckIn
    <2>8. QED BY <1>5, <2>1, <2>2, <2>3, <2>4, <2>5, <2>6, <2>7 DEF Request
<1>6. CASE Enrollment(st)
    <2>1. sessions' = sessions
        BY <1>6 DEF Enrollment, JoinClass, LeaveClass, RemoveFromClass, EndEnrollment,
                    DeleteAccount
    <2>2. \A o \in Students : o # st => parts'[o] = parts[o]
        BY <1>1, <1>6 DEF Enrollment, JoinClass, LeaveClass, RemoveFromClass,
                          EndEnrollment, DeleteAccount
    <2>3. QED BY <2>1, <2>2, OneMoves
<1>7. QED BY <1>4, <1>5, <1>6

-----------------------------------------------------------------------------
(* The steps of a lesson. *)

(* Who is left live when lessons end: those who were live in another. *)
LEMMA EndedPartsLive ==
    ASSUME TypeOK, NEW sids, NEW reason \in Endings, NEW st \in Students, NEW o \in SessionIds
    PROVE  Live(EndedParts(sids, reason)[st][o]) <=> Live(parts[st][o]) /\ o \notin sids
<1>1. parts[st][o] \in PartType /\ reason # "live"
    BY DEF TypeOK, Endings
<1>2. [parts[st][o] EXCEPT !.ended = reason].ended = reason
    BY <1>1 DEF PartType
<1>3. QED BY <1>1, <1>2 DEF EndedParts, Live

(* The end of a lesson is a Close. *)
LEMMA EndHeldCloses ==
    ASSUME IInv, NEW sid \in SessionIds, NEW t \in Nat, NEW reason \in Endings,
           Open(sid), EndHeld(sid, t, reason)
    PROVE  A!Next
<1>1. TypeOK
    BY DEF IInv
<1>2. sessions' = EndedSessions({sid}, t) /\ parts' = EndedParts({sid}, reason)
    BY DEF EndHeld
<1>3. LessonStage' = [LessonStage EXCEPT ![sid] = "over"]
    <2>1. \A o \in SessionIds : /\ sessions'[o].class = sessions[o].class
                                /\ o = sid => sessions'[o].endedAt # Never
                                /\ o # sid => sessions'[o] = sessions[o]
        BY <1>1, <1>2, EndedSessionsOK
    <2>2. QED BY <2>1 DEF LessonStage, Open, Started
<1>4. ASSUME NEW st \in Students
      PROVE  PlaceOf(parts'[st]) =
                IF PlaceOf(parts[st]) = sid THEN NoSession ELSE PlaceOf(parts[st])
    <2>1. \A o \in SessionIds : Live(parts'[st][o]) <=> Live(parts[st][o]) /\ o # sid
        BY <1>1, <1>2, EndedPartsLive
    <2>2. \A a, b \in SessionIds : Live(parts[st][a]) /\ Live(parts[st][b]) => a = b
        BY DEF IInv, OneLessonPerStudent
    <2>3. /\ PlaceOf(parts[st]) \in SessionIds \cup {NoSession}
          /\ \A o \in SessionIds : PlaceOf(parts[st]) = o <=> Live(parts[st][o])
        BY <2>2, PlaceOfIs
    <2>4. \A a, b \in SessionIds : Live(parts'[st][a]) /\ Live(parts'[st][b]) => a = b
        BY <2>1, <2>2
    <2>5. /\ PlaceOf(parts'[st]) \in SessionIds \cup {NoSession}
          /\ \A o \in SessionIds : PlaceOf(parts'[st]) = o <=> Live(parts'[st][o])
        BY <2>4, PlaceOfIs
    <2>6. QED BY <2>1, <2>3, <2>5
<1>5. Place' = [st \in Students |-> IF Place[st] = sid THEN NoSession ELSE Place[st]]
    BY <1>4, PlaceIs
<1>6. LessonStage[sid] = "open"
    BY DEF LessonStage, Open
<1>7. A!Close(sid)
    BY <1>3, <1>5, <1>6 DEF A!Close
<1>8. QED BY <1>7 DEF A!Next

(* A waiting tap's student is in the lesson it converts in, or stays as they are. *)
LEMMA ConvertedPlaces ==
    ASSUME NEW st \in Students, NEW sid \in SessionIds, NEW s,
           NEW ps \in [SessionIds -> PartType], NEW t
    PROVE  LET qs == Converted(st, sid, s, ps, t).parts
           IN qs = ps \/ Live(qs[sid])
<1>1. Live(JoinedOnly(ps, sid)[sid])
    BY DEF JoinedOnly, Fresh, Live
<1>2. QED BY <1>1 DEF Converted

(* A Start is a Begin: the lessons past their bell close, and the students    *)
(* whose taps waited are in the new one.                                      *)
LEMMA StartBegins ==
    ASSUME IInv, IInv', NEW c \in Classes, Start(c)
    PROVE  A!Next
<1>1. TypeOK
    BY DEF IInv
<1>2. PICK d \in Lessons, t \in Clocks, sid \in SessionIds :
          ~Started(sid) /\ StartSession(c, sid, t, d)
    BY DEF Start
<1> DEFINE s == [class |-> c, startedAt |-> t, endsAt |-> t + d, endedAt |-> Never]
           base == EndedParts(PastBell(c), "session_expired")
           tx(st) == Converted(st, sid, s, base[st], t)
           ended == EndedSessions(PastBell(c), t)
           waiting == {st \in Students : Live(tx(st).parts[sid])}
<1>3. t \in Nat /\ "session_expired" \in Endings
    BY <1>1, ClocksType DEF Endings
<1>4. sessions' = [ended EXCEPT ![sid] = s] /\ parts' = [st \in Students |-> tx(st).parts]
    BY <1>2 DEF StartSession
<1>5. /\ base \in [Students -> [SessionIds -> PartType]]
      /\ \A st \in Students, o \in SessionIds :
            Live(base[st][o]) <=> Live(parts[st][o]) /\ o \notin PastBell(c)
    BY <1>1, <1>3, EndedPartsOK, EndedPartsLive
<1>6. /\ ended \in [SessionIds -> SessionType]
      /\ \A o \in SessionIds : /\ ended[o].class = sessions[o].class
                               /\ o \in PastBell(c) => ended[o].endedAt # Never
                               /\ o \notin PastBell(c) => ended[o] = sessions[o]
    BY <1>1, <1>3, EndedSessionsOK
<1>7. PastBell(c) \subseteq SessionIds /\ \A o \in PastBell(c) : LessonStage[o] = "open"
    BY DEF PastBell, LessonStage, Open
<1>8. s.class # NoClass /\ s.endedAt = Never
    BY PeopleAssumption
<1>9. \A st \in Students : tx(st).parts = base[st] \/ Live(tx(st).parts[sid])
    <2>1. TAKE st \in Students
    <2>2. base[st] \in [SessionIds -> PartType]
        BY <1>5
    <2> HIDE DEF s, base
    <2>3. QED BY <2>2, ConvertedPlaces
<1> HIDE DEF s, base, tx, ended
<1>10. LessonStage[sid] = "ahead" /\ sid \notin PastBell(c)
    BY <1>2 DEF LessonStage, PastBell, Open
<1>11. LessonStage' = [o \in SessionIds |->
          IF o = sid THEN "open" ELSE IF o \in PastBell(c) THEN "over" ELSE LessonStage[o]]
    <2>1. /\ sessions'[sid] = s
          /\ \A o \in SessionIds : o # sid => sessions'[o] = ended[o]
        BY <1>4, <1>6
    <2>2. ASSUME NEW o \in SessionIds
          PROVE  LessonStage'[o] = IF o = sid THEN "open"
                                   ELSE IF o \in PastBell(c) THEN "over" ELSE LessonStage[o]
        <3>1. CASE o = sid
            BY <1>8, <2>1, <3>1 DEF LessonStage, Open, Started
        <3>2. CASE o # sid /\ o \in PastBell(c)
            BY <1>6, <2>1, <3>2 DEF LessonStage, Open, Started, PastBell
        <3>3. CASE o # sid /\ o \notin PastBell(c)
            BY <1>6, <2>1, <3>3 DEF LessonStage, Open, Started
        <3>4. QED BY <3>1, <3>2, <3>3
    <2>3. QED BY <2>2 DEF LessonStage
<1>12. ASSUME NEW st \in Students
       PROVE  PlaceOf(parts'[st]) =
                 IF st \in waiting THEN sid
                 ELSE IF PlaceOf(parts[st]) \in PastBell(c) THEN NoSession
                 ELSE PlaceOf(parts[st])
    <2>1. parts'[st] = tx(st).parts
        BY <1>4
    <2>2. /\ PlaceOf(parts[st]) \in SessionIds \cup {NoSession}
          /\ \A o \in SessionIds : PlaceOf(parts[st]) = o <=> Live(parts[st][o])
        <3>1. \A a, b \in SessionIds : Live(parts[st][a]) /\ Live(parts[st][b]) => a = b
            BY DEF IInv, OneLessonPerStudent
        <3>2. QED BY <3>1, PlaceOfIs
    <2>3. /\ PlaceOf(parts'[st]) \in SessionIds \cup {NoSession}
          /\ \A o \in SessionIds : PlaceOf(parts'[st]) = o <=> Live(parts'[st][o])
        <3>1. \A a, b \in SessionIds : Live(parts'[st][a]) /\ Live(parts'[st][b]) => a = b
            BY DEF IInv, OneLessonPerStudent, Live
        <3>2. QED BY <3>1, PlaceOfIs
    <2>4. CASE st \in waiting
        BY <2>1, <2>3, <2>4
    <2>5. CASE st \notin waiting
        <3>1. \A o \in SessionIds :
                 Live(parts'[st][o]) <=> Live(parts[st][o]) /\ o \notin PastBell(c)
            BY <1>5, <1>9, <2>1, <2>5
        <3>2. NoSession \notin PastBell(c)
            BY <1>7 DEF NoSession, SessionIds
        <3>3. QED BY <1>7, <2>2, <2>3, <2>5, <3>1, <3>2
    <2>6. QED BY <2>4, <2>5
<1>13. Place' = [st \in Students |->
          IF st \in waiting THEN sid
          ELSE IF Place[st] \in PastBell(c) THEN NoSession ELSE Place[st]]
    BY <1>12, PlaceIs
<1>14. A!Begin(sid, PastBell(c))
    <2>1. waiting \in SUBSET Students
        OBVIOUS
    <2> HIDE DEF waiting
    <2>2. QED BY <1>7, <1>10, <1>11, <1>13, <2>1 DEF A!Begin
<1>15. QED BY <1>7, <1>14 DEF A!Next

(* A bell moved later changes no lesson's stage. *)
LEMMA ExtendStutters ==
    ASSUME IInv, NEW sid \in SessionIds, Extend(sid)
    PROVE  UNCHANGED <<LessonStage, Place>>
<1>1. sessions \in [SessionIds -> SessionType]
    BY DEF IInv, TypeOK
<1>2. PICK d \in Lessons : sessions' = [sessions EXCEPT ![sid].endsAt = sessions[sid].endsAt + d]
    BY DEF Extend
<1>3. \A o \in SessionIds : /\ sessions'[o].class = sessions[o].class
                            /\ sessions'[o].endedAt = sessions[o].endedAt
    BY <1>1, <1>2 DEF SessionType
<1>4. parts' = parts
    BY DEF Extend
<1>5. QED BY <1>3, <1>4, NoOneMoves DEF LessonStage, Open, Started

(* Time moves no one. *)
LEMMA TickStutters ==
    ASSUME IInv, Tick
    PROVE  UNCHANGED <<LessonStage, Place>>
<1>1. parts \in [Students -> [SessionIds -> PartType]]
    BY DEF IInv, TypeOK
<1>2. \A st \in Students, sid \in SessionIds :
          Live(parts'[st][sid]) <=> Live(parts[st][sid])
    BY <1>1 DEF Tick, PartType, Live
<1>3. QED BY <1>2, NoOneMoves DEF Tick, LessonStage, Open, Started

-----------------------------------------------------------------------------
(* The theorem. *)

LEMMA InitAttends ==
    ASSUME Init
    PROVE  A!Init
<1>1. LessonStage = [sid \in SessionIds |-> "ahead"]
    BY DEF Init, LessonStage, Started, NotStarted
<1>2. Place = [st \in Students |-> NoSession]
    BY DEF Init, Place, Live, NoRow
<1>3. QED BY <1>1, <1>2 DEF A!Init

LEMMA NextAttends ==
    ASSUME IInv, IInv', [Next]_vars
    PROVE  [A!Next]_(A!vars)
<1>1. CASE UNCHANGED vars
    BY <1>1, NoOneMoves DEF vars, A!vars, LessonStage, Open, Started
<1>2. CASE \E st \in Students : Phone(st) \/ Request(st) \/ Enrollment(st)
    BY <1>2, StudentMoves
<1>3. CASE Lesson
    <2>1. ASSUME NEW sid \in SessionIds, End(sid)
          PROVE  A!Next
        <3>1. PICK t \in Clocks : EndHeld(sid, t, "session_ended")
            BY <2>1 DEF End
        <3>2. t \in Nat /\ "session_ended" \in Endings /\ Open(sid)
            BY <2>1, ClocksType DEF IInv, End, Endings
        <3>3. QED BY <3>1, <3>2, EndHeldCloses
    <2>2. ASSUME NEW sid \in SessionIds, Sweep(sid)
          PROVE  A!Next
        <3>1. PICK t \in Clocks : IsDue(sid, t) /\ EndHeld(sid, t, "session_expired")
            BY <2>2 DEF Sweep
        <3>2. t \in Nat /\ "session_expired" \in Endings /\ Open(sid)
            BY <3>1, ClocksType DEF IInv, IsDue, Endings
        <3>3. QED BY <3>1, <3>2, EndHeldCloses
    <2>3. QED BY <1>3, <2>1, <2>2, StartBegins, ExtendStutters DEF Lesson, A!vars
<1>4. CASE Tick
    BY <1>4, TickStutters DEF A!vars
<1>5. QED BY <1>1, <1>2, <1>3, <1>4 DEF Next

(* The engine does no more to attendance than Attendance.tla allows: every    *)
(* transaction, with all its rows, is one step of one student, the end of one *)
(* lesson, the start of one, or nothing (startSession, tapIn, endHeldSession, *)
(* endLiveEnrollment).                                                        *)
THEOREM EngineAttends == Spec => Attends
<1>1. Init => A!Init
    BY InitAttends
<1>2. IInv /\ IInv' /\ [Next]_vars => [A!Next]_(A!vars)
    BY NextAttends
<1>3. QED BY <1>1, <1>2, Invariance, PTL DEF Spec, Attends, A!Spec
=============================================================================
