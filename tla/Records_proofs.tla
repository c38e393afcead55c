--------------------------- MODULE Records_proofs ---------------------------
(***************************************************************************)
(* What the engine keeps of a phone's records, for every value of the      *)
(* constants: each is recorded once, a student has one tap waiting per     *)
(* teacher, and a deleted account leaves nothing of its own.  Every        *)
(* transaction of one student's writes at most one row that names a        *)
(* record, and only of a record not recorded yet (FilesOnce).              *)
(***************************************************************************)
EXTENDS Engine_proofs

(* Rows that name no record, and no order of a deleted account's phone. *)
ServersOnly(st, rows) ==
    \A e \in rows : e.id = 0 /\ (st \in deleted => e.order = NoOrder)

(* At most one of the rows names a record, and one not recorded yet. *)
RowsOnce(st, rows) ==
    /\ \A e \in rows : st \in deleted => e.order = NoOrder
    /\ \A e \in rows : e.id # 0 => Recorded(st, e.id) = {}
    /\ \A e, f \in rows : e.id # 0 /\ f.id # 0 => e = f

ArmedOnce(st, rows) ==
    /\ \A a, b \in rows :
          a.id = b.id \/ ( a.waiting /\ b.waiting
                           /\ made[st][a.id].teacher = made[st][b.id].teacher) => a = b
    /\ st \in deleted => \A a \in rows : ~a.waiting

FilesOnce(st, tx) == RowsOnce(st, tx.rows) /\ ArmedOnce(st, tx.armed)

(* The invariant, inductive together with IInv: a deleted student's stints    *)
(* are over because their enrollments are.                                    *)
Filing == RecordedOnce /\ WaitingOnce /\ DeletedLeavesNothing

-----------------------------------------------------------------------------
(* Rows. *)

LEMMA PhoneRowKeys ==
    ASSUME NEW st, NEW n, NEW type, NEW sid, NEW at, NEW note
    PROVE  /\ PhoneRow(st, n, type, sid, at, note).id = n
           /\ st \in deleted => PhoneRow(st, n, type, sid, at, note).order = NoOrder
BY DEF PhoneRow, ServerRow, KeptOrder

LEMMA ServerRowKeys ==
    ASSUME NEW st, NEW place, NEW type, NEW sid, NEW at
    PROVE  /\ ServerRow(st, place, type, sid, at).id = 0
           /\ ServerRow(st, place, type, sid, at).order = NoOrder
BY DEF ServerRow

(* The row of a record not recorded yet, beside rows of the server's own. *)
LEMMA OwnRow ==
    ASSUME NEW st, NEW n, NEW type, NEW sid, NEW at, NEW note, NEW rows,
           ServersOnly(st, rows), Recorded(st, n) = {}
    PROVE  RowsOnce(st, {PhoneRow(st, n, type, sid, at, note)} \cup rows)
<1> DEFINE row == PhoneRow(st, n, type, sid, at, note)
<1>1. row.id = n /\ (st \in deleted => row.order = NoOrder)
    BY PhoneRowKeys
<1> HIDE DEF row
<1>2. QED BY <1>1 DEF ServersOnly, RowsOnce, row

LEMMA ServersOnce ==
    ASSUME NEW st, NEW rows, ServersOnly(st, rows)
    PROVE  RowsOnce(st, rows)
BY DEF ServersOnly, RowsOnce

LEMMA BackRowsServers ==
    ASSUME NEW st, NEW sid, NEW t
    PROVE  ServersOnly(st, BackRows(st, sid, t))
<1>1. ASSUME NEW e \in BackRows(st, sid, t)
      PROVE  \E at : e = ServerRow(st, 3, "came_back", sid, at)
    BY <1>1 DEF BackRows
<1>2. QED BY <1>1, ServerRowKeys DEF ServersOnly

LEMMA LeftRowsServers ==
    ASSUME NEW st, NEW ps, NEW sid, NEW at
    PROVE  ServersOnly(st, LeftRows(st, ps, sid, at))
BY DEF ServersOnly, LeftRows, ServerRow

LEMMA DroppedRowsServers ==
    ASSUME NEW st, NEW cs, NEW type, NEW t
    PROVE  ServersOnly(st, DroppedRows(st, cs, type, t))
BY DEF ServersOnly, DroppedRows, ServerRow

(* A kept unlock's row names it only as the one it was filed from. *)
LEMMA FiledServers ==
    ASSUME NEW st, NEW n, NEW sid, NEW h, NEW p
    PROVE  ServersOnly(st, Filed(st, n, sid, h, p))
<1> DEFINE row(e, at, note) ==
        [ServerRow(st, 3 + e.tx, "unlock", sid, at) EXCEPT
            !.order = KeptOrder(st, e.order), !.claim = n, !.from = e.id, !.note = note]
<1>1. ASSUME NEW e, NEW at, NEW note
      PROVE  row(e, at, note).id = 0 /\ (st \in deleted => row(e, at, note).order = NoOrder)
    BY DEF ServerRow, KeptOrder
<1>2. ASSUME NEW f \in Filed(st, n, sid, h, p)
      PROVE  f.id = 0 /\ (st \in deleted => f.order = NoOrder)
    <2>1. PICK e \in Kept(st, n) :
              LET at == Clamp(made[st][e.id].at, sessions[sid])
              IN f = row(e, at, UnlockNote(h, p, sid, at, e.order))
        BY DEF Filed
    <2>2. QED BY <1>1, <2>1
<1>3. QED BY <1>2 DEF ServersOnly

(* Rows that file once, added to a log that does. *)
LEMMA AddedOnce ==
    ASSUME NEW st, NEW rows, RowsOnce(st, rows),
           \A e, f \in log[st] : e.id # 0 /\ e.id = f.id => e = f
    PROVE  \A e, f \in log[st] \cup rows : e.id # 0 /\ e.id = f.id => e = f
BY DEF RowsOnce, Recorded

-----------------------------------------------------------------------------
(* Transactions. *)

LEMMA StandingArmed ==
    ASSUME Filing, NEW st \in Students
    PROVE  ArmedOnce(st, armed[st])
BY DEF Filing, WaitingOnce, DeletedLeavesNothing, ArmedOnce

(* A transaction that writes these rows and leaves what waits. *)
LEMMA WritesOnce ==
    ASSUME Filing, NEW st \in Students, NEW rows, RowsOnce(st, rows),
           NEW tx, tx.rows = rows, tx.armed = armed[st]
    PROVE  FilesOnce(st, tx)
BY StandingArmed DEF FilesOnce

LEMMA NoChangeFiles ==
    ASSUME Filing, NEW st \in Students, NEW answer, NEW code
    PROVE  /\ FilesOnce(st, NoChange(st, answer))
           /\ FilesOnce(st, Refuse(st, code))
           /\ FilesOnce(st, Replay(st))
<1>1. RowsOnce(st, {})
    BY DEF RowsOnce
<1>2. ASSUME NEW any
      PROVE  FilesOnce(st, NoChange(st, any))
    BY <1>1, WritesOnce DEF NoChange
<1>3. QED BY <1>2 DEF Refuse, Replay

LEMMA OrphanFiles ==
    ASSUME Filing, NEW st \in Students, NEW n, NEW note
    PROVE  FilesOnce(st, Orphan(st, n, note))
<1> DEFINE row == PhoneRow(st, n, "unlock", NoSession, now, note)
           tx == [NoChange(st, Answer("recorded", NoSession, "none")) EXCEPT !.rows = {row}]
<1>1. ASSUME Recorded(st, n) = {}
      PROVE  FilesOnce(st, tx)
    <2>1. RowsOnce(st, {row} \cup {})
        BY <1>1, OwnRow DEF ServersOnly
    <2>2. tx.rows = {row} /\ tx.armed = armed[st]
        BY DEF NoChange
    <2> HIDE DEF row, tx
    <2>3. RowsOnce(st, {row})
        BY <2>1
    <2>4. QED BY <2>2, <2>3, WritesOnce
<1>2. QED BY <1>1, NoChangeFiles DEF Orphan

LEMMA UnlockInFiles ==
    ASSUME Filing, NEW st \in Students, NEW n, NEW sid, NEW t
    PROVE  FilesOnce(st, UnlockIn(st, n, sid, t))
<1>1. ASSUME NEW at, NEW note, NEW qs, NEW answer, Recorded(st, n) = {}
      PROVE  FilesOnce(st, [rows |-> {PhoneRow(st, n, "unlock", sid, at, note)}
                                     \cup BackRows(st, sid, t),
                            parts |-> qs, armed |-> armed[st], answer |-> answer])
    <2>1. RowsOnce(st, {PhoneRow(st, n, "unlock", sid, at, note)} \cup BackRows(st, sid, t))
        BY <1>1, OwnRow, BackRowsServers
    <2>2. QED BY <2>1, WritesOnce
<1>2. QED BY <1>1, OrphanFiles, NoChangeFiles DEF UnlockIn

LEMMA UnlockFiles ==
    ASSUME Filing, NEW st \in Students, NEW n, NEW t
    PROVE  FilesOnce(st, Unlock(st, n, t))
BY UnlockInFiles, OrphanFiles DEF Unlock, UnlockUnderTap

(* A tap that lands writes its own row, once, however many it files with it. *)
LEMMA TapInFiles ==
    ASSUME Filing, NEW st \in Students, NEW n, NEW sid, NEW t
    PROVE  FilesOnce(st, TapIn(st, n, sid, t))
<1>1. FilesOnce(st, ReplayTap(st, n, t))
    BY NoChangeFiles DEF ReplayTap
<1>2. ASSUME Recorded(st, n) = {}
      PROVE  FilesOnce(st, LandTap(st, n, sid, t))
    <2> DEFINE at == Clamp(made[st][n].at, sessions[sid])
               late == \/ MadeSince(log[st], sid, sessions[sid], Order(st, n), "unlock")
                       \/ TappedSince(log[st], Order(st, n), sid)
               tap == PhoneRow(st, n, "tap_in", sid, at, IF late THEN "superseded" ELSE "none")
               ps == IF late THEN [parts[st] EXCEPT ![sid] = Heard(@)]
                     ELSE JoinedOnly(parts[st], sid)
               filed == Filed(st, n, sid, log[st] \cup {tap}, ps[sid])
               left == IF late THEN {} ELSE LeftRows(st, parts[st], sid, at)
               others == filed \cup BackRows(st, sid, t) \cup left
    <2>1. ServersOnly(st, filed) /\ ServersOnly(st, BackRows(st, sid, t))
          /\ ServersOnly(st, left)
        BY FiledServers, BackRowsServers, LeftRowsServers DEF ServersOnly
    <2>2. ServersOnly(st, others)
        <3> HIDE DEF filed, left
        <3>1. QED BY <2>1 DEF ServersOnly
    <2>3. RowsOnce(st, {tap} \cup others)
        <3> HIDE DEF others
        <3>1. QED BY <1>2, <2>2, OwnRow
    <2>4. LandTap(st, n, sid, t).rows = {tap} \cup others
          /\ LandTap(st, n, sid, t).armed = armed[st]
        BY DEF LandTap
    <2> HIDE DEF tap, others
    <2>5. QED BY <2>3, <2>4, WritesOnce
<1>3. QED BY <1>1, <1>2, NoChangeFiles DEF TapIn

(* A tap armed takes the place of the taps that waited for its teacher. *)
LEMMA ArmTapFiles ==
    ASSUME Filing, NEW st \in Students, NEW n, NEW t
    PROVE  FilesOnce(st, ArmTap(st, n, t))
<1> DEFINE standing == Waiting(st, made[st][n].teacher)
           row == [id |-> n, expires |-> EndOfDay(t), waiting |-> TRUE]
           gone == [row EXCEPT !.waiting = FALSE]
           settled(outcome, rows) ==
               [NoChange(st, Answer(outcome, NoSession, "none")) EXCEPT !.armed = rows]
<1>1. ASSUME NEW outcome, NEW rows, ArmedOnce(st, rows)
      PROVE  FilesOnce(st, settled(outcome, rows))
    BY <1>1 DEF FilesOnce, RowsOnce, NoChange
<1>2. ArmedOnce(st, armed[st])
    BY StandingArmed
<1>3. ASSUME \A a \in armed[st] : a.id # n, st \notin deleted
      PROVE  /\ ArmedOnce(st, armed[st] \cup {gone})
             /\ ArmedOnce(st, (armed[st] \ standing) \cup {row})
    <2>1. row.id = n /\ gone.id = n /\ ~gone.waiting
        OBVIOUS
    <2>2. \A a \in armed[st] \ standing :
              a.waiting => made[st][a.id].teacher # made[st][n].teacher
        BY DEF Waiting
    <2> HIDE DEF row, gone, standing
    <2>3. ArmedOnce(st, armed[st] \cup {gone})
        BY <1>2, <1>3, <2>1 DEF ArmedOnce
    <2>4. ArmedOnce(st, (armed[st] \ standing) \cup {row})
        BY <1>2, <1>3, <2>1, <2>2 DEF ArmedOnce
    <2>5. QED BY <2>3, <2>4
<1>4. QED BY <1>1, <1>2, <1>3, NoChangeFiles DEF ArmTap

LEMMA ChangeStateFiles ==
    ASSUME Filing, NEW st \in Students, NEW n, NEW t
    PROVE  FilesOnce(st, ChangeState(st, n, t))
<1> DEFINE sid == made[st][n].session
           type == made[st][n].kind
<1>1. ASSUME Recorded(st, n) = {}
      PROVE  FilesOnce(st, ApplyChange(st, n, sid, type, t))
    <2> DEFINE late == IsLate(st, n, sid, type)
               row == PhoneRow(st, n, type, sid, Clamp(made[st][n].at, sessions[sid]),
                               IF late THEN "superseded" ELSE "none")
    <2>1. RowsOnce(st, {row} \cup BackRows(st, sid, t))
        BY <1>1, OwnRow, BackRowsServers
    <2>2. ApplyChange(st, n, sid, type, t).rows = {row} \cup BackRows(st, sid, t)
          /\ ApplyChange(st, n, sid, type, t).armed = armed[st]
        BY DEF ApplyChange
    <2> HIDE DEF row
    <2>3. QED BY <2>1, <2>2, WritesOnce
<1>2. FilesOnce(st, OffAfterEnd(st, n, sid))
    <2> DEFINE row == PhoneRow(st, n, "protection_off", sid,
                               Clamp(made[st][n].at, sessions[sid]), "after_session_end")
               tx == [NoChange(st, Answer("recorded", NoSession, "none")) EXCEPT
                         !.rows = {row}]
    <2>1. ASSUME Recorded(st, n) = {}
          PROVE  FilesOnce(st, tx)
        <3>1. RowsOnce(st, {row} \cup {})
            BY <2>1, OwnRow DEF ServersOnly
        <3>2. tx.rows = {row} /\ tx.armed = armed[st]
            BY DEF NoChange
        <3> HIDE DEF row, tx
        <3>3. RowsOnce(st, {row})
            BY <3>1
        <3>4. QED BY <3>2, <3>3, WritesOnce
    <2>2. QED BY <2>1, NoChangeFiles DEF OffAfterEnd
<1>3. FilesOnce(st, ReplayChange(st, type, sid))
    BY NoChangeFiles DEF ReplayChange
<1>4. QED BY <1>1, <1>2, <1>3, NoChangeFiles DEF ChangeState

LEMMA ChangeReasonFiles ==
    ASSUME Filing, NEW st \in Students, NEW n, NEW t
    PROVE  FilesOnce(st, ChangeReason(st, n, t))
<1> DEFINE unlock == {e \in log[st] : /\ e.id = made[st][n].claim /\ e.type = "unlock"
                                      /\ e.session # NoSession}
           sid == (CHOOSE e \in unlock : TRUE).session
           base == PhoneRow(st, n, "unlock_reason_changed", sid, t, "none")
           row == [base EXCEPT !.order = NoOrder]
           tx == [NoChange(st, Answer("applied", NoSession, "none")) EXCEPT !.rows = {row}]
<1>1. ASSUME Recorded(st, n) = {}
      PROVE  FilesOnce(st, tx)
    <2>1. row.id = n /\ row.order = NoOrder
        BY DEF PhoneRow, ServerRow
    <2>2. tx.rows = {row} /\ tx.armed = armed[st]
        BY DEF NoChange
    <2> HIDE DEF row, tx
    <2>3. RowsOnce(st, {row})
        BY <1>1, <2>1 DEF RowsOnce
    <2>4. QED BY <2>2, <2>3, WritesOnce
<1>2. QED BY <1>1, NoChangeFiles DEF ChangeReason

LEMMA HandleFiles ==
    ASSUME Filing, NEW st \in Students, NEW n, NEW t
    PROVE  FilesOnce(st, Handle(st, n, t))
BY UnlockFiles, ChangeReasonFiles, ChangeStateFiles DEF Handle

(* The sweep's silence and a contact's return write no record's row. *)
LEMMA ContactFiles ==
    ASSUME Filing, NEW st \in Students, NEW sid, NEW t
    PROVE  FilesOnce(st, SilentTx(st, sid)) /\ FilesOnce(st, CheckInTx(st, sid, t))
<1> DEFINE row == ServerRow(st, 2, "went_silent", sid, Clamp(now, sessions[sid]))
<1>1. SilentTx(st, sid).rows = {row} /\ SilentTx(st, sid).armed = armed[st]
    BY DEF SilentTx, NoChange
<1>2. CheckInTx(st, sid, t).rows = BackRows(st, sid, t)
      /\ CheckInTx(st, sid, t).armed = armed[st]
    BY DEF CheckInTx, NoChange
<1>3. RowsOnce(st, {row})
    BY DEF RowsOnce, ServerRow
<1>4. RowsOnce(st, BackRows(st, sid, t))
    BY BackRowsServers, ServersOnce
<1> HIDE DEF row
<1>5. QED BY <1>1, <1>2, <1>3, <1>4, WritesOnce

-----------------------------------------------------------------------------
(* Steps. *)

(* What a step must keep of one student's rows and waiting taps. *)
FilesKept(st) ==
    /\ \A e, f \in log[st] : e.id # 0 /\ e.id = f.id => e = f
    /\ ArmedOnce(st, armed[st])
    /\ st \in deleted => /\ \A e \in log[st] : e.order = NoOrder
                         /\ \A c \in Classes : <<st, c>> \notin enrolled

(* The invariant is that of every student, and that the deleted are live      *)
(* nowhere, since they are in no class.                                       *)
LEMMA FilingIs ==
    ASSUME IInv
    PROVE  Filing <=> \A st \in Students : FilesKept(st)
<1>1. \A st \in Students, sid \in SessionIds : Live(parts[st][sid]) =>
          \E c \in Classes : <<st, c>> \in enrolled
    <2>1. \A st \in Students, sid \in SessionIds : IsIn(st, sid) => sessions[sid].class \in Classes
        BY DEF IInv, TypeOK, IsIn
    <2>2. QED BY <2>1 DEF IInv, LiveIsEnrolled, IsIn
<1>2. deleted \subseteq Students
    BY DEF IInv, TypeOK
<1>3. QED BY <1>1, <1>2 DEF Filing, FilesKept, RecordedOnce, WaitingOnce,
                            DeletedLeavesNothing, ArmedOnce

LEMMA FilingIsNext ==
    ASSUME IInv', \A st \in Students : FilesKept(st)'
    PROVE  Filing'
<1>1. \A st \in Students, sid \in SessionIds : Live(parts[st][sid])' =>
          \E c \in Classes : <<st, c>> \in enrolled'
    <2>1. \A st \in Students, sid \in SessionIds : IsIn(st, sid)' => sessions'[sid].class \in Classes
        BY DEF IInv, TypeOK, IsIn
    <2>2. QED BY <2>1 DEF IInv, LiveIsEnrolled, IsIn
<1>2. deleted' \subseteq Students
    BY DEF IInv, TypeOK
<1>3. QED BY <1>1, <1>2 DEF Filing, FilesKept, RecordedOnce, WaitingOnce,
                            DeletedLeavesNothing, ArmedOnce

(* A student whose rows, waiting taps, classes and account a step leaves. *)
LEMMA Untouched ==
    ASSUME TypeOK, NEW st \in Students, FilesKept(st),
           log'[st] = log[st], armed'[st] = armed[st],
           st \in deleted' => st \in deleted,
           \A c \in Classes : <<st, c>> \in enrolled' => <<st, c>> \in enrolled,
           \A n \in DOMAIN made[st] : made'[st][n].teacher = made[st][n].teacher
    PROVE  FilesKept(st)'
<1>1. \A a \in armed[st] : a.id \in DOMAIN made[st]
    BY DEF TypeOK, Referring
<1>2. ArmedOnce(st, armed[st])'
    BY <1>1 DEF FilesKept, ArmedOnce
<1>3. QED BY <1>2 DEF FilesKept

(* A student to whose log a step adds rows that file once. *)
LEMMA RowsAdded ==
    ASSUME NEW st \in Students, FilesKept(st), NEW rows, RowsOnce(st, rows),
           log'[st] = log[st] \cup rows, ArmedOnce(st, armed'[st]), made' = made,
           deleted' = deleted,
           st \in deleted => \A c \in Classes : <<st, c>> \notin enrolled'
    PROVE  FilesKept(st)'
<1>1. \A e, f \in log'[st] : e.id # 0 /\ e.id = f.id => e = f
    BY AddedOnce DEF FilesKept
<1>2. st \in deleted => \A e \in log'[st] : e.order = NoOrder
    BY DEF FilesKept, RowsOnce
<1>3. ArmedOnce(st, armed[st])'
    BY DEF ArmedOnce
<1>4. QED BY <1>1, <1>2, <1>3 DEF FilesKept

(* A transaction that files once, committed. *)
LEMMA CommitFiles ==
    ASSUME IInv, IInv', Filing, NEW st \in Students, NEW tx, FilesOnce(st, tx),
           Commit(st, tx), made' = made
    PROVE  Filing'
<1>1. TypeOK /\ \A s \in Students : FilesKept(s)
    BY FilingIs DEF IInv
<1>2. UNCHANGED <<sessions, enrolled, deleted>>
    BY DEF Commit
<1>3. log \in [Students -> SUBSET RowType] /\ armed \in [Students -> SUBSET ArmedType]
    BY <1>1 DEF TypeOK
<1>4. /\ log' = [log EXCEPT ![st] = log[st] \cup tx.rows]
      /\ armed' = [armed EXCEPT ![st] = tx.armed]
    BY DEF Commit
<1>5. FilesKept(st)'
    <2>1. log'[st] = log[st] \cup tx.rows /\ armed'[st] = tx.armed
        BY <1>3, <1>4
    <2>2. RowsOnce(st, tx.rows) /\ ArmedOnce(st, armed'[st])
        BY <2>1 DEF FilesOnce
    <2>3. st \in deleted => \A c \in Classes : <<st, c>> \notin enrolled'
        BY <1>1, <1>2 DEF FilesKept
    <2>4. QED BY <1>1, <1>2, <2>1, <2>2, <2>3, RowsAdded
<1>6. ASSUME NEW s \in Students, s # st
      PROVE  FilesKept(s)'
    <2>1. log'[s] = log[s] /\ armed'[s] = armed[s]
        BY <1>3, <1>4, <1>6
    <2>2. QED BY <1>1, <1>2, <2>1, Untouched
<1>7. QED BY <1>5, <1>6, FilingIsNext

(* A step that writes no row, arms nothing and enrolls no one. *)
LEMMA StillFiles ==
    ASSUME IInv, IInv', Filing, UNCHANGED <<enrolled, deleted, log, armed>>,
           \A st \in Students : \A n \in DOMAIN made[st] :
               made'[st][n].teacher = made[st][n].teacher
    PROVE  Filing'
<1>1. TypeOK /\ \A st \in Students : FilesKept(st)
    BY FilingIs DEF IInv
<1>2. \A st \in Students : FilesKept(st)'
    BY <1>1, Untouched
<1>3. QED BY <1>2, FilingIsNext

(* What a phone made stays as it made it. *)
LEMMA MakeFiles ==
    ASSUME IInv, IInv', Filing, NEW st \in Students, NEW record, Make(st, record)
    PROVE  Filing'
<1>1. PICK new : made' = [made EXCEPT ![st] = Append(made[st], new)]
    BY DEF Make
<1>2. made \in [Students -> Seq(MadeType)]
    BY DEF IInv, TypeOK
<1>3. made' \in [Students -> Seq(MadeType)]
    BY DEF IInv, TypeOK
<1>4. ASSUME NEW s \in Students, NEW n \in DOMAIN made[s]
      PROVE  made'[s][n] = made[s][n]
    <2>1. CASE s = st
        <3>1. made'[s] = Append(made[s], new) /\ made[s] \in Seq(MadeType)
            BY <1>1, <1>2, <2>1
        <3>2. QED BY <3>1
    <2>2. CASE s # st
        BY <1>1, <1>2, <2>2
    <2>3. QED BY <2>1, <2>2
<1>5. UNCHANGED <<enrolled, deleted, log, armed>>
    BY DEF Make, server
<1>6. QED BY <1>4, <1>5, StillFiles

LEMMA PhoneFiles ==
    ASSUME IInv, IInv', Filing, NEW st \in Students, Phone(st)
    PROVE  Filing'
<1>1. CASE Reinstall(st)
    BY <1>1, StillFiles DEF Reinstall, server
<1>2. CASE \E record : Make(st, record)
    BY <1>2, MakeFiles
<1>3. Reinstall(st) \/ \E record : Make(st, record)
    BY DEF Phone, MakeTap, MakeUnlock, MakeTapUnlock, MakeChange, MakeReason
<1>4. QED BY <1>1, <1>2, <1>3

LEMMA RequestFiles ==
    ASSUME IInv, IInv', Filing, NEW st \in Students, Request(st)
    PROVE  Filing'
<1>1. ASSUME NEW n \in DOMAIN made[st], Reach(st, n)
      PROVE  Filing'
    <2>1. PICK t \in Clocks : Commit(st, Handle(st, n, t))
        BY <1>1 DEF Reach
    <2>2. QED BY <1>1, <2>1, HandleFiles, CommitFiles DEF Reach, phones
<1>2. CASE TapRereads(st) \/ \E n \in DOMAIN made[st] : AskTap(st, n)
    BY <1>2, StillFiles DEF TapRereads, AskTap, server, phones
<1>3. CASE TapLands(st)
    BY <1>3, TapInFiles, CommitFiles DEF TapLands, TapTx, phones
<1>4. CASE TapArms(st)
    BY <1>4, ArmTapFiles, CommitFiles DEF TapArms, phones
<1>5. ASSUME NEW sid \in SessionIds, MarkSilent(st, sid)
      PROVE  Filing'
    <2>1. Commit(st, SilentTx(st, sid)) /\ made' = made
        BY <1>5 DEF MarkSilent, SilentTx, phones
    <2>2. QED BY <2>1, ContactFiles, CommitFiles
<1>6. ASSUME NEW sid \in SessionIds, CheckIn(st, sid)
      PROVE  Filing'
    <2>1. PICK t \in Clocks : Commit(st, CheckInTx(st, sid, t))
        BY <1>6 DEF CheckIn, CheckInTx
    <2>2. made' = made
        BY <1>6 DEF CheckIn, phones
    <2>3. QED BY <2>1, <2>2, ContactFiles, CommitFiles
<1>7. QED BY <1>1, <1>2, <1>3, <1>4, <1>5, <1>6 DEF Request

(* A step of one student's enrollments, with the rows it writes. *)
LEMMA EnrollmentRowsFile ==
    ASSUME IInv, IInv', Filing, NEW st \in Students, NEW rows, RowsOnce(st, rows),
           log' = [log EXCEPT ![st] = log[st] \cup rows],
           UNCHANGED <<deleted, armed, made>>,
           \A s \in Students, c \in Classes :
               <<s, c>> \in enrolled' => <<s, c>> \in enrolled \/ (s = st /\ st \notin deleted)
    PROVE  Filing'
<1>1. TypeOK /\ \A s \in Students : FilesKept(s)
    BY FilingIs DEF IInv
<1>2. log \in [Students -> SUBSET RowType]
    BY <1>1 DEF TypeOK
<1>3. FilesKept(st)'
    <2>1. log'[st] = log[st] \cup rows /\ ArmedOnce(st, armed'[st])
        BY <1>1, <1>2 DEF FilesKept
    <2>2. st \in deleted => \A c \in Classes : <<st, c>> \notin enrolled'
        BY <1>1 DEF FilesKept
    <2>3. QED BY <1>1, <2>1, <2>2, RowsAdded
<1>4. ASSUME NEW s \in Students, s # st
      PROVE  FilesKept(s)'
    <2>1. log'[s] = log[s]
        BY <1>2, <1>4
    <2>2. QED BY <1>1, <1>4, <2>1, Untouched
<1>5. QED BY <1>3, <1>4, FilingIsNext

(* A deleted account: its rows lose their order, its taps wait no more. *)
LEMMA DeleteAccountFiles ==
    ASSUME IInv, IInv', Filing, NEW st \in Students, DeleteAccount(st)
    PROVE  Filing'
<1> DEFINE cs == {c \in Classes : <<st, c>> \in enrolled}
           bare(e) == [e EXCEPT !.order = NoOrder]
           kept == {bare(e) : e \in log[st]}
           rows(t) == DroppedRows(st, cs, "enrollment_left", t)
                      \cup {ServerRow(st, 3, "account_deleted", NoSession, t)}
           off(a) == [a EXCEPT !.waiting = FALSE]
           settled == {off(a) : a \in armed[st]}
<1>1. TypeOK /\ \A s \in Students : FilesKept(s)
    BY FilingIs DEF IInv
<1>2. PICK t \in Clocks :
          /\ enrolled' = enrolled \ ({st} \X Classes)
          /\ log' = [log EXCEPT ![st] = kept \cup rows(t)]
    BY DEF DeleteAccount
<1>3. /\ armed' = [armed EXCEPT ![st] = settled]
      /\ deleted' = deleted \cup {st} /\ made' = made
    BY DEF DeleteAccount, phones
<1>4. log \in [Students -> SUBSET RowType] /\ armed \in [Students -> SUBSET ArmedType]
    BY <1>1 DEF TypeOK
<1>5. \A e \in rows(t) : e.id = 0 /\ e.order = NoOrder
    <2>1. \A e \in DroppedRows(st, cs, "enrollment_left", t) :
              \E sid, at : e = ServerRow(st, 2, "enrollment_left", sid, at)
        BY DEF DroppedRows
    <2>2. QED BY <2>1, ServerRowKeys
<1>6. \A e \in log[st] : bare(e).id = e.id /\ bare(e).order = NoOrder
    BY <1>4 DEF RowType
<1>7. /\ \A e, f \in kept : e.id # 0 /\ e.id = f.id => e = f
      /\ \A e \in kept : e.order = NoOrder
    <2>1. \A e, f \in log[st] : e.id # 0 /\ e.id = f.id => e = f
        BY <1>1 DEF FilesKept
    <2> HIDE DEF bare
    <2>2. \A k \in kept : \E e \in log[st] : k = bare(e)
        OBVIOUS
    <2> HIDE DEF kept
    <2>3. QED BY <1>6, <2>1, <2>2
<1>8. /\ \A a, b \in settled : a.id = b.id => a = b
      /\ \A a \in settled : ~a.waiting
    <2>1. \A a \in armed[st] : off(a).id = a.id /\ ~off(a).waiting
        BY <1>4 DEF ArmedType
    <2>2. \A a, b \in armed[st] : a.id = b.id => a = b
        BY <1>1 DEF FilesKept, ArmedOnce
    <2> HIDE DEF off
    <2>3. \A k \in settled : \E a \in armed[st] : k = off(a)
        OBVIOUS
    <2> HIDE DEF settled
    <2>4. QED BY <2>1, <2>2, <2>3
<1> HIDE DEF kept, rows, settled
<1>9. FilesKept(st)'
    <2>1. log'[st] = kept \cup rows(t) /\ armed'[st] = settled
        BY <1>2, <1>3, <1>4
    <2>2. \A c \in Classes : <<st, c>> \notin enrolled'
        BY <1>2
    <2>3. ArmedOnce(st, armed[st])'
        BY <1>8, <2>1 DEF ArmedOnce
    <2>4. QED BY <1>5, <1>7, <2>1, <2>2, <2>3 DEF FilesKept
<1>10. ASSUME NEW s \in Students, s # st
       PROVE  FilesKept(s)'
    <2>1. log'[s] = log[s] /\ armed'[s] = armed[s]
        BY <1>2, <1>3, <1>4, <1>10
    <2>2. QED BY <1>1, <1>2, <1>3, <1>10, <2>1, Untouched
<1>11. QED BY <1>9, <1>10, FilingIsNext

LEMMA EnrollmentFiles ==
    ASSUME IInv, IInv', Filing, NEW st \in Students, Enrollment(st)
    PROVE  Filing'
<1>1. ASSUME NEW c \in Classes, JoinClass(st, c)
      PROVE  Filing'
    <2> DEFINE row == ServerRow(st, 1, "enrollment_joined", NoSession, now)
    <2>1. /\ log' = [log EXCEPT ![st] = log[st] \cup {row}]
          /\ enrolled' = enrolled \cup {<<st, c>>} /\ st \notin deleted
          /\ UNCHANGED <<deleted, armed, made>>
        BY <1>1 DEF JoinClass, phones
    <2>2. RowsOnce(st, {row})
        BY DEF RowsOnce, ServerRow
    <2> HIDE DEF row
    <2>3. QED BY <2>1, <2>2, EnrollmentRowsFile
<1>2. ASSUME NEW c \in Classes, NEW t, NEW type, NEW reason,
             EndEnrollment(st, c, t, type, reason)
      PROVE  Filing'
    <2>1. RowsOnce(st, DroppedRows(st, {c}, type, t))
        BY DroppedRowsServers, ServersOnce
    <2>2. /\ log' = [log EXCEPT ![st] = log[st] \cup DroppedRows(st, {c}, type, t)]
          /\ enrolled' = enrolled \ {<<st, c>>}
          /\ UNCHANGED <<deleted, armed, made>>
        BY <1>2 DEF EndEnrollment, phones
    <2>3. QED BY <2>1, <2>2, EnrollmentRowsFile
<1>3. QED BY <1>1, <1>2, DeleteAccountFiles DEF Enrollment, LeaveClass, RemoveFromClass

-----------------------------------------------------------------------------
(* A Start, and the theorems. *)

(* A waiting tap that becomes a stint is recorded once, and waits no more. *)
LEMMA ConvertedFiles ==
    ASSUME TypeOK, Filing, NEW st \in Students, NEW sid, NEW s, NEW ps, NEW t,
           s.class \in Classes
    PROVE  LET tx == Converted(st, sid, s, ps, t)
           IN RowsOnce(st, tx.rows) /\ ArmedOnce(st, tx.armed)
<1> DEFINE waiting == {a \in Waiting(st, TeacherOf[s.class]) : a.expires > t}
           a == CHOOSE b \in waiting : TRUE
           at == Clamp(made[st][a.id].at, s)
           late == TappedSince(log[st], Order(st, a.id), sid)
           note == IF late THEN "superseded" ELSE "none"
           tap == PhoneRow(st, a.id, "tap_in", sid, at, note)
           base == ServerRow(st, 2, "armed_tap_skipped", sid, s.startedAt)
           skip == [base EXCEPT !.claim = a.id]
           spent == Recorded(st, a.id) # {}
           rows == IF spent THEN {skip}
                   ELSE IF late THEN {tap} ELSE {tap} \cup LeftRows(st, ps, sid, at)
           gone == [a EXCEPT !.waiting = FALSE]
           kept == (armed[st] \ {a}) \cup {gone}
           tx == Converted(st, sid, s, ps, t)
<1>1. ArmedOnce(st, armed[st])
    BY StandingArmed
<1>2. CASE waiting = {} \/ <<st, s.class>> \notin enrolled
    <2>1. tx.rows = {} /\ tx.armed = armed[st]
        BY <1>2 DEF Converted
    <2> HIDE DEF tx
    <2>2. QED BY <1>1, <2>1 DEF RowsOnce, tx
<1>3. CASE waiting # {} /\ <<st, s.class>> \in enrolled
    <2>1. st \notin deleted
        BY <1>3 DEF Filing, DeletedLeavesNothing
    <2>2. a \in armed[st] /\ a \in ArmedType
        BY <1>3 DEF Waiting, TypeOK
    <2>3. gone.id = a.id /\ ~gone.waiting
        BY <2>2 DEF ArmedType
    <2>4. ArmedOnce(st, kept)
        <3> HIDE DEF a, gone
        <3>1. QED BY <1>1, <2>1, <2>2, <2>3 DEF ArmedOnce
    <2>5. RowsOnce(st, rows)
        <3>1. skip.id = 0 /\ (st \in deleted => skip.order = NoOrder)
            BY DEF ServerRow
        <3>2. RowsOnce(st, {skip})
            <4> HIDE DEF skip
            <4>1. QED BY <3>1 DEF RowsOnce
        <3>3. ASSUME ~spent
              PROVE  RowsOnce(st, {tap} \cup LeftRows(st, ps, sid, at))
                     /\ RowsOnce(st, {tap} \cup {})
            <4>1. ServersOnly(st, {})
                BY DEF ServersOnly
            <4> HIDE DEF a, at, note
            <4>2. QED BY <3>3, <4>1, OwnRow, LeftRowsServers
        <3>4. {tap} \cup {} = {tap}
            OBVIOUS
        <3> HIDE DEF skip, tap
        <3>5. QED BY <3>2, <3>3, <3>4
    <2>6. tx.rows = rows /\ tx.armed = kept
        BY <1>3 DEF Converted
    <2> HIDE DEF rows, kept, tx
    <2>7. QED BY <2>4, <2>5, <2>6 DEF tx
<1>4. QED BY <1>2, <1>3

LEMMA StartFiles ==
    ASSUME IInv, IInv', Filing, NEW c \in Classes, Start(c)
    PROVE  Filing'
<1>1. TypeOK /\ \A st \in Students : FilesKept(st)
    BY FilingIs DEF IInv
<1>2. PICK d \in Lessons, t \in Clocks, sid \in SessionIds : StartSession(c, sid, t, d)
    BY DEF Start
<1> DEFINE s == [class |-> c, startedAt |-> t, endsAt |-> t + d, endedAt |-> Never]
           base == EndedParts(PastBell(c), "session_expired")
           tx(st) == Converted(st, sid, s, base[st], t)
<1>3. /\ armed' = [st \in Students |-> tx(st).armed]
      /\ log' = [st \in Students |-> log[st] \cup tx(st).rows]
      /\ UNCHANGED <<enrolled, deleted, made>>
    BY <1>2 DEF StartSession, phones
<1>4. ASSUME NEW st \in Students
      PROVE  RowsOnce(st, tx(st).rows) /\ ArmedOnce(st, tx(st).armed)
    <2>1. s.class \in Classes
        OBVIOUS
    <2> HIDE DEF s, base
    <2>2. QED BY <1>1, <2>1, ConvertedFiles
<1> HIDE DEF tx
<1>5. ASSUME NEW st \in Students
      PROVE  FilesKept(st)'
    <2>1. log'[st] = log[st] \cup tx(st).rows /\ armed'[st] = tx(st).armed
        BY <1>3
    <2>2. st \in deleted => \A e \in Classes : <<st, e>> \notin enrolled'
        BY <1>1, <1>3 DEF FilesKept
    <2>3. QED BY <1>1, <1>3, <1>4, <2>1, <2>2, RowsAdded
<1>6. QED BY <1>5, FilingIsNext

LEMMA NextFiles ==
    ASSUME IInv, IInv', Filing, [Next]_vars
    PROVE  Filing'
<1>1. CASE UNCHANGED vars \/ Tick
    BY <1>1, StillFiles DEF vars, Tick, phones
<1>2. ASSUME NEW sid \in SessionIds, Extend(sid) \/ End(sid) \/ Sweep(sid)
      PROVE  Filing'
    BY <1>2, StillFiles DEF Extend, End, Sweep, EndHeld, phones
<1>3. CASE Lesson
    BY <1>2, <1>3, StartFiles DEF Lesson
<1>4. QED BY <1>1, <1>3, PhoneFiles, RequestFiles, EnrollmentFiles DEF Next

LEMMA InitFiling ==
    ASSUME Init
    PROVE  Filing
BY DEF Init, Filing, RecordedOnce, WaitingOnce, DeletedLeavesNothing

LEMMA FilingHolds == Spec => []Filing
<1>1. Init => Filing
    BY InitFiling
<1>2. IInv /\ IInv' /\ Filing /\ [Next]_vars => Filing'
    BY NextFiles
<1>3. QED BY <1>1, <1>2, Invariance, PTL DEF Spec

(* However often a record is sent, and with whatever else of its phone's in   *)
(* flight, it is never recorded twice (insertEvent, armTap, tapIn).           *)
THEOREM NothingTwice == Spec => []RecordedOnce
<1>1. Filing => RecordedOnce
    BY DEF Filing
<1>2. QED BY <1>1, FilingHolds, PTL

(* No student ever has two taps waiting for one teacher (armTap, startSession). *)
THEOREM OneTapWaits == Spec => []WaitingOnce
<1>1. Filing => WaitingOnce
    BY DEF Filing
<1>2. QED BY <1>1, FilingHolds, PTL

(* A deleted account keeps no class, lesson, waiting tap or order of its      *)
(* phone's, whatever was under way (deleteAccount, keptOrder).                *)
THEOREM NothingLeft == Spec => []DeletedLeavesNothing
<1>1. Filing => DeletedLeavesNothing
    BY DEF Filing
<1>2. QED BY <1>1, FilingHolds, PTL
=============================================================================
