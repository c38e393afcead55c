--------------------------- MODULE Picture_proofs ---------------------------
(***************************************************************************)
(* That a student's stints are what the rows of their log say, for every   *)
(* value of the constants: who is in, who is unlocked, whose protection is *)
(* off and whose phone is silent.  A transaction's rows come after every   *)
(* row there is, so the newest row of a kind is one of its own if it has   *)
(* any, and else the one it was (NewestAdded); each transaction is then    *)
(* compared with the stints it leaves.                                     *)
(***************************************************************************)
EXTENDS Records_proofs, WellFoundedInduction

-----------------------------------------------------------------------------
(* What a step does to one student. *)

(* A transaction of the student's own, committed. *)
Does(st, tx) ==
    /\ log'[st] = log[st] \cup tx.rows
    /\ written'[st] = (IF tx.rows = {} THEN written[st] ELSE written[st] + 1)
    /\ parts'[st] = tx.parts
    /\ armed'[st] = tx.armed
    /\ UNCHANGED <<sessions, enrolled, deleted>>

(* The transactions there are. *)
OwnTx(st, tx) ==
    \/ \E n \in DOMAIN made[st], t \in Nat :
          made[st][n].kind # "tap" /\ Addressed(st, n) /\ tx = Handle(st, n, t)
    \/ \E n \in DOMAIN made[st], sid \in SessionIds, t \in Nat : tx = TapIn(st, n, sid, t)
    \/ \E n \in DOMAIN made[st], t \in Nat : tx = ArmTap(st, n, t)
    \/ \E sid \in SessionIds : GoesSilent(parts[st][sid]) /\ tx = SilentTx(st, sid)
    \/ \E sid \in SessionIds, t \in Nat : Live(parts[st][sid]) /\ tx = CheckInTx(st, sid, t)

(* Nothing is written of the student, who may be out of a lesson that is over. *)
Rests(st) ==
    /\ log'[st] = log[st] /\ written'[st] = written[st] /\ armed'[st] = armed[st]
    /\ (st \in deleted' <=> st \in deleted)
    /\ \A sid \in SessionIds :
          /\ parts'[st][sid].state = parts[st][sid].state
          /\ parts'[st][sid].silent = parts[st][sid].silent
          /\ Live(parts'[st][sid]) <=> Live(parts[st][sid]) /\ Open(sid)'
          /\ parts'[st][sid].ended = "no_row" <=> parts[st][sid].ended = "no_row"

(* A Start, in which a tap of the student's that waits becomes a stint. *)
NewLesson(c, t, d) == [class |-> c, startedAt |-> t, endsAt |-> t + d, endedAt |-> Never]
LeftOver(c) == EndedParts(PastBell(c), "session_expired")
Conversion(st, c, sid, t, d) == Converted(st, sid, NewLesson(c, t, d), LeftOver(c)[st], t)
Awaits(st, c, t) == {a \in Waiting(st, TeacherOf[c]) : a.expires > t}

Begins(st, c, sid, t, d) ==
    /\ ~Started(sid) /\ <<st, c>> \in enrolled /\ Awaits(st, c, t) # {}
    /\ sessions' = [EndedSessions(PastBell(c), t) EXCEPT ![sid] = NewLesson(c, t, d)]
    /\ LET tx == Conversion(st, c, sid, t, d)
       IN /\ log'[st] = log[st] \cup tx.rows
          /\ written'[st] = written[st] + 1
          /\ parts'[st] = tx.parts
          /\ armed'[st] = tx.armed
    /\ UNCHANGED <<enrolled, deleted>>

StudentStep(st) ==
    \/ Rests(st)
    \/ \E tx : OwnTx(st, tx) /\ Does(st, tx)
    \/ \E c \in Classes, sid \in SessionIds, t \in Nat, d \in Nat : Begins(st, c, sid, t, d)
    \/ \E c \in Classes : JoinClass(st, c)
    \/ \E c \in Classes, t \in Nat, reason \in Endings,
          type \in {"enrollment_left", "enrollment_removed"} :
             EndEnrollment(st, c, t, type, reason)
    \/ DeleteAccount(st)

(* A step of another's, or of no one's. *)
LEMMA StandsStill ==
    ASSUME IInv, NEW st \in Students,
           log'[st] = log[st], written'[st] = written[st], armed'[st] = armed[st],
           parts'[st] = parts[st], (st \in deleted' <=> st \in deleted),
           \A sid \in SessionIds : Open(sid) => Open(sid)'
    PROVE  Rests(st)
<1>1. \A sid \in SessionIds : Live(parts[st][sid]) => Open(sid)
    BY DEF IInv, OverLessonHasNoOne
<1>2. QED BY <1>1 DEF Rests

(* A step of one student's leaves the others as they are. *)
LEMMA OthersRest ==
    ASSUME IInv, NEW st \in Students, NEW s \in Students, s # st, Phone(s) \/ Request(s) \/ Enrollment(s)
    PROVE  Rests(st)
<1>1. sessions' = sessions
    BY StudentLeavesLessons
<1>2. \A sid \in SessionIds : Open(sid) => Open(sid)'
    BY <1>1 DEF Open, Started
<1>3. TypeOK
    BY DEF IInv
<1>4. CASE Phone(s)
    <2>1. UNCHANGED <<log, written, armed, parts, deleted>>
        BY <1>4 DEF Phone, MakeTap, MakeUnlock, MakeTapUnlock, MakeChange, MakeReason, Make,
                    Reinstall, server
    <2>2. QED BY <1>2, <2>1, StandsStill
<1>5. ASSUME NEW tx, Commit(s, tx)
      PROVE  Rests(st)
    <2>1. /\ log'[st] = log[st] /\ written'[st] = written[st] /\ armed'[st] = armed[st]
          /\ parts'[st] = parts[st] /\ deleted' = deleted
        BY <1>3, <1>5 DEF Commit, TypeOK
    <2>2. QED BY <1>2, <2>1, StandsStill
<1>6. CASE Request(s)
    <2>1. CASE \E tx : Commit(s, tx)
        BY <1>5, <2>1
    <2>2. CASE UNCHANGED server
        BY <1>2, <2>2, StandsStill DEF server
    <2>3. QED BY <1>6, <2>1, <2>2 DEF Request, Reach, AskTap, TapLands, TapRereads, TapArms,
                                      MarkSilent, CheckIn
<1>7. CASE Enrollment(s)
    <2> DEFINE same == /\ log'[st] = log[st] /\ written'[st] = written[st]
                       /\ armed'[st] = armed[st] /\ parts'[st] = parts[st]
                       /\ (st \in deleted' <=> st \in deleted)
    <2>1. ASSUME NEW c \in Classes, JoinClass(s, c)
          PROVE  same
        BY <1>3, <2>1 DEF JoinClass, TypeOK
    <2>2. ASSUME NEW c, NEW t, NEW type, NEW reason, EndEnrollment(s, c, t, type, reason)
          PROVE  same
        BY <1>3, <2>2 DEF EndEnrollment, TypeOK
    <2>3. ASSUME DeleteAccount(s)
          PROVE  same
        <3>1. PICK ps, rows, waits :
                  /\ parts' = [parts EXCEPT ![s] = ps] /\ log' = [log EXCEPT ![s] = rows]
                  /\ armed' = [armed EXCEPT ![s] = waits]
            BY <2>3 DEF DeleteAccount
        <3>2. written' = [written EXCEPT ![s] = written[s] + 1] /\ deleted' = deleted \cup {s}
            BY <2>3 DEF DeleteAccount
        <3>3. QED BY <1>3, <3>1, <3>2 DEF TypeOK
    <2> HIDE DEF same
    <2>4. same
        BY <1>7, <2>1, <2>2, <2>3 DEF Enrollment, LeaveClass, RemoveFromClass
    <2>5. QED BY <1>2, <2>4, StandsStill DEF same
<1>8. QED BY <1>4, <1>6, <1>7

(* A lesson's end, and time passing, leave a student in what is still open. *)
LEMMA LessonRests ==
    ASSUME IInv, NEW st \in Students,
           Tick \/ \E sid \in SessionIds : Extend(sid) \/ End(sid) \/ Sweep(sid)
    PROVE  Rests(st)
<1>1. TypeOK
    BY DEF IInv
<1>2. ASSUME NEW sid \in SessionIds, Extend(sid)
      PROVE  Rests(st)
    <2>1. PICK d \in Lessons :
              sessions' = [sessions EXCEPT ![sid].endsAt = sessions[sid].endsAt + d]
        BY <1>2 DEF Extend
    <2>2. \A o \in SessionIds : sessions'[o].class = sessions[o].class
                                /\ sessions'[o].endedAt = sessions[o].endedAt
        BY <1>1, <2>1 DEF TypeOK, SessionType
    <2>3. \A o \in SessionIds : Open(o) => Open(o)'
        BY <2>2 DEF Open, Started
    <2>4. UNCHANGED <<log, written, armed, parts, deleted>>
        BY <1>2 DEF Extend
    <2>5. QED BY <2>3, <2>4, StandsStill
<1>3. ASSUME NEW sid \in SessionIds, End(sid) \/ Sweep(sid)
      PROVE  Rests(st)
    <2>1. PICK t \in Clocks, reason \in Endings : EndHeld(sid, t, reason)
        BY <1>3 DEF End, Sweep, Endings
    <2>2. parts' = EndedParts({sid}, reason) /\ sessions' = EndedSessions({sid}, t)
          /\ UNCHANGED <<log, written, armed, deleted>>
        BY <2>1 DEF EndHeld
    <2>3. \A o \in SessionIds : Open(o)' <=> Open(o) /\ o # sid
        BY <1>1, <2>2, ClocksType, EndedSessionsOK DEF Open, Started
    <2>4. \A o \in SessionIds : Live(parts[st][o]) => Open(o)
        BY DEF IInv, OverLessonHasNoOne
    <2>5. ASSUME NEW o \in SessionIds
          PROVE  /\ parts'[st][o].state = parts[st][o].state
                 /\ parts'[st][o].silent = parts[st][o].silent
                 /\ Live(parts'[st][o]) <=> Live(parts[st][o]) /\ o # sid
                 /\ parts'[st][o].ended = "no_row" <=> parts[st][o].ended = "no_row"
        <3>1. parts[st][o] \in PartType /\ reason \notin {"live", "no_row"}
            BY <1>1 DEF TypeOK, Endings
        <3>2. parts'[st][o] = IF o \in {sid} /\ Live(parts[st][o])
                              THEN [parts[st][o] EXCEPT !.ended = reason] ELSE parts[st][o]
            BY <2>2 DEF EndedParts
        <3>3. QED BY <3>1, <3>2 DEF PartType, Live
    <2>6. QED BY <2>2, <2>3, <2>4, <2>5 DEF Rests
<1>4. CASE Tick
    <2>1. UNCHANGED <<sessions, log, written, armed, deleted>>
        BY <1>4 DEF Tick
    <2>2. ASSUME NEW o \in SessionIds
          PROVE  /\ parts'[st][o].state = parts[st][o].state
                 /\ parts'[st][o].silent = parts[st][o].silent
                 /\ parts'[st][o].ended = parts[st][o].ended
        <3>1. PICK q : parts'[st][o] = [parts[st][o] EXCEPT !.quiet = q]
            BY <1>4 DEF Tick
        <3>2. parts[st][o] \in PartType
            BY <1>1 DEF TypeOK
        <3>3. QED BY <3>1, <3>2 DEF PartType
    <2>3. \A o \in SessionIds : Live(parts[st][o]) => Open(o)'
        BY <2>1 DEF IInv, OverLessonHasNoOne, Open, Started
    <2>4. QED BY <2>1, <2>2, <2>3 DEF Rests, Live
<1>5. QED BY <1>2, <1>3, <1>4

LEMMA StartSteps ==
    ASSUME IInv, NEW st \in Students, NEW c \in Classes, Start(c)
    PROVE  StudentStep(st)
<1>1. TypeOK
    BY DEF IInv
<1>2. PICK d \in Lessons, t \in Clocks, sid \in SessionIds :
          ~Started(sid) /\ StartSession(c, sid, t, d)
    BY DEF Start
<1>3. t \in Nat /\ d \in Nat /\ "session_expired" \in Endings
    BY <1>1, ClocksType, TimeAssumption DEF Endings
<1> DEFINE tx == Conversion(st, c, sid, t, d)
<1>4. /\ sessions' = [EndedSessions(PastBell(c), t) EXCEPT ![sid] = NewLesson(c, t, d)]
      /\ parts'[st] = tx.parts /\ armed'[st] = tx.armed /\ log'[st] = log[st] \cup tx.rows
      /\ written'[st] = (IF tx.rows = {} THEN written[st] ELSE written[st] + 1)
      /\ UNCHANGED <<enrolled, deleted>>
    BY <1>2 DEF StartSession, Conversion, NewLesson, LeftOver
<1>5. NewLesson(c, t, d).class = c
    BY DEF NewLesson
<1>6. CASE Awaits(st, c, t) # {} /\ <<st, c>> \in enrolled
    <2>1. tx.rows # {}
        BY <1>5, <1>6 DEF Conversion, Converted, Awaits
    <2> HIDE DEF tx
    <2>2. Begins(st, c, sid, t, d)
        BY <1>2, <1>4, <1>6, <2>1 DEF Begins, tx
    <2>3. QED BY <1>3, <2>2 DEF StudentStep
<1>7. CASE Awaits(st, c, t) = {} \/ <<st, c>> \notin enrolled
    <2>1. tx = [rows |-> {}, parts |-> LeftOver(c)[st], armed |-> armed[st]]
        BY <1>5, <1>7 DEF Conversion, Converted, Awaits
    <2>2. /\ log'[st] = log[st] /\ written'[st] = written[st] /\ armed'[st] = armed[st]
          /\ parts'[st] = LeftOver(c)[st] /\ deleted' = deleted
        <3> HIDE DEF tx
        <3>1. tx.rows = {} /\ tx.parts = LeftOver(c)[st] /\ tx.armed = armed[st]
            BY <2>1
        <3>2. QED BY <1>4, <3>1
    <2>3. \A o \in SessionIds : Open(o) /\ o \notin PastBell(c) => Open(o)'
        <3>1. ASSUME NEW o \in SessionIds, Open(o), o \notin PastBell(c)
              PROVE  sessions'[o] = sessions[o]
            <4>1. o # sid
                BY <1>2, <3>1 DEF Open
            <4>2. EndedSessions(PastBell(c), t)[o] = sessions[o]
                BY <1>1, <1>3, <3>1, EndedSessionsOK
            <4>3. QED BY <1>4, <4>1, <4>2
        <3>2. QED BY <3>1 DEF Open, Started
    <2>4. \A o \in PastBell(c) : ~Open(o)'
        <3>1. ASSUME NEW o \in PastBell(c)
              PROVE  ~Open(o)'
            <4>1. o \in SessionIds /\ o # sid
                BY <1>2 DEF PastBell, Open
            <4>2. EndedSessions(PastBell(c), t) \in [SessionIds -> SessionType]
                  /\ EndedSessions(PastBell(c), t)[o].endedAt # Never
                BY <1>1, <1>3, <4>1, EndedSessionsOK
            <4>3. QED BY <1>4, <4>1, <4>2 DEF Open
        <3>2. QED BY <3>1
    <2>5. \A o \in SessionIds : Live(parts[st][o]) => Open(o)
        BY DEF IInv, OverLessonHasNoOne
    <2>6. ASSUME NEW o \in SessionIds
          PROVE  /\ parts'[st][o].state = parts[st][o].state
                 /\ parts'[st][o].silent = parts[st][o].silent
                 /\ Live(parts'[st][o]) <=> Live(parts[st][o]) /\ o \notin PastBell(c)
                 /\ parts'[st][o].ended = "no_row" <=> parts[st][o].ended = "no_row"
        <3>1. parts[st][o] \in PartType
            BY <1>1 DEF TypeOK
        <3>2. parts'[st][o] = IF o \in PastBell(c) /\ Live(parts[st][o])
                              THEN [parts[st][o] EXCEPT !.ended = "session_expired"]
                              ELSE parts[st][o]
            BY <2>2 DEF EndedParts, LeftOver
        <3>3. QED BY <3>1, <3>2 DEF PartType, Live
    <2>7. Rests(st)
        BY <2>2, <2>3, <2>4, <2>5, <2>6 DEF Rests
    <2>8. QED BY <2>7 DEF StudentStep
<1>8. QED BY <1>6, <1>7

LEMMA OwnSteps ==
    ASSUME IInv, NEW st \in Students, Phone(st) \/ Request(st) \/ Enrollment(st)
    PROVE  StudentStep(st)
<1>1. TypeOK
    BY DEF IInv
<1>2. sessions' = sessions
    BY StudentLeavesLessons
<1>3. \A sid \in SessionIds : Open(sid) => Open(sid)'
    BY <1>2 DEF Open, Started
<1>4. ASSUME UNCHANGED server
      PROVE  StudentStep(st)
    BY <1>3, <1>4, StandsStill DEF StudentStep, server
<1>5. ASSUME NEW tx, OwnTx(st, tx), Commit(st, tx)
      PROVE  StudentStep(st)
    <2>1. Does(st, tx)
        BY <1>1, <1>2, <1>5 DEF Commit, Does, TypeOK
    <2>2. QED BY <1>5, <2>1 DEF StudentStep
<1>6. CASE Phone(st)
    BY <1>4, <1>6 DEF Phone, MakeTap, MakeUnlock, MakeTapUnlock, MakeChange, MakeReason, Make,
                      Reinstall, server
<1>7. CASE Request(st)
    <2>1. ASSUME NEW n \in DOMAIN made[st], Reach(st, n)
          PROVE  StudentStep(st)
        <3>1. PICK t \in Clocks : Commit(st, Handle(st, n, t))
            BY <2>1 DEF Reach
        <3>2. OwnTx(st, Handle(st, n, t))
            BY <1>1, <2>1, ClocksType DEF Reach, OwnTx
        <3>3. QED BY <1>5, <3>1, <3>2
    <2>2. CASE TapLands(st)
        <3> DEFINE ask == asking[st]
        <3>1. ask \in AskType /\ ask.record \in DOMAIN made[st] /\ ask.target # NoSession
            BY <1>1, <2>2 DEF TapLands, TypeOK, Referring
        <3>2. ask.target \in SessionIds /\ ask.at \in Nat
            BY <3>1 DEF AskType
        <3>3. OwnTx(st, TapTx(st))
            BY <3>1, <3>2 DEF OwnTx, TapTx
        <3>4. QED BY <1>5, <2>2, <3>3 DEF TapLands
    <2>3. CASE TapArms(st)
        <3>1. asking[st].record \in DOMAIN made[st] /\ asking[st].at \in Nat
            BY <1>1, <2>3 DEF TapArms, TypeOK, Referring, AskType
        <3>2. OwnTx(st, ArmTap(st, asking[st].record, asking[st].at))
            BY <3>1 DEF OwnTx
        <3>3. QED BY <1>5, <2>3, <3>2 DEF TapArms
    <2>4. ASSUME NEW sid \in SessionIds, MarkSilent(st, sid)
          PROVE  StudentStep(st)
        <3>1. Commit(st, SilentTx(st, sid)) /\ GoesSilent(parts[st][sid])
            BY <2>4 DEF MarkSilent, SilentTx
        <3>2. QED BY <1>5, <3>1 DEF OwnTx
    <2>5. ASSUME NEW sid \in SessionIds, CheckIn(st, sid)
          PROVE  StudentStep(st)
        <3>1. PICK t \in Clocks : Commit(st, CheckInTx(st, sid, t))
            BY <2>5 DEF CheckIn, CheckInTx
        <3>2. Live(parts[st][sid]) /\ t \in Nat
            BY <1>1, <2>5, ClocksType DEF CheckIn
        <3>3. QED BY <1>5, <3>1, <3>2 DEF OwnTx
    <2>6. CASE TapRereads(st) \/ \E n \in DOMAIN made[st] : AskTap(st, n)
        BY <1>4, <2>6 DEF TapRereads, AskTap, server
    <2>7. QED BY <1>7, <2>1, <2>2, <2>3, <2>4, <2>5, <2>6 DEF Request
<1>8. CASE Enrollment(st)
    <2>1. ASSUME NEW c \in Classes, LeaveClass(st, c)
          PROVE  StudentStep(st)
        <3>1. PICK t \in Clocks : EndEnrollment(st, c, t, "enrollment_left", "left_class")
            BY <2>1 DEF LeaveClass
        <3>2. QED BY <1>1, <3>1, ClocksType DEF StudentStep, Endings
    <2>2. ASSUME NEW c \in Classes, RemoveFromClass(st, c)
          PROVE  StudentStep(st)
        <3>1. PICK t \in Clocks :
                  EndEnrollment(st, c, t, "enrollment_removed", "removed_from_class")
            BY <2>2 DEF RemoveFromClass
        <3>2. QED BY <1>1, <3>1, ClocksType DEF StudentStep, Endings
    <2>3. QED BY <1>8, <2>1, <2>2 DEF Enrollment, StudentStep
<1>9. QED BY <1>6, <1>7, <1>8

(* Whatever step is taken, this is what it does to any one student. *)
LEMMA StudentSteps ==
    ASSUME IInv, [Next]_vars, NEW st \in Students
    PROVE  StudentStep(st)
<1>1. CASE UNCHANGED vars
    <2>1. Rests(st)
        BY <1>1, StandsStill DEF vars, Open, Started
    <2>2. QED BY <2>1 DEF StudentStep
<1>2. ASSUME NEW s \in Students, Phone(s) \/ Request(s) \/ Enrollment(s)
      PROVE  StudentStep(st)
    BY <1>2, OwnSteps, OthersRest DEF StudentStep
<1>3. CASE Lesson \/ Tick
    BY <1>3, LessonRests, StartSteps DEF Lesson, StudentStep
<1>4. QED BY <1>1, <1>2, <1>3 DEF Next

-----------------------------------------------------------------------------
(* The newest row. *)

(* After every row of H come the rows of the next transaction. *)
LEMMA NewestAdded ==
    ASSUME NEW w \in Nat, NEW H \in SUBSET RowType, NEW R \in SUBSET RowType, R # {},
           \A e \in H : e.tx =< w, \A e \in R : e.tx = w + 1, NEW types
    PROVE  NewestIs(H \cup R, types) <=> NewestIs(R, types)
<1>1. \A e \in R, f \in H : After(e, f) /\ ~After(f, e)
    BY DEF After, RowType
<1>2. PICK r \in R : TRUE
    OBVIOUS
<1>3. QED BY <1>1, <1>2 DEF NewestIs

LEMMA NewestOfNone ==
    ASSUME NEW S, NEW types, \A e \in S : e.type \notin types
    PROVE  ~NewestIs(S, types)
BY DEF NewestIs

LEMMA NewestOfOne ==
    ASSUME NEW e \in RowType, NEW types
    PROVE  NewestIs({e}, types) <=> e.type \in types
BY DEF NewestIs, After, RowType

(* A bounded set of numbers has a greatest. *)
LEMMA SomeLeast ==
    ASSUME NEW S \in SUBSET Nat, S # {}
    PROVE  \E m \in S : \A s \in S : m =< s
<1> DEFINE R == OpToRel(<, Nat)
<1>1. IsWellFoundedOn(R, Nat)
    BY NatLessThanWellFounded
<1>2. \A a, b \in Nat : <<a, b>> \in R <=> a < b
    BY DEF OpToRel
<1> HIDE DEF R
<1>3. PICK m \in S : \A s \in S : <<s, m>> \notin R
    BY <1>1, WFMin
<1>4. \A s \in S : ~(s < m)
    BY <1>2, <1>3
<1>5. \A s \in S : m =< s
    BY <1>4
<1>6. QED BY <1>5

LEMMA SomeGreatest ==
    ASSUME NEW S \in SUBSET Int, S # {}, NEW n \in Int, \A s \in S : s =< n
    PROVE  \E m \in S : \A s \in S : s =< m
<1> DEFINE T == {n - s : s \in S}
<1>1. T \in SUBSET Nat /\ T # {}
    <2>1. \A s \in S : n - s \in Nat
        OBVIOUS
    <2>2. PICK s \in S : TRUE
        OBVIOUS
    <2>3. n - s \in T
        OBVIOUS
    <2>4. QED BY <2>1, <2>3
<1>2. PICK m \in S : \A u \in T : n - m =< u
    <2>1. PICK u \in T : \A v \in T : u =< v
        <3> HIDE DEF T
        <3>1. QED BY <1>1, SomeLeast
    <2>2. QED BY <2>1
<1>3. \A s \in S : n - m =< n - s
    BY <1>2
<1>4. QED BY <1>3

-----------------------------------------------------------------------------
(* What the rows say of a student's stint in a session. *)

MoveTypes == {"tap_in", "left_for_other_session", "enrollment_left", "enrollment_removed"}
CoverTypes == {"tap_in", "protection_off", "protection_on"}
QuietTypes == {"tap_in", "went_silent", "came_back"}

Moves(h, sid) == OnTime(h, sid, MoveTypes)
Cover(h, sid) == OnTime(h, sid, CoverTypes)
Quiets(h, sid) == OnTime(h, sid, QuietTypes)

Came(h, sid) == NewestIs(Moves(h, sid), {"tap_in"})
WentOff(h, sid) == NewestIs(Cover(h, sid), {"protection_off"})
Silenced(h, sid) == NewestIs(Quiets(h, sid), {"went_silent"})
Unlocked(h, sid) == NewestIs(Turns(h, sid), {"unlock"})

StateTold(h, p, sid) ==
    /\ p.silent <=> Silenced(h, sid)
    /\ p.silent => p.state = "focused"
    /\ p.state = "protection_off" <=> WentOff(h, sid)
    /\ p.state # "protection_off" => (p.state = "unlocked" <=> Unlocked(h, sid))

StintTold(h, p, sid, open) ==
    /\ Live(p) <=> open /\ Came(h, sid)
    /\ Live(p) => StateTold(h, p, sid)

(* A row of a session is in one that has started, and a time the engine holds *)
(* to the session's window lies in it.                                        *)
HeldTypes == {"tap_in", "refocus", "unlock", "went_silent"}
InSession(e) ==
    e.session # NoSession =>
        /\ Started(e.session)
        /\ e.type \in HeldTypes => InWindow(e, sessions[e.session])

(* The invariant, inductive together with IInv, Filing and Windows. *)
LogTold(st) == \A e \in log[st] : e.tx =< written[st] /\ InSession(e)
Told ==
    \A st \in Students :
        /\ LogTold(st)
        /\ \A sid \in SessionIds :
              /\ StintTold(log[st], parts[st][sid], sid, Open(sid))
              /\ parts[st][sid].ended # "no_row" => Started(sid)

(* What a transaction has to do for it. *)
NextRows(st, rows) == \A e \in rows : e \in RowType /\ e.tx = written[st] + 1
NewRows(st, rows) ==
    \A e \in rows : e \in RowType /\ e.tx = written[st] + 1 /\ InSession(e)
Tells(st, tx) ==
    /\ NewRows(st, tx.rows)
    /\ \A sid \in SessionIds :
          /\ StintTold(log[st] \cup tx.rows, tx.parts[sid], sid, Open(sid))
          /\ tx.parts[sid].ended # "no_row" => Started(sid)

LEMMA NewAreNext ==
    ASSUME NEW st, NEW rows, NewRows(st, rows)
    PROVE  NextRows(st, rows)
BY DEF NewRows, NextRows

(* What the log says with a transaction's rows, by what they say. *)
LEMMA Retold ==
    ASSUME TypeOK, NEW st \in Students, LogTold(st), NEW rows, NextRows(st, rows), NEW sid
    PROVE  LET h == log[st]
               g == log[st] \cup rows
           IN /\ Came(g, sid) <=> IF Moves(rows, sid) = {} THEN Came(h, sid)
                                  ELSE NewestIs(Moves(rows, sid), {"tap_in"})
              /\ WentOff(g, sid) <=> IF Cover(rows, sid) = {} THEN WentOff(h, sid)
                                     ELSE NewestIs(Cover(rows, sid), {"protection_off"})
              /\ Silenced(g, sid) <=> IF Quiets(rows, sid) = {} THEN Silenced(h, sid)
                                      ELSE NewestIs(Quiets(rows, sid), {"went_silent"})
              /\ Unlocked(g, sid) <=> IF Turns(rows, sid) = {} THEN Unlocked(h, sid)
                                      ELSE NewestIs(Turns(rows, sid), {"unlock"})
<1> DEFINE h == log[st]
           g == log[st] \cup rows
<1>1. /\ h \in SUBSET RowType /\ rows \in SUBSET RowType /\ written[st] \in Nat
      /\ \A e \in h : e.tx =< written[st]
      /\ \A e \in rows : e.tx = written[st] + 1
    BY DEF TypeOK, LogTold, NextRows
<1>2. ASSUME NEW H \in SUBSET h, NEW R \in SUBSET rows, NEW types
      PROVE  NewestIs(H \cup R, types) <=> IF R = {} THEN NewestIs(H, types) ELSE NewestIs(R, types)
    <2>1. CASE R = {}
        <3>1. H \cup R = H
            BY <2>1
        <3>2. QED BY <2>1, <3>1
    <2>2. CASE R # {}
        <3>1. /\ H \in SUBSET RowType /\ R \in SUBSET RowType
              /\ \A e \in H : e.tx =< written[st] /\ \A f \in R : f.tx = written[st] + 1
            BY <1>1
        <3>2. QED BY <1>1, <2>2, NewestAdded
    <2>3. QED BY <2>1, <2>2
<1>3. /\ Moves(g, sid) = Moves(h, sid) \cup Moves(rows, sid)
      /\ Cover(g, sid) = Cover(h, sid) \cup Cover(rows, sid)
      /\ Quiets(g, sid) = Quiets(h, sid) \cup Quiets(rows, sid)
      /\ Turns(g, sid) = Turns(h, sid) \cup Turns(rows, sid)
    BY DEF Moves, Cover, Quiets, Turns, OnTime, Of
<1>4. /\ Moves(h, sid) \in SUBSET h /\ Moves(rows, sid) \in SUBSET rows
      /\ Cover(h, sid) \in SUBSET h /\ Cover(rows, sid) \in SUBSET rows
      /\ Quiets(h, sid) \in SUBSET h /\ Quiets(rows, sid) \in SUBSET rows
      /\ Turns(h, sid) \in SUBSET h /\ Turns(rows, sid) \in SUBSET rows
    BY DEF Moves, Cover, Quiets, Turns, OnTime, Of
<1> HIDE DEF h, g
<1>5. Came(g, sid) <=> IF Moves(rows, sid) = {} THEN Came(h, sid)
                       ELSE NewestIs(Moves(rows, sid), {"tap_in"})
    BY <1>2, <1>3, <1>4 DEF Came
<1>6. WentOff(g, sid) <=> IF Cover(rows, sid) = {} THEN WentOff(h, sid)
                          ELSE NewestIs(Cover(rows, sid), {"protection_off"})
    BY <1>2, <1>3, <1>4 DEF WentOff
<1>7. Silenced(g, sid) <=> IF Quiets(rows, sid) = {} THEN Silenced(h, sid)
                           ELSE NewestIs(Quiets(rows, sid), {"went_silent"})
    BY <1>2, <1>3, <1>4 DEF Silenced
<1>8. Unlocked(g, sid) <=> IF Turns(rows, sid) = {} THEN Unlocked(h, sid)
                           ELSE NewestIs(Turns(rows, sid), {"unlock"})
    BY <1>2, <1>3, <1>4 DEF Unlocked
<1>9. QED BY <1>5, <1>6, <1>7, <1>8 DEF h, g

(* Rows that say nothing of a session leave its story as it was. *)
Mute(rows, sid) ==
    /\ Moves(rows, sid) = {} /\ Cover(rows, sid) = {}
    /\ Quiets(rows, sid) = {} /\ Turns(rows, sid) = {}

LEMMA MuteRows ==
    ASSUME NEW rows, NEW sid,
           \A e \in rows : e.session = sid =>
               e.type \notin MoveTypes \cup CoverTypes \cup QuietTypes \cup {"refocus", "unlock"}
    PROVE  Mute(rows, sid)
BY DEF Mute, Moves, Cover, Quiets, Turns, OnTime, Of, MoveTypes, CoverTypes, QuietTypes

LEMMA SameStory ==
    ASSUME TypeOK, NEW st \in Students, LogTold(st), NEW rows, NextRows(st, rows), NEW sid,
           Mute(rows, sid)
    PROVE  LET h == log[st]
               g == log[st] \cup rows
           IN /\ Came(g, sid) <=> Came(h, sid)
              /\ WentOff(g, sid) <=> WentOff(h, sid)
              /\ Silenced(g, sid) <=> Silenced(h, sid)
              /\ Unlocked(g, sid) <=> Unlocked(h, sid)
BY Retold DEF Mute

(* A stint in the same state, live or not as it was, of the same story. *)
LEMMA SameStint ==
    ASSUME TypeOK, NEW st \in Students, LogTold(st), NEW rows, NextRows(st, rows), NEW sid,
           Mute(rows, sid), NEW p, NEW q, NEW open, StintTold(log[st], p, sid, open),
           Live(q) <=> Live(p), q.state = p.state, q.silent = p.silent
    PROVE  StintTold(log[st] \cup rows, q, sid, open)
BY SameStory DEF StintTold, StateTold

-----------------------------------------------------------------------------
(* Transactions. *)

(* What a step starts from. *)
Standing == IInv /\ Windows /\ Told

LEMMA StandingStint ==
    ASSUME Standing, NEW st \in Students
    PROVE  /\ TypeOK /\ LogTold(st)
           /\ \A sid \in SessionIds :
                 /\ parts[st][sid] \in PartType
                 /\ StintTold(log[st], parts[st][sid], sid, Open(sid))
                 /\ parts[st][sid].ended # "no_row" => Started(sid)
                 /\ Live(parts[st][sid]) => Open(sid) /\ Started(sid)
BY DEF Standing, IInv, TypeOK, Told, OverLessonHasNoOne, Open

(* A student is only in the class of a session that has started. *)
LEMMA InStarted ==
    ASSUME TypeOK, NEW st \in Students, NEW sid \in SessionIds, IsIn(st, sid)
    PROVE  Started(sid)
<1>1. sessions[sid].class \in Classes
    BY DEF IsIn, TypeOK
<1>2. QED BY <1>1, PeopleAssumption DEF Started

LEMMA HeldRow ==
    ASSUME Standing, NEW sid \in SessionIds, Started(sid), NEW t \in Int, NEW e,
           e.session = sid, e.at = Clamp(t, sessions[sid])
    PROVE  InSession(e)
<1>1. sessions[sid] \in SessionType /\ WindowOK(sessions[sid])
    BY DEF Standing, IInv, TypeOK, Windows
<1>2. e.at \in Int /\ sessions[sid].startedAt =< e.at /\ e.at =< sessions[sid].endsAt
    BY <1>1 DEF WindowOK, SessionType, Clamp, Least, Greatest
<1>3. QED BY <1>2 DEF InSession, InWindow

LEMMA RecordAt ==
    ASSUME TypeOK, NEW st \in Students, NEW n \in DOMAIN made[st]
    PROVE  made[st][n].at \in Int
BY MadeRecord DEF MadeType

(* The phone's own row of a record, in a session that has started. *)
LEMMA PhoneRowNew ==
    ASSUME Standing, NEW st \in Students, NEW n \in DOMAIN made[st], NEW type \in RowTypes,
           NEW sid \in SessionIds, Started(sid), NEW at, at = Clamp(made[st][n].at, sessions[sid]),
           NEW note \in Notes
    PROVE  LET e == PhoneRow(st, n, type, sid, at, note)
           IN /\ e \in RowType /\ e.tx = written[st] + 1 /\ InSession(e)
              /\ e.place = 1 /\ e.type = type /\ e.session = sid /\ e.note = note
<1> DEFINE e == PhoneRow(st, n, type, sid, at, note)
<1>1. TypeOK /\ at \in Int
    BY RecordClamp DEF Standing, IInv
<1>2. e \in RowType
    BY <1>1, PhoneRowType
<1>3. /\ e.tx = written[st] + 1 /\ e.place = 1 /\ e.type = type /\ e.session = sid
      /\ e.note = note /\ e.at = at
    BY DEF PhoneRow, ServerRow
<1>4. InSession(e)
    <2> HIDE DEF e
    <2>1. QED BY <1>1, <1>3, RecordAt, HeldRow
<1>5. QED BY <1>2, <1>3, <1>4

LEMMA ServerRowNew ==
    ASSUME TypeOK, NEW st \in Students, NEW place \in Nat, NEW type \in RowTypes,
           NEW sid \in SessionIds \cup {NoSession}, NEW at \in Int,
           sid # NoSession => Started(sid), type \notin HeldTypes
    PROVE  LET e == ServerRow(st, place, type, sid, at)
           IN /\ e \in RowType /\ e.tx = written[st] + 1 /\ InSession(e)
              /\ e.place = place /\ e.type = type /\ e.session = sid /\ e.note = "none"
<1>1. ServerRow(st, place, type, sid, at) \in RowType
    BY ServerRowType
<1>2. QED BY <1>1 DEF ServerRow, InSession

(* Nothing changes of the log and the stints. *)
LEMMA NoChangeTells ==
    ASSUME Standing, NEW st \in Students, NEW answer, NEW code
    PROVE  /\ Tells(st, NoChange(st, answer))
           /\ Tells(st, Refuse(st, code))
           /\ Tells(st, Replay(st))
<1>1. ASSUME NEW any
      PROVE  Tells(st, NoChange(st, any))
    <2>1. NoChange(st, any).rows = {} /\ NoChange(st, any).parts = parts[st]
        BY DEF NoChange
    <2>2. log[st] \cup {} = log[st]
        OBVIOUS
    <2>3. QED BY <2>1, <2>2, StandingStint DEF Tells, NewRows
<1>2. QED BY <1>1 DEF Refuse, Replay

(* Rows that say nothing of a stint, written beside stints left as they were. *)
LEMMA MuteTells ==
    ASSUME Standing, NEW st \in Students, NEW rows, NewRows(st, rows),
           \A sid \in SessionIds : Mute(rows, sid),
           NEW tx, tx.rows = rows, tx.parts = parts[st]
    PROVE  Tells(st, tx)
<1>1. ASSUME NEW sid \in SessionIds
      PROVE  StintTold(log[st] \cup rows, parts[st][sid], sid, Open(sid))
    BY StandingStint, SameStint, NewAreNext
<1>2. QED BY <1>1, StandingStint DEF Tells

LEMMA OrphanTells ==
    ASSUME Standing, NEW st \in Students, NEW n \in DOMAIN made[st], NEW note \in Notes
    PROVE  Tells(st, Orphan(st, n, note))
<1> DEFINE row == PhoneRow(st, n, "unlock", NoSession, now, note)
           tx == [NoChange(st, Answer("recorded", NoSession, "none")) EXCEPT !.rows = {row}]
<1>1. TypeOK /\ now \in Int /\ "unlock" \in RowTypes
    BY DEF Standing, IInv, TypeOK, RowTypes
<1>2. row \in RowType /\ row.session = NoSession
    <2>1. "unlock" \in RowTypes /\ NoSession \in SessionIds \cup {NoSession} /\ now \in Int
        BY <1>1
    <2> HIDE DEF tx
    <2>2. row \in RowType
        BY <1>1, <2>1, PhoneRowType
    <2>3. row.session = NoSession
        BY DEF PhoneRow, ServerRow
    <2>4. QED BY <2>2, <2>3
<1>3. row.tx = written[st] + 1
    BY DEF PhoneRow, ServerRow
<1>4. tx.rows = {row} /\ tx.parts = parts[st]
    BY DEF NoChange
<1> HIDE DEF row, tx
<1>5. NewRows(st, {row}) /\ \A sid \in SessionIds : Mute({row}, sid)
    <2>1. \A sid \in SessionIds : sid # NoSession
        BY DEF SessionIds, NoSession
    <2>2. QED BY <1>2, <1>3, <2>1, MuteRows DEF NewRows, InSession
<1>6. Tells(st, tx)
    BY <1>4, <1>5, MuteTells
<1>7. QED BY <1>6, NoChangeTells DEF Orphan, tx, row

(* The row that closes a silence is there exactly where one is open. *)
LEMMA BackRowsTell ==
    ASSUME Standing, NEW st \in Students, NEW sid \in SessionIds, NEW t \in Nat
    PROVE  /\ NewRows(st, BackRows(st, sid, t))
           /\ \A e \in BackRows(st, sid, t) :
                 e.session = sid /\ e.type = "came_back" /\ e.note = "none"
           /\ BackRows(st, sid, t) # {} <=> Live(parts[st][sid]) /\ parts[st][sid].silent
<1> DEFINE p == parts[st][sid]
           s == sessions[sid]
           silences == {e.at : e \in Of(log[st], sid, {"went_silent"})}
           times == {Clamp(t, s)} \cup silences
           back(at) == ServerRow(st, 3, "came_back", sid, at)
<1>1. TypeOK
    BY StandingStint
<1>2. CASE ~(Live(p) /\ p.silent)
    BY <1>2 DEF BackRows, NewRows
<1>3. CASE Live(p) /\ p.silent
    <2>1. Started(sid) /\ s \in SessionType /\ WindowOK(s) /\ sid # NoSession
        <3>1. Started(sid)
            BY <1>3, StandingStint
        <3>2. s \in SessionType
            BY <1>1 DEF TypeOK
        <3>3. sid # NoSession
            BY DEF SessionIds, NoSession
        <3>4. WindowOK(s)
            BY <3>1 DEF Standing, Windows
        <3>5. QED BY <3>1, <3>2, <3>3, <3>4
    <2>2. Clamp(t, s) \in Int /\ Clamp(t, s) =< s.endsAt
        BY <2>1 DEF WindowOK, SessionType, Clamp, Least, Greatest
    <2>3. \A at \in silences : at \in Int /\ at =< s.endsAt
        <3>1. ASSUME NEW e \in Of(log[st], sid, {"went_silent"})
              PROVE  e.at \in Int /\ e.at =< s.endsAt
            <4>1. e \in log[st] /\ e.session = sid /\ e.type = "went_silent"
                BY DEF Of
            <4>2. e \in RowType /\ InSession(e)
                BY <1>1, <4>1, StandingStint DEF TypeOK, LogTold
            <4>3. QED BY <2>1, <4>1, <4>2 DEF InSession, InWindow, HeldTypes, RowType
        <3>2. QED BY <3>1
    <2>4. times \in SUBSET Int /\ times # {} /\ \A at \in times : at =< s.endsAt
        BY <2>2, <2>3
    <2>5. s.endsAt \in Int
        BY <2>1 DEF SessionType
    <2> HIDE DEF times, s
    <2>6. Latest(times) # {} /\ Latest(times) \subseteq Int
        BY <2>4, <2>5, SomeGreatest DEF Latest
    <2>7. BackRows(st, sid, t) = {back(at) : at \in Latest(times)}
        BY <1>3 DEF BackRows, times, s
    <2>8. "came_back" \in RowTypes /\ "came_back" \notin HeldTypes
        BY DEF RowTypes, HeldTypes
    <2>9. \A at \in Int : LET e == back(at)
                          IN /\ e \in RowType /\ e.tx = written[st] + 1 /\ InSession(e)
                             /\ e.session = sid /\ e.type = "came_back" /\ e.note = "none"
        BY <1>1, <2>1, <2>8, ServerRowNew
    <2> HIDE DEF back
    <2>10. QED BY <1>3, <2>6, <2>7, <2>9 DEF NewRows
<1>4. QED BY <1>2, <1>3

(* A contact in a session: its rows, and the end of a silence with them. *)
ContactRows(sid, own) ==
    \A e \in own : /\ e.session = sid
                   /\ e.type \in {"unlock", "refocus", "protection_off", "protection_on"}
ContactState(h, p, q, sid, own) ==
    /\ q.state = "protection_off" <=>
          IF Cover(own, sid) = {} THEN p.state = "protection_off"
          ELSE NewestIs(Cover(own, sid), {"protection_off"})
    /\ q.state # "protection_off" =>
          ( q.state = "unlocked" <=>
            IF Turns(own, sid) = {} THEN Unlocked(h, sid)
            ELSE NewestIs(Turns(own, sid), {"unlock"}) )
ContactLeaves(h, p, q, sid, own) ==
    /\ q.ended = p.ended
    /\ q.silent = IF Live(p) THEN FALSE ELSE p.silent
    /\ Live(p) => ContactState(h, p, q, sid, own)

LEMMA ContactTells ==
    ASSUME Standing, NEW st \in Students, NEW sid \in SessionIds, Started(sid), NEW t \in Nat,
           NEW own, NewRows(st, own), ContactRows(sid, own),
           NEW q, ContactLeaves(log[st], parts[st][sid], q, sid, own),
           NEW tx, tx.rows = own \cup BackRows(st, sid, t),
           tx.parts = [parts[st] EXCEPT ![sid] = q]
    PROVE  Tells(st, tx)
<1> DEFINE p == parts[st][sid]
           h == log[st]
           back == BackRows(st, sid, t)
           rows == own \cup back
<1>0. /\ ContactRows(sid, own) /\ q.ended = p.ended
      /\ q.silent = IF Live(p) THEN FALSE ELSE p.silent
      /\ Live(p) => ContactState(h, p, q, sid, own)
    BY DEF ContactLeaves
<1>1. TypeOK /\ LogTold(st) /\ parts[st] \in [SessionIds -> PartType]
    BY StandingStint DEF TypeOK
<1>2. /\ NewRows(st, back)
      /\ \A e \in back : e.session = sid /\ e.type = "came_back" /\ e.note = "none"
      /\ back # {} <=> Live(p) /\ p.silent
    BY BackRowsTell
<1> HIDE DEF back
<1>3. NewRows(st, rows)
    BY <1>2 DEF NewRows
<1>4. \A o \in SessionIds : o # sid => Mute(rows, o)
    BY <1>0, <1>2, MuteRows DEF ContactRows, MoveTypes, CoverTypes, QuietTypes
<1>5. ASSUME NEW o \in SessionIds, o # sid
      PROVE  StintTold(h \cup rows, tx.parts[o], o, Open(o)) /\ (tx.parts[o].ended # "no_row" => Started(o))
    <2>1. tx.parts[o] = parts[st][o]
        BY <1>1, <1>5
    <2>2. StintTold(h, parts[st][o], o, Open(o)) /\ (parts[st][o].ended # "no_row" => Started(o))
        BY StandingStint
    <2>3. Mute(rows, o)
        BY <1>4, <1>5
    <2> HIDE DEF rows
    <2>4. QED BY <1>1, <1>3, <2>1, <2>2, <2>3, SameStint, NewAreNext
<1>6. /\ Moves(rows, sid) = {} /\ Cover(rows, sid) = Cover(own, sid)
      /\ Turns(rows, sid) = Turns(own, sid) /\ Quiets(rows, sid) = back
    <2>1. Moves(rows, sid) = {}
        BY <1>0, <1>2 DEF ContactRows, Moves, OnTime, Of, MoveTypes
    <2>2. Cover(rows, sid) = Cover(own, sid)
        BY <1>0, <1>2 DEF ContactRows, Cover, OnTime, Of, CoverTypes
    <2>3. Turns(rows, sid) = Turns(own, sid)
        BY <1>0, <1>2 DEF ContactRows, Turns, Of
    <2>4. Quiets(rows, sid) = back
        BY <1>0, <1>2 DEF ContactRows, Quiets, OnTime, Of, QuietTypes
    <2>5. QED BY <2>1, <2>2, <2>3, <2>4
<1>7. /\ Came(h \cup rows, sid) <=> Came(h, sid)
      /\ WentOff(h \cup rows, sid) <=> IF Cover(own, sid) = {} THEN WentOff(h, sid)
                                       ELSE NewestIs(Cover(own, sid), {"protection_off"})
      /\ Silenced(h \cup rows, sid) <=> IF back = {} THEN Silenced(h, sid)
                                        ELSE NewestIs(back, {"went_silent"})
      /\ Unlocked(h \cup rows, sid) <=> IF Turns(own, sid) = {} THEN Unlocked(h, sid)
                                        ELSE NewestIs(Turns(own, sid), {"unlock"})
    <2> HIDE DEF rows, h
    <2>1. QED BY <1>1, <1>3, <1>6, Retold, NewAreNext DEF h
<1>8. ~NewestIs(back, {"went_silent"})
    BY <1>2, NewestOfNone
<1>9. StintTold(h, p, sid, Open(sid))
    BY StandingStint
<1>10. tx.parts[sid] = q /\ (Live(q) <=> Live(p))
    BY <1>0, <1>1 DEF Live
<1> HIDE DEF p, h, rows
<1>11. ASSUME Live(p)
       PROVE  StateTold(h \cup rows, q, sid)
    <2>1. q.silent = FALSE /\ ~Silenced(h \cup rows, sid)
        BY <1>0, <1>2, <1>7, <1>8, <1>9, <1>11 DEF StintTold, StateTold
    <2>2. q.state = "protection_off" <=> WentOff(h \cup rows, sid)
        BY <1>0, <1>7, <1>9, <1>11 DEF StintTold, StateTold, ContactState
    <2>3. q.state # "protection_off" => (q.state = "unlocked" <=> Unlocked(h \cup rows, sid))
        BY <1>0, <1>7, <1>11 DEF ContactState
    <2>4. QED BY <2>1, <2>2, <2>3 DEF StateTold
<1>12. StintTold(h \cup rows, q, sid, Open(sid))
    BY <1>7, <1>9, <1>10, <1>11 DEF StintTold
<1>13. QED
    <2>1. \A o \in SessionIds : /\ StintTold(h \cup rows, tx.parts[o], o, Open(o))
                                /\ tx.parts[o].ended # "no_row" => Started(o)
        BY <1>5, <1>10, <1>12
    <2>2. tx.rows = rows
        BY DEF rows, back
    <2>3. QED BY <1>3, <2>1, <2>2 DEF Tells, h

HeardAs(p, q, state) ==
    /\ q.state = state /\ q.ended = p.ended
    /\ q.silent = IF Live(p) THEN FALSE ELSE p.silent

LEMMA HeardIs ==
    ASSUME NEW p \in PartType, NEW state
    PROVE  HeardAs(p, Heard(p), p.state) /\ HeardAs(p, [Heard(p) EXCEPT !.state = state], state)
BY DEF Heard, HeardAs, PartType

(* One row of the phone's, in a session. *)
LEMMA OneRow ==
    ASSUME NEW e \in RowType, NEW sid, e.session = sid
    PROVE  /\ Cover({e}, sid) = (IF e.type \in CoverTypes /\ e.note = "none" THEN {e} ELSE {})
           /\ Turns({e}, sid) = (IF /\ e.type \in {"tap_in", "refocus", "unlock"}
                                    /\ e.note # "superseded" THEN {e} ELSE {})
           /\ \A types : NewestIs({e}, types) <=> e.type \in types
<1>1. \A types : NewestIs({e}, types) <=> e.type \in types
    BY NewestOfOne
<1>2. Cover({e}, sid) = (IF e.type \in CoverTypes /\ e.note = "none" THEN {e} ELSE {})
    BY DEF Cover, OnTime, Of
<1>3. Turns({e}, sid) = (IF /\ e.type \in {"tap_in", "refocus", "unlock"}
                            /\ e.note # "superseded" THEN {e} ELSE {})
    BY DEF Turns, Of
<1>4. QED BY <1>1, <1>2, <1>3

LEMMA UnlockInTells ==
    ASSUME Standing, NEW st \in Students, NEW n \in DOMAIN made[st],
           NEW sid \in SessionIds, NEW t \in Nat
    PROVE  Tells(st, UnlockIn(st, n, sid, t))
<1> DEFINE p == parts[st][sid]
           at == Clamp(made[st][n].at, sessions[sid])
           note == UnlockNote(log[st], p, sid, at, Order(st, n))
           state == IF note = "none" THEN "unlocked" ELSE p.state
           row == PhoneRow(st, n, "unlock", sid, at, note)
           q == [Heard(p) EXCEPT !.state = state]
<1>1. CASE p.ended = "no_row" /\ ~IsIn(st, sid)
    <2>1. "not_enrolled" \in Notes
        BY DEF Notes
    <2>2. QED BY <1>1, <2>1, OrphanTells DEF UnlockIn
<1>2. CASE ~(p.ended = "no_row" /\ ~IsIn(st, sid)) /\ Recorded(st, n) # {}
    BY <1>2, NoChangeTells DEF UnlockIn
<1>3. ASSUME ~(p.ended = "no_row" /\ ~IsIn(st, sid)), NEW answer
      PROVE  Tells(st, [rows |-> {row} \cup BackRows(st, sid, t),
                        parts |-> [parts[st] EXCEPT ![sid] = q],
                        armed |-> armed[st], answer |-> answer])
    <2>1. TypeOK /\ p \in PartType
        BY StandingStint
    <2>2. Started(sid)
        BY <1>3, <2>1, StandingStint, InStarted
    <2>3. note \in Notes /\ "unlock" \in RowTypes
        BY UnlockNoteType DEF RowTypes
    <2>4. /\ row \in RowType /\ row.tx = written[st] + 1 /\ InSession(row)
          /\ row.type = "unlock" /\ row.session = sid /\ row.note = note
        <3> HIDE DEF note
        <3>1. QED BY <2>2, <2>3, PhoneRowNew
    <2>5. NewRows(st, {row})
        <3> HIDE DEF row
        <3>1. QED BY <2>4 DEF NewRows
    <2>6. Live(p) => /\ note \in {"none", "superseded", "protection_off"}
                     /\ note = "none" => p.state # "protection_off"
                     /\ note = "protection_off" => p.state = "protection_off"
        BY DEF UnlockNote
    <2>7. StintTold(log[st], p, sid, Open(sid))
        BY StandingStint
    <2>8. /\ Cover({row}, sid) = {}
          /\ Turns({row}, sid) = (IF note # "superseded" THEN {row} ELSE {})
          /\ NewestIs({row}, {"unlock"})
        <3> HIDE DEF row, note
        <3>1. QED BY <2>4, OneRow DEF CoverTypes
    <2>9. HeardAs(p, q, state)
        BY <2>1, HeardIs
    <2> HIDE DEF row, note, q, p
    <2>10. ContactLeaves(log[st], p, q, sid, {row})
        BY <2>6, <2>7, <2>8, <2>9 DEF HeardAs, StintTold, StateTold, ContactLeaves, ContactState
    <2> DEFINE tx == [rows |-> {row} \cup BackRows(st, sid, t),
                      parts |-> [parts[st] EXCEPT ![sid] = q],
                      armed |-> armed[st], answer |-> answer]
    <2>11. tx.rows = {row} \cup BackRows(st, sid, t) /\ tx.parts = [parts[st] EXCEPT ![sid] = q]
        OBVIOUS
    <2>12. ContactRows(sid, {row})
        BY <2>4 DEF ContactRows
    <2> HIDE DEF tx
    <2>13. Tells(st, tx)
        BY <2>2, <2>5, <2>10, <2>11, <2>12, ContactTells DEF p
    <2>14. QED BY <2>13 DEF tx
<1>4. QED BY <1>1, <1>2, <1>3 DEF UnlockIn

LEMMA UnlockTells ==
    ASSUME Standing, NEW st \in Students, NEW n \in DOMAIN made[st], NEW t \in Nat,
           made[st][n].kind = "unlock", Addressed(st, n)
    PROVE  Tells(st, Unlock(st, n, t))
<1>1. TypeOK /\ made[st][n] \in MadeType
    BY StandingStint, MadeRecord
<1>2. CASE made[st][n].claim = 0
    <2>1. made[st][n].session \in SessionIds
        BY <1>1, <1>2 DEF Addressed, MadeType
    <2>2. QED BY <1>2, <2>1, UnlockInTells DEF Unlock
<1>3. CASE made[st][n].claim # 0
    <2> DEFINE own == Recorded(st, n)
               landed == IF own # {} THEN own
                         ELSE {e \in Recorded(st, made[st][n].claim) : e.type = "tap_in"}
               sid == (CHOOSE e \in landed : e.session # NoSession).session
    <2>1. \A e \in landed : e \in RowType
        BY <1>1 DEF TypeOK, Recorded
    <2>2. CASE \E e \in landed : e.session # NoSession
        <3>1. sid \in SessionIds
            <4> HIDE DEF landed
            <4>1. QED BY <2>1, <2>2 DEF RowType
        <3>2. QED BY <1>3, <2>2, <3>1, UnlockInTells DEF Unlock, UnlockUnderTap
    <2>3. CASE ~\E e \in landed : e.session # NoSession
        <3>1. "tap_armed" \in Notes /\ "unknown_tap" \in Notes
            BY DEF Notes
        <3>2. QED BY <1>3, <2>3, <3>1, OrphanTells DEF Unlock, UnlockUnderTap
    <2>4. QED BY <2>2, <2>3
<1>4. QED BY <1>2, <1>3

LEMMA ApplyChangeTells ==
    ASSUME Standing, NEW st \in Students, NEW n \in DOMAIN made[st], NEW sid \in SessionIds,
           NEW type \in {"refocus", "protection_off", "protection_on"}, NEW t \in Nat,
           Live(parts[st][sid]), Allowed(type, parts[st][sid])
    PROVE  Tells(st, ApplyChange(st, n, sid, type, t))
<1> DEFINE p == parts[st][sid]
           at == Clamp(made[st][n].at, sessions[sid])
           late == IsLate(st, n, sid, type)
           state == IF late THEN p.state ELSE NextState(st, sid, type)
           note == IF late THEN "superseded" ELSE "none"
           row == PhoneRow(st, n, type, sid, at, note)
           q == [Heard(p) EXCEPT !.state = state]
           tx == ApplyChange(st, n, sid, type, t)
<1>1. TypeOK /\ p \in PartType /\ Started(sid)
    BY StandingStint
<1>2. /\ row \in RowType /\ row.tx = written[st] + 1 /\ InSession(row)
      /\ row.type = type /\ row.session = sid /\ row.note = note
    <2>1. note \in Notes /\ type \in RowTypes
        BY DEF Notes, RowTypes
    <2> HIDE DEF note
    <2>2. QED BY <1>1, <2>1, PhoneRowNew
<1>3. NewRows(st, {row})
    <2> HIDE DEF row
    <2>1. QED BY <1>2 DEF NewRows
<1>4. /\ Cover({row}, sid) = (IF type # "refocus" /\ ~late THEN {row} ELSE {})
      /\ Turns({row}, sid) = (IF type = "refocus" /\ ~late THEN {row} ELSE {})
      /\ NewestIs({row}, {"protection_off"}) <=> type = "protection_off"
      /\ ~NewestIs({row}, {"unlock"})
    <2> HIDE DEF row, late
    <2>1. QED BY <1>2, OneRow DEF CoverTypes
<1>5. HeardAs(p, q, state)
    BY <1>1, HeardIs
<1>6. StintTold(log[st], p, sid, Open(sid))
    BY StandingStint
<1>7. /\ type = "refocus" => p.state # "protection_off"
      /\ type = "refocus" => NextState(st, sid, type) = "focused"
      /\ type = "protection_off" => NextState(st, sid, type) = "protection_off" /\ ~late
      /\ type = "protection_on" =>
            NextState(st, sid, type) = IF Unlocked(log[st], sid) THEN "unlocked" ELSE "focused"
    BY DEF Allowed, NextState, IsLate, Unlocked
<1>8. tx.rows = {row} \cup BackRows(st, sid, t) /\ tx.parts = [parts[st] EXCEPT ![sid] = q]
    BY <1>1 DEF ApplyChange, TypeOK
<1>9. ContactRows(sid, {row})
    <2> HIDE DEF row
    <2>1. QED BY <1>2 DEF ContactRows
<1> HIDE DEF row, note, q, p, late, tx
<1>10. ContactState(log[st], p, q, sid, {row})
    <2>1. CASE late
        BY <1>4, <1>5, <1>6, <1>7, <2>1 DEF HeardAs, StintTold, StateTold, ContactState, p
    <2>2. CASE ~late /\ type = "refocus"
        BY <1>4, <1>5, <1>7, <2>2 DEF HeardAs, ContactState
    <2>3. CASE ~late /\ type = "protection_off"
        BY <1>4, <1>5, <1>7, <2>3 DEF HeardAs, ContactState
    <2>4. CASE ~late /\ type = "protection_on"
        BY <1>4, <1>5, <1>7, <2>4 DEF HeardAs, ContactState
    <2>5. QED BY <2>1, <2>2, <2>3, <2>4
<1>11. Tells(st, tx)
    <2>1. ContactLeaves(log[st], p, q, sid, {row})
        BY <1>5, <1>10 DEF HeardAs, ContactLeaves
    <2>2. QED BY <1>1, <1>3, <1>8, <1>9, <2>1, ContactTells DEF p
<1>12. QED BY <1>11 DEF tx

(* An off after the lesson's end is kept as evidence, and changes no stint. *)
LEMMA OffAfterEndTells ==
    ASSUME Standing, NEW st \in Students, NEW n \in DOMAIN made[st], NEW sid \in SessionIds
    PROVE  Tells(st, OffAfterEnd(st, n, sid))
<1> DEFINE row == PhoneRow(st, n, "protection_off", sid,
                           Clamp(made[st][n].at, sessions[sid]), "after_session_end")
           tx == [NoChange(st, Answer("recorded", NoSession, "none")) EXCEPT !.rows = {row}]
<1>1. ASSUME parts[st][sid].ended \in {"session_ended", "session_expired"}
      PROVE  Tells(st, tx)
    <2>1. Started(sid)
        BY <1>1, StandingStint
    <2>2. "protection_off" \in RowTypes /\ "after_session_end" \in Notes
        BY DEF RowTypes, Notes
    <2>3. /\ row \in RowType /\ row.tx = written[st] + 1 /\ InSession(row)
          /\ row.type = "protection_off" /\ row.session = sid /\ row.note = "after_session_end"
        BY <2>1, <2>2, PhoneRowNew
    <2>4. tx.rows = {row} /\ tx.parts = parts[st]
        BY DEF NoChange
    <2> HIDE DEF row, tx
    <2>5. NewRows(st, {row})
        BY <2>3 DEF NewRows
    <2>6. \A o \in SessionIds : Mute({row}, o)
        BY <2>3 DEF Mute, Moves, Cover, Quiets, Turns, OnTime, Of
    <2>7. QED BY <2>4, <2>5, <2>6, MuteTells
<1> HIDE DEF row
<1>2. QED BY <1>1, NoChangeTells DEF OffAfterEnd, row

LEMMA ChangeStateTells ==
    ASSUME Standing, NEW st \in Students, NEW n \in DOMAIN made[st], NEW t \in Nat,
           made[st][n].kind \in {"refocus", "protection_off", "protection_on"}
    PROVE  Tells(st, ChangeState(st, n, t))
<1>1. TypeOK /\ made[st][n] \in MadeType
    BY StandingStint, MadeRecord
<1>2. made[st][n].session \in SessionIds
    BY <1>1 DEF TypeOK, Referring, MadeType
<1>3. QED BY <1>2, NoChangeTells, OffAfterEndTells, ApplyChangeTells DEF ChangeState, ReplayChange

LEMMA ChangeReasonTells ==
    ASSUME Standing, NEW st \in Students, NEW n \in DOMAIN made[st], NEW t \in Nat
    PROVE  Tells(st, ChangeReason(st, n, t))
<1> DEFINE unlock == {e \in log[st] : /\ e.id = made[st][n].claim /\ e.type = "unlock"
                                      /\ e.session # NoSession}
           sid == (CHOOSE e \in unlock : TRUE).session
           base == PhoneRow(st, n, "unlock_reason_changed", sid, t, "none")
           row == [base EXCEPT !.order = NoOrder]
           tx == [NoChange(st, Answer("applied", NoSession, "none")) EXCEPT !.rows = {row}]
<1>1. TypeOK /\ LogTold(st)
    BY StandingStint
<1>2. ASSUME unlock # {}
      PROVE  Tells(st, tx)
    <2>1. PICK e \in unlock : sid = e.session
        BY <1>2
    <2>2. e \in RowType /\ InSession(e) /\ sid # NoSession
        BY <1>1, <2>1 DEF TypeOK, LogTold
    <2>3. sid \in SessionIds /\ Started(sid)
        BY <2>1, <2>2 DEF RowType, InSession
    <2>4. "unlock_reason_changed" \in RowTypes /\ "none" \in Notes /\ t \in Int
        BY DEF RowTypes, Notes
    <2> HIDE DEF sid
    <2>5. base \in RowType /\ base.type = "unlock_reason_changed" /\ base.session = sid
        BY <1>1, <2>3, <2>4, PhoneRowType
    <2>6. base.tx = written[st] + 1
        BY DEF PhoneRow, ServerRow
    <2> HIDE DEF base
    <2>7. /\ row \in RowType /\ row.tx = written[st] + 1
          /\ row.type = "unlock_reason_changed" /\ row.session = sid
        BY <2>5, <2>6 DEF RowType, NoOrder
    <2>8. tx.rows = {row} /\ tx.parts = parts[st]
        BY DEF NoChange
    <2> HIDE DEF row, tx
    <2>9. NewRows(st, {row})
        BY <2>3, <2>7 DEF NewRows, InSession, HeldTypes
    <2>10. \A o \in SessionIds : Mute({row}, o)
        BY <2>7, MuteRows DEF MoveTypes, CoverTypes, QuietTypes
    <2>11. QED BY <2>8, <2>9, <2>10, MuteTells
<1> HIDE DEF sid, row
<1>3. QED BY <1>2, NoChangeTells DEF ChangeReason, sid, row

LEMMA HandleTells ==
    ASSUME Standing, NEW st \in Students, NEW n \in DOMAIN made[st], NEW t \in Nat,
           made[st][n].kind # "tap", Addressed(st, n)
    PROVE  Tells(st, Handle(st, n, t))
<1>1. made[st][n].kind \in Kinds
    BY StandingStint, MadeRecord DEF MadeType
<1>2. QED BY <1>1, UnlockTells, ChangeReasonTells, ChangeStateTells DEF Handle, Kinds

LEMMA ArmTapTells ==
    ASSUME Standing, NEW st \in Students, NEW n, NEW t
    PROVE  Tells(st, ArmTap(st, n, t))
<1>1. ASSUME NEW outcome, NEW rows
      PROVE  Tells(st, [NoChange(st, Answer(outcome, NoSession, "none")) EXCEPT !.armed = rows])
    <2> DEFINE base == NoChange(st, Answer(outcome, NoSession, "none"))
               tx == [base EXCEPT !.armed = rows]
    <2>1. tx.rows = base.rows /\ tx.parts = base.parts
        BY DEF NoChange
    <2>2. Tells(st, base)
        BY NoChangeTells
    <2> HIDE DEF base, tx
    <2>3. Tells(st, tx)
        BY <2>1, <2>2 DEF Tells
    <2>4. QED BY <2>3 DEF base, tx
<1>2. QED BY <1>1, NoChangeTells DEF ArmTap

(* The sweep opens a silence, of a focused phone; a check-in closes it. *)
LEMMA SilentTells ==
    ASSUME Standing, NEW st \in Students, NEW sid \in SessionIds, GoesSilent(parts[st][sid])
    PROVE  Tells(st, SilentTx(st, sid))
<1> DEFINE p == parts[st][sid]
           h == log[st]
           row == ServerRow(st, 2, "went_silent", sid, Clamp(now, sessions[sid]))
           tx == SilentTx(st, sid)
<1>1. /\ TypeOK /\ LogTold(st) /\ p \in PartType /\ Live(p) /\ p.state = "focused"
      /\ parts[st] \in [SessionIds -> PartType] /\ Started(sid)
    BY StandingStint DEF GoesSilent, TypeOK
<1>2. tx.rows = {row} /\ tx.parts = [parts[st] EXCEPT ![sid].silent = TRUE]
    BY DEF SilentTx, NoChange
<1>3. /\ row \in RowType /\ row.tx = written[st] + 1 /\ InSession(row)
      /\ row.type = "went_silent" /\ row.session = sid /\ row.note = "none"
    <2>1. now \in Int /\ "went_silent" \in RowTypes
        BY <1>1 DEF TypeOK, RowTypes
    <2>2. row \in RowType
        BY <1>1, <2>1, SessionClamp, ServerRowType
    <2>3. /\ row.tx = written[st] + 1 /\ row.type = "went_silent" /\ row.session = sid
          /\ row.note = "none" /\ row.at = Clamp(now, sessions[sid])
        BY DEF ServerRow
    <2> HIDE DEF row
    <2>4. QED BY <1>1, <2>1, <2>2, <2>3, HeldRow
<1> HIDE DEF row, tx
<1>4. NewRows(st, {row})
    BY <1>3 DEF NewRows
<1>5. ASSUME NEW o \in SessionIds, o # sid
      PROVE  StintTold(h \cup {row}, tx.parts[o], o, Open(o))
             /\ (tx.parts[o].ended # "no_row" => Started(o))
    <2>1. tx.parts[o] = parts[st][o]
        BY <1>1, <1>2, <1>5
    <2>2. Mute({row}, o)
        BY <1>3, <1>5, MuteRows
    <2>3. QED BY <1>1, <1>4, <2>1, <2>2, StandingStint, SameStint, NewAreNext
<1>6. /\ Moves({row}, sid) = {} /\ Cover({row}, sid) = {} /\ Turns({row}, sid) = {}
      /\ Quiets({row}, sid) = {row} /\ NewestIs({row}, {"went_silent"})
    <2>1. NewestIs({row}, {"went_silent"})
        BY <1>3, NewestOfOne
    <2>2. QED BY <1>3, <2>1 DEF Moves, Cover, Turns, Quiets, OnTime, Of, MoveTypes, CoverTypes,
                                QuietTypes
<1> DEFINE q == tx.parts[sid]
<1>7. q.state = p.state /\ q.silent = TRUE /\ q.ended = p.ended
    BY <1>1, <1>2 DEF PartType
<1>8. StintTold(h, p, sid, Open(sid))
    BY StandingStint
<1>9. /\ Came(h \cup {row}, sid) <=> Came(h, sid)
      /\ WentOff(h \cup {row}, sid) <=> WentOff(h, sid)
      /\ Silenced(h \cup {row}, sid)
      /\ Unlocked(h \cup {row}, sid) <=> Unlocked(h, sid)
    BY <1>1, <1>4, <1>6, Retold, NewAreNext
<1> HIDE DEF q, p, h
<1>10. StintTold(h \cup {row}, q, sid, Open(sid))
    BY <1>1, <1>7, <1>8, <1>9 DEF StintTold, StateTold, Live
<1>11. \A o \in SessionIds : /\ StintTold(h \cup {row}, tx.parts[o], o, Open(o))
                             /\ tx.parts[o].ended # "no_row" => Started(o)
    BY <1>1, <1>5, <1>10 DEF q
<1>12. Tells(st, tx)
    BY <1>2, <1>4, <1>11 DEF Tells, h
<1>13. QED BY <1>12 DEF tx

LEMMA CheckInTells ==
    ASSUME Standing, NEW st \in Students, NEW sid \in SessionIds, NEW t \in Nat,
           Live(parts[st][sid])
    PROVE  Tells(st, CheckInTx(st, sid, t))
<1> DEFINE p == parts[st][sid]
           tx == CheckInTx(st, sid, t)
           q == Heard(p)
<1>1. TypeOK /\ p \in PartType /\ parts[st] \in [SessionIds -> PartType] /\ Started(sid)
    BY StandingStint DEF TypeOK
<1>2. tx.rows = BackRows(st, sid, t) /\ tx.parts = [parts[st] EXCEPT ![sid] = q]
    BY <1>1 DEF CheckInTx, NoChange
<1>3. HeardAs(p, q, p.state)
    BY <1>1, HeardIs
<1>4. NewRows(st, {}) /\ Cover({}, sid) = {} /\ Turns({}, sid) = {}
    BY DEF NewRows, Cover, OnTime, Turns, Of
<1>5. StintTold(log[st], p, sid, Open(sid))
    BY StandingStint
<1> HIDE DEF p, q, tx
<1>6. tx.rows = {} \cup BackRows(st, sid, t)
    BY <1>2
<1>7. ContactLeaves(log[st], p, q, sid, {}) /\ ContactRows(sid, {})
    BY <1>3, <1>4, <1>5 DEF HeardAs, StintTold, StateTold, ContactLeaves, ContactState, ContactRows
<1>8. Tells(st, tx)
    BY <1>1, <1>2, <1>4, <1>6, <1>7, ContactTells DEF p
<1>9. QED BY <1>8 DEF tx

-----------------------------------------------------------------------------
(* A tap that lands. *)

(* A stint that a row of the transaction ends. *)
LEMMA LeftStint ==
    ASSUME TypeOK, NEW st \in Students, LogTold(st), NEW rows, NextRows(st, rows), NEW o,
           Moves(rows, o) # {}, \A e \in Moves(rows, o) : e.type # "tap_in",
           NEW q, ~Live(q), NEW open
    PROVE  StintTold(log[st] \cup rows, q, o, open)
<1>1. ~NewestIs(Moves(rows, o), {"tap_in"})
    BY NewestOfNone
<1>2. ~Came(log[st] \cup rows, o)
    BY <1>1, Retold
<1>3. QED BY <1>2 DEF StintTold

(* A stint that a tap of the transaction begins. *)
LEMMA JoinStint ==
    ASSUME TypeOK, NEW st \in Students, LogTold(st), NEW rows, NextRows(st, rows), NEW sid,
           NEW tap, tap \in rows, tap.type = "tap_in",
           Moves(rows, sid) = {tap}, Cover(rows, sid) = {tap},
           tap \in Quiets(rows, sid), \A e \in Quiets(rows, sid) : e.type # "went_silent",
           tap \in Turns(rows, sid),
           NEW q, Live(q), q.silent = FALSE, q.state # "protection_off",
           q.state = "unlocked" <=> NewestIs(Turns(rows, sid), {"unlock"})
    PROVE  StintTold(log[st] \cup rows, q, sid, TRUE)
<1>1. tap \in RowType
    BY DEF NextRows
<1>2. NewestIs({tap}, {"tap_in"}) /\ ~NewestIs({tap}, {"protection_off"})
    BY <1>1, NewestOfOne
<1>3. ~NewestIs(Quiets(rows, sid), {"went_silent"})
    BY NewestOfNone
<1>4. /\ Came(log[st] \cup rows, sid) /\ ~WentOff(log[st] \cup rows, sid)
      /\ ~Silenced(log[st] \cup rows, sid)
      /\ Unlocked(log[st] \cup rows, sid) <=> NewestIs(Turns(rows, sid), {"unlock"})
    <2>1. /\ Moves(rows, sid) # {} /\ Cover(rows, sid) # {} /\ Quiets(rows, sid) # {}
          /\ Turns(rows, sid) # {}
        OBVIOUS
    <2>2. QED BY <1>2, <1>3, <2>1, Retold
<1>5. QED BY <1>4 DEF StintTold, StateTold

(* The unlocks filed with the tap, each at a place of its own after it. *)
FiledAs(st, sid, h, p, f) ==
    /\ f \in RowType /\ f.tx = written[st] + 1 /\ InSession(f)
    /\ f.place > 1 /\ f.place =< 3 + written[st]
    /\ f.session = sid /\ f.type = "unlock"
    /\ \E at, order : f.note = UnlockNote(h, p, sid, at, order)

LEMMA FiledTells ==
    ASSUME Standing, NEW st \in Students, NEW n \in DOMAIN made[st],
           NEW sid \in SessionIds, Started(sid), NEW h, NEW p
    PROVE  \A f \in Filed(st, n, sid, h, p) : FiledAs(st, sid, h, p, f)
<1>1. TypeOK /\ LogTold(st)
    BY StandingStint
<1>2. \A f \in Filed(st, n, sid, h, p) : f \in RowType
    BY <1>1, FiledOK DEF RowOK
<1>3. ASSUME NEW e \in Kept(st, n)
      PROVE  /\ e \in RowType /\ e.tx =< written[st] /\ e.id \in DOMAIN made[st]
    <2>1. e \in log[st] /\ e.type = "unlock" /\ e.session = NoSession
        BY DEF Kept
    <2>2. QED BY <1>1, <2>1 DEF TypeOK, LogTold, Referring
<1>4. ASSUME NEW f \in Filed(st, n, sid, h, p)
      PROVE  FiledAs(st, sid, h, p, f)
    <2>1. PICK e \in Kept(st, n) :
              LET at == Clamp(made[st][e.id].at, sessions[sid])
              IN f = [ServerRow(st, 3 + e.tx, "unlock", sid, at) EXCEPT
                         !.order = KeptOrder(st, e.order), !.claim = n, !.from = e.id,
                         !.note = UnlockNote(h, p, sid, at, e.order)]
        BY DEF Filed
    <2>2. /\ f.tx = written[st] + 1 /\ f.place = 3 + e.tx /\ f.session = sid
          /\ f.type = "unlock" /\ f.at = Clamp(made[st][e.id].at, sessions[sid])
          /\ f.note = UnlockNote(h, p, sid, f.at, e.order)
        BY <2>1 DEF ServerRow
    <2>3. InSession(f)
        BY <1>1, <1>3, <2>2, RecordAt, HeldRow
    <2>4. e.tx \in Nat /\ written[st] \in Nat /\ e.tx =< written[st]
        BY <1>1, <1>3 DEF RowType, TypeOK
    <2>5. f.place > 1 /\ f.place =< 3 + written[st]
        BY <2>2, <2>4
    <2>6. QED BY <1>2, <2>2, <2>3, <2>5 DEF FiledAs
<1>5. QED BY <1>4

(* Of unlocks filed in one transaction, the newest is one; the tap is before them. *)
LEMMA NewestFiled ==
    ASSUME NEW w \in Nat, NEW b \in Nat, NEW F \in SUBSET RowType, F # {},
           \A f \in F : f.tx = w /\ f.place =< b /\ f.place > 1 /\ f.type = "unlock",
           NEW T \in SUBSET RowType, \A e \in T : e.tx = w /\ e.place = 1
    PROVE  NewestIs(T \cup F, {"unlock"})
<1> DEFINE places == {f.place : f \in F}
<1>1. places \in SUBSET Int /\ places # {} /\ b \in Int /\ \A i \in places : i =< b
    BY DEF RowType
<1> HIDE DEF places
<1>2. PICK i \in places : \A j \in places : j =< i
    BY <1>1, SomeGreatest
<1>3. PICK f \in F : f.place = i
    BY DEF places
<1>4. \A g \in F : g.place =< f.place
    BY <1>2, <1>3 DEF places
<1>5. \A g \in T \cup F : ~After(g, f)
    BY <1>4 DEF After, RowType
<1>6. QED BY <1>3, <1>5 DEF NewestIs

(* The rows of a tap that lands, and the stints it leaves. *)
LEMMA LandTapTells ==
    ASSUME Standing, NEW st \in Students, NEW n \in DOMAIN made[st],
           NEW sid \in SessionIds, NEW t \in Nat, Open(sid)
    PROVE  Tells(st, LandTap(st, n, sid, t))
<1> DEFINE s == sessions[sid]
           p == parts[st][sid]
           h == log[st]
           at == Clamp(made[st][n].at, s)
           late == \/ MadeSince(log[st], sid, s, Order(st, n), "unlock")
                   \/ TappedSince(log[st], Order(st, n), sid)
           tap == PhoneRow(st, n, "tap_in", sid, at, IF late THEN "superseded" ELSE "none")
           ps == IF late THEN [parts[st] EXCEPT ![sid] = Heard(p)] ELSE JoinedOnly(parts[st], sid)
           filed == Filed(st, n, sid, log[st] \cup {tap}, ps[sid])
           state == IF \E e \in filed : e.note = "none" THEN "unlocked" ELSE ps[sid].state
           back == BackRows(st, sid, t)
           left == IF late THEN {} ELSE LeftRows(st, parts[st], sid, at)
           rows == {tap} \cup filed \cup back \cup left
           qs == [ps EXCEPT ![sid].state = state]
           tx == LandTap(st, n, sid, t)
<1>1. TypeOK /\ LogTold(st) /\ parts[st] \in [SessionIds -> PartType] /\ Started(sid)
      /\ written[st] \in Nat
    BY StandingStint DEF TypeOK, Open
<1>2. tx.rows = rows /\ tx.parts = qs
    BY DEF LandTap
<1>3. /\ tap \in RowType /\ tap.tx = written[st] + 1 /\ InSession(tap) /\ tap.place = 1
      /\ tap.type = "tap_in" /\ tap.session = sid
      /\ tap.note = IF late THEN "superseded" ELSE "none"
    <2>1. (IF late THEN "superseded" ELSE "none") \in Notes /\ "tap_in" \in RowTypes
        BY DEF Notes, RowTypes
    <2> HIDE DEF late
    <2>2. QED BY <1>1, <2>1, PhoneRowNew
<1>4. \A f \in filed : FiledAs(st, sid, log[st] \cup {tap}, ps[sid], f)
    <2> HIDE DEF tap, ps
    <2>1. QED BY <1>1, FiledTells
<1>5. /\ NewRows(st, back)
      /\ \A e \in back : e.session = sid /\ e.type = "came_back" /\ e.note = "none"
      /\ back # {} <=> Live(p) /\ p.silent
    BY BackRowsTell
<1>6. ASSUME NEW e \in LeftRows(st, parts[st], sid, at)
      PROVE  /\ e \in RowType /\ e.tx = written[st] + 1 /\ InSession(e)
             /\ e.type = "left_for_other_session" /\ e.note = "none"
             /\ e.session \in LiveElsewhere(parts[st], sid)
    <2>1. PICK o \in LiveElsewhere(parts[st], sid) :
              e = ServerRow(st, 2, "left_for_other_session", o, at)
        BY DEF LeftRows
    <2>2. o \in SessionIds /\ Started(o)
        BY <2>1, StandingStint DEF LiveElsewhere
    <2>3. at \in Int /\ "left_for_other_session" \in RowTypes
          /\ "left_for_other_session" \notin HeldTypes
        BY <1>1, RecordClamp DEF RowTypes, HeldTypes
    <2> HIDE DEF at
    <2>4. QED BY <1>1, <2>1, <2>2, <2>3, ServerRowNew
<1>7. NewRows(st, rows) /\ NextRows(st, rows)
    <2> HIDE DEF tap, filed, back, at, late
    <2>1. QED BY <1>3, <1>4, <1>5, <1>6 DEF FiledAs, NewRows, NextRows
<1>8. \A o \in SessionIds : StintTold(h, parts[st][o], o, Open(o)) /\ parts[st][o] \in PartType
                            /\ (parts[st][o].ended # "no_row" => Started(o))
    BY StandingStint
(* The notes filed unlocks get. *)
<1>9. \A f \in filed :
          Live(ps[sid]) =>
              /\ f.note \in {"none", "superseded", "protection_off"}
              /\ f.note = "none" => ps[sid].state # "protection_off"
              /\ f.note = "protection_off" => ps[sid].state = "protection_off"
    <2> DEFINE g == log[st] \cup {tap}
               r == ps[sid]
    <2>1. \A b, order : Live(r) =>
              /\ UnlockNote(g, r, sid, b, order) \in {"none", "superseded", "protection_off"}
              /\ UnlockNote(g, r, sid, b, order) = "none" => r.state # "protection_off"
              /\ UnlockNote(g, r, sid, b, order) = "protection_off" => r.state = "protection_off"
        <3> HIDE DEF g, r
        <3>1. QED BY DEF UnlockNote
    <2> HIDE DEF g, r, filed
    <2>2. QED BY <1>4, <2>1 DEF FiledAs, g, r
<1>10. ASSUME NEW T \in SUBSET {tap}
       PROVE  LET F == {f \in filed : f.note # "superseded"}
              IN F # {} => NewestIs(T \cup F, {"unlock"})
    <2> DEFINE F == {f \in filed : f.note # "superseded"}
    <2> HIDE DEF tap, filed
    <2>1. /\ F \in SUBSET RowType
          /\ \A f \in F : /\ f.tx = written[st] + 1 /\ f.place =< 3 + written[st]
                          /\ f.place > 1 /\ f.type = "unlock"
        BY <1>4 DEF FiledAs
    <2>2. T \in SUBSET RowType /\ \A e \in T : e.tx = written[st] + 1 /\ e.place = 1
        BY <1>3
    <2>3. written[st] + 1 \in Nat /\ 3 + written[st] \in Nat
        BY <1>1
    <2> HIDE DEF F
    <2>4. F # {} => NewestIs(T \cup F, {"unlock"})
        BY <2>1, <2>2, <2>3, NewestFiled
    <2>5. QED BY <2>4 DEF F
<1> HIDE DEF tap, filed, back, at
<1>11. ASSUME late
       PROVE  Tells(st, tx)
    <2> DEFINE F == {f \in filed : f.note # "superseded"}
               q == qs[sid]
    <2>1. left = {} /\ rows = {tap} \cup filed \cup back /\ tap.note = "superseded"
        BY <1>3, <1>11
    <2>2. /\ Moves(rows, sid) = {} /\ Cover(rows, sid) = {} /\ Quiets(rows, sid) = back
          /\ Turns(rows, sid) = F
        <3>1. \A e \in rows : e.session = sid
            BY <1>3, <1>4, <1>5, <2>1 DEF FiledAs
        <3>2. \A e \in rows : \/ e = tap /\ e.type = "tap_in" /\ e.note = "superseded"
                              \/ e \in filed /\ e.type = "unlock"
                              \/ e \in back /\ e.type = "came_back" /\ e.note = "none"
            BY <1>3, <1>4, <1>5, <2>1 DEF FiledAs
        <3>3. filed \subseteq rows /\ back \subseteq rows
            BY <2>1
        <3> HIDE DEF rows
        <3>4. Moves(rows, sid) = {} /\ Cover(rows, sid) = {}
            BY <3>2 DEF Moves, Cover, OnTime, Of, MoveTypes, CoverTypes
        <3>5. Quiets(rows, sid) = back
            BY <3>1, <3>2, <3>3, <1>5 DEF Quiets, OnTime, Of, QuietTypes
        <3>6. \A f \in filed : f.session = sid /\ f.type = "unlock"
            BY <1>4 DEF FiledAs
        <3>7. Turns(rows, sid) = F
            BY <3>1, <3>2, <3>3, <3>6 DEF Turns, Of
        <3>8. QED BY <3>4, <3>5, <3>7
    <2>3. ps = [parts[st] EXCEPT ![sid] = Heard(p)] /\ ps[sid] = Heard(p)
        BY <1>1, <1>11
    <2>4. HeardAs(p, Heard(p), p.state) /\ Heard(p) \in PartType /\ p \in PartType
        BY <1>1, HeardIs, HeardType
    <2>5. /\ q.ended = p.ended /\ q.silent = (IF Live(p) THEN FALSE ELSE p.silent)
          /\ q.state = state
          /\ \A o \in SessionIds : o # sid => qs[o] = parts[st][o]
        <3>1. qs = [parts[st] EXCEPT ![sid] = [Heard(p) EXCEPT !.state = state]]
            BY <1>1, <2>3
        <3>2. q = [Heard(p) EXCEPT !.state = state]
            BY <1>1, <3>1
        <3>3. HeardAs(p, [Heard(p) EXCEPT !.state = state], state)
            BY <2>4, HeardIs
        <3>4. \A o \in SessionIds : o # sid => qs[o] = parts[st][o]
            BY <1>1, <3>1
        <3> HIDE DEF qs, state
        <3>5. QED BY <3>2, <3>3, <3>4 DEF HeardAs
    <2>6. state = IF \E e \in filed : e.note = "none" THEN "unlocked" ELSE p.state
        BY <2>3, <2>4 DEF HeardAs
    <2>7. Live(p) => Live(ps[sid]) /\ ps[sid].state = p.state
        BY <2>3, <2>4 DEF HeardAs, Live
    <2>8. ASSUME NEW o \in SessionIds, o # sid
          PROVE  /\ StintTold(h \cup rows, qs[o], o, Open(o))
                 /\ qs[o].ended # "no_row" => Started(o)
        <3>1. Mute(rows, o)
            <4>1. \A e \in rows : e.session # o
                BY <1>3, <1>4, <1>5, <2>1, <2>8 DEF FiledAs
            <4> HIDE DEF rows
            <4>2. QED BY <4>1, MuteRows
        <3>2. qs[o] = parts[st][o]
            BY <2>5, <2>8
        <3> HIDE DEF rows, qs
        <3>3. QED BY <1>1, <1>7, <1>8, <3>1, <3>2, SameStint
    <2>9. /\ Came(h \cup rows, sid) <=> Came(h, sid)
          /\ WentOff(h \cup rows, sid) <=> WentOff(h, sid)
          /\ Silenced(h \cup rows, sid) <=> IF back = {} THEN Silenced(h, sid)
                                            ELSE NewestIs(back, {"went_silent"})
          /\ Unlocked(h \cup rows, sid) <=> IF F = {} THEN Unlocked(h, sid)
                                            ELSE NewestIs(F, {"unlock"})
        <3> HIDE DEF rows, F
        <3>1. QED BY <1>1, <1>7, <2>2, Retold
    <2>10. ~NewestIs(back, {"went_silent"})
        BY <1>5, NewestOfNone
    <2>11. F # {} => NewestIs(F, {"unlock"})
        <3>1. {} \cup F = F
            OBVIOUS
        <3>2. QED BY <1>10, <3>1
    <2>12. StintTold(h, p, sid, Open(sid))
        BY <1>8
    <2> HIDE DEF rows, qs, q, h, p, ps, state
    <2>13. ASSUME Live(p)
           PROVE  StateTold(h \cup rows, q, sid)
        <3>1. q.silent = FALSE /\ ~Silenced(h \cup rows, sid)
            BY <1>5, <2>5, <2>9, <2>10, <2>12, <2>13 DEF StintTold, StateTold
        <3>2. \A f \in filed : /\ f.note \in {"none", "superseded", "protection_off"}
                               /\ f.note = "none" => p.state # "protection_off"
                               /\ f.note = "protection_off" => p.state = "protection_off"
            BY <1>9, <2>7, <2>13
        <3>3. q.state = "protection_off" <=> p.state = "protection_off"
            BY <2>5, <2>6, <3>2
        <3>4. q.state = "protection_off" <=> WentOff(h \cup rows, sid)
            BY <2>9, <2>12, <2>13, <3>3 DEF StintTold, StateTold
        <3>5. ASSUME q.state # "protection_off"
              PROVE  q.state = "unlocked" <=> Unlocked(h \cup rows, sid)
            <4>1. CASE F = {}
                BY <2>5, <2>6, <2>9, <2>12, <2>13, <3>3, <3>5, <4>1 DEF StintTold, StateTold
            <4>2. CASE F # {}
                BY <2>5, <2>6, <2>9, <2>11, <3>2, <3>3, <3>5, <4>2
            <4>3. QED BY <4>1, <4>2
        <3>6. QED BY <3>1, <3>4, <3>5 DEF StateTold
    <2>14. Live(q) <=> Live(p)
        BY <2>5 DEF Live
    <2>15. StintTold(h \cup rows, q, sid, Open(sid))
        BY <2>9, <2>12, <2>13, <2>14 DEF StintTold
    <2>16. \A o \in SessionIds : /\ StintTold(h \cup rows, qs[o], o, Open(o))
                                 /\ qs[o].ended # "no_row" => Started(o)
        BY <1>1, <2>8, <2>15 DEF q
    <2>17. QED BY <1>2, <1>7, <2>16 DEF Tells, h
<1>12. ASSUME ~late
       PROVE  Tells(st, tx)
    <2> DEFINE F == {f \in filed : f.note # "superseded"}
               q == qs[sid]
               lefts == LeftRows(st, parts[st], sid, at)
    <2>1. left = lefts /\ rows = {tap} \cup filed \cup back \cup lefts /\ tap.note = "none"
        BY <1>3, <1>12
    <2>2. \A o \in SessionIds : ps[o] = IF o = sid THEN Fresh
              ELSE IF Live(parts[st][o])
                   THEN [parts[st][o] EXCEPT !.ended = "left_for_other_session"]
                   ELSE parts[st][o]
        BY <1>12 DEF JoinedOnly, LiveElsewhere
    <2>3. ps \in [SessionIds -> PartType]
        BY <1>1, <1>12, JoinedOnlyOK
    <2>4. /\ q.ended = "live" /\ q.silent = FALSE /\ q.state = state
          /\ \A o \in SessionIds : o # sid => qs[o] = ps[o]
        <3>1. ps[sid] = Fresh
            BY <2>2
        <3> HIDE DEF ps, state
        <3>2. q = [Fresh EXCEPT !.state = state]
            BY <2>3, <3>1
        <3>3. \A o \in SessionIds : o # sid => qs[o] = ps[o]
            BY <2>3
        <3>4. QED BY <3>2, <3>3 DEF Fresh
    <2>5. /\ state = IF \E e \in filed : e.note = "none" THEN "unlocked" ELSE "focused"
          /\ Live(ps[sid]) /\ ps[sid].state = "focused"
        <3>1. ps[sid] = Fresh
            BY <2>2
        <3> HIDE DEF ps
        <3>2. Live(ps[sid]) /\ ps[sid].state = "focused"
            BY <3>1 DEF Live, Fresh
        <3>3. QED BY <3>2
    <2>6. Live(ps[sid]) /\ ps[sid].state = "focused"
        BY <2>5
    <2>7. \A f \in filed : f.note \in {"none", "superseded"}
        BY <1>9, <2>6
    <2> HIDE DEF ps, state, qs
    <2>8. \A e \in rows :
              \/ e = tap /\ e.session = sid /\ e.type = "tap_in" /\ e.note = "none"
              \/ e \in filed /\ e.session = sid /\ e.type = "unlock"
              \/ e \in back /\ e.session = sid /\ e.type = "came_back" /\ e.note = "none"
              \/ /\ e \in lefts /\ e.session \in LiveElsewhere(parts[st], sid)
                 /\ e.type = "left_for_other_session" /\ e.note = "none"
        BY <1>3, <1>4, <1>5, <1>6, <2>1 DEF FiledAs
    <2>9. tap \in rows /\ filed \subseteq rows /\ lefts \subseteq rows
          /\ \A f \in filed : f.session = sid /\ f.type = "unlock"
        BY <1>4, <2>1 DEF FiledAs
    <2> HIDE DEF rows, lefts
    <2>10. ASSUME NEW o \in SessionIds, o # sid
           PROVE  /\ StintTold(h \cup rows, qs[o], o, Open(o))
                  /\ qs[o].ended # "no_row" => Started(o)
        <3>1. qs[o] = IF Live(parts[st][o])
                      THEN [parts[st][o] EXCEPT !.ended = "left_for_other_session"]
                      ELSE parts[st][o]
            BY <2>2, <2>4, <2>10
        <3>2. CASE ~Live(parts[st][o])
            <4>1. Mute(rows, o)
                <5>1. \A e \in rows : e.session # o
                    BY <2>8, <2>10, <3>2 DEF LiveElsewhere
                <5>2. QED BY <5>1, MuteRows
            <4>2. QED BY <1>1, <1>7, <1>8, <3>1, <3>2, <4>1, SameStint
        <3>3. CASE Live(parts[st][o])
            <4> DEFINE row == ServerRow(st, 2, "left_for_other_session", o, at)
            <4>1. row \in lefts
                BY <2>10, <3>3 DEF lefts, LeftRows, LiveElsewhere
            <4>2. row.session = o /\ row.type = "left_for_other_session" /\ row.note = "none"
                BY DEF ServerRow
            <4> HIDE DEF row
            <4>3. row \in Moves(rows, o)
                BY <2>9, <4>1, <4>2 DEF Moves, OnTime, Of, MoveTypes
            <4>4. \A e \in Moves(rows, o) : e.type # "tap_in"
                BY <2>8, <2>10 DEF Moves, OnTime, Of, MoveTypes
            <4>5. ~Live(qs[o]) /\ Started(o)
                BY <1>8, <3>1, <3>3, StandingStint DEF Live, PartType
            <4>6. QED BY <1>1, <1>7, <4>3, <4>4, <4>5, LeftStint
        <3>4. QED BY <3>2, <3>3
    <2>11. \A e \in rows : e.session = sid =>
               \/ e = tap /\ e.type = "tap_in" /\ e.note = "none"
               \/ e \in filed /\ e.type = "unlock"
               \/ e \in back /\ e.type = "came_back" /\ e.note = "none"
        BY <2>8 DEF LiveElsewhere
    <2>12. Moves(rows, sid) = {tap} /\ Cover(rows, sid) = {tap}
        BY <1>3, <2>1, <2>9, <2>11 DEF Moves, Cover, OnTime, Of, MoveTypes, CoverTypes
    <2>13. tap \in Quiets(rows, sid) /\ \A e \in Quiets(rows, sid) : e.type # "went_silent"
        BY <1>3, <2>1, <2>9, <2>11 DEF Quiets, OnTime, Of, QuietTypes
    <2>14. Turns(rows, sid) = {tap} \cup F
        BY <1>3, <2>1, <2>9, <2>11 DEF Turns, Of
    <2>15. q.state = "unlocked" <=> NewestIs(Turns(rows, sid), {"unlock"})
        <3>1. CASE F = {}
            <4>1. ~NewestIs({tap}, {"unlock"})
                BY <1>3, NewestOfOne
            <4>2. \A f \in filed : f.note # "none"
                BY <3>1
            <4>3. q.state = "focused" /\ Turns(rows, sid) = {tap}
                BY <2>4, <2>5, <2>14, <3>1, <4>2
            <4> HIDE DEF q
            <4>4. QED BY <4>1, <4>3
        <3>2. CASE F # {}
            <4>1. NewestIs({tap} \cup F, {"unlock"})
                BY <1>10, <3>2
            <4>2. \E f \in filed : f.note = "none"
                BY <2>7, <3>2
            <4>3. q.state = "unlocked"
                BY <2>4, <2>5, <4>2
            <4> HIDE DEF q, F
            <4>4. QED BY <2>14, <4>1, <4>3
        <3>3. QED BY <3>1, <3>2
    <2>16. Live(q) /\ q.state # "protection_off" /\ q.silent = FALSE
        BY <2>4, <2>5 DEF Live
    <2> HIDE DEF q
    <2>17. StintTold(h \cup rows, q, sid, TRUE)
        BY <1>1, <1>3, <1>7, <2>9, <2>12, <2>13, <2>14, <2>15, <2>16, JoinStint
    <2>18. StintTold(h \cup rows, q, sid, Open(sid))
        BY <2>17 DEF StintTold
    <2>19. \A o \in SessionIds : /\ StintTold(h \cup rows, qs[o], o, Open(o))
                                 /\ qs[o].ended # "no_row" => Started(o)
        BY <1>1, <2>10, <2>18 DEF q
    <2>20. QED BY <1>2, <1>7, <2>19 DEF Tells
<1>13. QED BY <1>11, <1>12

LEMMA TapInTells ==
    ASSUME Standing, NEW st \in Students, NEW n \in DOMAIN made[st],
           NEW sid \in SessionIds, NEW t \in Nat
    PROVE  Tells(st, TapIn(st, n, sid, t))
<1>1. Tells(st, ReplayTap(st, n, t))
    BY NoChangeTells DEF ReplayTap
<1>2. ASSUME Running(sessions[sid], t), IsIn(st, sid)
      PROVE  Open(sid)
    BY <1>2, StandingStint, RunningIsOpen
<1>3. QED BY <1>1, <1>2, NoChangeTells, LandTapTells DEF TapIn

LEMMA OwnTxTells ==
    ASSUME Standing, NEW st \in Students, NEW tx, OwnTx(st, tx)
    PROVE  Tells(st, tx)
BY HandleTells, TapInTells, ArmTapTells, SilentTells, CheckInTells DEF OwnTx

-----------------------------------------------------------------------------
(* Steps. *)

StudentTold(st) ==
    /\ LogTold(st)
    /\ \A sid \in SessionIds :
          /\ StintTold(log[st], parts[st][sid], sid, Open(sid))
          /\ parts[st][sid].ended # "no_row" => Started(sid)

(* A lesson that started has started, with its window only longer; one open   *)
(* that had started was open.                                                 *)
LEMMA LessonsGrow ==
    ASSUME Standing, IInv', [Next]_vars, NEW o \in SessionIds, Started(o)
    PROVE  /\ Started(o)' /\ sessions'[o].startedAt = sessions[o].startedAt
           /\ sessions'[o].endsAt >= sessions[o].endsAt
           /\ Open(o)' => Open(o)
<1>1. sessions[o] \in SessionType /\ sessions'[o] \in SessionType
    BY DEF Standing, IInv, TypeOK
<1>2. Follows(sessions[o], sessions'[o])
    BY NextBells DEF BellKept, Standing
<1>3. QED BY <1>1, <1>2 DEF Follows, Started, Open, SessionType

LEMMA StillInSession ==
    ASSUME Standing, IInv', [Next]_vars, NEW e \in RowType, InSession(e)
    PROVE  InSession(e)'
<1>1. SUFFICES ASSUME e.session # NoSession
               PROVE  /\ Started(e.session)'
                      /\ e.type \in HeldTypes => InWindow(e, sessions'[e.session])
    BY DEF InSession, InWindow
<1> DEFINE o == e.session
<1>2. o \in SessionIds /\ Started(o) /\ (e.type \in HeldTypes => InWindow(e, sessions[o]))
    BY <1>1 DEF RowType, InSession
<1>3. sessions[o] \in SessionType /\ sessions'[o] \in SessionType
    BY <1>2 DEF Standing, IInv, TypeOK
<1>4. /\ Started(o)' /\ sessions'[o].startedAt = sessions[o].startedAt
      /\ sessions'[o].endsAt >= sessions[o].endsAt
    BY <1>2, LessonsGrow
<1>5. e.at \in Int
    BY DEF RowType
<1> HIDE DEF o
<1>6. Started(o)' /\ (e.type \in HeldTypes => InWindow(e, sessions'[o]))
    BY <1>2, <1>3, <1>4, <1>5 DEF InWindow, SessionType
<1>7. QED BY <1>6 DEF o

(* No row is of a session not started. *)
LEMMA NothingBefore ==
    ASSUME NEW st, LogTold(st), NEW sid \in SessionIds, ~Started(sid)
    PROVE  ~Came(log[st], sid)
<1>1. sid # NoSession
    BY DEF SessionIds, NoSession
<1>2. Moves(log[st], sid) = {}
    BY <1>1 DEF LogTold, InSession, Moves, OnTime, Of
<1>3. QED BY <1>2 DEF Came, NewestIs

(* The student's transaction, committed with the lessons as they were. *)
LEMMA WritesTold ==
    ASSUME Standing, IInv', [Next]_vars, NEW st \in Students, NEW tx, Tells(st, tx),
           log'[st] = log[st] \cup tx.rows, parts'[st] = tx.parts, sessions' = sessions,
           written'[st] = written[st] + 1 \/ (tx.rows = {} /\ written'[st] = written[st])
    PROVE  StudentTold(st)'
<1>1. TypeOK /\ LogTold(st) /\ written[st] \in Nat
    BY StandingStint DEF TypeOK
<1>2. ASSUME NEW e \in log'[st]
      PROVE  e.tx =< written'[st] /\ InSession(e)'
    <2>1. CASE e \in log[st]
        <3>1. e \in RowType /\ e.tx =< written[st] /\ InSession(e) /\ e.tx \in Nat
            BY <1>1, <2>1 DEF TypeOK, LogTold, RowType
        <3>2. QED BY <1>1, <3>1, StillInSession
    <2>2. CASE e \in tx.rows
        <3>1. e \in RowType /\ e.tx = written[st] + 1 /\ InSession(e)
            BY <2>2 DEF Tells, NewRows
        <3>2. QED BY <1>1, <2>2, <3>1, StillInSession
    <2>3. QED BY <1>2, <2>1, <2>2
<1>3. \A sid \in SessionIds : (Open(sid)' <=> Open(sid)) /\ (Started(sid)' <=> Started(sid))
    BY DEF Open, Started
<1>4. ASSUME NEW sid \in SessionIds
      PROVE  /\ StintTold(log'[st], parts'[st][sid], sid, Open(sid)')
             /\ parts'[st][sid].ended # "no_row" => Started(sid)'
    <2>1. /\ StintTold(log[st] \cup tx.rows, tx.parts[sid], sid, Open(sid))
          /\ tx.parts[sid].ended # "no_row" => Started(sid)
        BY DEF Tells
    <2>2. QED BY <1>3, <2>1 DEF StintTold
<1>5. QED BY <1>2, <1>4 DEF StudentTold, LogTold, StintTold, StateTold, Came, WentOff, Silenced,
                            Unlocked, Moves, Cover, Quiets, Turns, OnTime, Of, NewestIs, After, Live

LEMMA RestsTold ==
    ASSUME Standing, IInv', [Next]_vars, NEW st \in Students, Rests(st)
    PROVE  StudentTold(st)'
<1>1. TypeOK /\ LogTold(st)
    BY StandingStint
<1>2. ASSUME NEW e \in log'[st]
      PROVE  e.tx =< written'[st] /\ InSession(e)'
    <2>1. e \in RowType /\ e.tx =< written[st] /\ InSession(e)
        BY <1>1, <1>2 DEF Rests, TypeOK, LogTold
    <2>2. QED BY <2>1, StillInSession DEF Rests
<1>3. ASSUME NEW sid \in SessionIds
      PROVE  /\ StintTold(log'[st], parts'[st][sid], sid, Open(sid)')
             /\ parts'[st][sid].ended # "no_row" => Started(sid)'
    <2> DEFINE p == parts[st][sid]
               q == parts'[st][sid]
               h == log[st]
    <2>1. /\ StintTold(h, p, sid, Open(sid)) /\ (p.ended # "no_row" => Started(sid))
        BY StandingStint
    <2>2. /\ log'[st] = h /\ q.state = p.state /\ q.silent = p.silent
          /\ Live(q) <=> Live(p) /\ Open(sid)'
          /\ q.ended = "no_row" <=> p.ended = "no_row"
        BY DEF Rests
    <2>3. Open(sid)' /\ Came(h, sid) => Open(sid)
        BY <1>1, NothingBefore, LessonsGrow
    <2>4. Started(sid) => Started(sid)'
        BY LessonsGrow
    <2> HIDE DEF p, q, h
    <2>5. StintTold(h, q, sid, Open(sid)')
        BY <2>1, <2>2, <2>3 DEF StintTold, StateTold
    <2>6. QED BY <2>1, <2>2, <2>4, <2>5 DEF q
<1>4. QED BY <1>2, <1>3 DEF StudentTold, LogTold, StintTold, StateTold, Came, WentOff, Silenced,
                            Unlocked, Moves, Cover, Quiets, Turns, OnTime, Of, NewestIs, After, Live

LEMMA DoesTold ==
    ASSUME Standing, IInv', [Next]_vars, NEW st \in Students, NEW tx, OwnTx(st, tx), Does(st, tx)
    PROVE  StudentTold(st)'
<1>1. Tells(st, tx)
    BY OwnTxTells
<1>2. QED BY <1>1, WritesTold DEF Does

LEMMA JoinClassTold ==
    ASSUME Standing, IInv', [Next]_vars, NEW st \in Students, NEW c \in Classes, JoinClass(st, c)
    PROVE  StudentTold(st)'
<1> DEFINE row == ServerRow(st, 1, "enrollment_joined", NoSession, now)
           tx == [rows |-> {row}, parts |-> parts[st]]
<1>1. TypeOK
    BY StandingStint
<1>2. now \in Int /\ "enrollment_joined" \in RowTypes /\ "enrollment_joined" \notin HeldTypes
    BY <1>1 DEF TypeOK, RowTypes, HeldTypes
<1>3. /\ row \in RowType /\ row.tx = written[st] + 1 /\ InSession(row)
      /\ row.type = "enrollment_joined" /\ row.session = NoSession
    BY <1>1, <1>2, ServerRowNew
<1>4. tx.rows = {row} /\ tx.parts = parts[st]
    OBVIOUS
<1>5. /\ log'[st] = log[st] \cup {row} /\ written'[st] = written[st] + 1
      /\ parts' = parts /\ sessions' = sessions
    BY <1>1 DEF JoinClass, TypeOK
<1> HIDE DEF row, tx
<1>6. NewRows(st, {row})
    BY <1>3 DEF NewRows
<1>7. \A sid \in SessionIds : Mute({row}, sid)
    BY <1>3, MuteRows DEF MoveTypes, CoverTypes, QuietTypes
<1>8. Tells(st, tx)
    BY <1>4, <1>6, <1>7, MuteTells
<1>9. QED BY <1>4, <1>5, <1>8, WritesTold

(* The enrollments that end, with the stints in the open lessons of theirs. *)
DropTx(st, cs, type, t, reason, rest) ==
    [rows |-> DroppedRows(st, cs, type, t) \cup rest, parts |-> DroppedParts(st, cs, reason)]

LEMMA DroppedTell ==
    ASSUME Standing, NEW st \in Students, NEW cs, NEW t \in Nat, NEW reason \in Endings,
           NEW type \in {"enrollment_left", "enrollment_removed"},
           NEW rest, NewRows(st, rest), \A e \in rest : e.type = "account_deleted"
    PROVE  Tells(st, DropTx(st, cs, type, t, reason, rest))
<1> DEFINE stints == {o \in SessionIds : Open(o) /\ sessions[o].class \in cs /\ Live(parts[st][o])}
           dropped == DroppedRows(st, cs, type, t)
           rows == dropped \cup rest
           qs == DroppedParts(st, cs, reason)
           named(o) == ServerRow(st, 2, type, o, Clamp(t, sessions[o]))
           tx == DropTx(st, cs, type, t, reason, rest)
<1>1. /\ TypeOK /\ LogTold(st) /\ type \in RowTypes /\ type \notin HeldTypes
      /\ type \in MoveTypes /\ type # "tap_in"
    BY StandingStint DEF RowTypes, HeldTypes, MoveTypes
<1>2. ASSUME NEW o \in stints
      PROVE  /\ named(o) \in RowType /\ named(o).tx = written[st] + 1 /\ InSession(named(o))
             /\ named(o).type = type /\ named(o).session = o /\ named(o).note = "none"
             /\ named(o) \in dropped
    <2>1. Started(o) /\ Clamp(t, sessions[o]) \in Int
        BY <1>1, StandingStint, SessionClamp
    <2>2. named(o) \in dropped
        BY DEF DroppedRows
    <2>3. QED BY <1>1, <2>1, <2>2, ServerRowNew
<1>3. ASSUME NEW e \in dropped
      PROVE  /\ e \in RowType /\ e.tx = written[st] + 1 /\ InSession(e)
             /\ e.type = type /\ e.session \in stints \cup {NoSession}
    <2>1. CASE \E o \in stints : e = named(o)
        <3> HIDE DEF named
        <3>1. QED BY <1>2, <2>1
    <2>2. CASE e = ServerRow(st, 2, type, NoSession, t)
        <3> DEFINE row == ServerRow(st, 2, type, NoSession, t)
        <3>1. /\ row \in RowType /\ row.tx = written[st] + 1 /\ InSession(row)
              /\ row.type = type /\ row.session = NoSession
            BY <1>1, ServerRowNew
        <3> HIDE DEF row
        <3>2. QED BY <2>2, <3>1 DEF row
    <2>3. QED BY <2>1, <2>2 DEF DroppedRows
<1> HIDE DEF named, dropped
<1>4. NewRows(st, rows) /\ NextRows(st, rows)
    BY <1>3, NewAreNext DEF NewRows
<1>5. \A e \in rows : \/ e \in dropped /\ e.type = type /\ e.session \in stints \cup {NoSession}
                      \/ e.type = "account_deleted"
    BY <1>3
<1>6. dropped \subseteq rows
    OBVIOUS
<1>7. \A o \in SessionIds : qs[o] = IF o \in stints THEN [parts[st][o] EXCEPT !.ended = reason]
                                    ELSE parts[st][o]
    BY DEF DroppedParts
<1>8. tx.rows = rows /\ tx.parts = qs
    BY DEF DropTx, dropped
<1> HIDE DEF rows, qs, tx
<1>9. ASSUME NEW o \in SessionIds
      PROVE  /\ StintTold(log[st] \cup rows, qs[o], o, Open(o))
             /\ qs[o].ended # "no_row" => Started(o)
    <2>1. /\ parts[st][o] \in PartType /\ StintTold(log[st], parts[st][o], o, Open(o))
          /\ parts[st][o].ended # "no_row" => Started(o)
          /\ o # NoSession
        BY StandingStint DEF SessionIds, NoSession
    <2>2. CASE o \in stints
        <3>1. named(o) \in Moves(rows, o)
            BY <1>1, <1>2, <1>6, <2>2 DEF Moves, OnTime, Of
        <3>2. \A e \in Moves(rows, o) : e.type # "tap_in"
            BY <1>1, <1>5 DEF Moves, OnTime, Of
        <3>3. ~Live(qs[o])
            <4>1. qs[o].ended = reason
                BY <1>7, <2>1, <2>2 DEF PartType
            <4>2. QED BY <4>1 DEF Live, Endings
        <3>4. Started(o)
            BY <2>2 DEF Open
        <3>5. QED BY <1>1, <1>4, <3>1, <3>2, <3>3, <3>4, LeftStint
    <2>3. CASE o \notin stints
        <3>1. Mute(rows, o)
            <4>1. \A e \in rows : e.session = o => e.type = "account_deleted"
                BY <1>5, <2>1, <2>3
            <4>2. QED BY <4>1, MuteRows DEF MoveTypes, CoverTypes, QuietTypes
        <3>2. qs[o] = parts[st][o]
            BY <1>7, <2>3
        <3>3. QED BY <1>1, <1>4, <2>1, <3>1, <3>2, SameStint
    <2>4. QED BY <2>2, <2>3
<1>10. Tells(st, tx)
    BY <1>4, <1>8, <1>9 DEF Tells
<1>11. QED BY <1>10 DEF tx

LEMMA EndEnrollmentTold ==
    ASSUME Standing, IInv', [Next]_vars, NEW st \in Students, NEW c \in Classes, NEW t \in Nat,
           NEW reason \in Endings, NEW type \in {"enrollment_left", "enrollment_removed"},
           EndEnrollment(st, c, t, type, reason)
    PROVE  StudentTold(st)'
<1> DEFINE tx == DropTx(st, {c}, type, t, reason, {})
<1>1. tx.rows = DroppedRows(st, {c}, type, t) /\ tx.parts = DroppedParts(st, {c}, reason)
    BY DEF DropTx
<1>2. Tells(st, tx)
    BY DroppedTell DEF NewRows
<1>3. /\ log'[st] = log[st] \cup DroppedRows(st, {c}, type, t)
      /\ written'[st] = written[st] + 1 /\ parts'[st] = DroppedParts(st, {c}, reason)
      /\ sessions' = sessions
    BY StandingStint DEF EndEnrollment, TypeOK
<1> HIDE DEF tx
<1>4. QED BY <1>1, <1>2, <1>3, WritesTold

(* A row without the phone's order says what it said. *)
Bare(h) == {[e EXCEPT !.order = NoOrder] : e \in h}

LEMMA BareStory ==
    ASSUME NEW h \in SUBSET RowType, NEW sid
    PROVE  /\ Came(Bare(h), sid) <=> Came(h, sid)
           /\ WentOff(Bare(h), sid) <=> WentOff(h, sid)
           /\ Silenced(Bare(h), sid) <=> Silenced(h, sid)
           /\ Unlocked(Bare(h), sid) <=> Unlocked(h, sid)
<1> DEFINE bare(e) == [e EXCEPT !.order = NoOrder]
<1>1. \A e \in RowType : /\ bare(e).tx = e.tx /\ bare(e).place = e.place
                         /\ bare(e).type = e.type /\ bare(e).session = e.session
                         /\ bare(e).note = e.note
    BY DEF RowType
<1>2. Bare(h) = {bare(e) : e \in h}
    BY DEF Bare
<1> HIDE DEF bare
<1>3. ASSUME NEW H \in SUBSET h, NEW types
      PROVE  NewestIs({bare(e) : e \in H}, types) <=> NewestIs(H, types)
    <2>1. \A e, f \in h : After(bare(e), bare(f)) <=> After(e, f)
        BY <1>1 DEF After
    <2>2. \A e \in h : bare(e).type = e.type
        BY <1>1
    <2>3. QED BY <2>1, <2>2 DEF NewestIs
<1>4. /\ Moves(Bare(h), sid) = {bare(e) : e \in Moves(h, sid)}
      /\ Cover(Bare(h), sid) = {bare(e) : e \in Cover(h, sid)}
      /\ Quiets(Bare(h), sid) = {bare(e) : e \in Quiets(h, sid)}
      /\ Turns(Bare(h), sid) = {bare(e) : e \in Turns(h, sid)}
    <2>1. \A e \in h : /\ bare(e).type = e.type /\ bare(e).session = e.session
                       /\ bare(e).note = e.note
        BY <1>1
    <2>2. Moves(Bare(h), sid) = {bare(e) : e \in Moves(h, sid)}
        BY <1>2, <2>1 DEF Moves, OnTime, Of
    <2>3. Cover(Bare(h), sid) = {bare(e) : e \in Cover(h, sid)}
        BY <1>2, <2>1 DEF Cover, OnTime, Of
    <2>4. Quiets(Bare(h), sid) = {bare(e) : e \in Quiets(h, sid)}
        BY <1>2, <2>1 DEF Quiets, OnTime, Of
    <2>5. Turns(Bare(h), sid) = {bare(e) : e \in Turns(h, sid)}
        BY <1>2, <2>1 DEF Turns, Of
    <2>6. QED BY <2>2, <2>3, <2>4, <2>5
<1>5. /\ Moves(h, sid) \in SUBSET h /\ Cover(h, sid) \in SUBSET h
      /\ Quiets(h, sid) \in SUBSET h /\ Turns(h, sid) \in SUBSET h
    BY DEF Moves, Cover, Quiets, Turns, OnTime, Of
<1>6. Came(Bare(h), sid) <=> Came(h, sid)
    BY <1>3, <1>4, <1>5 DEF Came
<1>7. WentOff(Bare(h), sid) <=> WentOff(h, sid)
    BY <1>3, <1>4, <1>5 DEF WentOff
<1>8. Silenced(Bare(h), sid) <=> Silenced(h, sid)
    BY <1>3, <1>4, <1>5 DEF Silenced
<1>9. Unlocked(Bare(h), sid) <=> Unlocked(h, sid)
    BY <1>3, <1>4, <1>5 DEF Unlocked
<1>10. QED BY <1>6, <1>7, <1>8, <1>9

LEMMA BareStint ==
    ASSUME NEW h \in SUBSET RowType, NEW p, NEW sid, NEW open, StintTold(h, p, sid, open)
    PROVE  StintTold(Bare(h), p, sid, open)
BY BareStory DEF StintTold, StateTold

LEMMA DeleteAccountTold ==
    ASSUME Standing, IInv', [Next]_vars, NEW st \in Students, DeleteAccount(st)
    PROVE  StudentTold(st)'
<1> DEFINE cs == {c \in Classes : <<st, c>> \in enrolled}
           last(t) == ServerRow(st, 3, "account_deleted", NoSession, t)
<1>1. TypeOK /\ LogTold(st) /\ written[st] \in Nat
    BY StandingStint DEF TypeOK
<1>2. PICK t \in Clocks :
          /\ parts' = [parts EXCEPT ![st] = DroppedParts(st, cs, "left_class")]
          /\ log' = [log EXCEPT ![st] = {[e EXCEPT !.order = NoOrder] : e \in log[st]}
                                        \cup DroppedRows(st, cs, "enrollment_left", t)
                                        \cup {last(t)}]
    BY DEF DeleteAccount
<1>3. /\ parts'[st] = DroppedParts(st, cs, "left_class")
      /\ log'[st] = Bare(log[st]) \cup DroppedRows(st, cs, "enrollment_left", t) \cup {last(t)}
      /\ written'[st] = written[st] + 1 /\ sessions' = sessions
    BY <1>1, <1>2 DEF DeleteAccount, TypeOK, Bare
<1> DEFINE dropped == DroppedRows(st, cs, "enrollment_left", t)
           row == last(t)
           tx == DropTx(st, cs, "enrollment_left", t, "left_class", {row})
           rows == dropped \cup {row}
<1>4. t \in Nat /\ t \in Int
    BY <1>1, ClocksType
<1>5. /\ row \in RowType /\ row.tx = written[st] + 1 /\ InSession(row)
      /\ row.type = "account_deleted" /\ row.order = NoOrder
    <2>1. "account_deleted" \in RowTypes /\ "account_deleted" \notin HeldTypes
        BY DEF RowTypes, HeldTypes
    <2>2. row.order = NoOrder
        BY DEF ServerRow
    <2>3. NoSession \in SessionIds \cup {NoSession} /\ 3 \in Nat
        OBVIOUS
    <2>4. /\ row \in RowType /\ row.tx = written[st] + 1 /\ InSession(row)
          /\ row.type = "account_deleted"
        <3>1. row \in RowType
            BY <1>1, <1>4, <2>1, <2>3, ServerRowType
        <3>2. /\ row.tx = written[st] + 1 /\ row.type = "account_deleted"
              /\ row.session = NoSession
            BY DEF ServerRow
        <3>3. QED BY <3>1, <3>2 DEF InSession
    <2>5. QED BY <2>2, <2>4
<1>6. tx.rows = rows /\ tx.parts = DroppedParts(st, cs, "left_class")
    BY DEF DropTx
<1>7. \A e \in dropped : e.order = NoOrder
    <2>1. \A o, at : ServerRow(st, 2, "enrollment_left", o, at).order = NoOrder
        BY DEF ServerRow
    <2>2. \A e \in dropped : \E o, at : e = ServerRow(st, 2, "enrollment_left", o, at)
        BY DEF DroppedRows
    <2>3. QED BY <2>1, <2>2
<1> HIDE DEF row, dropped, cs, tx
<1>8. Tells(st, tx)
    <2>1. NewRows(st, {row}) /\ \A e \in {row} : e.type = "account_deleted"
        BY <1>5 DEF NewRows
    <2>2. "left_class" \in Endings
        BY DEF Endings
    <2>3. QED BY <1>4, <2>1, <2>2, DroppedTell DEF tx
<1>9. /\ \A e \in rows : e \in RowType /\ e.tx = written[st] + 1 /\ InSession(e)
      /\ \A sid \in SessionIds :
            /\ StintTold(log[st] \cup rows, parts'[st][sid], sid, Open(sid))
            /\ parts'[st][sid].ended # "no_row" => Started(sid)
    BY <1>3, <1>6, <1>8 DEF Tells, NewRows
<1>10. Bare(rows) = rows
    <2>1. \A e \in rows : e.order = NoOrder
        BY <1>5, <1>7
    <2>2. \A e \in rows : [e EXCEPT !.order = NoOrder] = e
        BY <1>9, <2>1 DEF RowType
    <2> HIDE DEF rows
    <2>3. QED BY <2>2 DEF Bare
<1>11. log'[st] = Bare(log[st] \cup rows)
    <2>1. log'[st] = Bare(log[st]) \cup rows
        BY <1>3 DEF dropped, row
    <2>2. Bare(log[st] \cup rows) = Bare(log[st]) \cup Bare(rows)
        BY DEF Bare
    <2>3. QED BY <1>10, <2>1, <2>2
<1>12. log[st] \cup rows \in SUBSET RowType
    BY <1>1, <1>9 DEF TypeOK
<1> HIDE DEF rows
<1>13. ASSUME NEW e \in log'[st]
       PROVE  e.tx =< written'[st] /\ InSession(e)'
    <2>1. PICK f \in log[st] \cup rows : e = [f EXCEPT !.order = NoOrder]
        BY <1>11, <1>13 DEF Bare
    <2>2. f \in RowType /\ InSession(f) /\ f.tx =< written[st] + 1
        <3>1. CASE f \in log[st]
            BY <1>1, <3>1 DEF TypeOK, LogTold, RowType
        <3>2. CASE f \in rows
            BY <1>1, <1>9, <3>2
        <3>3. QED BY <2>1, <3>1, <3>2
    <2>3. /\ e \in RowType /\ e.tx = f.tx /\ e.session = f.session /\ e.type = f.type
          /\ e.at = f.at
        BY <2>1, <2>2 DEF RowType, NoOrder
    <2>4. InSession(e)
        BY <2>2, <2>3 DEF InSession, InWindow
    <2>5. QED BY <1>3, <2>2, <2>3, <2>4, StillInSession
<1>14. \A sid \in SessionIds : (Open(sid)' <=> Open(sid)) /\ (Started(sid)' <=> Started(sid))
    BY <1>3 DEF Open, Started
<1>15. ASSUME NEW sid \in SessionIds
       PROVE  /\ StintTold(log'[st], parts'[st][sid], sid, Open(sid)')
              /\ parts'[st][sid].ended # "no_row" => Started(sid)'
    <2>1. StintTold(log'[st], parts'[st][sid], sid, Open(sid))
        BY <1>9, <1>11, <1>12, BareStint
    <2>2. QED BY <1>9, <1>14, <2>1 DEF StintTold
<1>16. QED BY <1>13, <1>15 DEF StudentTold, LogTold, StintTold, StateTold, Came, WentOff, Silenced,
                            Unlocked, Moves, Cover, Quiets, Turns, OnTime, Of, NewestIs, After, Live

(* A Start in which a tap that waits becomes a stint, or is passed over. *)
LEMMA BeginsTold ==
    ASSUME Standing, IInv', [Next]_vars, NEW st \in Students, NEW c \in Classes,
           NEW sid \in SessionIds, NEW t \in Nat, NEW d \in Nat, Begins(st, c, sid, t, d)
    PROVE  StudentTold(st)'
<1> DEFINE s == NewLesson(c, t, d)
           ps == LeftOver(c)[st]
           waiting == Awaits(st, c, t)
           a == CHOOSE b \in waiting : TRUE
           at == Clamp(made[st][a.id].at, s)
           late == TappedSince(log[st], Order(st, a.id), sid)
           tap == PhoneRow(st, a.id, "tap_in", sid, at, IF late THEN "superseded" ELSE "none")
           base == ServerRow(st, 2, "armed_tap_skipped", sid, s.startedAt)
           skip == [base EXCEPT !.claim = a.id]
           spent == Recorded(st, a.id) # {}
           lefts == LeftRows(st, ps, sid, at)
           tx == Conversion(st, c, sid, t, d)
           rows == tx.rows
           qs == tx.parts
           h == log[st]
<1>1. /\ TypeOK /\ LogTold(st) /\ ~Started(sid) /\ written[st] \in Nat
      /\ parts[st] \in [SessionIds -> PartType]
    BY StandingStint DEF Begins, TypeOK
<1>2. /\ sessions' = [EndedSessions(PastBell(c), t) EXCEPT ![sid] = s]
      /\ log'[st] = h \cup rows /\ written'[st] = written[st] + 1 /\ parts'[st] = qs
    BY DEF Begins
<1>3. /\ s.class = c /\ s.startedAt = t /\ s.endsAt = t + d /\ s.endedAt = Never
      /\ s \in SessionType
    BY DEF NewLesson, SessionType
<1>4. waiting # {} /\ <<st, c>> \in enrolled
    BY DEF Begins
<1>5. /\ rows = IF spent THEN {skip} ELSE IF late THEN {tap} ELSE {tap} \cup lefts
      /\ qs = IF spent \/ late THEN ps ELSE JoinedOnly(ps, sid)
    <2>1. waiting = {b \in Waiting(st, TeacherOf[s.class]) : b.expires > t}
        BY <1>3 DEF Awaits
    <2>2. <<st, s.class>> \in enrolled
        BY <1>3, <1>4
    <2> HIDE DEF waiting, s
    <2>3. QED BY <1>4, <2>1, <2>2 DEF Conversion, Converted, s
<1>6. a \in armed[st] /\ a.id \in DOMAIN made[st] /\ made[st][a.id].at \in Int
    <2>1. a \in waiting
        BY <1>4
    <2>2. waiting \subseteq armed[st]
        BY DEF Awaits, Waiting
    <2> HIDE DEF a, waiting
    <2>3. QED BY <1>1, <2>1, <2>2, RecordAt DEF TypeOK, Referring
<1>7. at \in Nat /\ at \in Int /\ t =< at /\ at =< t + d
    <2>1. at \in Nat
        BY <1>3, <1>6, ClampType
    <2> HIDE DEF s, a
    <2>2. QED BY <1>3, <1>6, <2>1 DEF Clamp, Least, Greatest
<1>8. sessions'[sid] = s /\ Started(sid)' /\ Open(sid)'
    <2>1. sessions'[sid] = s
        BY <1>1, <1>2, EndedSessionsOK
    <2> HIDE DEF s
    <2>2. QED BY <1>3, <2>1, PeopleAssumption DEF Started, Open
<1>9. \A o \in SessionIds : o # sid =>
          (Open(o)' <=> Open(o) /\ o \notin PastBell(c))
    <2>1. ASSUME NEW o \in SessionIds, o # sid
          PROVE  Open(o)' <=> Open(o) /\ o \notin PastBell(c)
        <3>1. sessions'[o] = EndedSessions(PastBell(c), t)[o]
            BY <1>1, <1>2, <2>1, EndedSessionsOK
        <3>2. /\ sessions'[o].class = sessions[o].class
              /\ o \in PastBell(c) => sessions'[o].endedAt # Never
              /\ o \notin PastBell(c) => sessions'[o] = sessions[o]
            BY <1>1, <3>1, EndedSessionsOK
        <3>3. QED BY <3>2 DEF Open, Started
    <2>2. QED BY <2>1
<1>10. \A o \in SessionIds :
           /\ ps[o] = IF o \in PastBell(c) /\ Live(parts[st][o])
                      THEN [parts[st][o] EXCEPT !.ended = "session_expired"] ELSE parts[st][o]
           /\ parts[st][o] \in PartType /\ ps[o] \in PartType
           /\ Live(ps[o]) <=> Live(parts[st][o]) /\ o \notin PastBell(c)
           /\ ps[o].ended = "no_row" <=> parts[st][o].ended = "no_row"
    <2>1. ASSUME NEW o \in SessionIds
          PROVE  /\ ps[o] = IF o \in PastBell(c) /\ Live(parts[st][o])
                            THEN [parts[st][o] EXCEPT !.ended = "session_expired"]
                            ELSE parts[st][o]
                 /\ parts[st][o] \in PartType /\ ps[o] \in PartType
                 /\ Live(ps[o]) <=> Live(parts[st][o]) /\ o \notin PastBell(c)
                 /\ ps[o].ended = "no_row" <=> parts[st][o].ended = "no_row"
        <3>1. ps[o] = IF o \in PastBell(c) /\ Live(parts[st][o])
                      THEN [parts[st][o] EXCEPT !.ended = "session_expired"] ELSE parts[st][o]
            BY DEF LeftOver, EndedParts
        <3>2. parts[st][o] \in PartType
            BY <1>1
        <3> HIDE DEF ps
        <3>3. QED BY <3>1, <3>2 DEF PartType, Live, Endings
    <2>2. QED BY <2>1
<1>11. ~Live(ps[sid]) /\ sid \notin PastBell(c) /\ ps[sid].ended = "no_row"
    <2>1. sid \notin PastBell(c) /\ parts[st][sid].ended = "no_row"
        BY <1>1, StandingStint DEF PastBell, Open
    <2> HIDE DEF ps
    <2>2. QED BY <1>10, <2>1 DEF Live
(* The rows. *)
<1>12. /\ tap \in RowType /\ tap.tx = written[st] + 1 /\ tap.place = 1 /\ tap.type = "tap_in"
       /\ tap.session = sid /\ tap.at = at /\ tap.note = IF late THEN "superseded" ELSE "none"
    <2>1. (IF late THEN "superseded" ELSE "none") \in Notes /\ "tap_in" \in RowTypes
        BY DEF Notes, RowTypes
    <2> HIDE DEF late, at, a
    <2>2. tap \in RowType
        BY <1>1, <1>6, <1>7, <2>1, PhoneRowType
    <2>3. QED BY <2>2 DEF PhoneRow, ServerRow
<1>13. /\ skip \in RowType /\ skip.tx = written[st] + 1 /\ skip.type = "armed_tap_skipped"
       /\ skip.session = sid
    <2>1. "armed_tap_skipped" \in RowTypes /\ s.startedAt \in Int
        BY <1>3 DEF RowTypes
    <2>2. base \in RowType
        BY <1>1, <2>1, ServerRowType
    <2>3. base.tx = written[st] + 1 /\ base.type = "armed_tap_skipped" /\ base.session = sid
        BY DEF ServerRow
    <2>4. a.id \in Nat
        BY <1>1, <1>6, MadeRecord
    <2> HIDE DEF base, a
    <2>5. QED BY <2>2, <2>3, <2>4 DEF RowType
<1>14. ASSUME NEW e \in lefts
       PROVE  /\ e \in RowType /\ e.tx = written[st] + 1 /\ InSession(e)
              /\ e.type = "left_for_other_session" /\ e.note = "none"
              /\ e.session \in LiveElsewhere(ps, sid)
    <2>1. PICK o \in LiveElsewhere(ps, sid) :
              e = ServerRow(st, 2, "left_for_other_session", o, at)
        BY DEF LeftRows
    <2>2. o \in SessionIds /\ Started(o)
        BY <1>10, <2>1, StandingStint DEF LiveElsewhere
    <2>3. "left_for_other_session" \in RowTypes /\ "left_for_other_session" \notin HeldTypes
        BY DEF RowTypes, HeldTypes
    <2> HIDE DEF at, ps
    <2>4. QED BY <1>1, <1>7, <2>1, <2>2, <2>3, ServerRowNew
<1> HIDE DEF s, ps, waiting, a, at, late, tap, skip, spent, lefts, tx, h
<1>15. \A e \in rows : /\ e \in RowType /\ e.tx = written[st] + 1 /\ InSession(e)'
    <2>1. ASSUME NEW e \in {tap, skip}
          PROVE  InSession(e)'
        <3>1. /\ e.session = sid
              /\ e.type = "armed_tap_skipped" \/ (e.type = "tap_in" /\ e.at = at)
            BY <1>12, <1>13
        <3>2. t =< at /\ at =< t + d /\ sessions'[sid].startedAt = t
              /\ sessions'[sid].endsAt = t + d
            BY <1>3, <1>7, <1>8
        <3>3. e.type \in HeldTypes => InWindow(e, sessions'[sid])
            BY <3>1, <3>2 DEF InWindow, HeldTypes
        <3>4. QED BY <1>8, <3>1, <3>3 DEF InSession, InWindow
    <2>2. \A e \in lefts : InSession(e)'
        BY <1>14, StillInSession
    <2>3. QED BY <1>5, <1>12, <1>13, <1>14, <2>1, <2>2
<1>16. NextRows(st, rows)
    BY <1>15 DEF NextRows
<1>17. \A o \in SessionIds : StintTold(h, parts[st][o], o, Open(o))
                             /\ (parts[st][o].ended # "no_row" => Started(o))
    BY StandingStint DEF h
<1>18. LogTold(st) /\ ~Came(h, sid)
    BY <1>1, NothingBefore DEF h
(* A lesson whose rows say nothing, its stint the one the bell left. *)
<1>19. ASSUME NEW o \in SessionIds, Mute(rows, o), qs[o] = ps[o]
       PROVE  /\ StintTold(h \cup rows, qs[o], o, Open(o)')
              /\ qs[o].ended # "no_row" => Started(o)'
    <2>1. qs[o].ended # "no_row" => Started(o)'
        BY <1>10, <1>17, <1>19, LessonsGrow
    <2>2. CASE o = sid
        <3>1. ~Came(h \cup rows, o) /\ ~Live(qs[o])
            BY <1>1, <1>11, <1>16, <1>18, <1>19, <2>2, SameStory DEF h
        <3>2. QED BY <2>1, <3>1 DEF StintTold
    <2>3. CASE o # sid /\ o \in PastBell(c)
        <3>1. ~Open(o)' /\ ~Live(qs[o])
            BY <1>9, <1>10, <1>19, <2>3
        <3>2. QED BY <2>1, <3>1 DEF StintTold
    <2>4. CASE o # sid /\ o \notin PastBell(c)
        <3>1. qs[o] = parts[st][o] /\ (Open(o)' <=> Open(o))
            BY <1>9, <1>10, <1>19, <2>4
        <3>2. StintTold(h \cup rows, qs[o], o, Open(o))
            BY <1>1, <1>16, <1>17, <1>19, <3>1, SameStint DEF h
        <3>3. QED BY <2>1, <3>1, <3>2 DEF StintTold
    <2>5. QED BY <2>2, <2>3, <2>4
<1>20. ASSUME NEW o \in SessionIds
       PROVE  /\ StintTold(h \cup rows, qs[o], o, Open(o)')
              /\ qs[o].ended # "no_row" => Started(o)'
    <2>1. CASE spent \/ late
        <3>1. Mute(rows, o)
            BY <1>5, <1>12, <1>13, <2>1 DEF Mute, Moves, Cover, Quiets, Turns, OnTime, Of,
                                            MoveTypes, CoverTypes, QuietTypes
        <3>2. qs[o] = ps[o]
            BY <1>5, <2>1
        <3>3. QED BY <1>19, <3>1, <3>2
    <2>2. CASE ~spent /\ ~late
        <3>1. rows = {tap} \cup lefts /\ tap.note = "none"
            BY <1>5, <1>12, <2>2
        <3>2. qs[o] = IF o = sid THEN Fresh
                      ELSE IF Live(ps[o]) THEN [ps[o] EXCEPT !.ended = "left_for_other_session"]
                      ELSE ps[o]
            BY <1>5, <2>2 DEF JoinedOnly, LiveElsewhere
        <3> HIDE DEF rows, qs
        <3>3. CASE o = sid
            <4>1. \A e \in rows : e.session = sid => e = tap
                BY <1>14, <3>1 DEF LiveElsewhere
            <4>2. tap \in rows
                BY <3>1
            <4>3. Moves(rows, sid) = {tap} /\ Cover(rows, sid) = {tap}
                  /\ Quiets(rows, sid) = {tap} /\ Turns(rows, sid) = {tap}
                BY <1>12, <3>1, <4>1, <4>2 DEF Moves, Cover, Quiets, Turns, OnTime, Of,
                                               MoveTypes, CoverTypes, QuietTypes
            <4>4. ~NewestIs({tap}, {"unlock"})
                BY <1>12, NewestOfOne
            <4>5. /\ Live(qs[o]) /\ qs[o].silent = FALSE /\ qs[o].state = "focused"
                  /\ qs[o].state # "protection_off" /\ qs[o].state # "unlocked"
                BY <3>2, <3>3 DEF Fresh, Live
            <4>6. tap \in Quiets(rows, sid) /\ tap \in Turns(rows, sid)
                  /\ \A e \in Quiets(rows, sid) : e.type # "went_silent"
                BY <1>12, <4>3
            <4>7. qs[o].state = "unlocked" <=> NewestIs(Turns(rows, sid), {"unlock"})
                BY <4>3, <4>4, <4>5
            <4>8. StintTold(h \cup rows, qs[o], sid, TRUE)
                BY <1>1, <1>12, <1>16, <4>2, <4>3, <4>5, <4>6, <4>7, JoinStint DEF h
            <4>9. QED BY <1>8, <3>3, <4>8 DEF StintTold
        <3>4. CASE o # sid /\ ~Live(ps[o])
            <4>1. \A e \in rows : e.session # o
                BY <1>12, <1>14, <3>1, <3>4 DEF LiveElsewhere
            <4>2. Mute(rows, o)
                BY <4>1, MuteRows
            <4>3. QED BY <1>19, <3>2, <3>4, <4>2
        <3>5. CASE o # sid /\ Live(ps[o])
            <4> DEFINE row == ServerRow(st, 2, "left_for_other_session", o, at)
            <4>1. row \in lefts
                BY <3>5 DEF lefts, LeftRows, LiveElsewhere
            <4>2. row.session = o /\ row.type = "left_for_other_session" /\ row.note = "none"
                BY DEF ServerRow
            <4> HIDE DEF row
            <4>3. row \in Moves(rows, o)
                BY <3>1, <4>1, <4>2 DEF Moves, OnTime, Of, MoveTypes
            <4>4. \A e \in Moves(rows, o) : e.type # "tap_in"
                BY <1>12, <1>14, <3>1, <3>5 DEF Moves, OnTime, Of, MoveTypes
            <4>5. ~Live(qs[o])
                <5>1. qs[o] = [ps[o] EXCEPT !.ended = "left_for_other_session"]
                      /\ ps[o] \in PartType
                    BY <1>10, <3>2, <3>5
                <5>2. QED BY <5>1 DEF PartType, Live
            <4>6. Started(o)'
                BY <1>10, <3>5, StandingStint, LessonsGrow
            <4>7. StintTold(h \cup rows, qs[o], o, Open(o)')
                BY <1>1, <1>16, <4>3, <4>4, <4>5, LeftStint DEF h
            <4>8. QED BY <4>6, <4>7
        <3>6. QED BY <3>3, <3>4, <3>5
    <2>3. QED BY <2>1, <2>2
<1>21. ASSUME NEW e \in log'[st]
       PROVE  e.tx =< written'[st] /\ InSession(e)'
    <2>1. CASE e \in h
        <3>1. e \in RowType /\ e.tx =< written[st] /\ InSession(e) /\ e.tx \in Nat
            BY <1>1, <2>1 DEF TypeOK, LogTold, RowType, h
        <3>2. QED BY <1>1, <1>2, <3>1, StillInSession
    <2>2. CASE e \in rows
        BY <1>1, <1>2, <1>15, <2>2
    <2>3. QED BY <1>2, <1>21, <2>1, <2>2
<1>22. \A o \in SessionIds : /\ StintTold(log'[st], parts'[st][o], o, Open(o)')
                             /\ parts'[st][o].ended # "no_row" => Started(o)'
    BY <1>2, <1>20
<1>23. QED BY <1>21, <1>22 DEF StudentTold, LogTold, StintTold, StateTold, Came, WentOff, Silenced,
                               Unlocked, Moves, Cover, Quiets, Turns, OnTime, Of, NewestIs, After,
                               Live

-----------------------------------------------------------------------------
(* The theorems. *)

LEMMA NextTold ==
    ASSUME Standing, IInv', [Next]_vars
    PROVE  Told'
<1>1. ASSUME NEW st \in Students
      PROVE  StudentTold(st)'
    BY StudentSteps, RestsTold, DoesTold, BeginsTold, JoinClassTold, EndEnrollmentTold,
       DeleteAccountTold DEF StudentStep, Standing
<1>2. Told <=> \A st \in Students : StudentTold(st)
    BY DEF Told, StudentTold
<1>3. Told' <=> \A st \in Students : StudentTold(st)'
    BY DEF Told, StudentTold
<1>4. QED BY <1>1, <1>3

LEMMA InitTold ==
    ASSUME Init
    PROVE  Told
<1>1. ASSUME NEW st \in Students, NEW sid \in SessionIds
      PROVE  /\ log[st] = {} /\ parts[st][sid] = NoRow /\ ~Open(sid)
    BY DEF Init, Open, Started, NotStarted
<1>2. \A sid : ~Came({}, sid)
    BY DEF Came, Moves, OnTime, Of, NewestIs
<1>3. ~Live(NoRow) /\ NoRow.ended = "no_row"
    BY DEF Live, NoRow
<1>4. ASSUME NEW st \in Students, NEW sid \in SessionIds
      PROVE  StintTold(log[st], parts[st][sid], sid, Open(sid))
    BY <1>1, <1>2, <1>3 DEF StintTold
<1>5. \A st \in Students : log[st] = {}
    BY DEF Init
<1>6. QED BY <1>1, <1>3, <1>4, <1>5 DEF Told, LogTold

LEMMA ToldHolds == Spec => [](Windows /\ Told)
<1>1. Init => Windows /\ Told
    BY InitTold DEF Init, Windows, Started, NotStarted
<1>2. IInv /\ IInv' /\ (Windows /\ Told) /\ [Next]_vars => (Windows /\ Told)'
    BY NextWindows, NextTold DEF Standing
<1>3. QED BY <1>1, <1>2, Invariance, PTL DEF Spec

(* Whatever is recorded, in whatever order, a live student is silent exactly  *)
(* when the newest word on it is a went_silent, and only while focused        *)
(* (markSilent, closeSilence).                                                *)
THEOREM SilencesPair == Spec => []SilencePaired
<1>1. Told => SilencePaired
    BY DEF Told, SilencePaired, StintTold, StateTold, Silenced, Quiets, QuietTypes
<1>2. QED BY <1>1, ToldHolds, PTL

(* The live picture of a student is always the one their rows tell: who is in *)
(* by the newest coming or going, off by the newest change of protection, and *)
(* otherwise unlocked by the latest turn.                                     *)
THEOREM PictureIsTold == Spec => []PictureExplained
<1>1. IInv /\ Told => PictureExplained
    <2> SUFFICES ASSUME IInv, Told, NEW st \in Students, NEW sid \in SessionIds
                   PROVE  LET p == parts[st][sid]
                          IN /\ Live(p) <=> Open(sid) /\ Came(log[st], sid)
                             /\ Live(p) =>
                                  IF WentOff(log[st], sid) THEN p.state = "protection_off"
                                  ELSE p.state = IF Unlocked(log[st], sid)
                                                 THEN "unlocked" ELSE "focused"
        BY DEF PictureExplained, Came, WentOff, Unlocked, Moves, Cover, MoveTypes, CoverTypes
    <2>1. parts[st][sid].state \in States
        BY DEF IInv, TypeOK, PartType
    <2>2. StintTold(log[st], parts[st][sid], sid, Open(sid))
        BY DEF Told
    <2>3. QED BY <2>1, <2>2 DEF StintTold, StateTold, States
<1>2. QED BY <1>1, Invariance, ToldHolds, PTL
=============================================================================
