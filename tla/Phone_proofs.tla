---------------------------- MODULE Phone_proofs ----------------------------
(***************************************************************************)
(* Proofs, for every value of the constants, about a phone in front of the *)
(* engine.  The file is first reasoned about as a value: what each change  *)
(* of it (a record queued, an answer settled, a standing kept) does to the *)
(* set of its rows.  The actions then compose those changes.               *)
(***************************************************************************)
EXTENDS PhoneProps, Engine_proofs, FiniteSetTheorems, SequenceTheorems

Sids == SessionIds \cup {NoSession}

StandingType ==
    {s \in [at : {"out", "waiting", "unread", "in"}, session : Sids,
            state : States \cup {"none"}, ends : Nat] : s.at = "in" => s.session # NoSession}
QueuedType ==
    [id : Nat, kind : Kinds, session : Sids, tap : Nat, place : Nat, follows : Nat,
     due : BOOLEAN, tried : BOOLEAN, answers : Nat, stuck : BOOLEAN]
FileType ==
    [queue : Seq(QueuedType), standing : StandingType, reported : Sids,
     offFrom : States \cup {"none"}, lastUnlock : Nat, lastTap : Nat, waitEnds : Int]

RowsOf(q) == {q[i] : i \in DOMAIN q}
Distinct(q) == \A i, j \in DOMAIN q : q[i].id = q[j].id => i = j

-----------------------------------------------------------------------------
(* Queues. *)

(* The records at some places of a queue are those records, in as many places. *)
LEMMA AtIs ==
    ASSUME NEW T, NEW q \in Seq(T), NEW S \in SUBSET DOMAIN q
    PROVE  /\ At(q, S) \in Seq(T) /\ RowsOf(At(q, S)) = {q[i] : i \in S}
           /\ Distinct(q) => Distinct(At(q, S))
<1> DEFINE n == Cardinality(S)
           Below(s) == {o \in S : o =< s}
           rank == [s \in S |-> Cardinality(Below(s))]
<1>1. IsFiniteSet(S) /\ n \in Nat /\ IsFiniteSet(1..n) /\ Cardinality(1..n) = n /\ S \subseteq Nat
    <2>1. Len(q) \in Nat /\ DOMAIN q = 1..Len(q)
        OBVIOUS
    <2>2. IsFiniteSet(1..Len(q))
        BY <2>1, FS_Interval
    <2>3. IsFiniteSet(S)
        BY <2>1, <2>2, FS_Subset
    <2>4. n \in Nat
        BY <2>3, FS_CardinalityType
    <2>5. IsFiniteSet(1..n) /\ Cardinality(1..n) = n
        BY <2>4, FS_Interval
    <2>6. QED BY <2>1, <2>3, <2>4, <2>5
<1>2. \A s \in S : IsFiniteSet(Below(s)) /\ rank[s] \in 1..n
    <2> TAKE s \in S
    <2>1. IsFiniteSet(Below(s)) /\ Cardinality(Below(s)) =< n
        BY <1>1, FS_Subset
    <2>2. Cardinality(Below(s)) \in Nat /\ Cardinality(Below(s)) # 0
        <3>1. s \in Below(s)
            BY <1>1
        <3>2. QED BY <2>1, <3>1, FS_CardinalityType, FS_EmptySet
    <2>3. QED BY <1>1, <2>1, <2>2
<1>3. \A s, t \in S : s < t => rank[s] # rank[t]
    <2> TAKE s, t \in S
    <2> HAVE s < t
    <2>1. Below(s) \in SUBSET Below(t) /\ t \in Below(t) /\ t \notin Below(s)
        <3>1. \A o \in S : o =< s => o =< t
            BY <1>1
        <3>2. t =< t /\ ~(t =< s)
            BY <1>1
        <3>3. QED BY <3>1, <3>2
    <2>2. Cardinality(Below(s)) # Cardinality(Below(t))
        BY <1>2, <2>1, FS_Subset
    <2>3. QED BY <2>2
<1>4. \A s, t \in S : rank[s] = rank[t] => s = t
    <2>1. \A s, t \in S : s < t \/ t < s \/ s = t
        BY <1>1
    <2> HIDE DEF rank
    <2>2. QED BY <1>3, <2>1
<1> HIDE DEF n
<1>5. rank \in Injection(S, 1..n)
    BY <1>2, <1>4 DEF Injection, IsInjective
<1>6. rank \in Surjection(S, 1..n)
    BY <1>1, <1>5, FS_Injection DEF n
<1>7. \A k \in 1..n : \E s \in S : rank[s] = k
    BY <1>6 DEF Surjection
<1> DEFINE at(k) == CHOOSE s \in S : Cardinality({o \in S : o =< s}) = k
<1>8. \A k \in 1..n : at(k) \in S /\ rank[at(k)] = k
    BY <1>7
<1>9. \A s \in S : rank[s] \in 1..n /\ at(rank[s]) = s
    BY <1>2, <1>4, <1>8
<1>10. At(q, S) = [k \in 1..n |-> q[at(k)]]
    BY DEF At, n
<1> HIDE DEF at, rank
<1>11. At(q, S) \in Seq(T) /\ DOMAIN At(q, S) = 1..n
    BY <1>1, <1>8, <1>10
<1>12. RowsOf(At(q, S)) = {q[i] : i \in S}
    BY <1>8, <1>9, <1>10 DEF RowsOf
<1>13. Distinct(q) => Distinct(At(q, S))
    BY <1>8, <1>10 DEF Distinct
<1>14. QED BY <1>11, <1>12, <1>13

(* A standing kept in the file: what it says of an unlock not filed yet, and *)
(* nothing of any other record.                                              *)
Files(f, standing, r) ==
    IF IsUnfiled(r)
    THEN [r EXCEPT !.session = standing.session,
                   !.tap = IF standing.session = 0 THEN f.lastTap ELSE 0]
    ELSE r

LEMMA FileUnderIs ==
    ASSUME NEW f \in FileType, NEW standing \in StandingType
    PROVE  /\ FileUnder(f, standing) \in FileType
           /\ FileUnder(f, standing).lastUnlock = f.lastUnlock
           /\ FileUnder(f, standing).lastTap = f.lastTap
           /\ DOMAIN FileUnder(f, standing).queue = DOMAIN f.queue
           /\ \A i \in DOMAIN f.queue :
                 FileUnder(f, standing).queue[i] = Files(f, standing, f.queue[i])
<1> DEFINE q == [i \in DOMAIN f.queue |-> Files(f, standing, f.queue[i])]
<1>1. FileUnder(f, standing) = [f EXCEPT !.standing = standing, !.queue = q]
    BY DEF FileUnder, Each, Files
<1>2. \A i \in DOMAIN f.queue : f.queue[i] \in QueuedType
    BY DEF FileType
<1>3. ASSUME NEW r \in QueuedType
      PROVE  Files(f, standing, r) \in QueuedType
    BY DEF NoSession, Files, QueuedType, FileType, StandingType
<1>4. q \in Seq(QueuedType) /\ DOMAIN q = DOMAIN f.queue
    BY <1>2, <1>3 DEF FileType
<1> HIDE DEF q
<1>5. FileUnder(f, standing) \in FileType /\ FileUnder(f, standing).queue = q
      /\ FileUnder(f, standing).lastUnlock = f.lastUnlock
      /\ FileUnder(f, standing).lastTap = f.lastTap
    BY <1>1, <1>4 DEF FileType
<1>6. QED BY <1>4, <1>5 DEF q

-----------------------------------------------------------------------------
(* What holds of the file f, where m is what the phone made. *)

(* Each record queued is one the phone made, and queued once. *)
RowFits(m, r) ==
    /\ r.id \in DOMAIN m /\ m[r.id].kind = r.kind /\ m[r.id].place = r.place
    /\ r.tap =< Len(m)
    /\ r.kind \notin {"tap", "unlock"} => r.tap = 0 /\ r.session = m[r.id].session

Fits(f, m) ==
    /\ f \in FileType /\ Distinct(f.queue) /\ f.lastTap =< Len(m)
    /\ \A r \in RowsOf(f.queue) : RowFits(m, r)

MadeOK(m) ==
    /\ m \in Seq(MadeType)
    /\ \A n \in DOMAIN m :
          /\ m[n].place =< n
          /\ m[n].kind \in {"tap", "reason", "unlock"} \/ m[n].session # NoSession

(* Turns in order.  An unlock not filed yet is newer than every return made. *)
UnfiledLast(f, m) ==
    \A n \in DOMAIN m : \A r \in RowsOf(f.queue) :
        m[n].kind = "refocus" /\ IsUnfiled(r) => n < r.place

(* A queued return follows the newest unlock made before it, if that is queued *)
(* in the lesson it returns in.                                                *)
ReturnsWait(f, m) ==
    \A x, r \in RowsOf(f.queue) :
        x.kind = "refocus" /\ NewestBefore(m, r, x.id) /\ FiledIn(f.queue, r, x.session)
        => x.follows = r.id

(* A return that left the phone left no such unlock behind. *)
GoneAfter(f, m, gone) ==
    \A n \in gone : \A r \in RowsOf(f.queue) :
        NewestBefore(m, r, n) => ~FiledIn(f.queue, r, m[n].session)

(* The file knows its newest unlock, but one given up to the record filed again. *)
NotGivenUp(q, r) == IsUnlock(r) /\ (r.tap = 0 \/ (r.tap \in Ids(q) /\ r.session # NoSession))
NewestKnown(f, m) ==
    \A r \in RowsOf(f.queue) :
        /\ NotGivenUp(f.queue, r)
        /\ \A n \in DOMAIN m : m[n].kind = "unlock" => m[n].place =< r.place
        => r.id = f.lastUnlock

InTurn(f, m, gone) ==
    UnfiledLast(f, m) /\ ReturnsWait(f, m) /\ GoneAfter(f, m, gone) /\ NewestKnown(f, m)

Returns(m) == {n \in DOMAIN m : m[n].kind = "refocus"}

LEMMA IdsAre ==
    ASSUME NEW q
    PROVE  Ids(q) = {r.id : r \in RowsOf(q)}
BY DEF Ids, RowsOf

(* A change that only drops records, or names the lesson of those whose tap is *)
(* answered, keeps the turns in order.                                         *)
Eases(q, r, s) ==
    /\ s.id = r.id /\ s.kind = r.kind /\ s.place = r.place /\ s.follows = r.follows
    /\ s.tap = r.tap
    /\ s.session = r.session \/ (r.tap # 0 /\ r.tap \notin Ids(q))

LEMMA EasedFits ==
    ASSUME NEW f, NEW g \in FileType, NEW m, Fits(f, m), Distinct(g.queue),
           g.lastTap = f.lastTap,
           \A s \in RowsOf(g.queue) : \E r \in RowsOf(f.queue) : Eases(g.queue, r, s)
    PROVE  Fits(g, m)
<1>1. ASSUME NEW s \in RowsOf(g.queue)
      PROVE  RowFits(m, s)
    <2>1. PICK r \in RowsOf(f.queue) : Eases(g.queue, r, s)
        OBVIOUS
    <2>2. RowFits(m, r)
        BY DEF Fits
    <2>3. QED BY <2>1, <2>2 DEF Eases, RowFits
<1>2. QED BY <1>1 DEF Fits

LEMMA EasedTurns ==
    ASSUME NEW f, NEW g, NEW m, NEW gone, InTurn(f, m, gone), Fits(f, m),
           g.lastUnlock = f.lastUnlock, Ids(g.queue) \subseteq Ids(f.queue),
           \A s \in RowsOf(g.queue) : \E r \in RowsOf(f.queue) : Eases(g.queue, r, s)
    PROVE  InTurn(g, m, gone)
<1>1. UnfiledLast(g, m)
    <2> SUFFICES ASSUME NEW n \in DOMAIN m, NEW s \in RowsOf(g.queue),
                        m[n].kind = "refocus", IsUnfiled(s)
                 PROVE  n < s.place
        BY DEF UnfiledLast
    <2>1. PICK r \in RowsOf(f.queue) : Eases(g.queue, r, s)
        OBVIOUS
    <2>2. IsUnfiled(r) /\ r.place = s.place
        BY <2>1 DEF Eases, IsUnfiled, IsUnlock
    <2>3. QED BY <2>2 DEF InTurn, UnfiledLast
<1>2. ASSUME NEW s \in RowsOf(g.queue), NEW r \in RowsOf(f.queue), Eases(g.queue, r, s),
             NEW sid, FiledIn(g.queue, s, sid)
      PROVE  FiledIn(f.queue, r, sid)
    BY <1>2 DEF Eases, FiledIn
<1>3. ReturnsWait(g, m)
    <2> SUFFICES ASSUME NEW x \in RowsOf(g.queue), NEW s \in RowsOf(g.queue), x.kind = "refocus",
                        NewestBefore(m, s, x.id), FiledIn(g.queue, s, x.session)
                 PROVE  x.follows = s.id
        BY DEF ReturnsWait
    <2>1. PICK y \in RowsOf(f.queue) : Eases(g.queue, y, x)
        OBVIOUS
    <2>2. PICK r \in RowsOf(f.queue) : Eases(g.queue, r, s)
        OBVIOUS
    <2>3. y.kind = "refocus" /\ y.id = x.id /\ y.follows = x.follows /\ y.session = x.session
        BY <2>1 DEF Eases, Fits, RowFits
    <2>4. NewestBefore(m, r, y.id) /\ r.id = s.id
        BY <2>2, <2>3 DEF Eases, NewestBefore, IsUnlock
    <2>5. FiledIn(f.queue, r, y.session)
        BY <1>2, <2>2, <2>3
    <2>6. QED BY <2>3, <2>4, <2>5 DEF InTurn, ReturnsWait
<1>4. GoneAfter(g, m, gone)
    <2> SUFFICES ASSUME NEW n \in gone, NEW s \in RowsOf(g.queue), NewestBefore(m, s, n),
                        FiledIn(g.queue, s, m[n].session)
                 PROVE  FALSE
        BY DEF GoneAfter
    <2>1. PICK r \in RowsOf(f.queue) : Eases(g.queue, r, s)
        OBVIOUS
    <2>2. NewestBefore(m, r, n)
        BY <2>1 DEF Eases, NewestBefore, IsUnlock
    <2>3. FiledIn(f.queue, r, m[n].session)
        BY <1>2, <2>1
    <2>4. QED BY <2>2, <2>3 DEF InTurn, GoneAfter
<1>5. NewestKnown(g, m)
    <2> SUFFICES ASSUME NEW s \in RowsOf(g.queue), NotGivenUp(g.queue, s),
                        \A n \in DOMAIN m : m[n].kind = "unlock" => m[n].place =< s.place
                 PROVE  s.id = g.lastUnlock
        BY DEF NewestKnown
    <2>1. PICK r \in RowsOf(f.queue) : Eases(g.queue, r, s)
        OBVIOUS
    <2>2. NotGivenUp(f.queue, r) /\ r.place = s.place /\ r.id = s.id
        BY <2>1 DEF Eases, NotGivenUp, IsUnlock
    <2>3. QED BY <2>2 DEF InTurn, NewestKnown
<1>6. QED BY <1>1, <1>3, <1>4, <1>5 DEF InTurn

(* A standing kept files what was not filed, which is newer than every return. *)
LEMMA FileUnderTurns ==
    ASSUME NEW f, NEW m, NEW gone \in SUBSET Returns(m), MadeOK(m), Fits(f, m),
           InTurn(f, m, gone), NEW standing \in StandingType
    PROVE  /\ Fits(FileUnder(f, standing), m) /\ InTurn(FileUnder(f, standing), m, gone)
           /\ Ids(FileUnder(f, standing).queue) = Ids(f.queue)
<1> DEFINE g == FileUnder(f, standing)
<1>1. /\ f \in FileType /\ g \in FileType /\ g.lastUnlock = f.lastUnlock /\ g.lastTap = f.lastTap
      /\ DOMAIN g.queue = DOMAIN f.queue
      /\ \A i \in DOMAIN f.queue : g.queue[i] = Files(f, standing, f.queue[i])
    BY FileUnderIs DEF Fits
<1> HIDE DEF g
<1>2. \A i \in DOMAIN f.queue : f.queue[i] \in QueuedType /\ RowFits(m, f.queue[i])
    BY DEF Fits, FileType, RowsOf
<1>3. ASSUME NEW i \in DOMAIN f.queue
      PROVE  LET r == f.queue[i]
                 s == g.queue[i]
             IN /\ s.id = r.id /\ s.kind = r.kind /\ s.place = r.place /\ s.follows = r.follows
                /\ ~IsUnfiled(r) => s = r
                /\ IsUnfiled(r) => s.tap \in {0, f.lastTap} /\ (s.tap # 0 => s.session = NoSession)
    BY <1>1, <1>2 DEF Files, QueuedType, NoSession, StandingType
<1>4. Ids(g.queue) = Ids(f.queue)
    BY <1>1, <1>3 DEF Ids
<1>5. ASSUME NEW s \in RowsOf(g.queue)
      PROVE  \E r \in RowsOf(f.queue) :
                /\ s.id = r.id /\ s.kind = r.kind /\ s.place = r.place /\ s.follows = r.follows
                /\ ~IsUnfiled(r) => s = r
                /\ IsUnfiled(r) => s.tap \in {0, f.lastTap} /\ (s.tap # 0 => s.session = NoSession)
    BY <1>1, <1>3 DEF RowsOf
<1>6. Fits(g, m)
    <2>1. Distinct(g.queue)
        BY <1>1, <1>3 DEF Fits, Distinct
    <2>2. ASSUME NEW s \in RowsOf(g.queue)
          PROVE  RowFits(m, s)
        <3>1. PICK r \in RowsOf(f.queue) :
                /\ s.id = r.id /\ s.kind = r.kind /\ s.place = r.place
                /\ ~IsUnfiled(r) => s = r
                /\ IsUnfiled(r) => s.tap \in {0, f.lastTap}
            BY <1>5
        <3>2. RowFits(m, r) /\ f.lastTap =< Len(m) /\ 0 =< Len(m)
            BY DEF Fits, MadeOK
        <3>3. CASE ~IsUnfiled(r)
            BY <3>1, <3>2, <3>3
        <3>4. CASE IsUnfiled(r)
            BY <3>1, <3>2, <3>4 DEF RowFits, IsUnfiled, IsUnlock
        <3>5. QED BY <3>3, <3>4
    <2>3. QED BY <1>1, <2>1, <2>2 DEF Fits
<1>7. UnfiledLast(g, m)
    <2> SUFFICES ASSUME NEW n \in DOMAIN m, NEW s \in RowsOf(g.queue),
                        m[n].kind = "refocus", IsUnfiled(s)
                 PROVE  n < s.place
        BY DEF UnfiledLast
    <2>1. PICK r \in RowsOf(f.queue) : s.place = r.place /\ (~IsUnfiled(r) => s = r)
        BY <1>5
    <2>2. QED BY <2>1 DEF InTurn, UnfiledLast
<1>8. ASSUME NEW s \in RowsOf(g.queue), NEW n \in Returns(m), NewestBefore(m, s, n)
      PROVE  s \in RowsOf(f.queue)
    <2>1. PICK r \in RowsOf(f.queue) : s.place = r.place /\ (~IsUnfiled(r) => s = r)
        BY <1>5
    <2>2. CASE IsUnfiled(r)
        <3>1. n < r.place /\ r.place < n
            BY <1>8, <2>1, <2>2 DEF InTurn, UnfiledLast, Returns, NewestBefore
        <3>2. r.place \in Nat /\ n \in Nat
            BY <1>2 DEF RowsOf, QueuedType, Returns, MadeOK
        <3>3. QED BY <3>1, <3>2
    <2>3. QED BY <2>1, <2>2
<1>9. ReturnsWait(g, m)
    <2> SUFFICES ASSUME NEW x \in RowsOf(g.queue), NEW s \in RowsOf(g.queue), x.kind = "refocus",
                        NewestBefore(m, s, x.id), FiledIn(g.queue, s, x.session)
                 PROVE  x.follows = s.id
        BY DEF ReturnsWait
    <2>1. x \in RowsOf(f.queue)
        BY <1>5 DEF IsUnfiled, IsUnlock
    <2>2. x.id \in Returns(m)
        BY <1>6 DEF Fits, RowFits, Returns
    <2>3. s \in RowsOf(f.queue)
        BY <1>8, <2>2
    <2>4. FiledIn(f.queue, s, x.session)
        BY <1>4 DEF FiledIn
    <2>5. QED BY <2>1, <2>3, <2>4 DEF InTurn, ReturnsWait
<1>10. GoneAfter(g, m, gone)
    BY <1>4, <1>8 DEF InTurn, GoneAfter, FiledIn
<1>11. NewestKnown(g, m)
    <2> SUFFICES ASSUME NEW s \in RowsOf(g.queue), NotGivenUp(g.queue, s),
                        \A n \in DOMAIN m : m[n].kind = "unlock" => m[n].place =< s.place
                 PROVE  s.id = g.lastUnlock
        BY DEF NewestKnown
    <2>1. PICK r \in RowsOf(f.queue) :
                /\ s.id = r.id /\ s.place = r.place
                /\ ~IsUnfiled(r) => s = r
        BY <1>5
    <2>2. NotGivenUp(f.queue, r)
        BY <1>4, <2>1 DEF NotGivenUp, IsUnfiled
    <2>3. QED BY <1>1, <2>1, <2>2 DEF InTurn, NewestKnown
<1>12. InTurn(g, m, gone)
    BY <1>7, <1>9, <1>10, <1>11 DEF InTurn
<1>13. QED BY <1>4, <1>6, <1>12 DEF g

(* A change of what a row says of its sending alone. *)
Marked(r, s) ==
    /\ s.id = r.id /\ s.kind = r.kind /\ s.session = r.session /\ s.tap = r.tap
    /\ s.place = r.place /\ s.follows = r.follows

LEMMA MarkedTurns ==
    ASSUME NEW f, NEW g \in FileType, NEW m, NEW gone, Fits(f, m), InTurn(f, m, gone),
           g.lastTap = f.lastTap, g.lastUnlock = f.lastUnlock,
           DOMAIN g.queue = DOMAIN f.queue,
           \A i \in DOMAIN f.queue : Marked(f.queue[i], g.queue[i])
    PROVE  Fits(g, m) /\ InTurn(g, m, gone) /\ Ids(g.queue) = Ids(f.queue)
<1>1. Ids(g.queue) = Ids(f.queue)
    BY DEF Ids, Marked
<1>2. Distinct(g.queue)
    BY DEF Fits, Distinct, Marked
<1>3. \A s \in RowsOf(g.queue) : \E r \in RowsOf(f.queue) : Eases(g.queue, r, s)
    BY DEF RowsOf, Eases, Marked
<1>4. QED BY <1>1, <1>2, <1>3, EasedFits, EasedTurns

(* One record settled, of a queue whose records are eased as it goes. *)
LEMMA WithoutIs ==
    ASSUME NEW q \in Seq(QueuedType), NEW id
    PROVE  /\ Without(q, id) \in Seq(QueuedType)
           /\ RowsOf(Without(q, id)) = {r \in RowsOf(q) : r.id # id}
           /\ Ids(Without(q, id)) = Ids(q) \ {id}
           /\ Distinct(q) => Distinct(Without(q, id))
<1> DEFINE S == {i \in DOMAIN q : q[i].id # id}
<1>1. S \in SUBSET DOMAIN q /\ Without(q, id) = At(q, S)
    BY DEF Without
<1>2. RowsOf(At(q, S)) = {q[i] : i \in S} /\ At(q, S) \in Seq(QueuedType)
      /\ (Distinct(q) => Distinct(At(q, S)))
    BY <1>1, AtIs
<1>3. {q[i] : i \in S} = {r \in RowsOf(q) : r.id # id}
    BY DEF RowsOf
<1> HIDE DEF S
<1>4. RowsOf(Without(q, id)) = {r \in RowsOf(q) : r.id # id}
    BY <1>1, <1>2, <1>3
<1>5. Ids(Without(q, id)) = {r.id : r \in {o \in RowsOf(q) : o.id # id}}
    BY <1>4, IdsAre
<1>6. Ids(Without(q, id)) = Ids(q) \ {id}
    BY <1>5, IdsAre
<1>7. QED BY <1>1, <1>2, <1>4, <1>6

LEMMA SettledTurns ==
    ASSUME NEW f, NEW m, NEW gone, Fits(f, m), InTurn(f, m, gone), NEW id \in Nat \ {0},
           NEW q \in Seq(QueuedType), DOMAIN q = DOMAIN f.queue,
           \A i \in DOMAIN q :
               LET r == f.queue[i] IN q[i] = r \/ (r.tap = id /\ \E sid : q[i] = [r EXCEPT !.session = sid])
    PROVE  LET g == [f EXCEPT !.queue = Without(q, id)]
           IN Fits(g, m) /\ InTurn(g, m, gone) /\ Ids(g.queue) = Ids(f.queue) \ {id}
<1> DEFINE g == [f EXCEPT !.queue = Without(q, id)]
<1>1. \A i \in DOMAIN f.queue : f.queue[i] \in QueuedType
    BY DEF Fits, FileType
<1>2. ASSUME NEW i \in DOMAIN f.queue
      PROVE  LET r == f.queue[i]
                 s == q[i]
             IN /\ s.id = r.id /\ s.kind = r.kind /\ s.place = r.place /\ s.follows = r.follows
                /\ s.tap = r.tap /\ (s.session = r.session \/ r.tap = id)
    <2>1. ASSUME NEW r \in QueuedType, NEW sid
          PROVE  LET s == [r EXCEPT !.session = sid]
                 IN /\ s.id = r.id /\ s.kind = r.kind /\ s.place = r.place
                    /\ s.follows = r.follows /\ s.tap = r.tap
        BY DEF QueuedType
    <2>2. f.queue[i] \in QueuedType
        BY <1>1
    <2>3. CASE q[i] = f.queue[i]
        BY <2>3
    <2>4. ASSUME NEW sid, f.queue[i].tap = id, q[i] = [f.queue[i] EXCEPT !.session = sid]
          PROVE  LET r == f.queue[i]
                     s == q[i]
                 IN /\ s.id = r.id /\ s.kind = r.kind /\ s.place = r.place
                    /\ s.follows = r.follows /\ s.tap = r.tap /\ r.tap = id
        BY <2>1, <2>2, <2>4
    <2>5. QED BY <2>3, <2>4
<1>3. Distinct(q) /\ Ids(q) = Ids(f.queue)
    BY <1>2 DEF Fits, Distinct, Ids
<1>4. /\ g \in FileType /\ g.queue = Without(q, id)
      /\ g.lastTap = f.lastTap /\ g.lastUnlock = f.lastUnlock
    <2>1. Without(q, id) \in Seq(QueuedType) /\ f \in FileType
        BY WithoutIs DEF Fits
    <2>2. QED BY <2>1 DEF FileType
<1>5. /\ Ids(g.queue) = Ids(f.queue) \ {id} /\ Distinct(g.queue)
      /\ RowsOf(g.queue) \subseteq RowsOf(q)
    BY <1>3, <1>4, WithoutIs
<1> HIDE DEF g
<1>6. ASSUME NEW s \in RowsOf(g.queue)
      PROVE  \E r \in RowsOf(f.queue) : Eases(g.queue, r, s)
    <2>0. s \in RowsOf(q)
        BY <1>5
    <2>1. PICK i \in DOMAIN q : s = q[i]
        BY <2>0 DEF RowsOf
    <2>2. i \in DOMAIN f.queue /\ f.queue[i] \in RowsOf(f.queue)
        BY DEF RowsOf
    <2>3. id \notin Ids(g.queue) /\ id # 0
        BY <1>5
    <2>4. Eases(g.queue, f.queue[i], s)
        BY <1>2, <2>1, <2>2, <2>3 DEF Eases
    <2>5. QED BY <2>2, <2>4
<1>7. Fits(g, m)
    BY <1>4, <1>5, <1>6, EasedFits
<1>8. InTurn(g, m, gone)
    BY <1>4, <1>5, <1>6, EasedTurns
<1>9. QED BY <1>5, <1>7, <1>8 DEF g

(* A record sent is made again as it then says, but for a return's lesson. *)
LEMMA SentTurns ==
    ASSUME NEW f, NEW m, NEW m2 \in Seq(MadeType), NEW gone \in SUBSET Returns(m), MadeOK(m),
           Fits(f, m), InTurn(f, m, gone), DOMAIN m2 = DOMAIN m,
           \A n \in DOMAIN m :
               /\ m2[n].kind = m[n].kind /\ m2[n].place = m[n].place
               /\ m[n].kind \notin {"tap", "unlock"} => m2[n].session = m[n].session
    PROVE  Fits(f, m2) /\ InTurn(f, m2, gone) /\ MadeOK(m2)
<1>1. Len(m2) = Len(m)
    BY DEF MadeOK
<1>2. Fits(f, m2)
    BY <1>1 DEF Fits, RowFits
<1>3. MadeOK(m2)
    BY DEF MadeOK
<1>4. \A r, id : NewestBefore(m2, r, id) => NewestBefore(m, r, id)
    BY DEF NewestBefore
<1>5. UnfiledLast(f, m2) /\ ReturnsWait(f, m2) /\ NewestKnown(f, m2)
    BY <1>4 DEF InTurn, UnfiledLast, ReturnsWait, NewestKnown
<1>6. GoneAfter(f, m2, gone)
    BY <1>4 DEF InTurn, GoneAfter, Returns
<1>7. QED BY <1>2, <1>3, <1>5, <1>6 DEF InTurn

(* A return that goes leaves no unlock behind: it would have waited for it. *)
LEMMA GoesAfter ==
    ASSUME NEW f, NEW m, NEW gone, Fits(f, m), InTurn(f, m, gone), NEW x \in RowsOf(f.queue),
           CanGo(f.queue, x)
    PROVE  x.kind = "refocus" => GoneAfter(f, m, gone \cup {x.id})
<1> SUFFICES ASSUME x.kind = "refocus", NEW r \in RowsOf(f.queue), NewestBefore(m, r, x.id),
                    FiledIn(f.queue, r, m[x.id].session)
             PROVE  FALSE
    BY DEF InTurn, GoneAfter
<1>1. x.session = m[x.id].session
    BY DEF Fits, RowFits
<1>2. x.follows = r.id
    BY <1>1 DEF InTurn, ReturnsWait
<1>3. r.id \in Ids(f.queue)
    BY IdsAre
<1>4. QED BY <1>2, <1>3 DEF CanGo

-----------------------------------------------------------------------------
(* Unlocks filed again. *)

Again(presses, last, id) ==
    IF \E k \in DOMAIN presses : presses[k].id = id
    THEN last + (CHOOSE k \in DOMAIN presses : presses[k].id = id) ELSE id
GivenUp(presses, last, r) ==
    [r EXCEPT !.session = IF Again(presses, last, r.id) # r.id THEN 0 ELSE @,
              !.follows = Again(presses, last, @)]
Anew(presses, last, k) ==
    Row(last + k, presses[k].place, Change("unlock", presses[k].session, 0), 0, TRUE)

LEMMA AgainIs ==
    ASSUME NEW presses \in Seq(QueuedType), Distinct(presses), NEW last \in Nat,
           \A k \in DOMAIN presses : presses[k].id =< last
    PROVE  /\ \A k \in DOMAIN presses : Again(presses, last, presses[k].id) = last + k
           /\ \A k \in DOMAIN presses : k \in Nat \ {0} /\ presses[k] \in QueuedType
           /\ \A id : Again(presses, last, id) = id <=> \A k \in DOMAIN presses : presses[k].id # id
           /\ \A id \in Nat : Again(presses, last, id) \in Nat
<1>1. \A k \in DOMAIN presses : k \in Nat \ {0} /\ presses[k] \in QueuedType
    OBVIOUS
<1>2. ASSUME NEW k \in DOMAIN presses
      PROVE  Again(presses, last, presses[k].id) = last + k
    <2>1. (CHOOSE j \in DOMAIN presses : presses[j].id = presses[k].id) = k
        BY DEF Distinct
    <2>2. QED BY <2>1 DEF Again
<1>3. ASSUME NEW k \in DOMAIN presses
      PROVE  last + k # presses[k].id /\ last + k \in Nat
    <2>1. k \in Nat \ {0} /\ presses[k].id =< last /\ presses[k].id \in Nat
        BY <1>1 DEF QueuedType
    <2>2. QED BY <2>1
<1>4. \A id : Again(presses, last, id) = id <=> \A k \in DOMAIN presses : presses[k].id # id
    BY <1>2, <1>3 DEF Again
<1>5. \A id \in Nat : Again(presses, last, id) \in Nat
    BY <1>2, <1>3, <1>4
<1>6. QED BY <1>1, <1>2, <1>4, <1>5

LEMMA RefiledIs ==
    ASSUME NEW f \in FileType, NEW presses \in Seq(QueuedType), Distinct(presses),
           NEW last \in Nat, \A k \in DOMAIN presses : presses[k].id =< last,
           Distinct(f.queue), \A r \in RowsOf(f.queue) : r.id =< last
    PROVE  LET g == Refiled(f, presses, last)
           IN /\ g \in FileType /\ Distinct(g.queue) /\ g.lastTap = f.lastTap
              /\ g.lastUnlock = Again(presses, last, f.lastUnlock)
              /\ \A s \in RowsOf(g.queue) :
                    \/ \E r \in RowsOf(f.queue) : s = GivenUp(presses, last, r)
                    \/ \E k \in DOMAIN presses : s = Anew(presses, last, k)
              /\ Ids(g.queue) = Ids(f.queue) \cup {last + k : k \in DOMAIN presses}
<1> DEFINE q == [i \in DOMAIN f.queue |-> GivenUp(presses, last, f.queue[i])]
           new == [k \in DOMAIN presses |-> Anew(presses, last, k)]
           g == [f EXCEPT !.queue = q \o new, !.lastUnlock = Again(presses, last, @)]
<1>1. Refiled(f, presses, last) = g
    BY DEF Refiled, Each, Again, GivenUp, Anew
<1>2. /\ \A k \in DOMAIN presses : k \in Nat \ {0} /\ presses[k] \in QueuedType
      /\ \A id \in Nat : Again(presses, last, id) \in Nat
    BY AgainIs
<1>3. \A i \in DOMAIN f.queue : f.queue[i] \in QueuedType
    BY DEF FileType
<1>4. ASSUME NEW r \in QueuedType
      PROVE  GivenUp(presses, last, r) \in QueuedType /\ GivenUp(presses, last, r).id = r.id
    <2>1. Again(presses, last, r.follows) \in Nat
        BY <1>2 DEF QueuedType
    <2>2. ASSUME NEW to \in Nat, NEW sid \in {0, r.session}
          PROVE  LET s == [r EXCEPT !.session = sid, !.follows = to]
                 IN s \in QueuedType /\ s.id = r.id
        BY DEF QueuedType, Sids, NoSession
    <2>3. (IF Again(presses, last, r.id) # r.id THEN 0 ELSE r.session) \in {0, r.session}
        OBVIOUS
    <2>4. QED BY <2>1, <2>2, <2>3 DEF GivenUp
<1>5. ASSUME NEW k \in DOMAIN presses
      PROVE  Anew(presses, last, k) \in QueuedType /\ Anew(presses, last, k).id = last + k
    <2> HIDE DEF g, q, new
    <2>0. k \in Nat
        BY <1>2
    <2>1. last + k \in Nat
        BY <2>0
    <2>2. presses[k].place \in Nat /\ presses[k].session \in Sids
        BY <1>2 DEF QueuedType
    <2>3. QED BY <2>1, <2>2 DEF Anew, Row, Change, QueuedType, Kinds
<1>6. q \in Seq(QueuedType) /\ DOMAIN q = DOMAIN f.queue /\ Len(q) = Len(f.queue)
    BY <1>3, <1>4 DEF FileType
<1>7. new \in Seq(QueuedType) /\ DOMAIN new = DOMAIN presses /\ Len(new) = Len(presses)
    BY <1>5
<1>8. \A i \in DOMAIN q : q[i].id = f.queue[i].id /\ q[i].id =< last /\ q[i].id \in Nat
    BY <1>3, <1>4 DEF RowsOf, QueuedType
<1>9. \A k \in DOMAIN new : new[k].id = last + k
    BY <1>5
<1>10. \A i \in DOMAIN q : \E r \in RowsOf(f.queue) : q[i] = GivenUp(presses, last, r)
    BY DEF RowsOf
<1>11. \A k \in DOMAIN new : new[k] = Anew(presses, last, k)
    OBVIOUS
<1>12. DOMAIN q = DOMAIN f.queue
    OBVIOUS
<1> HIDE DEF q, new
<1>13. /\ q \o new \in Seq(QueuedType) /\ DOMAIN (q \o new) = 1..(Len(q) + Len(new))
       /\ \A i \in DOMAIN q : i \in DOMAIN (q \o new) /\ (q \o new)[i] = q[i]
       /\ \A k \in DOMAIN new : Len(q) + k \in DOMAIN (q \o new) /\ (q \o new)[Len(q) + k] = new[k]
       /\ \A i \in DOMAIN (q \o new) :
             i \in DOMAIN q \/ (i - Len(q) \in DOMAIN new /\ (q \o new)[i] = new[i - Len(q)])
    <2>1. q \o new \in Seq(QueuedType) /\ Len(q \o new) = Len(q) + Len(new)
        BY <1>6, <1>7, ConcatProperties
    <2>2. /\ DOMAIN q = 1..Len(q) /\ DOMAIN new = 1..Len(new)
          /\ Len(q) \in Nat /\ Len(new) \in Nat
        BY <1>6, <1>7
    <2>3. \A i \in 1..(Len(q) + Len(new)) :
              (q \o new)[i] = IF i =< Len(q) THEN q[i] ELSE new[i - Len(q)]
        BY <1>6, <1>7, ConcatProperties
    <2>4. DOMAIN (q \o new) = 1..(Len(q) + Len(new))
        BY <2>1
    <2>5. \A i \in DOMAIN q : i \in DOMAIN (q \o new) /\ (q \o new)[i] = q[i]
        BY <2>2, <2>3, <2>4
    <2>6. ASSUME NEW k \in DOMAIN new
          PROVE  Len(q) + k \in DOMAIN (q \o new) /\ (q \o new)[Len(q) + k] = new[k]
        <3>1. k \in Nat \ {0} /\ k =< Len(new)
            BY <2>2
        <3>2. Len(q) + k \in 1..(Len(q) + Len(new)) /\ ~(Len(q) + k =< Len(q))
              /\ (Len(q) + k) - Len(q) = k
            BY <2>2, <3>1
        <3>3. QED BY <2>3, <2>4, <3>2
    <2>7. ASSUME NEW i \in DOMAIN (q \o new), i \notin DOMAIN q
          PROVE  i - Len(q) \in DOMAIN new /\ (q \o new)[i] = new[i - Len(q)]
        <3>1. i \in Nat \ {0} /\ i =< Len(q) + Len(new) /\ ~(i =< Len(q))
            BY <2>2, <2>4, <2>7
        <3>2. i - Len(q) \in 1..Len(new)
            BY <2>2, <3>1
        <3>3. QED BY <2>2, <2>3, <2>4, <3>1, <3>2
    <2>8. QED BY <2>1, <2>4, <2>5, <2>6, <2>7
<1>14. g \in FileType /\ g.queue = q \o new /\ g.lastTap = f.lastTap
       /\ g.lastUnlock = Again(presses, last, f.lastUnlock)
    BY <1>2, <1>13 DEF FileType
<1>15. Distinct(q \o new)
    <2> SUFFICES ASSUME NEW i \in DOMAIN (q \o new), NEW j \in DOMAIN (q \o new),
                        (q \o new)[i].id = (q \o new)[j].id
                 PROVE  i = j
        BY DEF Distinct
    <2>1. CASE i \in DOMAIN q /\ j \in DOMAIN q
        BY <1>8, <1>12, <1>13, <2>1 DEF Distinct
    <2>2. ASSUME NEW a \in DOMAIN q, NEW k \in DOMAIN new
          PROVE  q[a].id # new[k].id
        <3>1. k \in Nat \ {0} /\ q[a].id =< last /\ q[a].id \in Nat /\ new[k].id = last + k
            BY <1>2, <1>7, <1>8, <1>9
        <3>2. QED BY <3>1
    <2>3. CASE i \notin DOMAIN q /\ j \notin DOMAIN q
        <3>1. i - Len(q) \in DOMAIN new /\ j - Len(q) \in DOMAIN new
              /\ last + (i - Len(q)) = last + (j - Len(q))
            BY <1>9, <1>13, <2>3
        <3>2. i \in Nat /\ j \in Nat /\ Len(q) \in Nat
            BY <1>6, <1>13
        <3>3. QED BY <3>1, <3>2
    <2>4. QED BY <1>13, <2>1, <2>2, <2>3
<1>16. \A s \in RowsOf(q \o new) : (\E i \in DOMAIN q : s = q[i]) \/ (\E k \in DOMAIN new : s = new[k])
    BY <1>13 DEF RowsOf
<1>17. Ids(q \o new) = Ids(f.queue) \cup {last + k : k \in DOMAIN presses}
    <2>1. ASSUME NEW id \in Ids(q \o new)
          PROVE  id \in Ids(f.queue) \cup {last + k : k \in DOMAIN presses}
        <3>1. PICK i \in DOMAIN (q \o new) : id = (q \o new)[i].id
            BY DEF Ids
        <3>2. CASE i \in DOMAIN q
            <4>1. i \in DOMAIN f.queue /\ id = f.queue[i].id
                BY <1>8, <1>12, <1>13, <3>1, <3>2
            <4>2. QED BY <4>1 DEF Ids
        <3>3. CASE i \notin DOMAIN q
            <4>1. i - Len(q) \in DOMAIN new /\ id = new[i - Len(q)].id
                BY <1>13, <3>1, <3>3
            <4>2. i - Len(q) \in DOMAIN presses /\ id = last + (i - Len(q))
                BY <1>7, <1>9, <4>1
            <4>3. QED BY <4>2
        <3>4. QED BY <3>2, <3>3
    <2>2. ASSUME NEW id \in Ids(f.queue)
          PROVE  id \in Ids(q \o new)
        <3>1. PICK i \in DOMAIN f.queue : id = f.queue[i].id
            BY DEF Ids
        <3>2. i \in DOMAIN (q \o new) /\ id = (q \o new)[i].id
            BY <1>8, <1>12, <1>13, <3>1
        <3>3. QED BY <3>2 DEF Ids
    <2>3. ASSUME NEW k \in DOMAIN presses
          PROVE  last + k \in Ids(q \o new)
        <3>1. Len(q) + k \in DOMAIN (q \o new) /\ (q \o new)[Len(q) + k].id = last + k
            BY <1>7, <1>9, <1>13
        <3>2. QED BY <3>1 DEF Ids
    <2>4. QED BY <2>1, <2>2, <2>3
<1> HIDE DEF g
<1>18. \A s \in RowsOf(g.queue) :
          \/ \E r \in RowsOf(f.queue) : s = GivenUp(presses, last, r)
          \/ \E k \in DOMAIN presses : s = Anew(presses, last, k)
    BY <1>7, <1>10, <1>11, <1>14, <1>16
<1>19. QED BY <1>1, <1>14, <1>15, <1>17, <1>18

(* The presses an answer files again are unlocks, each filed in a lesson and *)
(* under a tap still queued.                                                 *)
Pressed(q) == {r \in RowsOf(q) : IsUnlock(r) /\ r.tap \in Ids(q) /\ r.tap # 0 /\ r.session # NoSession}

(* What holds of the made records m and of the unlocks c made again of them. *)
MadeAgain(presses, c) ==
    /\ c \in Seq(MadeType) /\ DOMAIN c = DOMAIN presses
    /\ \A k \in DOMAIN presses : c[k].kind = "unlock" /\ c[k].place = presses[k].place

Makes(m, c) ==
    /\ c \in Seq(MadeType)
    /\ \A k \in DOMAIN c :
          /\ c[k].place =< Len(m) + k
          /\ c[k].kind \in {"tap", "reason", "unlock"} \/ c[k].session # NoSession
Grown(m, c, m2) ==
    /\ MadeOK(m2) /\ Len(m2) = Len(m) + Len(c) /\ Len(m) \in Nat
    /\ \A n \in DOMAIN m : n \in DOMAIN m2 /\ m2[n] = m[n]
    /\ \A k \in DOMAIN c : Len(m) + k \in DOMAIN m2 /\ m2[Len(m) + k] = c[k]
    /\ \A n \in DOMAIN m2 :
          \/ n \in DOMAIN m /\ n =< Len(m)
          \/ \E k \in DOMAIN c : n = Len(m) + k /\ m2[n] = c[k]

LEMMA MadeMore ==
    ASSUME NEW m, NEW c, MadeOK(m), Makes(m, c)
    PROVE  Grown(m, c, m \o c)
<1>1. m \in Seq(MadeType) /\ c \in Seq(MadeType)
    BY DEF MadeOK, Makes
<1>2. m \o c \in Seq(MadeType) /\ Len(m \o c) = Len(m) + Len(c)
    BY <1>1, ConcatProperties
<1>3. /\ DOMAIN m = 1..Len(m) /\ DOMAIN c = 1..Len(c)
      /\ Len(m) \in Nat /\ Len(c) \in Nat /\ DOMAIN (m \o c) = 1..(Len(m) + Len(c))
    BY <1>1, <1>2
<1>4. \A i \in 1..(Len(m) + Len(c)) : (m \o c)[i] = IF i =< Len(m) THEN m[i] ELSE c[i - Len(m)]
    BY <1>1, ConcatProperties
<1>5. \A n \in DOMAIN m : n \in DOMAIN (m \o c) /\ (m \o c)[n] = m[n] /\ n =< Len(m)
    BY <1>3, <1>4
<1>6. ASSUME NEW k \in DOMAIN c
      PROVE  Len(m) + k \in DOMAIN (m \o c) /\ (m \o c)[Len(m) + k] = c[k]
    <2>1. k \in Nat \ {0} /\ k =< Len(c)
        BY <1>3
    <2>2. Len(m) + k \in 1..(Len(m) + Len(c)) /\ ~(Len(m) + k =< Len(m)) /\ (Len(m) + k) - Len(m) = k
        BY <1>3, <2>1
    <2>3. QED BY <1>3, <1>4, <2>2
<1>7. ASSUME NEW n \in DOMAIN (m \o c), n \notin DOMAIN m
      PROVE  \E k \in DOMAIN c : n = Len(m) + k /\ (m \o c)[n] = c[k]
    <2>1. n \in Nat \ {0} /\ n =< Len(m) + Len(c) /\ ~(n =< Len(m))
        BY <1>3, <1>7
    <2>2. n - Len(m) \in 1..Len(c) /\ n = Len(m) + (n - Len(m))
        BY <1>3, <2>1
    <2>3. n - Len(m) \in DOMAIN c /\ (m \o c)[n] = c[n - Len(m)]
        BY <1>3, <1>4, <2>1, <2>2
    <2>4. QED BY <2>2, <2>3
<1>8. MadeOK(m \o c)
    <2> SUFFICES ASSUME NEW n \in DOMAIN (m \o c)
                 PROVE  /\ (m \o c)[n].place =< n
                        /\ \/ (m \o c)[n].kind \in {"tap", "reason", "unlock"}
                           \/ (m \o c)[n].session # NoSession
        BY <1>2 DEF MadeOK
    <2>1. CASE n \in DOMAIN m
        BY <1>5, <2>1 DEF MadeOK
    <2>2. CASE n \notin DOMAIN m
        BY <1>7, <2>2 DEF Makes
    <2>3. QED BY <2>1, <2>2
<1>9. QED BY <1>2, <1>3, <1>5, <1>6, <1>7, <1>8 DEF Grown

LEMMA RefiledTurns ==
    ASSUME NEW f, NEW m, NEW gone \in SUBSET Returns(m), MadeOK(m), Fits(f, m),
           InTurn(f, m, gone), NEW presses \in Seq(QueuedType), Distinct(presses),
           RowsOf(presses) \subseteq Pressed(f.queue), NEW c, MadeAgain(presses, c)
    PROVE  LET g == Refiled(f, presses, Len(m))
           IN /\ Fits(g, m \o c) /\ InTurn(g, m \o c, gone) /\ MadeOK(m \o c)
              /\ Ids(g.queue) = Ids(f.queue) \cup {Len(m) + k : k \in DOMAIN presses}
<1> DEFINE last == Len(m)
           m2 == m \o c
           g == Refiled(f, presses, last)
           to(id) == Again(presses, last, id)
<1>1. /\ m \in Seq(MadeType) /\ last \in Nat /\ DOMAIN m = 1..last
      /\ \A k \in DOMAIN presses : presses[k] \in RowsOf(f.queue)
      /\ \A k \in DOMAIN presses : presses[k] \in Pressed(f.queue)
    <2>1. m \in Seq(MadeType)
        BY DEF MadeOK
    <2>2. \A k \in DOMAIN presses : presses[k] \in RowsOf(presses)
        BY DEF RowsOf
    <2>3. QED BY <2>1, <2>2 DEF Pressed
<1>2. /\ f \in FileType /\ Distinct(f.queue)
      /\ \A r \in RowsOf(f.queue) : r \in QueuedType /\ RowFits(m, r) /\ r.id =< last
    BY <1>1 DEF Fits, FileType, RowsOf, RowFits
<1>3. \A k \in DOMAIN presses : presses[k].id =< last /\ RowFits(m, presses[k])
    BY <1>1, <1>2
<1>4. /\ g \in FileType /\ Distinct(g.queue) /\ g.lastTap = f.lastTap
      /\ g.lastUnlock = to(f.lastUnlock)
      /\ \A s \in RowsOf(g.queue) :
            \/ \E r \in RowsOf(f.queue) : s = GivenUp(presses, last, r)
            \/ \E k \in DOMAIN presses : s = Anew(presses, last, k)
      /\ Ids(g.queue) = Ids(f.queue) \cup {last + k : k \in DOMAIN presses}
    BY <1>1, <1>2, <1>3, RefiledIs
<1>5. /\ \A k \in DOMAIN presses : to(presses[k].id) = last + k
      /\ \A k \in DOMAIN presses : k \in Nat \ {0} /\ presses[k] \in QueuedType
      /\ \A id : to(id) = id <=> \A k \in DOMAIN presses : presses[k].id # id
    BY <1>1, <1>3, AgainIs
<1>6. /\ MadeOK(m2) /\ Len(m2) = last + Len(presses)
      /\ \A n \in DOMAIN m : n \in DOMAIN m2 /\ m2[n] = m[n]
      /\ \A k \in DOMAIN presses : last + k \in DOMAIN m2 /\ m2[last + k] = c[k]
      /\ \A n \in DOMAIN m2 : n \in DOMAIN m \/ m2[n].kind = "unlock"
    <2>1. c \in Seq(MadeType) /\ DOMAIN c = DOMAIN presses /\ Len(c) = Len(presses)
        BY DEF MadeAgain
    <2>2. ASSUME NEW k \in DOMAIN c
          PROVE  c[k].place =< last + k
        <3>1. presses[k].id \in DOMAIN m /\ m[presses[k].id].place = presses[k].place
              /\ presses[k].id =< last
            BY <1>3, <2>1 DEF RowFits
        <3>2. presses[k].place =< presses[k].id
            BY <3>1 DEF MadeOK
        <3>3. presses[k].place \in Nat /\ presses[k].id \in Nat /\ k \in Nat
            BY <1>5, <2>1 DEF QueuedType
        <3>4. c[k].place = presses[k].place
            BY <2>1 DEF MadeAgain
        <3>5. QED BY <1>1, <3>1, <3>2, <3>3, <3>4
    <2>3. \A k \in DOMAIN c : c[k].kind = "unlock"
        BY <2>1 DEF MadeAgain
    <2>4. Grown(m, c, m2)
        <3>1. Makes(m, c)
            BY <2>1, <2>2, <2>3 DEF Makes
        <3>2. QED BY <3>1, MadeMore
    <2> HIDE DEF m2, last, g, to
    <2> HIDE DEF m2
    <2>5. \A n \in DOMAIN m2 : n \in DOMAIN m \/ m2[n].kind = "unlock"
        BY <2>3, <2>4 DEF Grown
    <2>6. QED BY <2>1, <2>4, <2>5 DEF last, Grown
<1> HIDE DEF last, m2, g, to
<1>7. \A id : id =< last => (id \in Ids(g.queue) <=> id \in Ids(f.queue))
    BY <1>1, <1>4, <1>5
<1>8. ASSUME NEW k \in DOMAIN presses
      PROVE  LET p == presses[k]
                 s == Anew(presses, last, k)
             IN /\ s.kind = "unlock" /\ p.kind = "unlock" /\ s.place = p.place
                /\ s.id = last + k /\ s.id = to(p.id) /\ s.tap = 0 /\ s.session = p.session
                /\ p.session # NoSession /\ p.tap # 0 /\ p.tap \in Ids(f.queue)
    BY <1>1, <1>5 DEF Anew, Row, Change, Pressed, IsUnlock
<1>9. ASSUME NEW r \in RowsOf(f.queue)
      PROVE  LET s == GivenUp(presses, last, r)
             IN /\ s.kind = r.kind /\ s.place = r.place /\ s.id = r.id /\ s.tap = r.tap
                /\ s.follows = to(r.follows)
                /\ to(r.id) = r.id => s.session = r.session
                /\ to(r.id) # r.id => r.kind = "unlock" /\ r.tap # 0 /\ s.session = NoSession
    <2>1. r \in QueuedType
        BY <1>2
    <2>2. LET s == GivenUp(presses, last, r)
          IN /\ s.kind = r.kind /\ s.place = r.place /\ s.id = r.id /\ s.tap = r.tap
             /\ s.follows = to(r.follows)
             /\ s.session = IF to(r.id) # r.id THEN 0 ELSE r.session
        BY <2>1 DEF GivenUp, QueuedType, to
    <2>3. ASSUME to(r.id) # r.id
          PROVE  r.kind = "unlock" /\ r.tap # 0
        <3>1. PICK k \in DOMAIN presses : presses[k].id = r.id
            BY <1>5, <2>3
        <3>2. presses[k] = r
            BY <1>1, <1>2, <3>1 DEF Distinct, RowsOf
        <3>3. QED BY <1>8, <3>2
    <2>4. QED BY <2>2, <2>3 DEF NoSession
<1>10. ASSUME NEW r \in RowsOf(f.queue), NEW s, s.tap = r.tap, s.session = r.session
       PROVE  /\ \A sid : FiledIn(g.queue, s, sid) => FiledIn(f.queue, r, sid)
              /\ s.kind = r.kind /\ NotGivenUp(g.queue, s) => NotGivenUp(f.queue, r)
    <2>1. r.tap =< last
        BY <1>2 DEF RowFits, last
    <2>2. QED BY <1>7, <1>10, <2>1 DEF FiledIn, NotGivenUp, IsUnlock
<1>11. ASSUME NEW s \in RowsOf(g.queue)
       PROVE  \E r \in RowsOf(f.queue) :
                 /\ s.kind = r.kind /\ s.place = r.place
                 /\ \A sid : sid # NoSession /\ FiledIn(g.queue, s, sid) =>
                        FiledIn(f.queue, r, sid) /\ s.id = to(r.id)
                 /\ NotGivenUp(g.queue, s) => NotGivenUp(f.queue, r) /\ s.id = to(r.id)
                 /\ IsUnfiled(s) => IsUnfiled(r)
                 /\ s.kind = "refocus" =>
                        s.id = r.id /\ s.session = r.session /\ s.follows = to(r.follows)
    <2>1. ASSUME NEW k \in DOMAIN presses, s = Anew(presses, last, k)
          PROVE  LET r == presses[k]
                 IN /\ r \in RowsOf(f.queue) /\ s.kind = r.kind /\ s.place = r.place
                    /\ s.kind = "unlock" /\ s.id = to(r.id) /\ ~IsUnfiled(s)
                    /\ \A sid : FiledIn(g.queue, s, sid) => FiledIn(f.queue, r, sid)
                    /\ NotGivenUp(f.queue, r)
        BY <1>1, <1>8, <2>1 DEF FiledIn, NotGivenUp, IsUnlock, IsUnfiled, NoSession
    <2>2. ASSUME NEW r \in RowsOf(f.queue), s = GivenUp(presses, last, r), to(r.id) = r.id
          PROVE  /\ s.kind = r.kind /\ s.place = r.place /\ s.id = to(r.id)
                 /\ s.id = r.id /\ s.session = r.session /\ s.follows = to(r.follows)
                 /\ \A sid : FiledIn(g.queue, s, sid) => FiledIn(f.queue, r, sid)
                 /\ NotGivenUp(g.queue, s) => NotGivenUp(f.queue, r)
                 /\ IsUnfiled(s) => IsUnfiled(r)
        BY <1>9, <1>10, <2>2 DEF IsUnfiled, IsUnlock
    <2>3. ASSUME NEW r \in RowsOf(f.queue), s = GivenUp(presses, last, r), to(r.id) # r.id
          PROVE  /\ s.kind = r.kind /\ s.place = r.place /\ s.kind = "unlock"
                 /\ \A sid : sid # NoSession => ~FiledIn(g.queue, s, sid)
                 /\ ~NotGivenUp(g.queue, s) /\ ~IsUnfiled(s)
        BY <1>9, <2>3 DEF FiledIn, NotGivenUp, IsUnfiled, IsUnlock
    <2>4. CASE \E k \in DOMAIN presses : s = Anew(presses, last, k)
        BY <2>1, <2>4
    <2>5. CASE \E r \in RowsOf(f.queue) : s = GivenUp(presses, last, r)
        BY <2>2, <2>3, <2>5
    <2>6. QED BY <1>4, <2>4, <2>5
<1>12. \A r, s, id : /\ s.kind = r.kind /\ s.place = r.place /\ NewestBefore(m2, s, id)
                     => NewestBefore(m, r, id)
    BY <1>6 DEF NewestBefore, IsUnlock
<1>13. Fits(g, m2)
    <2>1. ASSUME NEW s \in RowsOf(g.queue)
          PROVE  RowFits(m2, s)
        <3>1. ASSUME NEW k \in DOMAIN presses, s = Anew(presses, last, k)
              PROVE  RowFits(m2, s)
            <4>1. m2[last + k].kind = "unlock" /\ m2[last + k].place = presses[k].place
                BY <1>6 DEF MadeAgain
            <4>2. 0 =< Len(m2)
                BY <1>1, <1>6
            <4>3. QED BY <1>6, <1>8, <3>1, <4>1, <4>2 DEF RowFits
        <3>2. ASSUME NEW r \in RowsOf(f.queue), s = GivenUp(presses, last, r)
              PROVE  RowFits(m2, s)
            <4>1. RowFits(m, r) /\ r.tap \in Nat
                BY <1>2 DEF QueuedType
            <4>2. r.id \in DOMAIN m2 /\ m2[r.id] = m[r.id]
                BY <1>6, <4>1 DEF RowFits
            <4>3. r.tap =< Len(m2)
                BY <1>1, <1>6, <4>1 DEF RowFits, last
            <4>4. QED BY <1>9, <3>2, <4>1, <4>2, <4>3 DEF RowFits
        <3>3. QED BY <1>4, <3>1, <3>2
    <2>2. g.lastTap =< Len(m2)
        <3>1. f.lastTap =< last /\ f.lastTap \in Nat
            BY DEF Fits, FileType, last
        <3>2. QED BY <1>1, <1>4, <1>6, <3>1
    <2>3. QED BY <1>4, <2>1, <2>2 DEF Fits
<1>14. UnfiledLast(g, m2)
    <2> SUFFICES ASSUME NEW n \in DOMAIN m2, NEW s \in RowsOf(g.queue),
                        m2[n].kind = "refocus", IsUnfiled(s)
                 PROVE  n < s.place
        BY DEF UnfiledLast
    <2>1. n \in DOMAIN m /\ m[n].kind = "refocus"
        BY <1>6
    <2>2. PICK r \in RowsOf(f.queue) : s.place = r.place /\ IsUnfiled(r)
        BY <1>11
    <2>3. QED BY <2>1, <2>2 DEF InTurn, UnfiledLast
<1>15. \A n \in Returns(m) : m2[n] = m[n] /\ m[n].session # NoSession
    BY <1>6 DEF Returns, MadeOK
<1>16. ReturnsWait(g, m2)
    <2> SUFFICES ASSUME NEW x \in RowsOf(g.queue), NEW s \in RowsOf(g.queue), x.kind = "refocus",
                        NewestBefore(m2, s, x.id), FiledIn(g.queue, s, x.session)
                 PROVE  x.follows = s.id
        BY DEF ReturnsWait
    <2>1. PICK y \in RowsOf(f.queue) : /\ y.kind = "refocus" /\ x.id = y.id
                                       /\ x.session = y.session /\ x.follows = to(y.follows)
        BY <1>11
    <2>2. y.session # NoSession
        BY <1>2, <1>15, <2>1 DEF RowFits, Returns
    <2>3. PICK r \in RowsOf(f.queue) : /\ s.kind = r.kind /\ s.place = r.place
                                       /\ FiledIn(f.queue, r, y.session) /\ s.id = to(r.id)
        BY <1>11, <2>1, <2>2
    <2>4. NewestBefore(m, r, y.id)
        BY <1>12, <2>1, <2>3
    <2>5. y.follows = r.id
        BY <2>1, <2>3, <2>4 DEF InTurn, ReturnsWait
    <2>6. QED BY <2>1, <2>3, <2>5
<1>17. GoneAfter(g, m2, gone)
    <2> SUFFICES ASSUME NEW n \in gone, NEW s \in RowsOf(g.queue), NewestBefore(m2, s, n),
                        FiledIn(g.queue, s, m2[n].session)
                 PROVE  FALSE
        BY DEF GoneAfter
    <2>1. m2[n].session = m[n].session /\ m[n].session # NoSession
        BY <1>15
    <2>2. PICK r \in RowsOf(f.queue) : /\ s.kind = r.kind /\ s.place = r.place
                                       /\ FiledIn(f.queue, r, m[n].session)
        BY <1>11, <2>1
    <2>3. NewestBefore(m, r, n)
        BY <1>12, <2>2
    <2>4. QED BY <2>2, <2>3 DEF InTurn, GoneAfter
<1>18. NewestKnown(g, m2)
    <2> SUFFICES ASSUME NEW s \in RowsOf(g.queue), NotGivenUp(g.queue, s),
                        \A n \in DOMAIN m2 : m2[n].kind = "unlock" => m2[n].place =< s.place
                 PROVE  s.id = g.lastUnlock
        BY DEF NewestKnown
    <2>1. PICK r \in RowsOf(f.queue) : /\ s.place = r.place /\ s.id = to(r.id)
                                       /\ NotGivenUp(f.queue, r)
        BY <1>11
    <2>2. \A n \in DOMAIN m : m[n].kind = "unlock" => m[n].place =< r.place
        BY <1>6, <2>1
    <2>3. r.id = f.lastUnlock
        BY <2>1, <2>2 DEF InTurn, NewestKnown
    <2>4. QED BY <1>4, <2>1, <2>3
<1>19. InTurn(g, m2, gone)
    BY <1>14, <1>16, <1>17, <1>18 DEF InTurn
<1>20. QED BY <1>4, <1>6, <1>13, <1>19 DEF g, m2, last

-----------------------------------------------------------------------------
(* An answer settled. *)

Good(f, m, gone) ==
    /\ MadeOK(m) /\ Fits(f, m) /\ InTurn(f, m, gone) /\ gone \in SUBSET Returns(m)

Presses(f, id, d, answer) == IF id \in Ids(f.queue) THEN Unjoined(f, id, d, answer) ELSE <<>>

(* What the phone had queued it has still, but the record settled; and what it *)
(* files again it has.                                                         *)
Answered(f, m, c, id, d, g) ==
    /\ \A o \in Ids(f.queue) : o \in Ids(g.queue) \/ (o = id /\ ~Keeps(d))
    /\ \A k \in DOMAIN c : Len(m) + k \in Ids(g.queue)

LEMMA PressesAre ==
    ASSUME NEW f \in FileType, Distinct(f.queue), NEW id, NEW d, NEW answer,
           \A r \in RowsOf(f.queue) : r.id # 0
    PROVE  /\ Presses(f, id, d, answer) \in Seq(QueuedType)
           /\ Distinct(Presses(f, id, d, answer))
           /\ RowsOf(Presses(f, id, d, answer)) \subseteq Pressed(f.queue)
<1>1. CASE id \notin Ids(f.queue)
    <2>1. Presses(f, id, d, answer) = <<>>
        BY <1>1 DEF Presses
    <2>2. QED BY <2>1 DEF Distinct, RowsOf
<1>2. CASE id \in Ids(f.queue)
    <2> DEFINE pressed(r) == IsUnlock(r) /\ r.tap # 0 /\ r.session # 0
               queued(tap) == \E j \in DOMAIN f.queue : f.queue[j].kind = "tap" /\ f.queue[j].id = tap
               again(r) == \/ d \in {"wait_for_start", "retry_and_surface"} /\ r.tap = id
                           \/ d = "recorded" /\ answer.session = 0 /\ r.id = id /\ queued(r.tap)
               S == {i \in DOMAIN f.queue : pressed(f.queue[i]) /\ again(f.queue[i])}
    <2>1. Presses(f, id, d, answer) = At(f.queue, S)
        BY <1>2 DEF Presses, Unjoined
    <2>2. S \in SUBSET DOMAIN f.queue /\ f.queue \in Seq(QueuedType)
        BY DEF FileType
    <2>3. ASSUME NEW i \in S
          PROVE  f.queue[i] \in Pressed(f.queue)
        <3>1. f.queue[i] \in RowsOf(f.queue)
            BY DEF RowsOf
        <3>2. f.queue[i].tap \in Ids(f.queue)
            BY <1>2 DEF Ids
        <3>3. QED BY <3>1, <3>2 DEF Pressed, NoSession
    <2> HIDE DEF S
    <2>4. /\ At(f.queue, S) \in Seq(QueuedType) /\ Distinct(At(f.queue, S))
          /\ RowsOf(At(f.queue, S)) = {f.queue[i] : i \in S}
        BY <2>2, AtIs
    <2>5. QED BY <2>1, <2>3, <2>4
<1>3. QED BY <1>1, <1>2

LEMMA SettleTurns ==
    ASSUME NEW f, NEW m, NEW gone, Good(f, m, gone), NEW id, NEW d, NEW answer,
           answer.session \in Sids, NEW c, MadeAgain(Presses(f, id, d, answer), c)
    PROVE  /\ Good(Settle(f, id, d, answer, Len(m)), m \o c, gone)
           /\ Answered(f, m, c, id, d, Settle(f, id, d, answer, Len(m)))
<1> DEFINE presses == Presses(f, id, d, answer)
           g == Settle(f, id, d, answer, Len(m))
           m2 == m \o c
<1>1. /\ f \in FileType /\ Distinct(f.queue) /\ m \in Seq(MadeType) /\ Len(m) \in Nat
      /\ DOMAIN m = 1..Len(m)
    BY DEF Good, Fits, MadeOK
<1>2. \A r \in RowsOf(f.queue) : r.id \in Nat \ {0} /\ r.id =< Len(m)
    BY <1>1 DEF Good, Fits, RowFits
<1>3. presses \in Seq(QueuedType) /\ Distinct(presses) /\ RowsOf(presses) \subseteq Pressed(f.queue)
    BY <1>1, <1>2, PressesAre
<1>4. CASE id \notin Ids(f.queue)
    <2>1. g = f /\ presses = <<>>
        BY <1>4 DEF Settle, Presses
    <2>2. c = <<>> /\ m2 = m
        <3>1. c \in Seq(MadeType) /\ DOMAIN c = {}
            BY <2>1 DEF MadeAgain
        <3>2. c = <<>>
            BY <3>1
        <3>3. QED BY <1>1, <3>2, ConcatEmptySeq
    <2>3. QED BY <2>1, <2>2 DEF Answered
<1>5. CASE id \in Ids(f.queue)
    <2> DEFINE h == Refiled(f, presses, Len(m))
    <2>1. /\ Fits(h, m2) /\ InTurn(h, m2, gone) /\ MadeOK(m2)
          /\ Ids(h.queue) = Ids(f.queue) \cup {Len(m) + k : k \in DOMAIN presses}
        BY <1>3, RefiledTurns DEF Good
    <2>2. id \in Nat \ {0} /\ id =< Len(m)
        BY <1>2, <1>5, IdsAre
    <2>3. ASSUME NEW k \in DOMAIN c
          PROVE  k \in DOMAIN presses /\ Len(m) + k # id /\ Len(m) + k \in Ids(h.queue)
        <3>1. k \in Nat \ {0} /\ k \in DOMAIN presses
            BY <1>3 DEF MadeAgain
        <3>2. QED BY <1>1, <2>1, <2>2, <3>1
    <2>4. gone \in SUBSET Returns(m2)
        <3>1. gone \in SUBSET Returns(m)
            BY DEF Good
        <3>2. \A n \in DOMAIN m : n \in DOMAIN m2 /\ m2[n] = m[n]
            <4>1. c \in Seq(MadeType)
                BY DEF MadeAgain
            <4>2. Len(m2) = Len(m) + Len(c) /\ m2 \in Seq(MadeType) /\ Len(c) \in Nat
                BY <1>1, <4>1, ConcatProperties
            <4>3. \A n \in 1..(Len(m) + Len(c)) : n =< Len(m) => m2[n] = m[n]
                BY <1>1, <4>1, ConcatProperties
            <4>4. QED BY <1>1, <4>2, <4>3
        <3>3. QED BY <3>1, <3>2 DEF Returns
    <2>5. h \in FileType
        BY <2>1 DEF Fits
    <2> HIDE DEF h, m2
    <2>6. CASE Keeps(d)
        <3> DEFINE answers(r) == IF answer.outcome = "lost" \/ r.answers = Bound THEN r.answers
                                 ELSE r.answers + 1
                   late(r) == [r EXCEPT !.due = FALSE, !.tried = TRUE, !.answers = answers(r),
                                        !.stuck = @ \/ d = "retry_and_surface" \/ answers(r) = Bound]
                   q == [i \in DOMAIN h.queue |->
                            IF h.queue[i].id # id THEN h.queue[i] ELSE late(h.queue[i])]
        <3>1. g = [h EXCEPT !.queue = q]
            BY <1>5, <2>6 DEF Settle, Each, Presses, h
        <3>2. ASSUME NEW r \in QueuedType
              PROVE  late(r) \in QueuedType /\ Marked(r, late(r))
            <4>1. answers(r) \in Nat
                BY DEF QueuedType
            <4> HIDE DEF answers
            <4>2. QED BY <4>1 DEF QueuedType, Marked
        <3>3. \A i \in DOMAIN h.queue : h.queue[i] \in QueuedType
            BY <2>5 DEF FileType
        <3>4. \A i \in DOMAIN h.queue : q[i] \in QueuedType /\ Marked(h.queue[i], q[i])
            <4> HIDE DEF late
            <4>1. QED BY <3>2, <3>3 DEF Marked
        <3>5. q \in Seq(QueuedType) /\ DOMAIN q = DOMAIN h.queue
            <4>1. DOMAIN h.queue = 1..Len(h.queue) /\ Len(h.queue) \in Nat
                BY <2>5 DEF FileType
            <4>2. DOMAIN q = 1..Len(h.queue) /\ q = [i \in 1..Len(h.queue) |-> q[i]]
                BY <4>1
            <4> HIDE DEF q
            <4>3. QED BY <3>4, <4>1, <4>2
        <3> HIDE DEF q
        <3>6. g \in FileType /\ g.queue = q /\ g.lastTap = h.lastTap /\ g.lastUnlock = h.lastUnlock
            BY <2>5, <3>1, <3>5 DEF FileType
        <3> HIDE DEF g
        <3>7. Fits(g, m2) /\ InTurn(g, m2, gone) /\ Ids(g.queue) = Ids(h.queue)
            BY <2>1, <3>4, <3>5, <3>6, MarkedTurns
        <3>8. Good(g, m2, gone) /\ Answered(f, m, c, id, d, g)
            BY <2>1, <2>3, <2>4, <3>7 DEF Good, Answered
        <3>9. QED BY <3>8 DEF g, m2
    <2>7. CASE ~Keeps(d)
        <3> DEFINE q == IF d = "apply_session"
                        THEN [i \in DOMAIN h.queue |->
                                 IF h.queue[i].tap = id
                                 THEN [h.queue[i] EXCEPT !.session = answer.session]
                                 ELSE h.queue[i]]
                        ELSE h.queue
        <3>1. g = [h EXCEPT !.queue = Without(q, id)]
            BY <1>5, <2>7 DEF Settle, Each, Presses, h
        <3>2. ASSUME NEW r \in QueuedType
              PROVE  [r EXCEPT !.session = answer.session] \in QueuedType
            BY DEF QueuedType
        <3>3. \A i \in DOMAIN h.queue : h.queue[i] \in QueuedType
            BY <2>5 DEF FileType
        <3>4. \A i \in DOMAIN h.queue :
                 /\ q[i] \in QueuedType
                 /\ LET r == h.queue[i]
                    IN q[i] = r \/ (r.tap = id /\ \E sid : q[i] = [r EXCEPT !.session = sid])
            BY <3>2, <3>3
        <3>5. q \in Seq(QueuedType) /\ DOMAIN q = DOMAIN h.queue
            <4>1. h.queue \in Seq(QueuedType)
                BY <2>5 DEF FileType
            <4>2. CASE d = "apply_session"
                <5>1. DOMAIN h.queue = 1..Len(h.queue) /\ Len(h.queue) \in Nat
                    BY <4>1
                <5>2. q = [i \in 1..Len(h.queue) |-> q[i]]
                    BY <4>2, <5>1
                <5>3. \A i \in 1..Len(h.queue) : q[i] \in QueuedType
                    BY <3>4, <5>1
                <5> HIDE DEF q
                <5>4. QED BY <5>1, <5>2, <5>3
            <4>3. CASE d # "apply_session"
                BY <4>1, <4>3
            <4>4. QED BY <4>2, <4>3
        <3> HIDE DEF q, g
        <3>6. Fits(g, m2) /\ InTurn(g, m2, gone) /\ Ids(g.queue) = Ids(h.queue) \ {id}
            <4>1. Fits(h, m2) /\ InTurn(h, m2, gone) /\ id \in Nat \ {0}
                BY <2>1, <2>2
            <4> DEFINE same(i) == \/ q[i] = h.queue[i]
                                  \/ /\ h.queue[i].tap = id
                                     /\ \E sid : q[i] = [h.queue[i] EXCEPT !.session = sid]
            <4>2. \A i \in DOMAIN q : same(i)
                BY <3>4, <3>5
            <4>3. LET e == [h EXCEPT !.queue = Without(q, id)]
                  IN Fits(e, m2) /\ InTurn(e, m2, gone) /\ Ids(e.queue) = Ids(h.queue) \ {id}
                BY <3>5, <4>1, <4>2, SettledTurns
            <4>4. QED BY <3>1, <4>3
        <3>7. Good(g, m2, gone) /\ Answered(f, m, c, id, d, g)
            BY <2>1, <2>3, <2>4, <2>7, <3>6 DEF Good, Answered
        <3>8. QED BY <3>7 DEF g, m2
    <2>8. QED BY <2>6, <2>7
<1>6. QED BY <1>4, <1>5

-----------------------------------------------------------------------------
(* What else is written to the file. *)

LEMMA GoodMarked ==
    ASSUME NEW f, NEW m, NEW gone, Good(f, m, gone), NEW g \in FileType,
           g.lastTap = f.lastTap, g.lastUnlock = f.lastUnlock,
           DOMAIN g.queue = DOMAIN f.queue,
           \A i \in DOMAIN f.queue : Marked(f.queue[i], g.queue[i])
    PROVE  Good(g, m, gone) /\ Ids(g.queue) = Ids(f.queue)
BY MarkedTurns DEF Good

LEMMA FiledTurns ==
    ASSUME NEW f, NEW m, NEW gone, Good(f, m, gone), NEW standing \in StandingType,
           NEW h \in {f, FileUnder(f, standing)}
    PROVE  Good(h, m, gone) /\ Ids(h.queue) = Ids(f.queue)
BY FileUnderTurns DEF Good

LEMMA KeptInTurns ==
    ASSUME NEW f, NEW m, NEW gone, Good(f, m, gone), NEW standing \in StandingType
    PROVE  Good(KeptIn(f, standing), m, gone) /\ Ids(KeptIn(f, standing).queue) = Ids(f.queue)
BY FiledTurns DEF KeptIn

LEMMA ReleasedTurns ==
    ASSUME NEW f, NEW m, NEW gone, Good(f, m, gone)
    PROVE  LET g == [f EXCEPT !.queue = Released(@)]
           IN Good(g, m, gone) /\ Ids(g.queue) = Ids(f.queue)
<1> DEFINE now_(r) == IF IsUnlock(r) /\ ~r.tried THEN [r EXCEPT !.due = TRUE] ELSE r
           q == [i \in DOMAIN f.queue |-> now_(f.queue[i])]
           g == [f EXCEPT !.queue = q]
<1>1. g = [f EXCEPT !.queue = Released(@)]
    BY DEF Released, Each
<1>2. f \in FileType /\ DOMAIN f.queue = 1..Len(f.queue) /\ Len(f.queue) \in Nat
    BY DEF Good, Fits, FileType
<1>3. \A i \in DOMAIN f.queue : f.queue[i] \in QueuedType
    BY <1>2 DEF FileType
<1>4. ASSUME NEW r \in QueuedType
      PROVE  now_(r) \in QueuedType /\ Marked(r, now_(r))
    BY DEF QueuedType, Marked
<1> HIDE DEF now_
<1>5. \A i \in DOMAIN f.queue : q[i] \in QueuedType /\ Marked(f.queue[i], q[i])
    BY <1>3, <1>4
<1>6. q = [i \in 1..Len(f.queue) |-> q[i]] /\ DOMAIN q = DOMAIN f.queue
    BY <1>2
<1> HIDE DEF q
<1>7. q \in Seq(QueuedType)
    BY <1>2, <1>5, <1>6
<1>8. g \in FileType /\ g.queue = q /\ g.lastTap = f.lastTap /\ g.lastUnlock = f.lastUnlock
    BY <1>2, <1>7 DEF FileType
<1> HIDE DEF g
<1>9. Good(g, m, gone) /\ Ids(g.queue) = Ids(f.queue)
    BY <1>5, <1>6, <1>8, GoodMarked
<1>10. QED BY <1>1, <1>9

(* A change acts at once on where the phone stands, and never moves it. *)
ChangeType == [kind : Kinds, session : Sids, tap : Nat]

LEMMA ActingType ==
    ASSUME NEW standing \in StandingType, NEW change \in ChangeType,
           NEW offFrom \in States \cup {"none"}
    PROVE  /\ Acting(standing, change, offFrom) \in StandingType
           /\ Acting(standing, change, offFrom).at = standing.at
           /\ Acting(standing, change, offFrom).session = standing.session
BY DEF Acting, StandingType, ChangeType, States, Kinds

LEMMA StandsInType ==
    ASSUME NEW f \in FileType
    PROVE  StandsIn(f) \in StandingType
<1>1. Change("unlock", 0, 0) \in ChangeType /\ f.standing \in StandingType
    BY DEF Change, ChangeType, Kinds, FileType, Sids, NoSession
<1>2. QED BY <1>1, ActingType DEF StandsIn

-----------------------------------------------------------------------------
(* A change queued. *)

(* What the change leaves: the queue an act does not supersede, and its row. *)
Behind(h, id, change, standing, due) ==
    Append(Superseding(h.queue, change),
           Row(id, id, IF change.kind = "unlock" /\ change.tap # 0
                       THEN [change EXCEPT !.session = standing.session] ELSE change,
               IF change.kind = "refocus" THEN ReturnsFrom(h, change.session) ELSE 0, due))

(* A queue with a row of the record just made: what each of its rows is. *)
Adds(h, id, change, new, q) ==
    /\ q \in Seq(QueuedType) /\ new \in QueuedType
    /\ RowsOf(q) \subseteq RowsOf(h.queue) \cup {new} /\ new \in RowsOf(q)
    /\ \A r \in RowsOf(h.queue) : r.kind # "refocus" => r \in RowsOf(q)
    /\ Distinct(q)
    /\ new.id = id /\ new.kind = change.kind /\ new.place = id /\ new.tap = change.tap
    /\ change.kind # "unlock" => new.session = change.session
    /\ change.kind = "refocus" => new.follows = ReturnsFrom(h, change.session)

LEMMA BehindIs ==
    ASSUME NEW h \in FileType, NEW id \in Nat, NEW change \in ChangeType, NEW standing \in StandingType,
           NEW due \in BOOLEAN, Distinct(h.queue), \A r \in RowsOf(h.queue) : r.id # id
    PROVE  \E new : Adds(h, id, change, new, Behind(h, id, change, standing, due))
<1> DEFINE guards == IF change.kind = "unlock" /\ change.tap # 0
                     THEN [change EXCEPT !.session = standing.session] ELSE change
           follows == IF change.kind = "refocus" THEN ReturnsFrom(h, change.session) ELSE 0
           new == Row(id, id, guards, follows, due)
           S == {i \in DOMAIN h.queue : h.queue[i].kind # "refocus"}
           q == Superseding(h.queue, change)
<1>1. /\ guards \in ChangeType /\ guards.kind = change.kind /\ guards.tap = change.tap
      /\ change.kind # "unlock" => guards.session = change.session
    BY DEF ChangeType, StandingType
<1>2. follows \in Nat
    BY DEF ReturnsFrom, FileType
<1>3. /\ new \in QueuedType /\ new.id = id /\ new.kind = change.kind /\ new.place = id
      /\ new.tap = change.tap /\ new.follows = follows
      /\ change.kind # "unlock" => new.session = change.session
    <2> HIDE DEF guards, follows
    <2>1. QED BY <1>1, <1>2 DEF Row, QueuedType, ChangeType
<1>4. /\ q \in Seq(QueuedType) /\ Distinct(q) /\ RowsOf(q) \subseteq RowsOf(h.queue)
      /\ \A r \in RowsOf(h.queue) : r.kind # "refocus" => r \in RowsOf(q)
    <2>1. h.queue \in Seq(QueuedType)
        BY DEF FileType
    <2>2. CASE change.kind \in {"tap", "unlock"}
        <3>1. q = At(h.queue, S) /\ S \in SUBSET DOMAIN h.queue
            BY <2>2 DEF Superseding
        <3>2. \A i \in S : h.queue[i] \in RowsOf(h.queue)
            BY DEF RowsOf
        <3>3. \A r \in RowsOf(h.queue) : r.kind # "refocus" => \E i \in S : r = h.queue[i]
            BY DEF RowsOf
        <3> HIDE DEF S, q
        <3>4. /\ At(h.queue, S) \in Seq(QueuedType) /\ Distinct(At(h.queue, S))
              /\ RowsOf(At(h.queue, S)) = {h.queue[i] : i \in S}
            BY <2>1, <3>1, AtIs
        <3>5. QED BY <3>1, <3>2, <3>3, <3>4
    <2>3. CASE change.kind \notin {"tap", "unlock"}
        BY <2>1, <2>3 DEF Superseding
    <2>4. QED BY <2>2, <2>3
<1> HIDE DEF new, q
<1>5. Append(q, new) \in Seq(QueuedType) /\ Len(q) \in Nat /\ DOMAIN q = 1..Len(q)
      /\ DOMAIN Append(q, new) = 1..(Len(q) + 1)
      /\ Append(q, new)[Len(q) + 1] = new
      /\ \A i \in 1..Len(q) : Append(q, new)[i] = q[i]
    BY <1>3, <1>4
<1>6. RowsOf(Append(q, new)) = RowsOf(q) \cup {new}
    <2>1. \A i \in 1..(Len(q) + 1) : i \in 1..Len(q) \/ i = Len(q) + 1
        BY <1>5
    <2>2. 1..Len(q) \subseteq 1..(Len(q) + 1) /\ Len(q) + 1 \in 1..(Len(q) + 1)
        BY <1>5
    <2>3. QED BY <1>5, <2>1, <2>2 DEF RowsOf
<1>7. Distinct(Append(q, new))
    <2>1. \A i \in DOMAIN q : q[i].id # id
        BY <1>4 DEF RowsOf
    <2>2. \A i \in 1..(Len(q) + 1) : i \in 1..Len(q) \/ i = Len(q) + 1
        BY <1>5
    <2> SUFFICES ASSUME NEW i \in 1..(Len(q) + 1), NEW j \in 1..(Len(q) + 1),
                        Append(q, new)[i].id = Append(q, new)[j].id
                 PROVE  i = j
        BY <1>5 DEF Distinct
    <2>3. CASE i \in 1..Len(q) /\ j \in 1..Len(q)
        BY <1>4, <1>5, <2>3 DEF Distinct
    <2>4. CASE i = Len(q) + 1 /\ j \in 1..Len(q)
        BY <1>3, <1>5, <2>1, <2>4
    <2>5. CASE j = Len(q) + 1 /\ i \in 1..Len(q)
        BY <1>3, <1>5, <2>1, <2>5
    <2>6. QED BY <2>2, <2>3, <2>4, <2>5
<1>8. Behind(h, id, change, standing, due) = Append(q, new)
    BY DEF Behind, q, new
<1>9. change.kind = "refocus" => new.follows = ReturnsFrom(h, change.session)
    BY <1>3
<1>10. Adds(h, id, change, new, Append(q, new))
    BY <1>3, <1>4, <1>5, <1>6, <1>7, <1>9 DEF Adds
<1>11. QED BY <1>8, <1>10

(* No unlock leaves the queue as a record joins it. *)
HoldsOn(f, m, id, g) ==
    /\ \A o \in Ids(f.queue) : m[o].kind = "unlock" => o \in Ids(g.queue)
    /\ id \in Ids(g.queue)

(* A change as the student or the lock's check makes it, and its record. *)
Changes(m, change, record) ==
    /\ change \in ChangeType /\ record \in MadeType
    /\ change.tap =< Len(m)
    /\ change.kind \notin {"tap", "unlock"} => change.tap = 0 /\ change.session # NoSession
    /\ record.kind = change.kind /\ record.session = change.session
    /\ record.place = Len(m) + 1

LEMMA MadeNext ==
    ASSUME NEW m, MadeOK(m), NEW change, NEW record, Changes(m, change, record)
    PROVE  LET m2 == Append(m, record)
               id == Len(m) + 1
           IN /\ MadeOK(m2) /\ Len(m) \in Nat /\ DOMAIN m = 1..Len(m) /\ Len(m2) = id
              /\ DOMAIN m2 = DOMAIN m \cup {id} /\ id \notin DOMAIN m
              /\ m2[id] = record /\ \A n \in DOMAIN m : m2[n] = m[n]
<1> DEFINE m2 == Append(m, record)
           id == Len(m) + 1
<1>1. m \in Seq(MadeType) /\ record \in MadeType
    BY DEF MadeOK, Changes
<1>2. /\ m2 \in Seq(MadeType) /\ Len(m) \in Nat /\ DOMAIN m = 1..Len(m) /\ Len(m2) = id
      /\ m2[id] = record /\ \A n \in DOMAIN m : m2[n] = m[n]
    BY <1>1
<1>3. DOMAIN m2 = DOMAIN m \cup {id} /\ id \notin DOMAIN m
    BY <1>1, <1>2
<1> HIDE DEF m2, id
<1>4. ASSUME NEW n \in DOMAIN m2
      PROVE  /\ m2[n].place =< n
             /\ m2[n].kind \in {"tap", "reason", "unlock"} \/ m2[n].session # NoSession
    <2>1. CASE n \in DOMAIN m
        BY <1>2, <2>1 DEF MadeOK
    <2>2. CASE n = id
        <3>1. m2[n].place = n
            BY <1>2, <2>2 DEF Changes, id
        <3>2. n \in Nat
            BY <1>2, <2>2 DEF id
        <3>3. QED BY <1>2, <2>2, <3>1, <3>2 DEF Changes
    <2>3. QED BY <1>3, <2>1, <2>2
<1>5. QED BY <1>2, <1>3, <1>4 DEF MadeOK, m2, id

LEMMA AddsTurns ==
    ASSUME NEW h, NEW m, NEW gone, Good(h, m, gone), NEW change, NEW record,
           Changes(m, change, record),
           change.kind = "refocus" => \A r \in RowsOf(h.queue) : ~IsUnfiled(r),
           NEW new, NEW g \in FileType, Adds(h, Len(m) + 1, change, new, g.queue),
           g.lastTap \in {h.lastTap, Len(m) + 1},
           g.lastUnlock = IF change.kind = "unlock" THEN Len(m) + 1 ELSE h.lastUnlock
    PROVE  Good(g, Append(m, record), gone) /\ HoldsOn(h, m, Len(m) + 1, g)
<1> DEFINE id == Len(m) + 1
           m2 == Append(m, record)
<1>1. /\ MadeOK(m2) /\ Len(m) \in Nat /\ DOMAIN m = 1..Len(m) /\ Len(m2) = id
      /\ DOMAIN m2 = DOMAIN m \cup {id} /\ id \notin DOMAIN m
      /\ m2[id] = record /\ \A n \in DOMAIN m : m2[n] = m[n]
    BY MadeNext DEF Good
<1>2. id \in Nat /\ id > Len(m) /\ id # NoSession
    BY <1>1 DEF NoSession
<1>3. /\ record.kind = change.kind /\ record.session = change.session /\ record.place = id
      /\ change \in ChangeType /\ change.tap =< Len(m)
      /\ change.kind \notin {"tap", "unlock"} => change.tap = 0 /\ change.session # NoSession
    BY DEF Changes
<1>4. Adds(h, id, change, new, g.queue)
    OBVIOUS
<1> HIDE DEF id, m2
<1>5. /\ RowsOf(g.queue) \subseteq RowsOf(h.queue) \cup {new} /\ new \in RowsOf(g.queue)
      /\ \A r \in RowsOf(h.queue) : r.kind # "refocus" => r \in RowsOf(g.queue)
      /\ new.id = id /\ new.kind = change.kind /\ new.place = id /\ new.tap = change.tap
      /\ change.kind # "unlock" => new.session = change.session
      /\ change.kind = "refocus" => new.follows = ReturnsFrom(h, change.session)
    BY <1>4 DEF Adds
<1>6. /\ h \in FileType /\ h.lastTap =< Len(m)
      /\ \A r \in RowsOf(h.queue) : r \in QueuedType /\ RowFits(m, r)
    BY DEF Good, Fits, FileType, RowsOf
<1>7. ASSUME NEW r \in RowsOf(h.queue)
      PROVE  r.id \in Nat /\ r.place \in Nat /\ r.id =< Len(m) /\ r.place =< r.id
             /\ r.place < id /\ r.id < id /\ r.tap =< Len(m)
    <2>1. r \in QueuedType /\ RowFits(m, r)
        BY <1>6
    <2>2. r.id \in DOMAIN m /\ m[r.id].place = r.place
        BY <2>1 DEF RowFits
    <2>3. r.place =< r.id /\ r.id =< Len(m)
        BY <1>1, <2>2 DEF Good, MadeOK
    <2>4. r.id \in Nat /\ r.place \in Nat /\ r.tap =< Len(m)
        BY <2>1 DEF QueuedType, RowFits
    <2>5. QED BY <1>1, <2>3, <2>4 DEF id
<1>8. ASSUME NEW o, o =< Len(m), o \in Ids(g.queue)
      PROVE  o \in Ids(h.queue)
    <2>1. o # id
        BY <1>1, <1>8 DEF id
    <2>2. PICK r \in RowsOf(g.queue) : r.id = o
        BY <1>8, IdsAre
    <2>3. r \in RowsOf(h.queue)
        BY <1>5, <2>1, <2>2
    <2>4. QED BY <2>2, <2>3, IdsAre
<1>9. ASSUME NEW r \in RowsOf(h.queue)
      PROVE  /\ \A sid : FiledIn(g.queue, r, sid) => FiledIn(h.queue, r, sid)
             /\ NotGivenUp(g.queue, r) => NotGivenUp(h.queue, r)
    <2>1. r.tap =< Len(m)
        BY <1>7
    <2>2. QED BY <1>8, <2>1 DEF FiledIn, NotGivenUp
<1>10. \A r, n : NewestBefore(m2, r, n) => NewestBefore(m, r, n)
    BY <1>1 DEF NewestBefore
<1>11. ASSUME NEW n \in DOMAIN m
       PROVE  ~NewestBefore(m2, new, n)
    <2>1. n \in Nat /\ n =< Len(m)
        BY <1>1
    <2>2. ~(new.place < n)
        BY <1>1, <1>5, <2>1 DEF id
    <2>3. QED BY <2>2 DEF NewestBefore
<1>12. Fits(g, m2)
    <2>1. RowFits(m2, new)
        <3>1. new.tap =< Len(m2)
            BY <1>1, <1>3, <1>5 DEF id, ChangeType
        <3>2. QED BY <1>1, <1>3, <1>5, <3>1 DEF RowFits
    <2>2. ASSUME NEW r \in RowsOf(h.queue)
          PROVE  RowFits(m2, r)
        <3>1. RowFits(m, r) /\ r.tap \in Nat
            BY <1>6 DEF QueuedType
        <3>2. r.tap =< Len(m2)
            BY <1>1, <3>1 DEF RowFits, id
        <3>3. QED BY <1>1, <3>1, <3>2 DEF RowFits
    <2>3. g.lastTap =< Len(m2)
        <3>1. h.lastTap \in Nat
            BY <1>6 DEF FileType
        <3>2. h.lastTap =< id /\ id =< id
            BY <1>1, <1>6, <3>1 DEF id
        <3>3. QED BY <1>1, <3>2 DEF id
    <2>4. Distinct(g.queue)
        BY <1>4 DEF Adds
    <2>5. QED BY <1>5, <2>1, <2>2, <2>3, <2>4 DEF Fits
<1>13. UnfiledLast(g, m2)
    <2> SUFFICES ASSUME NEW n \in DOMAIN m2, NEW r \in RowsOf(g.queue),
                        m2[n].kind = "refocus", IsUnfiled(r)
                 PROVE  n < r.place
        BY DEF UnfiledLast
    <2>1. CASE n \in DOMAIN m /\ r \in RowsOf(h.queue)
        BY <1>1, <2>1 DEF Good, InTurn, UnfiledLast
    <2>2. CASE n \in DOMAIN m /\ r = new
        <3>1. n =< Len(m) /\ n \in Nat
            BY <1>1, <2>2
        <3>2. QED BY <1>1, <1>5, <2>2, <3>1 DEF id
    <2>3. CASE n = id
        <3>1. change.kind = "refocus"
            BY <1>1, <1>3, <2>3
        <3>2. ~IsUnfiled(new)
            BY <1>5, <3>1 DEF IsUnfiled, IsUnlock
        <3>3. QED BY <1>5, <3>1, <3>2
    <2>4. QED BY <1>1, <1>5, <2>1, <2>2, <2>3
<1>14. ReturnsWait(g, m2)
    <2> SUFFICES ASSUME NEW x \in RowsOf(g.queue), NEW r \in RowsOf(g.queue), x.kind = "refocus",
                        NewestBefore(m2, r, x.id), FiledIn(g.queue, r, x.session)
                 PROVE  x.follows = r.id
        BY DEF ReturnsWait
    <2>1. CASE x \in RowsOf(h.queue)
        <3>1. x.id \in DOMAIN m
            BY <1>6, <2>1 DEF RowFits
        <3>2. r \in RowsOf(h.queue)
            BY <1>5, <1>11, <3>1
        <3>3. NewestBefore(m, r, x.id) /\ FiledIn(h.queue, r, x.session)
            BY <1>9, <1>10, <3>2
        <3>4. QED BY <2>1, <3>2, <3>3 DEF Good, InTurn, ReturnsWait
    <2>2. CASE x = new
        <3>1. change.kind = "refocus" /\ x.session = change.session /\ x.id = id
              /\ change.session # NoSession /\ x.follows = ReturnsFrom(h, change.session)
            BY <1>3, <1>5, <2>2
        <3>2. IsUnlock(r) /\ r \in RowsOf(h.queue)
            BY <1>5, <2>2 DEF NewestBefore, IsUnlock
        <3>3. FiledIn(h.queue, r, change.session)
            BY <1>9, <3>1, <3>2
        <3>4. NotGivenUp(h.queue, r) /\ r.session = change.session
            BY <3>1, <3>2, <3>3 DEF FiledIn, NotGivenUp
        <3>5. ASSUME NEW n \in DOMAIN m, m[n].kind = "unlock"
              PROVE  m[n].place =< r.place
            <4>1. m[n] \in MadeType /\ m[n].place =< n /\ n \in Nat /\ n =< Len(m)
                BY <1>1 DEF Good, MadeOK
            <4>2. m[n].place < id
                BY <1>1, <4>1 DEF MadeType, id
            <4>3. m2[n] = m[n] /\ n \in DOMAIN m2
                BY <1>1
            <4>4. QED BY <3>1, <3>5, <4>2, <4>3 DEF NewestBefore
        <3>6. r.id = h.lastUnlock
            BY <3>2, <3>4, <3>5 DEF Good, InTurn, NewestKnown
        <3>7. ReturnsFrom(h, change.session) = h.lastUnlock
            <4>1. PICK i \in DOMAIN h.queue : h.queue[i] = r
                BY <3>2 DEF RowsOf
            <4>2. QED BY <3>4, <3>6, <4>1 DEF ReturnsFrom
        <3>8. QED BY <3>1, <3>6, <3>7
    <2>3. QED BY <1>5, <2>1, <2>2
<1>15. GoneAfter(g, m2, gone)
    <2> SUFFICES ASSUME NEW n \in gone, NEW r \in RowsOf(g.queue), NewestBefore(m2, r, n),
                        FiledIn(g.queue, r, m2[n].session)
                 PROVE  FALSE
        BY DEF GoneAfter
    <2>1. n \in DOMAIN m /\ m2[n] = m[n]
        BY <1>1 DEF Good, Returns
    <2>2. r \in RowsOf(h.queue)
        BY <1>5, <1>11, <2>1
    <2>3. NewestBefore(m, r, n) /\ FiledIn(h.queue, r, m[n].session)
        BY <1>9, <1>10, <2>1, <2>2
    <2>4. QED BY <2>2, <2>3 DEF Good, InTurn, GoneAfter
<1>16. NewestKnown(g, m2)
    <2> SUFFICES ASSUME NEW r \in RowsOf(g.queue), NotGivenUp(g.queue, r),
                        \A n \in DOMAIN m2 : m2[n].kind = "unlock" => m2[n].place =< r.place
                 PROVE  r.id = g.lastUnlock
        BY DEF NewestKnown
    <2>1. CASE r = new
        <3>1. change.kind = "unlock"
            BY <1>5, <2>1 DEF NotGivenUp, IsUnlock
        <3>2. QED BY <1>5, <2>1, <3>1 DEF id
    <2>2. CASE r \in RowsOf(h.queue) /\ change.kind = "unlock"
        <3>1. id =< r.place
            BY <1>1, <1>3, <2>2
        <3>2. r.place < id /\ r.place \in Nat
            BY <1>7, <2>2
        <3>3. QED BY <1>2, <3>1, <3>2
    <2>3. CASE r \in RowsOf(h.queue) /\ change.kind # "unlock"
        <3>1. NotGivenUp(h.queue, r)
            BY <1>9, <2>3
        <3>2. \A n \in DOMAIN m : m[n].kind = "unlock" => m[n].place =< r.place
            BY <1>1
        <3>3. r.id = h.lastUnlock
            BY <2>3, <3>1, <3>2 DEF Good, InTurn, NewestKnown
        <3>4. QED BY <2>3, <3>3
    <2>4. QED BY <1>5, <2>1, <2>2, <2>3
<1>17. gone \in SUBSET Returns(m2)
    BY <1>1 DEF Good, Returns
<1>18. Good(g, m2, gone)
    BY <1>1, <1>12, <1>13, <1>14, <1>15, <1>16, <1>17 DEF Good, InTurn
<1>19. HoldsOn(h, m, id, g)
    <2>1. id \in Ids(g.queue)
        BY <1>5, IdsAre
    <2>2. ASSUME NEW o \in Ids(h.queue), m[o].kind = "unlock"
          PROVE  o \in Ids(g.queue)
        <3>1. PICK r \in RowsOf(h.queue) : r.id = o
            BY IdsAre
        <3>2. r.kind = "unlock"
            BY <1>6, <2>2, <3>1 DEF RowFits
        <3>3. QED BY <1>5, <3>1, <3>2, IdsAre
    <2>3. QED BY <2>1, <2>2 DEF HoldsOn
<1>20. QED BY <1>18, <1>19 DEF id, m2

LEMMA QueueingTurns ==
    ASSUME NEW f, NEW m, NEW gone, Good(f, m, gone), NEW change, NEW record,
           Changes(m, change, record), NEW standing \in StandingType, NEW due \in BOOLEAN,
           change.kind = "refocus" => standing.at = "in"
    PROVE  LET g == Queueing(f, Len(m) + 1, change, standing, due)
           IN Good(g, Append(m, record), gone) /\ HoldsOn(f, m, Len(m) + 1, g)
<1> DEFINE id == Len(m) + 1
           before == StandsIn(f)
           released == [f EXCEPT !.queue = Released(@)]
           h == IF standing.at = "unread" THEN released ELSE FileUnder(released, standing)
           stood == IF before.at = "in" /\ before.session = change.session
                       /\ before.state # "protection_off"
                    THEN before.state ELSE h.offFrom
           q == Behind(h, id, change, standing, due)
           reported == CASE change.kind = "protection_off" -> change.session
                         [] change.kind \in {"tap", "protection_on"} -> 0
                         [] OTHER -> h.reported
           offFrom == CASE change.kind = "tap" -> "none"
                        [] change.kind = "unlock" -> "unlocked"
                        [] change.kind = "protection_off" -> stood
                        [] OTHER -> h.offFrom
           lastTap == IF change.kind = "tap" THEN id ELSE h.lastTap
           lastUnlock == IF change.kind = "unlock" THEN id ELSE h.lastUnlock
           g == [h EXCEPT !.queue = q, !.reported = reported, !.offFrom = offFrom,
                          !.lastTap = lastTap, !.lastUnlock = lastUnlock]
<1>1. g = Queueing(f, id, change, standing, due)
    BY DEF Queueing, Behind
<1>2. Good(released, m, gone) /\ Ids(released.queue) = Ids(f.queue)
    BY ReleasedTurns
<1>3. h \in {released, FileUnder(released, standing)}
    OBVIOUS
<1>4. Good(h, m, gone) /\ Ids(h.queue) = Ids(f.queue)
    BY <1>2, <1>3, FiledTurns
<1>5. ASSUME change.kind = "refocus", NEW r \in RowsOf(h.queue)
      PROVE  ~IsUnfiled(r)
    <2>1. h = FileUnder(released, standing) /\ standing.session # NoSession
        BY <1>5 DEF StandingType
    <2>2. released \in FileType
        BY <1>2 DEF Good, Fits
    <2> HIDE DEF h, released
    <2>3. PICK i \in DOMAIN released.queue : r = Files(released, standing, released.queue[i])
        BY <2>1, <2>2, FileUnderIs DEF RowsOf
    <2>4. released.queue[i] \in QueuedType
        BY <2>2 DEF FileType
    <2>5. QED BY <2>1, <2>3, <2>4 DEF Files, IsUnfiled, IsUnlock, QueuedType, NoSession
<1>6. /\ h \in FileType /\ Distinct(h.queue) /\ id \in Nat /\ before \in StandingType
      /\ change \in ChangeType /\ \A r \in RowsOf(h.queue) : r.id # id
    <2>1. before \in StandingType
        BY StandsInType DEF Good, Fits
    <2>2. m \in Seq(MadeType)
        BY DEF Good, MadeOK
    <2>3. \A r \in RowsOf(h.queue) : r.id \in DOMAIN m
        BY <1>4 DEF Good, Fits, RowFits
    <2>4. QED BY <1>4, <2>1, <2>2, <2>3 DEF Good, Fits, Changes
<1> HIDE DEF h, before, released
<1>7. PICK new : Adds(h, id, change, new, q)
    BY <1>6, BehindIs
<1>8. q \in Seq(QueuedType)
    BY <1>7 DEF Adds
<1>9. /\ reported \in Sids /\ offFrom \in States \cup {"none"}
      /\ lastTap \in Nat /\ lastUnlock \in Nat
    BY <1>6 DEF FileType, StandingType, ChangeType, States, Sids, NoSession
<1> HIDE DEF q, reported, offFrom, lastTap, lastUnlock
<1>10. g \in FileType /\ g.queue = q /\ g.lastTap = lastTap /\ g.lastUnlock = lastUnlock
    BY <1>6, <1>8, <1>9 DEF FileType
<1> HIDE DEF g
<1>11. /\ g.lastTap \in {h.lastTap, id}
       /\ g.lastUnlock = IF change.kind = "unlock" THEN id ELSE h.lastUnlock
    BY <1>10 DEF lastTap, lastUnlock
<1>12. Good(g, Append(m, record), gone) /\ HoldsOn(h, m, id, g)
    BY <1>4, <1>5, <1>7, <1>10, <1>11, AddsTurns
<1>13. HoldsOn(f, m, id, g)
    BY <1>4, <1>12 DEF HoldsOn
<1>14. QED BY <1>1, <1>12, <1>13

-----------------------------------------------------------------------------
(* What the server answers, and records. *)

AnswerOK(answer) ==
    /\ answer.session \in Sids
    /\ answer.session # NoSession => answer.state \in States \cup {"none"}

(* A row of a return is of the record that asked for it. *)
ReturnsOf(st, n, rows) ==
    \A e \in rows : e.type = "refocus" =>
        e.id = n /\ made[st][n].kind = "refocus" /\ e.session = made[st][n].session

(* An unlock settled on the phone by its answer is recorded. *)
Serves(st, n, tx) ==
    /\ AnswerOK(tx.answer) /\ ReturnsOf(st, n, tx.rows)
    /\ made[st][n].kind = "unlock" /\ Disposition("unlock", tx.answer) = "recorded" =>
          \E e \in log[st] \cup tx.rows : e.id = n

LEMMA RowsTyped ==
    /\ \A st, n, type, sid, at, note :
          LET e == PhoneRow(st, n, type, sid, at, note)
          IN e.type = type /\ e.id = n /\ e.session = sid
    /\ \A st, place, type, sid, at :
          LET e == ServerRow(st, place, type, sid, at) IN e.type = type /\ e.session = sid
BY DEF PhoneRow, ServerRow

LEMMA BackNoReturn ==
    ASSUME NEW st, NEW sid, NEW t
    PROVE  \A e \in BackRows(st, sid, t) : e.type = "came_back"
<1>1. ASSUME NEW e \in BackRows(st, sid, t)
      PROVE  \E at : e = ServerRow(st, 3, "came_back", sid, at)
    BY DEF BackRows
<1>2. QED BY <1>1, RowsTyped

LEMMA LeftNoReturn ==
    ASSUME NEW st, NEW ps, NEW sid, NEW at
    PROVE  \A e \in LeftRows(st, ps, sid, at) : e.type = "left_for_other_session"
BY DEF LeftRows, ServerRow

LEMMA FiledNoReturn ==
    ASSUME NEW st, NEW n, NEW sid, NEW h, NEW p
    PROVE  \A e \in Filed(st, n, sid, h, p) : e.type = "unlock"
<1> DEFINE row(e, at, note) ==
        [ServerRow(st, 3 + e.tx, "unlock", sid, at) EXCEPT
            !.order = KeptOrder(st, e.order), !.claim = n, !.from = e.id, !.note = note]
<1>1. ASSUME NEW e, NEW at, NEW note
      PROVE  row(e, at, note).type = "unlock"
    BY DEF ServerRow
<1>2. ASSUME NEW f \in Filed(st, n, sid, h, p)
      PROVE  f.type = "unlock"
    <2>1. PICK e \in Kept(st, n) :
              LET at == Clamp(made[st][e.id].at, sessions[sid])
              IN f = row(e, at, UnlockNote(h, p, sid, at, e.order))
        BY DEF Filed
    <2>2. QED BY <1>1, <2>1
<1>3. QED BY <1>2

LEMMA RefuseServes ==
    ASSUME NEW st, NEW n
    PROVE  /\ \A code \in Refusals : Serves(st, n, Refuse(st, code))
           /\ Recorded(st, n) # {} => Serves(st, n, Replay(st))
           /\ made[st][n].kind # "unlock" =>
                 /\ \A code : Serves(st, n, Refuse(st, code))
                 /\ Serves(st, n, Replay(st))
BY DEF Refuse, Replay, NoChange, Answer, Serves, AnswerOK, ReturnsOf, Recorded, Sids, NoSession,
       Disposition

LEMMA OrphanServes ==
    ASSUME NEW st, NEW n, NEW note
    PROVE  Serves(st, n, Orphan(st, n, note))
<1> DEFINE row == PhoneRow(st, n, "unlock", NoSession, now, note)
           tx == [NoChange(st, Answer("recorded", NoSession, "none")) EXCEPT !.rows = {row}]
<1>1. tx.rows = {row} /\ tx.answer = Answer("recorded", NoSession, "none")
    BY DEF NoChange
<1>2. row.type = "unlock" /\ row.id = n
    BY RowsTyped
<1> HIDE DEF tx, row
<1>3. Serves(st, n, tx)
    BY <1>1, <1>2 DEF Serves, AnswerOK, Answer, ReturnsOf, Sids
<1>4. QED BY <1>3, RefuseServes DEF Orphan, tx, row, Refusals

LEMMA UnlockInServes ==
    ASSUME TypeOK, NEW st \in Students, NEW n, NEW sid \in SessionIds, NEW t
    PROVE  Serves(st, n, UnlockIn(st, n, sid, t))
<1> DEFINE p == parts[st][sid]
           at == Clamp(made[st][n].at, sessions[sid])
           note == UnlockNote(log[st], p, sid, at, Order(st, n))
           state == IF note = "none" THEN "unlocked" ELSE p.state
           row == PhoneRow(st, n, "unlock", sid, at, note)
           replay == NoChange(st, Answer("replay", sid, IF p.ended = "no_row" THEN "none" ELSE p.state))
           rows == {row} \cup BackRows(st, sid, t)
           qs == [parts[st] EXCEPT ![sid] = [Heard(p) EXCEPT !.state = state]]
           answer == IF Live(p) THEN Answer(IF note = "none" THEN "applied" ELSE "recorded", sid, state)
                     ELSE Answer("recorded", sid, "none")
           tx == [rows |-> rows, parts |-> qs, armed |-> armed[st], answer |-> answer]
<1>1. p.state \in States /\ sid \in Sids
    BY DEF TypeOK, PartType, Sids
<1>2. state \in States
    BY <1>1 DEF States
<1>3. ASSUME Recorded(st, n) # {}
      PROVE  Serves(st, n, replay)
    <2>1. replay.rows = {} /\ AnswerOK(replay.answer)
        BY <1>1 DEF NoChange, Answer, AnswerOK
    <2> HIDE DEF replay
    <2>2. QED BY <1>3, <2>1 DEF Serves, ReturnsOf, Recorded
<1>4. row.type = "unlock" /\ row.id = n
    BY RowsTyped
<1>5. AnswerOK(answer)
    <2> HIDE DEF state, note, p
    <2>1. QED BY <1>1, <1>2 DEF Answer, AnswerOK
<1>6. row \in rows /\ \A e \in rows : e.type # "refocus"
    <2> HIDE DEF row
    <2>1. QED BY <1>4, BackNoReturn
<1> HIDE DEF rows, qs, answer, row
<1>7. Serves(st, n, tx)
    <2>1. tx.rows = rows /\ tx.answer = answer
        OBVIOUS
    <2> HIDE DEF tx
    <2>2. QED BY <1>4, <1>5, <1>6, <2>1 DEF Serves, ReturnsOf
<1>8. UnlockIn(st, n, sid, t) = tx \/ UnlockIn(st, n, sid, t) = Orphan(st, n, "not_enrolled")
      \/ UnlockIn(st, n, sid, t) = Refuse(st, "EVENT_ID_CONFLICT")
      \/ (Recorded(st, n) # {} /\ UnlockIn(st, n, sid, t) = replay)
    BY DEF UnlockIn, rows, qs, answer, row
<1> HIDE DEF tx, replay
<1>9. QED BY <1>3, <1>7, <1>8, OrphanServes, RefuseServes DEF Refusals

LEMMA UnlockServes ==
    ASSUME TypeOK, NEW st \in Students, NEW n \in DOMAIN made[st], NEW t,
           made[st][n].kind = "unlock", Addressed(st, n)
    PROVE  Serves(st, n, Unlock(st, n, t))
<1>1. CASE made[st][n].claim # 0
    <2> DEFINE tap == made[st][n].claim
               own == Recorded(st, n)
               landed == IF own # {} THEN own
                         ELSE {e \in Recorded(st, tap) : e.type = "tap_in"}
               sid == (CHOOSE e \in landed : e.session # NoSession).session
    <2>1. ASSUME \E e \in landed : e.session # NoSession
          PROVE  sid \in SessionIds
        <3>1. landed \subseteq RowType
            BY DEF Recorded, TypeOK
        <3>2. PICK e \in landed : e.session # NoSession
            BY <2>1
        <3>3. (CHOOSE f \in landed : f.session # NoSession) \in landed /\ sid # NoSession
            BY <3>2
        <3>4. QED BY <3>1, <3>3 DEF RowType
    <2>2. QED BY <1>1, <2>1, UnlockInServes, OrphanServes DEF Unlock, UnlockUnderTap
<1>2. CASE made[st][n].claim = 0
    <2>1. made[st][n].session \in SessionIds
        BY <1>2, MadeRecord DEF Addressed, MadeType
    <2>2. QED BY <1>2, <2>1, UnlockInServes DEF Unlock
<1>3. QED BY <1>1, <1>2

LEMMA ChangeStateServes ==
    ASSUME TypeOK, NEW st \in Students, NEW n \in DOMAIN made[st], NEW t,
           made[st][n].kind \in {"refocus", "protection_off", "protection_on"}
    PROVE  Serves(st, n, ChangeState(st, n, t))
<1> DEFINE sid == made[st][n].session
           type == made[st][n].kind
<1>1. sid \in SessionIds /\ sid \in Sids /\ type # "unlock" /\ parts[st][sid].state \in States
    <2>1. sid \in SessionIds
        <3>1. made[st][n] \in MadeType
            BY MadeRecord
        <3>2. made[st][n].session # NoSession
            BY DEF TypeOK, Referring
        <3>3. QED BY <3>1, <3>2 DEF MadeType, Sids
    <2>2. QED BY <2>1 DEF TypeOK, PartType, Sids
<1>2. Serves(st, n, OffAfterEnd(st, n, sid))
    <2> DEFINE row == PhoneRow(st, n, "protection_off", sid,
                               Clamp(made[st][n].at, sessions[sid]), "after_session_end")
               tx == [NoChange(st, Answer("recorded", NoSession, "none")) EXCEPT !.rows = {row}]
    <2>1. tx.rows = {row} /\ tx.answer = Answer("recorded", NoSession, "none")
        BY DEF NoChange
    <2>2. row.type = "protection_off"
        BY RowsTyped
    <2> HIDE DEF tx, row
    <2>3. Serves(st, n, tx)
        BY <1>1, <2>1, <2>2 DEF Serves, AnswerOK, Answer, ReturnsOf, Sids
    <2>4. OffAfterEnd(st, n, sid) \in {tx, Refuse(st, "SESSION_NOT_RUNNING"), Replay(st)}
        BY DEF OffAfterEnd, tx, row
    <2> HIDE DEF sid, type
    <2>5. QED BY <1>1, <2>3, <2>4, RefuseServes DEF type
<1>3. Serves(st, n, ReplayChange(st, type, sid))
    <2> DEFINE tx == NoChange(st, Answer("replay", sid, parts[st][sid].state))
    <2>1. tx.rows = {} /\ AnswerOK(tx.answer)
        BY <1>1 DEF NoChange, Answer, AnswerOK
    <2> HIDE DEF tx
    <2>2. Serves(st, n, tx)
        BY <1>1, <2>1 DEF Serves, ReturnsOf
    <2>3. ReplayChange(st, type, sid) \in {tx, Refuse(st, "NOT_PARTICIPATING"), Replay(st)}
        BY DEF ReplayChange, tx
    <2>4. QED BY <1>1, <2>2, <2>3, RefuseServes
<1>4. Serves(st, n, ApplyChange(st, n, sid, type, t))
    <2> DEFINE late == IsLate(st, n, sid, type)
               state == IF late THEN parts[st][sid].state ELSE NextState(st, sid, type)
               row == PhoneRow(st, n, type, sid, Clamp(made[st][n].at, sessions[sid]),
                               IF late THEN "superseded" ELSE "none")
               rows == {row} \cup BackRows(st, sid, t)
               tx == ApplyChange(st, n, sid, type, t)
    <2>1. tx.rows = rows /\ tx.answer = Answer(IF late THEN "replay" ELSE "applied", sid, state)
        BY DEF ApplyChange
    <2>2. state \in States
        BY <1>1 DEF NextState, States
    <2>3. row.type = type /\ row.id = n /\ row.session = sid
        BY RowsTyped
    <2> HIDE DEF row, tx, state, late
    <2>4. AnswerOK(tx.answer)
        BY <1>1, <2>1, <2>2 DEF Answer, AnswerOK
    <2>5. ReturnsOf(st, n, tx.rows)
        BY <2>1, <2>3, BackNoReturn DEF ReturnsOf
    <2>6. Serves(st, n, tx)
        BY <1>1, <2>4, <2>5 DEF Serves
    <2>7. QED BY <2>6 DEF tx
<1>5. \A code : Serves(st, n, Refuse(st, code))
    BY <1>1, RefuseServes
<1>6. \/ ChangeState(st, n, t) = OffAfterEnd(st, n, sid)
      \/ ChangeState(st, n, t) = ReplayChange(st, type, sid)
      \/ ChangeState(st, n, t) = ApplyChange(st, n, sid, type, t)
      \/ \E code : ChangeState(st, n, t) = Refuse(st, code)
    BY DEF ChangeState
<1> HIDE DEF sid, type
<1>7. QED BY <1>2, <1>3, <1>4, <1>5, <1>6

LEMMA ChangeReasonServes ==
    ASSUME NEW st, NEW n, NEW t, made[st][n].kind = "reason"
    PROVE  Serves(st, n, ChangeReason(st, n, t))
<1> DEFINE row(sid) == [PhoneRow(st, n, "unlock_reason_changed", sid, t, "none") EXCEPT !.order = NoOrder]
           tx(sid) == [NoChange(st, Answer("applied", NoSession, "none")) EXCEPT !.rows = {row(sid)}]
<1>1. ASSUME NEW sid
      PROVE  Serves(st, n, tx(sid))
    <2>1. row(sid).type = "unlock_reason_changed"
        BY DEF PhoneRow, ServerRow
    <2>2. tx(sid).rows = {row(sid)} /\ tx(sid).answer = Answer("applied", NoSession, "none")
        BY DEF NoChange
    <2> HIDE DEF tx, row
    <2>3. QED BY <2>1, <2>2 DEF Serves, AnswerOK, Answer, ReturnsOf, Sids
<1>2. made[st][n].kind # "unlock"
    OBVIOUS
<1> HIDE DEF tx
<1>3. Replay(st) = ChangeReason(st, n, t) \/ (\E code : ChangeReason(st, n, t) = Refuse(st, code))
      \/ \E sid : ChangeReason(st, n, t) = tx(sid)
    BY DEF ChangeReason, tx
<1>4. QED BY <1>1, <1>2, <1>3, RefuseServes

LEMMA HandleServes ==
    ASSUME TypeOK, NEW st \in Students, NEW n \in DOMAIN made[st], NEW t,
           made[st][n].kind # "tap", Addressed(st, n)
    PROVE  Serves(st, n, Handle(st, n, t))
<1>1. made[st][n].kind \in Kinds
    BY MadeRecord DEF MadeType
<1>2. QED BY <1>1, UnlockServes, ChangeStateServes, ChangeReasonServes DEF Handle, Kinds

LEMMA LandTapServes ==
    ASSUME TypeOK, NEW st \in Students, NEW n, NEW sid \in SessionIds, NEW t,
           made[st][n].kind = "tap"
    PROVE  Serves(st, n, LandTap(st, n, sid, t))
<1> DEFINE s == sessions[sid]
           at == Clamp(made[st][n].at, s)
           order == Order(st, n)
           late == \/ MadeSince(log[st], sid, s, order, "unlock")
                   \/ TappedSince(log[st], order, sid)
           tap == PhoneRow(st, n, "tap_in", sid, at, IF late THEN "superseded" ELSE "none")
           ps == IF late THEN [parts[st] EXCEPT ![sid] = Heard(@)]
                         ELSE JoinedOnly(parts[st], sid)
           filed == Filed(st, n, sid, log[st] \cup {tap}, ps[sid])
           state == IF \E e \in filed : e.note = "none" THEN "unlocked" ELSE ps[sid].state
           rows == {tap} \cup filed \cup BackRows(st, sid, t)
                   \cup (IF late THEN {} ELSE LeftRows(st, parts[st], sid, at))
           tx == LandTap(st, n, sid, t)
<1>1. /\ tx.rows = rows
      /\ tx.answer = IF Live(ps[sid]) THEN Answer(IF late THEN "replay" ELSE "joined", sid, state)
                     ELSE Answer("replay", NoSession, "none")
    BY DEF LandTap
<1>2. ps[sid].state \in States
    <2>1. parts[st][sid] \in PartType /\ parts[st] \in [SessionIds -> PartType]
        BY DEF TypeOK
    <2>2. CASE late
        BY <2>1, <2>2, HeardType DEF PartType
    <2>3. CASE ~late
        BY <2>3 DEF JoinedOnly, Fresh, States
    <2>4. QED BY <2>2, <2>3
<1>3. tap.type = "tap_in"
    BY RowsTyped
<1> HIDE DEF ps, tap, late, tx
<1>4. \A e \in rows : e.type # "refocus"
    BY <1>3, BackNoReturn, LeftNoReturn, FiledNoReturn
<1>5. state \in States
    BY <1>2 DEF States
<1> HIDE DEF rows, state
<1>6. AnswerOK(tx.answer)
    BY <1>1, <1>5 DEF AnswerOK, Answer, Sids
<1>7. QED BY <1>1, <1>4, <1>6 DEF Serves, ReturnsOf, tx

LEMMA TapInServes ==
    ASSUME TypeOK, NEW st \in Students, NEW n, NEW sid \in SessionIds, NEW t,
           made[st][n].kind = "tap"
    PROVE  Serves(st, n, TapIn(st, n, sid, t))
<1>1. \A code : Serves(st, n, Refuse(st, code))
    BY RefuseServes
<1>2. ASSUME Recorded(st, n) # {}
      PROVE  Serves(st, n, ReplayTap(st, n, t))
    <2> DEFINE o == (CHOOSE e \in Recorded(st, n) : TRUE).session
               tx == NoChange(st, Answer("replay", o, parts[st][o].state))
    <2>1. o \in Sids
        BY <1>2 DEF Recorded, TypeOK, RowType, Sids
    <2>2. o # NoSession => parts[st][o].state \in States
        BY <2>1 DEF TypeOK, PartType, Sids
    <2> HIDE DEF o
    <2>3. tx.rows = {} /\ AnswerOK(tx.answer)
        BY <2>1, <2>2 DEF NoChange, Answer, AnswerOK
    <2> HIDE DEF tx
    <2>4. Serves(st, n, tx)
        BY <2>3 DEF Serves, ReturnsOf
    <2>5. QED BY <2>4, RefuseServes DEF ReplayTap, tx, o
<1>3. QED BY <1>1, <1>2, LandTapServes DEF TapIn

LEMMA ArmTapServes ==
    ASSUME NEW st, NEW n, NEW t, made[st][n].kind = "tap"
    PROVE  Serves(st, n, ArmTap(st, n, t))
<1> DEFINE settled(outcome, rows) ==
               [NoChange(st, Answer(outcome, NoSession, "none")) EXCEPT !.armed = rows]
<1>1. ASSUME NEW outcome, NEW rows
      PROVE  Serves(st, n, settled(outcome, rows))
    <2>1. /\ settled(outcome, rows).rows = {}
          /\ settled(outcome, rows).answer = Answer(outcome, NoSession, "none")
        BY DEF NoChange
    <2> HIDE DEF settled
    <2>2. QED BY <2>1 DEF Serves, AnswerOK, Answer, ReturnsOf, Sids
<1> HIDE DEF settled
<1>2. \/ ArmTap(st, n, t) = Replay(st) \/ ArmTap(st, n, t) = Refuse(st, "ACCOUNT_DELETED")
      \/ \E outcome, rows : ArmTap(st, n, t) = settled(outcome, rows)
    BY DEF ArmTap, settled
<1>3. QED BY <1>1, <1>2, RefuseServes

-----------------------------------------------------------------------------
(* The invariant. *)

AppType == [up : BOOLEAN, standing : StandingType, kept : BOOLEAN, blind : BOOLEAN,
            reread : BOOLEAN, armed : BOOLEAN]
LookType == [kind : {"none", "me", "check_in"}, session : Sids, fresh : BOOLEAN,
             stage : {"idle", "sent", "armed", "read"}, armed : BOOLEAN, truth : StandingType]

(* The returns that have left the phone, as far as anything can still tell. *)
Gone ==
    {n \in Returns(made[Me]) :
        n \in wire \/ \E e \in log[Me] : e.type = "refocus" /\ e.id = n}

(* An answer on its way back is of a record the phone made; and one that will *)
(* settle an unlock says that it is recorded.                                 *)
CallOK ==
    /\ call = [id |-> call.id, answer |-> call.answer, ends |-> call.ends]
    /\ call.ends \in Nat
    /\ call.id \in {0} \cup DOMAIN made[Me]
    /\ AnswerOK(call.answer)
    /\ call.id # 0 /\ call.answer # Pending /\ made[Me][call.id].kind = "unlock" =>
          Disposition("unlock", call.answer) # "recorded" \/ Recorded(Me, call.id) # {}

AskedTap == asking[Me].stage # "idle" => made[Me][asking[Me].record].kind = "tap"

ReturnsLogged ==
    \A e \in log[Me] : e.type = "refocus" =>
        e.id \in Returns(made[Me]) /\ e.session = made[Me][e.id].session

Shapes == app \in AppType /\ look \in LookType /\ wire \subseteq DOMAIN made[Me]

PInv ==
    /\ IInv /\ Shapes /\ CallOK /\ AskedTap /\ ReturnsLogged
    /\ Good(file, made[Me], Gone)
    /\ UnlockKept

LEMMA GoodLess ==
    ASSUME NEW f, NEW m, NEW gone, NEW less \in SUBSET gone, Good(f, m, gone)
    PROVE  Good(f, m, less)
BY DEF Good, InTurn, GoneAfter

LEMMA MadeTyped ==
    ASSUME IInv
    PROVE  /\ Me \in Students /\ made \in [Students -> Seq(MadeType)]
           /\ made[Me] \in Seq(MadeType) /\ DOMAIN made[Me] = 1..Len(made[Me])
           /\ Len(made[Me]) \in Nat
BY PhoneAssumption DEF IInv, TypeOK

(* The phone's own records change, and nothing of the server's. *)
LEMMA RecordsKeep ==
    ASSUME IInv, NEW m2, MadeOK(m2), DOMAIN made[Me] \subseteq DOMAIN m2,
           made' = [made EXCEPT ![Me] = m2], UNCHANGED <<serverSide, install>>
    PROVE  IInv'
<1>1. UNCHANGED <<now, server, install, asking>>
    BY DEF serverSide
<1>2. /\ m2 \in Seq(MadeType)
      /\ \A n \in DOMAIN m2 : m2[n].kind \in {"tap", "reason", "unlock"} \/ m2[n].session # NoSession
    BY DEF MadeOK
<1>3. /\ made' \in [Students -> Seq(MadeType)]
      /\ \A s \in Students : DOMAIN made[s] \subseteq DOMAIN made'[s]
      /\ \A s \in Students : \A n \in DOMAIN made'[s] :
            made'[s][n].kind \in {"tap", "reason", "unlock"} \/ made'[s][n].session # NoSession
    BY <1>2, MadeTyped DEF IInv, TypeOK, Referring
<1>4. Referring'
    <2>1. UNCHANGED <<armed, log, asking>>
        BY <1>1 DEF server
    <2>2. QED BY <1>3, <2>1 DEF IInv, TypeOK, Referring
<1>5. TypeOK'
    BY <1>1, <1>3, <1>4 DEF IInv, TypeOK, server
<1>6. Places'
    BY <1>1 DEF server, IInv, Places, OneLessonPerStudent, OneOpenLessonPerClass,
                OverLessonHasNoOne, LiveIsEnrolled, Open, Started, IsIn, Live
<1>7. QED BY <1>5, <1>6 DEF IInv, Places

(* What the phone made stays made, as what it is, and a return of its lesson. *)
Remakes(m, m2) ==
    /\ DOMAIN m \subseteq DOMAIN m2
    /\ \A n \in DOMAIN m :
          m2[n].kind = m[n].kind /\ (m[n].kind = "refocus" => m2[n].session = m[n].session)

LEMMA CallStays ==
    ASSUME PInv, NEW m2, Remakes(made[Me], m2), made'[Me] = m2, log' = log,
           \/ call' = call \/ call' = NoCall
           \/ \E o \in DOMAIN m2 : call' = [NoCall EXCEPT !.id = o]
    PROVE  CallOK'
<1>1. AnswerOK(Pending)
    BY DEF AnswerOK, Pending, Sids
<1>2. CASE call' = call
    <2>1. DOMAIN made[Me] \subseteq DOMAIN m2
        BY DEF Remakes
    <2>2. call.id \in DOMAIN made[Me] => m2[call.id].kind = made[Me][call.id].kind
        BY DEF Remakes
    <2>3. Recorded(Me, call.id) = Recorded(Me, call.id)'
        BY <1>2 DEF Recorded
    <2>4. QED BY <1>2, <2>1, <2>2, <2>3 DEF PInv, CallOK
<1>3. CASE call' = NoCall
    BY <1>1, <1>3 DEF CallOK, NoCall
<1>4. ASSUME NEW o \in DOMAIN m2, call' = [NoCall EXCEPT !.id = o]
      PROVE  CallOK'
    BY <1>1, <1>4 DEF CallOK, NoCall
<1>5. QED BY <1>2, <1>3, <1>4

(* A step of the phone's own. *)
LEMMA PhoneStep ==
    ASSUME PInv, NEW m2, Remakes(made[Me], m2), NEW gone,
           made' = [made EXCEPT ![Me] = m2], UNCHANGED <<serverSide, install>>,
           Shapes', CallOK', Good(file', m2, gone),
           \A n \in Returns(m2) : n \in wire' => n \in gone,
           \A n \in Returns(made[Me]) : n \in Gone => n \in gone,
           UnlockKept'
    PROVE  PInv'
<1>1. made'[Me] = m2 /\ log' = log /\ asking' = asking
    BY MadeTyped DEF PInv, serverSide, server
<1>2. IInv'
    <2>1. MadeOK(m2) /\ DOMAIN made[Me] \subseteq DOMAIN m2
        BY DEF Good, Remakes
    <2>2. QED BY <2>1, RecordsKeep DEF PInv
<1>3. AskedTap'
    <2>1. asking[Me].stage # "idle" => asking[Me].record \in DOMAIN made[Me]
        BY MadeTyped DEF PInv, IInv, TypeOK, Referring
    <2>2. QED BY <1>1, <2>1 DEF PInv, AskedTap, Remakes
<1>4. ReturnsLogged'
    <2>1. \A n \in Returns(made[Me]) : n \in Returns(m2) /\ m2[n].session = made[Me][n].session
        BY DEF Returns, Remakes
    <2>2. QED BY <1>1, <2>1 DEF PInv, ReturnsLogged
<1>5. Gone' \subseteq gone
    <2>1. ASSUME NEW n \in Gone'
          PROVE  n \in gone
        <3>1. n \in Returns(m2) /\ (n \in wire' \/ \E e \in log[Me] : e.type = "refocus" /\ e.id = n)
            BY <1>1 DEF Gone
        <3>2. CASE n \in wire'
            BY <3>1, <3>2
        <3>3. CASE \E e \in log[Me] : e.type = "refocus" /\ e.id = n
            <4>1. n \in Returns(made[Me])
                BY <3>3 DEF PInv, ReturnsLogged
            <4>2. n \in Gone
                BY <3>3, <4>1 DEF Gone
            <4>3. QED BY <4>1, <4>2
        <3>4. QED BY <3>1, <3>2, <3>3
    <2>2. QED BY <2>1
<1>6. Good(file', m2, Gone')
    BY <1>5, GoodLess
<1>7. QED BY <1>1, <1>2, <1>3, <1>4, <1>6 DEF PInv

(* One that makes no record, and sends none. *)
LEMMA QuietStep ==
    ASSUME PInv, UNCHANGED vars, app' \in AppType, look' \in LookType, wire' \subseteq wire,
           CallOK', Good(file', made[Me], Gone), Ids(file'.queue) = Ids(file.queue)
    PROVE  PInv'
<1>1. made' = made /\ log' = log /\ UNCHANGED <<serverSide, install>>
    BY DEF vars, serverSide, server
<1>2. made' = [made EXCEPT ![Me] = made[Me]]
    BY <1>1, MadeTyped DEF PInv
<1>3. Remakes(made[Me], made[Me])
    BY DEF Remakes
<1>4. Shapes'
    BY <1>1 DEF PInv, Shapes
<1>5. \A n \in Returns(made[Me]) : n \in wire' => n \in Gone
    BY DEF Gone
<1>6. UnlockKept'
    BY <1>1 DEF PInv, UnlockKept, Recorded
<1>7. QED BY <1>1, <1>2, <1>3, <1>4, <1>5, <1>6, PhoneStep

LEMMA SameCall ==
    ASSUME PInv, UNCHANGED vars, call' = call \/ call' = NoCall
    PROVE  CallOK'
<1>1. Remakes(made[Me], made[Me]) /\ made'[Me] = made[Me] /\ log' = log
    BY DEF Remakes, vars
<1>2. QED BY <1>1, CallStays

-----------------------------------------------------------------------------
(* Where the phone comes to stand. *)

LEMMA InType ==
    ASSUME TypeOK, NEW sid \in SessionIds, NEW state \in States \cup {"none"}
    PROVE  In(sid, state, sessions[sid].endsAt) \in StandingType
<1>1. sid # NoSession /\ sid \in Sids
    BY DEF SessionIds, NoSession, Sids
<1>2. sessions[sid] \in SessionType
    BY DEF TypeOK
<1>3. sessions[sid].endsAt \in Nat
    BY <1>2 DEF SessionType
<1>4. QED BY <1>1, <1>3 DEF In, StandingType

LEMMA StandingTypes ==
    /\ Out \in StandingType /\ Waits \in StandingType /\ Unread \in StandingType
    /\ NoApp \in AppType /\ NoLook \in LookType
<1>1. Out \in StandingType /\ Waits \in StandingType /\ Unread \in StandingType
    BY DEF Out, Waits, Unread, StandingType, Sids, NoSession
<1>2. QED BY <1>1 DEF NoApp, NoLook, AppType, LookType, Sids, NoSession

LEMMA GuardedType ==
    ASSUME NEW standing, NEW q, NEW to \in StandingType, NEW after
    PROVE  Guarded(standing, q, to, after) \in StandingType
BY DEF Guarded, StandingType, States

LEMMA TruthType ==
    ASSUME TypeOK
    PROVE  Truth \in StandingType
<1>1. CASE LiveIn = {}
    BY <1>1, StandingTypes DEF Truth
<1>2. CASE LiveIn # {}
    <2> DEFINE sid == CHOOSE o \in LiveIn : TRUE
    <2>1. sid \in SessionIds
        BY <1>2 DEF LiveIn
    <2>2. parts[Me][sid].state \in States \cup {"none"}
        BY <2>1, PhoneAssumption DEF TypeOK, PartType
    <2>3. Truth = In(sid, parts[Me][sid].state, sessions[sid].endsAt)
        BY <1>2 DEF Truth
    <2> HIDE DEF sid
    <2>4. QED BY <2>1, <2>2, <2>3, InType
<1>3. QED BY <1>1, <1>2

LEMMA ReadTypes ==
    ASSUME PInv
    PROVE  /\ app \in AppType /\ look \in LookType /\ file \in FileType /\ TypeOK
           /\ app.standing \in StandingType /\ look.truth \in StandingType
           /\ StoodIn \in StandingType /\ WaitOver(StoodIn) \in StandingType
           /\ \A waits \in BOOLEAN : SaysMe(waits, look.truth) \in StandingType
<1>1. app \in AppType /\ look \in LookType /\ file \in FileType /\ TypeOK
    BY DEF PInv, Shapes, Good, Fits, IInv
<1>2. app.standing \in StandingType /\ look.truth \in StandingType
    BY <1>1 DEF AppType, LookType
<1>3. StoodIn \in StandingType
    BY <1>1, <1>2, StandingTypes, StandsInType DEF StoodIn
<1>4. QED BY <1>1, <1>2, <1>3, StandingTypes DEF WaitOver, SaysMe

LEMMA KnowsType ==
    ASSUME NEW a \in AppType, NEW standing \in StandingType
    PROVE  Knows(a, standing) \in AppType /\ Knows(a, standing).standing = standing
BY DEF Knows, AppType

-----------------------------------------------------------------------------
(* The actions that make no record. *)

LEMMA QuietActions ==
    ASSUME PInv,
           \/ Release \/ Crash \/ Relaunch \/ RefreshQueue
           \/ \E i \in DOMAIN file.queue : Due(i)
           \/ Wake("me") \/ Wake("check_in") \/ ReadStanding \/ LookAnswered \/ LookLost
           \/ LookArmed \/ LookRead
    PROVE  PInv'
<1>1. /\ app \in AppType /\ look \in LookType /\ file \in FileType /\ TypeOK
      /\ app.standing \in StandingType /\ look.truth \in StandingType
      /\ StoodIn \in StandingType /\ WaitOver(StoodIn) \in StandingType
      /\ \A waits \in BOOLEAN : SaysMe(waits, look.truth) \in StandingType
    BY ReadTypes
<1>2. Good(file, made[Me], Gone)
    BY DEF PInv
<1>3. ASSUME NEW standing \in StandingType
      PROVE  /\ Good(KeptIn(file, standing), made[Me], Gone)
             /\ Ids(KeptIn(file, standing).queue) = Ids(file.queue)
    BY <1>2, KeptInTurns
<1>4. ASSUME UNCHANGED <<vars, app, look, wire, call>>, Good(file', made[Me], Gone),
             Ids(file'.queue) = Ids(file.queue)
      PROVE  PInv'
    BY <1>1, <1>4, SameCall, QuietStep
<1>5. ASSUME UNCHANGED <<vars, wire, call>>, NEW standing \in StandingType,
             file' = KeptIn(file, standing), app' \in AppType, look' \in LookType
      PROVE  PInv'
    BY <1>3, <1>5, SameCall, QuietStep
<1>6. ASSUME UNCHANGED <<vars, wire, file>>, call' = call \/ call' = NoCall,
             app' \in AppType, look' \in LookType
      PROVE  PInv'
    BY <1>2, <1>6, SameCall, QuietStep
<1>7. CASE Release
    <2>1. LET g == [file EXCEPT !.queue = Released(@)]
          IN Good(g, made[Me], Gone) /\ Ids(g.queue) = Ids(file.queue)
        BY <1>2, ReleasedTurns
    <2>2. QED BY <1>4, <1>7, <2>1 DEF Release
<1>9. CASE Crash
    BY <1>6, <1>9, StandingTypes DEF Crash
<1>10. CASE Relaunch
    <2>1. StandsIn(file) \in StandingType
        BY <1>1, StandsInType
    <2>2. PICK standing \in StandingType, blind \in BOOLEAN, kept \in BOOLEAN :
              app' = [NoApp EXCEPT !.up = TRUE, !.standing = standing, !.blind = blind,
                                   !.kept = kept]
        BY <1>10, <2>1, StandingTypes DEF Relaunch
    <2>3. app' \in AppType
        BY <2>2, StandingTypes DEF AppType
    <2>4. QED BY <1>1, <1>6, <1>10, <2>3 DEF Relaunch
<1>11. CASE RefreshQueue
    <2>1. PICK blind \in {FALSE, app.blind} :
              app' = [Knows(app, app.standing) EXCEPT !.blind = blind]
        BY <1>11 DEF RefreshQueue
    <2>2. Knows(app, app.standing) \in AppType /\ blind \in BOOLEAN
        BY <1>1, KnowsType DEF AppType
    <2>3. app' \in AppType
        BY <2>1, <2>2 DEF AppType
    <2>4. QED BY <1>1, <1>5, <1>11, <2>3 DEF RefreshQueue
<1>12. ASSUME NEW i \in DOMAIN file.queue, Due(i)
       PROVE  PInv'
    <2> DEFINE q == [file.queue EXCEPT ![i].due = TRUE]
    <2>1. file' = [file EXCEPT !.queue = q]
        BY <1>12 DEF Due
    <2>2. \A j \in DOMAIN file.queue : file.queue[j] \in QueuedType
        BY <1>1 DEF FileType
    <2>3. ASSUME NEW r \in QueuedType
          PROVE  [r EXCEPT !.due = TRUE] \in QueuedType /\ Marked(r, [r EXCEPT !.due = TRUE])
        BY DEF QueuedType, Marked
    <2>4. \A j \in DOMAIN file.queue : q[j] \in QueuedType /\ Marked(file.queue[j], q[j])
        BY <2>2, <2>3 DEF Marked
    <2>5. q \in Seq(QueuedType) /\ DOMAIN q = DOMAIN file.queue
        <3>1. file.queue \in Seq(QueuedType) /\ DOMAIN q = DOMAIN file.queue
            BY <1>1 DEF FileType
        <3>2. Len(file.queue) \in Nat /\ DOMAIN file.queue = 1..Len(file.queue)
            BY <3>1
        <3>3. q = [j \in 1..Len(file.queue) |-> q[j]]
            BY <3>1, <3>2
        <3>4. \A j \in 1..Len(file.queue) : q[j] \in QueuedType
            BY <2>4, <3>2
        <3> HIDE DEF q
        <3>5. QED BY <3>1, <3>2, <3>3, <3>4
    <2> HIDE DEF q
    <2>6. /\ file' \in FileType /\ file'.queue = q /\ file'.lastTap = file.lastTap
          /\ file'.lastUnlock = file.lastUnlock
        BY <1>1, <2>1, <2>5 DEF FileType
    <2>7. Good(file', made[Me], Gone) /\ Ids(file'.queue) = Ids(file.queue)
        BY <1>2, <2>4, <2>5, <2>6, GoodMarked
    <2>8. QED BY <1>4, <1>12, <2>7 DEF Due
<1>13. ASSUME NEW kind \in {"me", "check_in"}, Wake(kind)
       PROVE  PInv'
    <2> DEFINE standing == WaitOver(StoodIn)
    <2>1. standing \in StandingType
        BY <1>1
    <2>2. standing.session \in Sids
        BY <2>1 DEF StandingType
    <2> HIDE DEF standing
    <2>3. /\ file' = KeptIn(file, standing)
          /\ app' = [Knows(app, standing) EXCEPT !.reread = @ /\ kind # "me"]
          /\ look' = [NoLook EXCEPT !.kind = kind, !.fresh = Settled(file'.queue), !.stage = "sent",
                                    !.session = standing.session]
          /\ UNCHANGED <<vars, call, wire>>
        BY <1>13 DEF Wake, standing
    <2>4. app' \in AppType
        <3>1. Knows(app, standing) \in AppType
            BY <1>1, <2>1, KnowsType
        <3>2. QED BY <2>3, <3>1 DEF AppType
    <2>5. Settled(file'.queue) \in BOOLEAN
        BY DEF Settled
    <2>6. look' \in LookType
        BY <2>2, <2>3, <2>5, StandingTypes DEF LookType
    <2>7. QED BY <1>5, <2>1, <2>3, <2>4, <2>6
<1>14. CASE ReadStanding
    BY <1>1, <1>5, <1>14, KnowsType DEF ReadStanding
<1>15. CASE LookAnswered
    <2> DEFINE says == IF look.kind = "me" THEN SaysMe(look.armed, look.truth) ELSE look.truth
               gone == look.kind = "check_in" /\ look.truth = Out
               standing == IF Reconciles(look) /\ ~gone
                           THEN Guarded(app.standing, file.queue, says, 0) ELSE app.standing
    <2>1. says \in StandingType
        BY <1>1 DEF LookType
    <2> HIDE DEF says
    <2>2. standing \in StandingType
        BY <1>1, <2>1, GuardedType
    <2>3. gone \in BOOLEAN
        OBVIOUS
    <2>4. /\ file' = KeptIn(file, standing) /\ look' = NoLook
          /\ app' = [Knows(app, standing) EXCEPT !.reread = @ \/ gone]
          /\ UNCHANGED <<vars, call, wire>>
        BY <1>15 DEF LookAnswered, says
    <2> HIDE DEF standing, gone
    <2>5. app' \in AppType
        <3>1. Knows(app, standing) \in AppType
            BY <1>1, <2>2, KnowsType
        <3>2. QED BY <2>3, <2>4, <3>1 DEF AppType
    <2>6. QED BY <1>5, <2>2, <2>4, <2>5, StandingTypes
<1>16. CASE LookLost
    <2>1. app' \in AppType
        BY <1>1, <1>16 DEF LookLost, AppType
    <2>2. QED BY <1>6, <1>16, <2>1, StandingTypes DEF LookLost
<1>17. CASE LookArmed
    <2>1. TapWaits \in BOOLEAN
        BY DEF TapWaits
    <2>2. look' \in LookType
        BY <1>1, <1>17, <2>1 DEF LookArmed, LookType
    <2>3. QED BY <1>1, <1>6, <1>17, <2>2 DEF LookArmed
<1>18. CASE LookRead
    <2>1. Truth \in StandingType /\ Out \in StandingType
        BY <1>1, TruthType, StandingTypes
    <2>2. look' \in LookType
        BY <1>1, <1>18, <2>1 DEF LookRead, LookType
    <2>3. QED BY <1>1, <1>6, <1>18, <2>2 DEF LookRead
<1>19. QED BY <1>7, <1>9, <1>10, <1>11, <1>12, <1>13, <1>14, <1>15, <1>16, <1>17, <1>18

-----------------------------------------------------------------------------
(* The actions that make a record: the student's, and the lock's check's. *)

LEMMA RecordingKeeps ==
    ASSUME PInv, NEW change \in ChangeType, NEW due \in BOOLEAN, Recording(change, due),
           change.tap =< Len(made[Me]),
           change.kind \notin {"tap", "unlock"} =>
              change.tap = 0 /\ change.session # NoSession /\ app.standing.at = "in"
    PROVE  PInv'
<1> DEFINE m == made[Me]
           id == Len(m) + 1
           record == [kind |-> change.kind, session |-> change.session, claim |-> change.tap,
                      teacher |-> IF change.kind = "tap" THEN CHOOSE te \in Teachers : TRUE
                                  ELSE NoTeacher,
                      at |-> now, when |-> now, install |-> install[Me], place |-> id]
           m2 == Append(m, record)
           f == IF change.kind = "protection_off" /\ IsFocusedIn(app.standing, change.session)
                THEN [file EXCEPT !.reported = 0] ELSE file
           standing == Acting(app.standing, change, BackTo(change))
<1>1. /\ app \in AppType /\ look \in LookType /\ file \in FileType /\ TypeOK /\ IInv
      /\ app.standing \in StandingType /\ Good(file, m, Gone)
    BY ReadTypes DEF PInv
<1>2. /\ made' = [made EXCEPT ![Me] = m2]
      /\ file' = Queueing(f, id, change, standing, due)
      /\ app' = [Knows(app, standing) EXCEPT !.blind = FALSE]
      /\ look' = [look EXCEPT !.fresh = FALSE]
      /\ UNCHANGED <<serverSide, install, call, wire>>
    BY DEF Recording
<1>3. m \in Seq(MadeType) /\ Len(m) \in Nat /\ DOMAIN m = 1..Len(m)
    BY <1>1, MadeTyped
<1>4. Changes(m, change, record)
    <2>1. now \in Nat /\ install[Me] \in Nat
        BY <1>1, PhoneAssumption DEF TypeOK
    <2>2. record.teacher \in Teachers \cup {NoTeacher}
        BY PhoneAssumption
    <2>3. record \in MadeType
        BY <1>3, <2>1, <2>2 DEF MadeType, ChangeType, Sids
    <2>4. QED BY <2>3 DEF Changes
<1>5. Good(f, m, Gone) /\ Ids(f.queue) = Ids(file.queue)
    <2>1. /\ [file EXCEPT !.reported = 0] \in FileType
          /\ [file EXCEPT !.reported = 0].queue = file.queue
          /\ [file EXCEPT !.reported = 0].lastTap = file.lastTap
          /\ [file EXCEPT !.reported = 0].lastUnlock = file.lastUnlock
        BY <1>1 DEF FileType, Sids, NoSession
    <2>2. \A i \in DOMAIN file.queue : Marked(file.queue[i], file.queue[i])
        BY DEF Marked
    <2>3. Good([file EXCEPT !.reported = 0], m, Gone)
        BY <1>1, <2>1, <2>2, GoodMarked
    <2>4. QED BY <1>1, <2>1, <2>3
<1>6. BackTo(change) \in States \cup {"none"}
    BY <1>1 DEF BackTo, FileType, States
<1>7. standing \in StandingType /\ standing.at = app.standing.at
    BY <1>1, <1>6, ActingType
<1> HIDE DEF record, f, standing
<1>8. change.kind = "refocus" => standing.at = "in"
    BY <1>7
<1>9. Good(file', m2, Gone) /\ HoldsOn(f, m, id, file')
    BY <1>2, <1>4, <1>5, <1>7, <1>8, QueueingTurns
<1>10. /\ MadeOK(m2) /\ DOMAIN m2 = DOMAIN m \cup {id} /\ id \notin DOMAIN m
       /\ \A n \in DOMAIN m : m2[n] = m[n]
    BY <1>1, <1>4, MadeNext DEF Good
<1> HIDE DEF m2
<1>11. Remakes(m, m2)
    BY <1>10 DEF Remakes
<1>12. made'[Me] = m2 /\ log' = log
    BY <1>1, <1>2, MadeTyped DEF serverSide, server
<1>13. CallOK'
    BY <1>2, <1>11, <1>12, CallStays
<1>14. Shapes'
    <2>1. app' \in AppType
        <3>1. Knows(app, standing) \in AppType
            BY <1>1, <1>7, KnowsType
        <3>2. QED BY <1>2, <3>1 DEF AppType
    <2>2. look' \in LookType
        BY <1>1, <1>2 DEF LookType
    <2>3. wire' \subseteq DOMAIN m2
        BY <1>2, <1>10 DEF PInv, Shapes
    <2>4. QED BY <1>12, <2>1, <2>2, <2>3 DEF Shapes
<1>15. ASSUME NEW n \in Returns(m2), n \in wire'
       PROVE  n \in Gone
    BY <1>2, <1>10, <1>15 DEF PInv, Shapes, Returns, Gone
<1>16. UnlockKept'
    <2> SUFFICES ASSUME NEW o \in DOMAIN m2, m2[o].kind = "unlock"
                 PROVE  o \in Ids(file'.queue) \/ Recorded(Me, o)' # {}
        BY <1>12 DEF UnlockKept
    <2>1. CASE o = id
        BY <1>9, <2>1 DEF HoldsOn
    <2>2. CASE o \in DOMAIN m
        <3>1. m[o].kind = "unlock"
            BY <1>10, <2>2
        <3>2. o \in Ids(file.queue) \/ Recorded(Me, o) # {}
            BY <2>2, <3>1 DEF PInv, UnlockKept
        <3>3. QED BY <1>5, <1>9, <1>12, <3>1, <3>2 DEF HoldsOn, Recorded
    <2>3. QED BY <1>10, <2>1, <2>2
<1>17. QED BY <1>2, <1>9, <1>11, <1>13, <1>14, <1>15, <1>16, PhoneStep

LEMMA StudentKeeps ==
    ASSUME PInv, Student \/ Checks
    PROVE  PInv'
<1>1. /\ app.standing \in StandingType /\ file \in FileType /\ Good(file, made[Me], Gone)
      /\ Len(made[Me]) \in Nat
    BY ReadTypes, MadeTyped DEF PInv
<1>2. CASE Scan
    <2>1. Change("tap", 0, 0) \in ChangeType /\ Change("tap", 0, 0).tap =< Len(made[Me])
          /\ Change("tap", 0, 0).kind = "tap"
        BY <1>1 DEF Change, ChangeType, Kinds, Sids, NoSession
    <2>2. QED BY <1>2, <2>1, RecordingKeeps DEF Scan
<1>3. CASE PressUnlock
    <2>1. PICK change \in UnlockNow : Recording(change, app.standing.at # "in")
        BY <1>3 DEF PressUnlock
    <2>2. \A i \in DOMAIN Seen : Seen[i].id \in Nat /\ Seen[i].id =< Len(made[Me])
        <3>1. CASE Seen = <<>>
            BY <3>1
        <3>2. CASE Seen = file.queue
            <4>1. TAKE i \in DOMAIN Seen
            <4>2. RowFits(made[Me], file.queue[i])
                BY <1>1, <3>2 DEF Good, Fits, RowsOf
            <4>3. made[Me] \in Seq(MadeType)
                BY MadeTyped DEF PInv
            <4>4. QED BY <1>1, <3>2, <4>2, <4>3 DEF RowFits
        <3>3. QED BY <3>1, <3>2 DEF Seen
    <2>3. /\ change \in ChangeType /\ change.kind = "unlock" /\ change.tap =< Len(made[Me])
        <3>1. \/ \E i \in PendingTap(Seen) : change = Change("unlock", 0, Seen[i].id)
              \/ change = Change("unlock", app.standing.session, 0)
              \/ change = Change("unlock", 0, 0)
            BY DEF UnlockNow
        <3>2. ASSUME NEW sid \in Sids, NEW tap \in Nat
              PROVE  /\ Change("unlock", sid, tap) \in ChangeType
                     /\ Change("unlock", sid, tap).kind = "unlock"
                     /\ Change("unlock", sid, tap).tap = tap
            BY DEF Change, ChangeType, Kinds
        <3>3. 0 \in Sids /\ app.standing.session \in Sids
            BY <1>1 DEF Sids, NoSession, StandingType
        <3>4. PendingTap(Seen) \subseteq DOMAIN Seen
            BY DEF PendingTap
        <3>5. QED BY <1>1, <2>2, <3>1, <3>2, <3>3, <3>4
    <2>4. QED BY <2>1, <2>3, RecordingKeeps
<1>4. ASSUME NEW kind \in {"refocus", "protection_off", "protection_on"}, app.standing.at = "in",
             Recording(Change(kind, app.standing.session, 0), TRUE)
      PROVE  PInv'
    <2> DEFINE change == Change(kind, app.standing.session, 0)
    <2>1. /\ change \in ChangeType /\ change.tap = 0 /\ change.session # NoSession
        BY <1>1, <1>4 DEF Change, ChangeType, Kinds, StandingType
    <2>2. Recording(change, TRUE)
        BY <1>4
    <2> HIDE DEF change
    <2>3. change.tap =< Len(made[Me]) /\ TRUE \in BOOLEAN
        BY <1>1, <2>1
    <2>4. QED BY <1>4, <2>1, <2>2, <2>3, RecordingKeeps
<1>5. CASE BackToFocus
    BY <1>4, <1>5 DEF BackToFocus
<1>6. CASE FindOff
    BY <1>4, <1>6 DEF FindOff, InLesson
<1>7. CASE FindOn
    BY <1>4, <1>7 DEF FindOn, InLesson
<1>8. QED BY <1>2, <1>3, <1>5, <1>6, <1>7 DEF Student, Checks

-----------------------------------------------------------------------------
(* The drain: a record sent, and an answer heard. *)

LEMMA SendKeeps ==
    ASSUME PInv, Send
    PROVE  PInv'
<1> DEFINE m == made[Me]
<1>1. /\ file \in FileType /\ TypeOK /\ IInv /\ app.standing \in StandingType
      /\ Good(file, m, Gone) /\ app \in AppType /\ look \in LookType
    BY ReadTypes DEF PInv
<1>2. PICK i \in NextDue(file.queue) : Sends(file.queue[i])
    BY DEF Send
<1> DEFINE r == file.queue[i]
           sid == IF r.tap = 0 THEN r.session ELSE 0
           record == [m[r.id] EXCEPT !.claim = r.tap, !.session = sid]
           m2 == [m EXCEPT ![r.id] = record]
<1>3. UNCHANGED <<serverSide, install, file, app, look>>
    BY DEF Send
<1>4. i \in DOMAIN file.queue /\ CanGo(file.queue, r) /\ r \in RowsOf(file.queue)
    BY <1>2 DEF NextDue, RowsOf
<1>5. r \in QueuedType /\ RowFits(m, r)
    BY <1>1, <1>4 DEF FileType, Good, Fits
<1>6. made \in [Students -> Seq(MadeType)] /\ Me \in Students
    BY <1>1, MadeTyped
<1>7. m \in Seq(MadeType) /\ DOMAIN m = 1..Len(m) /\ Len(m) \in Nat /\ r.id \in DOMAIN m
    BY <1>1, <1>5, MadeTyped DEF RowFits
<1>8. m[r.id] \in MadeType
    BY <1>7
<1>9. sid \in Sids /\ r.tap \in Nat
    BY <1>5 DEF QueuedType, Sids, NoSession
<1>10. /\ record \in MadeType /\ record.kind = m[r.id].kind /\ record.place = m[r.id].place
       /\ record.session = sid
    <2> HIDE DEF sid
    <2>1. QED BY <1>8, <1>9 DEF MadeType, Sids
<1>11. m[r.id].kind \notin {"tap", "unlock"} => sid = m[r.id].session
    BY <1>5 DEF RowFits
<1>12. made' = [made EXCEPT ![Me] = m2]
    BY <1>2 DEF Sends
<1> HIDE DEF record, sid
<1>13. DOMAIN m2 = DOMAIN m /\ m2[r.id] = record /\ \A n \in DOMAIN m : n # r.id => m2[n] = m[n]
    BY <1>7
<1>14. m2 \in Seq(MadeType)
    <2>1. \A n \in 1..Len(m) : m2[n] \in MadeType
        BY <1>7, <1>10, <1>13
    <2>2. m2 = [n \in 1..Len(m) |-> m2[n]]
        BY <1>7
    <2> HIDE DEF m2, m
    <2>3. QED BY <1>7, <2>1, <2>2
<1> HIDE DEF m2
<1>15. \A n \in DOMAIN m : /\ m2[n].kind = m[n].kind /\ m2[n].place = m[n].place
                           /\ m[n].kind \notin {"tap", "unlock"} => m2[n].session = m[n].session
    BY <1>10, <1>11, <1>13
<1>16. Fits(file, m2) /\ InTurn(file, m2, Gone) /\ MadeOK(m2)
    BY <1>1, <1>13, <1>14, <1>15, SentTurns DEF Good
<1>17. Returns(m2) = Returns(m) /\ Gone \subseteq Returns(m)
    BY <1>13, <1>15 DEF Returns, Gone
<1> DEFINE gone == IF r.kind = "refocus" THEN Gone \cup {r.id} ELSE Gone
<1>18. r.kind = m[r.id].kind
    BY <1>5 DEF RowFits
<1>19. Good(file, m2, gone)
    <2>1. r.kind = "refocus" => GoneAfter(file, m2, Gone \cup {r.id})
        BY <1>4, <1>16, GoesAfter
    <2>2. InTurn(file, m2, gone)
        BY <1>16, <2>1 DEF InTurn
    <2>3. gone \subseteq Returns(m2)
        BY <1>7, <1>17, <1>18 DEF Returns
    <2>4. QED BY <1>16, <2>2, <2>3 DEF Good
<1>20. Good(file', m2, gone) /\ Ids(file'.queue) = Ids(file.queue)
    BY <1>3, <1>19
<1>21. made'[Me] = m2 /\ log' = log
    BY <1>3, <1>6, <1>12 DEF serverSide, server
<1>22. Remakes(m, m2)
    BY <1>13, <1>15 DEF Remakes
<1>23. CallOK'
    <2>1. r.id \in DOMAIN m2 /\ call' = [NoCall EXCEPT !.id = r.id]
        BY <1>2, <1>7, <1>13 DEF Sends
    <2>2. QED BY <1>21, <1>22, <2>1, CallStays
<1>24. Shapes'
    <2>1. wire' = wire \cup {r.id} /\ app' = app /\ look' = look
        BY <1>2, <1>3 DEF Sends
    <2>2. wire \subseteq DOMAIN m /\ app \in AppType /\ look \in LookType
        BY DEF PInv, Shapes
    <2>3. QED BY <1>7, <1>13, <1>21, <2>1, <2>2 DEF Shapes
<1>25. ASSUME NEW n \in Returns(m2), n \in wire'
       PROVE  n \in gone
    <2>1. CASE n = r.id
        BY <1>17, <1>18, <1>25, <2>1 DEF Returns
    <2>2. CASE n \in wire
        <3>1. n \in Gone
            BY <1>17, <1>25, <2>2 DEF Gone
        <3>2. QED BY <3>1
    <2>3. wire' = wire \cup {r.id}
        BY <1>2 DEF Sends
    <2>4. QED BY <1>25, <2>1, <2>2, <2>3
<1>26. UnlockKept'
    <2> SUFFICES ASSUME NEW o \in DOMAIN m2, m2[o].kind = "unlock"
                 PROVE  o \in Ids(file'.queue) \/ Recorded(Me, o)' # {}
        BY <1>21 DEF UnlockKept
    <2>1. o \in DOMAIN m /\ m[o].kind = "unlock"
        BY <1>13, <1>15
    <2>2. o \in Ids(file.queue) \/ Recorded(Me, o) # {}
        BY <2>1 DEF PInv, UnlockKept
    <2>3. QED BY <1>20, <1>21, <2>2 DEF Recorded
<1>27. \A n \in Returns(m) : n \in Gone => n \in gone
    OBVIOUS
<1> HIDE DEF gone
<1>28. QED BY <1>3, <1>12, <1>20, <1>22, <1>23, <1>24, <1>25, <1>26, <1>27, PhoneStep

LEMMA StandsAfterType ==
    ASSUME PInv, NEW f, NEW d, NEW answer, AnswerOK(answer), NEW r
    PROVE  StandsAfter(f, d, answer, r) \in StandingType
<1>1. app.standing \in StandingType /\ Waits \in StandingType /\ TypeOK
    BY ReadTypes, StandingTypes
<1>2. ASSUME answer.session # 0
      PROVE  Lands(f.queue, answer, r) \in StandingType
    <2>1. /\ answer.session \in SessionIds /\ answer.state \in States \cup {"none"}
          /\ answer.session \in Sids /\ call.ends \in Nat
        BY <1>2 DEF AnswerOK, Sids, NoSession, PInv, CallOK
    <2>2. In(answer.session, answer.state, call.ends) \in StandingType
        BY <1>2, <2>1 DEF In, StandingType, NoSession
    <2>3. QED BY <2>2, GuardedType DEF Lands
<1>3. \/ answer.session # 0 /\ StandsAfter(f, d, answer, r) = Lands(f.queue, answer, r)
      \/ StandsAfter(f, d, answer, r) \in {Waits, app.standing}
    BY DEF StandsAfter
<1>4. QED BY <1>1, <1>2, <1>3

(* The unlocks filed again are made, as what they are. *)
LEMMA FiledAgain ==
    ASSUME PInv, NEW id, NEW d, NEW answer
    PROVE  LET presses == Presses(file, id, d, answer)
               c == [k \in DOMAIN presses |->
                       [made[Me][presses[k].id] EXCEPT !.session = presses[k].session,
                                                       !.claim = 0, !.when = now]]
           IN MadeAgain(presses, c) /\ Makes(made[Me], c)
<1> DEFINE m == made[Me]
           presses == Presses(file, id, d, answer)
           c == [k \in DOMAIN presses |->
                   [m[presses[k].id] EXCEPT !.session = presses[k].session,
                                            !.claim = 0, !.when = now]]
<1>1. /\ file \in FileType /\ TypeOK /\ Good(file, m, Gone) /\ now \in Nat
    BY ReadTypes DEF PInv, TypeOK
<1>2. m \in Seq(MadeType) /\ DOMAIN m = 1..Len(m) /\ Len(m) \in Nat
    BY MadeTyped DEF PInv
<1>3. \A r \in RowsOf(file.queue) : r.id # 0 /\ RowFits(m, r)
    BY <1>1, <1>2 DEF Good, Fits, RowFits
<1>4. /\ presses \in Seq(QueuedType) /\ RowsOf(presses) \subseteq Pressed(file.queue)
    BY <1>1, <1>3, PressesAre DEF Good, Fits
<1> HIDE DEF presses
<1>5. ASSUME NEW k \in DOMAIN presses
      PROVE  LET p == presses[k]
                 t == [m[p.id] EXCEPT !.session = p.session, !.claim = 0, !.when = now]
             IN t \in MadeType /\ t.kind = "unlock" /\ t.place = p.place /\ t.place =< Len(m)
    <2> DEFINE p == presses[k]
    <2>1. p \in Pressed(file.queue) /\ p \in QueuedType
        BY <1>4 DEF RowsOf
    <2>2. p \in RowsOf(file.queue) /\ p.kind = "unlock"
        BY <2>1 DEF Pressed, IsUnlock
    <2>3. p.id \in DOMAIN m /\ m[p.id].kind = "unlock" /\ m[p.id].place = p.place
        BY <1>3, <2>2 DEF RowFits
    <2>4. m[p.id] \in MadeType /\ p.session \in Sids
        BY <1>2, <2>1, <2>3 DEF QueuedType
    <2>5. m[p.id].place =< Len(m)
        <3>1. m[p.id].place =< p.id
            BY <1>1, <2>3 DEF Good, MadeOK
        <3>2. m[p.id].place \in Nat
            BY <2>4 DEF MadeType
        <3>3. QED BY <1>2, <2>3, <3>1, <3>2
    <2> HIDE DEF p
    <2>6. QED BY <1>1, <2>3, <2>4, <2>5 DEF MadeType, Sids, p
<1>6. DOMAIN presses = 1..Len(presses) /\ Len(presses) \in Nat
    BY <1>4
<1>7. \A k \in DOMAIN presses : /\ c[k] \in MadeType /\ c[k].kind = "unlock"
                                /\ c[k].place = presses[k].place /\ c[k].place =< Len(m)
    <2>1. TAKE k \in DOMAIN presses
    <2>2. c[k] = [m[presses[k].id] EXCEPT !.session = presses[k].session, !.claim = 0, !.when = now]
        OBVIOUS
    <2> HIDE DEF c, m
    <2>3. QED BY <1>5, <2>2
<1>8. DOMAIN c = DOMAIN presses /\ c = [k \in 1..Len(presses) |-> c[k]]
    BY <1>6
<1>9. c \in Seq(MadeType)
    <2> HIDE DEF c, m
    <2>1. QED BY <1>6, <1>7, <1>8
<1>10. MadeAgain(presses, c)
    <2> HIDE DEF c, m
    <2>1. QED BY <1>7, <1>8, <1>9 DEF MadeAgain
<1>11. Makes(m, c)
    <2> HIDE DEF c, m
    <2>1. \A k \in DOMAIN c : c[k].place =< Len(m) + k
        <3>1. TAKE k \in DOMAIN c
        <3>2. c[k].place =< Len(m) /\ c[k].place \in Nat /\ k \in Nat
            BY <1>6, <1>7, <1>8 DEF MadeType
        <3>3. QED BY <1>2, <3>2
    <2>2. \A k \in DOMAIN c : c[k].kind \in {"tap", "reason", "unlock"}
        BY <1>7, <1>8
    <2>3. QED BY <1>9, <2>1, <2>2 DEF Makes
<1>12. QED BY <1>10, <1>11 DEF presses

LEMMA UnlockDispositions ==
    ASSUME NEW answer
    PROVE  Disposition("unlock", answer) \in {"retry", "retry_and_surface", "recorded"}
<1>1. Disposition("unlock", answer) =
          IF answer.outcome \in {"lost", "busy"} THEN "retry"
          ELSE IF answer.outcome \in Refusals THEN "retry_and_surface" ELSE "recorded"
    BY DEF Disposition
<1>2. QED BY <1>1

(* An unlock's record is settled by an answer that says it is recorded alone. *)
LEMMA HearsKeeps ==
    ASSUME PInv, NEW answer, NEW killed \in BOOLEAN, Hears(answer, killed), AnswerOK(answer),
           wire' \subseteq wire,
           call.id # 0 /\ made[Me][call.id].kind = "unlock" =>
              Disposition("unlock", answer) # "recorded" \/ Recorded(Me, call.id) # {}
    PROVE  PInv'
<1> DEFINE m == made[Me]
           id == call.id
           there == id \in Ids(file.queue)
           r == file.queue[CHOOSE i \in DOMAIN file.queue : file.queue[i].id = id]
           d == IF there THEN Disposition(r.kind, answer) ELSE "superseded"
           rereads == there /\ (r.kind # "unlock" \/ d = "recorded") /\ Rereads(d, answer)
           presses == Presses(file, id, d, answer)
           c == [k \in DOMAIN presses |->
                   [m[presses[k].id] EXCEPT !.session = presses[k].session,
                                            !.claim = 0, !.when = now]]
           m2 == m \o c
           f == Settle(file, id, d, answer, Len(m))
           arms == d = "wait_for_start" /\ Settled(f.queue)
           f2 == [f EXCEPT !.waitEnds = IF arms THEN EndOfDay(now) ELSE @]
           standing == StandsAfter(f, d, answer, r)
           heard(ps, g) ==
              LET waits == d = "wait_for_start" /\ Settled(g.queue)
                  waiting == [g EXCEPT !.waitEnds = IF waits THEN EndOfDay(now) ELSE @]
                  stands == StandsAfter(g, d, answer, r)
              IN /\ IF killed
                    THEN file' \in {g, waiting} /\ app' = NoApp /\ look' = NoLook
                    ELSE /\ file' = KeptIn(waiting, stands)
                         /\ app' = [Knows(app, stands) EXCEPT
                              !.blind = FALSE,
                              !.armed = IF waits /\ stands.at = "unread" THEN TRUE ELSE @,
                              !.reread = @ \/ rereads]
                         /\ look' = [look EXCEPT !.fresh = @ /\ d = "retry"]
                 /\ made' = [made EXCEPT ![Me] = @ \o [k \in DOMAIN ps |->
                       [@[ps[k].id] EXCEPT !.session = ps[k].session, !.claim = 0, !.when = now]]]
<1>1. /\ app \in AppType /\ look \in LookType /\ file \in FileType /\ TypeOK /\ IInv
      /\ Good(file, m, Gone) /\ now \in Nat
    BY ReadTypes DEF PInv, TypeOK
<1>0. heard(presses, f)
    <2>1. \E ps \in {presses}, g \in {f} : heard(ps, g)
        BY DEF Hears, Presses
    <2> HIDE DEF heard, presses, f
    <2>2. QED BY <2>1
<1>2. made' = [made EXCEPT ![Me] = m2]
    BY <1>0
<1>3. call' = NoCall /\ UNCHANGED <<serverSide, install>> /\ id # 0
    BY DEF Hears
<1>4. \/ /\ file' = KeptIn(f2, standing)
         /\ app' = [Knows(app, standing) EXCEPT
              !.blind = FALSE,
              !.armed = IF arms /\ standing.at = "unread" THEN TRUE ELSE @,
              !.reread = @ \/ rereads]
         /\ look' = [look EXCEPT !.fresh = @ /\ d = "retry"]
      \/ file' \in {f, f2} /\ app' = NoApp /\ look' = NoLook
    <2> HIDE DEF rereads, d, r, f, presses
    <2>1. QED BY <1>0
<1> HIDE DEF heard
<1>5. MadeAgain(presses, c) /\ Makes(m, c)
    <2> HIDE DEF d, id
    <2>1. QED BY FiledAgain
<1>6. there => r.id = id /\ r \in RowsOf(file.queue) /\ RowFits(m, r)
    BY <1>1 DEF Ids, RowsOf, Good, Fits
<1>7. standing \in StandingType
    BY StandsAfterType
<1> HIDE DEF c, presses, r, standing
<1>8. Good(f, m2, Gone) /\ Answered(file, m, c, id, d, f)
    <2>1. answer.session \in Sids
        BY DEF AnswerOK
    <2> HIDE DEF d
    <2>2. QED BY <1>1, <1>5, <2>1, SettleTurns DEF presses
<1>9. Grown(m, c, m2)
    BY <1>1, <1>5, MadeMore DEF Good
<1> HIDE DEF m2, f
<1>10. Good(f2, m2, Gone) /\ Ids(f2.queue) = Ids(f.queue)
    <2>1. f \in FileType /\ EndOfDay(now) \in Int
        BY <1>1, <1>8, TimeAssumption DEF Good, Fits, EndOfDay
    <2>2. /\ f2 \in FileType /\ f2.queue = f.queue /\ f2.lastTap = f.lastTap
          /\ f2.lastUnlock = f.lastUnlock
        BY <2>1 DEF FileType
    <2>3. \A i \in DOMAIN f.queue : Marked(f.queue[i], f.queue[i])
        BY DEF Marked
    <2> HIDE DEF f2
    <2>4. QED BY <1>8, <2>2, <2>3, GoodMarked
<1> HIDE DEF f2
<1>11. Good(file', m2, Gone) /\ Ids(file'.queue) = Ids(f.queue)
    BY <1>4, <1>7, <1>8, <1>10, KeptInTurns
<1>12. made'[Me] = m2 /\ log' = log
    BY <1>1, <1>2, <1>3, MadeTyped DEF serverSide, server
<1>13. \A n \in DOMAIN m : n \in DOMAIN m2 /\ m2[n] = m[n]
    BY <1>9 DEF Grown
<1>14. Remakes(m, m2)
    BY <1>13 DEF Remakes
<1>15. CallOK'
    BY <1>3, <1>12, <1>14, CallStays
<1>16. Shapes'
    <2>1. app' \in AppType
        <3>1. Knows(app, standing) \in AppType
            BY <1>1, <1>7, KnowsType
        <3>2. rereads \in BOOLEAN
            BY DEF Rereads
        <3> HIDE DEF rereads, d, arms
        <3>3. QED BY <1>4, <3>1, <3>2, StandingTypes DEF AppType
    <2>2. look' \in LookType
        BY <1>1, <1>4, StandingTypes DEF LookType
    <2>3. wire' \subseteq DOMAIN m2
        BY <1>13 DEF PInv, Shapes
    <2>4. QED BY <1>12, <2>1, <2>2, <2>3 DEF Shapes
<1>17. ASSUME NEW n \in Returns(m2), n \in wire'
       PROVE  n \in Gone
    <2>1. n \in DOMAIN m /\ n \in wire
        BY <1>17 DEF PInv, Shapes
    <2>2. QED BY <1>13, <1>17, <2>1 DEF Returns, Gone
<1>18. ASSUME NEW o \in DOMAIN m, m[o].kind = "unlock"
       PROVE  o \in Ids(file'.queue) \/ Recorded(Me, o) # {}
    <2>1. o \in Ids(file.queue) \/ Recorded(Me, o) # {}
        BY <1>18 DEF PInv, UnlockKept
    <2>2. CASE o \in Ids(f.queue)
        BY <1>11, <2>2
    <2>3. CASE o \in Ids(file.queue) /\ o = id /\ ~Keeps(d)
        <3>1. there /\ r.kind = "unlock"
            BY <1>6, <1>18, <2>3 DEF RowFits
        <3>2. d = Disposition("unlock", answer)
            BY <3>1
        <3>3. d = "recorded"
            BY <2>3, <3>2, UnlockDispositions DEF Keeps
        <3>4. QED BY <1>3, <1>18, <2>3, <3>2, <3>3
    <2>4. QED BY <1>8, <2>1, <2>2, <2>3 DEF Answered
<1>19. ASSUME NEW n \in DOMAIN m2, m2[n].kind = "unlock"
       PROVE  n \in Ids(file'.queue) \/ Recorded(Me, n)' # {}
    <2>1. CASE n \in DOMAIN m
        BY <1>12, <1>13, <1>18, <1>19, <2>1 DEF Recorded
    <2>2. ASSUME NEW k \in DOMAIN c, n = Len(m) + k
          PROVE  n \in Ids(file'.queue)
        BY <1>8, <1>11, <2>2 DEF Answered
    <2>3. QED BY <1>9, <2>1, <2>2 DEF Grown
<1>20. UnlockKept'
    BY <1>12, <1>19 DEF UnlockKept
<1>21. QED BY <1>2, <1>3, <1>11, <1>14, <1>15, <1>16, <1>17, <1>20, PhoneStep

LEMMA DrainKeeps ==
    ASSUME PInv, Hear \/ KilledHearing \/ Lost \/ Busy
    PROVE  PInv'
<1>1. CASE Hear \/ KilledHearing
    <2>1. PICK killed \in BOOLEAN : Hears(call.answer, killed)
        BY <1>1 DEF Hear, KilledHearing
    <2>2. call.id # 0 /\ call.answer # Pending /\ wire' = wire
        BY <1>1, <2>1 DEF Hear, KilledHearing, Hears
    <2>3. QED BY <2>1, <2>2, HearsKeeps DEF PInv, CallOK
<1>2. ASSUME NEW outcome \in {"lost", "busy"}, Late,
             Hears([Pending EXCEPT !.outcome = outcome], FALSE)
      PROVE  PInv'
    <2> DEFINE answer == [Pending EXCEPT !.outcome = outcome]
    <2>1. answer.outcome = outcome /\ answer.session = NoSession
        BY DEF Pending
    <2> HIDE DEF answer
    <2>2. AnswerOK(answer) /\ Disposition("unlock", answer) # "recorded"
        BY <2>1 DEF AnswerOK, Sids, Disposition
    <2>3. wire' \subseteq wire /\ Hears(answer, FALSE)
        BY <1>2 DEF Late, answer
    <2>4. QED BY <2>2, <2>3, HearsKeeps
<1>3. CASE Lost
    BY <1>2, <1>3 DEF Lost
<1>4. CASE Busy
    BY <1>2, <1>4 DEF Busy
<1>5. QED BY <1>1, <1>3, <1>4

-----------------------------------------------------------------------------
(* The server's steps: the log grows, and by a return only where one was sent. *)

LogsReturns ==
    /\ log[Me] \subseteq log'[Me]
    /\ \A e \in log'[Me] : e.type = "refocus" =>
          \/ e \in log[Me]
          \/ e.id \in wire /\ e.id \in Returns(made[Me]) /\ e.session = made[Me][e.id].session

LEMMA ServerStep ==
    ASSUME PInv, UNCHANGED <<file, app, made>>, look' \in LookType, wire' \subseteq wire,
           IInv', CallOK', AskedTap', LogsReturns
    PROVE  PInv'
<1>1. Shapes'
    BY DEF PInv, Shapes
<1>2. ReturnsLogged'
    BY DEF PInv, ReturnsLogged, LogsReturns
<1>3. Gone' \subseteq Gone
    <2>1. ASSUME NEW n \in Gone'
          PROVE  n \in Gone
        <3>1. n \in Returns(made[Me]) /\ (n \in wire' \/ \E e \in log'[Me] : e.type = "refocus" /\ e.id = n)
            BY <2>1 DEF Gone
        <3>2. QED BY <3>1 DEF LogsReturns, Gone
    <2>2. QED BY <2>1
<1>4. Good(file, made[Me], Gone')
    BY <1>3, GoodLess DEF PInv
<1>5. Good(file, made[Me], Gone)'
    BY <1>4
<1>6. UnlockKept'
    BY DEF PInv, UnlockKept, LogsReturns, Recorded
<1>7. QED BY <1>1, <1>2, <1>5, <1>6 DEF PInv

(* The answer the call waits for comes, or another's. *)
LEMMA AnswerComes ==
    ASSUME PInv, NEW id \in DOMAIN made[Me], NEW answer, AnswerOK(answer), made' = made,
           log[Me] \subseteq log'[Me],
           Answers(id, answer),
           made[Me][id].kind = "unlock" /\ Disposition("unlock", answer) = "recorded" =>
              \E e \in log'[Me] : e.id = id
    PROVE  CallOK'
<1>1. \A n : Recorded(Me, n) # {} => Recorded(Me, n)' # {}
    BY DEF Recorded
<1>2. CASE call' = call
    BY <1>1, <1>2 DEF PInv, CallOK
<1>3. CASE /\ call.id = id
           /\ call' = [call EXCEPT !.answer = answer, !.ends = BellOf(answer.session)]
    <2>1. call' = [id |-> id, answer |-> answer, ends |-> BellOf(answer.session)]
        BY <1>3 DEF PInv, CallOK
    <2>2. (\E e \in log'[Me] : e.id = id) => Recorded(Me, id)' # {}
        BY DEF Recorded
    <2>3. BellOf(answer.session) \in Nat
        <3>1. answer.session # NoSession => sessions[answer.session] \in SessionType
            BY DEF AnswerOK, Sids, PInv, IInv, TypeOK
        <3>2. QED BY <3>1 DEF BellOf, SessionType
    <2>4. QED BY <1>3, <2>1, <2>2, <2>3 DEF CallOK
<1>4. QED BY <1>2, <1>3 DEF Answers

LEMMA CommitLogs ==
    ASSUME PInv, NEW id \in DOMAIN made[Me], id \in wire \/ made[Me][id].kind # "refocus",
           NEW tx, Serves(Me, id, tx), Commit(Me, tx)
    PROVE  /\ LogsReturns /\ AnswerOK(tx.answer)
           /\ made[Me][id].kind = "unlock" /\ Disposition("unlock", tx.answer) = "recorded" =>
                 \E e \in log'[Me] : e.id = id
<1>1. log'[Me] = log[Me] \cup tx.rows
    BY PhoneAssumption DEF Commit, PInv, IInv, TypeOK
<1>2. LogsReturns
    BY <1>1 DEF Serves, ReturnsOf, LogsReturns, Returns
<1>3. QED BY <1>1, <1>2 DEF Serves

LEMMA ServeKeeps ==
    ASSUME PInv, NEW id \in wire, Serve(id)
    PROVE  PInv'
<1> DEFINE tx == Handle(Me, id, now)
<1>1. /\ TypeOK /\ IInv /\ Me \in Students /\ id \in DOMAIN made[Me] /\ look \in LookType
    BY PhoneAssumption DEF PInv, IInv, Shapes
<1>2. /\ Reach(Me, id) /\ wire' = wire \ {id} /\ Answers(id, tx.answer)
      /\ UNCHANGED <<file, app, look>>
    BY DEF Serve
<1>3. Commit(Me, tx) /\ made[Me][id].kind # "tap" /\ Addressed(Me, id)
      /\ UNCHANGED <<made, asking>>
    <2>1. PICK t \in Clocks : Commit(Me, Handle(Me, id, t))
        BY <1>2 DEF Reach
    <2>2. t = now
        BY <1>1, PhoneAssumption DEF Clocks, TypeOK
    <2>3. QED BY <1>2, <2>1, <2>2 DEF Reach, phones
<1>4. now \in Nat
    BY <1>1 DEF TypeOK
<1>5. Serves(Me, id, tx)
    BY <1>1, <1>3, HandleServes
<1> HIDE DEF tx
<1>6. /\ LogsReturns /\ AnswerOK(tx.answer)
      /\ made[Me][id].kind = "unlock" /\ Disposition("unlock", tx.answer) = "recorded" =>
            \E e \in log'[Me] : e.id = id
    BY <1>1, <1>3, <1>5, CommitLogs
<1>7. IInv'
    BY <1>1, <1>2, ReachKeeps
<1>8. CallOK'
    BY <1>1, <1>2, <1>3, <1>6, AnswerComes DEF LogsReturns
<1>9. AskedTap'
    BY <1>3 DEF PInv, AskedTap
<1>10. QED BY <1>1, <1>2, <1>3, <1>6, <1>7, <1>8, <1>9, ServerStep

LEMMA ServeTapKeeps ==
    ASSUME PInv, NEW id \in wire, ServeTap(id)
    PROVE  PInv'
<1>1. /\ TypeOK /\ IInv /\ Me \in Students /\ id \in DOMAIN made[Me] /\ look \in LookType
      /\ asking \in [Students -> AskType]
    BY PhoneAssumption DEF PInv, IInv, Shapes, TypeOK
<1>2. /\ AskTap(Me, id) /\ wire' = wire \ {id} /\ UNCHANGED <<file, app, call, look>>
    BY DEF ServeTap
<1>3. made' = made /\ log' = log /\ made[Me][id].kind = "tap" /\ ReadTarget(Me, id, "tap")
    BY <1>2 DEF AskTap, phones, server
<1>4. IInv'
    <2>1. Request(Me)
        BY <1>1, <1>2 DEF Request
    <2>2. QED BY <1>1, <2>1, RequestKeeps
<1>5. LogsReturns
    BY <1>3 DEF LogsReturns
<1>6. CallOK'
    BY <1>2, <1>3 DEF PInv, CallOK, Recorded
<1>7. AskedTap'
    <2>1. asking'[Me].record = id
        BY <1>1, <1>3 DEF ReadTarget
    <2>2. QED BY <1>3, <2>1 DEF AskedTap
<1>8. QED BY <1>1, <1>2, <1>3, <1>4, <1>5, <1>6, <1>7, ServerStep

LEMMA TapServedKeeps ==
    ASSUME PInv, TapServed
    PROVE  PInv'
<1> DEFINE n == asking[Me].record
<1>1. /\ TypeOK /\ IInv /\ Me \in Students /\ look \in LookType
      /\ asking \in [Students -> AskType]
    BY PhoneAssumption DEF PInv, IInv, Shapes, TypeOK
<1>2. UNCHANGED <<file, app, look, wire>>
    BY DEF TapServed
<1>3. ASSUME asking[Me].stage # "idle"
      PROVE  n \in DOMAIN made[Me] /\ made[Me][n].kind = "tap"
    BY <1>1, <1>3 DEF TypeOK, Referring, PInv, AskedTap
<1>4. Request(Me) => IInv'
    BY <1>1, RequestKeeps
<1>5. ASSUME asking[Me].stage # "idle", NEW tx, Serves(Me, n, tx), Commit(Me, tx), made' = made,
             Request(Me), asking'[Me].stage = "idle" \/ asking'[Me].record = n,
             call' = call \/ Answers(n, tx.answer)
      PROVE  PInv'
    <2>1. n \in DOMAIN made[Me] /\ made[Me][n].kind = "tap"
        BY <1>3, <1>5
    <2>2. LogsReturns /\ AnswerOK(tx.answer)
        BY <1>5, <2>1, CommitLogs
    <2>3. call' = call => CallOK'
        BY <1>5, <2>1, <2>2 DEF PInv, CallOK, Recorded, LogsReturns
    <2>4. CallOK'
        BY <1>5, <2>1, <2>2, <2>3, AnswerComes DEF LogsReturns
    <2>5. AskedTap'
        BY <1>5, <2>1 DEF AskedTap
    <2>6. QED BY <1>1, <1>2, <1>4, <1>5, <2>2, <2>4, <2>5, ServerStep
<1>6. CASE TapLands(Me) /\ (call' = call \/ Answers(n, TapTx(Me).answer))
    <2> DEFINE tx == TapTx(Me)
               next == Onward(asking[Me], tx.answer.outcome)
    <2>1. /\ asking[Me].stage \in {"tap", "again"} /\ Commit(Me, tx) /\ made' = made
          /\ asking' = [asking EXCEPT ![Me] =
                           IF next = "idle" THEN Idle ELSE [@ EXCEPT !.stage = next]]
        BY <1>6 DEF TapLands, phones
    <2>2. asking[Me].target \in SessionIds
        <3>1. asking[Me].target # NoSession /\ asking[Me] \in AskType
            BY <1>1, <2>1 DEF TypeOK, Referring
        <3>2. QED BY <3>1 DEF AskType
    <2>3. Serves(Me, n, tx)
        BY <1>1, <1>3, <2>1, <2>2, TapInServes DEF TapTx
    <2> HIDE DEF tx, next
    <2>4. asking'[Me].stage = "idle" \/ asking'[Me].record = n
        <3>1. asking'[Me] = Idle \/ asking'[Me] = [asking[Me] EXCEPT !.stage = next]
            BY <1>1, <2>1
        <3>2. asking[Me] \in AskType
            BY <1>1
        <3>3. QED BY <3>1, <3>2 DEF Idle, AskType
    <2>5. Request(Me)
        BY <1>6 DEF Request
    <2>6. QED BY <1>5, <1>6, <2>1, <2>3, <2>4, <2>5 DEF tx
<1>7. CASE TapArms(Me) /\ Answers(n, ArmTap(Me, n, asking[Me].at).answer)
    <2> DEFINE tx == ArmTap(Me, n, asking[Me].at)
    <2>1. /\ asking[Me].stage = "arm" /\ Commit(Me, tx) /\ made' = made
          /\ asking' = [asking EXCEPT ![Me] = Idle]
        BY <1>7 DEF TapArms, phones
    <2>2. Serves(Me, n, tx)
        BY <1>3, <2>1, ArmTapServes
    <2>3. asking'[Me].stage = "idle"
        BY <1>1, <2>1 DEF Idle
    <2>4. Request(Me) /\ Answers(n, tx.answer)
        BY <1>7 DEF Request
    <2> HIDE DEF tx
    <2>5. QED BY <1>5, <2>1, <2>2, <2>3, <2>4
<1>8. QED BY <1>6, <1>7 DEF TapServed

LEMMA RefuseTapKeeps ==
    ASSUME PInv, NEW id \in wire, RefuseTap(id)
    PROVE  PInv'
<1> DEFINE answer == Answer("unknown_block", NoSession, "none")
<1>1. /\ app \in AppType /\ look \in LookType /\ id \in DOMAIN made[Me]
      /\ Good(file, made[Me], Gone)
    BY DEF PInv, Shapes
<1>2. /\ UNCHANGED <<vars, file, app, look>> /\ wire' = wire \ {id}
      /\ made[Me][id].kind = "tap" /\ Answers(id, answer)
    BY DEF RefuseTap
<1>3. AnswerOK(answer)
    BY DEF AnswerOK, Answer, Sids
<1> HIDE DEF answer
<1>4. CallOK'
    <2>1. made' = made /\ log' = log
        BY <1>2 DEF vars
    <2>2. QED BY <1>1, <1>2, <1>3, <2>1, AnswerComes
<1>5. QED BY <1>1, <1>2, <1>4, QuietStep

LEMMA ConvertedNoReturn ==
    ASSUME NEW st, NEW sid, NEW s, NEW ps, NEW t
    PROVE  \A e \in Converted(st, sid, s, ps, t).rows : e.type # "refocus"
<1> DEFINE a == CHOOSE b \in {b \in Waiting(st, TeacherOf[s.class]) : b.expires > t} : TRUE
           at == Clamp(made[st][a.id].at, s)
           tap(note) == PhoneRow(st, a.id, "tap_in", sid, at, note)
           skip == [ServerRow(st, 2, "armed_tap_skipped", sid, s.startedAt) EXCEPT !.claim = a.id]
<1>1. \A note : tap(note).type = "tap_in"
    BY RowsTyped
<1>2. skip.type = "armed_tap_skipped"
    BY DEF ServerRow
<1>3. \A e \in LeftRows(st, ps, sid, at) : e.type = "left_for_other_session"
    BY LeftNoReturn
<1>4. \/ Converted(st, sid, s, ps, t).rows = {} \/ Converted(st, sid, s, ps, t).rows = {skip}
      \/ \E note : \/ Converted(st, sid, s, ps, t).rows = {tap(note)}
                   \/ Converted(st, sid, s, ps, t).rows
                          = {tap(note)} \cup LeftRows(st, ps, sid, at)
    BY DEF Converted
<1> HIDE DEF a, at, tap, skip
<1>5. QED BY <1>1, <1>2, <1>3, <1>4

(* A lesson's start, end and sweep write no return. *)
LEMMA LessonLogs ==
    ASSUME Lesson, TypeOK
    PROVE  /\ log[Me] \subseteq log'[Me] /\ UNCHANGED <<made, asking>>
           /\ \A e \in log'[Me] : e.type = "refocus" => e \in log[Me]
<1>1. Me \in Students
    BY PhoneAssumption
<1>2. ASSUME NEW c \in Classes, NEW sid \in SessionIds, NEW t, NEW d, StartSession(c, sid, t, d)
      PROVE  /\ log[Me] \subseteq log'[Me] /\ UNCHANGED <<made, asking>>
             /\ \A e \in log'[Me] : e.type = "refocus" => e \in log[Me]
    <2> DEFINE s == [class |-> c, startedAt |-> t, endsAt |-> t + d, endedAt |-> Never]
               base == EndedParts(PastBell(c), "session_expired")
               tx(st) == Converted(st, sid, s, base[st], t)
    <2>1. log' = [st \in Students |-> log[st] \cup tx(st).rows] /\ UNCHANGED <<made, asking>>
        BY <1>2 DEF StartSession, phones
    <2> HIDE DEF s, base
    <2>2. \A e \in tx(Me).rows : e.type # "refocus"
        BY ConvertedNoReturn
    <2> HIDE DEF tx
    <2>3. QED BY <1>1, <2>1, <2>2
<1>3. CASE \E c \in Classes : Start(c)
    BY <1>2, <1>3 DEF Start
<1>4. CASE \E sid \in SessionIds : Extend(sid) \/ End(sid) \/ Sweep(sid)
    <2>1. log' = log /\ UNCHANGED <<made, asking>>
        BY <1>4 DEF Extend, End, Sweep, EndHeld, phones
    <2>2. QED BY <2>1
<1>5. QED BY <1>3, <1>4 DEF Lesson

LEMMA TeacherKeeps ==
    ASSUME PInv, Lesson \/ Tick, UNCHANGED phone
    PROVE  PInv'
<1>1. TypeOK /\ IInv /\ look \in LookType
    BY DEF PInv, IInv, Shapes
<1>2. UNCHANGED <<file, app, call, wire, look>>
    BY DEF phone
<1>3. IInv'
    BY <1>1, LessonKeeps, TickKeeps
<1>4. /\ log[Me] \subseteq log'[Me] /\ UNCHANGED <<made, asking>>
      /\ \A e \in log'[Me] : e.type = "refocus" => e \in log[Me]
    BY <1>1, LessonLogs DEF Tick, phones
<1>5. LogsReturns /\ AskedTap'
    BY <1>4 DEF LogsReturns, PInv, AskedTap
<1>6. CallOK'
    <2>1. \A n : Recorded(Me, n) # {} => Recorded(Me, n)' # {}
        BY <1>4 DEF Recorded
    <2>2. QED BY <1>2, <1>4, <2>1 DEF PInv, CallOK
<1>7. QED BY <1>1, <1>2, <1>3, <1>4, <1>5, <1>6, ServerStep

-----------------------------------------------------------------------------
(* The theorems. *)

LEMMA InitPInv ==
    ASSUME PhoneInit
    PROVE  PInv
<1>1. /\ Init /\ file = EmptyFile /\ call = NoCall /\ wire = {} /\ look = NoLook /\ app = NoApp
      /\ made[Me] = <<>> /\ log[Me] = {} /\ asking[Me] = Idle
    BY PhoneAssumption DEF PhoneInit, Init
<1>2. IInv
    BY <1>1, InitIInv
<1>3. Shapes /\ CallOK
    <2>1. AnswerOK(Pending)
        BY DEF AnswerOK, Pending, Sids
    <2>2. QED BY <1>1, <2>1, StandingTypes DEF Shapes, CallOK, NoCall
<1>4. AskedTap /\ ReturnsLogged
    BY <1>1 DEF AskedTap, ReturnsLogged, Idle
<1>5. Gone = {} /\ MadeOK(made[Me]) /\ UnlockKept
    BY <1>1 DEF Gone, Returns, MadeOK, UnlockKept
<1>6. /\ EmptyFile.queue = <<>> /\ RowsOf(EmptyFile.queue) = {}
      /\ EmptyFile.lastTap = 0
    BY DEF EmptyFile, RowsOf
<1>7. EmptyFile \in FileType
    <2>1. Out \in StandingType /\ 0 \in Sids
        BY StandingTypes DEF Sids, NoSession
    <2>2. QED BY <2>1 DEF EmptyFile, FileType
<1>8. Fits(EmptyFile, <<>>)
    BY <1>6, <1>7 DEF Fits, Distinct
<1>9. InTurn(EmptyFile, <<>>, {})
    BY <1>6 DEF InTurn, UnfiledLast, ReturnsWait, GoneAfter, NewestKnown
<1>10. Good(file, made[Me], Gone)
    BY <1>1, <1>5, <1>8, <1>9 DEF Good
<1>11. QED BY <1>2, <1>3, <1>4, <1>5, <1>10 DEF PInv

LEMMA NextPInv ==
    ASSUME PInv, [PhoneNext]_allVars
    PROVE  PInv'
<1>1. CASE UNCHANGED allVars
    <2>1. UNCHANGED <<vars, file, app, look, wire, call>>
        BY <1>1 DEF allVars, phone
    <2>2. Good(file, made[Me], Gone) /\ app \in AppType /\ look \in LookType
        BY DEF PInv, Shapes
    <2>3. CallOK'
        BY <2>1, SameCall
    <2>4. QED BY <2>1, <2>2, <2>3, QuietStep
<1>2. CASE Student \/ Checks
    BY <1>2, StudentKeeps
<1>3. CASE Drain
    BY <1>3, SendKeeps, DrainKeeps, QuietActions DEF Drain
<1>4. CASE Reads \/ Crash \/ Relaunch \/ RefreshQueue
    BY <1>4, QuietActions DEF Reads
<1>5. CASE Server
    <2>1. CASE \E id \in wire : Serve(id) \/ ServeTap(id) \/ RefuseTap(id)
        BY <2>1, ServeKeeps, ServeTapKeeps, RefuseTapKeeps
    <2>2. CASE TapServed \/ LookArmed \/ LookRead
        BY <2>2, TapServedKeeps, QuietActions
    <2>3. CASE (Lesson \/ Tick) /\ UNCHANGED phone
        BY <2>3, TeacherKeeps
    <2>4. QED BY <1>5, <2>1, <2>2, <2>3 DEF Server
<1>6. QED BY <1>1, <1>2, <1>3, <1>4, <1>5 DEF PhoneNext

(* The invariant the theorems below follow from holds of every behaviour of a *)
(* phone in front of the engine.                                              *)
THEOREM PhoneInvariance == PhoneSpec => []PInv
<1>1. PhoneInit => PInv
    BY InitPInv
<1>2. PInv /\ [PhoneNext]_allVars => PInv'
    BY NextPInv
<1>3. QED BY <1>1, <1>2, PTL DEF PhoneSpec

(* With the app killed and calls lost, and requests served late or in another *)
(* order, the engine's rows keep their shapes and name what there is.         *)
THEOREM PhoneKeepsEngine == PhoneSpec => []TypeOK
<1>1. PInv => TypeOK
    BY DEF PInv, IInv
<1>2. QED BY <1>1, PhoneInvariance, PTL

(* Nor are its lessons mixed: a student whose phone it is is live in one at     *)
(* most and in none that is over, and a class has one lesson not over.          *)
THEOREM PhoneKeepsLessons == PhoneSpec => []LessonsApart
<1>1. PInv => LessonsApart
    BY DEF PInv, IInv, LessonsApart
<1>2. QED BY <1>1, PhoneInvariance, PTL

(* No Emergency Unlock is lost: the file holds it, or a row of the server's. *)
THEOREM UnlocksKept == PhoneSpec => []UnlockKept
<1>1. PInv => UnlockKept
    BY DEF PInv
<1>2. QED BY <1>1, PhoneInvariance, PTL

(* No return to focus is recorded ahead of the unlock it returns from. *)
THEOREM ReturnsBehind == PhoneSpec => []RefocusAfterUnlock
<1>1. ASSUME PInv
      PROVE  RefocusAfterUnlock
    <2> SUFFICES ASSUME NEW e \in log[Me], e.type = "refocus", NEW i \in DOMAIN file.queue,
                        NewestBefore(made[Me], file.queue[i], e.id)
                 PROVE  ~FiledIn(file.queue, file.queue[i], e.session)
        BY DEF RefocusAfterUnlock
    <2>1. e.id \in Returns(made[Me]) /\ e.session = made[Me][e.id].session
        BY <1>1 DEF PInv, ReturnsLogged
    <2>2. e.id \in Gone /\ file.queue[i] \in RowsOf(file.queue)
        BY <2>1 DEF Gone, RowsOf
    <2>3. GoneAfter(file, made[Me], Gone)
        BY <1>1 DEF PInv, Good, InTurn
    <2>4. QED BY <2>1, <2>2, <2>3 DEF GoneAfter
<1>2. QED BY <1>1, PhoneInvariance, PTL
=============================================================================
