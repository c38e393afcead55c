----------------------------- MODULE Feed_proofs -----------------------------
(***************************************************************************)
(* Proofs about the live feed: that its types are right, that the settled  *)
(* point is sound, that nothing lies unsent behind the tab's cursor, that  *)
(* no event reaches the grid twice, and that a step of the feed is a step  *)
(* of Delivery or a stutter.                                               *)
(*                                                                         *)
(* One argument carries them: of the rows at or below a settled point none *)
(* is to come, so what a read that went past the point has sent is all     *)
(* there is below it, and may be forgotten.  It is kept of every place     *)
(* that holds a settled point: the cursor, the stream, a line on the wire, *)
(* the tab, and the snapshot under way.                                    *)
(***************************************************************************)
EXTENDS FeedProps, FiniteSetTheorems, SequenceTheorems, WellFoundedInduction,
        NaturalsInduction, TLAPS

Row == [by : Nat, kind : Kinds]
Wait == [seq : Nat, writers : SUBSET Nat]
Frame == [kind : {"event", "settled"}, seq : Nat]

TableOK ==
    /\ rows \in Seq(Row) /\ Len(rows) =< MaxRows
    /\ writes \in Seq({"open", "committed", "rolled_back"})
    /\ \A s \in Seqs : rows[s].by \in DOMAIN writes

FeedTypeOK ==
    /\ TableOK
    /\ cursor \in [settled : Nat, waiting : Seq(Wait), looking : Nat \cup {NotLooking}]
    /\ stream \in [stage : {"none", "settling", "paging", "idle"}, after : Nat, high : Nat,
                   settledHere : Nat, said : Nat, delivered : SUBSET Nat, from : Nat,
                   settling : Nat]
    /\ wire \in Seq(Frame)
    /\ tab \in [stage : {"boot", "down", "up"}, last : Nat, settled : Nat,
                delivered : SUBSET Nat]
    /\ grid \in [shows : SUBSET Nat, applied : Nat]
    /\ snap \in [stage : {"idle", "settling", "latest", "roster", "read"}, settled : Nat,
                 latest : Nat, roster : SUBSET Nat]
    /\ heard \in SUBSET Nat /\ told \in SUBSET Nat /\ faults \in Nat

-----------------------------------------------------------------------------
(* The inductive invariant. *)

(* A settled point: every row at or below it is there, and its write ended. *)
Closed(p) == \A s \in Seqs : s =< p => rows[s].by \notin Writers
IsSettled(p) == p =< Len(rows) /\ Closed(p)

(* The tab knows the event, or comes to as it hears the first n frames. *)
Known(s, n) == s \in told \/ \E j \in 1..n : wire[j] = Event(s)
KnownTo(p, n) == \A s \in Shown : s =< p => Known(s, n)

(* What the process waits for holds every write open at or below it. *)
WaitsFor(w) ==
    /\ w.seq =< Len(rows)
    /\ \A s \in Seqs : s =< w.seq /\ rows[s].by \in Writers => rows[s].by \in w.writers

CursorInv ==
    /\ IsSettled(cursor.settled)
    /\ cursor.looking =< Len(rows)
    /\ \A i \in 1..Len(cursor.waiting) : WaitsFor(cursor.waiting[i])

StreamInv ==
    IF stream.stage = "none" THEN wire = <<>>
    ELSE /\ tab.stage = "up"
         /\ IsSettled(stream.settledHere) /\ KnownTo(stream.settledHere, Len(wire))
         /\ stream.after =< stream.settledHere /\ KnownTo(stream.after, 0)
         /\ \A s \in stream.delivered : Known(s, Len(wire))
         /\ stream.stage = "paging" =>
               /\ IsSettled(stream.settling)
               /\ KnownTo(Smaller(stream.from, stream.settling), Len(wire))

WireInv ==
    \A i \in 1..Len(wire) :
        /\ wire[i].kind = "event" => wire[i].seq \in Shown
        /\ wire[i].kind = "settled" =>
              IsSettled(wire[i].seq) /\ KnownTo(wire[i].seq, i - 1)

TabInv ==
    /\ IsSettled(tab.settled) /\ KnownTo(tab.settled, 0)
    /\ tab.delivered \subseteq told /\ told \subseteq Shown

SnapInv ==
    /\ IsSettled(snap.settled)
    /\ snap.roster \subseteq Shown
    /\ snap.stage = "read" => \A s \in Shown : s =< snap.settled => s \in snap.roster

(* What the tab forgets it never hears again.  Reached: it has come as far as *)
(* p, or does so with the first n frames.                                     *)
Reached(p, n) ==
    p =< tab.last \/ \E j \in 1..n : wire[j].kind = "event" /\ p =< wire[j].seq

SaidInv ==
    stream.stage # "none" =>
        /\ stream.said =< stream.settledHere /\ stream.said =< stream.high
        /\ tab.settled =< stream.said \/ tab.settled =< stream.after + Overlap
        /\ stream.stage = "paging" => stream.said =< stream.from + Overlap
        /\ Reached(stream.high, Len(wire))

LinesInv ==
    \A i \in 1..Len(wire) :
        /\ wire[i].kind = "event" =>
              /\ tab.settled < wire[i].seq + Overlap
              /\ \A j \in 1..(i - 1) :
                    wire[j].kind = "settled" => wire[j].seq < wire[i].seq + Overlap
        /\ wire[i].kind = "settled" => wire[i].seq =< stream.said /\ Reached(wire[i].seq, i - 1)

HeardInv ==
    /\ tab.settled =< tab.last
    /\ \A s \in tab.delivered : s =< tab.last
    /\ \A s \in heard : tab.settled < s + Overlap => s \in tab.delivered
    /\ tab.stage = "boot" => heard = {} 

SentInv == CursorInv /\ StreamInv /\ WireInv /\ TabInv /\ SnapInv
OnceInv == SaidInv /\ LinesInv /\ HeardInv

-----------------------------------------------------------------------------
(* Lemmas about the operators. *)

(* A set of numbers that is not empty has a least one; bounded, a greatest. *)
LEMMA Least ==
    ASSUME NEW S \in SUBSET Nat, S # {}
    PROVE  \E m \in S : \A s \in S : m =< s
<1> DEFINE R == OpToRel(<, Nat)
<1>1. IsWellFoundedOn(R, Nat)
  BY NatLessThanWellFounded
<1>2. \E m \in S : \A s \in S : <<s, m>> \notin R
  <2> HIDE DEF R
  <2> QED BY <1>1, WFMin
<1>3. \A a, b \in Nat : <<a, b>> \in R <=> a < b
  BY DEF OpToRel
<1>4. PICK m \in S : \A s \in S : <<s, m>> \notin R
  BY <1>2
<1> HIDE DEF R
<1>5. \A s \in S : ~(s < m)
  BY <1>3, <1>4
<1>6. \A s \in S : m =< s
  BY <1>5
<1>7. QED
  BY <1>6

LEMMA Greatest ==
    ASSUME NEW S \in SUBSET Nat, S # {}, NEW n \in Nat, \A s \in S : s =< n
    PROVE  \E m \in S : \A s \in S : s =< m
<1> DEFINE T == {n - s : s \in S}
<1>1. T \in SUBSET Nat /\ T # {}
  <2>1. \A s \in S : n - s \in Nat
    OBVIOUS
  <2>2. PICK s \in S : TRUE
    OBVIOUS
  <2>3. n - s \in T
    OBVIOUS
  <2>4. QED
    BY <2>1, <2>3
<1>2. PICK t \in T : \A u \in T : t =< u
  <2> HIDE DEF T
  <2> QED BY <1>1, Least
<1>3. PICK m \in S : t = n - m
  BY <1>2
<1>4. \A s \in S : n - m =< n - s
  BY <1>2, <1>3
<1>5. QED
  BY <1>4

(* Newest is the greatest of the numbers in a bounded set. *)
LEMMA NewestIs ==
    ASSUME NEW S \in SUBSET Nat, NEW n \in Nat, \A s \in S : s =< n
    PROVE  /\ Newest(S) \in Nat /\ Newest(S) =< n
           /\ S # {} => Newest(S) \in S
           /\ \A s \in S : s =< Newest(S)
<1>1. CASE S = {}
  BY <1>1 DEF Newest
<1>2. CASE S # {}
  <2>1. \E m \in S : \A s \in S : s =< m
    BY <1>2, Greatest
  <2>2. Newest(S) \in S /\ \A s \in S : s =< Newest(S)
    BY <1>2, <2>1 DEF Newest
  <2>3. QED
    BY <2>2
<1>3. QED
  BY <1>1, <1>2

(* Of a finite set of numbers, how many lie at or below each is its place in *)
(* the set's order: InOrder holds each of the set's events, and no other.    *)
LEMMA InOrderIs ==
    ASSUME NEW S \in SUBSET Nat, IsFiniteSet(S)
    PROVE  /\ InOrder(S) \in Seq(Frame)
           /\ \A i \in 1..Len(InOrder(S)) : \E s \in S : InOrder(S)[i] = Event(s)
           /\ \A s \in S : \E i \in 1..Len(InOrder(S)) : InOrder(S)[i] = Event(s)
<1> DEFINE n == Cardinality(S)
           Below(s) == {o \in S : o =< s}
           rank == [s \in S |-> Cardinality(Below(s))]
<1>1. n \in Nat /\ IsFiniteSet(1..n) /\ Cardinality(1..n) = n
  <2>1. n \in Nat
    BY FS_CardinalityType
  <2>2. QED
    BY <2>1, FS_Interval
<1>2. \A s \in S : IsFiniteSet(Below(s)) /\ rank[s] \in 1..n
  <2> TAKE s \in S
  <2>1. IsFiniteSet(Below(s)) /\ Cardinality(Below(s)) =< n
    BY FS_Subset
  <2>2. Cardinality(Below(s)) \in Nat /\ Cardinality(Below(s)) # 0
    <3>1. s \in Below(s)
      OBVIOUS
    <3>2. QED
      BY <2>1, <3>1, FS_CardinalityType, FS_EmptySet
  <2>3. QED
    BY <1>1, <2>1, <2>2
<1>3. \A s, t \in S : s < t => rank[s] # rank[t]
  <2> TAKE s, t \in S
  <2> HAVE s < t
  <2>1. Below(s) \in SUBSET Below(t) /\ t \in Below(t) /\ t \notin Below(s)
    <3>1. \A o \in S : o =< s => o =< t
      OBVIOUS
    <3>2. t =< t /\ ~(t =< s)
      OBVIOUS
    <3>3. QED
      BY <3>1, <3>2
  <2>2. Cardinality(Below(s)) # Cardinality(Below(t))
    BY <1>2, <2>1, FS_Subset
  <2>3. QED
    BY <2>2
<1>4. \A s, t \in S : rank[s] = rank[t] => s = t
  BY <1>3
<1> HIDE DEF n
<1>5. rank \in Injection(S, 1..n)
  BY <1>2, <1>4 DEF Injection, IsInjective
<1>6. rank \in Surjection(S, 1..n)
  BY <1>1, <1>5, FS_Injection DEF n
<1>7. \A i \in 1..n : \E s \in S : rank[s] = i
  BY <1>6 DEF Surjection
<1> DEFINE at(i) == CHOOSE s \in S : Cardinality({o \in S : o =< s}) = i
<1>8. \A i \in 1..n : at(i) \in S /\ rank[at(i)] = i
  BY <1>7
<1>9. \A s \in S : at(rank[s]) = s
  BY <1>2, <1>4, <1>8
<1>10. InOrder(S) = [i \in 1..n |-> Event(at(i))]
  BY DEF InOrder, n
<1> HIDE DEF at, rank
<1>11. \A i \in 1..n : Event(at(i)) \in Frame
  BY <1>8 DEF Event, Frame
<1>12. InOrder(S) \in Seq(Frame) /\ Len(InOrder(S)) = n
  BY <1>1, <1>10, <1>11
<1>13. \A i \in 1..n : InOrder(S)[i] = Event(at(i)) /\ at(i) \in S
  BY <1>8, <1>10
<1>14. \A s \in S : rank[s] \in 1..n /\ InOrder(S)[rank[s]] = Event(s)
  BY <1>2, <1>9, <1>10
<1>15. QED
  BY <1>12, <1>13, <1>14

(* The table: what shows is of rows given out, and written by an ended write. *)
LEMMA TableFacts ==
    ASSUME TableOK
    PROVE  /\ Len(rows) \in Nat /\ Seqs = 1..Len(rows)
           /\ Shown \in SUBSET Nat /\ Shown \in SUBSET (1..Len(rows)) /\ IsFiniteSet(Shown)
           /\ \A s \in Shown : rows[s].by \notin Writers
           /\ \A s \in Seqs : rows[s] \in Row /\ rows[s].by \in DOMAIN writes
<1>1. Len(rows) \in Nat /\ Seqs = 1..Len(rows)
  BY DEF TableOK, Seqs
<1>2. Shown \in SUBSET (1..Len(rows))
  BY <1>1 DEF Shown
<1>3. IsFiniteSet(Shown)
  <2>1. IsFiniteSet(1..Len(rows))
    BY <1>1, FS_Interval
  <2>2. QED
    BY <1>2, <2>1, FS_Subset
<1>4. \A s \in Shown : rows[s].by \notin Writers
  BY DEF Shown, Writers
<1>5. \A s \in Seqs : rows[s] \in Row /\ rows[s].by \in DOMAIN writes
  BY <1>1 DEF TableOK
<1>6. QED
  BY <1>1, <1>2, <1>3, <1>4, <1>5

(* A page holds all that shows between where it starts and its last event, *)
(* and a short one all that shows past where it starts.                    *)
LEMMA PagesAre ==
    ASSUME TableOK, NEW after \in Nat
    PROVE  /\ Pages(after) \in SUBSET Nat /\ Pages(after) \subseteq Shown
           /\ IsFiniteSet(Pages(after))
           /\ \A s \in Pages(after) : after < s
           /\ \A m \in Pages(after), s \in Shown : after < s /\ s =< m => s \in Pages(after)
           /\ Cardinality(Pages(after)) < Page => \A s \in Shown : after < s => s \in Pages(after)
<1> DEFINE Upto(m) == {o \in Shown : o > after /\ o =< m}
<1>1. Shown \in SUBSET Nat /\ IsFiniteSet(Shown)
  BY TableFacts
<1>2. /\ Pages(after) \in SUBSET Nat /\ Pages(after) \subseteq Shown
      /\ \A s \in Pages(after) : after < s
  BY <1>1 DEF Pages
<1>3. IsFiniteSet(Pages(after))
  BY <1>1, <1>2, FS_Subset
<1>4. \A m \in Nat : IsFiniteSet(Upto(m)) /\ Cardinality(Upto(m)) \in Nat
  <2> TAKE m \in Nat
  <2>1. Upto(m) \in SUBSET Shown
    OBVIOUS
  <2>2. QED
    BY <1>1, <2>1, FS_Subset, FS_CardinalityType
<1>5. \A s \in Shown : after < s => (s \in Pages(after) <=> Cardinality(Upto(s)) =< Page)
  BY <1>1 DEF Pages
<1>6. ASSUME NEW m \in Pages(after), NEW s \in Shown, after < s, s =< m
      PROVE  s \in Pages(after)
  <2>1. m \in Nat /\ s \in Nat /\ Page \in Nat
    BY <1>1, <1>2, FeedAssumption
  <2>2. Upto(s) \in SUBSET Upto(m)
    <3>1. \A o \in Shown : o =< s => o =< m
      BY <1>1, <1>6, <2>1
    <3>2. QED
      BY <3>1
  <2>3. Cardinality(Upto(s)) =< Cardinality(Upto(m))
    BY <1>4, <2>1, <2>2, FS_Subset
  <2>4. Cardinality(Upto(m)) =< Page
    BY <1>2, <1>5
  <2>5. QED
    BY <1>4, <1>5, <1>6, <2>1, <2>3, <2>4
<1>7. ASSUME Cardinality(Pages(after)) < Page, NEW s \in Shown, after < s, s \notin Pages(after)
      PROVE  FALSE
  <2> DEFINE Missing == {o \in Shown : after < o /\ o \notin Pages(after)}
  <2>1. Missing \in SUBSET Nat /\ Missing # {}
    BY <1>1, <1>7
  <2>2. PICK m \in Missing : \A o \in Missing : m =< o
    <3> HIDE DEF Missing
    <3> QED BY <2>1, Least
  <2>3. m \in Shown /\ m \in Nat /\ after < m /\ m \notin Pages(after) /\ Page \in Nat
    BY <2>1, <2>2, FeedAssumption
  <2>4. Upto(m) \in SUBSET (Pages(after) \cup {m})
    <3>1. \A o \in Upto(m) : o \in Missing => o = m
      BY <1>1, <2>2, <2>3
    <3>2. QED
      BY <3>1
  <2>5. /\ IsFiniteSet(Pages(after) \cup {m})
        /\ Cardinality(Pages(after) \cup {m}) = Cardinality(Pages(after)) + 1
    BY <1>3, <2>3, FS_AddElement
  <2>6. Cardinality(Upto(m)) =< Cardinality(Pages(after)) + 1
    BY <2>4, <2>5, FS_Subset
  <2>7. Cardinality(Pages(after)) \in Nat /\ Cardinality(Upto(m)) \in Nat
    BY <1>3, <1>4, <2>3, FS_CardinalityType
  <2>8. Cardinality(Upto(m)) =< Page
    BY <1>7, <2>3, <2>6, <2>7
  <2>9. QED
    BY <1>5, <2>3, <2>8
<1>8. QED
  BY <1>2, <1>3, <1>6, <1>7

(* What a step does to the table: writes go from open to ended, rows are     *)
(* added, and of the rows at or below a settled point nothing changes.       *)
Grows ==
    /\ TableOK' /\ Len(rows) =< Len(rows)'
    /\ Shown \subseteq Shown'
    /\ \A p \in Nat : IsSettled(p) =>
          IsSettled(p)' /\ \A s \in Shown' : s =< p => s \in Shown
    /\ \A w \in Wait : WaitsFor(w) => WaitsFor(w)'

LEMMA StillGrows ==
    ASSUME TableOK, UNCHANGED table
    PROVE  Grows /\ Shown' = Shown
BY DEF Grows, TableOK, Shown, InLesson, IsSettled, Closed, WaitsFor, Seqs, Writers, table

(* Rows kept, no write opened among theirs, and none of them newly shown      *)
(* unless its write was open.                                                 *)
LEMMA TableGrows ==
    ASSUME TableOK, TableOK', Len(rows) =< Len(rows)',
           \A s \in Seqs : rows'[s] = rows[s],
           \A s \in Seqs : rows[s].by \notin Writers =>
              rows[s].by \notin Writers' /\ writes'[rows[s].by] = writes[rows[s].by],
           \A s \in Seqs' \ Seqs : s \notin Shown'
    PROVE  Grows
<1>1. /\ Len(rows) \in Nat /\ Seqs = 1..Len(rows)
      /\ Shown \in SUBSET (1..Len(rows))
      /\ \A s \in Shown : rows[s].by \notin Writers
      /\ \A s \in Seqs : rows[s] \in Row
  BY TableFacts
<1>2. Len(rows)' \in Nat /\ Seqs' = 1..Len(rows)'
  BY DEF TableOK, Seqs
<1>3. Seqs \subseteq Seqs'
  BY <1>1, <1>2
<1>4. Shown \subseteq Shown'
  <2> SUFFICES ASSUME NEW s \in Shown PROVE s \in Shown'
    OBVIOUS
  <2>1. s \in Seqs /\ s \in Seqs' /\ rows[s].by \notin Writers
    BY <1>1, <1>3
  <2>2. rows'[s] = rows[s] /\ writes'[rows[s].by] = writes[rows[s].by]
    BY <2>1
  <2>3. QED
    BY <2>1, <2>2 DEF Shown, InLesson
<1>5. ASSUME NEW p \in Nat, IsSettled(p)
      PROVE  IsSettled(p)' /\ \A s \in Shown' : s =< p => s \in Shown
  <2>1. p =< Len(rows) /\ p =< Len(rows)' /\ \A s \in Seqs : s =< p => rows[s].by \notin Writers
    BY <1>1, <1>2, <1>5 DEF IsSettled, Closed
  <2>2. \A s \in Seqs' : s =< p => s \in Seqs
    BY <1>1, <1>2, <2>1
  <2>3. IsSettled(p)'
    BY <2>1, <2>2 DEF IsSettled, Closed
  <2>4. ASSUME NEW s \in Shown', s =< p PROVE s \in Shown
    <3>1. s \in Seqs /\ rows[s].by \notin Writers
      BY <2>1, <2>2, <2>4 DEF Shown
    <3>2. rows'[s] = rows[s] /\ writes'[rows[s].by] = writes[rows[s].by]
      BY <3>1
    <3>3. QED
      BY <3>1, <3>2 DEF Shown, InLesson
  <2>5. QED
    BY <2>3, <2>4
<1>6. ASSUME NEW w \in Wait, WaitsFor(w)
      PROVE  WaitsFor(w)'
  <2>1. w.seq \in Nat /\ w.seq =< Len(rows)
    BY <1>6 DEF WaitsFor, Wait
  <2>2. w.seq =< Len(rows)' /\ \A s \in Seqs' : s =< w.seq => s \in Seqs
    BY <1>1, <1>2, <2>1
  <2>3. QED
    BY <1>6, <2>2 DEF WaitsFor
<1>7. QED
  BY <1>4, <1>5, <1>6 DEF Grows

LEMMA WriteGrows ==
    ASSUME TableOK, Write
    PROVE  Grows
<1> USE DEF TableOK
<1>0. /\ Len(rows) \in Nat /\ Seqs = 1..Len(rows)
      /\ \A s \in Seqs : rows[s] \in Row /\ rows[s].by \in DOMAIN writes
  BY TableFacts
<1>1. CASE OpenWrite
  <2>1. /\ rows' = rows /\ writes' = Append(writes, "open")
        /\ writes' \in Seq({"open", "committed", "rolled_back"})
    BY <1>1 DEF OpenWrite
  <2>2. \A t \in DOMAIN writes : t \in DOMAIN writes' /\ writes'[t] = writes[t]
    BY <2>1
  <2>3. TableOK'
    BY <2>1, <2>2 DEF Seqs
  <2>4. \A s \in Seqs : rows[s].by \notin Writers =>
           rows[s].by \notin Writers' /\ writes'[rows[s].by] = writes[rows[s].by]
    BY <1>0, <2>2 DEF Writers
  <2>5. Seqs' = Seqs
    BY <2>1 DEF Seqs
  <2> HIDE DEF TableOK
  <2>6. QED
    BY <1>0, <2>1, <2>3, <2>4, <2>5, TableGrows
<1>2. ASSUME NEW t \in 1..MaxWrites, NEW kind \in Kinds, Insert(t, kind)
      PROVE  Grows
  <2> DEFINE row == [by |-> t, kind |-> kind]
  <2>1. /\ rows' = Append(rows, row) /\ writes' = writes /\ row \in Row
        /\ t \in Writers /\ Len(rows) < MaxRows /\ MaxRows \in Nat
    BY <1>2, FeedAssumption DEF Insert, Row
  <2>2. /\ rows' \in Seq(Row) /\ Len(rows') = Len(rows) + 1
        /\ \A s \in 1..Len(rows) : rows'[s] = rows[s]
        /\ rows'[Len(rows) + 1] = row
    BY <2>1
  <2>3. Writers' = Writers
    BY <2>1 DEF Writers
  <2>4. Seqs' = 1..(Len(rows) + 1)
    BY <2>2 DEF Seqs
  <2>5. TableOK'
    <3>1. \A s \in Seqs' : rows'[s].by \in DOMAIN writes'
      BY <1>0, <2>1, <2>2, <2>4 DEF Writers
    <3>2. Len(rows') =< MaxRows
      BY <1>0, <2>1, <2>2
    <3>3. QED
      BY <2>1, <2>2, <3>1, <3>2
  <2>6. \A s \in Seqs' \ Seqs : s \notin Shown'
    <3>1. \A s \in Seqs' \ Seqs : s = Len(rows) + 1
      BY <1>0, <2>4
    <3>2. Len(rows) + 1 \notin Shown'
      BY <2>1, <2>2 DEF Shown, Writers
    <3>3. QED
      BY <3>1, <3>2
  <2> HIDE DEF TableOK
  <2>7. QED
    BY <1>0, <2>1, <2>2, <2>3, <2>5, <2>6, TableGrows
<1>3. QED
  BY <1>1, <1>2 DEF Write

LEMMA CloseGrows ==
    ASSUME TableOK, Close
    PROVE  Grows
<1>0. /\ Len(rows) \in Nat /\ Seqs = 1..Len(rows)
      /\ \A s \in Seqs : rows[s] \in Row /\ rows[s].by \in DOMAIN writes
  BY TableFacts
<1>1. PICK t \in Writers, end \in {"committed", "rolled_back"} :
         rows' = rows /\ writes' = [writes EXCEPT ![t] = end]
  BY DEF Close, CloseWrite
<1>2. /\ writes' \in Seq({"open", "committed", "rolled_back"})
      /\ DOMAIN writes' = DOMAIN writes
      /\ \A o \in DOMAIN writes : o # t => writes'[o] = writes[o]
      /\ writes'[t] = end
  BY <1>1 DEF TableOK, Writers
<1>3. TableOK'
  BY <1>1, <1>2 DEF TableOK, Seqs
<1>4. \A s \in Seqs : rows[s].by \notin Writers =>
         rows[s].by \notin Writers' /\ writes'[rows[s].by] = writes[rows[s].by]
  BY <1>0, <1>1, <1>2 DEF Writers
<1>5. Seqs' = Seqs
  BY <1>1 DEF Seqs
<1>6. QED
  BY <1>0, <1>1, <1>3, <1>4, <1>5, TableGrows

-----------------------------------------------------------------------------
(* What a look and a read do. *)

(* A look leaves a settled point that was one, or that one of the waiting     *)
(* seqs became, with none of its writers writing; what waits after it waited  *)
(* before, or is the seq it read with the writers it found.                   *)
LEMMA LookedIs ==
    ASSUME FeedTypeOK, cursor.looking # NotLooking, NEW W \in SUBSET Nat
    PROVE  LET next == [seq |-> cursor.looking, writers |-> W]
               was(w) == w = next \/ \E j \in 1..Len(cursor.waiting) : w = cursor.waiting[j]
           IN /\ Looked(cursor, W) \in
                   [settled : Nat, waiting : Seq(Wait), looking : {NotLooking}]
              /\ \A i \in 1..Len(Looked(cursor, W).waiting) : was(Looked(cursor, W).waiting[i])
              /\ \/ Looked(cursor, W).settled = cursor.settled
                 \/ \E w \in Wait : /\ was(w) /\ w.writers \cap W = {}
                                    /\ Looked(cursor, W).settled = w.seq
<1> DEFINE next == [seq |-> cursor.looking, writers |-> W]
           was(w) == w = next \/ \E j \in 1..Len(cursor.waiting) : w = cursor.waiting[j]
           waiting == Awaits(cursor, W)
           done == Newest(Done(waiting, W))
<1>1. /\ cursor.settled \in Nat /\ cursor.waiting \in Seq(Wait) /\ cursor.looking \in Nat
      /\ Kept \in Nat \ {0} /\ next \in Wait
  BY FeedAssumption DEF FeedTypeOK, Wait
<1>2. waiting \in Seq(Wait) /\ \A i \in 1..Len(waiting) : waiting[i] \in Wait /\ was(waiting[i])
  <2>1. CASE cursor.looking =< TopWaiting(cursor)
    BY <1>1, <2>1 DEF Awaits
  <2>2. CASE ~(cursor.looking =< TopWaiting(cursor)) /\ Len(cursor.waiting) < Kept
    <3>1. waiting = Append(cursor.waiting, next)
      BY <2>2 DEF Awaits
    <3>2. /\ waiting \in Seq(Wait) /\ Len(waiting) = Len(cursor.waiting) + 1
          /\ \A i \in 1..Len(cursor.waiting) : waiting[i] = cursor.waiting[i]
          /\ waiting[Len(cursor.waiting) + 1] = next
      <4> HIDE DEF next
      <4> QED BY <1>1, <3>1, AppendProperties
    <3>3. \A i \in 1..Len(waiting) : was(waiting[i])
      BY <1>1, <3>2
    <3>4. \A i \in 1..Len(waiting) : waiting[i] \in Wait
      BY <3>2
    <3>5. QED
      BY <3>2, <3>3, <3>4
  <2>3. CASE ~(cursor.looking =< TopWaiting(cursor)) /\ ~(Len(cursor.waiting) < Kept)
    <3>1. waiting = [cursor.waiting EXCEPT ![Len(cursor.waiting)] = next]
      BY <2>3 DEF Awaits
    <3>2. Len(cursor.waiting) \in 1..Len(cursor.waiting)
      BY <1>1, <2>3
    <3>3. /\ waiting \in Seq(Wait) /\ Len(waiting) = Len(cursor.waiting)
          /\ \A i \in 1..Len(cursor.waiting) :
                waiting[i] = IF i = Len(cursor.waiting) THEN next ELSE cursor.waiting[i]
      <4> HIDE DEF next
      <4> QED BY <1>1, <3>1, <3>2, ExceptSeq
    <3>4. \A i \in 1..Len(waiting) : was(waiting[i])
      BY <1>1, <3>3
    <3>5. \A i \in 1..Len(waiting) : waiting[i] \in Wait
      BY <3>3
    <3>6. QED
      BY <3>3, <3>4, <3>5
  <2>4. QED
    BY <2>1, <2>2, <2>3
<1> HIDE DEF waiting, next
<1>3. /\ done \in 0..Len(waiting)
      /\ done # 0 => waiting[done].writers \cap W = {}
  <2>1. Done(waiting, W) \in SUBSET Nat /\ \A k \in Done(waiting, W) : k =< Len(waiting)
    BY <1>2 DEF Done
  <2>2. done \in Nat /\ done =< Len(waiting)
    BY <1>2, <2>1, NewestIs
  <2>3. done # 0 => done \in Done(waiting, W)
    BY <1>2, <2>1, NewestIs DEF Newest
  <2>4. done # 0 => \A i \in 1..done : waiting[i].writers \cap W = {}
    BY <2>3 DEF Done
  <2>5. QED
    BY <1>2, <2>2, <2>4
<1> HIDE DEF done
<1>4. Looked(cursor, W) =
         [settled |-> IF done = 0 THEN cursor.settled
                      ELSE Larger(cursor.settled, waiting[done].seq),
          waiting |-> SubSeq(waiting, done + 1, Len(waiting)), looking |-> NotLooking]
  BY DEF Looked, waiting, done
<1>5. /\ SubSeq(waiting, done + 1, Len(waiting)) \in Seq(Wait)
      /\ \A i \in 1..Len(SubSeq(waiting, done + 1, Len(waiting))) :
            was(SubSeq(waiting, done + 1, Len(waiting))[i])
  <2>1. done \in Nat /\ done =< Len(waiting) /\ Len(waiting) \in Nat
    BY <1>2, <1>3
  <2>2. \A i \in (done + 1)..Len(waiting) : waiting[i] \in Wait
    BY <1>2, <2>1
  <2>3. /\ SubSeq(waiting, done + 1, Len(waiting)) \in Seq(Wait)
        /\ Len(SubSeq(waiting, done + 1, Len(waiting))) =
              IF done + 1 =< Len(waiting) THEN Len(waiting) - (done + 1) + 1 ELSE 0
        /\ \A i \in 1..(Len(waiting) - (done + 1) + 1) :
              SubSeq(waiting, done + 1, Len(waiting))[i] = waiting[done + 1 + i - 1]
    BY <2>1, <2>2, SubSeqProperties
  <2> HIDE DEF was
  <2>4. QED
    BY <1>2, <2>1, <2>3
<1>6. CASE done = 0
  BY <1>1, <1>4, <1>5, <1>6 DEF next
<1>7. CASE done # 0
  <2>1. waiting[done] \in Wait /\ was(waiting[done]) /\ waiting[done].writers \cap W = {}
    BY <1>2, <1>3, <1>7
  <2>2. waiting[done].seq \in Nat
    BY <2>1 DEF Wait
  <2>3. \/ Larger(cursor.settled, waiting[done].seq) = cursor.settled
        \/ Larger(cursor.settled, waiting[done].seq) = waiting[done].seq
    BY DEF Larger
  <2>4. /\ Looked(cursor, W).settled \in Nat
        /\ \/ Looked(cursor, W).settled = cursor.settled
           \/ Looked(cursor, W).settled = waiting[done].seq
    BY <1>1, <1>4, <1>7, <2>2, <2>3
  <2>5. \/ Looked(cursor, W).settled = cursor.settled
        \/ \E w \in Wait : /\ was(w) /\ w.writers \cap W = {}
                           /\ Looked(cursor, W).settled = w.seq
    BY <2>1, <2>4
  <2>6. /\ Looked(cursor, W).waiting = SubSeq(waiting, done + 1, Len(waiting))
        /\ Looked(cursor, W) \in [settled : Nat, waiting : Seq(Wait), looking : {NotLooking}]
    <3> DEFINE reached == IF done = 0 THEN cursor.settled
                          ELSE Larger(cursor.settled, waiting[done].seq)
               left == SubSeq(waiting, done + 1, Len(waiting))
    <3>1. ASSUME NEW s \in Nat, NEW w \in Seq(Wait), NEW x,
                 x = [settled |-> s, waiting |-> w, looking |-> NotLooking]
          PROVE  /\ x.waiting = w
                 /\ x \in [settled : Nat, waiting : Seq(Wait), looking : {NotLooking}]
      BY <3>1
    <3>2. left \in Seq(Wait)
      BY <1>5
    <3>3. reached \in Nat
      BY <1>1, <2>2, <2>3
    <3>4. Looked(cursor, W) = [settled |-> reached, waiting |-> left, looking |-> NotLooking]
      BY <1>4, Zenon
    <3> HIDE DEF reached, left
    <3>5. Looked(cursor, W).waiting = left
      BY <3>1, <3>2, <3>3, <3>4, Zenon
    <3>6. Looked(cursor, W) \in [settled : Nat, waiting : Seq(Wait), looking : {NotLooking}]
      BY <3>1, <3>2, <3>3, <3>4, Zenon
    <3>7. QED
      BY <3>5, <3>6 DEF left
  <2>7. \A i \in 1..Len(Looked(cursor, W).waiting) : was(Looked(cursor, W).waiting[i])
    <3> HIDE DEF was
    <3> QED BY <1>5, <2>6
  <2>8. QED
    BY <2>5, <2>6, <2>7 DEF next
<1>8. QED
  BY <1>6, <1>7

(* What a read has in hand: its page, what of it is new to the client, and    *)
(* how far the read and what was sent have come.                              *)
PageNow == Pages(stream.from)
NewNow == {s \in PageNow : s > stream.after} \ stream.delivered
FromNow == Newest({stream.from} \cup PageNow)
HighNow == Newest({stream.high} \cup NewNow)
SettledNow == Larger(stream.settledHere, stream.settling)
PointNow == Smaller(SettledNow, HighNow)

LEMMA PageFacts ==
    ASSUME FeedTypeOK
    PROVE  /\ PageNow \in SUBSET Nat /\ NewNow \in SUBSET Nat
           /\ PageNow \subseteq Shown /\ NewNow \subseteq PageNow /\ IsFiniteSet(NewNow)
           /\ \A s \in NewNow : s > stream.after /\ s > stream.from
           /\ FromNow \in Nat /\ stream.from =< FromNow
           /\ FromNow = stream.from \/ FromNow \in PageNow
           /\ HighNow \in Nat /\ stream.high =< HighNow /\ \A s \in NewNow : s =< HighNow
           /\ HighNow = stream.high \/ HighNow \in NewNow
           /\ SettledNow \in Nat /\ PointNow \in Nat
<1>1. /\ TableOK /\ stream.from \in Nat /\ stream.high \in Nat /\ stream.after \in Nat
      /\ stream.settledHere \in Nat /\ stream.settling \in Nat
  BY DEF FeedTypeOK
<1>2. /\ PageNow \in SUBSET Nat /\ PageNow \subseteq Shown /\ IsFiniteSet(PageNow)
      /\ \A s \in PageNow : s > stream.from
  BY <1>1, PagesAre DEF PageNow
<1>3. NewNow \in SUBSET PageNow /\ \A s \in NewNow : s > stream.after
  BY DEF NewNow
<1>4. IsFiniteSet(NewNow)
  BY <1>2, <1>3, FS_Subset
<1>5. Len(rows) \in Nat /\ Shown \in SUBSET (1..Len(rows))
  BY <1>1, TableFacts
<1>6. \A S \in SUBSET PageNow, a \in Nat :
         /\ Newest({a} \cup S) \in Nat /\ \A s \in {a} \cup S : s =< Newest({a} \cup S)
         /\ Newest({a} \cup S) \in {a} \cup S
  <2> TAKE S \in SUBSET PageNow, a \in Nat
  <2>1. {a} \cup S \in SUBSET Nat /\ {a} \cup S # {} /\ Len(rows) + a \in Nat
    BY <1>2, <1>5
  <2>2. \A s \in {a} \cup S : s =< Len(rows) + a
    BY <1>2, <1>5
  <2>3. QED
    BY <2>1, <2>2, NewestIs
<1>7. FromNow \in Nat /\ FromNow \in {stream.from} \cup PageNow /\ stream.from =< FromNow
  BY <1>1, <1>6 DEF FromNow
<1>8. /\ HighNow \in Nat /\ HighNow \in {stream.high} \cup NewNow /\ stream.high =< HighNow
      /\ \A s \in NewNow : s =< HighNow
  BY <1>1, <1>3, <1>6 DEF HighNow
<1>9. SettledNow \in Nat /\ PointNow \in Nat
  BY <1>1, <1>8 DEF SettledNow, PointNow, Larger, Smaller
<1>10. QED
  BY <1>2, <1>3, <1>4, <1>7, <1>8, <1>9

(* The frames a read writes: after what was on the wire the new events, and  *)
(* after a short page, where it is past what was said, the settled point.    *)
Sends(m) ==
    /\ m >= Len(wire) /\ wire' \in Seq(Frame)
    /\ \A i \in 1..Len(wire) : wire'[i] = wire[i]
    /\ \A i \in (Len(wire) + 1)..m : \E s \in NewNow : wire'[i] = Event(s)
    /\ \A s \in NewNow : \E i \in (Len(wire) + 1)..m : wire'[i] = Event(s)
    /\ \/ Len(wire') = m
       \/ /\ Cardinality(PageNow) < Page /\ Len(wire') = m + 1
          /\ wire'[m + 1] = SettledLine(PointNow) /\ PointNow > stream.said

LEMMA ReadSends ==
    ASSUME FeedTypeOK, ReadPage
    PROVE  \E m \in Nat : Sends(m)
<1> DEFINE out == InOrder(NewNow)
           m == Len(wire) + Len(out)
           line == IF ~(Cardinality(PageNow) >= Page) /\ PointNow > stream.said
                   THEN <<SettledLine(PointNow)>> ELSE <<>>
<1>1. wire' = wire \o out \o line
  BY DEF ReadPage, PageNow, NewNow, FromNow, HighNow, SettledNow, PointNow
<1>2. /\ out \in Seq(Frame) /\ \A i \in 1..Len(out) : \E s \in NewNow : out[i] = Event(s)
      /\ \A s \in NewNow : \E i \in 1..Len(out) : out[i] = Event(s)
  BY PageFacts, InOrderIs
<1>3. wire \in Seq(Frame) /\ SettledLine(PointNow) \in Frame
  BY PageFacts DEF FeedTypeOK, SettledLine, Frame
<1>4. Page \in Nat /\ Cardinality(PageNow) \in Nat
  <2>1. IsFiniteSet(PageNow)
    BY PagesAre DEF FeedTypeOK, PageNow
  <2>2. QED
    BY <2>1, FS_CardinalityType, FeedAssumption
<1> HIDE DEF out
<1>5. /\ wire \o out \in Seq(Frame) /\ Len(wire \o out) = m /\ m \in Nat
      /\ Len(wire) \in Nat /\ Len(out) \in Nat
      /\ \A i \in 1..m : (wire \o out)[i] = IF i =< Len(wire) THEN wire[i]
                                             ELSE out[i - Len(wire)]
  BY <1>2, <1>3, ConcatProperties
<1>6. CASE line = <<>>
  <2>1. wire' = wire \o out
    BY <1>1, <1>5, <1>6
  <2>2. \A i \in 1..Len(wire) : wire'[i] = wire[i]
    BY <1>5, <2>1
  <2>3. \A i \in (Len(wire) + 1)..m : i - Len(wire) \in 1..Len(out) /\ wire'[i] = out[i - Len(wire)]
    BY <1>5, <2>1
  <2>4. \A i \in 1..Len(out) :
           Len(wire) + i \in (Len(wire) + 1)..m /\ wire'[Len(wire) + i] = out[i]
    BY <1>5, <2>1
  <2>5. \A i \in (Len(wire) + 1)..m : \E s \in NewNow : wire'[i] = Event(s)
    BY <1>2, <2>3
  <2>6. \A s \in NewNow : \E i \in (Len(wire) + 1)..m : wire'[i] = Event(s)
    BY <1>2, <2>4
  <2>7. m >= Len(wire) /\ wire' \in Seq(Frame) /\ Len(wire') = m
    BY <1>5, <2>1
  <2>8. Sends(m)
    BY <2>2, <2>5, <2>6, <2>7, Zenon DEF Sends
  <2>9. QED
    BY <1>5, <2>8
<1>7. CASE ~(Cardinality(PageNow) >= Page) /\ PointNow > stream.said
  <2>1. line = <<SettledLine(PointNow)>> /\ line \in Seq(Frame) /\ Len(line) = 1
    BY <1>3, <1>7
  <2>2. /\ wire' \in Seq(Frame) /\ Len(wire') = m + 1
        /\ \A i \in 1..(m + 1) : wire'[i] = IF i =< m THEN (wire \o out)[i] ELSE line[i - m]
    BY <1>1, <1>5, <2>1, ConcatProperties
  <2>3. \A i \in 1..Len(wire) : wire'[i] = wire[i]
    BY <1>5, <2>2
  <2>4. \A i \in (Len(wire) + 1)..m : i - Len(wire) \in 1..Len(out) /\ wire'[i] = out[i - Len(wire)]
    BY <1>5, <2>2
  <2>5. \A i \in 1..Len(out) :
           Len(wire) + i \in (Len(wire) + 1)..m /\ wire'[Len(wire) + i] = out[i]
    BY <1>5, <2>2
  <2>6. wire'[m + 1] = SettledLine(PointNow)
    <3>1. m \in Nat
      BY <1>5
    <3>2. wire'[m + 1] = line[1]
      BY <2>2, <3>1
    <3>3. QED
      BY <2>1, <3>2
  <2>7. \A i \in (Len(wire) + 1)..m : \E s \in NewNow : wire'[i] = Event(s)
    BY <1>2, <2>4
  <2>8. \A s \in NewNow : \E i \in (Len(wire) + 1)..m : wire'[i] = Event(s)
    BY <1>2, <2>5
  <2>9. m >= Len(wire) /\ Cardinality(PageNow) < Page /\ PointNow > stream.said
    BY <1>4, <1>5, <1>7
  <2>10. Sends(m)
    BY <2>2, <2>3, <2>6, <2>7, <2>8, <2>9, Zenon DEF Sends
  <2>11. QED
    BY <1>5, <2>10
<1>8. QED
  BY <1>6, <1>7

(* The stream after a read. *)
LEMMA ReadStream ==
    ASSUME FeedTypeOK, ReadPage
    PROVE  /\ stream.stage = "paging" /\ stream'.after = stream.after /\ stream'.high = HighNow
           /\ stream'.delivered \subseteq stream.delivered \cup NewNow
           /\ \/ /\ Cardinality(PageNow) >= Page /\ stream'.stage = "paging"
                 /\ stream'.from = FromNow /\ stream'.settling = stream.settling
                 /\ stream'.settledHere = stream.settledHere /\ stream'.said = stream.said
              \/ /\ Cardinality(PageNow) < Page /\ stream'.stage = "idle"
                 /\ stream'.from = 0 /\ stream'.settling = 0
                 /\ stream'.settledHere = SettledNow
                 /\ stream'.said = Larger(stream.said, PointNow)
<1> DEFINE sent == [stream EXCEPT !.delivered = @ \cup NewNow, !.from = FromNow, !.high = HighNow]
           past == [sent EXCEPT !.settledHere = SettledNow]
           ended == [past EXCEPT !.said = Larger(@, PointNow), !.stage = "idle",
                                 !.delivered = {s \in @ : s > Floor(past)},
                                 !.from = 0, !.settling = 0]
<1>1. /\ stream.stage = "paging"
      /\ stream' = IF Cardinality(PageNow) >= Page THEN sent ELSE ended
  BY DEF ReadPage, PageNow, NewNow, FromNow, HighNow, SettledNow, PointNow, FeedTypeOK
<1>2. Page \in Nat /\ Cardinality(PageNow) \in Nat
  <2>1. IsFiniteSet(PageNow)
    BY PagesAre DEF FeedTypeOK, PageNow
  <2>2. QED
    BY <2>1, FS_CardinalityType, FeedAssumption
<1>a. stream \in [stage : {"none", "settling", "paging", "idle"}, after : Nat, high : Nat,
                  settledHere : Nat, said : Nat, delivered : SUBSET Nat, from : Nat,
                  settling : Nat]
  BY DEF FeedTypeOK
<1>3. CASE Cardinality(PageNow) >= Page
  <2>1. stream' = sent
    BY <1>1, <1>3
  <2>2. QED
    BY <1>1, <1>a, <1>3, <2>1
<1>4. CASE ~(Cardinality(PageNow) >= Page)
  <2>1. stream' = ended /\ Cardinality(PageNow) < Page
    BY <1>1, <1>2, <1>4
  <2>2. QED
    BY <1>1, <1>a, <2>1
<1>5. QED
  BY <1>3, <1>4

-----------------------------------------------------------------------------
(* Types. *)

LEMMA InitTypes == Init => FeedTypeOK
BY FeedAssumption DEF Init, FeedTypeOK, TableOK, NoCursor, NoStream, NoTab, NoSnap, NotLooking, Seqs

(* Where a read or a subscription starts: an overlap behind a point. *)
LEMMA BehindBy ==
    ASSUME NEW p \in Nat
    PROVE  /\ Larger(0, p - Overlap) \in Nat /\ Larger(0, p - Overlap) =< p
           /\ p =< Larger(0, p - Overlap) + Overlap
BY FeedAssumption DEF Larger

LEMMA Extremes ==
    ASSUME NEW a \in Nat, NEW b \in Nat
    PROVE  /\ Larger(a, b) \in Nat /\ a =< Larger(a, b) /\ b =< Larger(a, b)
           /\ Larger(a, b) \in {a, b}
           /\ Smaller(a, b) \in Nat /\ Smaller(a, b) =< a /\ Smaller(a, b) =< b
           /\ Smaller(a, b) \in {a, b}
BY DEF Larger, Smaller

(* The frame the tab hears, and those that are left. *)
LEMMA WireHead ==
    ASSUME wire \in Seq(Frame), wire # <<>>
    PROVE  /\ Len(wire) \in Nat \ {0} /\ wire[1] \in Frame /\ wire[1].seq \in Nat
           /\ Tail(wire) \in Seq(Frame) /\ Len(Tail(wire)) = Len(wire) - 1
           /\ \A i \in 1..(Len(wire) - 1) : Tail(wire)[i] = wire[i + 1]
<1>1. Len(wire) \in Nat \ {0} /\ wire[1] \in Frame
  BY EmptySeq
<1>2. wire[1].seq \in Nat
  BY <1>1 DEF Frame
<1>3. QED
  BY <1>1, <1>2, HeadTailProperties

rest == <<cursor, stream, wire, tab, grid, snap, heard, told, faults>>

(* A step writes, or leaves the table alone. *)
LEMMA StepGrows ==
    ASSUME TableOK, [Next]_vars
    PROVE  Grows /\ (UNCHANGED table \/ UNCHANGED rest)
<1>1. CASE Write
  BY <1>1, WriteGrows DEF Write, OpenWrite, Insert, rest
<1>2. CASE Close
  BY <1>2, CloseGrows DEF Close, CloseWrite, rest
<1>3. CASE UNCHANGED table
  BY <1>3, StillGrows
<1>4. CASE Look \/ Streams \/ Client \/ Snapshot \/ Drop \/ Restart \/ UNCHANGED vars
  <2>1. UNCHANGED table
    BY <1>4 DEF Look, LookBegins, LookEnds, Streams, Wake, ReadPage, Client, Connect, HearEvent,
       HearSettled, Snapshot, AskSnapshot, ReadLatest, ReadRoster, Boots, Refreshes, Drop,
       Restart, vars, table
  <2>2. QED
    BY <2>1, <1>3
<1>5. QED
  BY <1>1, <1>2, <1>4 DEF Next

LEMMA TypesKept ==
    ASSUME FeedTypeOK, [Next]_vars
    PROVE  FeedTypeOK'
<1>0. /\ TableOK /\ TableOK' /\ Overlap \in Nat
      /\ Len(rows) \in Nat /\ Shown \in SUBSET Nat /\ Shown \in SUBSET (1..Len(rows))
  BY StepGrows, TableFacts, FeedAssumption DEF Grows, FeedTypeOK
<1>1. CASE UNCHANGED rest
  BY <1>0, <1>1 DEF rest, FeedTypeOK
<1>2. CASE LookBegins
  BY <1>0, <1>2 DEF LookBegins, FeedTypeOK
<1>3. CASE LookEnds
  <2>1. Writers \in SUBSET Nat
    BY <1>0 DEF Writers, TableOK
  <2>2. /\ cursor' = Looked(cursor, Writers)
        /\ cursor' \in [settled : Nat, waiting : Seq(Wait), looking : {NotLooking}]
    BY <1>3, <2>1, LookedIs DEF LookEnds
  <2>3. Floor(stream) \in Nat
    BY BehindBy, Extremes DEF FeedTypeOK, Floor
  <2>4. stream' \in [stage : {"none", "settling", "paging", "idle"}, after : Nat, high : Nat,
                     settledHere : Nat, said : Nat, delivered : SUBSET Nat, from : Nat,
                     settling : Nat]
    BY <1>3, <2>2, <2>3 DEF LookEnds, FeedTypeOK
  <2>5. snap' \in [stage : {"idle", "settling", "latest", "roster", "read"}, settled : Nat,
                   latest : Nat, roster : SUBSET Nat]
    BY <1>3, <2>2 DEF LookEnds, FeedTypeOK
  <2>6. QED
    BY <1>0, <1>3, <2>2, <2>4, <2>5 DEF LookEnds, FeedTypeOK
<1>4. CASE Wake
  BY <1>0, <1>4 DEF Wake, FeedTypeOK
<1>5. CASE ReadPage
  <2>1. wire' \in Seq(Frame)
    BY <1>5, ReadSends DEF Sends
  <2>2. stream' \in [stage : {"none", "settling", "paging", "idle"}, after : Nat, high : Nat,
                     settledHere : Nat, said : Nat, delivered : SUBSET Nat, from : Nat,
                     settling : Nat]
    <3> DEFINE sent == [stream EXCEPT !.delivered = @ \cup NewNow, !.from = FromNow,
                                      !.high = HighNow]
               past == [sent EXCEPT !.settledHere = SettledNow]
               ended == [past EXCEPT !.said = Larger(@, PointNow), !.stage = "idle",
                                     !.delivered = {s \in @ : s > Floor(past)},
                                     !.from = 0, !.settling = 0]
    <3>1. stream' = sent \/ stream' = ended
      BY <1>5 DEF ReadPage, PageNow, NewNow, FromNow, HighNow, SettledNow, PointNow, FeedTypeOK
    <3>2. Larger(stream.said, PointNow) \in Nat
      BY PageFacts DEF FeedTypeOK, Larger
    <3>3. sent \in [stage : {"paging"}, after : Nat, high : Nat, settledHere : Nat, said : Nat,
                    delivered : SUBSET Nat, from : Nat, settling : Nat]
      BY <1>5, PageFacts DEF FeedTypeOK, ReadPage
    <3>4. past \in [stage : {"paging"}, after : Nat, high : Nat, settledHere : Nat, said : Nat,
                    delivered : SUBSET Nat, from : Nat, settling : Nat]
      <4> HIDE DEF sent
      <4> QED BY <3>3, PageFacts
    <3>5. ended \in [stage : {"idle"}, after : Nat, high : Nat, settledHere : Nat, said : Nat,
                     delivered : SUBSET Nat, from : Nat, settling : Nat]
      <4>1. past.said = stream.said
        BY DEF FeedTypeOK
      <4> HIDE DEF past
      <4>2. QED
        BY <3>2, <3>4, <4>1
    <3> HIDE DEF sent, ended
    <3>6. QED
      BY <3>1, <3>3, <3>5
  <2>3. QED
    BY <1>0, <1>5, <2>1, <2>2 DEF ReadPage, FeedTypeOK
<1>6. CASE Connect
  <2>1. Larger(0, ResumePoint(tab) - Overlap) \in Nat
    BY BehindBy, Extremes DEF FeedTypeOK, ResumePoint
  <2>2. QED
    BY <1>0, <1>6, <2>1 DEF Connect, Subscribed, NoStream, FeedTypeOK
<1>7. CASE HearEvent
  <2>1. wire[1].seq \in Nat /\ Tail(wire) \in Seq(Frame) /\ wire' = Tail(wire)
    BY <1>7, WireHead DEF HearEvent, FeedTypeOK
  <2>2. Took(tab, wire[1].seq) \in [stage : {"boot", "down", "up"}, last : Nat, settled : Nat,
                                    delivered : SUBSET Nat]
    BY <2>1 DEF Took, FeedTypeOK, Larger
  <2>3. Larger(grid.applied, wire[1].seq) \in Nat /\ grid.shows \cup {wire[1].seq} \in SUBSET Nat
    BY <2>1 DEF FeedTypeOK, Larger
  <2>4. CASE wire[1].seq \in tab.delivered
    BY <1>0, <1>7, <2>1, <2>4 DEF HearEvent, FeedTypeOK
  <2>5. CASE wire[1].seq \notin tab.delivered
    <3>1. /\ tab' = Took(tab, wire[1].seq)
          /\ grid' = [shows |-> grid.shows \cup {wire[1].seq},
                      applied |-> Larger(grid.applied, wire[1].seq)]
          /\ heard' = heard \cup {wire[1].seq} /\ told' = told \cup {wire[1].seq}
          /\ UNCHANGED <<table, cursor, stream, snap, faults>>
      BY <1>7, <2>5 DEF HearEvent
    <3>2. QED
      BY <1>0, <2>1, <2>2, <2>3, <3>1 DEF FeedTypeOK
  <2>6. QED
    BY <2>4, <2>5
<1>8. CASE HearSettled
  <2>1. wire[1].seq \in Nat /\ Tail(wire) \in Seq(Frame)
    BY <1>8, WireHead DEF HearSettled, FeedTypeOK
  <2>2. QED
    BY <1>0, <1>8, <2>1 DEF HearSettled, FeedTypeOK, Larger
<1>9. CASE AskSnapshot
  BY <1>0, <1>9 DEF AskSnapshot, NoSnap, FeedTypeOK
<1>10. CASE ReadLatest
  <2>1. Newest(Shown) \in Nat
    BY <1>0, NewestIs
  <2>2. QED
    BY <1>0, <1>10, <2>1 DEF ReadLatest, FeedTypeOK
<1>11. CASE ReadRoster
  BY <1>0, <1>11 DEF ReadRoster, FeedTypeOK
<1>12. CASE Boots
  BY <1>0, <1>12 DEF Boots, NoTab, NoSnap, FeedTypeOK, Smaller
<1>13. CASE Refreshes
  BY <1>0, <1>13 DEF Refreshes, NoSnap, FeedTypeOK
<1>d. Down(tab) \in [stage : {"boot", "down", "up"}, last : Nat, settled : Nat,
                     delivered : SUBSET Nat]
  BY DEF Down, FeedTypeOK
<1>14. CASE Drop
  <2>1. wire' \in Seq(Frame) /\ tab' = Down(tab) /\ stream' = NoStream /\ faults' = faults + 1
    BY <1>14 DEF Drop, Fails
  <2>2. stream' \in [stage : {"none", "settling", "paging", "idle"}, after : Nat, high : Nat,
                     settledHere : Nat, said : Nat, delivered : SUBSET Nat, from : Nat,
                     settling : Nat]
    BY <2>1 DEF NoStream
  <2>3. /\ tab' \in [stage : {"boot", "down", "up"}, last : Nat, settled : Nat,
                    delivered : SUBSET Nat]
        /\ faults' \in Nat
    BY <1>d, <2>1 DEF FeedTypeOK
  <2>4. UNCHANGED <<table, cursor, grid, snap, heard, told>>
    BY <1>14 DEF Drop
  <2>5. QED
    BY <1>0, <2>1, <2>2, <2>3, <2>4 DEF FeedTypeOK
<1>15. CASE Restart
  <2>1. wire' \in Seq(Frame) /\ tab' = Down(tab) /\ stream' = NoStream /\ faults' = faults + 1
    BY <1>15 DEF Restart, Fails
  <2>2. cursor' \in [settled : Nat, waiting : Seq(Wait), looking : Nat \cup {NotLooking}]
    BY <1>15 DEF Restart, NoCursor
  <2>3. snap' = snap \/ snap' = NoSnap
    BY <1>15 DEF Restart
  <2>4. stream' \in [stage : {"none", "settling", "paging", "idle"}, after : Nat, high : Nat,
                     settledHere : Nat, said : Nat, delivered : SUBSET Nat, from : Nat,
                     settling : Nat]
    BY <2>1 DEF NoStream
  <2>5. /\ tab' \in [stage : {"boot", "down", "up"}, last : Nat, settled : Nat,
                    delivered : SUBSET Nat]
        /\ faults' \in Nat
    BY <1>d, <2>1 DEF FeedTypeOK
  <2>6. UNCHANGED <<table, grid, heard, told>>
    BY <1>15 DEF Restart
  <2>7. snap' \in [stage : {"idle", "settling", "latest", "roster", "read"}, settled : Nat,
                   latest : Nat, roster : SUBSET Nat]
    <3>1. NoSnap \in [stage : {"idle", "settling", "latest", "roster", "read"}, settled : Nat,
                      latest : Nat, roster : SUBSET Nat]
      BY DEF NoSnap
    <3>2. snap \in [stage : {"idle", "settling", "latest", "roster", "read"}, settled : Nat,
                    latest : Nat, roster : SUBSET Nat]
      BY DEF FeedTypeOK
    <3>3. QED
      BY <2>3, <3>1, <3>2
  <2>8. QED
    BY <1>0, <2>1, <2>2, <2>4, <2>5, <2>6, <2>7 DEF FeedTypeOK
<1>16. QED
  <2>1. CASE UNCHANGED vars
    BY <1>1, <2>1 DEF vars, rest
  <2>2. CASE Write \/ Close
    BY <1>1, <2>2 DEF Write, Close, OpenWrite, Insert, CloseWrite, rest
  <2>3. QED
    BY <1>2, <1>3, <1>4, <1>5, <1>6, <1>7, <1>8, <1>9, <1>10, <1>11, <1>12, <1>13, <1>14, <1>15,
       <2>1, <2>2 DEF Next, Look, Streams, Client, Snapshot

(* The types of the feed's state, at every step. *)
THEOREM FeedTypes == Spec => []FeedTypeOK
<1>1. Init => FeedTypeOK
  BY InitTypes
<1>2. FeedTypeOK /\ [Next]_vars => FeedTypeOK'
  BY TypesKept
<1>3. QED
  BY <1>1, <1>2, PTL DEF Spec

-----------------------------------------------------------------------------
(* The settled point. *)

LEMMA SettledZero == TableOK => IsSettled(0)
BY DEF TableOK, IsSettled, Closed, Seqs

(* A point at or below a settled one is settled. *)
LEMMA SettledBelow ==
    ASSUME TableOK, NEW p \in Nat, NEW q \in Nat, q =< p, IsSettled(p)
    PROVE  IsSettled(q)
BY DEF TableOK, IsSettled, Closed, Seqs

LEMMA CursorKept ==
    ASSUME FeedTypeOK, [Next]_vars, CursorInv
    PROVE  CursorInv'
<1>0. /\ TableOK /\ TableOK' /\ Grows /\ Len(rows) \in Nat /\ Len(rows)' \in Nat
      /\ Len(rows) =< Len(rows)'
      /\ cursor.settled \in Nat /\ cursor.waiting \in Seq(Wait)
      /\ cursor.looking \in Nat \cup {NotLooking}
  <2>1. TableOK
    BY DEF FeedTypeOK
  <2>2. Grows
    BY <2>1, StepGrows
  <2>3. TableOK' /\ Len(rows) =< Len(rows)'
    BY <2>2 DEF Grows
  <2>4. Len(rows) \in Nat /\ Len(rows)' \in Nat
    BY <2>1, <2>3, LenProperties DEF TableOK
  <2>5. /\ cursor.settled \in Nat /\ cursor.waiting \in Seq(Wait)
        /\ cursor.looking \in Nat \cup {NotLooking}
    BY DEF FeedTypeOK
  <2>6. QED
    BY <2>1, <2>2, <2>3, <2>4, <2>5
<1>1. \A p \in Nat : IsSettled(p) => IsSettled(p)'
  BY <1>0 DEF Grows
<1>2. \A w \in Wait : WaitsFor(w) => WaitsFor(w)'
  BY <1>0 DEF Grows
<1>3. CASE cursor' = cursor
  <2>1. \A i \in 1..Len(cursor.waiting) : cursor.waiting[i] \in Wait /\ WaitsFor(cursor.waiting[i])
    BY <1>0 DEF CursorInv
  <2>2. IsSettled(cursor.settled)'
    BY <1>0, <1>1, <1>3 DEF CursorInv
  <2>3. cursor'.looking =< Len(rows)'
    BY <1>0, <1>3 DEF CursorInv, NotLooking
  <2>4. \A i \in 1..Len(cursor'.waiting) : WaitsFor(cursor.waiting[i])'
    BY <1>2, <1>3, <2>1
  <2>5. QED
    BY <2>2, <2>3, <2>4 DEF CursorInv
<1>4. CASE LookBegins
  <2>1. UNCHANGED table /\ cursor' = [cursor EXCEPT !.looking = Len(rows)]
    BY <1>4 DEF LookBegins
  <2>2. /\ cursor'.settled = cursor.settled /\ cursor'.waiting = cursor.waiting
        /\ cursor'.looking = Len(rows)
    BY <2>1 DEF FeedTypeOK
  <2>3. QED
    BY <1>0, <1>1, <1>2, <2>1, <2>2 DEF CursorInv, table
<1>5. CASE LookEnds
  <2> DEFINE next == [seq |-> cursor.looking, writers |-> Writers]
             was(w) == w = next \/ \E j \in 1..Len(cursor.waiting) : w = cursor.waiting[j]
  <2>1. /\ UNCHANGED table /\ cursor.looking # NotLooking /\ cursor.looking \in Nat
        /\ cursor' = Looked(cursor, Writers)
    BY <1>0, <1>5 DEF LookEnds
  <2>2. Writers \in SUBSET Nat
    BY <1>0 DEF Writers, TableOK
  <2>3. /\ cursor' \in [settled : Nat, waiting : Seq(Wait), looking : {NotLooking}]
        /\ \A i \in 1..Len(cursor'.waiting) : was(cursor'.waiting[i])
        /\ \/ cursor'.settled = cursor.settled
           \/ \E w \in Wait : was(w) /\ w.writers \cap Writers = {} /\ cursor'.settled = w.seq
    BY <2>1, <2>2, LookedIs
  <2>4. next \in Wait /\ WaitsFor(next)
    BY <1>0, <2>1, <2>2 DEF WaitsFor, Wait, CursorInv
  <2>5. \A w \in Wait : was(w) => WaitsFor(w)
    BY <2>4 DEF CursorInv
  <2> HIDE DEF was, next
  <2>6. IsSettled(cursor'.settled)
    <3>1. ASSUME NEW w \in Wait, was(w), w.writers \cap Writers = {}
          PROVE  IsSettled(w.seq)
      BY <2>5, <3>1 DEF IsSettled, Closed, WaitsFor, Seqs
    <3>2. QED
      BY <2>3, <3>1 DEF CursorInv
  <2>7. \A i \in 1..Len(cursor'.waiting) : cursor'.waiting[i] \in Wait /\ WaitsFor(cursor'.waiting[i])
    BY <2>3, <2>5
  <2>8. cursor'.settled \in Nat /\ cursor'.looking =< Len(rows)'
    BY <1>0, <2>3 DEF NotLooking
  <2>9. IsSettled(cursor.settled)'
    BY <1>1, <2>6, <2>8
  <2>10. \A i \in 1..Len(cursor'.waiting) : WaitsFor(cursor.waiting[i])'
    BY <1>2, <2>7
  <2>11. QED
    BY <2>8, <2>9, <2>10 DEF CursorInv
<1>6. CASE Restart
  <2>1. cursor' = NoCursor /\ cursor'.settled = 0 /\ cursor'.waiting = <<>> /\ cursor'.looking = -1
    BY <1>6 DEF Restart, NoCursor, NotLooking
  <2>2. IsSettled(0)'
    BY <1>0, <1>1, SettledZero
  <2>3. QED
    BY <1>0, <2>1, <2>2 DEF CursorInv
<1>7. QED
  <2>1. CASE ~(LookBegins \/ LookEnds \/ Restart)
    <3>1. cursor' = cursor
      BY <2>1 DEF Next, Write, Close, Look, Streams, Client, Snapshot, OpenWrite, Insert,
         CloseWrite, Wake, ReadPage, Connect, HearEvent, HearSettled, AskSnapshot, ReadLatest,
         ReadRoster, Boots, Refreshes, Drop, vars
    <3>2. QED
      BY <1>3, <3>1
  <2>2. QED
    BY <1>4, <1>5, <1>6, <2>1

(* The settled point is sound: every write given a seq at or below it has     *)
(* ended, however many writes are open and whatever the process had no place  *)
(* left to wait on.                                                           *)
THEOREM SettledIsSound == Spec => []SettledSound
<1>1. Init => FeedTypeOK /\ CursorInv
  <2>1. Init => CursorInv
    BY InitTypes, SettledZero DEF Init, FeedTypeOK, CursorInv, NoCursor, NotLooking
  <2>2. QED
    BY <2>1, InitTypes
<1>2. FeedTypeOK /\ CursorInv /\ [Next]_vars => (FeedTypeOK /\ CursorInv)'
  BY TypesKept, CursorKept
<1>3. FeedTypeOK /\ CursorInv => SettledSound
  BY DEF CursorInv, IsSettled, Closed, SettledSound
<1>4. QED
  BY <1>1, <1>2, <1>3, PTL DEF Spec

-----------------------------------------------------------------------------
(* Nothing behind. *)

LEMMA KnownMore ==
    ASSUME NEW n \in Nat, NEW m \in Nat, n =< m, NEW s, Known(s, n)
    PROVE  Known(s, m)
BY DEF Known

LEMMA KnownToBelow ==
    ASSUME TableOK, NEW p \in Nat, NEW q \in Nat, q =< p, NEW n \in Nat, KnownTo(p, n)
    PROVE  KnownTo(q, n)
BY TableFacts DEF KnownTo

(* What is known at or below a settled point stays all there is. *)
LEMMA KnownToKept ==
    ASSUME Grows, NEW p \in Nat, IsSettled(p), NEW n \in Nat, NEW m \in Nat, KnownTo(p, n),
           \A s \in Shown : Known(s, n) => Known(s, m)'
    PROVE  KnownTo(p, m)'
BY DEF KnownTo, Grows

LEMMA KnownStill ==
    ASSUME UNCHANGED wire, told \subseteq told', NEW n \in Nat, NEW s, Known(s, n)
    PROVE  Known(s, n)'
BY DEF Known

(* Frames, and what they say, as the step leaves the wire alone. *)
LEMMA StreamStill ==
    ASSUME FeedTypeOK, Grows, StreamInv, UNCHANGED <<stream, wire>>, told \subseteq told',
           tab.stage = "up" => tab'.stage = "up"
    PROVE  StreamInv'
<1>1. CASE stream.stage = "none"
  BY <1>1 DEF StreamInv
<1>2. CASE stream.stage # "none"
  <2>1. /\ stream.settledHere \in Nat /\ stream.after \in Nat /\ stream.settling \in Nat
        /\ Smaller(stream.from, stream.settling) \in Nat
        /\ Smaller(stream.from, stream.settling) =< stream.settling
        /\ TableOK /\ Len(wire) \in Nat /\ 0 \in Nat
    <3>1. /\ stream.settledHere \in Nat /\ stream.after \in Nat /\ stream.settling \in Nat
          /\ stream.from \in Nat /\ TableOK /\ Len(wire) \in Nat
      BY DEF FeedTypeOK
    <3>2. QED
      BY <3>1, Extremes
  <2>2. \A n \in Nat, s \in Nat : Known(s, n) => Known(s, n)'
    BY KnownStill
  <2>3. Shown \in SUBSET Nat
    BY <2>1, TableFacts
  <2>4. /\ IsSettled(stream.settledHere) /\ KnownTo(stream.settledHere, Len(wire))
        /\ stream.after =< stream.settledHere /\ KnownTo(stream.after, 0)
        /\ \A s \in stream.delivered : Known(s, Len(wire))
        /\ stream.stage = "paging" => /\ IsSettled(stream.settling)
                                      /\ KnownTo(Smaller(stream.from, stream.settling), Len(wire))
    BY <1>2 DEF StreamInv
  <2>5. IsSettled(stream.after)
    BY <2>1, <2>4, SettledBelow
  <2>6. \A p \in Nat, n \in Nat : IsSettled(p) /\ KnownTo(p, n) => KnownTo(p, n)'
    BY <2>2, <2>3, KnownToKept
  <2>7. \A p \in Nat : IsSettled(p) => IsSettled(p)'
    BY DEF Grows
  <2>8. stream.stage = "paging" =>
           KnownTo(Smaller(stream.from, stream.settling), Len(wire))'
    <3>1. stream.stage = "paging" => IsSettled(Smaller(stream.from, stream.settling))
      BY <2>1, <2>4, SettledBelow
    <3>2. QED
      BY <2>1, <2>4, <2>6, <3>1
  <2>9. stream' = stream /\ wire' = wire
    OBVIOUS
  <2>10. IsSettled(stream.settledHere)' /\ KnownTo(stream.settledHere, Len(wire))'
    BY <2>1, <2>4, <2>6, <2>7, <2>9
  <2>11. KnownTo(stream.after, 0)' /\ (stream.stage = "paging" => IsSettled(stream.settling)')
    BY <2>1, <2>4, <2>5, <2>6, <2>7, <2>9
  <2>12. \A s \in stream.delivered : Known(s, Len(wire))'
    BY <2>1, <2>2, <2>4 DEF FeedTypeOK
  <2>13. QED
    BY <1>2, <2>4, <2>8, <2>9, <2>10, <2>11, <2>12 DEF StreamInv
<1>3. QED
  BY <1>1, <1>2

LEMMA WireStill ==
    ASSUME FeedTypeOK, Grows, WireInv, UNCHANGED wire, told \subseteq told'
    PROVE  WireInv'
<1> SUFFICES ASSUME NEW i \in 1..Len(wire)
             PROVE  /\ wire[i].kind = "event" => wire[i].seq \in Shown'
                    /\ wire[i].kind = "settled" =>
                          IsSettled(wire[i].seq)' /\ KnownTo(wire[i].seq, i - 1)'
  BY DEF WireInv
<1>1. /\ wire[i].seq \in Nat /\ i - 1 \in Nat /\ Shown \in SUBSET Nat
  <2>1. wire \in Seq(Frame) /\ TableOK
    BY DEF FeedTypeOK
  <2>2. wire[i] \in Frame
    BY <2>1, ElementOfSeq
  <2>3. i - 1 \in Nat
    BY <2>1, LenProperties
  <2>4. Shown \in SUBSET Nat
    BY <2>1, TableFacts
  <2>5. QED
    BY <2>2, <2>3, <2>4 DEF Frame
<1>2. CASE wire[i].kind = "event"
  BY <1>2 DEF WireInv, Grows
<1>3. CASE wire[i].kind = "settled"
  <2>1. IsSettled(wire[i].seq) /\ KnownTo(wire[i].seq, i - 1)
    BY <1>3 DEF WireInv
  <2>2. \A s \in Shown : Known(s, i - 1) => Known(s, i - 1)'
    BY <1>1, KnownStill
  <2>3. KnownTo(wire[i].seq, i - 1)'
    BY <1>1, <2>1, <2>2, KnownToKept
  <2>4. IsSettled(wire[i].seq)'
    BY <1>1, <2>1 DEF Grows
  <2>5. QED
    BY <1>3, <2>3, <2>4
<1>4. QED
  BY <1>2, <1>3

LEMMA TabStill ==
    ASSUME FeedTypeOK, Grows, TabInv, UNCHANGED told,
           tab'.settled = tab.settled, tab'.delivered = tab.delivered
    PROVE  TabInv'
<1>1. tab.settled \in Nat
  BY DEF FeedTypeOK
<1>2. IsSettled(tab.settled)'
  BY <1>1 DEF TabInv, Grows
<1>3. KnownTo(tab.settled, 0)'
  BY <1>1 DEF TabInv, Grows, KnownTo, Known
<1>4. QED
  BY <1>2, <1>3 DEF TabInv, Grows

LEMMA SnapStill ==
    ASSUME FeedTypeOK, Grows, SnapInv, UNCHANGED snap
    PROVE  SnapInv'
<1>1. snap.settled \in Nat
  BY DEF FeedTypeOK
<1>2. IsSettled(snap.settled)'
  BY <1>1 DEF SnapInv, Grows
<1>3. QED
  BY <1>1, <1>2 DEF SnapInv, Grows

LEMMA LookEndsKeeps ==
    ASSUME FeedTypeOK, SentInv, CursorInv', LookEnds
    PROVE  StreamInv' /\ WireInv' /\ TabInv' /\ SnapInv'
<1>0. TableOK /\ UNCHANGED table /\ Grows /\ Shown' = Shown /\ Shown \in SUBSET Nat
  BY StillGrows, TableFacts DEF LookEnds, FeedTypeOK
<1>1. /\ CursorInv /\ StreamInv /\ WireInv /\ TabInv /\ SnapInv
      /\ UNCHANGED <<table, wire, tab, told>>
  BY DEF SentInv, LookEnds
<1>2. WireInv' /\ TabInv'
  BY <1>0, <1>1, WireStill, TabStill
<1>3. IsSettled(cursor'.settled) /\ cursor'.settled \in Nat
  <2>1. Writers \in SUBSET Nat
    BY <1>0 DEF Writers, TableOK
  <2>2. cursor'.settled \in Nat
    BY <2>1, LookedIs DEF LookEnds
  <2>3. IsSettled(cursor.settled)'
    BY DEF CursorInv
  <2>4. QED
    BY <1>1, <2>2, <2>3 DEF IsSettled, Closed, Seqs, Writers, table
<1>4. StreamInv'
  <2>1. CASE stream.stage # "settling"
    BY <1>0, <1>1, <2>1, StreamStill DEF LookEnds
  <2>2. CASE stream.stage = "settling"
    <3>1. stream' = [stream EXCEPT !.stage = "paging", !.from = Floor(stream),
                                   !.settling = cursor'.settled]
      BY <2>2 DEF LookEnds
    <3>2. /\ stream'.stage = "paging" /\ stream'.from = Floor(stream)
          /\ stream'.settling = cursor'.settled /\ stream'.after = stream.after
          /\ stream'.settledHere = stream.settledHere /\ stream'.delivered = stream.delivered
      BY <3>1 DEF FeedTypeOK
    <3>3. /\ stream.settledHere \in Nat /\ Floor(stream) \in Nat
          /\ Floor(stream) =< stream.settledHere
      <4> DEFINE p == Smaller(stream.high, stream.settledHere)
      <4>1. stream.settledHere \in Nat /\ stream.high \in Nat
        BY DEF FeedTypeOK
      <4>2. p \in Nat /\ p =< stream.settledHere
        BY <4>1, Extremes
      <4>3. Floor(stream) = Larger(0, p - Overlap)
        BY DEF Floor
      <4> HIDE DEF p
      <4>4. Floor(stream) \in Nat /\ Floor(stream) =< p
        BY <4>2, <4>3, BehindBy
      <4>5. QED
        BY <4>1, <4>2, <4>4
    <3>4. /\ Smaller(Floor(stream), cursor'.settled) \in Nat
          /\ Smaller(Floor(stream), cursor'.settled) =< stream.settledHere
      <4>1. /\ Smaller(Floor(stream), cursor'.settled) \in Nat
            /\ Smaller(Floor(stream), cursor'.settled) =< Floor(stream)
        BY <1>3, <3>3, Extremes
      <4>2. QED
        BY <3>3, <4>1
    <3>5. /\ IsSettled(stream.settledHere) /\ KnownTo(stream.settledHere, Len(wire))
          /\ stream.after =< stream.settledHere /\ KnownTo(stream.after, 0)
          /\ \A s \in stream.delivered : Known(s, Len(wire))
          /\ tab.stage = "up"
      BY <1>1, <2>2 DEF StreamInv
    <3>6. KnownTo(Smaller(Floor(stream), cursor'.settled), Len(wire))
      <4>1. Len(wire) \in Nat
        BY DEF FeedTypeOK
      <4>2. QED
        BY <1>0, <3>3, <3>4, <3>5, <4>1, KnownToBelow
    <3>7. QED
      BY <1>0, <1>1, <1>3, <3>2, <3>5, <3>6
      DEF StreamInv, KnownTo, Known, IsSettled, Closed, Seqs, Writers, table
  <2>3. QED
    BY <2>1, <2>2
<1>5. SnapInv'
  <2>1. CASE snap.stage # "settling"
    BY <1>0, <1>1, <2>1, SnapStill DEF LookEnds
  <2>2. CASE snap.stage = "settling"
    <3>1. /\ snap'.stage = "latest" /\ snap'.settled = cursor'.settled
          /\ snap'.roster = snap.roster
      BY <2>2 DEF LookEnds, FeedTypeOK
    <3>2. QED
      BY <1>0, <1>1, <1>3, <3>1 DEF SnapInv, IsSettled, Closed, Seqs, Writers, table
  <2>3. QED
    BY <2>1, <2>2
<1>6. QED
  BY <1>2, <1>4, <1>5

LEMMA WakeKeeps ==
    ASSUME FeedTypeOK, StreamInv, Wake
    PROVE  StreamInv'
<1>1. /\ stream.stage = "idle" /\ stream'.stage = "settling" /\ stream'.after = stream.after
      /\ stream'.settledHere = stream.settledHere /\ stream'.delivered = stream.delivered
      /\ UNCHANGED <<table, wire, tab, told>>
  BY DEF Wake, FeedTypeOK
<1>2. Shown' = Shown
  BY <1>1, StillGrows DEF FeedTypeOK
<1>3. QED
  BY <1>1, <1>2 DEF StreamInv, KnownTo, Known, IsSettled, Closed, Seqs, Writers, table

(* A read: what its page holds is known, or goes onto the wire; a short page  *)
(* was all there is, so that the settled point it got past may be said.       *)
LEMMA ReadPageKeeps ==
    ASSUME FeedTypeOK, FeedTypeOK', StreamInv, WireInv, ReadPage
    PROVE  StreamInv' /\ WireInv'
<1>0. /\ TableOK /\ UNCHANGED <<table, tab, told>> /\ Grows /\ Shown' = Shown
      /\ Shown \in SUBSET Nat /\ Len(wire) \in Nat /\ Len(wire') \in Nat
  <2>1. UNCHANGED <<table, tab, told>>
    BY DEF ReadPage
  <2>2. TableOK /\ wire \in Seq(Frame) /\ wire' \in Seq(Frame)
    BY DEF FeedTypeOK
  <2>3. QED
    BY <2>1, <2>2, StillGrows, TableFacts, LenProperties
<1>1. PICK m \in Nat : Sends(m)
  BY ReadSends
<1>2. /\ stream.stage = "paging" /\ stream.from \in Nat /\ stream.settling \in Nat
      /\ stream.settledHere \in Nat /\ stream.after \in Nat /\ stream.high \in Nat
      /\ tab.stage = "up"
      /\ IsSettled(stream.settledHere) /\ KnownTo(stream.settledHere, Len(wire))
      /\ stream.after =< stream.settledHere /\ KnownTo(stream.after, 0)
      /\ \A s \in stream.delivered : Known(s, Len(wire))
      /\ IsSettled(stream.settling)
      /\ KnownTo(Smaller(stream.from, stream.settling), Len(wire))
  BY ReadStream DEF StreamInv, FeedTypeOK
<1>3. /\ m >= Len(wire) /\ \A i \in 1..Len(wire) : wire'[i] = wire[i]
      /\ \A i \in (Len(wire) + 1)..m : \E s \in NewNow : wire'[i] = Event(s)
      /\ \A s \in NewNow : \E i \in (Len(wire) + 1)..m : wire'[i] = Event(s)
      /\ Len(wire') >= m
  BY <1>0, <1>1 DEF Sends
<1>4. \A n \in 0..Len(wire), s \in Nat : Known(s, n) => Known(s, n)'
  <2> SUFFICES ASSUME NEW n \in 0..Len(wire), NEW s \in Nat, Known(s, n)
               PROVE  Known(s, n)'
    OBVIOUS
  <2>1. CASE s \in told
    BY <1>0, <2>1 DEF Known
  <2>2. CASE s \notin told
    <3>1. PICK j \in 1..n : wire[j] = Event(s)
      BY <2>2 DEF Known
    <3>2. wire'[j] = Event(s)
      BY <1>0, <1>3, <3>1
    <3>3. QED
      BY <3>2 DEF Known, Event
  <2>3. QED
    BY <2>1, <2>2
<1>5. \A s \in NewNow : Known(s, m)'
  BY <1>0, <1>3 DEF Known
<1>6. \A s \in Nat : Known(s, Len(wire)) => Known(s, m)'
  BY <1>0, <1>3 DEF Known
<1>7. \A s \in PageNow : Known(s, m)'
  <2> TAKE s \in PageNow
  <2>1. s \in Nat /\ s \in Shown
    BY PageFacts
  <2>2. CASE s =< stream.after
    <3>1. Known(s, 0)
      BY <1>2, <2>1, <2>2 DEF KnownTo
    <3>2. Known(s, Len(wire))
      BY <1>0, <3>1 DEF Known
    <3>3. QED
      BY <1>6, <2>1, <3>2
  <2>3. CASE s \in stream.delivered
    BY <1>2, <1>6, <2>1, <2>3
  <2>4. CASE s > stream.after /\ s \notin stream.delivered
    BY <1>5, <2>4 DEF NewNow
  <2>5. QED
    BY <1>2, <2>1, <2>2, <2>3, <2>4
<1>8. /\ \A s \in Shown : s =< stream.from /\ s =< stream.settling => Known(s, m)'
      /\ \A s \in Shown : s =< FromNow /\ s =< stream.settling => Known(s, m)'
  <2>1. ASSUME NEW s \in Shown, s =< stream.from, s =< stream.settling PROVE Known(s, m)'
    <3>1. s =< Smaller(stream.from, stream.settling)
      BY <2>1 DEF Smaller
    <3>2. QED
      BY <1>0, <1>2, <1>6, <3>1 DEF KnownTo
  <2>2. ASSUME NEW s \in Shown, s =< FromNow, s =< stream.settling PROVE Known(s, m)'
    <3>1. CASE s =< stream.from
      BY <2>1, <2>2, <3>1
    <3>2. CASE ~(s =< stream.from)
      <4>1. FromNow \in PageNow /\ stream.from < s
        BY <1>0, <1>2, <2>2, <3>2, PageFacts
      <4>2. s \in PageNow
        BY <1>0, <1>2, <2>2, <4>1, PagesAre DEF PageNow
      <4>3. QED
        BY <1>7, <4>2
    <3>3. QED
      BY <3>1, <3>2
  <2>3. QED
    BY <2>1, <2>2
<1>9. Cardinality(PageNow) < Page => \A s \in Shown : s =< stream.settling => Known(s, m)'
  <2>1. Cardinality(PageNow) < Page => \A s \in Shown : stream.from < s => s \in PageNow
    BY <1>0, <1>2, PagesAre DEF PageNow
  <2>2. QED
    BY <1>0, <1>2, <1>7, <1>8, <2>1
<1>10. \A s \in Shown : s =< stream.settledHere => Known(s, m)'
  BY <1>0, <1>2, <1>6 DEF KnownTo
<1>11. Cardinality(PageNow) < Page =>
          IsSettled(SettledNow) /\ \A s \in Shown : s =< SettledNow => Known(s, m)'
  BY <1>0, <1>2, <1>9, <1>10 DEF SettledNow, Larger
<1>12. \A p \in Nat : IsSettled(p) => IsSettled(p)'
  BY <1>0 DEF Grows
<1>13. \A s \in Nat : Known(s, m)' => Known(s, Len(wire))'
  BY <1>0, <1>3 DEF Known
<1>14. StreamInv'
  <2>1. /\ stream'.after = stream.after /\ stream'.stage # "none"
        /\ \A s \in stream'.delivered : s \in stream.delivered \/ s \in NewNow
    BY ReadStream
  <2>2. \A s \in stream'.delivered : Known(s, Len(wire))'
    BY <1>2, <1>5, <1>6, <1>13, <2>1, PageFacts DEF FeedTypeOK
  <2>3. KnownTo(stream.after, 0)'
    <3>1. \A s \in Shown : Known(s, 0) => Known(s, 0)'
      BY <1>0, <1>4
    <3>2. QED
      BY <1>0, <1>2, <2>1, <3>1 DEF KnownTo
  <2>4. CASE Cardinality(PageNow) >= Page
    <3>1. /\ stream'.stage = "paging" /\ stream'.from = FromNow
          /\ stream'.settling = stream.settling /\ stream'.settledHere = stream.settledHere
      <4>1. Page \in Nat /\ Cardinality(PageNow) \in Nat
        BY <1>0, <1>2, PagesAre, FS_CardinalityType, FeedAssumption DEF PageNow
      <4>2. QED
        BY <2>4, <4>1, ReadStream
    <3>2. \A s \in Shown : s =< Smaller(FromNow, stream.settling) => Known(s, m)'
      BY <1>0, <1>2, <1>8, PageFacts DEF Smaller
    <3>3. KnownTo(Smaller(stream.from, stream.settling), Len(wire))'
      BY <1>0, <1>13, <3>1, <3>2 DEF KnownTo
    <3>4. KnownTo(stream.settledHere, Len(wire))' /\ IsSettled(stream.settledHere)'
      BY <1>0, <1>2, <1>10, <1>12, <1>13, <3>1 DEF KnownTo
    <3>5. IsSettled(stream.settling)'
      BY <1>2, <1>12, <3>1
    <3>6. QED
      BY <1>0, <1>2, <2>1, <2>2, <2>3, <3>1, <3>3, <3>4, <3>5 DEF StreamInv
  <2>5. CASE ~(Cardinality(PageNow) >= Page)
    <3>1. stream'.stage = "idle" /\ stream'.settledHere = SettledNow /\ Cardinality(PageNow) < Page
      BY <2>5, ReadStream
    <3>2. KnownTo(stream.settledHere, Len(wire))' /\ IsSettled(stream.settledHere)'
      BY <1>0, <1>11, <1>12, <1>13, <3>1, PageFacts DEF KnownTo
    <3>3. stream.after =< SettledNow
      BY <1>2 DEF SettledNow, Larger
    <3>4. QED
      BY <1>0, <1>2, <2>1, <2>2, <2>3, <3>1, <3>2, <3>3 DEF StreamInv
  <2>6. QED
    BY <2>4, <2>5
<1>15. WireInv'
  <2> SUFFICES ASSUME NEW i \in 1..Len(wire')
               PROVE  /\ wire'[i].kind = "event" => wire'[i].seq \in Shown
                      /\ wire'[i].kind = "settled" =>
                            IsSettled(wire'[i].seq) /\ KnownTo(wire[i].seq, i - 1)'
    <3>1. \A p : IsSettled(p)' <=> IsSettled(p)
      BY <1>0 DEF IsSettled, Closed, Seqs, Writers, table
    <3>2. QED
      BY <1>0, <3>1 DEF WireInv
  <2>1. CASE i \in 1..Len(wire)
    <3>1. /\ wire'[i] = wire[i] /\ wire[i] \in Frame /\ i - 1 \in 0..Len(wire)
          /\ wire[i].seq \in Nat
      <4>0. wire \in Seq(Frame)
        BY DEF FeedTypeOK
      <4>1. wire[i] \in Frame
        BY <2>1, <4>0, ElementOfSeq
      <4>2. QED
        BY <1>0, <1>3, <2>1, <4>1 DEF Frame
    <3>2. QED
      BY <1>0, <1>4, <2>1, <3>1 DEF WireInv, KnownTo
  <2>2. CASE i \in (Len(wire) + 1)..m
    <3>1. PICK s \in NewNow : wire'[i] = Event(s)
      BY <1>3, <2>2
    <3>2. wire'[i].kind = "event" /\ wire'[i].seq \in Shown
      BY <3>1, PageFacts DEF Event
    <3>3. QED
      BY <3>2
  <2>3. CASE i = m + 1 /\ Len(wire') = m + 1
    <3>1. Cardinality(PageNow) < Page /\ wire'[i] = SettledLine(PointNow)
      BY <1>0, <1>1, <2>3 DEF Sends
    <3>2. /\ wire'[i].kind = "settled" /\ wire'[i].seq = PointNow /\ i - 1 = m
          /\ PointNow \in Nat /\ SettledNow \in Nat /\ PointNow =< SettledNow
      BY <2>3, <3>1, PageFacts, Extremes DEF SettledLine, PointNow
    <3>3. IsSettled(PointNow)
      BY <1>0, <1>11, <3>1, <3>2, SettledBelow
    <3>4. \A s \in Shown : s =< PointNow => Known(s, m)'
      <4>1. \A s \in Shown : s =< PointNow => s =< SettledNow
        BY <1>0, <3>2
      <4>2. QED
        BY <1>11, <3>1, <4>1
    <3>5. QED
      BY <1>0, <3>2, <3>3, <3>4 DEF KnownTo
  <2>4. QED
    BY <1>0, <1>1, <1>3, <2>1, <2>2, <2>3 DEF Sends
<1>16. QED
  BY <1>14, <1>15

(* The tab connects: none of what shows up to where its stream starts is      *)
(* unknown to it.                                                             *)
LEMMA ConnectKeeps ==
    ASSUME FeedTypeOK, FeedTypeOK', StreamInv, WireInv, TabInv, Connect
    PROVE  StreamInv' /\ WireInv' /\ TabInv'
<1>a. PICK p : p = Larger(0, ResumePoint(tab) - Overlap)
  OBVIOUS
<1>0. UNCHANGED <<table, wire, told>> /\ tab.stage = "down" /\ stream' = Subscribed(p)
  BY <1>a DEF Connect
<1>1. TableOK /\ Grows /\ Shown' = Shown /\ Shown \in SUBSET Nat
  BY <1>0, StillGrows, TableFacts DEF FeedTypeOK
<1>2. tab'.stage = "up" /\ tab'.settled = tab.settled /\ tab'.delivered = tab.delivered
  BY DEF Connect, FeedTypeOK
<1>3. wire = <<>> /\ Len(wire) = 0 /\ wire' = <<>>
  BY <1>0 DEF StreamInv
<1>4. p \in Nat /\ tab.settled \in Nat /\ p =< tab.settled
  <2>1. tab.settled \in Nat /\ tab.last \in Nat
    BY DEF FeedTypeOK
  <2>2. ResumePoint(tab) \in Nat /\ ResumePoint(tab) =< tab.settled
    BY <2>1, Extremes DEF ResumePoint
  <2>3. p \in Nat /\ p =< ResumePoint(tab)
    BY <1>a, <2>2, BehindBy
  <2>4. QED
    BY <2>1, <2>2, <2>3
<1>5. IsSettled(p) /\ KnownTo(p, 0)
  BY <1>1, <1>4, SettledBelow, KnownToBelow DEF TabInv
<1>6. /\ stream'.stage = "settling" /\ stream'.after = p /\ stream'.settledHere = p
      /\ stream'.delivered = {}
  BY <1>0 DEF Subscribed, NoStream
<1>7. IsSettled(p)' /\ KnownTo(p, 0)'
  BY <1>0, <1>1, <1>4, <1>5 DEF Grows, KnownTo, Known
<1>8. StreamInv'
  BY <1>2, <1>3, <1>4, <1>6, <1>7 DEF StreamInv
<1>9. QED
  BY <1>0, <1>1, <1>2, <1>8, WireStill, TabStill

(* The tab hears a frame: what it was to know from it, it knows. *)
LEMMA HeardKnown ==
    ASSUME wire \in Seq(Frame), wire # <<>>, wire' = Tail(wire), told \subseteq told',
           wire[1].kind = "event" => wire[1].seq \in told', NEW s
    PROVE  /\ Known(s, 0) => Known(s, 0)'
           /\ \A n \in 1..Len(wire) : Known(s, n) => Known(s, n - 1)'
<1>1. /\ Len(wire) \in Nat \ {0} /\ Len(wire') = Len(wire) - 1
      /\ \A i \in 1..(Len(wire) - 1) : wire'[i] = wire[i + 1]
  BY WireHead
<1>2. Known(s, 0) => Known(s, 0)'
  BY DEF Known
<1>3. ASSUME NEW n \in 1..Len(wire), Known(s, n) PROVE Known(s, n - 1)'
  <2>1. CASE s \in told
    BY <2>1 DEF Known
  <2>2. CASE s \notin told
    <3>1. PICK j \in 1..n : wire[j] = Event(s)
      BY <1>3, <2>2 DEF Known
    <3>2. CASE j = 1
      BY <3>1, <3>2 DEF Known, Event
    <3>3. CASE j # 1
      <4>1. j - 1 \in 1..(n - 1) /\ j - 1 \in 1..(Len(wire) - 1) /\ (j - 1) + 1 = j
        BY <1>1, <3>3
      <4>2. wire'[j - 1] = Event(s)
        BY <1>1, <3>1, <4>1
      <4>3. QED
        BY <4>1, <4>2 DEF Known, Event
    <3>4. QED
      BY <3>2, <3>3
  <2>3. QED
    BY <2>1, <2>2
<1>4. QED
  BY <1>2, <1>3

LEMMA HearKeeps ==
    ASSUME FeedTypeOK, FeedTypeOK', StreamInv, WireInv, UNCHANGED <<table, stream>>,
           wire # <<>>, wire' = Tail(wire), told \subseteq told', tab'.stage = tab.stage,
           wire[1].kind = "event" => wire[1].seq \in told'
    PROVE  StreamInv' /\ WireInv'
<1>1. TableOK /\ Grows /\ Shown' = Shown /\ Shown \in SUBSET Nat /\ wire \in Seq(Frame)
  BY StillGrows, TableFacts DEF FeedTypeOK
<1>2. /\ Len(wire) \in Nat \ {0} /\ Len(wire') = Len(wire) - 1 /\ Len(wire) \in 1..Len(wire)
      /\ \A i \in 1..(Len(wire) - 1) : wire'[i] = wire[i + 1]
  BY <1>1, WireHead
<1>3. /\ \A s \in Nat : Known(s, 0) => Known(s, 0)'
      /\ \A s \in Nat, n \in 1..Len(wire) : Known(s, n) => Known(s, n - 1)'
  BY <1>1, HeardKnown
<1>4. /\ \A p \in Nat : KnownTo(p, 0) => KnownTo(p, 0)'
      /\ \A p \in Nat, n \in 1..Len(wire) : KnownTo(p, n) => KnownTo(p, n - 1)'
  <2>1. ASSUME NEW p \in Nat, KnownTo(p, 0) PROVE KnownTo(p, 0)'
    BY <1>1, <1>3, <2>1 DEF KnownTo
  <2>2. ASSUME NEW p \in Nat, NEW n \in 1..Len(wire), KnownTo(p, n) PROVE KnownTo(p, n - 1)'
    BY <1>1, <1>3, <2>2 DEF KnownTo
  <2>3. QED
    BY <2>1, <2>2
<1>5. \A p \in Nat : IsSettled(p) => IsSettled(p)'
  BY <1>1 DEF Grows
<1>6. StreamInv'
  <2> PICK n \in 1..Len(wire) : n = Len(wire)
    BY <1>2
  <2>0. n \in Nat /\ Len(wire') = n - 1
    BY <1>2
  <2>1. stream.stage # "none"
    BY DEF StreamInv
  <2>2. /\ stream.settledHere \in Nat /\ stream.after \in Nat /\ stream.settling \in Nat
        /\ stream.from \in Nat /\ stream.delivered \in SUBSET Nat
    BY DEF FeedTypeOK
  <2>3. Smaller(stream.from, stream.settling) \in Nat
    BY <2>2, Extremes
  <2>4. /\ tab.stage = "up"
        /\ IsSettled(stream.settledHere) /\ KnownTo(stream.settledHere, Len(wire))
        /\ stream.after =< stream.settledHere /\ KnownTo(stream.after, 0)
        /\ \A s \in stream.delivered : Known(s, Len(wire))
        /\ stream.stage = "paging" =>
              /\ IsSettled(stream.settling)
              /\ KnownTo(Smaller(stream.from, stream.settling), Len(wire))
    BY <2>1 DEF StreamInv
  <2>5. stream' = stream
    OBVIOUS
  <2>6. /\ IsSettled(stream.settledHere)' /\ KnownTo(stream.settledHere, n - 1)'
        /\ KnownTo(stream.after, 0)'
    BY <1>2, <1>4, <1>5, <2>2, <2>4, <2>5
  <2>7. \A s \in stream.delivered : Known(s, n - 1)'
    BY <1>2, <1>3, <2>2, <2>4
  <2>8. stream.stage = "paging" =>
           /\ IsSettled(stream.settling)'
           /\ KnownTo(Smaller(stream.from, stream.settling), n - 1)'
    BY <1>2, <1>4, <1>5, <2>2, <2>3, <2>4, <2>5
  <2>9. QED
    BY <2>0, <2>1, <2>4, <2>5, <2>6, <2>7, <2>8 DEF StreamInv
<1>7. WireInv'
  <2> SUFFICES ASSUME NEW i \in 1..Len(wire')
               PROVE  /\ wire'[i].kind = "event" => wire'[i].seq \in Shown'
                      /\ wire'[i].kind = "settled" =>
                            IsSettled(wire[i].seq)' /\ KnownTo(wire[i].seq, i - 1)'
    BY DEF WireInv
  <2>1. /\ i + 1 \in 1..Len(wire) /\ wire'[i] = wire[i + 1] /\ i \in 1..Len(wire)
        /\ (i + 1) - 1 = i
    BY <1>2
  <2>2. PICK q \in Nat : q = wire[i + 1].seq
    <3>1. wire[i + 1] \in Frame
      BY <1>1, <2>1, ElementOfSeq
    <3>2. QED
      BY <3>1 DEF Frame
  <2>3. /\ wire[i + 1].kind = "event" => wire[i + 1].seq \in Shown
        /\ wire[i + 1].kind = "settled" =>
              IsSettled(wire[i + 1].seq) /\ KnownTo(wire[i + 1].seq, i)
    BY <2>1 DEF WireInv
  <2>4. CASE wire[i + 1].kind = "event"
    BY <1>1, <2>1, <2>3, <2>4
  <2>5. CASE wire[i + 1].kind = "settled"
    <3>1. IsSettled(q)' /\ KnownTo(q, i - 1)'
      BY <1>4, <1>5, <2>1, <2>2, <2>3, <2>5
    <3>2. wire'[i].seq = q
      BY <2>1, <2>2
    <3>3. QED
      BY <2>1, <2>5, <3>1, <3>2
  <2>6. QED
    BY <2>1, <2>4, <2>5
<1>8. QED
  BY <1>6, <1>7

LEMMA HearEventKeeps ==
    ASSUME FeedTypeOK, FeedTypeOK', StreamInv, WireInv, TabInv, HearEvent
    PROVE  StreamInv' /\ WireInv' /\ TabInv'
<1>1. /\ wire # <<>> /\ wire[1].kind = "event" /\ wire' = Tail(wire)
      /\ UNCHANGED <<table, stream>>
  BY DEF HearEvent
<1>2. TableOK /\ Grows /\ Shown' = Shown /\ Shown \in SUBSET Nat /\ wire \in Seq(Frame)
  BY <1>1, StillGrows, TableFacts DEF FeedTypeOK
<1>3. wire[1].seq \in Shown /\ 1 \in 1..Len(wire)
  BY <1>1, <1>2, WireHead DEF WireInv
<1>4. /\ tab'.settled = tab.settled /\ tab'.stage = tab.stage
      /\ told' = told \cup {wire[1].seq}
      /\ tab'.delivered \subseteq tab.delivered \cup {wire[1].seq}
  <2>1. CASE wire[1].seq \in tab.delivered
    BY <2>1 DEF HearEvent, TabInv
  <2>2. CASE wire[1].seq \notin tab.delivered
    <3>1. tab' = Took(tab, wire[1].seq) /\ told' = told \cup {wire[1].seq}
      BY <2>2 DEF HearEvent
    <3>2. /\ Took(tab, wire[1].seq).settled = tab.settled
          /\ Took(tab, wire[1].seq).stage = tab.stage
          /\ Took(tab, wire[1].seq).delivered \subseteq tab.delivered \cup {wire[1].seq}
      BY DEF Took, FeedTypeOK
    <3>3. QED
      BY <3>1, <3>2
  <2>3. QED
    BY <2>1, <2>2
<1>5. StreamInv' /\ WireInv'
  BY <1>1, <1>4, HearKeeps
<1>6. TabInv'
  <2>1. tab.settled \in Nat
    BY DEF FeedTypeOK
  <2>2. IsSettled(tab.settled)' /\ KnownTo(tab.settled, 0)'
    BY <1>2, <1>4, <2>1 DEF TabInv, Grows, KnownTo, Known
  <2>3. tab'.delivered \subseteq told' /\ told' \subseteq Shown'
    BY <1>2, <1>3, <1>4 DEF TabInv
  <2>4. QED
    BY <2>2, <2>3 DEF TabInv
<1>7. QED
  BY <1>5, <1>6

LEMMA HearSettledKeeps ==
    ASSUME FeedTypeOK, FeedTypeOK', StreamInv, WireInv, TabInv, HearSettled
    PROVE  StreamInv' /\ WireInv' /\ TabInv'
<1>1. /\ wire # <<>> /\ wire[1].kind = "settled" /\ wire' = Tail(wire)
      /\ UNCHANGED <<table, stream, told>>
      /\ tab' = [tab EXCEPT !.settled = Larger(@, wire[1].seq)]
  BY DEF HearSettled
<1>2. TableOK /\ Grows /\ Shown' = Shown /\ Shown \in SUBSET Nat /\ wire \in Seq(Frame)
  BY <1>1, StillGrows, TableFacts DEF FeedTypeOK
<1>3. tab'.stage = tab.stage /\ tab'.delivered = tab.delivered
  BY <1>1 DEF FeedTypeOK
<1>4. PICK p \in Nat : /\ p = tab'.settled
                       /\ p = tab.settled \/ p = wire[1].seq
  <2>1. tab.settled \in Nat /\ tab'.settled = Larger(tab.settled, wire[1].seq)
    BY <1>1 DEF FeedTypeOK
  <2>2. wire[1].seq \in Nat
    BY <1>1, <1>2, WireHead
  <2>3. QED
    BY <2>1, <2>2, Extremes
<1>5. StreamInv' /\ WireInv'
  BY <1>1, <1>3, HearKeeps
<1>6. IsSettled(p) /\ KnownTo(p, 0)
  <2>1. 1 \in 1..Len(wire) /\ 1 - 1 = 0
    BY <1>1, <1>2, WireHead
  <2>2. IsSettled(wire[1].seq) /\ KnownTo(wire[1].seq, 0)
    BY <1>1, <2>1 DEF WireInv
  <2>3. QED
    BY <1>4, <2>2 DEF TabInv
<1>7. IsSettled(p)' /\ KnownTo(p, 0)'
  BY <1>1, <1>2, <1>6 DEF Grows, KnownTo, Known
<1>8. TabInv'
  BY <1>1, <1>2, <1>3, <1>4, <1>7 DEF TabInv
<1>9. QED
  BY <1>5, <1>8

(* The connection lost, and the server's process started again. *)
LEMMA LossKeeps ==
    ASSUME FeedTypeOK, FeedTypeOK', TabInv, SnapInv, Drop \/ Restart
    PROVE  StreamInv' /\ WireInv' /\ TabInv' /\ SnapInv'
<1>1. /\ stream' = NoStream /\ wire' = <<>> /\ tab' = Down(tab)
      /\ UNCHANGED <<table, told>> /\ (snap' = snap \/ snap' = NoSnap)
  BY DEF Drop, Restart
<1>2. TableOK /\ TableOK' /\ Grows
  BY <1>1, StillGrows DEF FeedTypeOK
<1>3. StreamInv' /\ WireInv'
  BY <1>1 DEF StreamInv, WireInv, NoStream
<1>4. TabInv'
  <2>1. tab'.settled = tab.settled /\ tab'.delivered = tab.delivered
    BY <1>1 DEF Down, FeedTypeOK
  <2>2. QED
    BY <1>1, <1>2, <2>1, TabStill
<1>5. SnapInv'
  <2>1. CASE snap' = snap
    BY <1>2, <2>1, SnapStill
  <2>2. CASE snap' = NoSnap
    <3>1. IsSettled(0)'
      BY <1>2, SettledZero DEF Grows
    <3>2. QED
      BY <2>2, <3>1 DEF SnapInv, NoSnap
  <2>3. QED
    BY <1>1, <2>1, <2>2
<1>6. QED
  BY <1>3, <1>4, <1>5

(* The snapshot's own steps, and a refresh. *)
LEMMA SnapshotKeeps ==
    ASSUME FeedTypeOK, FeedTypeOK', SnapInv, AskSnapshot \/ ReadLatest \/ ReadRoster \/ Refreshes
    PROVE  SnapInv'
<1>0. UNCHANGED table
  BY DEF AskSnapshot, ReadLatest, ReadRoster, Refreshes
<1>1. TableOK /\ TableOK' /\ Grows /\ Shown' = Shown
  BY <1>0, StillGrows DEF FeedTypeOK
<1>2. IsSettled(0)'
  BY <1>1, SettledZero DEF Grows
<1>3. IsSettled(snap.settled) /\ snap.settled \in Nat /\ snap.roster \subseteq Shown
  BY DEF SnapInv, FeedTypeOK
<1>4. CASE AskSnapshot
  BY <1>2, <1>4 DEF AskSnapshot, NoSnap, SnapInv
<1>5. CASE Refreshes
  BY <1>2, <1>5 DEF Refreshes, NoSnap, SnapInv
<1>6. CASE ReadLatest \/ ReadRoster
  <2>1. /\ snap'.settled = snap.settled
        /\ \/ snap'.roster = snap.roster /\ snap'.stage = "roster"
           \/ snap'.roster = Shown
    BY <1>6 DEF ReadLatest, ReadRoster, FeedTypeOK
  <2>2. IsSettled(snap.settled)'
    BY <1>0, <1>3, <2>1 DEF IsSettled, Closed, Seqs, Writers, table
  <2>3. QED
    BY <1>1, <1>3, <2>1, <2>2 DEF SnapInv
<1>7. QED
  BY <1>4, <1>5, <1>6

(* The tab boots from what a snapshot read: the roster, read after the        *)
(* settled point, holds all that shows up to it.                              *)
LEMMA BootsKeeps ==
    ASSUME FeedTypeOK, FeedTypeOK', StreamInv, WireInv, TabInv, SnapInv, Boots
    PROVE  StreamInv' /\ WireInv' /\ TabInv' /\ SnapInv'
<1>1. /\ UNCHANGED <<table, stream, wire>> /\ told \subseteq told'
      /\ told' = told \cup snap.roster /\ snap' = NoSnap
      /\ snap.stage = "read" /\ tab.stage = "boot"
  BY DEF Boots
<1>2. TableOK /\ TableOK' /\ Grows /\ Shown' = Shown /\ Shown \in SUBSET Nat
  BY <1>1, StillGrows, TableFacts DEF FeedTypeOK
<1>3. StreamInv' /\ WireInv'
  BY <1>1, <1>2, StreamStill, WireStill
<1>4. PICK p \in Nat : p = tab'.settled /\ p =< snap.settled
  <2>1. snap.settled \in Nat /\ snap.latest \in Nat
    BY DEF FeedTypeOK
  <2>2. tab'.settled = Smaller(snap.settled, snap.latest)
    BY DEF Boots, NoTab
  <2>3. QED
    BY <2>1, <2>2, Extremes
<1>5. IsSettled(p) /\ snap.settled \in Nat
  BY <1>2, <1>4, SettledBelow DEF SnapInv, FeedTypeOK
<1>6. IsSettled(p)' /\ KnownTo(p, 0)'
  <2>1. \A s \in Shown : s =< p => s =< snap.settled
    BY <1>2, <1>4, <1>5
  <2>2. KnownTo(p, 0)'
    BY <1>1, <1>2, <2>1 DEF SnapInv, KnownTo, Known
  <2>3. QED
    BY <1>2, <1>5, <2>2 DEF Grows
<1>7. tab'.delivered = {} /\ told' \subseteq Shown'
  BY <1>1, <1>2 DEF Boots, NoTab, TabInv, SnapInv
<1>8. IsSettled(0)'
  BY <1>2, SettledZero DEF Grows
<1>9. SnapInv'
  BY <1>1, <1>8 DEF SnapInv, NoSnap
<1>10. TabInv'
  BY <1>4, <1>6, <1>7 DEF TabInv
<1>11. QED
  BY <1>3, <1>9, <1>10

LEMMA SentKept ==
    ASSUME FeedTypeOK, [Next]_vars, SentInv
    PROVE  SentInv'
<1>0. /\ FeedTypeOK' /\ Grows /\ CursorInv' /\ CursorInv
      /\ StreamInv /\ WireInv /\ TabInv /\ SnapInv
  BY TypesKept, StepGrows, CursorKept DEF SentInv, FeedTypeOK
<1>1. CASE UNCHANGED <<stream, wire, tab, snap, told>>
  BY <1>0, <1>1, StreamStill, WireStill, TabStill, SnapStill DEF SentInv
<1>2. CASE LookEnds
  BY <1>0, <1>2, LookEndsKeeps DEF SentInv
<1>3. CASE Wake \/ ReadPage
  <2>1. UNCHANGED <<tab, told, snap>>
    BY <1>3 DEF Wake, ReadPage
  <2>2. TabInv' /\ SnapInv'
    BY <1>0, <2>1, TabStill, SnapStill
  <2>3. StreamInv' /\ WireInv'
    <3>1. CASE Wake
      BY <1>0, <3>1, WakeKeeps, WireStill DEF Wake
    <3>2. CASE ReadPage
      BY <1>0, <3>2, ReadPageKeeps
    <3>3. QED
      BY <1>3, <3>1, <3>2
  <2>4. QED
    BY <1>0, <2>2, <2>3 DEF SentInv
<1>4. CASE Client
  <2>1. UNCHANGED snap
    BY <1>4 DEF Client, Connect, HearEvent, HearSettled
  <2>2. SnapInv'
    BY <1>0, <2>1, SnapStill
  <2>3. StreamInv' /\ WireInv' /\ TabInv'
    BY <1>0, <1>4, ConnectKeeps, HearEventKeeps, HearSettledKeeps DEF Client
  <2>4. QED
    BY <1>0, <2>2, <2>3 DEF SentInv
<1>5. CASE AskSnapshot \/ ReadLatest \/ ReadRoster \/ Refreshes
  <2>1. UNCHANGED <<stream, wire, tab, told>>
    BY <1>5 DEF AskSnapshot, ReadLatest, ReadRoster, Refreshes
  <2>2. StreamInv' /\ WireInv' /\ TabInv'
    BY <1>0, <2>1, StreamStill, WireStill, TabStill
  <2>3. SnapInv'
    BY <1>0, <1>5, SnapshotKeeps
  <2>4. QED
    BY <1>0, <2>2, <2>3 DEF SentInv
<1>6. CASE Boots
  BY <1>0, <1>6, BootsKeeps DEF SentInv
<1>7. CASE Drop \/ Restart
  BY <1>0, <1>7, LossKeeps DEF SentInv
<1>8. QED
  <2>1. CASE Write \/ Close \/ LookBegins \/ UNCHANGED vars
    BY <1>1, <2>1 DEF Write, OpenWrite, Insert, Close, CloseWrite, LookBegins, vars
  <2>2. QED
    BY <1>2, <1>3, <1>4, <1>5, <1>6, <1>7, <2>1 DEF Next, Look, Streams, Snapshot

LEMMA InitSent == Init => SentInv
<1> SUFFICES ASSUME Init PROVE SentInv
  OBVIOUS
<1>1. FeedTypeOK /\ IsSettled(0)
  BY InitTypes, SettledZero DEF FeedTypeOK
<1>2. Shown = {} /\ wire = <<>> /\ Len(wire) = 0
  BY DEF Init, Shown, Seqs
<1>3. CursorInv
  BY <1>1 DEF Init, CursorInv, NoCursor, NotLooking, FeedTypeOK, TableOK
<1>4. StreamInv /\ WireInv
  BY <1>2 DEF Init, StreamInv, WireInv, NoStream
<1>5. TabInv /\ SnapInv
  BY <1>1, <1>2 DEF Init, TabInv, SnapInv, NoTab, NoSnap, KnownTo
<1>6. QED
  BY <1>3, <1>4, <1>5 DEF SentInv

(* Nothing lies unsent behind the point a tab resumes from, for any overlap,  *)
(* page and number of seqs waited for: however late an event committed, and   *)
(* however often the stream broke off or the process started again.           *)
THEOREM NothingIsBehind == Spec => []NothingBehind
<1>1. Init => FeedTypeOK /\ SentInv
  BY InitTypes, InitSent
<1>2. FeedTypeOK /\ SentInv /\ [Next]_vars => (FeedTypeOK /\ SentInv)'
  BY TypesKept, SentKept
<1>3. FeedTypeOK /\ SentInv => NothingBehind
  <2> SUFFICES ASSUME FeedTypeOK, SentInv, NEW s \in Shown, s =< ResumePoint(tab)
               PROVE  s \in told
    BY DEF NothingBehind
  <2>1. KnownTo(tab.settled, 0) /\ tab.settled \in Nat /\ tab.last \in Nat /\ s \in Nat
    BY TableFacts DEF SentInv, TabInv, FeedTypeOK
  <2>2. s =< tab.settled
    BY <2>1 DEF ResumePoint, Smaller
  <2>3. QED
    BY <2>1, <2>2 DEF KnownTo, Known
<1>4. QED
  BY <1>1, <1>2, <1>3, PTL DEF Spec

-----------------------------------------------------------------------------
(* Heard once. *)

(* The new events a read sends lie past what its stream was told the tab has, *)
(* and an overlap or more past every point said.                              *)
LEMMA ReadPageSays ==
    ASSUME FeedTypeOK, FeedTypeOK', StreamInv, SaidInv, LinesInv, ReadPage
    PROVE  SaidInv' /\ LinesInv'
<1>1. PICK m \in Nat : Sends(m)
  BY ReadSends
<1>2. UNCHANGED tab /\ stream.stage = "paging" /\ stream'.stage # "none"
      /\ stream'.after = stream.after /\ stream'.high = HighNow
  BY ReadStream DEF ReadPage
<1>3. /\ tab.settled \in Nat /\ tab.last \in Nat /\ stream.said \in Nat /\ stream.high \in Nat
      /\ stream.settledHere \in Nat /\ stream.settling \in Nat /\ stream.after \in Nat
      /\ stream.from \in Nat /\ stream'.said \in Nat /\ Overlap \in Nat
      /\ HighNow \in Nat /\ SettledNow \in Nat /\ PointNow \in Nat /\ FromNow \in Nat
      /\ NewNow \in SUBSET Nat /\ stream.high =< HighNow /\ stream.from =< FromNow
  BY PageFacts, FeedAssumption DEF FeedTypeOK
<1>4. wire \in Seq(Frame) /\ Len(wire) \in Nat /\ wire' \in Seq(Frame) /\ Len(wire') \in Nat
  <2>1. wire \in Seq(Frame) /\ wire' \in Seq(Frame)
    BY DEF FeedTypeOK
  <2>2. QED
    BY <2>1, LenProperties
<1>5. /\ m >= Len(wire) /\ Len(wire') >= m
      /\ \A i \in 1..Len(wire) : wire'[i] = wire[i]
      /\ \A i \in (Len(wire) + 1)..m : \E s \in NewNow : wire'[i] = Event(s)
      /\ \A s \in NewNow : \E i \in (Len(wire) + 1)..m : wire'[i] = Event(s)
      /\ \/ Len(wire') = m
         \/ /\ Cardinality(PageNow) < Page /\ Len(wire') = m + 1
            /\ wire'[m + 1] = SettledLine(PointNow)
  BY <1>1, <1>4 DEF Sends
<1>6. /\ stream.said =< stream.settledHere /\ stream.said =< stream.high
      /\ tab.settled =< stream.said \/ tab.settled =< stream.after + Overlap
      /\ stream.said =< stream.from + Overlap
      /\ Reached(stream.high, Len(wire))
  BY <1>2 DEF SaidInv
<1>7. /\ stream.settledHere =< SettledNow /\ PointNow =< SettledNow /\ PointNow =< HighNow
  <2>1. stream.settledHere =< SettledNow
    BY <1>3 DEF SettledNow, Larger
  <2>2. PointNow =< SettledNow /\ PointNow =< HighNow
    BY <1>3, Extremes DEF PointNow
  <2>3. QED
    BY <2>1, <2>2
<1>8. /\ stream.said =< stream'.said /\ stream'.said =< stream'.settledHere
      /\ stream'.said =< stream'.high
      /\ stream'.stage = "paging" => stream'.said =< stream'.from + Overlap
      /\ Cardinality(PageNow) < Page => PointNow =< stream'.said
  <2>1. CASE /\ Cardinality(PageNow) >= Page /\ stream'.from = FromNow
             /\ stream'.settledHere = stream.settledHere /\ stream'.said = stream.said
    <3>1. ~(Cardinality(PageNow) < Page)
      <4>1. IsFiniteSet(PageNow)
        BY <1>3, PagesAre DEF PageNow, FeedTypeOK
      <4>2. Page \in Nat /\ Cardinality(PageNow) \in Nat
        BY <4>1, FS_CardinalityType, FeedAssumption
      <4>3. QED
        BY <2>1, <4>2
    <3>2. QED
      BY <1>2, <1>3, <1>6, <2>1, <3>1, SMTT(30)
  <2>2. CASE /\ stream'.stage = "idle" /\ stream'.settledHere = SettledNow
             /\ stream'.said = Larger(stream.said, PointNow)
    BY <1>2, <1>3, <1>6, <1>7, <2>2, SMTT(30) DEF Larger
  <2>3. QED
    BY <2>1, <2>2, ReadStream
<1>9. Reached(stream.high, m)'
  <2>1. CASE HighNow = stream.high
    <3>1. CASE stream.high =< tab.last
      BY <1>2, <2>1, <3>1 DEF Reached
    <3>2. CASE ~(stream.high =< tab.last)
      <4>1. PICK j \in 1..Len(wire) : wire[j].kind = "event" /\ stream.high =< wire[j].seq
        BY <1>6, <3>2 DEF Reached
      <4>2. j \in 1..m /\ wire'[j] = wire[j]
        BY <1>4, <1>5, <4>1
      <4>3. QED
        BY <1>2, <2>1, <4>1, <4>2 DEF Reached
    <3>3. QED
      BY <3>1, <3>2
  <2>2. CASE HighNow \in NewNow
    <3>1. PICK j \in (Len(wire) + 1)..m : wire'[j] = Event(HighNow)
      BY <1>5, <2>2
    <3>2. j \in 1..m /\ wire'[j].kind = "event" /\ HighNow =< wire'[j].seq
      BY <1>3, <1>4, <3>1 DEF Event
    <3>3. QED
      BY <1>2, <3>2 DEF Reached
  <2>3. QED
    BY <2>1, <2>2, PageFacts
<1>10. SaidInv'
  <2>1. Reached(stream.high, Len(wire))'
    BY <1>4, <1>5, <1>9 DEF Reached
  <2>2. tab'.settled =< stream'.said \/ tab'.settled =< stream'.after + Overlap
    BY <1>2, <1>3, <1>6, <1>8, SMTT(30)
  <2>3. QED
    BY <1>8, <2>1, <2>2 DEF SaidInv
<1>11. \A j \in 1..Len(wire) : wire[j] \in Frame /\ wire[j].seq \in Nat
  <2>1. \A j \in 1..Len(wire) : wire[j] \in Frame
    BY <1>4, ElementOfSeq
  <2>2. QED
    BY <2>1 DEF Frame
<1>12. \A j \in 1..m : wire'[j].kind = "settled" =>
          j \in 1..Len(wire) /\ wire'[j] = wire[j] /\ wire[j].seq =< stream.said
  <2> SUFFICES ASSUME NEW j \in 1..m, wire'[j].kind = "settled"
               PROVE  j \in 1..Len(wire) /\ wire'[j] = wire[j] /\ wire[j].seq =< stream.said
    OBVIOUS
  <2>1. CASE j \in 1..Len(wire)
    <3>1. wire'[j] = wire[j]
      BY <1>5, <2>1
    <3>2. QED
      BY <2>1, <3>1 DEF LinesInv
  <2>2. CASE j \in (Len(wire) + 1)..m
    <3>1. PICK s \in NewNow : wire'[j] = Event(s)
      BY <1>5, <2>2
    <3>2. wire'[j].kind = "event"
      BY <3>1 DEF Event
    <3>3. QED
      BY <3>2
  <2>3. QED
    BY <1>4, <1>5, <2>1, <2>2
<1>13. LinesInv'
  <2> SUFFICES ASSUME NEW i \in 1..Len(wire')
               PROVE  /\ wire'[i].kind = "event" =>
                            /\ tab.settled < wire'[i].seq + Overlap
                            /\ \A j \in 1..(i - 1) : wire'[j].kind = "settled" =>
                                  wire'[j].seq < wire'[i].seq + Overlap
                      /\ wire'[i].kind = "settled" =>
                            wire'[i].seq =< stream'.said /\ Reached(wire[i].seq, i - 1)'
    BY <1>2 DEF LinesInv
  <2>1. CASE i \in 1..Len(wire)
    <3>1. wire'[i] = wire[i] /\ wire[i].seq \in Nat /\ \A j \in 1..(i - 1) : wire'[j] = wire[j]
      BY <1>4, <1>5, <1>11, <2>1
    <3>2. CASE wire[i].kind = "event"
      BY <2>1, <3>1, <3>2 DEF LinesInv
    <3>3. CASE wire[i].kind = "settled"
      <4>1. wire[i].seq =< stream.said /\ Reached(wire[i].seq, i - 1)
        BY <2>1, <3>3 DEF LinesInv
      <4>2. Reached(wire[i].seq, i - 1)'
        BY <1>2, <3>1, <4>1 DEF Reached
      <4>3. QED
        BY <1>3, <1>8, <3>1, <3>3, <4>1, <4>2, SMTT(30)
    <3>4. QED
      BY <3>1, <3>2, <3>3
  <2>2. CASE i \in (Len(wire) + 1)..m
    <3>1. PICK s \in NewNow : wire'[i] = Event(s)
      BY <1>5, <2>2
    <3>2. /\ wire'[i].kind = "event" /\ wire'[i].seq = s /\ s \in Nat
          /\ s > stream.after /\ s > stream.from
      BY <3>1, PageFacts DEF Event
    <3>3. stream.said < s + Overlap
      <4>1. stream.said =< stream.from + Overlap
        BY <1>6
      <4>2. QED
        BY <1>3, <3>2, <4>1, SMTT(30)
    <3>a. tab.settled < s + Overlap
      <4>1. CASE tab.settled =< stream.said
        BY <1>3, <3>2, <3>3, <4>1, SMTT(30)
      <4>2. CASE tab.settled =< stream.after + Overlap
        BY <1>3, <3>2, <4>2, SMTT(30)
      <4>3. QED
        BY <1>6, <4>1, <4>2
    <3>4. \A j \in 1..(i - 1) : wire'[j].kind = "settled" => wire'[j].seq < s + Overlap
      <4> SUFFICES ASSUME NEW j \in 1..(i - 1), wire'[j].kind = "settled"
                   PROVE  wire'[j].seq < s + Overlap
        OBVIOUS
      <4>1. j \in 1..m
        BY <1>4, <2>2
      <4>2. wire'[j].seq \in Nat /\ wire'[j].seq =< stream.said
        BY <1>11, <1>12, <4>1
      <4>3. QED
        BY <1>3, <3>2, <3>3, <4>2, SMTT(30)
    <3>5. QED
      BY <3>2, <3>a, <3>4
  <2>3. CASE i = m + 1 /\ Len(wire') = m + 1
    <3>1. Cardinality(PageNow) < Page /\ wire'[i] = SettledLine(PointNow)
      BY <1>4, <1>5, <2>3
    <3>2. wire'[i].kind = "settled" /\ wire'[i].seq = PointNow /\ i - 1 = m
      BY <2>3, <3>1 DEF SettledLine
    <3>3. Reached(wire[i].seq, i - 1)'
      <4>1. CASE HighNow =< tab.last
        BY <1>2, <1>3, <1>7, <3>2, <4>1 DEF Reached
      <4>2. CASE ~(HighNow =< tab.last)
        <5>1. PICK j \in 1..m : wire'[j].kind = "event" /\ HighNow =< wire'[j].seq
          BY <1>2, <1>9, <4>2 DEF Reached
        <5>2. wire'[j].seq \in Nat
          <6>1. j \in 1..Len(wire')
            BY <1>4, <1>5
          <6>2. wire'[j] \in Frame
            BY <1>4, <6>1, ElementOfSeq
          <6>3. QED
            BY <6>2 DEF Frame
        <5>3. PointNow =< wire'[j].seq
          BY <1>3, <1>7, <5>1, <5>2
        <5>4. QED
          BY <3>2, <5>1, <5>3 DEF Reached
      <4>3. QED
        BY <4>1, <4>2
    <3>4. QED
      BY <1>8, <3>1, <3>2, <3>3
  <2>4. QED
    BY <1>4, <1>5, <2>1, <2>2, <2>3
<1>14. QED
  BY <1>10, <1>13

(* Lines, heard events and what was said, as the step leaves them alone. *)
LEMMA OnceStill ==
    ASSUME UNCHANGED <<wire, tab, heard>>, LinesInv, HeardInv, stream'.said = stream.said
    PROVE  LinesInv' /\ HeardInv'
BY DEF LinesInv, HeardInv, Reached

LEMMA LookEndsSays ==
    ASSUME FeedTypeOK, SaidInv, LinesInv, HeardInv, LookEnds
    PROVE  SaidInv' /\ LinesInv' /\ HeardInv'
<1>1. UNCHANGED <<wire, tab, heard>>
  BY DEF LookEnds
<1>2. CASE stream.stage # "settling"
  <2>1. stream' = stream
    BY <1>2 DEF LookEnds
  <2>2. QED
    BY <1>1, <2>1, OnceStill DEF SaidInv, Reached
<1>3. CASE stream.stage = "settling"
  <2>1. /\ stream'.stage = "paging" /\ stream'.from = Floor(stream)
        /\ stream'.after = stream.after /\ stream'.high = stream.high
        /\ stream'.settledHere = stream.settledHere /\ stream'.said = stream.said
    BY <1>3 DEF LookEnds, FeedTypeOK
  <2>2. /\ stream.said \in Nat /\ stream.high \in Nat /\ stream.settledHere \in Nat
    BY DEF FeedTypeOK
  <2>3. /\ stream.said =< stream.settledHere /\ stream.said =< stream.high
        /\ tab.settled =< stream.said \/ tab.settled =< stream.after + Overlap
        /\ Reached(stream.high, Len(wire))
    BY <1>3 DEF SaidInv
  <2>4. stream.said =< Floor(stream) + Overlap
    <3> DEFINE p == Smaller(stream.high, stream.settledHere)
    <3>1. p \in Nat /\ stream.said =< p
      BY <2>2, <2>3 DEF Smaller
    <3>2. Floor(stream) = Larger(0, p - Overlap)
      BY DEF Floor
    <3> HIDE DEF p
    <3>3. Floor(stream) \in Nat /\ p =< Floor(stream) + Overlap
      BY <3>1, <3>2, BehindBy
    <3>4. QED
      BY <2>2, <3>1, <3>3, FeedAssumption
  <2>5. Reached(stream.high, Len(wire))'
    BY <1>1, <2>1, <2>3 DEF Reached
  <2>6. SaidInv'
    BY <1>1, <2>1, <2>3, <2>4, <2>5 DEF SaidInv
  <2>7. QED
    BY <1>1, <2>1, <2>6, OnceStill
<1>4. QED
  BY <1>2, <1>3

LEMMA WakeSays ==
    ASSUME FeedTypeOK, SaidInv, LinesInv, HeardInv, Wake
    PROVE  SaidInv' /\ LinesInv' /\ HeardInv'
<1>1. /\ UNCHANGED <<wire, tab, heard>> /\ stream.stage = "idle" /\ stream'.stage = "settling"
      /\ stream'.after = stream.after /\ stream'.high = stream.high
      /\ stream'.settledHere = stream.settledHere /\ stream'.said = stream.said
  BY DEF Wake, FeedTypeOK
<1>2. SaidInv'
  BY <1>1 DEF SaidInv, Reached
<1>3. QED
  BY <1>1, <1>2, OnceStill

(* A tab that connects resumes an overlap behind what was settled of it: what *)
(* its stream may send again, it has not forgotten.                           *)
LEMMA ConnectSays ==
    ASSUME FeedTypeOK, StreamInv, HeardInv, Connect
    PROVE  SaidInv' /\ LinesInv' /\ HeardInv'
<1>a. PICK p : p = Larger(0, ResumePoint(tab) - Overlap)
  OBVIOUS
<1>1. UNCHANGED <<wire, heard>> /\ tab.stage = "down" /\ stream' = Subscribed(p)
  BY <1>a DEF Connect
<1>2. /\ tab'.stage = "up" /\ tab'.settled = tab.settled /\ tab'.last = tab.last
      /\ tab'.delivered = tab.delivered
  BY DEF Connect, FeedTypeOK
<1>3. wire' = <<>>
  BY <1>1 DEF StreamInv
<1>4. /\ stream'.stage = "settling" /\ stream'.said = p /\ stream'.high = p
      /\ stream'.settledHere = p /\ stream'.after = p
  BY <1>1 DEF Subscribed, NoStream
<1>5. p \in Nat /\ p =< tab.last /\ tab.settled =< p + Overlap
  <2>1. tab.settled \in Nat /\ tab.last \in Nat /\ tab.settled =< tab.last
    BY DEF FeedTypeOK, HeardInv
  <2>2. ResumePoint(tab) = tab.settled
    BY <2>1 DEF ResumePoint, Smaller
  <2>3. p \in Nat /\ p =< tab.settled /\ tab.settled =< p + Overlap
    BY <1>a, <2>1, <2>2, BehindBy
  <2>4. QED
    BY <2>1, <2>3
<1>6. SaidInv'
  BY <1>2, <1>4, <1>5 DEF SaidInv, Reached
<1>7. LinesInv'
  BY <1>3 DEF LinesInv
<1>8. HeardInv'
  BY <1>1, <1>2 DEF HeardInv
<1>9. QED
  BY <1>6, <1>7, <1>8

(* The tab hears a frame: the points it had reached, it has, and what is left *)
(* on the wire says as much as it did.                                        *)
LEMMA HearSays ==
    ASSUME FeedTypeOK, FeedTypeOK', SaidInv, LinesInv, UNCHANGED stream,
           wire # <<>>, wire' = Tail(wire), stream.stage # "none",
           tab.last =< tab'.last,
           wire[1].kind = "event" => wire[1].seq =< tab'.last /\ tab'.settled = tab.settled,
           wire[1].kind # "event" =>
              wire[1].kind = "settled" /\ tab'.settled \in {tab.settled, wire[1].seq}
    PROVE  SaidInv' /\ LinesInv'
<1>1. /\ wire \in Seq(Frame) /\ tab.last \in Nat /\ tab'.last \in Nat /\ stream.high \in Nat
      /\ stream.said \in Nat /\ stream.after \in Nat /\ tab.settled \in Nat
  BY DEF FeedTypeOK
<1>2. /\ Len(wire) \in Nat \ {0} /\ Len(wire') = Len(wire) - 1 /\ 1 \in 1..Len(wire)
      /\ \A i \in 1..(Len(wire) - 1) : wire'[i] = wire[i + 1]
      /\ wire[1].seq \in Nat
  BY <1>1, WireHead
<1>3. \A p \in Nat, n \in 1..Len(wire) : Reached(p, n) => Reached(p, n - 1)'
  <2> SUFFICES ASSUME NEW p \in Nat, NEW n \in 1..Len(wire), Reached(p, n)
               PROVE  Reached(p, n - 1)'
    OBVIOUS
  <2>1. CASE p =< tab.last
    BY <1>1, <2>1 DEF Reached
  <2>2. CASE ~(p =< tab.last)
    <3>1. PICK j \in 1..n : wire[j].kind = "event" /\ p =< wire[j].seq
      BY <2>2 DEF Reached
    <3>2. CASE j = 1
      BY <1>1, <1>2, <3>1, <3>2 DEF Reached
    <3>3. CASE j # 1
      <4>1. j - 1 \in 1..(n - 1) /\ j - 1 \in 1..(Len(wire) - 1) /\ (j - 1) + 1 = j
        BY <1>2, <3>3
      <4>2. wire'[j - 1] = wire[j]
        BY <1>2, <4>1
      <4>3. QED
        BY <3>1, <4>1, <4>2 DEF Reached
    <3>4. QED
      BY <3>2, <3>3
  <2>3. QED
    BY <2>1, <2>2
<1>4. SaidInv'
  <2>1. PICK n \in 1..Len(wire) : n = Len(wire)
    <3>1. Len(wire) \in 1..Len(wire)
      BY <1>2
    <3>2. QED
      BY <3>1
  <2>2. Reached(stream.high, n - 1)'
    <3>1. PICK p \in Nat : p = stream.high
      BY <1>1
    <3>2. Reached(p, n)
      BY <2>1, <3>1 DEF SaidInv
    <3>3. Reached(p, n - 1)'
      BY <1>3, <3>2
    <3>4. QED
      BY <3>1, <3>3
  <2>3. Len(wire') = n - 1
    BY <1>2, <2>1
  <2>4. tab'.settled =< stream.said \/ tab'.settled =< stream.after + Overlap
    <3>1. wire[1].kind = "settled" => wire[1].seq =< stream.said
      BY <1>2 DEF LinesInv
    <3>2. QED
      BY <3>1 DEF SaidInv
  <2>5. QED
    BY <2>2, <2>3, <2>4 DEF SaidInv
<1>5. LinesInv'
  <2> SUFFICES ASSUME NEW i \in 1..Len(wire')
               PROVE  /\ wire'[i].kind = "event" =>
                            /\ tab'.settled < wire'[i].seq + Overlap
                            /\ \A j \in 1..(i - 1) : wire'[j].kind = "settled" =>
                                  wire'[j].seq < wire'[i].seq + Overlap
                      /\ wire'[i].kind = "settled" =>
                            wire'[i].seq =< stream.said /\ Reached(wire[i].seq, i - 1)'
    BY DEF LinesInv
  <2>1. /\ i + 1 \in 1..Len(wire) /\ wire'[i] = wire[i + 1] /\ i \in 1..Len(wire)
        /\ (i + 1) - 1 = i /\ i \in Nat
    <3>1. i \in 1..(Len(wire) - 1)
      BY <1>2
    <3>2. QED
      BY <1>2, <3>1
  <2>2. CASE wire[i + 1].kind = "event"
    <3>1. /\ tab.settled < wire[i + 1].seq + Overlap
          /\ \A j \in 1..i : wire[j].kind = "settled" => wire[j].seq < wire[i + 1].seq + Overlap
      BY <2>1, <2>2 DEF LinesInv
    <3>2. tab'.settled < wire'[i].seq + Overlap
      <4>1. 1 \in 1..i
        BY <2>1
      <4>2. QED
        BY <2>1, <3>1, <4>1
    <3>3. \A j \in 1..(i - 1) : j + 1 \in 1..i /\ wire'[j] = wire[j + 1]
      BY <1>2, <2>1
    <3>4. \A j \in 1..(i - 1) : wire'[j].kind = "settled" => wire'[j].seq < wire'[i].seq + Overlap
      BY <2>1, <3>1, <3>3
    <3>5. QED
      BY <2>1, <2>2, <3>2, <3>4
  <2>3. CASE wire[i + 1].kind = "settled"
    <3>1. wire[i + 1].seq =< stream.said /\ Reached(wire[i + 1].seq, i)
      BY <2>1, <2>3 DEF LinesInv
    <3>2. PICK p \in Nat : p = wire[i + 1].seq
      <4>1. wire[i + 1] \in Frame
        BY <1>1, <2>1, ElementOfSeq
      <4>2. QED
        BY <4>1 DEF Frame
    <3>3. Reached(p, i - 1)'
      BY <1>3, <2>1, <3>1, <3>2
    <3>4. wire'[i].seq = p
      BY <2>1, <3>2
    <3>5. QED
      BY <2>1, <2>3, <3>1, <3>2, <3>3, <3>4
  <2>4. CASE wire[i + 1].kind \notin {"event", "settled"}
    BY <2>1, <2>4
  <2>5. QED
    BY <2>2, <2>3, <2>4
<1>6. QED
  BY <1>4, <1>5

LEMMA HearEventSays ==
    ASSUME FeedTypeOK, FeedTypeOK', StreamInv, SaidInv, LinesInv, HeardInv, HearEvent
    PROVE  SaidInv' /\ LinesInv' /\ HeardInv'
<1> PICK s : s = wire[1].seq
  OBVIOUS
<1>1. /\ wire # <<>> /\ wire[1].kind = "event" /\ wire' = Tail(wire) /\ UNCHANGED stream
  BY DEF HearEvent
<1>2. /\ stream.stage # "none" /\ tab.stage = "up"
  BY <1>1 DEF StreamInv
<1>3. /\ s \in Nat /\ tab.settled \in Nat /\ tab.last \in Nat /\ tab.delivered \in SUBSET Nat
      /\ heard \in SUBSET Nat /\ Overlap \in Nat /\ tab.settled =< tab.last
  <2>1. s \in Nat
    BY <1>1, WireHead DEF FeedTypeOK
  <2>2. QED
    BY <2>1, FeedAssumption DEF FeedTypeOK, HeardInv
<1>4. /\ tab'.settled = tab.settled /\ tab'.stage = "up" /\ tab.last =< tab'.last
      /\ s =< tab'.last /\ HeardInv'
  <2>1. CASE s \in tab.delivered
    <3>1. tab' = tab /\ heard' = heard /\ s =< tab.last
      BY <2>1 DEF HearEvent, HeardInv
    <3>2. QED
      BY <1>2, <1>3, <3>1 DEF HeardInv
  <2>2. CASE s \notin tab.delivered
    <3> DEFINE last == Larger(tab.last, s)
    <3>1. tab' = Took(tab, s) /\ heard' = heard \cup {s}
      BY <2>2 DEF HearEvent
    <3>2. last \in Nat /\ tab.last =< last /\ s =< last
      BY <1>3, Extremes
    <3>3. Smaller(last, tab.settled) = tab.settled
      BY <1>3, <3>2 DEF Smaller
    <3>4. /\ Took(tab, s).settled = tab.settled /\ Took(tab, s).stage = tab.stage
          /\ Took(tab, s).last = last
          /\ Took(tab, s).delivered =
                {o \in tab.delivered \cup {s} : o > Smaller(last, tab.settled) - Overlap}
      BY DEF Took, FeedTypeOK, Cutoff, ResumePoint
    <3> HIDE DEF last
    <3>5. \A o \in tab'.delivered : o =< tab'.last
      BY <1>3, <3>1, <3>2, <3>3, <3>4 DEF HeardInv
    <3>6. \A o \in heard' : tab.settled < o + Overlap => o \in tab'.delivered
      <4> SUFFICES ASSUME NEW o \in heard', tab.settled < o + Overlap
                   PROVE  o \in tab'.delivered
        OBVIOUS
      <4>1. o \in tab.delivered \cup {s} /\ o \in Nat
        BY <1>3, <3>1 DEF HeardInv
      <4>2. o > tab.settled - Overlap
        BY <1>3, <4>1
      <4>3. QED
        BY <3>1, <3>3, <3>4, <4>1, <4>2
    <3>7. tab'.settled = tab.settled /\ tab'.stage = "up" /\ tab'.last = last
      BY <1>2, <3>1, <3>4
    <3>8. tab'.settled =< tab'.last
      BY <1>3, <3>2, <3>7
    <3>9. HeardInv'
      BY <3>5, <3>6, <3>7, <3>8 DEF HeardInv
    <3>10. QED
      BY <3>2, <3>7, <3>9
  <2>3. QED
    BY <2>1, <2>2
<1>5. QED
  BY <1>1, <1>2, <1>4, HearSays

LEMMA HearSettledSays ==
    ASSUME FeedTypeOK, FeedTypeOK', StreamInv, SaidInv, LinesInv, HeardInv, HearSettled
    PROVE  SaidInv' /\ LinesInv' /\ HeardInv'
<1>1. /\ wire # <<>> /\ wire[1].kind = "settled" /\ wire' = Tail(wire)
      /\ UNCHANGED <<stream, heard>>
      /\ tab' = [tab EXCEPT !.settled = Larger(@, wire[1].seq)]
  BY DEF HearSettled
<1>2. stream.stage # "none"
  BY <1>1 DEF StreamInv
<1>3. /\ tab'.stage = tab.stage /\ tab'.last = tab.last /\ tab'.delivered = tab.delivered
      /\ tab'.settled = Larger(tab.settled, wire[1].seq)
  BY <1>1 DEF FeedTypeOK
<1>4. /\ tab.settled \in Nat /\ tab.last \in Nat /\ heard \in SUBSET Nat /\ Overlap \in Nat
      /\ wire[1].seq \in Nat /\ 1 \in 1..Len(wire)
  <2>1. wire[1].seq \in Nat /\ 1 \in 1..Len(wire)
    BY <1>1, WireHead DEF FeedTypeOK
  <2>2. QED
    BY <2>1, FeedAssumption DEF FeedTypeOK
<1>5. tab'.settled \in {tab.settled, wire[1].seq} /\ tab.settled =< tab'.settled
  BY <1>3, <1>4 DEF Larger
<1>6. wire[1].seq =< tab.last
  <2>1. Reached(wire[1].seq, 0)
    BY <1>1, <1>4 DEF LinesInv
  <2>2. QED
    BY <2>1 DEF Reached
<1>7. HeardInv'
  <2>1. \A s \in heard : tab'.settled < s + Overlap => tab.settled < s + Overlap
    BY <1>4, <1>5
  <2>2. tab'.settled =< tab'.last
    BY <1>3, <1>5, <1>6 DEF HeardInv
  <2>3. QED
    BY <1>1, <1>3, <2>1, <2>2 DEF HeardInv
<1>8. tab.last =< tab'.last
  BY <1>3, <1>4
<1>9. QED
  BY <1>1, <1>2, <1>5, <1>7, <1>8, HearSays

LEMMA LossSays ==
    ASSUME FeedTypeOK, HeardInv, Drop \/ Restart
    PROVE  SaidInv' /\ LinesInv' /\ HeardInv'
<1>1. stream' = NoStream /\ wire' = <<>> /\ tab' = Down(tab) /\ UNCHANGED heard
  BY DEF Drop, Restart
<1>2. /\ tab'.settled = tab.settled /\ tab'.last = tab.last /\ tab'.delivered = tab.delivered
      /\ tab'.stage = "boot" => tab.stage = "boot"
  BY <1>1 DEF Down, FeedTypeOK
<1>3. QED
  BY <1>1, <1>2 DEF SaidInv, LinesInv, HeardInv, NoStream

LEMMA BootsSays ==
    ASSUME FeedTypeOK, StreamInv, HeardInv, Boots
    PROVE  SaidInv' /\ LinesInv' /\ HeardInv'
<1>1. /\ UNCHANGED <<stream, wire, heard>> /\ stream.stage = "none" /\ wire = <<>> /\ heard = {}
  BY DEF Boots, StreamInv, HeardInv
<1>2. /\ tab'.stage = "down" /\ tab'.last = snap.latest /\ tab'.delivered = {}
      /\ tab'.settled = Smaller(snap.settled, snap.latest)
  BY DEF Boots, NoTab
<1>3. tab'.settled =< tab'.last
  BY <1>2, Extremes DEF FeedTypeOK
<1>4. QED
  BY <1>1, <1>2, <1>3 DEF SaidInv, LinesInv, HeardInv

LEMMA OnceKept ==
    ASSUME FeedTypeOK, [Next]_vars, SentInv, OnceInv
    PROVE  OnceInv'
<1>0. /\ FeedTypeOK' /\ StreamInv /\ SaidInv /\ LinesInv /\ HeardInv
  BY TypesKept DEF SentInv, OnceInv
<1>1. CASE UNCHANGED <<stream, wire, tab, heard>>
  BY <1>1 DEF OnceInv, SaidInv, LinesInv, HeardInv, Reached
<1>2. CASE LookEnds \/ Wake
  BY <1>0, <1>2, LookEndsSays, WakeSays DEF OnceInv
<1>3. CASE ReadPage
  <2>1. UNCHANGED <<tab, heard>>
    BY <1>3 DEF ReadPage
  <2>2. HeardInv'
    BY <2>1 DEF HeardInv, OnceInv
  <2>3. SaidInv' /\ LinesInv'
    BY <1>0, <1>3, ReadPageSays
  <2>4. QED
    BY <2>2, <2>3 DEF OnceInv
<1>4. CASE Client
  BY <1>0, <1>4, ConnectSays, HearEventSays, HearSettledSays DEF Client, OnceInv
<1>5. CASE Boots
  BY <1>0, <1>5, BootsSays DEF OnceInv
<1>6. CASE Drop \/ Restart
  BY <1>0, <1>6, LossSays DEF OnceInv
<1>7. QED
  <2>1. CASE \/ Write \/ Close \/ LookBegins \/ UNCHANGED vars
             \/ AskSnapshot \/ ReadLatest \/ ReadRoster \/ Refreshes
    BY <1>1, <2>1 DEF Write, OpenWrite, Insert, Close, CloseWrite, LookBegins, AskSnapshot,
       ReadLatest, ReadRoster, Refreshes, vars
  <2>2. QED
    BY <1>2, <1>3, <1>4, <1>5, <1>6, <2>1 DEF Next, Look, Streams, Snapshot

(* No event reaches the grid twice: what the tab has forgotten lies an        *)
(* overlap behind what was settled of it, and a stream sends nothing from     *)
(* there again, on this connection or a later one.                            *)
THEOREM EachHeardOnce == Spec => []HeardOnce
<1>1. Init => FeedTypeOK /\ SentInv /\ OnceInv
  <2>1. Init => OnceInv
    BY DEF Init, OnceInv, SaidInv, LinesInv, HeardInv, NoStream, NoTab
  <2>2. QED
    BY <2>1, InitTypes, InitSent
<1>2. FeedTypeOK /\ SentInv /\ OnceInv /\ [Next]_vars => (FeedTypeOK /\ SentInv /\ OnceInv)'
  BY TypesKept, SentKept, OnceKept
<1>3. FeedTypeOK /\ OnceInv => HeardOnce
  <2> SUFFICES ASSUME FeedTypeOK, OnceInv, wire # <<>>, wire[1].kind = "event",
                      wire[1].seq \in heard
               PROVE  wire[1].seq \in tab.delivered
    BY DEF HeardOnce
  <2>1. 1 \in 1..Len(wire)
    BY WireHead DEF FeedTypeOK
  <2>2. tab.settled < wire[1].seq + Overlap
    BY <2>1 DEF OnceInv, LinesInv
  <2>3. QED
    BY <2>2 DEF OnceInv, HeardInv
<1>4. QED
  BY <1>1, <1>2, <1>3, PTL DEF Spec

-----------------------------------------------------------------------------
(* The feed is a Delivery, but for its promise to deliver in the end. *)

(* A step of the table shows more of the lesson, or the same; a step of the   *)
(* feed besides tells the tab of an event that shows, with others, or none.   *)
LEMMA StepPromises ==
    ASSUME FeedTypeOK, SentInv, [Next]_vars
    PROVE  [Promise!Next]_Promise!vars
<1>0. /\ FeedTypeOK' /\ SentInv' /\ Grows /\ TableOK /\ TableOK'
      /\ UNCHANGED table \/ UNCHANGED rest
  BY TypesKept, SentKept, StepGrows DEF FeedTypeOK
<1>1. Shown \subseteq Shown' /\ told' \subseteq Shown'
  BY <1>0 DEF Grows, SentInv, TabInv
<1>2. Shown \in SUBSET (1..MaxRows) /\ Shown' \in SUBSET (1..MaxRows)
  <2>1. Shown \in SUBSET (1..Len(rows)) /\ Len(rows) \in Nat /\ Len(rows) =< MaxRows
    BY <1>0, TableFacts DEF TableOK
  <2>2. Shown' \in SUBSET (1..Len(rows)') /\ Len(rows)' \in Nat /\ Len(rows)' =< MaxRows
    <3>1. Len(rows)' \in Nat /\ Len(rows)' =< MaxRows
      BY <1>0 DEF TableOK
    <3>2. Shown' \in SUBSET (1..Len(rows)')
      BY <1>0, <3>1 DEF Shown, Seqs, TableOK
    <3>3. QED
      BY <3>1, <3>2
  <2>3. QED
    BY <2>1, <2>2, FeedAssumption
<1>3. CASE UNCHANGED rest
  <2>1. Shown' = Shown \cup Shown' /\ told' = told
    BY <1>1, <1>3 DEF rest
  <2>2. Promise!Show
    BY <1>2, <2>1 DEF Promise!Show
  <2>3. QED
    BY <2>2 DEF Promise!Next
<1>4. CASE UNCHANGED table
  <2>1. Shown' = Shown
    BY <1>0, <1>4, StillGrows
  <2>2. told \subseteq told'
    BY DEF Next, Write, OpenWrite, Insert, Close, CloseWrite, Look, LookBegins, LookEnds,
       Streams, Wake, ReadPage, Client, Connect, HearEvent, HearSettled, Snapshot, AskSnapshot,
       ReadLatest, ReadRoster, Boots, Refreshes, Drop, Restart, vars
  <2>3. CASE told' = told
    BY <2>1, <2>3 DEF Promise!vars
  <2>4. CASE told' # told
    <3>1. PICK e \in told' : e \notin told
      BY <2>2, <2>4
    <3>2. /\ e \in Shown \ told /\ told' \in SUBSET Shown /\ told' = told \cup told' \cup {e}
      BY <1>1, <2>1, <2>2, <3>1
    <3>3. Promise!Tell(e) /\ e \in 1..MaxRows
      BY <1>2, <2>1, <3>2 DEF Promise!Tell
    <3>4. QED
      BY <3>3 DEF Promise!Next
  <2>5. QED
    BY <2>3, <2>4
<1>5. QED
  BY <1>0, <1>3, <1>4

(* The feed implements Delivery's steps: what is told is an event that shows, *)
(* and it stays told, over every loss and restart.  That each is told in the  *)
(* end is left to the run.                                                    *)
THEOREM FeedDelivers == Spec => Promise!Init /\ [][Promise!Next]_Promise!vars
<1>1. Init => FeedTypeOK /\ SentInv /\ Promise!Init
  <2>1. Init => Promise!Init
    BY DEF Init, Promise!Init, Shown, Seqs
  <2>2. QED
    BY <2>1, InitTypes, InitSent
<1>2. FeedTypeOK /\ SentInv /\ [Next]_vars => (FeedTypeOK /\ SentInv)'
  BY TypesKept, SentKept
<1>3. FeedTypeOK /\ SentInv /\ [Next]_vars => [Promise!Next]_Promise!vars
  BY StepPromises
<1>4. QED
  BY <1>1, <1>2, <1>3, PTL DEF Spec
=============================================================================
