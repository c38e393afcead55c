---------------------------- MODULE Slides_proofs ----------------------------
(***************************************************************************)
(* That the files in the bucket follow the decks' rows, for any number of  *)
(* decks, any limits of which an upload's, with the route's clock, fits in *)
(* the time its URL writes, and whatever is lost, retried or cut short.    *)
(***************************************************************************)
EXTENDS SlideProps, SequenceTheorems, TLAPS

(* The rows, and what is left of an upload and of the PUTs it began. *)
Deck ==
    [create : BOOLEAN, status : {"pending", "ready", "rejected"}, removed : BOOLEAN,
     writable : Nat, limit : Nat, wait : Nat, stamped : BOOLEAN]
RowsOK == decks \in Seq(Deck)
WireOK ==
    /\ left \in 0 .. UploadLimit
    /\ wire \in [Ids -> 0 .. UploadLimit]

(* A PUT under way lands while its deck's URL still writes. *)
WireWithin == \A d \in Ids \cap Rows : wire[d] =< decks[d].writable

(* The create id is one deck's: the deck a create's answer names.  *)
OneMade == \A c, d \in Made : c = d

(* A deck whose file is being deleted, or is stamped so, is removed or       *)
(* rejected and past its last upload; once deleted, its file stays deleted.  *)
Spent(d) == d \in Rows /\ Gone(d) /\ decks[d].writable = 0
DropSpent(drop) ==
    /\ Spent(drop[1])
    /\ drop[2] = "stamp" => drop[1] \notin stored
DropsSpent == \A drop \in drops : DropSpent(drop)
StampedSpent == \A d \in Rows : decks[d].stamped => Spent(d) /\ d \notin stored

(* A verdict of "ready" is of a file that is still there, or whose deck was  *)
(* removed meanwhile; and a deck that is ready and kept has its file.        *)
CheckRead(check) ==
    check[2] = "ready" =>
        check[1] \in stored \/ (check[1] \in Rows /\ Gone(check[1]))
ChecksRead == \A check \in checks : CheckRead(check)
ReadyKept(d) == decks[d].status = "ready" /\ Kept(d)
ReadyStored == \A d \in Rows : ReadyKept(d) => d \in stored

(* What is shown, or about to be, is a deck ready and kept. *)
ShowsKept ==
    /\ running => Showable(shown.deck)
    /\ \A show \in shows : Showable(show.deck)

FilesInv ==
    /\ RowsOK /\ WireOK /\ WireWithin /\ OneMade
    /\ DropsSpent /\ StampedSpent /\ ChecksRead /\ ReadyStored /\ ShowsKept


-----------------------------------------------------------------------------
(* The rows. *)

LEMMA RowsAre == RowsOK => Rows = 1 .. Len(decks) /\ Len(decks) \in Nat /\ \A d \in Rows : decks[d] \in Deck
  BY LenProperties, ElementOfSeq DEF RowsOK, Rows

(* A write of one deck's row. *)
Writes(d, row) ==
    /\ decks' \in Seq(Deck) /\ DOMAIN decks' = DOMAIN decks
    /\ decks'[d] = row
    /\ \A c \in DOMAIN decks : c # d => decks'[c] = decks[c]

LEMMA RowWritten ==
  ASSUME RowsOK, NEW d \in Rows, NEW row \in Deck, decks' = [decks EXCEPT ![d] = row]
  PROVE  Writes(d, row)
<1>1. d \in 1 .. Len(decks) /\ decks \in Seq(Deck)
  BY RowsAre DEF RowsOK
<1>2. /\ decks' \in Seq(Deck) /\ Len(decks') = Len(decks)
      /\ \A c \in 1 .. Len(decks) : decks'[c] = IF c = d THEN row ELSE decks[c]
  BY <1>1, ExceptSeq
<1>3. DOMAIN decks' = 1 .. Len(decks') /\ DOMAIN decks = 1 .. Len(decks)
  BY <1>1, <1>2, LenProperties
<1>4. QED
  BY <1>1, <1>2, <1>3 DEF Writes

(* What a write of the rows may not undo: a deck gone stays gone, and past   *)
(* its last upload; none is stamped but one whose file is deleted, none      *)
(* becomes ready but one whose file is there, and one ready and kept stays   *)
(* so while it is shown or about to be.                                      *)
RollsOn(d) ==
    /\ Gone(d) => Gone(d)'
    /\ decks'[d].writable = decks[d].writable
    /\ decks'[d].create => decks[d].create
    /\ decks'[d].stamped => decks[d].stamped \/ <<d, "stamp">> \in drops
    /\ ReadyKept(d)' => ReadyKept(d) \/ d \in stored
    /\ ReadyKept(d) /\ (Locked(d) \/ InUse(d)) => ReadyKept(d)'
Rolls == decks' \in Seq(Deck) /\ Rows' = Rows /\ \A d \in Rows : RollsOn(d)

LEMMA RollingKeeps ==
  ASSUME FilesInv, Rolls, UNCHANGED <<stored, shown, left, wire>>,
         running' => running, shows' \subseteq shows, checks' \subseteq checks,
         \A drop \in drops' \ drops : DropSpent(drop)'
  PROVE  FilesInv'
<1>1. RowsOK' /\ WireOK' /\ Rows' = Rows
  BY DEF FilesInv, Rolls, RowsOK, WireOK, Rows
<1>2. \A d \in Rows : RollsOn(d)
  BY DEF Rolls
<1>3. WireWithin'
  BY <1>1, <1>2 DEF FilesInv, WireWithin, RollsOn
<1>4. OneMade'
  BY <1>1, <1>2 DEF FilesInv, OneMade, Made, RollsOn
<1>5. \A d \in Rows : Spent(d) => Spent(d)'
  BY <1>1, <1>2 DEF Spent, RollsOn
<1>6. \A drop \in drops : DropSpent(drop) => DropSpent(drop)'
  <2> SUFFICES ASSUME NEW drop \in drops, DropSpent(drop) PROVE DropSpent(drop)'
    OBVIOUS
  <2> DEFINE d == drop[1]
  <2>1. Spent(d) /\ d \in Rows /\ (drop[2] = "stamp" => d \notin stored)
    BY DEF DropSpent, Spent
  <2>2. Spent(d)'
    BY <1>5, <2>1
  <2>3. QED
    BY <2>1, <2>2 DEF DropSpent
<1>7. DropsSpent'
  BY <1>6 DEF FilesInv, DropsSpent
<1>8. StampedSpent'
  <2> SUFFICES ASSUME NEW d \in Rows, decks'[d].stamped PROVE Spent(d)' /\ d \notin stored'
    BY <1>1 DEF StampedSpent
  <2>1. CASE decks[d].stamped
    BY <1>5, <2>1 DEF FilesInv, StampedSpent
  <2>2. CASE <<d, "stamp">> \in drops
    <3>1. DropSpent(<<d, "stamp">>)
      BY <2>2 DEF FilesInv, DropsSpent
    <3>2. Spent(d) /\ d \notin stored
      BY <3>1 DEF DropSpent
    <3>3. QED
      BY <1>5, <3>2
  <2>3. QED
    BY <1>2, <2>1, <2>2 DEF RollsOn
<1>9. ChecksRead'
  <2> SUFFICES ASSUME NEW check \in checks PROVE CheckRead(check)'
    BY DEF ChecksRead
  <2>1. CheckRead(check)
    BY DEF FilesInv, ChecksRead
  <2>2. check[1] \in Rows /\ Gone(check[1]) => Gone(check[1])'
    BY <1>2 DEF RollsOn
  <2>3. QED
    BY <1>1, <2>1, <2>2 DEF CheckRead
<1>10. ReadyStored'
  BY <1>1, <1>2 DEF FilesInv, ReadyStored, RollsOn
<1>11. ShowsKept'
  <2>1. running => Showable(shown.deck)'
    <3> SUFFICES ASSUME running PROVE Showable(shown.deck)'
      OBVIOUS
    <3>1. Showable(shown.deck) /\ (shown.deck # NoDeck => InUse(shown.deck))
      BY DEF FilesInv, ShowsKept, InUse
    <3>2. QED
      BY <1>1, <1>2, <3>1 DEF Showable, RollsOn, ReadyKept
  <2>2. ASSUME NEW show \in shows PROVE Showable(show.deck)'
    <3>1. Showable(show.deck) /\ Locked(show.deck)
      BY DEF FilesInv, ShowsKept, Locked
    <3>2. QED
      BY <1>1, <1>2, <3>1 DEF Showable, RollsOn, ReadyKept
  <2>3. QED
    BY <2>1, <2>2 DEF ShowsKept
<1>12. QED
  BY <1>1, <1>3, <1>4, <1>7, <1>8, <1>9, <1>10, <1>11 DEF FilesInv

(* A drop of one deck: the file of one that is gone and past its uploads. *)
LEMMA DropAfter ==
  ASSUME NEW d \in Rows, Rows' = Rows, Gone(d)',
         decks'[d].writable = decks[d].writable,
         drops' = DropsAfter(d) \/ drops' = drops
  PROVE  \A drop \in drops' \ drops : DropSpent(drop)'
<1> SUFFICES ASSUME NEW drop \in drops' \ drops PROVE DropSpent(drop)'
  OBVIOUS
<1>1. drop = <<d, "delete">> /\ decks[d].writable = 0
  BY DEF DropsAfter
<1>2. Spent(d)'
  BY <1>1 DEF Spent
<1>3. drop[1] = d /\ drop[2] = "delete"
  BY <1>1
<1>4. QED
  BY <1>2, <1>3 DEF DropSpent

-----------------------------------------------------------------------------
(* The steps that write a deck's row. *)

(* A step that writes no row rolls them on. *)
LEMMA StillRolls == FilesInv /\ decks' = decks => Rolls
  BY DEF FilesInv, RowsOK, Rolls, RollsOn, Rows, Gone, Kept, ReadyKept

LEMMA RemoveKeeps ==
  ASSUME FilesInv, NEW d \in Rows, removeDeck(d), UNCHANGED uploadVars
  PROVE  FilesInv'
<1> DEFINE row == [decks[d] EXCEPT !.removed = TRUE, !.create = FALSE]
<1>1. RowsOK /\ decks[d] \in Deck
  BY RowsAre DEF FilesInv
<1>2. row \in Deck /\ decks' = [decks EXCEPT ![d] = row]
  BY <1>1 DEF Deck, removeDeck
<1>3. Writes(d, row)
  BY <1>1, <1>2, RowWritten
<1>4. /\ decks'[d].removed /\ ~decks'[d].create
      /\ decks'[d].status = decks[d].status /\ decks'[d].writable = decks[d].writable
      /\ decks'[d].stamped = decks[d].stamped
  BY <1>1, <1>3 DEF Deck, Writes
<1>5. ~Locked(d) /\ ~InUse(d)
  BY DEF removeDeck
<1>6. Rolls
  <2> SUFFICES ASSUME NEW c \in Rows PROVE RollsOn(c)
    BY <1>3 DEF Rolls, Writes, Rows
  <2>1. CASE c = d
    BY <1>4, <1>5, <2>1 DEF RollsOn, Gone, ReadyKept, Kept
  <2>2. CASE c # d
    BY <1>3, <2>2 DEF RollsOn, Gone, ReadyKept, Kept, Writes, Rows
  <2>3. QED
    BY <2>1, <2>2
<1>7. \A drop \in drops' \ drops : DropSpent(drop)'
  <2>1. Gone(d)' /\ Rows' = Rows
    BY <1>4, <1>6 DEF Gone, Rolls
  <2>2. drops' = DropsAfter(d)
    BY DEF removeDeck
  <2>3. QED
    BY <1>4, <2>1, <2>2, DropAfter
<1>8. UNCHANGED <<stored, checks, running, shown, shows, left, wire>>
  BY DEF removeDeck, board, uploadVars
<1>9. QED
  BY <1>6, <1>7, <1>8, RollingKeeps

LEMMA RemovedAgainKeeps ==
  ASSUME FilesInv, NEW d \in Rows, RemovedAgain(d), UNCHANGED uploadVars
  PROVE  FilesInv'
<1>1. decks' = decks /\ drops' = DropsAfter(d) /\ Gone(d)
  BY DEF RemovedAgain, Gone, Kept
<1>2. \A drop \in drops' \ drops : DropSpent(drop)'
  <2>1. Rows' = Rows /\ Gone(d)' /\ decks'[d].writable = decks[d].writable
    BY <1>1 DEF Rows, Gone
  <2>2. QED
    BY <1>1, <2>1, DropAfter
<1>3. UNCHANGED <<stored, checks, running, shown, shows, left, wire>>
  BY DEF RemovedAgain, board, uploadVars
<1>4. QED
  BY <1>1, <1>2, <1>3, StillRolls, RollingKeeps

(* A verdict of "ready" recorded of a deck nobody removed: its file is there. *)
LEMMA CompleteKeeps ==
  ASSUME FilesInv, NEW d \in Rows, NEW status \in {"ready", "rejected"},
         completeDeck(d, status), UNCHANGED uploadVars
  PROVE  FilesInv'
<1> DEFINE row == [decks[d] EXCEPT !.status = status, !.create = FALSE]
<1>1. RowsOK /\ decks[d] \in Deck
  BY RowsAre DEF FilesInv
<1>2. UNCHANGED <<stored, running, shown, shows, left, wire>> /\ checks' \subseteq checks
  BY DEF completeDeck, board, uploadVars
<1>3. CASE ~Unchecked(d)
  <2>1. decks' = decks /\ drops' = drops
    BY <1>3 DEF completeDeck
  <2>2. QED
    BY <1>2, <2>1, StillRolls, RollingKeeps
<1>4. CASE Unchecked(d)
  <2>1. row \in Deck /\ decks' = [decks EXCEPT ![d] = row]
    BY <1>1, <1>4 DEF Deck, completeDeck
  <2>2. Writes(d, row)
    BY <1>1, <2>1, RowWritten
  <2>3. /\ decks'[d].status = status /\ ~decks'[d].create
        /\ decks'[d].removed = decks[d].removed /\ decks'[d].writable = decks[d].writable
        /\ decks'[d].stamped = decks[d].stamped
    BY <1>1, <2>2 DEF Deck, Writes
  <2>4. ~Gone(d) /\ ~ReadyKept(d)
    BY <1>4 DEF Unchecked, Gone, ReadyKept, Kept
  <2>5. status = "ready" => d \in stored
    <3> SUFFICES ASSUME status = "ready" PROVE d \in stored
      OBVIOUS
    <3>1. CheckRead(<<d, "ready">>)
      BY DEF FilesInv, ChecksRead, completeDeck
    <3>2. QED
      BY <2>4, <3>1 DEF CheckRead
  <2>6. Rolls
    <3> SUFFICES ASSUME NEW c \in Rows PROVE RollsOn(c)
      BY <2>2 DEF Rolls, Writes, Rows
    <3>1. CASE c = d
      BY <2>3, <2>4, <2>5, <3>1 DEF RollsOn, ReadyKept
    <3>2. CASE c # d
      BY <2>2, <3>2 DEF RollsOn, Gone, ReadyKept, Kept, Writes, Rows
    <3>3. QED
      BY <3>1, <3>2
  <2>7. \A drop \in drops' \ drops : DropSpent(drop)'
    <3>1. CASE status = "rejected"
      <4>1. drops' = DropsAfter(d) /\ Gone(d)' /\ Rows' = Rows
        BY <1>4, <2>3, <2>6, <3>1 DEF completeDeck, Gone, Rolls
      <4>2. QED
        BY <2>3, <4>1, DropAfter
    <3>2. CASE status # "rejected"
      BY <1>4, <3>2 DEF completeDeck
    <3>3. QED
      BY <3>1, <3>2
  <2>8. QED
    BY <1>2, <2>6, <2>7, RollingKeeps
<1>5. QED
  BY <1>3, <1>4

LEMMA RejectKeeps ==
  ASSUME FilesInv, NEW d \in Rows, rejectUnfinishedDecks(d), UNCHANGED uploadVars
  PROVE  FilesInv'
<1> DEFINE row == [decks[d] EXCEPT !.status = "rejected"]
<1>1. RowsOK /\ decks[d] \in Deck
  BY RowsAre DEF FilesInv
<1>2. row \in Deck /\ decks' = [decks EXCEPT ![d] = row]
  BY <1>1 DEF Deck, rejectUnfinishedDecks
<1>3. Writes(d, row)
  BY <1>1, <1>2, RowWritten
<1>4. /\ decks'[d].status = "rejected" /\ decks'[d].create = decks[d].create
      /\ decks'[d].writable = decks[d].writable /\ decks'[d].stamped = decks[d].stamped
      /\ ~ReadyKept(d)
  BY <1>1, <1>3 DEF Deck, Writes, rejectUnfinishedDecks, Unchecked, ReadyKept
<1>5. Rolls
  <2> SUFFICES ASSUME NEW c \in Rows PROVE RollsOn(c)
    BY <1>3 DEF Rolls, Writes, Rows
  <2>1. CASE c = d
    BY <1>4, <2>1 DEF RollsOn, Gone, ReadyKept
  <2>2. CASE c # d
    BY <1>3, <2>2 DEF RollsOn, Gone, ReadyKept, Kept, Writes, Rows
  <2>3. QED
    BY <2>1, <2>2
<1>6. UNCHANGED <<stored, checks, drops, running, shown, shows, left, wire>>
  BY DEF rejectUnfinishedDecks, bucket, board, uploadVars
<1>7. QED
  BY <1>5, <1>6, RollingKeeps

LEMMA ClaimKeeps ==
  ASSUME FilesInv, NEW d \in Rows, claimDecksToDrop(d), UNCHANGED uploadVars
  PROVE  FilesInv'
<1> DEFINE row == [decks[d] EXCEPT !.wait = Backoff]
<1>1. RowsOK /\ decks[d] \in Deck
  BY RowsAre DEF FilesInv
<1>2. row \in Deck /\ decks' = [decks EXCEPT ![d] = row]
  BY <1>1, DecksAssumption DEF Deck, claimDecksToDrop
<1>3. Writes(d, row)
  BY <1>1, <1>2, RowWritten
<1>4. /\ decks'[d].status = decks[d].status /\ decks'[d].create = decks[d].create
      /\ decks'[d].removed = decks[d].removed
      /\ decks'[d].writable = decks[d].writable /\ decks'[d].stamped = decks[d].stamped
  BY <1>1, <1>3 DEF Deck, Writes
<1>5. Rolls
  <2> SUFFICES ASSUME NEW c \in Rows PROVE RollsOn(c)
    BY <1>3 DEF Rolls, Writes, Rows
  <2>1. CASE c = d
    BY <1>4, <2>1 DEF RollsOn, Gone, ReadyKept, Kept
  <2>2. CASE c # d
    BY <1>3, <2>2 DEF RollsOn, Gone, ReadyKept, Kept, Writes, Rows
  <2>3. QED
    BY <2>1, <2>2
<1>6. \A drop \in drops' \ drops : DropSpent(drop)'
  <2>1. Gone(d)' /\ Rows' = Rows
    BY <1>4, <1>5 DEF claimDecksToDrop, ToDrop, Gone, Rolls
  <2>2. drops' = DropsAfter(d)
    BY DEF claimDecksToDrop, DropsAfter
  <2>3. QED
    BY <1>4, <2>1, <2>2, DropAfter
<1>7. UNCHANGED <<stored, checks, running, shown, shows, left, wire>>
  BY DEF claimDecksToDrop, board, uploadVars
<1>8. QED
  BY <1>5, <1>6, <1>7, RollingKeeps

LEMMA StampKeeps ==
  ASSUME FilesInv, NEW d \in Rows, stampObjectDeleted(d), UNCHANGED uploadVars
  PROVE  FilesInv'
<1> DEFINE row == [decks[d] EXCEPT !.stamped = TRUE]
<1>1. RowsOK /\ decks[d] \in Deck
  BY RowsAre DEF FilesInv
<1>2. row \in Deck /\ decks' = [decks EXCEPT ![d] = row]
  BY <1>1 DEF Deck, stampObjectDeleted
<1>3. Writes(d, row)
  BY <1>1, <1>2, RowWritten
<1>4. /\ decks'[d].status = decks[d].status /\ decks'[d].create = decks[d].create
      /\ decks'[d].removed = decks[d].removed /\ decks'[d].writable = decks[d].writable
  BY <1>1, <1>3 DEF Deck, Writes
<1>5. <<d, "stamp">> \in drops
  BY DEF stampObjectDeleted
<1>6. Rolls
  <2> SUFFICES ASSUME NEW c \in Rows PROVE RollsOn(c)
    BY <1>3 DEF Rolls, Writes, Rows
  <2>1. CASE c = d
    BY <1>4, <1>5, <2>1 DEF RollsOn, Gone, ReadyKept, Kept
  <2>2. CASE c # d
    BY <1>3, <2>2 DEF RollsOn, Gone, ReadyKept, Kept, Writes, Rows
  <2>3. QED
    BY <2>1, <2>2
<1>7. UNCHANGED <<stored, checks, running, shown, shows, left, wire>> /\ drops' \subseteq drops
  BY DEF stampObjectDeleted, board, uploadVars
<1>8. QED
  BY <1>6, <1>7, RollingKeeps

-----------------------------------------------------------------------------
(* The steps that write none, or the create's and the clock's. *)

(* A file deleted was of a deck that is gone: none that is ready loses its  *)
(* file, and none reads a verdict of it.                                    *)
LEMMA DeletedKeeps ==
  ASSUME FilesInv, NEW d \in Rows, Deleted(d), UNCHANGED uploadVars
  PROVE  FilesInv'
<1>1. /\ UNCHANGED <<decks, checks, running, shown, shows, left, wire>>
      /\ Rows' = Rows /\ stored' = stored \ {d}
  BY DEF Deleted, board, uploadVars, Rows
<1>2. Spent(d)
  <2>1. DropSpent(<<d, "delete">>)
    BY DEF Deleted, FilesInv, DropsSpent
  <2>2. QED
    BY <2>1 DEF DropSpent
<1>3. RowsOK' /\ WireOK' /\ WireWithin' /\ OneMade' /\ ShowsKept'
  BY <1>1 DEF FilesInv, RowsOK, WireOK, WireWithin, OneMade, Made, ShowsKept, Showable, Kept, Rows
<1>4. \A c : Spent(c)' <=> Spent(c)
  BY <1>1 DEF Spent, Gone
<1>5. DropsSpent'
  <2> SUFFICES ASSUME NEW drop \in drops' PROVE DropSpent(drop)'
    BY DEF DropsSpent
  <2>1. CASE drop \in drops
    <3>1. DropSpent(drop)
      BY <2>1 DEF FilesInv, DropsSpent
    <3>2. QED
      BY <1>1, <1>4, <3>1 DEF DropSpent
  <2>2. CASE drop = <<d, "stamp">>
    <3>1. drop[1] = d
      BY <2>2
    <3>2. QED
      BY <1>1, <1>2, <1>4, <3>1 DEF DropSpent
  <2>3. QED
    BY <2>1, <2>2 DEF Deleted
<1>6. StampedSpent'
  BY <1>1, <1>4 DEF FilesInv, StampedSpent
<1>7. ChecksRead'
  <2> SUFFICES ASSUME NEW check \in checks PROVE CheckRead(check)'
    BY <1>1 DEF ChecksRead
  <2>1. CheckRead(check)
    BY DEF FilesInv, ChecksRead
  <2>2. QED
    BY <1>1, <1>2, <2>1 DEF CheckRead, Spent, Gone
<1>8. ReadyStored'
  BY <1>1, <1>2 DEF FilesInv, ReadyStored, ReadyKept, Spent, Gone, Kept
<1>9. QED
  BY <1>3, <1>5, <1>6, <1>7, <1>8 DEF FilesInv

(* A PUT lands while its deck's URL writes: none lands on a deck whose file *)
(* is deleted.                                                              *)
LEMMA PutLandsKeeps ==
  ASSUME FilesInv, NEW d \in Ids, PutLands(d)
  PROVE  FilesInv'
<1>1. /\ UNCHANGED <<decks, checks, drops, running, shown, shows, left, wire>>
      /\ Rows' = Rows /\ stored' = stored \cup {d}
  BY DEF PutLands, board, Rows
<1>2. ~Spent(d)
  <2>1. wire[d] \in Nat /\ wire[d] > 0
    BY UploadAssumption DEF PutLands, FilesInv, WireOK
  <2>2. d \in Rows => wire[d] =< decks[d].writable
    BY DEF FilesInv, WireWithin
  <2>3. QED
    BY <2>1, <2>2 DEF Spent
<1>3. RowsOK' /\ WireOK' /\ WireWithin' /\ OneMade' /\ ShowsKept'
  BY <1>1 DEF FilesInv, RowsOK, WireOK, WireWithin, OneMade, Made, ShowsKept, Showable, Kept, Rows
<1>4. \A c : Spent(c)' <=> Spent(c)
  BY <1>1 DEF Spent, Gone
<1>5. DropsSpent'
  <2> SUFFICES ASSUME NEW drop \in drops PROVE DropSpent(drop)'
    BY <1>1 DEF DropsSpent
  <2>1. DropSpent(drop)
    BY DEF FilesInv, DropsSpent
  <2>2. QED
    BY <1>1, <1>2, <1>4, <2>1 DEF DropSpent
<1>6. StampedSpent'
  BY <1>1, <1>2, <1>4 DEF FilesInv, StampedSpent
<1>7. ChecksRead'
  <2> SUFFICES ASSUME NEW check \in checks PROVE CheckRead(check)'
    BY <1>1 DEF ChecksRead
  <2>1. CheckRead(check)
    BY DEF FilesInv, ChecksRead
  <2>2. QED
    BY <1>1, <2>1 DEF CheckRead, Gone
<1>8. ReadyStored'
  BY <1>1 DEF FilesInv, ReadyStored, ReadyKept, Kept
<1>9. QED
  BY <1>3, <1>5, <1>6, <1>7, <1>8 DEF FilesInv

(* A verdict is reached of the file as it is. *)
LEMMA CheckKeeps ==
  ASSUME FilesInv, NEW d, checkDeck(d), UNCHANGED uploadVars
  PROVE  FilesInv'
<1>1. UNCHANGED <<decks, stored, drops, running, shown, shows, left, wire>> /\ Rows' = Rows
  BY DEF checkDeck, board, uploadVars, Rows
<1>2. ChecksRead'
  <2> SUFFICES ASSUME NEW check \in checks' PROVE CheckRead(check)'
    BY DEF ChecksRead
  <2>1. CASE check \in checks
    <3>1. CheckRead(check)
      BY <2>1 DEF FilesInv, ChecksRead
    <3>2. QED
      BY <1>1, <3>1 DEF CheckRead, Gone
  <2>2. CASE check \notin checks
    <3>1. PICK status \in IF d \in stored THEN {"ready", "rejected"} ELSE {"rejected"} :
            check = <<d, status>>
      BY <2>2 DEF checkDeck
    <3>2. check[1] = d /\ check[2] = status
      BY <3>1
    <3>3. QED
      BY <1>1, <3>1, <3>2 DEF CheckRead
  <2>3. QED
    BY <2>1, <2>2
<1>3. QED
  BY <1>1, <1>2 DEF FilesInv, RowsOK, WireOK, WireWithin, OneMade, Made, DropsSpent, DropSpent,
       StampedSpent, Spent, Gone, ReadyStored, ReadyKept, ShowsKept, Showable, Kept, Rows

(* What is begun or written of the slides is of a deck ready and kept. *)
LEMMA ShowingKeeps ==
  ASSUME FilesInv, UNCHANGED <<decks, bucket, left, wire>>, ShowsKept'
  PROVE  FilesInv'
  BY DEF FilesInv, bucket, RowsOK, WireOK, WireWithin, OneMade, Made, DropsSpent, DropSpent,
       StampedSpent, Spent, Gone, ChecksRead, CheckRead, ReadyStored, ReadyKept, Kept, Rows

LEMMA HoldsKeeps ==
  ASSUME FilesInv, NEW show, HoldsShow(show), UNCHANGED uploadVars
  PROVE  FilesInv'
<1>1. UNCHANGED <<decks, bucket, left, wire, running, shown>>
  BY DEF HoldsShow, uploadVars
<1>2. \A d : Showable(d)' <=> Showable(d)
  BY <1>1 DEF Showable, Kept, Rows
<1>3. ShowsKept'
  BY <1>1, <1>2 DEF FilesInv, ShowsKept, HoldsShow
<1>4. QED
  BY <1>1, <1>3, ShowingKeeps

LEMMA ShowSlideKeeps ==
  ASSUME FilesInv, NEW show, showSlide(show), UNCHANGED uploadVars
  PROVE  FilesInv'
<1>1. UNCHANGED <<decks, bucket, left, wire, running>> /\ shows' \subseteq shows
  BY DEF showSlide, uploadVars
<1>2. \A d : Showable(d)' <=> Showable(d)
  BY <1>1 DEF Showable, Kept, Rows
<1>3. ShowsKept'
  <2>1. shown' = show \/ shown' = shown
    BY DEF showSlide
  <2>2. show \in shows
    BY DEF showSlide
  <2>3. QED
    BY <1>1, <1>2, <2>1, <2>2 DEF FilesInv, ShowsKept
<1>4. QED
  BY <1>1, <1>3, ShowingKeeps

(* Steps that only end what was begun. *)
LEMMA EndsKeep ==
  ASSUME FilesInv, UNCHANGED <<decks, stored, shown, left, wire>>,
         running' => running, shows' \subseteq shows,
         checks' \subseteq checks, drops' \subseteq drops
  PROVE  FilesInv'
  BY StillRolls, RollingKeeps

(* A create mints its URL: the uploads of its answer fit in what it writes. *)
LEMMA MintsEnough ==
  ASSUME NEW late \in 0 .. Slow
  PROVE  Writable - late \in Nat /\ UploadLimit =< Writable - late
  BY DecksAssumption, UploadAssumption

LEMMA FreshDeck ==
  ASSUME NEW late \in 0 .. Slow
  PROVE  /\ Fresh(late) \in Deck /\ Fresh(late).create /\ ~Fresh(late).stamped
         /\ Fresh(late).status = "pending" /\ Fresh(late).writable = Writable - late
<1>1. Writable - late \in Nat /\ PendingLimit \in Nat
  BY MintsEnough, DecksAssumption
<1>2. QED
  BY <1>1 DEF Fresh, Deck

(* The create's deck: the one it made, or found; and no other row written. *)
Creates(d) ==
    /\ decks' \in Seq(Deck)
    /\ \/ Rows' = Rows \cup {d} /\ d \notin Rows
       \/ Rows' = Rows /\ d \in Made /\ ~Gone(d) /\ decks[d].status = "pending"
    /\ UploadLimit =< decks'[d].writable
    /\ decks'[d].create /\ ~decks'[d].stamped /\ decks'[d].status = "pending"
    /\ \A c \in Rows : c # d => decks'[c] = decks[c] /\ ~decks[c].create

LEMMA CreateMakes ==
  ASSUME FilesInv, NEW late \in 0 .. Slow, createDeck(late)
  PROVE  \E d \in Rows' : Creates(d) /\ Made' = {d}
<1>1. RowsOK /\ decks \in Seq(Deck) /\ Len(decks) \in Nat /\ Rows = 1 .. Len(decks)
      /\ \A d \in Rows : decks[d] \in Deck
  BY RowsAre DEF FilesInv, RowsOK
<1>2. CASE Made = {} /\ decks' = Append(decks, Fresh(late))
  <2> DEFINE d == Len(decks) + 1
  <2>1. /\ decks' \in Seq(Deck) /\ Len(decks') = d /\ decks'[d] = Fresh(late)
        /\ \A c \in 1 .. Len(decks) : decks'[c] = decks[c]
    BY <1>1, <1>2, FreshDeck, AppendProperties
  <2>2. Rows' = 1 .. d
    BY <2>1, LenProperties DEF Rows
  <2>3. Rows' = Rows \cup {d} /\ d \notin Rows
    BY <1>1, <2>2
  <2>4. Creates(d)
    <3>1. Fresh(late).create /\ ~Fresh(late).stamped /\ Fresh(late).status = "pending"
          /\ UploadLimit =< Fresh(late).writable
      BY FreshDeck, MintsEnough
    <3>2. \A c \in Rows : ~decks[c].create
      BY <1>2 DEF Made
    <3>3. QED
      BY <1>1, <2>1, <2>3, <3>1, <3>2 DEF Creates
  <2>5. Made' = {d}
    BY <1>1, <1>2, <2>1, <2>3, FreshDeck DEF Made
  <2>6. QED
    BY <2>3, <2>4, <2>5
<1>3. ASSUME NEW d \in Made, Replays(d), ReplayCreate(d, late) PROVE Creates(d) /\ Made' = {d} /\ d \in Rows'
  <2> DEFINE row == [decks[d] EXCEPT !.writable = Writable - late]
  <2>1. d \in Rows /\ decks[d].create /\ decks[d] \in Deck
    BY <1>1 DEF Made
  <2>2. row \in Deck /\ decks' = [decks EXCEPT ![d] = row]
    BY <1>3, <2>1, MintsEnough DEF Deck, ReplayCreate
  <2>3. Writes(d, row)
    BY <1>1, <2>1, <2>2, RowWritten
  <2>4. /\ decks'[d].writable = Writable - late /\ decks'[d].create = decks[d].create
        /\ decks'[d].stamped = decks[d].stamped /\ decks'[d].status = decks[d].status
        /\ decks'[d].removed = decks[d].removed
    BY <2>1, <2>3 DEF Deck, Writes
  <2>5. ~Gone(d) /\ decks[d].status = "pending"
    BY <1>3 DEF Replays, Gone, Kept
  <2>6. ~decks[d].stamped
    BY <2>1, <2>5 DEF FilesInv, StampedSpent, Spent
  <2>7. \A c \in Rows : c # d => ~decks[c].create
    BY DEF FilesInv, OneMade, Made
  <2>8. Rows' = Rows
    BY <2>3 DEF Writes, Rows
  <2>9. Creates(d)
    BY <2>1, <2>3, <2>4, <2>5, <2>6, <2>7, <2>8, MintsEnough DEF Creates, Writes, Rows
  <2>10. Made' = {d}
    BY <2>1, <2>4, <2>8, <2>9 DEF Made, Creates
  <2>11. QED
    BY <2>1, <2>8, <2>9, <2>10
<1>4. QED
  BY <1>2, <1>3 DEF createDeck

(* What the create keeps, whether or not its answer comes. *)
LEMMA CreateKeeps ==
  ASSUME FilesInv, CreateServed
  PROVE  FilesInv'
<1>1. /\ UNCHANGED <<stored, checks, drops, running, shown, shows, left>>
  BY DEF CreateServed, bucket, board
<1>2. CASE UNCHANGED <<decks, wire>>
  BY <1>1, <1>2, EndsKeep
<1>3. ASSUME NEW late \in 0 .. Slow, createDeck(late), Answered PROVE FilesInv'
  <2>1. PICK d \in Rows' : Creates(d) /\ Made' = {d}
    BY <1>3, CreateMakes
  <2>2. MadeNow = d
    BY <2>1 DEF MadeNow
  <2>3. wire' = wire \/ wire' = [wire EXCEPT ![d] = Longest(wire[d], left)]
    BY <1>3, <2>2 DEF Answered, PutBegins
  <2>4. WireOK'
    <3>1. \A a, b \in 0 .. UploadLimit : Longest(a, b) \in 0 .. UploadLimit
      BY DEF Longest
    <3>2. QED
      BY <1>1, <2>3, <3>1 DEF FilesInv, WireOK
  <2>5. \A c \in Ids : c # d => wire'[c] = wire[c]
    BY <2>3 DEF FilesInv, WireOK
  <2>6. \A c \in Rows : c \in Rows' /\ (c # d => decks'[c] = decks[c])
    BY <2>1 DEF Creates
  <2>7. \A c \in Rows' : c \in Rows \/ c = d
    BY <2>1 DEF Creates
  <2>8. \A c \in Rows : Gone(c) => c # d
    BY <2>1 DEF Creates
  <2>9. RowsOK'
    BY <2>1 DEF Creates, RowsOK
  <2>10. WireWithin'
    <3> SUFFICES ASSUME NEW c \in Ids, c \in Rows' PROVE wire'[c] =< decks'[c].writable
      BY DEF WireWithin, Ids
    <3>1. CASE c = d
      <4>1. wire'[d] \in 0 .. UploadLimit
        BY <2>4, <3>1 DEF WireOK, Ids
      <4>2. UploadLimit =< decks'[d].writable /\ decks'[d].writable \in Nat
        <5>1. decks' \in Seq(Deck) /\ d \in DOMAIN decks' /\ UploadLimit =< decks'[d].writable
          BY <2>1 DEF Creates, Rows
        <5>2. d \in 1 .. Len(decks')
          BY <5>1, LenProperties
        <5>3. decks'[d] \in Deck
          BY <5>1, <5>2, ElementOfSeq
        <5>4. QED
          BY <5>1, <5>3 DEF Deck
      <4>3. QED
        BY <3>1, <4>1, <4>2, UploadAssumption
    <3>2. CASE c # d
      BY <2>5, <2>6, <2>7, <3>2 DEF FilesInv, WireWithin
    <3>3. QED
      BY <3>1, <3>2
  <2>11. OneMade'
    BY <2>1 DEF OneMade
  <2>12. \A c : Spent(c) => Spent(c)'
    BY <2>6, <2>8 DEF Spent, Gone
  <2>13. DropsSpent'
    BY <1>1, <2>12 DEF FilesInv, DropsSpent, DropSpent
  <2>14. StampedSpent'
    <3> SUFFICES ASSUME NEW c \in Rows', decks'[c].stamped PROVE Spent(c)' /\ c \notin stored'
      BY DEF StampedSpent
    <3>1. c # d
      BY <2>1 DEF Creates
    <3>2. c \in Rows /\ decks[c].stamped
      BY <2>6, <2>7, <3>1
    <3>3. QED
      BY <1>1, <2>12, <3>2 DEF FilesInv, StampedSpent
  <2>15. ChecksRead'
    <3> SUFFICES ASSUME NEW check \in checks PROVE CheckRead(check)'
      BY <1>1 DEF ChecksRead
    <3>1. CheckRead(check)
      BY DEF FilesInv, ChecksRead
    <3>2. check[1] \in Rows /\ Gone(check[1]) => check[1] \in Rows' /\ Gone(check[1])'
      BY <2>6, <2>8 DEF Gone
    <3>3. QED
      BY <1>1, <3>1, <3>2 DEF CheckRead
  <2>16. ReadyStored'
    <3> SUFFICES ASSUME NEW c \in Rows', ReadyKept(c)' PROVE c \in stored
      BY <1>1 DEF ReadyStored
    <3>1. c # d
      BY <2>1 DEF Creates, ReadyKept
    <3>2. c \in Rows /\ ReadyKept(c)
      BY <2>6, <2>7, <3>1 DEF ReadyKept, Kept
    <3>3. QED
      BY <3>2 DEF FilesInv, ReadyStored
  <2>17. ShowsKept'
    <3>1. \A c : Showable(c) => Showable(c)'
      <4> SUFFICES ASSUME NEW c, c \in Rows, ReadyKept(c) PROVE c \in Rows' /\ ReadyKept(c)'
        BY DEF Showable, ReadyKept
      <4>1. c # d
        BY <2>1 DEF Creates, Made, ReadyKept
      <4>2. QED
        BY <2>6, <4>1 DEF ReadyKept, Kept
    <3>2. QED
      BY <1>1, <3>1 DEF FilesInv, ShowsKept
  <2>18. QED
    BY <2>4, <2>9, <2>10, <2>11, <2>13, <2>14, <2>15, <2>16, <2>17 DEF FilesInv
<1>4. QED
  BY <1>2, <1>3 DEF CreateServed

(* Time passes of an upload and of its URL alike. *)
LEMMA TickKeeps ==
  ASSUME FilesInv, Tick
  PROVE  FilesInv'
<1>1. /\ UNCHANGED <<stored, checks, drops, running, shown, shows>>
      /\ left' = Before(left) /\ wire' = [d \in Ids |-> Before(wire[d])]
      /\ DecksTick
  BY DEF Tick, UploadTick, bucket, board
<1>2. RowsOK /\ Rows = 1 .. Len(decks) /\ Len(decks) \in Nat /\ \A d \in Rows : decks[d] \in Deck
  BY RowsAre DEF FilesInv
<1>3. \A n \in Nat : Before(n) \in Nat /\ Before(n) =< n /\ (n = 0 => Before(n) = 0)
  BY DEF Before
<1>4. \A m, n \in Nat : m =< n => Before(m) =< Before(n)
  BY DEF Before
<1> DEFINE Ticked(d) == [decks[d] EXCEPT !.writable = Before(@), !.limit = Before(@), !.wait = Before(@)]
<1>5. Rows' = Rows /\ \A d \in Rows : decks'[d] = Ticked(d)
  BY <1>1 DEF DecksTick, Rows
<1>6. \A d \in Rows : Ticked(d) \in Deck
  BY <1>2, <1>3 DEF Deck
<1>7. RowsOK'
  <2>1. decks' = [d \in 1 .. Len(decks) |-> Ticked(d)]
    BY <1>1, <1>2 DEF DecksTick
  <2>2. decks' \in [1 .. Len(decks) -> Deck]
    BY <1>2, <1>6, <2>1
  <2>3. QED
    BY <1>2, <2>2, SeqDef DEF RowsOK
<1>8. \A d \in Rows :
        /\ decks'[d].writable = Before(decks[d].writable) /\ decks[d].writable \in Nat
        /\ decks'[d].create = decks[d].create /\ decks'[d].status = decks[d].status
        /\ decks'[d].removed = decks[d].removed /\ decks'[d].stamped = decks[d].stamped
  <2> SUFFICES ASSUME NEW d \in Rows
               PROVE  /\ decks'[d].writable = Before(decks[d].writable) /\ decks[d].writable \in Nat
                      /\ decks'[d].create = decks[d].create /\ decks'[d].status = decks[d].status
                      /\ decks'[d].removed = decks[d].removed /\ decks'[d].stamped = decks[d].stamped
    OBVIOUS
  <2>1. decks[d] \in [create : BOOLEAN, status : {"pending", "ready", "rejected"}, removed : BOOLEAN,
                      writable : Nat, limit : Nat, wait : Nat, stamped : BOOLEAN]
    BY <1>2 DEF Deck
  <2>2. decks'[d] = Ticked(d)
    BY <1>5
  <2>3. QED
    BY <2>1, <2>2
<1>9. WireOK'
  <2>1. \A n \in 0 .. UploadLimit : Before(n) \in 0 .. UploadLimit
    BY <1>3, UploadAssumption
  <2>2. QED
    BY <1>1, <2>1 DEF FilesInv, WireOK, Ids
<1>10. WireWithin'
  <2> SUFFICES ASSUME NEW d \in Ids, d \in Rows PROVE wire'[d] =< decks'[d].writable
    BY <1>5 DEF WireWithin, Ids
  <2>1. wire[d] \in Nat /\ wire[d] =< decks[d].writable
    BY UploadAssumption DEF FilesInv, WireOK, WireWithin
  <2>2. QED
    BY <1>1, <1>4, <1>8, <2>1
<1>11. OneMade'
  BY <1>5, <1>8 DEF FilesInv, OneMade, Made
<1>12. \A d : Spent(d) => Spent(d)'
  BY <1>3, <1>5, <1>8 DEF Spent, Gone
<1>13. \A d \in Rows : (Gone(d)' <=> Gone(d)) /\ (ReadyKept(d)' <=> ReadyKept(d))
  BY <1>8 DEF Gone, ReadyKept, Kept
<1>14. DropsSpent' /\ StampedSpent'
  BY <1>1, <1>5, <1>8, <1>12 DEF FilesInv, DropsSpent, DropSpent, StampedSpent
<1>15. ChecksRead' /\ ReadyStored'
  BY <1>1, <1>5, <1>13 DEF FilesInv, ChecksRead, CheckRead, ReadyStored
<1>16. ShowsKept'
  <2>1. \A d : Showable(d) => Showable(d)'
    BY <1>5, <1>13 DEF Showable, ReadyKept
  <2>2. QED
    BY <1>1, <2>1 DEF FilesInv, ShowsKept
<1>17. QED
  BY <1>7, <1>9, <1>10, <1>11, <1>14, <1>15, <1>16 DEF FilesInv

-----------------------------------------------------------------------------

LEMMA FilesStart == Init => FilesInv
<1> SUFFICES ASSUME Init PROVE FilesInv
  OBVIOUS
<1>1. /\ checks = {} /\ drops = {} /\ shows = {} /\ shown.deck = NoDeck
      /\ left = 0 /\ wire = [d \in Ids |-> 0]
  <2>1. checks = {} /\ drops = {} /\ shows = {} /\ shown = NothingShown
    BY DEF Init, DecksInit
  <2>2. left = 0 /\ wire = [d \in Ids |-> 0]
    BY DEF Init, UploadInit
  <2>3. QED
    BY <2>1, <2>2 DEF NothingShown
<1>2. WireOK /\ DropsSpent /\ ChecksRead /\ ShowsKept
  BY <1>1, UploadAssumption DEF WireOK, DropsSpent, ChecksRead, ShowsKept, Showable
<1>3. \/ decks = <<>>
      \/ decks = <<Ready>> /\ stored = {1}
  BY DEF Init, DecksInit
<1>4. Ready \in Deck
  BY DEF Ready, Deck
<1>5. RowsOK
  <2>1. CASE decks = <<>>
    BY <2>1, EmptySeq DEF RowsOK
  <2>2. CASE decks = <<Ready>>
    <3>1. decks \in [1 .. 1 -> Deck]
      BY <1>4, <2>2
    <3>2. QED
      BY <3>1, SeqDef DEF RowsOK
  <2>3. QED
    BY <1>3, <2>1, <2>2
<1>6. \A d \in Rows : d = 1 /\ decks[d] = Ready /\ d \in stored
  BY <1>3 DEF Rows
<1>7. WireWithin /\ OneMade /\ StampedSpent /\ ReadyStored
  BY <1>1, <1>6 DEF WireWithin, OneMade, Made, StampedSpent, ReadyStored, Ready, Ids
<1>8. QED
  BY <1>2, <1>5, <1>7 DEF FilesInv

LEMMA UploadKeeps ==
  ASSUME FilesInv, UploadNext
  PROVE  FilesInv'
<1>1. CASE Sends
  <2>1. UNCHANGED <<decks, stored, checks, drops, running, shown, shows, wire>> /\ left' = UploadLimit
    BY <1>1 DEF Sends, decksVars, bucket, board
  <2>2. WireOK'
    BY <2>1, UploadAssumption DEF FilesInv, WireOK
  <2>3. QED
    BY <2>1, <2>2 DEF FilesInv, RowsOK, WireWithin, OneMade, Made, DropsSpent, DropSpent,
         StampedSpent, Spent, Gone, ChecksRead, CheckRead, ReadyStored, ReadyKept, ShowsKept,
         Showable, Kept, Rows
<1>2. CASE CreateServed
  BY <1>2, CreateKeeps
<1>3. CASE Checks
  BY <1>3, CheckKeeps DEF Checks
<1>4. CASE Told \/ Stops \/ AsksAgain
  <2>1. UNCHANGED <<decks, stored, checks, drops, running, shown, shows, left, wire>>
    BY <1>4 DEF Told, Stops, AsksAgain, decksVars, bucket, board
  <2>2. QED
    BY <2>1, EndsKeep
<1>5. ASSUME NEW d \in Ids, PutLands(d) PROVE FilesInv'
  BY <1>5, PutLandsKeeps
<1>6. QED
  BY <1>1, <1>2, <1>3, <1>4, <1>5 DEF UploadNext

LEMMA CardKeeps ==
  ASSUME FilesInv, CardNext, UNCHANGED uploadVars
  PROVE  FilesInv'
<1>1. UNCHANGED decksVars => FilesInv'
  <2> SUFFICES ASSUME UNCHANGED decksVars PROVE FilesInv'
    OBVIOUS
  <2>1. UNCHANGED <<decks, stored, checks, drops, running, shown, shows, left, wire>>
    BY DEF decksVars, bucket, board, uploadVars
  <2>2. QED
    BY <2>1, EndsKeep
<1>2. CASE Reads \/ Hear \/ ChangeTold \/ ChangeFails
  BY <1>1, <1>2 DEF Reads, ReadServed, ReadTaken, Hear, ChangeTold, ChangeFails
<1>3. CASE TriesAgain
  BY <1>1, <1>3 DEF TriesAgain, Change
<1>4. ASSUME NEW deck \in Rows \cup {NoDeck}, Presses(deck) PROVE FilesInv'
  BY <1>1, <1>4 DEF Presses, Change
<1>5. CASE ShowCommits
  BY <1>5, ShowSlideKeeps DEF ShowCommits
<1>6. ASSUME NEW deck \in Rows, NEW ev \in ChangeIds, OtherShows(deck, ev) PROVE FilesInv'
  BY <1>6, HoldsKeeps DEF OtherShows
<1>7. ASSUME NEW show \in sends, ChangeServed(show) PROVE FilesInv'
  <2>1. CASE UNCHANGED decksVars
    BY <1>1, <2>1
  <2>2. CASE HoldsShow(show)
    BY <2>2, HoldsKeeps
  <2>3. QED
    BY <1>7, <2>1, <2>2 DEF ChangeServed
<1>8. QED
  BY <1>2, <1>3, <1>4, <1>5, <1>6, <1>7 DEF CardNext

LEMMA FilesStep == FilesInv /\ [Next]_vars => FilesInv'
<1> SUFFICES ASSUME FilesInv, [Next]_vars PROVE FilesInv'
  OBVIOUS
<1>1. CASE UNCHANGED vars
  <2>1. UNCHANGED <<decks, stored, checks, drops, running, shown, shows, left, wire>>
    BY <1>1 DEF vars, uploadVars, decksVars, bucket, board
  <2>2. QED
    BY <2>1, EndsKeep
<1>2. CASE Tick
  BY <1>2, TickKeeps
<1>3. CASE UploadNext
  BY <1>3, UploadKeeps
<1>4. CASE CardNext /\ UNCHANGED uploadVars
  BY <1>4, CardKeeps
<1>5. CASE Sweeps /\ UNCHANGED uploadVars
  BY <1>5, RejectKeeps, ClaimKeeps DEF Sweeps
<1>6. CASE Serves /\ UNCHANGED uploadVars
  BY <1>6, DeletedKeeps, StampKeeps, CompleteKeeps DEF Serves
<1>7. CASE (Fails \/ Bell) /\ UNCHANGED uploadVars
  <2>1. UNCHANGED <<left, wire>>
    BY <1>7 DEF uploadVars
  <2>2. CASE Bell
    BY <2>1, <2>2, EndsKeep DEF Bell, bucket
  <2>3. CASE Crash
    BY <2>1, <2>3, EndsKeep DEF Crash
  <2>4. ASSUME NEW d \in Rows, NotDeleted(d) PROVE FilesInv'
    BY <2>1, <2>4, EndsKeep DEF NotDeleted, board
  <2>5. QED
    BY <1>7, <2>2, <2>3, <2>4 DEF Fails
<1>8. ASSUME NEW d \in Rows, removeDeck(d) \/ RemovedAgain(d), UNCHANGED uploadVars PROVE FilesInv'
  BY <1>8, RemoveKeeps, RemovedAgainKeeps
<1>9. QED
  BY <1>1, <1>2, <1>3, <1>4, <1>5, <1>6, <1>7, <1>8 DEF Next

(* In every state that FilesInv holds of, a deck stamped deleted has no file *)
(* and what a running session shows has one.                                 *)
LEMMA FilesInvSays == FilesInv => FilesFollowDecks
<1> SUFFICES ASSUME FilesInv PROVE FilesFollowDecks
  OBVIOUS
<1>1. GoneForGood
  BY DEF FilesInv, StampedSpent, GoneForGood
<1>2. ShownDeckKept
  BY DEF FilesInv, ShowsKept, ReadyStored, ReadyKept, Showable, ShownDeckKept
<1>3. QED
  BY <1>1, <1>2 DEF FilesFollowDecks

(* A deck stamped deleted has no file in the bucket, whatever upload was     *)
(* stopped, retried or still on its way; and what a running session shows is *)
(* a deck checked and kept, its file in the bucket (dropObject, removeDeck,  *)
(* showSlide, completeDeck).                                                 *)
THEOREM FilesFollow == Spec => []FilesFollowDecks
<1>1. Init => FilesInv
  BY FilesStart
<1>2. FilesInv /\ [Next]_vars => FilesInv'
  BY FilesStep
<1>3. FilesInv => FilesFollowDecks
  BY FilesInvSays
<1>4. QED
  BY <1>1, <1>2, <1>3, PTL DEF Spec
=============================================================================
