-------------------------------- MODULE Decks --------------------------------
(***************************************************************************)
(* A teacher's slide decks on the server, their files in the bucket, and   *)
(* what one session shows of them (transitions.ts, "A teacher's slide      *)
(* decks" and "What a running session shows"; routes/decks.ts;             *)
(* deck-check.ts; claimDecksToDrop in queries.ts).  A transaction that     *)
(* holds its deck's row FOR UPDATE to its end is one step; a slide change, *)
(* whose hold is shared, and all that is done outside a transaction, the   *)
(* check, the deletes, are steps of their own.  Instants are counted down: *)
(* a deck's fields say how many are left.  Titles, lengths, hashes and     *)
(* pages are left out.                                                     *)
(***************************************************************************)
EXTENDS Naturals, Sequences

CONSTANTS
    Writable,      \* OBJECT_WRITABLE_MS: from a mint, until no upload can write
    PendingLimit,  \* DECK_PENDING_LIMIT_MS
    Backoff,       \* from a claim to the next
    Slow,          \* at most, from a route's reading of the clock to its commit
    MaxDecks,      \* bound: decks made
    MaxFaults      \* bound: deletes refused, servers restarted

ASSUME DecksAssumption ==
    /\ Writable \in Nat /\ PendingLimit \in Nat /\ Backoff \in Nat
    /\ Slow \in Nat /\ Slow =< Writable
    /\ MaxDecks \in Nat /\ MaxFaults \in Nat

VARIABLES
    decks,    \* the decks' rows, by id
    stored,   \* the decks whose file is in the bucket
    checks,   \* verdicts reached outside any transaction and not recorded: <<deck, status>>
    drops,    \* files being deleted, then stamped so: <<deck, "delete" or "stamp">>
    running,  \* the session has not reached its bell, nor its end
    shown,    \* its presentation row: the deck, or NoDeck, and the change that set it
    shows,    \* slide changes that hold their locks
    slides,   \* the session's slide_shown events, by seq
    faults    \* history

bucket == <<stored, checks, drops>>
board == <<running, shown, shows, slides>>
decksVars == <<decks, bucket, board, faults>>

NoDeck == 0
NothingShown == [deck |-> NoDeck, ev |-> 0]
Before(n) == IF n = 0 THEN 0 ELSE n - 1

Rows == DOMAIN decks
Kept(d) == ~decks[d].removed
Gone(d) == decks[d].removed \/ decks[d].status = "rejected"

(* A slide change reads its deck FOR SHARE: no write to the row until it ends. *)
Locked(d) == \E show \in shows : show.deck = d

Fault == faults < MaxFaults /\ faults' = faults + 1

-----------------------------------------------------------------------------
(* createDeck: a deck under a new id, or the replay of one a pending deck    *)
(* still holds, which records the mint of the URL it hands out; refused once *)
(* the deck is checked.  The mint is the route's clock, read late before.    *)

Made == {d \in Rows : decks[d].create}
Replays(d) == decks[d].status = "pending" /\ Kept(d)

Fresh(late) ==
    [create |-> TRUE, status |-> "pending", removed |-> FALSE, writable |-> Writable - late,
     limit |-> PendingLimit, wait |-> 0, stamped |-> FALSE]

ReplayCreate_Unminted(d, late) == UNCHANGED decks
ReplayCreate(d, late) == decks' = [decks EXCEPT ![d].writable = Writable - late]

createDeck(late) ==
    \/ /\ Made = {} /\ Len(decks) < MaxDecks
       /\ decks' = Append(decks, Fresh(late))
    \/ \E d \in Made :
         /\ Replays(d) /\ ~Locked(d)
         /\ ReplayCreate(d, late)
RefusesCreate == \E d \in Made : ~Replays(d)

-----------------------------------------------------------------------------
(* removeDeck, and its retry: either deletes the file once no upload can     *)
(* write it (dropObject).                                                    *)

InUse(d) == running /\ shown.deck = d
DropsAfter(d) == IF decks[d].writable = 0 THEN drops \cup {<<d, "delete">>} ELSE drops

removeDeck(d) ==
    /\ Kept(d) /\ ~Locked(d) /\ ~InUse(d)
    /\ decks' = [decks EXCEPT ![d].removed = TRUE, ![d].create = FALSE]
    /\ drops' = DropsAfter(d)
    /\ UNCHANGED <<stored, checks, board, faults>>

RemovedAgain(d) ==
    /\ ~Kept(d) /\ ~decks[d].stamped
    /\ drops' = DropsAfter(d)
    /\ UNCHANGED <<decks, stored, checks, board, faults>>

-----------------------------------------------------------------------------
(* A complete: the file read and parsed outside any transaction (checkDeck), *)
(* then its verdict recorded, once.                                          *)

checkDeck(d) ==
    /\ decks[d].status = "pending" /\ Kept(d)
    /\ \E status \in IF d \in stored THEN {"ready", "rejected"} ELSE {"rejected"} :
         checks' = checks \cup {<<d, status>>}
    /\ UNCHANGED <<decks, stored, drops, board, faults>>

Unchecked(d) == Kept(d) /\ decks[d].status = "pending"

completeDeck(d, status) ==
    /\ <<d, status>> \in checks /\ ~Locked(d)
    /\ checks' = checks \ {<<d, status>>}
    /\ IF Unchecked(d)
       THEN /\ decks' = [decks EXCEPT ![d].status = status, ![d].create = FALSE]
            /\ drops' = IF status = "rejected" THEN DropsAfter(d) ELSE drops
       ELSE UNCHANGED <<decks, drops>>
    /\ UNCHANGED <<stored, board, faults>>

-----------------------------------------------------------------------------
(* The sweep (sweepDecks), and what it and the routes do in the bucket.      *)

rejectUnfinishedDecks(d) ==
    /\ Unchecked(d) /\ decks[d].limit = 0 /\ ~Locked(d)
    /\ decks' = [decks EXCEPT ![d].status = "rejected"]
    /\ UNCHANGED <<bucket, board, faults>>

ToDrop_Removed(d) == decks[d].removed /\ ~decks[d].stamped
ToDrop(d) == Gone(d) /\ ~decks[d].stamped

claimDecksToDrop(d) ==
    /\ ToDrop(d) /\ decks[d].writable = 0 /\ decks[d].wait = 0 /\ ~Locked(d)
    /\ decks' = [decks EXCEPT ![d].wait = Backoff]
    /\ drops' = drops \cup {<<d, "delete">>}
    /\ UNCHANGED <<stored, checks, board, faults>>

Deleted(d) ==
    /\ <<d, "delete">> \in drops
    /\ stored' = stored \ {d}
    /\ drops' = (drops \ {<<d, "delete">>}) \cup {<<d, "stamp">>}
    /\ UNCHANGED <<decks, checks, board, faults>>

NotDeleted(d) ==
    /\ <<d, "delete">> \in drops
    /\ Fault
    /\ drops' = drops \ {<<d, "delete">>}
    /\ UNCHANGED <<decks, stored, checks, board>>

stampObjectDeleted(d) ==
    /\ <<d, "stamp">> \in drops /\ ~Locked(d)
    /\ decks' = [decks EXCEPT ![d].stamped = TRUE]
    /\ drops' = drops \ {<<d, "stamp">>}
    /\ UNCHANGED <<stored, checks, board, faults>>

(* The server restarts: what it had read and had begun goes with it. *)
Crash ==
    /\ Fault
    /\ checks # {} \/ drops # {} \/ shows # {}
    /\ checks' = {} /\ drops' = {} /\ shows' = {}
    /\ UNCHANGED <<decks, stored, running, shown, slides>>

-----------------------------------------------------------------------------
(* showSlide: its deck read under its lock, then written, unless what is     *)
(* shown was set by a change whose id sorts after its own.                   *)

Showable(d) == d = NoDeck \/ (d \in Rows /\ decks[d].status = "ready" /\ Kept(d))
HoldsShow(show) ==
    /\ running /\ Showable(show.deck)
    /\ shows' = shows \cup {show}
    /\ UNCHANGED <<decks, bucket, running, shown, slides, faults>>
RefusesShow(show) == ~running \/ ~Showable(show.deck)

Sorts(show) == show.ev > shown.ev

showSlide(show) ==
    /\ show \in shows
    /\ shows' = shows \ {show}
    /\ IF Sorts(show)
       THEN shown' = show /\ slides' = Append(slides, show)
       ELSE UNCHANGED <<shown, slides>>
    /\ UNCHANGED <<decks, bucket, running, faults>>

(* The bell, which waits for no lock: a change under way may be written past it. *)
Bell ==
    /\ running
    /\ running' = FALSE
    /\ UNCHANGED <<decks, bucket, shown, shows, slides, faults>>

presentationNow ==
    IF ~running THEN NothingShown
    ELSE IF shown.deck # NoDeck /\ ~Kept(shown.deck) THEN [shown EXCEPT !.deck = NoDeck]
    ELSE shown

-----------------------------------------------------------------------------

DecksInit(rows, files, spent) ==
    /\ decks = rows /\ stored = files /\ checks = {} /\ drops = {}
    /\ running = TRUE /\ shown = NothingShown /\ shows = {} /\ slides = <<>>
    /\ faults = spent

DecksTick ==
    decks' = [d \in Rows |-> [decks[d] EXCEPT !.writable = Before(@), !.limit = Before(@),
                                              !.wait = Before(@)]]

Sweeps ==
    \E d \in Rows : rejectUnfinishedDecks(d) \/ claimDecksToDrop(d)
Serves ==
    \E d \in Rows :
        \/ Deleted(d) \/ stampObjectDeleted(d)
        \/ \E status \in {"ready", "rejected"} : completeDeck(d, status)
Fails == Crash \/ \E d \in Rows : NotDeleted(d)
=============================================================================
