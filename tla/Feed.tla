-------------------------------- MODULE Feed --------------------------------
(***************************************************************************)
(* The live feed of one lesson: the events table as concurrent             *)
(* transactions write it, the settled point of a server process            *)
(* (settled.ts), the stream the hub keeps for one tab (hub.ts), the tab's  *)
(* client (sse-client.ts) and its grid, refreshed from snapshots           *)
(* (live-grid.tsx).                                                        *)
(*                                                                         *)
(* A row's seq is its place in rows: given out as it is inserted, whatever *)
(* becomes of its transaction.  Rows of the lesson are written under its   *)
(* lock, but for a student's switch out of it by a tap elsewhere, which    *)
(* endParticipationsElsewhere writes without (transitions.ts).             *)
(***************************************************************************)
EXTENDS Integers, Sequences, FiniteSets

CONSTANTS
    Overlap,       \* EVENT_RESUME_OVERLAP
    Page,          \* EVENT_PAGE_LIMIT
    Kept,          \* WAITING_KEPT
    Others,        \* whether other tabs' streams and reads ask for the settled point
    Kinds,         \* how rows are written: "locked", "left", or "elsewhere"
    MaxRows,       \* bound: seqs given out
    MaxWrites,     \* bound: transactions that write events
    MaxFaults      \* bound: connections lost and processes restarted

ASSUME FeedAssumption ==
    /\ Overlap \in Nat /\ Page \in Nat \ {0} /\ Kept \in Nat \ {0}
    /\ Others \in BOOLEAN
    /\ Kinds \subseteq {"locked", "left", "elsewhere"}
    /\ MaxRows \in Nat /\ MaxWrites \in Nat /\ MaxFaults \in Nat

VARIABLES
    rows,      \* the events table, by seq, and whose transaction each row is
    writes,    \* the transactions that write events: open, or how they ended
    cursor,    \* the process's settled point, and the look under way
    stream,    \* the hub's stream to the tab
    wire,      \* the frames on their way to the tab
    tab,       \* the tab's client
    grid,      \* what its grid shows, and the newest seq it applied
    snap,      \* the read of GET /v1/sessions/:id under way
    heard,     \* history: the events the client passed on
    told,      \* history: the events the tab came to know
    faults     \* history: connections lost and processes restarted

table == <<rows, writes>>
vars == <<rows, writes, cursor, stream, wire, tab, grid, snap, heard, told, faults>>

Larger(a, b) == IF a < b THEN b ELSE a
Smaller(a, b) == IF a < b THEN a ELSE b
Newest(S) == IF S = {} THEN 0 ELSE CHOOSE m \in S : \A s \in S : s =< m

-----------------------------------------------------------------------------
(* The table. *)

Seqs == DOMAIN rows
Writers == {t \in DOMAIN writes : writes[t] = "open"}
InLesson(s) == rows[s].kind \in {"locked", "left"}
Shown == {s \in Seqs : InLesson(s) /\ writes[rows[s].by] = "committed"}

(* An insert takes the table's lock, which names its transaction, and then *)
(* each row takes its seq.                                                 *)
OpenWrite ==
    /\ Len(writes) < MaxWrites
    /\ writes' = Append(writes, "open")
    /\ UNCHANGED <<rows, cursor, stream, wire, tab, grid, snap, heard, told, faults>>

HoldsLesson(t) == \E s \in Seqs : rows[s] = [by |-> t, kind |-> "locked"]
Insert(t, kind) ==
    /\ t \in Writers /\ Len(rows) < MaxRows
    /\ kind = "locked" => \A o \in Writers \ {t} : ~HoldsLesson(o)
    /\ rows' = Append(rows, [by |-> t, kind |-> kind])
    /\ UNCHANGED <<writes, cursor, stream, wire, tab, grid, snap, heard, told, faults>>

CloseWrite(t) ==
    /\ t \in Writers
    /\ \E end \in {"committed", "rolled_back"} : writes' = [writes EXCEPT ![t] = end]
    /\ UNCHANGED <<rows, cursor, stream, wire, tab, grid, snap, heard, told, faults>>

-----------------------------------------------------------------------------
(* The settled point. *)

NotLooking == -1
NoCursor == [settled |-> 0, waiting |-> <<>>, looking |-> NotLooking]
Asked == stream.stage = "settling" \/ snap.stage = "settling"

TopWaiting(c) == IF c.waiting = <<>> THEN c.settled ELSE c.waiting[Len(c.waiting)].seq
Done(waiting, writing) ==
    {k \in 1..Len(waiting) : \A i \in 1..k : waiting[i].writers \cap writing = {}}

(* A look reads the newest seq given out.  The tab's stream or its first     *)
(* read asks for it; or a refresh, or another tab, whose looks are left out  *)
(* where they could find nothing new.                                        *)
Finds == Done(cursor.waiting, Writers) # {} \/ Len(rows) > TopWaiting(cursor)
LookBegins ==
    /\ cursor.looking = NotLooking /\ (Asked \/ (Others /\ Finds))
    /\ cursor' = [cursor EXCEPT !.looking = Len(rows)]
    /\ UNCHANGED <<table, stream, wire, tab, grid, snap, heard, told, faults>>

(* And then who writes.  A seq waits for those, in the last place where all *)
(* are taken; and the first to wait is settled once none of its writers is  *)
(* writing.                                                                 *)
Awaits_OldWriters(c, writing) ==
    LET next == [seq |-> c.looking, writers |-> writing]
        n == Len(c.waiting)
    IN IF c.looking =< TopWaiting(c) THEN c.waiting
       ELSE IF n < Kept THEN Append(c.waiting, next)
       ELSE [c.waiting EXCEPT ![n].seq = c.looking]
Awaits(c, writing) ==
    LET next == [seq |-> c.looking, writers |-> writing]
        n == Len(c.waiting)
    IN IF c.looking =< TopWaiting(c) THEN c.waiting
       ELSE IF n < Kept THEN Append(c.waiting, next)
       ELSE [c.waiting EXCEPT ![n] = next]

Looked(c, writing) ==
    LET waiting == Awaits(c, writing)
        done == Newest(Done(waiting, writing))
    IN [settled |-> IF done = 0 THEN c.settled ELSE Larger(c.settled, waiting[done].seq),
        waiting |-> SubSeq(waiting, done + 1, Len(waiting)),
        looking |-> NotLooking]

(* Where a read of the lesson's events starts. *)
Floor_Sent(st) == Larger(0, st.high - Overlap)
Floor(st) == Larger(0, Smaller(st.high, st.settledHere) - Overlap)

(* Every ask made meanwhile shares the look.  A snapshot that waits for a   *)
(* later one reads on as if it had asked then.                              *)
LookEnds ==
    /\ cursor.looking # NotLooking
    /\ cursor' = Looked(cursor, Writers)
    /\ stream' = IF stream.stage # "settling" THEN stream
                 ELSE [stream EXCEPT !.stage = "paging", !.from = Floor(stream),
                                     !.settling = cursor'.settled]
    /\ snap' = IF snap.stage # "settling" THEN snap
               ELSE [snap EXCEPT !.stage = "latest", !.settled = cursor'.settled]
    /\ UNCHANGED <<table, wire, tab, grid, heard, told, faults>>

-----------------------------------------------------------------------------
(* The hub's stream. *)

NoStream == [stage |-> "none", after |-> 0, high |-> 0, settledHere |-> 0, said |-> 0,
             delivered |-> {}, from |-> 0, settling |-> 0]
Subscribed(after) ==
    [NoStream EXCEPT !.stage = "settling", !.after = after, !.high = after,
                     !.settledHere = after, !.said = after]

(* A doorbell or the re-poll.  One that comes as a read is under way makes *)
(* another follow it: here it comes as that read has ended.                *)
Wake ==
    /\ stream.stage = "idle"
    /\ stream' = [stream EXCEPT !.stage = "settling"]
    /\ UNCHANGED <<table, cursor, wire, tab, grid, snap, heard, told, faults>>

Pages(after) ==
    {s \in Shown : s > after /\ Cardinality({o \in Shown : o > after /\ o =< s}) =< Page}
Event(s) == [kind |-> "event", seq |-> s]
SettledLine(p) == [kind |-> "settled", seq |-> p]
InOrder(S) ==
    [i \in 1..Cardinality(S) |-> Event(CHOOSE s \in S : Cardinality({o \in S : o =< s}) = i)]

(* readOnce: a page is read and written, but what the client has; a short *)
(* page ends the read, and says the settled point it got past.            *)
ReadPage ==
    LET page == Pages(stream.from)
        new == {s \in page : s > stream.after} \ stream.delivered
        sent == [stream EXCEPT !.delivered = @ \cup new,
                               !.from = Newest({@} \cup page),
                               !.high = Newest({@} \cup new)]
        past == [sent EXCEPT !.settledHere = Larger(@, stream.settling)]
        point == Smaller(past.settledHere, past.high)
        ended == [past EXCEPT
                    !.said = Larger(@, point), !.stage = "idle",
                    !.delivered = {s \in @ : s > Floor(past)},
                    !.from = 0, !.settling = 0]
        full == Cardinality(page) >= Page
        line == IF ~full /\ point > stream.said THEN <<SettledLine(point)>> ELSE <<>>
    IN /\ stream.stage = "paging"
       /\ stream' = IF full THEN sent ELSE ended
       /\ wire' = wire \o InOrder(new) \o line
       /\ UNCHANGED <<table, cursor, tab, grid, snap, heard, told, faults>>

-----------------------------------------------------------------------------
(* The tab's client. *)

NoTab == [stage |-> "boot", last |-> 0, settled |-> 0, delivered |-> {}]
ResumePoint(t) == Smaller(t.last, t.settled)

Connect ==
    /\ tab.stage = "down"
    /\ tab' = [tab EXCEPT !.stage = "up"]
    /\ stream' = Subscribed(Larger(0, ResumePoint(tab) - Overlap))
    /\ UNCHANGED <<table, cursor, wire, grid, snap, heard, told, faults>>

(* handleEvent: an event not passed on yet, and what is pruned after it. *)
Cutoff_Last(t) == t.last - Overlap
Cutoff(t) == ResumePoint(t) - Overlap
Took(t, s) ==
    LET had == [t EXCEPT !.delivered = @ \cup {s}, !.last = Larger(@, s)]
    IN [had EXCEPT !.delivered = {o \in @ : o > Cutoff(had)}]

HearEvent ==
    /\ wire # <<>> /\ wire[1].kind = "event"
    /\ LET s == wire[1].seq
       IN IF s \in tab.delivered THEN UNCHANGED <<tab, grid, heard, told>>
          ELSE /\ tab' = Took(tab, s)
               /\ grid' = [shows |-> grid.shows \cup {s}, applied |-> Larger(grid.applied, s)]
               /\ heard' = heard \cup {s}
               /\ told' = told \cup {s}
    /\ wire' = Tail(wire)
    /\ UNCHANGED <<table, cursor, stream, snap, faults>>

HearSettled ==
    /\ wire # <<>> /\ wire[1].kind = "settled"
    /\ tab' = [tab EXCEPT !.settled = Larger(@, wire[1].seq)]
    /\ wire' = Tail(wire)
    /\ UNCHANGED <<table, cursor, stream, grid, snap, heard, told, faults>>

Fails == faults < MaxFaults /\ faults' = faults + 1
Down(t) == IF t.stage = "up" THEN [t EXCEPT !.stage = "down"] ELSE t

(* The connection is lost, or the stream ends: its token expired, its caller *)
(* may read it no longer, a read failed.  What was on its way is gone.       *)
Drop ==
    /\ Fails /\ tab.stage = "up"
    /\ stream' = NoStream /\ wire' = <<>> /\ tab' = Down(tab)
    /\ UNCHANGED <<table, cursor, grid, snap, heard, told>>

-----------------------------------------------------------------------------
(* The snapshot, read as the grid boots and every 15 s. *)

NoSnap == [stage |-> "idle", settled |-> 0, latest |-> 0, roster |-> {}]

(* The tab's first read waits for a settled point, which a refresh has no    *)
(* use for; the newest seq is read before the roster, never after it.        *)
AskSnapshot ==
    /\ snap.stage = "idle" /\ tab.stage = "boot"
    /\ snap' = [NoSnap EXCEPT !.stage = "settling"]
    /\ UNCHANGED <<table, cursor, stream, wire, tab, grid, heard, told, faults>>

ReadLatest ==
    /\ snap.stage = IF tab.stage = "boot" THEN "latest" ELSE "idle"
    /\ snap' = [snap EXCEPT !.stage = "roster", !.latest = Newest(Shown)]
    /\ UNCHANGED <<table, cursor, stream, wire, tab, grid, heard, told, faults>>

ReadRoster ==
    /\ snap.stage = "roster"
    /\ snap' = [snap EXCEPT !.stage = "read", !.roster = Shown]
    /\ UNCHANGED <<table, cursor, stream, wire, tab, grid, heard, told, faults>>

Boots ==
    /\ snap.stage = "read" /\ tab.stage = "boot"
    /\ tab' = [NoTab EXCEPT !.stage = "down", !.last = snap.latest,
                            !.settled = Smaller(snap.settled, snap.latest)]
    /\ grid' = [shows |-> snap.roster, applied |-> snap.latest]
    /\ told' = told \cup snap.roster
    /\ snap' = NoSnap
    /\ UNCHANGED <<table, cursor, stream, wire, heard, faults>>

(* A refresh the stream has gone past is dropped. *)
IsFresh_Newer(latest, applied) == latest > applied
IsFresh(latest, applied) == latest >= applied
Refreshes ==
    /\ snap.stage = "read" /\ tab.stage # "boot"
    /\ grid' = IF IsFresh(snap.latest, grid.applied)
               THEN [shows |-> snap.roster, applied |-> snap.latest] ELSE grid
    /\ snap' = NoSnap
    /\ UNCHANGED <<table, cursor, stream, wire, tab, heard, told, faults>>

(* The server's process starts again: its settled point too. *)
Restart ==
    /\ Fails
    /\ cursor' = NoCursor /\ stream' = NoStream /\ wire' = <<>> /\ tab' = Down(tab)
    /\ snap' = IF snap.stage = "read" THEN snap ELSE NoSnap
    /\ UNCHANGED <<table, grid, heard, told>>

-----------------------------------------------------------------------------
Init ==
    /\ rows = <<>> /\ writes = <<>> /\ cursor = NoCursor /\ stream = NoStream
    /\ wire = <<>> /\ tab = NoTab /\ grid = [shows |-> {}, applied |-> 0]
    /\ snap = NoSnap /\ heard = {} /\ told = {} /\ faults = 0

Write == OpenWrite \/ \E t \in 1..MaxWrites, kind \in Kinds : Insert(t, kind)
Close == \E t \in 1..MaxWrites : CloseWrite(t)
Look == LookBegins \/ LookEnds
OwnLook == (Asked /\ LookBegins) \/ LookEnds
Streams == Wake \/ ReadPage
Client == Connect \/ HearEvent \/ HearSettled
Snapshot == AskSnapshot \/ ReadLatest \/ ReadRoster \/ Boots \/ Refreshes

Next == Write \/ Close \/ Look \/ Streams \/ Client \/ Snapshot \/ Drop \/ Restart

Spec == Init /\ [][Next]_vars

(* Every transaction ends; the process's reads go on, its re-poll comes, and *)
(* the tab reads, reconnects and refreshes.  Nothing makes another tab ask.  *)
Fairness ==
    /\ WF_vars(Close) /\ WF_vars(OwnLook) /\ WF_vars(Wake) /\ WF_vars(ReadPage)
    /\ WF_vars(Client) /\ WF_vars(Snapshot)

LiveSpec == Spec /\ Fairness
=============================================================================
