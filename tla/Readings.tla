------------------------------ MODULE Readings ------------------------------
(***************************************************************************)
(* What is read out of a lesson's rows: a chip of the teacher's grid, from *)
(* the snapshot (queries.ts getSessionRoster, grid-state.ts fromSnapshot)  *)
(* and from the stream (applyEvent); the session's report (report.ts); and *)
(* the recap drawn beside it (recap.ts).  Each is a reading of one student *)
(* in one lesson, over the state in Engine.tla.                            *)
(***************************************************************************)
EXTENDS Engine, Sequences

(* A student's rows of a lesson, as the feed and the report read them: by seq. *)
RowsOf(st, sid) ==
    LET sorted[rest \in SUBSET log[st]] ==
            IF rest = {} THEN << >>
            ELSE LET last == CHOOSE e \in rest : \A f \in rest : ~After(f, e)
                 IN Append(sorted[rest \ {last}], last)
    IN sorted[{e \in log[st] : e.session = sid}]
From(rows, k) == SubSeq(rows, k, Len(rows))

Returns == {"tap_in", "refocus", "protection_on"}
Leaves == {"left_for_other_session", "enrollment_left", "enrollment_removed"}

-----------------------------------------------------------------------------
(* The chip. *)

NoUnlock == [id |-> 0, from |-> 0, reason |-> 0]
Absent == [state |-> "absent", ended |-> FALSE, unlock |-> NoUnlock]

(* applyUnlock: one unlock onto a chip, streamed or read. *)
ApplyUnlock_Softens(chip, e) ==
    IF e.note = "superseded" THEN chip
    ELSE [state |-> "unlocked",
          ended |-> chip.ended \/ e.note \in {"no_live_participation", "after_session_end"},
          unlock |-> [id |-> e.id, from |-> e.from, reason |-> 0]]
ApplyUnlock(chip, e) ==
    IF e.note = "superseded" THEN chip
    ELSE [state |-> IF "protection_off" \in {e.note, chip.state} THEN "protection_off"
                    ELSE "unlocked",
          ended |-> chip.ended \/ e.note \in {"no_live_participation", "after_session_end"},
          unlock |-> [id |-> e.id, from |-> e.from, reason |-> 0]]

(* applyEvent: a streamed row onto a chip; a late return changes nothing. *)
ApplyEvent(chip, e) ==
    IF e.type \in Returns /\ e.note = "superseded" THEN chip ELSE
    CASE e.type = "tap_in" -> [state |-> "focused", ended |-> FALSE, unlock |-> NoUnlock]
      [] e.type = "refocus" -> [chip EXCEPT !.state = "focused", !.unlock = NoUnlock]
      [] e.type = "unlock" -> ApplyUnlock(chip, e)
      [] e.type = "unlock_reason_changed" /\ chip.unlock.id = e.claim ->
            [chip EXCEPT !.unlock.reason = e.id]
      [] e.type = "protection_off" ->
            [chip EXCEPT !.state = "protection_off",
                         !.ended = @ \/ e.note = "after_session_end"]
      [] e.type = "protection_on" ->
            [chip EXCEPT !.state = IF chip.unlock = NoUnlock THEN "focused" ELSE "unlocked"]
      [] e.type \in Leaves -> [chip EXCEPT !.ended = TRUE]
      [] OTHER -> chip

(* The session's own end, which names no student, ends every chip. *)
Streamed(chip, sid, rows) ==
    LET shown[k \in 0..Len(rows)] ==
            IF k = 0 THEN chip ELSE ApplyEvent(shown[k - 1], rows[k])
    IN [shown[Len(rows)] EXCEPT !.ended = @ \/ ~Open(sid)]

(* getSessionRoster and fromSnapshot: the stored row, the latest turn where it *)
(* is an unlock, with its reason now, and a protection off after the end.      *)
LatestTurn(st, sid) ==
    {e \in Turns(log[st], sid) : \A f \in Turns(log[st], sid) : ~After(f, e)}
ReasonNow(st, id) ==
    LET changes == {e \in log[st] : e.type = "unlock_reason_changed" /\ e.claim = id}
    IN IF id = 0 \/ changes = {} THEN 0
       ELSE (CHOOSE e \in changes : \A f \in changes : ~After(f, e)).id

NotedOff(st, sid) ==
    \E e \in Of(log[st], sid, {"protection_off"}) : e.note = "after_session_end"
Stored(st, sid) ==
    LET p == parts[st][sid] IN
    [state |-> IF NotedOff(st, sid) THEN "protection_off"
               ELSE IF p.ended = "no_row" THEN "absent" ELSE p.state,
     ended |-> p.ended \notin {"no_row", "live"},
     unlock |-> NoUnlock]

FromSnapshot(st, sid) ==
    IF \A e \in LatestTurn(st, sid) : e.type # "unlock" THEN Stored(st, sid)
    ELSE LET e == CHOOSE e \in LatestTurn(st, sid) : TRUE
             chip == [ApplyUnlock(Stored(st, sid), e) EXCEPT
                         !.unlock.reason = ReasonNow(st, e.id)]
         IN IF /\ e.note = "protection_off" /\ parts[st][sid].state = "unlocked"
               /\ ~NotedOff(st, sid)
            THEN [chip EXCEPT !.state = "unlocked"] ELSE chip

(* gridDisplay: a chip with no state says nothing else. *)
Shows(chip) == IF chip.state = "absent" THEN Absent ELSE chip

-----------------------------------------------------------------------------
(* The report: one student's walk through their rows. *)

Unheard(sid) == [state |-> "none", silent |-> FALSE, at |-> sessions[sid].startedAt,
                 turn |-> "none", joined |-> FALSE, focus |-> 0, quiet |-> 0]

(* The window it counts: to the end, the bell or now. *)
CountedTo(sid) ==
    LET s == sessions[sid]
        ran == IF s.endedAt = Never THEN s.endsAt ELSE Least(s.endsAt, s.endedAt)
    IN Greatest(s.startedAt, Least(ran, now))

(* Where a row moved its student: a noted one, nowhere. *)
Moved_Noted(e, turn) ==
    CASE e.type \in {"tap_in", "refocus"} -> "focused"
      [] e.type \in {"protection_off"} -> "protection_off"
      [] e.type = "unlock" -> "unlocked"
      [] e.type = "protection_on" -> IF turn = "unlock" THEN "unlocked" ELSE "focused"
      [] e.type \in Leaves -> "none"
      [] OTHER -> "unmoved"
Moved(e, turn) ==
    IF e.note # "none" THEN "unmoved" ELSE
    CASE e.type \in {"tap_in", "refocus"} -> "focused"
      [] e.type = "unlock" -> "unlocked"
      [] e.type = "protection_off" -> "protection_off"
      [] e.type = "protection_on" -> IF turn = "unlock" THEN "unlocked" ELSE "focused"
      [] e.type \in Leaves -> "none"
      [] OTHER -> "unmoved"

(* Time is counted up to a row's claim, held to the window and the walk. *)
Counted(w, sid, t) ==
    LET to == Greatest(w.at, Least(Greatest(t, sessions[sid].startedAt), CountedTo(sid)))
        for == IF w.state = "focused" THEN to - w.at ELSE 0
    IN [w EXCEPT !.at = to, !.focus = @ + (IF w.silent THEN 0 ELSE for),
                 !.quiet = @ + (IF w.silent THEN for ELSE 0)]

Walk(w, e) ==
    LET next == Moved(e, w.turn)
        turned == IF e.type \in {"tap_in", "refocus", "unlock"} /\ e.note # "superseded"
                  THEN [w EXCEPT !.turn = e.type] ELSE w
        c == Counted(turned, e.session, e.at)
    IN IF next = "unmoved" /\ e.type \notin {"went_silent", "came_back"} THEN turned
       ELSE [c EXCEPT
               !.silent = IF e.type = "went_silent" THEN w.state = "focused"
                          ELSE @ /\ e.type # "came_back" /\ next # "none",
               !.state = IF next = "unmoved" THEN @ ELSE next,
               !.joined = @ \/ (e.type = "tap_in" /\ next = "focused")]

Walked(st, sid) ==
    LET rows == RowsOf(st, sid)
        walked[k \in 0..Len(rows)] ==
            IF k = 0 THEN Unheard(sid) ELSE Walk(walked[k - 1], rows[k])
    IN walked[Len(rows)]
Reported(st, sid) == Counted(Walked(st, sid), sid, CountedTo(sid))

-----------------------------------------------------------------------------
(* The recap: marks, who was focused the whole time, and each one's line. *)

(* momentOf: what draws a mark; a late return draws none. *)
Marked(e) == e.type \in Returns => e.note = "none"

EndOf(sid) == IF sessions[sid].endedAt = Never THEN sessions[sid].endsAt
              ELSE sessions[sid].endedAt
BreaksFocus_Unlocks(e, sid) ==
    \/ e.type \in {"unlock", "protection_off"}
    \/ e.type \in Leaves /\ e.at < EndOf(sid)
BreaksFocus(e, sid) ==
    \/ e.type \in {"unlock", "protection_off"}
    \/ e.type \in Leaves \cup {"went_silent"} /\ e.at < EndOf(sid)

(* lineOf: from each tap-in to the leaving after it, or the session's end. *)
NoLine == [from |-> Never, last |-> 0, drawn |-> 0]
Draw(line, e) ==
    LET last == Greatest(line.last, Least(e.at, EndOf(e.session)))
    IN IF ~Marked(e) THEN line ELSE
       CASE e.type = "tap_in" ->
               [line EXCEPT !.last = last, !.from = IF @ = Never THEN last ELSE @]
         [] e.type \in Leaves ->
               [from |-> Never, last |-> last,
                drawn |-> line.drawn + (IF line.from = Never THEN 0 ELSE last - line.from)]
         [] OTHER -> line
LineOf(st, sid) ==
    LET rows == RowsOf(st, sid)
        drawn[k \in 0..Len(rows)] == IF k = 0 THEN NoLine ELSE Draw(drawn[k - 1], rows[k])
        line == drawn[Len(rows)]
    IN line.drawn + (IF line.from = Never THEN 0 ELSE EndOf(sid) - line.from)

WholeTime(st, sid) ==
    /\ \A e \in log[st] : e.session = sid => ~BreaksFocus(e, sid)
    /\ Reported(st, sid).joined

-----------------------------------------------------------------------------
(* What the readings promise. *)

(* The chip a tab shows is the snapshot's, whenever it booted: streamed from   *)
(* the first row or replayed over a later snapshot from any row, as a          *)
(* reconnect replays the overlap, it shows what a reload would.                *)
ChipMirrors ==
    \A st \in Students, sid \in SessionIds : Started(sid) =>
        LET rows == RowsOf(st, sid)
            chip == FromSnapshot(st, sid)
        IN /\ Shows(Streamed(Absent, sid, rows)) = Shows(chip)
           /\ \A k \in 1..Len(rows) : Shows(Streamed(chip, sid, From(rows, k))) = Shows(chip)

(* The report's walk ends where the engine has the student: in the lesson or   *)
(* out of it, in the same state, silent or not, though it reads only claims    *)
(* and notes.                                                                  *)
ReportFollows ==
    \A st \in Students, sid \in SessionIds :
        LET p == parts[st][sid]
            w == Walked(st, sid)
        IN Open(sid) => /\ w.state = IF Live(p) THEN p.state ELSE "none"
                        /\ w.silent = (Live(p) /\ p.silent)

(* Whoever the recap says was focused the whole time, the report counts as     *)
(* focused for the whole of their line, and silent for none of it.             *)
RecapAgrees ==
    \A st \in Students, sid \in SessionIds :
        sessions[sid].endedAt # Never /\ WholeTime(st, sid) =>
            /\ Reported(st, sid).focus = LineOf(st, sid)
            /\ Reported(st, sid).quiet = 0
=============================================================================
