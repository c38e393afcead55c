----------------------------- MODULE SlideCard -----------------------------
(***************************************************************************)
(* A teacher's window on what the session shows (use-slide.ts, useSlide;   *)
(* presenter.ts): what it holds, from its reads of the session, its stream *)
(* and its own changes' answers.  The teacher's other windows change the   *)
(* slide too, under ids of their own clocks.                               *)
(***************************************************************************)
EXTENDS Decks

CONSTANTS MaxId, MaxActs    \* bound: the ids slide changes go under, and the presses

VARIABLES
    held,        \* what the window holds: the deck, and the change that set it
    reading,     \* its read of the session
    heard,       \* how much of the session's events its stream has brought
    change,      \* its change on its way, and the answer come
    sends,       \* changes sent that the server has not taken up
    unanswered,  \* the change to send again under its id, or NoChange
    last,        \* the last change pressed
    said,        \* what the last change left to say
    taken,       \* ids changes went under, from any window
    acts         \* history: the presses, in any window

window == <<held, reading, heard, change, unanswered, last, said>>
cardVars == <<window, sends, taken, acts>>

ChangeIds == 1 .. MaxId
NoChange == NothingShown
Idle == [state |-> "idle", ev |-> 0, answer |-> "none", now |-> NothingShown]
NotReading == [state |-> "idle", again |-> FALSE, got |-> NothingShown]

CardInit(open) ==
    /\ acts = 0
    /\ held = NothingShown
    /\ reading = [NotReading EXCEPT !.state = IF open THEN "out" ELSE "closed"]
    /\ heard = 0
    /\ change = [Idle EXCEPT !.state = IF open THEN "idle" ELSE "closed"]
    /\ sends = {} /\ unanswered = NoChange /\ last = NoDeck /\ said = "nothing"
    /\ taken = {}

Up == reading.state # "closed"

-----------------------------------------------------------------------------
(* put: only ever a later change (newer); and what a change heard settles:   *)
(* nothing is left to send again, nor to say.                                *)

newer_Newest(next) == next
newer(next) == IF next.ev > held.ev THEN next ELSE held

put(next) ==
    /\ held' = newer(next)
    /\ IF newer(next).ev # held.ev
       THEN unanswered' = NoChange /\ said' = "nothing"
       ELSE UNCHANGED <<unanswered, said>>

reread ==
    reading' = IF reading.state = "idle" THEN [reading EXCEPT !.state = "out"]
               ELSE [reading EXCEPT !.again = TRUE]

ReadServed ==
    /\ reading.state = "out"
    /\ reading' = [reading EXCEPT !.state = "served", !.got = presentationNow]
    /\ UNCHANGED <<held, heard, change, unanswered, last, said, sends, taken, acts, decksVars>>

ReadTaken ==
    /\ reading.state = "served"
    /\ put(reading.got)
    /\ reading' = [NotReading EXCEPT !.state = IF reading.again THEN "out" ELSE "idle"]
    /\ UNCHANGED <<heard, change, last, sends, taken, acts, decksVars>>

(* Its stream.  A deck the event names and neither the window holds nor its  *)
(* list of decks has is found by reading the session again (slideAfter).     *)
Named(event) == event.deck \in {NoDeck, held.deck}
Hear ==
    /\ Up /\ heard < Len(slides)
    /\ heard' = heard + 1
    /\ LET event == slides[heard + 1]
       IN  \/ put(event) /\ UNCHANGED reading
           \/ /\ event.ev > held.ev /\ ~Named(event)
              /\ reread /\ UNCHANGED <<held, unanswered, said>>
    /\ UNCHANGED <<change, last, sends, taken, acts, decksVars>>

-----------------------------------------------------------------------------
(* Its changes, one at a time (change, slideAttemptFor): the same one sent   *)
(* again under its id while no answer came and no later one is held; else    *)
(* under a fresh id, after every one the window knows of.                    *)

Resent(deck) == unanswered # NoChange /\ unanswered.deck = deck /\ held.ev =< unanswered.ev
MintsAfter == IF unanswered.ev > held.ev THEN unanswered.ev ELSE held.ev
AttemptIds(deck) ==
    IF Resent(deck) THEN {unanswered.ev} ELSE {ev \in ChangeIds \ taken : ev > MintsAfter}

Act == acts < MaxActs /\ acts' = acts + 1

Change(deck) ==
    /\ Act
    /\ change.state = "idle"
    /\ \E ev \in AttemptIds(deck) :
         /\ sends' = sends \cup {[deck |-> deck, ev |-> ev]}
         /\ change' = [Idle EXCEPT !.state = "out", !.ev = ev]
         /\ taken' = taken \cup {ev}
    /\ last' = deck
    /\ UNCHANGED <<held, reading, heard, unanswered, decksVars>>

Presses(deck) == Change(deck) /\ said' = "nothing"
TriesAgain == said # "nothing" /\ Change(last) /\ UNCHANGED said

Waits(show) == change.state = "out" /\ change.ev = show.ev
Answers(show, answer, now) ==
    change' = IF Waits(show)
              THEN [change EXCEPT !.state = "answered", !.answer = answer, !.now = now]
              ELSE change

Recorded(show) == \E i \in DOMAIN slides : slides[i].ev = show.ev
ShownNow == IF running THEN shown ELSE [shown EXCEPT !.deck = NoDeck]

(* A replay; one refused; or one that takes its locks (showSlide). *)
ChangeServed(show) ==
    /\ show \in sends /\ sends' = sends \ {show}
    /\ \/ Recorded(show) /\ Answers(show, "shown", ShownNow) /\ UNCHANGED decksVars
       \/ ~Recorded(show) /\ HoldsShow(show) /\ UNCHANGED change
       \/ /\ ~Recorded(show) /\ RefusesShow(show)
          /\ Answers(show, IF ~running THEN "over" ELSE "gone", NothingShown)
          /\ UNCHANGED decksVars
    /\ UNCHANGED <<held, reading, heard, unanswered, last, said, taken, acts>>

ShowCommits ==
    \E show \in shows :
        /\ showSlide(show)
        /\ Answers(show, "shown", shown')
        /\ UNCHANGED <<held, reading, heard, unanswered, last, said, sends, taken, acts>>

(* changeEnd, once it shows what the session shows now. *)
ChangeTold ==
    /\ change.state = "answered"
    /\ change' = Idle
    /\ IF change.answer = "shown"
       THEN /\ held' = newer(change.now)
            /\ unanswered' = NoChange /\ said' = "nothing"
            /\ UNCHANGED reading
       ELSE /\ unanswered' = NoChange /\ said' = change.answer
            /\ IF change.answer = "gone" THEN reread ELSE UNCHANGED reading
            /\ UNCHANGED held
    /\ UNCHANGED <<heard, last, sends, taken, acts, decksVars>>

(* No answer in 10 s (SLIDE_TIMEOUT_MS): said, unless the stream has brought *)
(* it, or a later one, meanwhile.                                            *)
ChangeFails ==
    /\ change.state \in {"out", "answered"}
    /\ change' = Idle
    /\ IF held.ev >= change.ev
       THEN unanswered' = NoChange /\ said' = "nothing"
       ELSE unanswered' = [deck |-> last, ev |-> change.ev] /\ said' = "failed"
    /\ UNCHANGED <<held, reading, heard, last, sends, taken, acts, decksVars>>

(* Another window's change, as it takes its locks.  (Bound: with no window   *)
(* followed, one change.)                                                   *)
OtherShows(deck, ev) ==
    /\ ev \notin taken /\ taken' = taken \cup {ev}
    /\ Act /\ (Up \/ ev = 1)
    /\ HoldsShow([deck |-> deck, ev |-> ev])
    /\ UNCHANGED <<window, sends>>

Reads == ReadServed \/ ReadTaken
CardNext ==
    \/ Reads \/ Hear \/ ChangeTold \/ ChangeFails \/ TriesAgain \/ ShowCommits
    \/ \E deck \in Rows \cup {NoDeck} : Presses(deck)
    \/ \E deck \in Rows, ev \in ChangeIds : OtherShows(deck, ev)
    \/ \E show \in sends : ChangeServed(show)
=============================================================================
