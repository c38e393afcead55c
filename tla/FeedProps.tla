----------------------------- MODULE FeedProps ------------------------------
(* What the live feed promises, of the state in Feed.tla. *)
EXTENDS Feed

(* Every write given a seq at or below the settled point has ended, so each  *)
(* of its events shows now or never will (settled.ts): however many writes   *)
(* are open at once, and whichever the process had no place left to wait on. *)
SettledSound ==
    \A s \in Seqs : s =< cursor.settled => rows[s].by \notin Writers

(* Nothing lies unsent behind a cursor: an event of the lesson at or below   *)
(* the point the tab resumes from is one it knows, however late it committed *)
(* and however often the stream broke off.                                   *)
NothingBehind ==
    tab.stage # "boot" => \A s \in Shown : s =< ResumePoint(tab) => s \in told

(* No event reaches the grid twice, over every read, re-read and reconnect:  *)
(* one the client takes for new is one it never passed on.                   *)
HeardOnce ==
    wire # <<>> /\ wire[1].kind = "event" /\ wire[1].seq \notin tab.delivered
        => wire[1].seq \notin heard

(* The feed implements Delivery: every event the lesson comes to show is told *)
(* in the end.                                                                *)
Promise == INSTANCE Delivery WITH Events <- 1..MaxRows, shown <- Shown, told <- told
Delivers == Promise!Spec

(* The grid comes to show every event of the lesson, whatever a refresh took  *)
(* off it.                                                                    *)
GridCatchesUp == <>[](grid.shows = Shown)
=============================================================================
