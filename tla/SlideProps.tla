----------------------------- MODULE SlideProps -----------------------------
(* What a teacher's decks and slides promise, of the state in Slides.tla. *)
EXTENDS Slides

(* A deck stamped deleted has no file in the bucket, nor is one put there    *)
(* again by an upload that was stopped, retried or on its way (dropObject);  *)
(* and what a running session shows is a deck checked and kept, its file in  *)
(* the bucket: nothing is removed, rejected or deleted under it (removeDeck, *)
(* showSlide, completeDeck).                                                 *)
GoneForGood == \A d \in Rows : decks[d].stamped => d \notin stored
ShownDeckKept ==
    running /\ shown.deck # NoDeck
    => decks[shown.deck].status = "ready" /\ Kept(shown.deck) /\ shown.deck \in stored
FilesFollowDecks == GoneForGood /\ ShownDeckKept

(* No deck stays unfinished, nor the file of one removed or rejected kept,   *)
(* whatever was lost, refused or cut short (sweepDecks).                     *)
Leftover(d) ==
    \/ Unchecked(d)
    \/ Gone(d) /\ ~decks[d].stamped
NoLeftovers == <>[](\A d \in Rows : ~Leftover(d))

(* A window comes to show what the session shows, and no longer says that a  *)
(* change Bali took did not go through (useSlide).                           *)
SlideTrue ==
    Up /\ running =>
        /\ held = shown
        /\ said = "failed" => unanswered.ev > shown.ev
SlideCatchesUp == <>[]SlideTrue
=============================================================================
