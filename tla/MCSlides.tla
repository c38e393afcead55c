------------------------------ MODULE MCSlides ------------------------------
(* Small instances of a teacher's decks and slides for TLC. *)
EXTENDS SlideProps
=============================================================================
