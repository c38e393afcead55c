------------------------------- MODULE MCFeed -------------------------------
(* Small instances of the live feed for TLC. *)
EXTENDS FeedProps
=============================================================================
