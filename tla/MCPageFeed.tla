----------------------------- MODULE MCPageFeed -----------------------------
(* An instance of PageFeed for TLC. *)
EXTENDS PageFeed
=============================================================================
