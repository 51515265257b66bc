---------------------------- MODULE MCRealtimeFeed ----------------------------
(* A small instance of RealtimeFeed for TLC. *)
EXTENDS RealtimeFeed
=============================================================================
