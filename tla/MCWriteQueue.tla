----------------------------- MODULE MCWriteQueue -----------------------------
(* A small instance of WriteQueue for TLC. *)
EXTENDS WriteQueue
=============================================================================
