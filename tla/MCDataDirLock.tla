---------------------------- MODULE MCDataDirLock ----------------------------
(* A small instance of DataDirLock for TLC. *)
EXTENDS DataDirLock
=============================================================================
