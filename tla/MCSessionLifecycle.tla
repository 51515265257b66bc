-------------------------- MODULE MCSessionLifecycle --------------------------
(* Small instances of SessionLifecycle for TLC. *)
EXTENDS SessionLifecycle, TLC

\* Sessions are interchangeable.
SessionSymmetry == Permutations(Sessions)
=============================================================================
