-------------------------- MODULE MCOperatorRequests --------------------------
(* Small instances of OperatorRequests for TLC. *)
EXTENDS OperatorRequests, TLC

\* Which inputs a run lets its calls make.
KeyedInputs == [session : Sessions, key : Keys \cup {NoKey}, timed : {FALSE}]
PlainInputs == [session : Sessions, key : {NoKey}, timed : BOOLEAN]
UntimedInputs == [session : Sessions, key : {NoKey}, timed : {FALSE}]

\* Calls are interchangeable.
CallSymmetry == Permutations(Calls)
=============================================================================
