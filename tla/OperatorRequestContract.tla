------------------------ MODULE OperatorRequestContract ------------------------
(***************************************************************************)
(* What the operator-request broker promises, without queues, maps or      *)
(* processes: a request is recorded, then decided once; a caller hears     *)
(* nothing until there is something to hear, then hears what was decided,  *)
(* once; and a decision is audited only if it is the one that was made.    *)
(***************************************************************************)
CONSTANTS Calls, Terminal, None

VARIABLES
    state,   \* of each request: absent, pending, or the decision
    about,   \* the request each call asks about
    heard,   \* what each call was told
    audited  \* the decision on record for each request

Init ==
    /\ state = [r \in Calls |-> "absent"]
    /\ about = [c \in Calls |-> None]
    /\ heard = [c \in Calls |-> "none"]
    /\ audited = [r \in Calls |-> "none"]

\* A call turns to a request, while it has heard nothing.
Ask(c) ==
    /\ heard[c] = "none"
    /\ \E r \in Calls : about' = [about EXCEPT ![c] = r]
    /\ UNCHANGED <<state, heard, audited>>

\* A request is recorded, and its caller waits for it.
Record(r) ==
    /\ state[r] = "absent" /\ heard[r] = "none"
    /\ state' = [state EXCEPT ![r] = "pending"]
    /\ about' = [about EXCEPT ![r] = r]
    /\ UNCHANGED <<heard, audited>>

\* A request is decided and some of those that ask about it are told, all in one instant.
Decide(r, d) ==
    /\ state[r] = "pending"
    /\ state' = [state EXCEPT ![r] = d]
    /\ \E C \in SUBSET {c \in Calls : about[c] = r /\ heard[c] = "none"} :
         heard' = [c \in Calls |-> IF c \in C THEN d ELSE heard[c]]
    /\ UNCHANGED <<about, audited>>

\* A late caller is told the decision, or that the request is unknown.
Tell(c) ==
    /\ heard[c] = "none" /\ about[c] # None
    /\ \/ /\ state[about[c]] \in Terminal
          /\ heard' = [heard EXCEPT ![c] = state[about[c]]]
       \/ /\ state[about[c]] = "absent"
          /\ heard' = [heard EXCEPT ![c] = "unknown"]
    /\ UNCHANGED <<state, about, audited>>

Audit(r) ==
    /\ state[r] \in Terminal /\ audited[r] = "none"
    /\ audited' = [audited EXCEPT ![r] = state[r]]
    /\ UNCHANGED <<state, about, heard>>

Next ==
    \/ \E c \in Calls : Ask(c) \/ Record(c) \/ Tell(c) \/ Audit(c)
    \/ \E r \in Calls, d \in Terminal : Decide(r, d)

Spec == Init /\ [][Next]_<<state, about, heard, audited>>
=============================================================================
