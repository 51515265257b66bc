--------------------------- MODULE OperatorRequests ---------------------------
(***************************************************************************)
(* The one broker of operator requests (decision D-15): agents' tool calls *)
(* that block until a human decides, the sessions whose lease is paused    *)
(* while they wait, and the operator_requests table that mirrors the       *)
(* broker's in-memory map.                                                 *)
(*                                                                         *)
(* The process is single-threaded, so a step is the code between two       *)
(* awaits.  Every database call is a member of dbq: there is one SQLite    *)
(* connection behind a first-come mutex, so calls execute in the order     *)
(* they were issued.  Executing the head of dbq and running its caller up  *)
(* to the next await is one step: the continuation reads no rows and can   *)
(* only append to dbq, so it commutes with the execution of later calls.   *)
(*                                                                         *)
(* A request is named by the call that opened it.  Time is abstracted: a   *)
(* timed request's deadline may pass at any moment, and so may the lease   *)
(* of a session that is not paused.                                        *)
(***************************************************************************)
EXTENDS Naturals, Sequences, FiniteSets

CONSTANTS
    Calls,          \* tool calls; a call that opens a request names it
    Sessions,       \* browser sessions, live from the start
    Keys,           \* idempotency keys
    NoKey,          \* a call without an idempotency key
    Inputs,         \* what a call may ask for: its session, key and whether it has a deadline
    None,           \* no request
    MaxPerSession,  \* OperatorRequestLimits.perSession
    MaxGlobal,      \* OperatorRequestLimits.global
    MaxFaults,      \* bound: database calls that may throw
    MaxRuns         \* bound: processes that serve one after the other

ASSUME LimitsAssumption ==
    /\ MaxPerSession \in Nat /\ MaxGlobal \in Nat
    /\ MaxFaults \in Nat /\ MaxRuns \in Nat
ASSUME NamesAssumption ==
    /\ NoKey \notin Keys
    /\ None \notin Calls
    /\ Inputs \subseteq [session : Sessions, key : Keys \cup {NoKey}, timed : BOOLEAN]
    /\ {"deadline", "client", "operator", "server"} \cap Sessions = {}

VARIABLES
    pc,        \* where each call is suspended
    input,     \* the session, key and timeout a call was made with
    target,    \* the request whose outcome a call is after
    told,      \* the outcome the agent was given
    pending,   \* OperatorRequestBroker.pending, the live requests
    decision,  \* the status settle chose, from the moment it left pending
    row,       \* operator_requests.status
    audit,     \* the decision recorded in operator_actions
    lease,     \* each session: live, paused, closing (out of the registry), closed
    sweep,     \* ids settleForSession / shutdown has still to reject
    dbq,       \* database calls issued and not yet executed, oldest first
    mode,      \* the process: up, stopping, down, recovering
    faults,    \* database calls that threw so far
    run        \* which process is serving

vars == <<pc, input, target, told, pending, decision, row, audit, lease, sweep,
          dbq, mode, faults, run>>

Terminal == {"resolved", "rejected", "timeout", "cancelled"}
\* Who waits for a settle to finish: a sweep goes on to its next id, an operator is audited.
Sweepers == Sessions \cup {"server"}
Settlers == Sweepers \cup {"deadline", "client", "operator"}
DbOps == [op : {"find", "insert", "peek", "get", "expire", "audit"},
          id : Calls, by : {None}]
         \cup [op : {"settle"}, id : Calls, by : Settlers]

Init ==
    /\ pc = [c \in Calls |-> "idle"]
    /\ input \in [Calls -> Inputs]
    /\ target = [c \in Calls |-> None]
    /\ told = [c \in Calls |-> "none"]
    /\ pending = {}
    /\ decision = [c \in Calls |-> "none"]
    /\ row = [c \in Calls |-> "absent"]
    /\ audit = [c \in Calls |-> "none"]
    /\ lease = [s \in Sessions |-> "live"]
    /\ sweep = [b \in Sweepers |-> {}]
    /\ dbq = <<>>
    /\ mode = "up"
    /\ faults = 0
    /\ run = 1

Serving == mode \in {"up", "stopping"}
SessionOf(r) == input[r].session
OpenIdsFor(s) == {r \in pending : SessionOf(r) = s}
SameKey(r, c) ==
    /\ input[r].key # NoKey
    /\ input[r].key = input[c].key
    /\ SessionOf(r) = SessionOf(c)
Stored(c) == {r \in Calls : row[r] # "absent" /\ SameKey(r, c)}
Waiters(r) == {c \in Calls : pc[c] = "waiting" /\ target[c] = r}

Call(op, id) == [op |-> op, id |-> id, by |-> None]

-----------------------------------------------------------------------------
(* Opening a request *)

\* requireSession: the tool call is admitted while its session can serve tools.
Admit(c) ==
    /\ Serving /\ pc[c] = "idle"
    /\ lease[SessionOf(c)] \in {"live", "paused"}
    /\ pc' = [pc EXCEPT ![c] = "admitted"]
    /\ UNCHANGED <<input, target, told, pending, decision, row, audit, lease,
                   sweep, dbq, mode, faults, run>>

HasCapacity(s) ==
    /\ Cardinality(OpenIdsFor(s)) < MaxPerSession
    /\ Cardinality(pending) < MaxGlobal

\* Mutant of Place: the lease is left running.
MutantPlaceNoPause(c, q) ==
    \/ /\ ~HasCapacity(SessionOf(c))
       /\ pc' = [pc EXCEPT ![c] = "failed"]
       /\ dbq' = q
       /\ UNCHANGED <<lease, target>>
    \/ /\ HasCapacity(SessionOf(c))
       /\ pc' = [pc EXCEPT ![c] = "inserting"]
       /\ dbq' = Append(q, Call("insert", c))
       /\ UNCHANGED <<lease, target>>

\* The part of open from assertCapacity to the insert: refuse, or pause the lease and insert.
Place(c, q) ==
    \/ /\ ~HasCapacity(SessionOf(c))
       /\ pc' = [pc EXCEPT ![c] = "failed"]
       /\ dbq' = q
       /\ UNCHANGED <<lease, target>>
    \/ /\ HasCapacity(SessionOf(c))
       /\ pc' = [pc EXCEPT ![c] = "inserting"]
       /\ lease' = IF lease[SessionOf(c)] = "live"
                   THEN [lease EXCEPT ![SessionOf(c)] = "paused"] ELSE lease
       /\ dbq' = Append(q, Call("insert", c))
       /\ UNCHANGED target

\* open reuses a live request with the same key, else looks the key up, else places the request.
Open(c) ==
    /\ Serving /\ pc[c] = "admitted"
    /\ \/ \E r \in pending :
            /\ SameKey(r, c)
            /\ pc' = [pc EXCEPT ![c] = "waiting"]
            /\ target' = [target EXCEPT ![c] = r]
            /\ UNCHANGED <<lease, dbq>>
       \/ /\ input[c].key # NoKey
          /\ \A r \in pending : ~SameKey(r, c)
          /\ pc' = [pc EXCEPT ![c] = "finding"]
          /\ dbq' = Append(dbq, Call("find", c))
          /\ UNCHANGED <<lease, target>>
       \/ input[c].key = NoKey /\ Place(c, dbq)
    /\ UNCHANGED <<input, told, pending, decision, row, audit, sweep, mode,
                   faults, run>>

\* get_attention_result: AttentionService.result reads the row before it asks the broker.  It asks
\* about a request of its own: another principal's, or one of another kind, is answered like an
\* unknown one and touches nothing.
Reattach(c, r) ==
    /\ Serving /\ pc[c] = "idle" /\ c # r
    /\ pc' = [pc EXCEPT ![c] = "peeking"]
    /\ target' = [target EXCEPT ![c] = r]
    /\ dbq' = Append(dbq, Call("peek", c))
    /\ UNCHANGED <<input, told, pending, decision, row, audit, lease, sweep,
                   mode, faults, run>>

-----------------------------------------------------------------------------
(* Settling a request *)

\* Mutant of Settle: the lease is never resumed.
MutantSettleNoResume(r, status, resume, by) ==
    /\ r \in pending
    /\ pending' = pending \ {r}
    /\ decision' = [decision EXCEPT ![r] = status]
    /\ dbq' = Append(dbq, [op |-> "settle", id |-> r, by |-> by])
    /\ UNCHANGED lease

\* Mutant of Settle: the request stays in the map until its UPDATE was executed.
MutantSettleTwice(r, status, resume, by) ==
    /\ r \in pending
    /\ decision' = [decision EXCEPT ![r] = status]
    /\ lease' = IF resume /\ lease[SessionOf(r)] = "paused"
                THEN [lease EXCEPT ![SessionOf(r)] = "live"] ELSE lease
    /\ Len(dbq) < 4
    /\ dbq' = Append(dbq, [op |-> "settle", id |-> r, by |-> by])
    /\ UNCHANGED pending

\* settle up to its await: out of the map, lease resumed unless told not to, UPDATE issued.
Settle(r, status, resume, by) ==
    /\ r \in pending
    /\ pending' = pending \ {r}
    /\ decision' = [decision EXCEPT ![r] = status]
    /\ lease' = IF resume /\ lease[SessionOf(r)] = "paused"
                THEN [lease EXCEPT ![SessionOf(r)] = "live"] ELSE lease
    /\ dbq' = Append(dbq, [op |-> "settle", id |-> r, by |-> by])

UnchangedBySettle ==
    UNCHANGED <<pc, input, target, told, row, audit, mode, faults, run>>

\* Mutant of Resolve: an operator who comes second is audited as well.
MutantResolveLate(r, status) ==
    /\ Serving /\ row[r] \in Terminal /\ Len(dbq) < 4
    /\ decision' = [decision EXCEPT ![r] = status]
    /\ dbq' = Append(dbq, Call("audit", r))
    /\ UNCHANGED <<pending, lease, sweep>> /\ UnchangedBySettle

\* OperatorRequestBroker.resolve: a human resolves or rejects.
Resolve(r, status) ==
    /\ Serving /\ Settle(r, status, TRUE, "operator")
    /\ UNCHANGED sweep /\ UnchangedBySettle

\* armDeadline: the sleep ends first.
Expire(r) ==
    /\ Serving /\ input[r].timed /\ Settle(r, "timeout", TRUE, "deadline")
    /\ UNCHANGED sweep /\ UnchangedBySettle

\* armCancellation, or a heartbeat the client rejected.
Cancel(r) ==
    /\ Serving /\ Settle(r, "cancelled", TRUE, "client")
    /\ UNCHANGED sweep /\ UnchangedBySettle

Busy(b) == \E i \in 1..Len(dbq) : dbq[i].op = "settle" /\ dbq[i].by = b

\* Mutant of SweepNext: the loop stops after its first id.
MutantSweepOnce(b) ==
    /\ Serving /\ ~Busy(b)
    /\ \E r \in sweep[b] \cap pending :
         /\ Settle(r, "rejected", FALSE, b)
         /\ sweep' = [sweep EXCEPT ![b] = {}]
    /\ UnchangedBySettle

\* One turn of the loop of settleForSession or shutdown; an id settled meanwhile is skipped.
SweepNext(b) ==
    /\ Serving /\ ~Busy(b)
    /\ \E r \in sweep[b] \cap pending :
         /\ Settle(r, "rejected", FALSE, b)
         /\ sweep' = [sweep EXCEPT ![b] = (@ \cap pending) \ {r}]
    /\ UnchangedBySettle

-----------------------------------------------------------------------------
(* Sessions *)

\* closeSession takes the session out of the registry; the lease sweeper only closes live ones.
BeginClose(s) ==
    /\ Serving /\ lease[s] \in {"live", "paused"}
    /\ lease' = [lease EXCEPT ![s] = "closing"]
    /\ UNCHANGED <<pc, input, target, told, pending, decision, row, audit,
                   sweep, dbq, mode, faults, run>>

\* The teardown ended: session.closed is published and settleForSession lists the open requests.
Closed(s) ==
    /\ Serving /\ lease[s] = "closing"
    /\ lease' = [lease EXCEPT ![s] = "closed"]
    /\ sweep' = [sweep EXCEPT ![s] = OpenIdsFor(s)]
    /\ UNCHANGED <<pc, input, target, told, pending, decision, row, audit,
                   dbq, mode, faults, run>>

-----------------------------------------------------------------------------
(* The database executes its oldest call and the caller goes on *)

\* Mutant of AwaitOrRead: result always reads the table, even for a live request.
MutantAlwaysRead(c, r) ==
    /\ target' = [target EXCEPT ![c] = r]
    /\ pc' = [pc EXCEPT ![c] = "reading"]
    /\ dbq' = Append(Tail(dbq), Call("get", c))

\* result: a live request is awaited, anything else is read from the table.
AwaitOrRead(c, r) ==
    /\ target' = [target EXCEPT ![c] = r]
    /\ IF r \in pending
       THEN pc' = [pc EXCEPT ![c] = "waiting"] /\ dbq' = Tail(dbq)
       ELSE /\ pc' = [pc EXCEPT ![c] = "reading"]
            /\ dbq' = Append(Tail(dbq), Call("get", c))

\* getByIdempotencyKey, then result of the row found, else the request is placed.
ExecFind(c) ==
    /\ \/ \E r \in Stored(c) : AwaitOrRead(c, r) /\ UNCHANGED lease
       \/ Stored(c) = {} /\ Place(c, Tail(dbq))
    /\ UNCHANGED <<told, pending, row, audit>>

\* insert ... on conflict do nothing; the request goes live whether or not a row was added.
ExecInsert(c) ==
    /\ row' = IF Stored(c) = {} THEN [row EXCEPT ![c] = "pending"] ELSE row
    /\ pending' = pending \cup {c}
    /\ pc' = [pc EXCEPT ![c] = "waiting"]
    /\ target' = [target EXCEPT ![c] = c]
    /\ dbq' = Tail(dbq)
    /\ UNCHANGED <<told, audit, lease>>

\* AttentionService.result: an unknown id is answered at once, as would be another principal's.
ExecPeek(c) ==
    /\ \/ /\ row[target[c]] = "absent"
          /\ pc' = [pc EXCEPT ![c] = "done"]
          /\ told' = [told EXCEPT ![c] = "unknown"]
          /\ dbq' = Tail(dbq)
          /\ UNCHANGED target
       \/ row[target[c]] # "absent" /\ AwaitOrRead(c, target[c]) /\ UNCHANGED told
    /\ UNCHANGED <<pending, row, audit, lease>>

\* result: the stored outcome, or reject-on-read of a pending row nobody waits on.
ExecGet(c) ==
    /\ \/ /\ row[target[c]] \in Terminal
          /\ pc' = [pc EXCEPT ![c] = "done"]
          /\ told' = [told EXCEPT ![c] = row[target[c]]]
          /\ dbq' = Tail(dbq)
       \/ /\ row[target[c]] = "pending"
          /\ pc' = [pc EXCEPT ![c] = "expiring"]
          /\ dbq' = Append(Tail(dbq), Call("expire", c))
          /\ UNCHANGED told
    /\ UNCHANGED <<target, pending, row, audit, lease>>

\* UPDATE operator_requests ... WHERE status = 'pending'
Update(r, status) ==
    row' = IF row[r] = "pending" THEN [row EXCEPT ![r] = status] ELSE row

ExecExpire(c) ==
    /\ Update(target[c], "rejected")
    /\ pc' = [pc EXCEPT ![c] = "done"]
    /\ told' = [told EXCEPT ![c] = "rejected"]
    /\ dbq' = Tail(dbq)
    /\ UNCHANGED <<target, pending, audit, lease>>

\* settle after its await: the promise resolves; resolve goes on to append the audit row.
ExecSettle(r, by) ==
    /\ Update(r, decision[r])
    /\ pc' = [c \in Calls |-> IF c \in Waiters(r) THEN "done" ELSE pc[c]]
    /\ told' = [c \in Calls |-> IF c \in Waiters(r) THEN decision[r] ELSE told[c]]
    /\ dbq' = IF by = "operator" THEN Append(Tail(dbq), Call("audit", r)) ELSE Tail(dbq)
    /\ UNCHANGED <<target, pending, audit, lease>>

ExecAudit(r) ==
    /\ audit' = [audit EXCEPT ![r] = decision[r]]
    /\ dbq' = Tail(dbq)
    /\ UNCHANGED <<pc, target, told, pending, row, lease>>

DbExec ==
    /\ Serving /\ dbq # <<>>
    /\ LET head == Head(dbq)
       IN \/ head.op = "find" /\ ExecFind(head.id)
          \/ head.op = "insert" /\ ExecInsert(head.id)
          \/ head.op = "peek" /\ ExecPeek(head.id)
          \/ head.op = "get" /\ ExecGet(head.id)
          \/ head.op = "expire" /\ ExecExpire(head.id)
          \/ head.op = "settle" /\ ExecSettle(head.id, head.by)
          \/ head.op = "audit" /\ ExecAudit(head.id)
    /\ UNCHANGED <<input, decision, sweep, mode, faults, run>>

\* The call throws: its tool call fails, a settle tells nobody and ends the sweep that awaited it.
DbFail ==
    /\ Serving /\ dbq # <<>> /\ faults < MaxFaults
    /\ faults' = faults + 1
    /\ dbq' = Tail(dbq)
    /\ LET head == Head(dbq)
       IN /\ pc' = IF head.op \in {"settle", "audit"} THEN pc
                   ELSE [pc EXCEPT ![head.id] = "failed"]
          /\ sweep' = IF head.op = "settle" /\ head.by \in Sweepers
                      THEN [sweep EXCEPT ![head.by] = {}] ELSE sweep
    /\ UNCHANGED <<input, target, told, pending, decision, row, audit, lease,
                   mode, run>>

-----------------------------------------------------------------------------
(* The process stops, or dies, and another one takes its data directory *)

\* build-domain's stop: closeAll has settled, then broker.shutdown lists the open requests.
\* closeAll lists the registry once, and a session whose close is under way is in it no more.
Shutdown ==
    /\ mode = "up" /\ \A s \in Sessions : lease[s] \in {"closing", "closed"}
    /\ mode' = "stopping"
    /\ sweep' = [sweep EXCEPT !["server"] = pending]
    /\ UNCHANGED <<pc, input, target, told, pending, decision, row, audit,
                   lease, dbq, faults, run>>

InFlight == {"admitted", "finding", "inserting", "waiting", "peeking",
             "reading", "expiring"}

\* The process ends with everything it held in memory.
Exit ==
    /\ mode # "down" /\ run < MaxRuns
    /\ mode' = "down"
    /\ pending' = {} /\ dbq' = <<>>
    /\ sweep' = [b \in Sweepers |-> {}]
    /\ decision' = [c \in Calls |-> "none"]
    /\ lease' = [s \in Sessions |-> "closed"]
    /\ pc' = [c \in Calls |-> IF pc[c] \in InFlight THEN "lost" ELSE pc[c]]
    /\ UNCHANGED <<input, target, told, row, audit, faults, run>>

Restart ==
    /\ mode = "down"
    /\ mode' = "recovering" /\ run' = run + 1
    /\ UNCHANGED <<pc, input, target, told, pending, decision, row, audit,
                   lease, sweep, dbq, faults>>

\* Mutant of RecoverOrphan: the orphan gets the reason its session got.
MutantRecoverInterrupted(r) ==
    /\ mode = "recovering" /\ row[r] = "pending" /\ r \notin pending
    /\ row' = [row EXCEPT ![r] = "interrupted"]
    /\ UNCHANGED <<pc, input, target, told, pending, decision, audit, lease,
                   sweep, dbq, mode, faults, run>>

\* Mutant of RecoverOrphan: every row a dead process left is rejected, settled or not.
MutantRecoverAll(r) ==
    /\ mode = "recovering" /\ row[r] # "absent" /\ r \notin pending
    /\ row' = [row EXCEPT ![r] = "rejected"]
    /\ UNCHANGED <<pc, input, target, told, pending, decision, audit, lease,
                   sweep, dbq, mode, faults, run>>

\* recoverOrphans, before any tool is served: one UPDATE per pending row.
RecoverOrphan(r) ==
    /\ mode = "recovering" /\ row[r] = "pending" /\ r \notin pending
    /\ Update(r, "rejected")
    /\ UNCHANGED <<pc, input, target, told, pending, decision, audit, lease,
                   sweep, dbq, mode, faults, run>>

\* reconcileOnStartup goes on when the loop ends, or when a step of it threw.
Recovered ==
    /\ mode = "recovering"
    /\ \/ (\A r \in Calls : row[r] # "pending") /\ UNCHANGED faults
       \/ faults < MaxFaults /\ faults' = faults + 1
    /\ mode' = "up"
    /\ UNCHANGED <<pc, input, target, told, pending, decision, row, audit,
                   lease, sweep, dbq, run>>

Next ==
    \/ \E c \in Calls : Admit(c) \/ Open(c)
    \/ \E c, r \in Calls : Reattach(c, r)
    \/ \E r \in Calls : Expire(r) \/ Cancel(r)
    \/ \E r \in Calls, status \in {"resolved", "rejected"} : Resolve(r, status)
    \/ \E b \in Sweepers : SweepNext(b)
    \/ \E s \in Sessions : BeginClose(s) \/ Closed(s)
    \/ DbExec \/ DbFail
    \/ Shutdown \/ Exit \/ Restart \/ Recovered
    \/ \E r \in Calls : RecoverOrphan(r)

Spec == Init /\ [][Next]_vars

\* Timers fire, the database answers, awaited loops and teardowns (deadline-bounded) go on.
Fairness ==
    /\ WF_vars(DbExec)
    /\ \A c \in Calls : WF_vars(Open(c)) /\ WF_vars(Expire(c))
    /\ \A b \in Sweepers : WF_vars(SweepNext(b))
    /\ \A s \in Sessions : WF_vars(Closed(s))

FairSpec == Spec /\ Fairness
-----------------------------------------------------------------------------
(* Properties *)

PcStates == InFlight \cup {"idle", "done", "failed", "lost"}

\* Type invariant of the broker's state, its table and its database calls.
TypeOK ==
    /\ pc \in [Calls -> PcStates]
    /\ input \in [Calls -> Inputs]
    /\ target \in [Calls -> Calls \cup {None}]
    /\ told \in [Calls -> Terminal \cup {"none", "unknown"}]
    /\ pending \subseteq Calls
    /\ decision \in [Calls -> Terminal \cup {"none"}]
    /\ row \in [Calls -> Terminal \cup {"absent", "pending"}]
    /\ audit \in [Calls -> Terminal \cup {"none"}]
    /\ lease \in [Sessions -> {"live", "paused", "closing", "closed"}]
    /\ sweep \in [Sweepers -> SUBSET Calls]
    /\ dbq \in Seq(DbOps)
    /\ mode \in {"up", "stopping", "down", "recovering"}
    /\ faults \in Nat
    /\ run \in Nat

\* The row of another request holds r's idempotency key, so r's own row was never written.
Shadowed(r) ==
    /\ row[r] = "absent"
    /\ \E o \in Calls \ {r} : row[o] # "absent" /\ SameKey(o, r)

\* The table is the durable projection of the map (broker.ts, class comment): a live request's
\* row is pending whatever readers, recovery and earlier processes did to the table, unless
\* insert dropped it because a concurrent open with the same key came first.
RowIsPendingWhileLive == \A r \in pending : row[r] = "pending" \/ Shadowed(r)

\* What any caller was told of a request is what its row says, then and ever after: the waiter
\* settle woke, callers that share its key, readers in this process or in one that recovered.
OutcomeIsDurable ==
    \A c \in Calls :
        pc[c] = "done" /\ told[c] \in Terminal =>
            row[target[c]] = told[c] \/ Shadowed(target[c])

\* An operator_actions row records the decision that won: of two operators, a deadline, a
\* disconnect and a closing session, no loser is audited as having decided (broker.resolve).
AuditIsTheOutcome ==
    \A r \in Calls : audit[r] # "none" => row[r] = audit[r] \/ Shadowed(r)

\* A session whose lease is paused is waited for: some request of it is live or about to be, so
\* it cannot outlive its lease for ever.  A database call that threw voids the guarantee.
PausedLeaseHasWaiter ==
    faults = 0 =>
        \A s \in Sessions : lease[s] = "paused" =>
            \E c \in Calls : SessionOf(c) = s /\ (pc[c] = "inserting" \/ c \in pending)

\* The lease of a session with a live request runs only if another request of it was decided.
LeaseRunsOnlyAfterADecision ==
    \A r \in pending : lease[SessionOf(r)] = "live" =>
        \E o \in Calls \ {r} : SessionOf(o) = SessionOf(r) /\ decision[o] # "none"

\* A caller after a request with a deadline is answered, even if its session closes meanwhile.
TimedRequestsEnd ==
    \A c, r \in Calls :
        (pc[c] = "waiting" /\ target[c] = r /\ input[r].timed) ~> (pc[c] # "waiting")

\* Every request open when its session closed is settled, deadline or not (settleForSession).
SweptRequestsEnd ==
    \A s \in Sessions, r \in Calls : (r \in sweep[s]) ~> (r \notin pending)

\* Who waits for a request that has an end in sight is answered.
RequestsEnd == TimedRequestsEnd /\ SweptRequestsEnd

\* The broker implements its contract when no two calls share a key: restarts, failed database
\* calls, races of settlers and re-attached readers all look like one decision, heard once.
Contract == INSTANCE OperatorRequestContract
    WITH state <- row, about <- target, heard <- told, audited <- audit
ContractSpec == Contract!Spec

-----------------------------------------------------------------------------
(* Why the safety properties hold: what they need of calls, requests and queue *)

CallerOps == {"find", "insert", "peek", "get", "expire"}
Queued == 1..Len(dbq)

\* A call is suspended on the database call it has in the queue.
CallersWait ==
    \A i \in Queued :
        /\ dbq[i].op = "find" => pc[dbq[i].id] = "finding"
        /\ dbq[i].op = "insert" => pc[dbq[i].id] = "inserting"
        /\ dbq[i].op = "peek" => pc[dbq[i].id] = "peeking"
        /\ dbq[i].op = "get" => pc[dbq[i].id] = "reading"
        /\ dbq[i].op = "expire" => pc[dbq[i].id] = "expiring"

\* A call has one database call in the queue, and a request one settle.
QueuedOnce ==
    \A i, j \in Queued :
        /\ i # j
        /\ \/ dbq[i].op \in CallerOps /\ dbq[j].op \in CallerOps
           \/ dbq[i].op = "settle" /\ dbq[j].op = "settle"
        => dbq[i].id # dbq[j].id

\* A settle in the queue will write its decision, and an audit will record what was written.
SettlesWillTell ==
    \A i \in Queued :
        LET r == dbq[i].id
        IN /\ dbq[i].op = "settle" =>
                decision[r] \in Terminal /\ (row[r] = "pending" \/ Shadowed(r))
           /\ dbq[i].op = "audit" =>
                decision[r] \in Terminal /\ (row[r] = decision[r] \/ Shadowed(r))

\* A live request is undecided and has its opener waiting for it.
LiveIsAwaited ==
    \A r \in pending : pc[r] = "waiting" /\ target[r] = r /\ decision[r] = "none"

DecidedWasOpened == \A r \in Calls : decision[r] # "none" => pc[r] \in {"waiting", "done"}

UnopenedHasNoRow ==
    \A c \in Calls :
        pc[c] \in {"idle", "admitted", "finding", "inserting"} => row[c] = "absent"

\* Who reads the table, or rejects on read, is after a request that has a row and is not live.
ReadersOfTheDead ==
    \A c \in Calls :
        /\ pc[c] \in {"waiting", "peeking", "reading", "expiring", "done"} => target[c] \in Calls
        /\ pc[c] \in {"reading", "expiring"} =>
              target[c] \notin pending /\ row[target[c]] # "absent"

\* First come, first served: a read comes after the settle of the request it is about.
SettledBeforeRead ==
    \A i, j \in Queued :
        /\ dbq[i].op = "get" /\ dbq[j].op = "settle"
        /\ target[dbq[i].id] = dbq[j].id
        => j < i

\* So a reject-on-read is only issued when nobody else will write that row.
OnlyReaderRejects ==
    \A c \in Calls : pc[c] = "expiring" =>
        /\ row[target[c]] \in {"pending", "rejected"}
        /\ \A i \in Queued : dbq[i].op = "settle" => dbq[i].id # target[c]

\* Sweeps, which do not resume leases, only find requests of closed sessions.
SweptIsClosed ==
    \A b \in Sweepers : \A r \in sweep[b] : lease[SessionOf(r)] \in {"closing", "closed"}

\* The lease of a request that is live or about to be runs only after another one's decision.
LeaseRunsOnlyForTheUndecided ==
    \A r \in Calls :
        (r \in pending \/ pc[r] = "inserting") /\ lease[SessionOf(r)] = "live" =>
            \E o \in Calls \ {r} : SessionOf(o) = SessionOf(r) /\ decision[o] # "none"

\* Between two processes there is no map and no queue.
NothingWhileDown == ~Serving => pending = {} /\ dbq = <<>>

\* With the type invariant, this is inductive: the queue, the map, the table, the leases and the
\* callers stay in step through every settle, read, failed call and restart of broker.ts.
BrokerInv ==
    /\ CallersWait /\ QueuedOnce /\ SettlesWillTell
    /\ LiveIsAwaited /\ DecidedWasOpened /\ UnopenedHasNoRow
    /\ ReadersOfTheDead /\ SettledBeforeRead /\ OnlyReaderRejects
    /\ SweptIsClosed /\ LeaseRunsOnlyForTheUndecided /\ PausedLeaseHasWaiter
    /\ NothingWhileDown
    /\ RowIsPendingWhileLive /\ OutcomeIsDurable /\ AuditIsTheOutcome

-----------------------------------------------------------------------------
(* A claim of the documentation that the code does not keep *)

\* "Rejects every open request of a session" (settleForSession): once the sweep of a closed
\* session is over, none of the requests made while it was up is still waiting.
ClosedSessionHasNoOpenRequest ==
    \A s \in Sessions :
        lease[s] = "closed" /\ sweep[s] \cap pending = {} /\ ~Busy(s) => OpenIdsFor(s) = {}
=============================================================================
