------------------------------ MODULE WriteQueue ------------------------------
(***************************************************************************)
(* SqliteWriteQueue: recorder writes are queued and run in batches, one    *)
(* transaction each; reads and the shutdown drain the queue first.  The    *)
(* module adds the storage handle's stop, which closes the queue and then  *)
(* the database, and the single connection, which serves transactions and  *)
(* queries in the order they ask for it (Kysely's mutex).                  *)
(*                                                                         *)
(* A promise settles in a step; its continuations run one by one, in the   *)
(* order they were attached, and anything else may run before them.  A     *)
(* call of drain() asks for the connection in the step that takes its      *)
(* batch, a reader only after its drain has resolved.                      *)
(***************************************************************************)
EXTENDS Naturals, FiniteSets, SequencesExt

CONSTANTS
    Readers,     \* callers that drain before they query
    Flush,       \* the drain scheduled by enqueue
    Closer,      \* the storage handle's stop
    Batch,       \* the transaction of a drain, on the connection
    MaxDepth,    \* maxDepth
    BatchSize,   \* batchSize
    MaxWrites    \* bound: calls of enqueue

Callers == Readers \cup {Closer}
Writes == 1..MaxWrites

ASSUME QueueAssumption ==
    /\ {MaxDepth, BatchSize} \subseteq Nat \ {0} /\ MaxWrites \in Nat
    /\ Cardinality({Flush, Closer, Batch}) = 3
    /\ Readers \cap {Flush, Closer, Batch} = {}

VARIABLES
    queue,       \* the queued writes, numbered in the order enqueue was called
    fate,        \* history: what became of each write
    scheduled,   \* a flush is on its way
    batch,       \* the writes of the running drain
    draining,    \* none, asked for the connection, or inside its transaction
    waiting,     \* continuations attached to the running drain
    resumed,     \* continuations of drains that ended
    connection,  \* who has the connection, and who asked for it after
    pc,          \* where each caller is
    prior,       \* history: the writes each caller's drain was called after
    closed,      \* the queue refuses writes
    open,        \* the database is open
    dropped      \* droppedWrites

promises == <<batch, draining, waiting, resumed>>
vars == <<queue, fate, scheduled, promises, connection, pc, prior, closed, open, dropped>>

Accepted == {w \in Writes : fate[w] # "new" /\ fate[w] # "refused"}
Settled(w) == fate[w] \in {"committed", "lost"}

Init ==
    /\ queue = <<>>
    /\ fate = [w \in Writes |-> "new"]
    /\ scheduled = FALSE
    /\ batch = <<>> /\ draining = "none"
    /\ waiting = <<>> /\ resumed = <<>>
    /\ connection = <<>>
    /\ pc = [c \in Callers |-> "idle"]
    /\ prior = [c \in Callers |-> {}]
    /\ closed = FALSE /\ open = TRUE
    /\ dropped = 0

----------------------------------------------------------------------------
\* enqueue.

\* Mutant of Enqueue: off by one.
MutantEnqueueOver(w) ==
    /\ fate[w] = "new" /\ \A v \in Writes : v < w => fate[v] # "new"
    /\ ~closed /\ Len(queue) <= MaxDepth
    /\ queue' = Append(queue, w)
    /\ fate' = [fate EXCEPT ![w] = "queued"]
    /\ scheduled' = TRUE
    /\ UNCHANGED <<promises, connection, pc, prior, closed, open, dropped>>

\* Mutant of Enqueue: only a write that comes behind others schedules a flush.
MutantEnqueueUnscheduled(w) ==
    /\ fate[w] = "new" /\ \A v \in Writes : v < w => fate[v] # "new"
    /\ ~closed /\ Len(queue) < MaxDepth
    /\ queue' = Append(queue, w)
    /\ fate' = [fate EXCEPT ![w] = "queued"]
    /\ scheduled' = (scheduled \/ queue # <<>>)
    /\ UNCHANGED <<promises, connection, pc, prior, closed, open, dropped>>

Enqueue(w) ==
    /\ fate[w] = "new" /\ \A v \in Writes : v < w => fate[v] # "new"
    /\ ~closed /\ Len(queue) < MaxDepth
    /\ queue' = Append(queue, w)
    /\ fate' = [fate EXCEPT ![w] = "queued"]
    /\ scheduled' = TRUE
    /\ UNCHANGED <<promises, connection, pc, prior, closed, open, dropped>>

Refuse(w) ==
    /\ fate[w] = "new" /\ \A v \in Writes : v < w => fate[v] # "new"
    /\ closed \/ Len(queue) >= MaxDepth
    /\ fate' = [fate EXCEPT ![w] = "refused"]
    /\ dropped' = dropped + 1
    /\ UNCHANGED <<queue, scheduled, promises, connection, pc, prior, closed, open>>

----------------------------------------------------------------------------
\* drain.  Caller c joins the running drain, starts one, or has nothing to wait for; `rest` are the
\* continuations that are still to run.

Join(c, rest) ==
    /\ draining # "none"
    /\ waiting' = Append(waiting, c)
    /\ resumed' = rest
    /\ UNCHANGED <<queue, batch, draining, connection>>

Taken == IF Len(queue) < BatchSize THEN Len(queue) ELSE BatchSize

StartDrain(c, rest) ==
    /\ draining = "none" /\ queue # <<>>
    /\ batch' = SubSeq(queue, 1, Taken)
    /\ queue' = SubSeq(queue, Taken + 1, Len(queue))
    /\ draining' = "asked"
    /\ waiting' = <<c>>
    /\ resumed' = rest
    /\ connection' = Append(connection, Batch)

Nothing(rest) ==
    /\ draining = "none" /\ queue = <<>>
    /\ resumed' = rest
    /\ UNCHANGED <<queue, batch, draining, waiting, connection>>

\* Whoever awaits a resolved drain goes on; nobody awaits a flush.
Resolved(c) == pc' = IF c = Flush THEN pc ELSE [pc EXCEPT ![c] = "drained"]

FlushNow ==
    /\ scheduled
    /\ scheduled' = FALSE
    /\ Join(Flush, resumed) \/ StartDrain(Flush, resumed) \/ Nothing(resumed)
    /\ UNCHANGED <<fate, pc, prior, closed, open, dropped>>

Drain(c) ==
    /\ pc[c] = "idle"
    /\ prior' = [prior EXCEPT ![c] = Accepted]
    /\ \/ (Join(c, resumed) \/ StartDrain(c, resumed)) /\ pc' = [pc EXCEPT ![c] = "draining"]
       \/ Nothing(resumed) /\ Resolved(c)
    /\ UNCHANGED <<fate, scheduled, closed, open, dropped>>

\* Mutant of Resume: a drain that waited for another's does not look at the queue again.
MutantResumeBlindly ==
    /\ resumed # <<>>
    /\ resumed' = Tail(resumed)
    /\ Resolved(Head(resumed))
    /\ UNCHANGED <<queue, batch, draining, waiting, connection>>
    /\ UNCHANGED <<fate, scheduled, prior, closed, open, dropped>>

\* A continuation: whatever arrived meanwhile is drained as well.
Resume ==
    /\ resumed # <<>>
    /\ LET c == Head(resumed)
           rest == Tail(resumed) IN
        \/ queue # <<>> /\ (Join(c, rest) \/ StartDrain(c, rest)) /\ UNCHANGED pc
        \/ /\ queue = <<>> /\ resumed' = rest /\ Resolved(c)
           /\ UNCHANGED <<queue, batch, draining, waiting, connection>>
    /\ UNCHANGED <<fate, scheduled, prior, closed, open, dropped>>

----------------------------------------------------------------------------
\* #drainOnce: the transaction of a batch.

Begin ==
    /\ draining = "asked" /\ Head(connection) = Batch
    /\ open
    /\ draining' = "running"
    /\ UNCHANGED <<queue, fate, scheduled, batch, waiting, resumed, connection, pc, prior, closed,
                   open, dropped>>

\* The drain is over: its promise settles, and the next one in line has the connection.
End(lost, count) ==
    /\ fate' = [w \in Writes |->
                  IF w \notin ToSet(batch) THEN fate[w]
                  ELSE IF w \in lost THEN "lost" ELSE "committed"]
    /\ dropped' = dropped + count
    /\ batch' = <<>> /\ draining' = "none"
    /\ resumed' = resumed \o waiting /\ waiting' = <<>>
    /\ connection' = Tail(connection)
    /\ UNCHANGED <<queue, scheduled, pc, prior, closed, open>>

\* Every job ran; those that threw are counted.
Commit ==
    /\ draining = "running" /\ open
    /\ \E lost \in SUBSET ToSet(batch) : End(lost, Cardinality(lost))

\* Mutant of Fail: only the jobs that threw are counted.
MutantFailUncounted ==
    \/ /\ draining = "asked" /\ Head(connection) = Batch
       /\ End(ToSet(batch), 0)
    \/ /\ draining = "running"
       /\ \E thrown \in SUBSET ToSet(batch) : End(ToSet(batch), Cardinality(thrown))

\* The transaction could not begin or commit, or the database was closed under it: all is lost and
\* counted, the jobs that threw before for the second time.
Fail ==
    \/ /\ draining = "asked" /\ Head(connection) = Batch
       /\ End(ToSet(batch), Len(batch))
    \/ /\ draining = "running"
       /\ \E thrown \in SUBSET ToSet(batch) :
            End(ToSet(batch), Len(batch) + Cardinality(thrown))

----------------------------------------------------------------------------
\* A reader after its drain (SqliteAnalyticsQueries), and the shutdown.

Ask(r) ==
    /\ pc[r] = "drained"
    /\ pc' = [pc EXCEPT ![r] = "asked"]
    /\ connection' = Append(connection, r)
    /\ UNCHANGED <<queue, fate, scheduled, promises, prior, closed, open, dropped>>

Query(r) ==
    /\ pc[r] = "asked" /\ Head(connection) = r
    /\ pc' = [pc EXCEPT ![r] = "idle"]
    /\ connection' = Tail(connection)
    /\ prior' = [prior EXCEPT ![r] = {}]
    /\ UNCHANGED <<queue, fate, scheduled, promises, closed, open, dropped>>

Close ==
    /\ pc[Closer] = "drained"
    /\ pc' = [pc EXCEPT ![Closer] = "closing"]
    /\ closed' = TRUE
    /\ UNCHANGED <<queue, fate, scheduled, promises, connection, prior, open, dropped>>

CloseDatabase ==
    /\ pc[Closer] = "closing"
    /\ pc' = [pc EXCEPT ![Closer] = "done"]
    /\ open' = FALSE
    /\ UNCHANGED <<queue, fate, scheduled, promises, connection, prior, closed, dropped>>

----------------------------------------------------------------------------

Next ==
    \/ \E w \in Writes : Enqueue(w) \/ Refuse(w)
    \/ FlushNow \/ Resume \/ Begin \/ Commit \/ Fail
    \/ \E c \in Callers : Drain(c)
    \/ \E r \in Readers : Ask(r) \/ Query(r)
    \/ Close \/ CloseDatabase

Spec == Init /\ [][Next]_vars

\* Microtasks run, and the connection answers whoever has it.
FairSpec ==
    /\ Spec
    /\ WF_vars(FlushNow) /\ WF_vars(Resume) /\ WF_vars(Begin) /\ WF_vars(Commit \/ Fail)
    /\ \A r \in Readers : WF_vars(Ask(r)) /\ WF_vars(Query(r))
    /\ WF_vars(Close) /\ WF_vars(CloseDatabase)

----------------------------------------------------------------------------
\* Properties.

\* Types; the queue is within its bound, and at most one drain has taken a batch, which has the
\* connection or waits for it.
TypeOK ==
    /\ queue \in Seq(Writes) /\ Len(queue) <= MaxDepth
    /\ fate \in [Writes -> {"new", "refused", "queued", "committed", "lost"}]
    /\ batch \in Seq(Writes) /\ Len(batch) <= BatchSize
    /\ draining \in {"none", "asked", "running"} /\ (draining = "none") = (batch = <<>>)
    /\ waiting \in Seq(Callers \cup {Flush}) /\ resumed \in Seq(Callers \cup {Flush})
    /\ connection \in Seq(Readers \cup {Batch})
    /\ pc \in [Callers -> {"idle", "draining", "drained", "asked", "closing", "done"}]
    /\ prior \in [Callers -> SUBSET Writes]
    /\ {scheduled, closed, open} \subseteq BOOLEAN
    /\ dropped \in Nat

\* "Reads call drain first so they observe every prior write": a query after its drain finds every
\* write accepted before the call settled.  When the queue closes after its drain, those writes have
\* at least left the queue; some may be in the batch of a drain that somebody else began.
DrainsTakePriorWrites ==
    [][/\ \A r \in Readers : pc[r] = "asked" /\ pc'[r] = "idle" => \A w \in prior[r] : Settled(w)
       /\ closed' /\ ~closed => prior[Closer] \cap ToSet(queue) = {}]_vars

\* No write disappears without being counted, through failing jobs, failing transactions, a full
\* queue and a database that closes under a batch.
LossesAreCounted ==
    Cardinality({w \in Writes : fate[w] \in {"lost", "refused"}}) <= dropped

\* Every accepted write is committed or counted in the end, also one accepted while the queue closes.
AcceptedWritesEnd ==
    \A w \in Writes : fate[w] = "queued" ~> Settled(w)
=============================================================================
