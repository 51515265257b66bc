---------------------------- MODULE DeliveryOutbox ----------------------------
(***************************************************************************)
(* The notification outbox (decision D-34) of one external channel: the    *)
(* service that plans deliveries in the transaction of a notification, the *)
(* worker that claims, sends and records them, the circuit breaker, the    *)
(* sweep of expired messages, an operator who pauses and resumes the       *)
(* channel, crashes, and recovery at the next start.                       *)
(*                                                                         *)
(* A step is the code between two awaits; statements the database executes *)
(* and the code after them up to the next await are one step, because the  *)
(* connection serves one transaction at a time.  Time is abstracted: a     *)
(* back-off, an edit's spacing or a message's TTL passes at any moment.    *)
(***************************************************************************)
EXTENDS Integers, FiniteSets

CONSTANTS
    Notes,              \* notifications, numbered in the order of their creation
    MaxRev,             \* bound: revisions of a notification
    Info,               \* the notifications of severity info
    CanEdit, CanDelete, \* capabilities of the channel's adapter
    Ttl,                \* the channel's rules give messages a TTL
    DeleteWhenResolved, \* the channel's rules delete messages of settled notifications
    Filtered,           \* what the channel's rules may hold back: a subset of Notes
    MaxAttempts, BreakerThreshold, BacklogThreshold,  \* OutboxOptions
    MaxCrashes, MaxOps, MaxFaults  \* bounds: deaths, acts of people, failing database calls

Revs == 1..MaxRev

ASSUME NotesAssumption == Notes \subseteq Nat /\ Info \subseteq Notes
ASSUME BoundsAssumption ==
    /\ {MaxRev, MaxAttempts, BreakerThreshold} \subseteq Nat \ {0}
    /\ {BacklogThreshold, MaxCrashes, MaxOps, MaxFaults} \subseteq Nat
ASSUME RulesAssumption ==
    /\ {CanEdit, CanDelete, Ttl, DeleteWhenResolved} \subseteq BOOLEAN
    /\ Filtered \subseteq Notes

VARIABLES
    note,      \* notifications: revision (0: none yet) and whether the state is still open
    row,       \* notification_deliveries, by the unique key of a row
    cm,        \* notification_channel_messages
    status,    \* notification_channels.status
    fails,     \* notification_channels.failure_count
    cache,     \* the status in the ChannelRegistry's entry
    reloading, \* pause or resume wrote the table and has not reloaded the registry
    prod,      \* the change NotificationService has planned and not yet committed
    pc,        \* where the worker is suspended
    batch,     \* jobs of the pass still to process
    cur,       \* the job being processed, with what process() read for it
    again,     \* NotificationOutbox.again
    boot,      \* down, built (registry loaded), recovering (started), up
    chat,      \* the platform: the revision its message shows, and whether it is there
    stale,     \* history: a job past its gate when the registry was last reloaded
    crashes, ops, faults  \* bounded counters

durable == <<note, row, cm, status, fails>>
worker == <<pc, batch, cur, again>>
server == <<cache, reloading, prod, boot>>
bounds == <<crashes, ops, faults>>
vars == <<durable, worker, server, chat, stale, bounds>>

\* planDeliveries: the first revision is a send, later ones are edits (they never alert);
\* the sweep adds a delete of the revision a message shows.
Job == [note : Notes, op : {"send"}, rev : {1}] \cup
       [note : Notes, op : {"edit"}, rev : Revs \ {1}] \cup
       [note : Notes, op : {"delete"}, rev : Revs]
JobOf(n, r) == [note |-> n, op |-> IF r = 1 THEN "send" ELSE "edit", rev |-> r]
DeleteOf(n, r) == [note |-> n, op |-> "delete", rev |-> r]

Open == {"pending", "retrying"}
Final == {"sent", "superseded", "suppressed", "dead"}

Absent == [st |-> "absent", attempts |-> 0, next |-> "never", reason |-> "none"]
Planned(st) == [st |-> st, attempts |-> 0, next |-> IF st = "pending" THEN "now" ELSE "never",
                reason |-> "none"]
\* The reason of a row is kept as far as the properties tell it apart: "other" is any other code.
\* finish(): next_attempt_at is cleared unless the patch sets it; the status is not looked at.
Finished(r, st, why) == [r EXCEPT !.st = st, !.next = "never", !.reason = why]

NoMessage == [rev |-> 0, deleted |-> FALSE, expiry |-> "never", fresh |-> FALSE]
Nothing == [note |-> 0, op |-> "none", rev |-> 0]
Idle == [job |-> Nothing, rev |-> 0, open |-> FALSE, err |-> "none"]

Init ==
    /\ note = [n \in Notes |-> [rev |-> 0, open |-> TRUE]]
    /\ row = [j \in Job |-> Absent]
    /\ cm = [n \in Notes |-> NoMessage]
    /\ status = "active" /\ cache = "active" /\ fails = 0
    /\ reloading = FALSE
    /\ prod = [note |-> 0, open |-> FALSE, st |-> "none"]
    /\ pc = "idle" /\ batch = {} /\ cur = Idle /\ again = FALSE
    /\ boot = "built"
    /\ chat = [n \in Notes |-> [shown |-> 0, there |-> FALSE]]
    /\ stale = FALSE
    /\ crashes = 0 /\ ops = 0 /\ faults = 0

-----------------------------------------------------------------------------
(* The notification service *)

NoChange == [note |-> 0, open |-> FALSE, st |-> "none"]

\* create, grow or revise: the rows are planned on the registry's cache.  Work is serialised on
\* one chain.  A notification may be final from the start and still grow; none is reopened.
\* Whether it is open matters to DeleteWhenResolved alone, and is left TRUE without it.
Plan(n) ==
    /\ boot # "down" /\ prod = NoChange
    /\ note[n].rev < MaxRev
    /\ \A m \in Notes : m < n => note[m].rev > 0
    /\ \E open \in BOOLEAN, st \in {"pending", "suppressed"} :
        /\ open => note[n].open
        /\ DeleteWhenResolved \/ open
        /\ cache # "active" \/ (note[n].rev > 0 /\ ~CanEdit) => st = "suppressed"
        /\ n \notin Filtered /\ cache = "active" /\ (note[n].rev = 0 \/ CanEdit) => st = "pending"
        /\ prod' = [note |-> n, open |-> open, st |-> st]
    /\ UNCHANGED <<durable, worker, cache, reloading, boot, chat, stale, bounds>>

\* tick(): joins the running pass and makes it loop, or starts a pass.
Tick ==
    IF pc = "idle" THEN pc' = "sweeping" /\ again' = FALSE
                   ELSE again' = TRUE /\ UNCHANGED pc

\* write(): the change and its jobs in one transaction; then kick().
Commit ==
    /\ prod # NoChange
    /\ LET n == prod.note
           r == note[n].rev + 1
       IN /\ note' = [note EXCEPT ![n] = [rev |-> r, open |-> prod.open]]
          /\ row' = [row EXCEPT ![JobOf(n, r)] = Planned(prod.st)]
    /\ prod' = NoChange
    /\ IF prod.st = "pending" THEN Tick ELSE UNCHANGED <<pc, again>>
    /\ UNCHANGED <<cm, status, fails, batch, cur, cache, reloading, boot,
                   chat, stale, bounds>>

-----------------------------------------------------------------------------
(* The worker: one pass *)

\* Mutant of Sweep: the message is looked for by a sent job of its own revision.
MutantSweepByJob ==
    /\ pc = "sweeping"
    /\ row' = [j \in Job |->
                 IF /\ j.op = "delete" /\ row[j].st = "absent"
                    /\ cm[j.note].rev = j.rev /\ row[JobOf(j.note, j.rev)].st = "sent"
                    /\ cm[j.note].expiry = "due" /\ ~cm[j.note].deleted
                 THEN Planned("pending") ELSE row[j]]
    /\ pc' = "collapsing"
    /\ UNCHANGED <<note, cm, status, fails, batch, cur, again, server, chat, stale, bounds>>

\* sweepTtl: a delete for every expired message that has none of its revision.
Sweep ==
    /\ pc = "sweeping"
    /\ row' = [j \in Job |->
                 IF /\ j.op = "delete" /\ row[j].st = "absent"
                    /\ cm[j.note].rev = j.rev
                    /\ cm[j.note].expiry = "due" /\ ~cm[j.note].deleted
                 THEN Planned("pending") ELSE row[j]]
    /\ pc' = "collapsing"
    /\ UNCHANGED <<note, cm, status, fails, batch, cur, again, server, chat, stale, bounds>>

InfoSends == {j \in Job : j.op = "send" /\ j.note \in Info /\ row[j].st \in Open}
Newest(jobs) == CHOOSE j \in jobs : \A k \in jobs : k.note <= j.note

\* collapseBacklog: its read.
ReadBacklog ==
    /\ pc = "collapsing"
    /\ IF cache = "active" /\ Cardinality(InfoSends) > BacklogThreshold
       THEN batch' = InfoSends /\ pc' = "writing"
       ELSE pc' = "listing" /\ UNCHANGED batch
    /\ UNCHANGED <<durable, cur, again, server, chat, stale, bounds>>

\* collapseBacklog: its transaction.  finish() is unconditional, annotate() is not.
Collapse ==
    /\ pc = "writing"
    /\ row' = [j \in Job |->
                 IF j \notin batch THEN row[j]
                 ELSE IF j # Newest(batch) THEN Finished(row[j], "superseded", "collapsed")
                 ELSE IF row[j].st \in Open THEN [row[j] EXCEPT !.reason = "backlog"]
                 ELSE row[j]]
    /\ batch' = {} /\ pc' = "listing"
    /\ UNCHANGED <<note, cm, status, fails, cur, again, server, chat, stale, bounds>>

\* due(): a batch is larger than the instance has jobs.
Due ==
    /\ pc = "listing"
    /\ batch' = {j \in Job : row[j].st \in Open /\ row[j].next = "now"}
    /\ pc' = "picking"
    /\ UNCHANGED <<durable, cur, again, server, chat, stale, bounds>>

\* The loop of pass(), and its end: again is read before the promise of the pass settles.
Loop ==
    /\ pc = "picking" /\ batch = {}
    /\ IF again THEN pc' = "sweeping" /\ again' = FALSE
                ELSE pc' = "returning" /\ UNCHANGED again
    /\ UNCHANGED <<durable, batch, cur, server, chat, stale, bounds>>

\* tick(): the reaction that clears current.  A tick before it joins a pass that is over.
Return ==
    /\ pc = "returning"
    /\ pc' = "idle"
    /\ UNCHANGED <<durable, batch, cur, again, server, chat, stale, bounds>>

\* Where every job ends: the next one of the batch.
NextJob == pc' = "picking" /\ cur' = Idle

\* Mutant of Settle: the row keeps its next attempt.
MutantSettleStaysDue(j, st) ==
    row' = [row EXCEPT ![j] = [@ EXCEPT !.st = st, !.reason = "other"]] /\ NextJob

\* settle(): a decision without a platform call.
Settle(j, st) == row' = [row EXCEPT ![j] = Finished(@, st, "other")] /\ NextJob

\* Mutant of Gate: the status is left to the planner, who looked at it when it planned.
MutantNoGate ==
    /\ pc = "picking"
    /\ \E j \in batch :
        /\ batch' = batch \ {j}
        /\ pc' = "reading" /\ cur' = [Idle EXCEPT !.job = j] /\ UNCHANGED row
    /\ UNCHANGED <<note, cm, status, fails, again, server, chat, stale, bounds>>

\* process(): the gate on the registry's entry.  Jobs are ordered by next_attempt_at, which is
\* abstracted, so any job of the batch may be next.
Gate ==
    /\ pc = "picking"
    /\ \E j \in batch :
        /\ batch' = batch \ {j}
        /\ IF cache = "active"
           THEN pc' = "reading" /\ cur' = [Idle EXCEPT !.job = j] /\ UNCHANGED row
           ELSE Settle(j, "suppressed")
    /\ UNCHANGED <<note, cm, status, fails, again, server, chat, stale, bounds>>

\* What process() answers once it has read the channel message and the notification: the status
\* to settle with, "spacing" for an edit too soon after the last one, or "claim".
EditVerdict(n) ==
    CASE cm[n].rev = 0 \/ cm[n].deleted \/ cm[n].rev >= note[n].rev -> "superseded"
      [] ~CanEdit -> "suppressed"
      [] cm[n].fresh -> "spacing"
      [] OTHER -> "claim"
SendVerdict(n) ==
    IF cm[n].rev >= note[n].rev /\ ~cm[n].deleted THEN "superseded" ELSE "claim"
\* The platform's delete window is time, so it may have passed.
DeleteVerdicts(n) ==
    IF cm[n].rev = 0 \/ cm[n].deleted THEN {"superseded"}
    ELSE IF ~CanDelete THEN {"suppressed"} ELSE {"dead", "claim"}
Verdicts(j) ==
    CASE j.op = "edit" -> {EditVerdict(j.note)}
      [] j.op = "send" -> {SendVerdict(j.note)}
      [] OTHER -> DeleteVerdicts(j.note)

Examine ==
    /\ pc = "reading"
    /\ LET j == cur.job
       IN \E v \in Verdicts(j) :
            CASE v = "claim" ->
                   /\ pc' = "claiming"
                   /\ cur' = [cur EXCEPT !.rev = note[j.note].rev, !.open = note[j.note].open]
                   /\ UNCHANGED row
              [] v = "spacing" ->
                   /\ row' = IF row[j].st \in Open
                             THEN [row EXCEPT ![j].next = "later"] ELSE row
                   /\ NextJob
              [] OTHER -> Settle(j, v)
    /\ UNCHANGED <<note, cm, status, fails, batch, again, server, chat, stale, bounds>>

\* claim(): only an open row, and the attempt is counted.
Claim ==
    /\ pc = "claiming"
    /\ LET j == cur.job
       IN IF row[j].st \in Open
          THEN /\ row' = [row EXCEPT ![j].st = "sending", ![j].attempts = @ + 1]
               /\ pc' = IF j.op = "delete" THEN "calling" ELSE "superseding"
               /\ UNCHANGED cur
          ELSE NextJob /\ UNCHANGED row
    /\ UNCHANGED <<note, cm, status, fails, batch, again, server, chat, stale, bounds>>

\* Mutant of Covered: whatever is open for that notification.
MutantCoveredAny(j) ==
    j.note = cur.job.note /\ j.op # "delete" /\ j # cur.job /\ row[j].st \in Open

\* supersede(): the open sends and edits of the revisions the message about to be sent covers.
Covered(j) ==
    /\ j.note = cur.job.note /\ j.op # "delete" /\ j # cur.job
    /\ j.rev <= cur.rev /\ row[j].st \in Open

Supersede ==
    /\ pc = "superseding"
    /\ row' = [j \in Job |-> IF Covered(j) THEN Finished(row[j], "superseded", "other")
                                           ELSE row[j]]
    /\ pc' = "calling"
    /\ UNCHANGED <<note, cm, status, fails, batch, cur, again, server, chat, stale, bounds>>

-----------------------------------------------------------------------------
(* The platform call and its outcomes *)

\* The platform does what it was asked; the answer is on its way.
Accept ==
    /\ pc = "calling"
    /\ LET n == cur.job.note
       IN /\ cur.job.op = "send" \/ chat[n].there
          /\ chat' = [chat EXCEPT ![n] = IF cur.job.op = "delete" THEN [@ EXCEPT !.there = FALSE]
                                         ELSE [shown |-> cur.rev, there |-> TRUE]]
    /\ pc' = "accepted"
    /\ UNCHANGED <<durable, batch, cur, again, server, stale, bounds>>

\* It refuses, or cannot be reached: an error to retry, a permanent one, one that tells that the
\* message was deleted in the chat, or one that tells that it is too old to delete.
Refuse(err) ==
    /\ pc = "calling"
    /\ err = "gone" <=> cur.job.op # "send" /\ ~chat[cur.job.note].there
    /\ err = "too_old" => cur.job.op = "delete"
    /\ cur' = [cur EXCEPT !.err = err]
    /\ pc' = "failing"
    /\ UNCHANGED <<durable, batch, again, server, chat, stale, bounds>>

\* The answer times out, or delivered()'s transaction throws inside the same try: a retryable
\* failure of a call that took place.
AnswerLost ==
    /\ pc = "accepted"
    /\ cur' = [cur EXCEPT !.err = "retry"]
    /\ pc' = "failing"
    /\ UNCHANGED <<durable, batch, again, server, chat, stale, bounds>>

ExpiryAfter(n) ==
    IF DeleteWhenResolved /\ ~cur.open THEN "due"
    ELSE IF cur.job.op = "edit" THEN cm[n].expiry
    ELSE IF Ttl THEN "later" ELSE "never"

\* Mutant of Deliver: the record takes the notification's revision, not that of the message sent.
MutantDeliverLatest ==
    /\ pc = "accepted"
    /\ LET j == cur.job
           n == j.note
       IN /\ row' = [row EXCEPT ![j] = Finished(@, "sent", "none")]
          /\ IF j.op = "delete"
             THEN cm' = [cm EXCEPT ![n].deleted = TRUE] /\ UNCHANGED cache
             ELSE /\ cm' = [cm EXCEPT ![n] = [rev |-> note[n].rev, deleted |-> FALSE,
                                              expiry |-> ExpiryAfter(n), fresh |-> TRUE]]
                  /\ cache' = "active"
    /\ fails' = 0
    /\ NextJob
    /\ UNCHANGED <<note, status, batch, again, reloading, prod, boot, chat, stale, bounds>>

\* delivered() of a send or an edit, with the entry it read at the gate; and that of a delete,
\* which leaves the registry alone.
Deliver ==
    /\ pc = "accepted"
    /\ LET j == cur.job
           n == j.note
       IN /\ row' = [row EXCEPT ![j] = Finished(@, "sent", "none")]
          /\ IF j.op = "delete"
             THEN cm' = [cm EXCEPT ![n].deleted = TRUE] /\ UNCHANGED cache
             ELSE /\ cm' = [cm EXCEPT ![n] = [rev |-> cur.rev, deleted |-> FALSE,
                                              expiry |-> ExpiryAfter(n), fresh |-> TRUE]]
                  /\ cache' = "active"
    /\ fails' = 0
    /\ NextJob
    /\ UNCHANGED <<note, status, batch, again, reloading, prod, boot, chat, stale, bounds>>

\* failed(): the row's next state.  A job is also dead when it is a day old, which is time.
Exhausted(attempts) == attempts >= MaxAttempts

\* Mutant of Rescheduled: the patch has no nextAttemptAt, so finish() clears it.
MutantRescheduledNever(r) == [r EXCEPT !.st = "retrying", !.next = "never", !.reason = "other"]
Rescheduled(r) == [r EXCEPT !.st = "retrying", !.next = "later", !.reason = "other"]

AfterFailure(r) ==
    {Finished(r, "dead", "other")} \cup
    (IF cur.err # "retry" \/ Exhausted(r.attempts) THEN {} ELSE {Rescheduled(r)})

\* Mutant of Trips: one failure late.
MutantTripsLate(count) == count > BreakerThreshold
Trips(count) == count >= BreakerThreshold

\* failed() for a message deleted in the chat: no failure of the channel.
FailGone ==
    /\ pc = "failing" /\ cur.err = "gone"
    /\ LET j == cur.job
       IN /\ row' = [row EXCEPT ![j] = Finished(@, "superseded", "gone")]
          /\ cm' = [cm EXCEPT ![j.note].deleted = (cm[j.note].rev > 0)]
    /\ NextJob
    /\ UNCHANGED <<note, status, fails, batch, again, server, chat, stale, bounds>>

\* failed(): the row and the channel's counter in one transaction; then the breaker, or the
\* cached status of the entry read at the gate.  too_old is no failure of the channel either.
Fail ==
    /\ pc = "failing" /\ cur.err # "gone"
    /\ \E r \in AfterFailure(row[cur.job]) : row' = [row EXCEPT ![cur.job] = r]
    /\ IF cur.err = "too_old" THEN NextJob /\ UNCHANGED <<fails, cache>>
       ELSE /\ fails' = fails + 1
            /\ IF Trips(fails + 1)
               THEN pc' = "breaking" /\ UNCHANGED <<cur, cache>>
               ELSE cache' = "active" /\ NextJob
    /\ UNCHANGED <<note, cm, status, batch, again, reloading, prod, boot,
                   chat, stale, bounds>>

\* Mutant of Suppressed: without the condition on the status.
MutantSuppressedAll(j) ==
    IF row[j].st = "absent" THEN row[j] ELSE Finished(row[j], "suppressed", "other")
\* suppressChannel(): every open row of the channel.
Suppressed(j) == IF row[j].st \in Open THEN Finished(row[j], "suppressed", "other") ELSE row[j]

\* breakChannel().
Break ==
    /\ pc = "breaking"
    /\ status' = "broken" /\ cache' = "broken"
    /\ row' = [j \in Job |-> Suppressed(j)]
    /\ NextJob
    /\ UNCHANGED <<note, cm, fails, batch, again, reloading, prod, boot, chat, stale, bounds>>

\* A database call after the claim throws: the pass logs it and goes on, the row stays sending.
Fault ==
    /\ pc \in {"superseding", "calling", "failing", "breaking"} /\ faults < MaxFaults
    /\ faults' = faults + 1
    /\ NextJob
    /\ UNCHANGED <<durable, batch, again, server, chat, stale, crashes, ops>>

-----------------------------------------------------------------------------
(* The operator, the clock, the process *)

Operate == ops < MaxOps /\ ops' = ops + 1 /\ boot \in {"recovering", "up"} /\ ~reloading

Pause ==
    /\ Operate
    /\ status' = "paused"
    /\ row' = [j \in Job |-> Suppressed(j)]
    /\ reloading' = TRUE
    /\ UNCHANGED <<note, cm, fails, worker, cache, prod, boot, chat, stale, crashes, faults>>

Resume ==
    /\ Operate
    /\ status' = "active" /\ fails' = 0
    /\ reloading' = TRUE
    /\ UNCHANGED <<note, row, cm, worker, cache, prod, boot, chat, stale, crashes, faults>>

\* A job on its way with the entry, and its status, that was in the registry at its gate.
PastGate == cur # Idle

Reload ==
    /\ reloading
    /\ cache' = status /\ reloading' = FALSE /\ stale' = PastGate
    /\ UNCHANGED <<durable, worker, prod, boot, chat, bounds>>

\* The interval of the started worker.
Timer ==
    /\ boot \in {"recovering", "up"}
    /\ Tick
    /\ UNCHANGED <<durable, batch, cur, server, chat, stale, bounds>>

BackoffPasses(j) ==
    /\ row[j].next = "later"
    /\ row' = [row EXCEPT ![j].next = "now"]
    /\ UNCHANGED <<note, cm, status, fails, worker, server, chat, stale, bounds>>

SpacingPasses(n) ==
    /\ cm[n].fresh
    /\ cm' = [cm EXCEPT ![n].fresh = FALSE]
    /\ UNCHANGED <<note, row, status, fails, worker, server, chat, stale, bounds>>

MessageExpires(n) ==
    /\ cm[n].expiry = "later"
    /\ cm' = [cm EXCEPT ![n].expiry = "due"]
    /\ UNCHANGED <<note, row, status, fails, worker, server, chat, stale, bounds>>

\* Somebody deletes the message in the chat.
DeletedInChat(n) ==
    /\ chat[n].there /\ ops < MaxOps
    /\ ops' = ops + 1
    /\ chat' = [chat EXCEPT ![n].there = FALSE]
    /\ UNCHANGED <<durable, worker, server, stale, crashes, faults>>

Crash ==
    /\ boot # "down" /\ crashes < MaxCrashes
    /\ crashes' = crashes + 1
    /\ boot' = "down"
    /\ pc' = "idle" /\ batch' = {} /\ cur' = Idle /\ again' = FALSE
    /\ prod' = NoChange /\ reloading' = FALSE
    /\ UNCHANGED <<durable, cache, chat, stale, ops, faults>>

\* registry.load(); the catch-up of settled requests may plan, commit and kick before start().
Restart ==
    /\ boot = "down"
    /\ boot' = "built" /\ cache' = status /\ stale' = FALSE
    /\ UNCHANGED <<durable, worker, reloading, prod, chat, bounds>>

\* start(): arms the timer and issues the recovery.
Start ==
    /\ boot = "built"
    /\ boot' = "recovering"
    /\ UNCHANGED <<durable, worker, cache, reloading, prod, chat, stale, bounds>>

\* Mutant of Recover: a row with no attempt left is not worth recovering.
MutantRecoverUnexhausted ==
    /\ boot = "recovering"
    /\ boot' = "up"
    /\ row' = [j \in Job |-> IF row[j].st = "sending" /\ row[j].attempts < MaxAttempts
                             THEN [row[j] EXCEPT !.st = "retrying", !.next = "now"] ELSE row[j]]
    /\ Tick
    /\ UNCHANGED <<note, cm, status, fails, batch, cur, cache, reloading, prod,
                   chat, stale, bounds>>

\* recover(), then a tick.
Recover ==
    /\ boot = "recovering"
    /\ boot' = "up"
    /\ row' = [j \in Job |-> IF row[j].st = "sending"
                             THEN [row[j] EXCEPT !.st = "retrying", !.next = "now"] ELSE row[j]]
    /\ Tick
    /\ UNCHANGED <<note, cm, status, fails, batch, cur, cache, reloading, prod,
                   chat, stale, bounds>>

Errors == {"retry", "permanent", "gone", "too_old"}

\* What the worker does by itself: its database calls end, and the adapters bound every platform
\* call by a timeout.
Work ==
    \/ Sweep \/ ReadBacklog \/ Collapse \/ Due \/ Loop \/ Return
    \/ Gate \/ Examine \/ Claim \/ Supersede
    \/ Accept \/ (\E err \in Errors : Refuse(err)) \/ AnswerLost
    \/ Deliver \/ FailGone \/ Fail \/ Break

Next ==
    \/ (\E n \in Notes : Plan(n)) \/ Commit
    \/ Work \/ Fault
    \/ Pause \/ Resume \/ Reload
    \/ Timer \/ Crash \/ Restart \/ Start \/ Recover
    \/ \E j \in Job : BackoffPasses(j)
    \/ \E n \in Notes : SpacingPasses(n) \/ MessageExpires(n) \/ DeletedInChat(n)

Spec == Init /\ [][Next]_vars

\* The worker runs, its interval fires, time passes, the boot goes on.  Nobody need restart a
\* dead process.
Fairness ==
    /\ WF_vars(Work) /\ WF_vars(Timer)
    /\ WF_vars(Start) /\ WF_vars(Recover)
    /\ \A j \in Job : WF_vars(BackoffPasses(j))
    /\ \A n \in Notes : WF_vars(SpacingPasses(n))

FairSpec == Spec /\ Fairness
-----------------------------------------------------------------------------
(* Properties *)

Reasons == {"none", "backlog", "collapsed", "gone", "other"}

\* Type invariant; and a row is due again only while it is still work to do.
TypeOK ==
    /\ note \in [Notes -> [rev : 0..MaxRev, open : BOOLEAN]]
    /\ row \in [Job -> [st : Open \cup Final \cup {"absent", "sending"}, attempts : Nat,
                        next : {"now", "later", "never"}, reason : Reasons]]
    /\ \A j \in Job : row[j].next # "never" => row[j].st \in Open \cup {"sending"}
    /\ cm \in [Notes -> [rev : 0..MaxRev, deleted : BOOLEAN, fresh : BOOLEAN,
                         expiry : {"never", "later", "due"}]]
    /\ status \in {"active", "paused", "broken"} /\ cache \in {"active", "paused", "broken"}
    /\ fails \in Nat
    /\ reloading \in BOOLEAN
    /\ prod \in [note : Notes \cup {0}, open : BOOLEAN, st : {"none", "pending", "suppressed"}]
    /\ pc \in {"idle", "sweeping", "collapsing", "writing", "listing", "picking", "returning",
               "reading", "claiming", "superseding", "calling", "accepted", "failing", "breaking"}
    /\ batch \subseteq Job
    /\ cur \in [job : Job \cup {Nothing}, rev : 0..MaxRev, open : BOOLEAN,
                err : Errors \cup {"none"}]
    /\ again \in BOOLEAN
    /\ boot \in {"down", "built", "recovering", "up"}
    /\ chat \in [Notes -> [shown : 0..MaxRev, there : BOOLEAN]]
    /\ stale \in BOOLEAN
    /\ crashes \in 0..MaxCrashes /\ ops \in 0..MaxOps /\ faults \in 0..MaxFaults

\* Rows that carry the state of a notification to the chat.
Carriers(n) == {j \in Job : j.note = n /\ j.op # "delete"}

\* "Nothing is silently lost" (D-34, docs/guide/notifications.md), although rows are superseded
\* by others that may fail, crash or be overtaken by new revisions: the chat's record has the
\* latest state, or a job still has to bring it, or the log names a row that ended otherwise.
LatestStateIsOwed ==
    \A n \in Notes : note[n].rev > 0 =>
        \/ cm[n].rev >= note[n].rev \/ cm[n].deleted
        \/ \E j \in Carriers(n) :
            \/ row[j].st \in Open \cup {"sending", "dead", "suppressed"}
            \/ row[j].reason \in {"collapsed", "gone"}

\* The record of a message never runs ahead of what the platform shows: later edits are
\* "covered" on its word alone.
RecordMatchesChat ==
    \A n \in Notes : cm[n].rev > 0 => cm[n].rev <= chat[n].shown

\* A job gives up after MaxAttempts attempts (OutboxOptions.maxAttempts), but for one more for
\* every crash in the middle of an attempt, or attempt that a failing database call left behind.
AttemptsAreBounded ==
    \A j \in Job : row[j].attempts <= MaxAttempts + crashes + faults

\* Once the recovery has run, a row is sending only while the worker is at it (or a failing
\* database call left it so), although a pass may have been under way when it ran.
SendingIsInFlight ==
    boot = "up" /\ faults = 0 =>
        \A j \in Job : row[j].st = "sending" => cur.job = j

\* A claim is an attempt that counts and that somebody is at, across crashes and recoveries.
ClaimsAreAccounted == AttemptsAreBounded /\ SendingIsInFlight

\* An active channel has fewer consecutive failures than the threshold, but between the two
\* transactions that count the last one and open the breaker (a crash or a failing call there
\* leaves it closed until the next failure).
BreakerOpens ==
    status = "active" /\ fails >= BreakerThreshold => pc = "breaking" \/ crashes > 0 \/ faults > 0

\* A delivery that was sent, or given up, is never reopened, suppressed or superseded, by a
\* breaker, an operator, a recovery or a later revision.
SentAndDeadAreFinal ==
    [][\A j \in Job : row[j].st \in {"sent", "dead"} => row'[j] = row[j]]_vars

\* No attempt begins on a channel that is paused or broken and whose registry was reloaded since,
\* unless a job was past its gate at that reload.
InactiveUnlessStale ==
    [][pc = "claiming" /\ row'[cur.job].st = "sending" =>
        status = "active" \/ reloading \/ stale]_vars

\* Every delivery comes to an end while the process lives (or its record is stuck by a failing
\* database call: nothing recovers a sending row before the next start).
EveryDeliveryEnds ==
    \A j \in Job :
        (row[j].st \in Open \cup {"sending"}) ~>
            (row[j].st \in Final \/ boot = "down" \/ faults > 0)

\* An expired message is deleted, or the log says why it was not, at the revision it shows.
ExpiredMessagesEnd ==
    \A n \in Notes :
        (cm[n].expiry = "due" /\ ~cm[n].deleted) ~>
            \/ cm[n].deleted \/ boot = "down" \/ faults > 0
            \/ \E r \in Revs : r = cm[n].rev /\ row[DeleteOf(n, r)].st \in Final
=============================================================================
