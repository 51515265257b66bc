------------------------ MODULE DeliveryOutboxProofs ------------------------
(***************************************************************************)
(* Theorems about DeliveryOutbox, for any notifications, any rules and     *)
(* capabilities of the channel, and any number of crashes, failing calls   *)
(* and acts of people.                                                     *)
(*                                                                         *)
(* There is one worker, and it has one job at a time.  The invariant says  *)
(* what that job's row, the chat's record and the registry can be at each  *)
(* point of its processing, although crashes, failing calls, a recovery    *)
(* and the operator change them under it.                                  *)
(***************************************************************************)
EXTENDS DeliveryOutbox, FiniteSetTheorems, TLAPS

\* The worker is at a job; it has claimed it and not yet recorded the outcome.
AtJob == {"reading", "claiming", "superseding", "calling", "accepted", "failing", "breaking"}
Claimed == {"superseding", "calling", "accepted", "failing"}
Examined == {"claiming"} \cup Claimed
Between == {"idle", "sweeping", "collapsing", "writing", "listing", "picking", "returning"}

\* The worker holds a job where it needs one, a dead process holds nothing, and what is planned is
\* the next revision of a notification.
Held ==
    /\ pc \in AtJob => cur.job \in Job
    /\ pc \notin AtJob => cur = Idle
    /\ pc = "superseding" => cur.job.op # "delete"
    /\ boot = "down" => pc = "idle" /\ prod = NoChange /\ ~reloading
    /\ prod # NoChange =>
         /\ prod.note \in Notes /\ prod.st \in {"pending", "suppressed"}
         /\ note[prod.note].rev < MaxRev

\* No row precedes its revision.
PlannedRevisions ==
    \A j \in Job : j.op # "delete" /\ j.rev > note[j.note].rev => row[j].st = "absent"

Unsettled == Open \cup {"superseded", "suppressed"}

\* The jobs of a pass, and the one the worker is at, were open when they were listed; nobody but
\* the worker sends one or gives it up.
InHand ==
    /\ cur.job \notin batch
    /\ pc \in {"reading", "claiming"} => row[cur.job].st \in Unsettled
    /\ pc \in Claimed => row[cur.job].st \in Open \cup {"sending", "suppressed"}
OfThePass == \A j \in batch : row[j].st \in Unsettled
BatchIsUnsettled == OfThePass /\ InHand

\* While the registry is up to date it has the channel's status, and lets jobs pass only then.
RegistryIsFresh ==
    boot # "down" /\ ~reloading /\ ~stale =>
        cache = status /\ (cur # Idle => cache = "active")

\* An attempt beyond the last is one that a crash or a failing call left behind, or the one the
\* worker is at.
AttemptsLeft ==
    \A j \in Job :
        /\ row[j].attempts <= MaxAttempts + crashes + faults
        /\ row[j].st \in Open \cup {"sending"} /\ ~(pc \in Claimed /\ cur.job = j) =>
             row[j].attempts < MaxAttempts + crashes + faults

SendingIsClaimed ==
    boot = "up" /\ faults = 0 =>
        \A j \in Job : row[j].st = "sending" => pc \in Claimed /\ cur.job = j

\* What the record says is at most what the message in hand carries, which is at most the latest;
\* and the platform shows no less than the record says.
RecordsAreBehind ==
    /\ RecordMatchesChat
    /\ \A n \in Notes : cm[n].rev <= note[n].rev
    /\ pc \in Examined =>
         cm[cur.job.note].rev <= cur.rev /\ cur.rev <= note[cur.job.note].rev
    /\ pc = "accepted" /\ cur.job.op # "delete" => chat[cur.job.note].shown = cur.rev

\* A row that still has to bring its state, or that the log names.
Owes(j) ==
    \/ row[j].st \in Open \cup {"sending", "dead", "suppressed"}
    \/ row[j].reason \in {"collapsed", "gone"}

Latest(n) == JobOf(n, note[n].rev)

\* What was never sent is owed by the send; what came while a message was on its way is owed by
\* its own row.
OwedByRows ==
    /\ \A n \in Notes : note[n].rev > 0 /\ cm[n].rev = 0 => Owes(JobOf(n, 1))
    /\ pc \in Examined /\ cur.job.op = "edit" => cm[cur.job.note].rev > 0
    /\ pc \in Examined /\ cur.job.op # "delete" => cur.job.rev <= cur.rev
    /\ pc \in Examined /\ cur.rev < note[cur.job.note].rev => Owes(Latest(cur.job.note))

OutboxInv ==
    /\ TypeOK /\ Held /\ PlannedRevisions /\ BatchIsUnsettled /\ RegistryIsFresh
    /\ AttemptsLeft /\ SendingIsClaimed /\ BreakerOpens
    /\ RecordsAreBehind /\ OwedByRows /\ LatestStateIsOwed

----------------------------------------------------------------------------
\* Jobs and rows.

\* A job carries a revision of its notification: the first is sent, the others are edits.
LEMMA JobFacts ==
    /\ MaxRev \in Nat \ {0} /\ 1 \in Revs /\ Revs \subseteq Nat \ {0}
    /\ Notes \subseteq Nat
    /\ \A j \in Job : /\ j.note \in Notes /\ j.rev \in Revs /\ j.op \in {"send", "edit", "delete"}
                      /\ j.op = "send" => j.rev = 1
                      /\ j.op # "delete" => j = JobOf(j.note, j.rev)
    /\ \A n \in Notes, r \in Revs :
         /\ JobOf(n, r) \in Job /\ JobOf(n, r).note = n /\ JobOf(n, r).rev = r
         /\ JobOf(n, r).op # "delete" /\ (JobOf(n, r).op = "send" <=> r = 1)
    /\ Nothing \notin Job /\ Idle.job = Nothing
<1>1. MaxRev \in Nat \ {0} /\ Notes \subseteq Nat
  BY BoundsAssumption, NotesAssumption
<1>2. 1 \in Revs /\ Revs \subseteq Nat \ {0}
  BY <1>1 DEF Revs
<1>3. ASSUME NEW j \in Job
      PROVE  /\ j.note \in Notes /\ j.rev \in Revs /\ j.op \in {"send", "edit", "delete"}
             /\ j.op = "send" => j.rev = 1
             /\ j.op # "delete" => j = JobOf(j.note, j.rev)
  BY <1>2 DEF Job, JobOf
<1>4. ASSUME NEW n \in Notes, NEW r \in Revs
      PROVE  /\ JobOf(n, r) \in Job /\ JobOf(n, r).note = n /\ JobOf(n, r).rev = r
             /\ JobOf(n, r).op # "delete" /\ (JobOf(n, r).op = "send" <=> r = 1)
  BY DEF Job, JobOf
<1>5. Nothing \notin Job
  <2>1. Nothing.op = "none"
    BY DEF Nothing
  <2>2. QED
    BY <1>3, <2>1
<1>6. QED
  BY <1>1, <1>2, <1>3, <1>4, <1>5 DEF Idle

\* A row, due again only while it is work to do.
RowType ==
    {r \in [st : Open \cup Final \cup {"absent", "sending"}, attempts : Nat,
            next : {"now", "later", "never"}, reason : Reasons] :
        r.next # "never" => r.st \in Open \cup {"sending"}}
MessageType == [rev : 0..MaxRev, deleted : BOOLEAN, fresh : BOOLEAN,
                expiry : {"never", "later", "due"}]
NoteType == [rev : 0..MaxRev, open : BOOLEAN]
ChatType == [shown : 0..MaxRev, there : BOOLEAN]
CurType == [job : Job \cup {Nothing}, rev : 0..MaxRev, open : BOOLEAN, err : Errors \cup {"none"}]
ProdType == [note : Notes \cup {0}, open : BOOLEAN, st : {"none", "pending", "suppressed"}]
Phases == AtJob \cup Between

RowsTyped == row \in [Job -> RowType]
RecordsTyped ==
    note \in [Notes -> NoteType] /\ cm \in [Notes -> MessageType] /\ chat \in [Notes -> ChatType]
WorkerTyped ==
    pc \in Phases /\ batch \subseteq Job /\ cur \in CurType /\ again \in BOOLEAN
ServerTyped ==
    /\ status \in {"active", "paused", "broken"} /\ cache \in {"active", "paused", "broken"}
    /\ fails \in Nat /\ reloading \in BOOLEAN /\ prod \in ProdType
    /\ boot \in {"down", "built", "recovering", "up"} /\ stale \in BOOLEAN
    /\ crashes \in 0..MaxCrashes /\ ops \in 0..MaxOps /\ faults \in 0..MaxFaults

\* The types, in four parts.
LEMMA TypesInParts == TypeOK <=> RowsTyped /\ RecordsTyped /\ WorkerTyped /\ ServerTyped
<1>1. RowsTyped <=>
        /\ row \in [Job -> [st : Open \cup Final \cup {"absent", "sending"}, attempts : Nat,
                            next : {"now", "later", "never"}, reason : Reasons]]
        /\ \A j \in Job : row[j].next # "never" => row[j].st \in Open \cup {"sending"}
  BY DEF RowsTyped, RowType
<1>2. RecordsTyped <=>
        /\ note \in [Notes -> [rev : 0..MaxRev, open : BOOLEAN]]
        /\ cm \in [Notes -> [rev : 0..MaxRev, deleted : BOOLEAN, fresh : BOOLEAN,
                             expiry : {"never", "later", "due"}]]
        /\ chat \in [Notes -> [shown : 0..MaxRev, there : BOOLEAN]]
  BY DEF RecordsTyped, NoteType, MessageType, ChatType
<1>3. Phases = {"idle", "sweeping", "collapsing", "writing", "listing", "picking", "returning",
                "reading", "claiming", "superseding", "calling", "accepted", "failing",
                "breaking"}
  BY DEF Phases, AtJob, Between
<1>4. WorkerTyped <=>
        /\ pc \in {"idle", "sweeping", "collapsing", "writing", "listing", "picking", "returning",
                   "reading", "claiming", "superseding", "calling", "accepted", "failing",
                   "breaking"}
        /\ batch \subseteq Job
        /\ cur \in [job : Job \cup {Nothing}, rev : 0..MaxRev, open : BOOLEAN,
                    err : Errors \cup {"none"}]
        /\ again \in BOOLEAN
  BY <1>3 DEF WorkerTyped, CurType
<1>5. QED
  BY <1>1, <1>2, <1>4 DEF ServerTyped, ProdType, TypeOK

\* What the ways to change a row make of it.
LEMMA RowFacts ==
    /\ \A st \in {"pending", "suppressed"} :
         Planned(st) \in RowType /\ Planned(st).st = st /\ Planned(st).attempts = 0
    /\ \A r \in RowType, st \in Final, why \in Reasons :
         /\ Finished(r, st, why) \in RowType /\ Finished(r, st, why).st = st
         /\ Finished(r, st, why).attempts = r.attempts /\ Finished(r, st, why).reason = why
    /\ \A r \in RowType :
         /\ Rescheduled(r) \in RowType /\ Rescheduled(r).st = "retrying"
         /\ Rescheduled(r).attempts = r.attempts
    /\ \A r \in RowType :
         r.st \in Open \cup Final \cup {"absent", "sending"} /\ r.attempts \in Nat
    /\ Absent \in RowType /\ Absent.st = "absent" /\ Absent.attempts = 0
<1>1. ASSUME NEW st \in {"pending", "suppressed"}
      PROVE  Planned(st) \in RowType /\ Planned(st).st = st /\ Planned(st).attempts = 0
  BY DEF Planned, RowType, Open, Final, Reasons
<1>2. ASSUME NEW r \in RowType, NEW st \in Final, NEW why \in Reasons
      PROVE  /\ Finished(r, st, why) \in RowType /\ Finished(r, st, why).st = st
             /\ Finished(r, st, why).attempts = r.attempts /\ Finished(r, st, why).reason = why
  BY DEF Finished, RowType
<1>3. ASSUME NEW r \in RowType
      PROVE  /\ Rescheduled(r) \in RowType /\ Rescheduled(r).st = "retrying"
             /\ Rescheduled(r).attempts = r.attempts
  BY DEF Rescheduled, RowType, Open, Reasons
<1>4. \A r \in RowType : r.st \in Open \cup Final \cup {"absent", "sending"} /\ r.attempts \in Nat
  BY DEF RowType
<1>5. Absent \in RowType /\ Absent.st = "absent" /\ Absent.attempts = 0
  BY DEF Absent, RowType, Reasons
<1>6. QED
  BY <1>1, <1>2, <1>3, <1>4, <1>5

\* The three ways process() goes on with a job it has examined: to claim it, to put it off, or to
\* settle it.
LEMMA ExamineCases ==
    ASSUME cur.job \in Job, Examine
    PROVE  \E v \in Verdicts(cur.job) :
             \/ /\ v = "claim" /\ pc' = "claiming" /\ UNCHANGED row
                /\ cur' = [cur EXCEPT !.rev = note[cur.job.note].rev,
                                      !.open = note[cur.job.note].open]
             \/ /\ v = "spacing" /\ NextJob
                /\ row' = IF row[cur.job].st \in Open
                          THEN [row EXCEPT ![cur.job].next = "later"] ELSE row
             \/ /\ v \in {"superseded", "suppressed", "dead"} /\ NextJob
                /\ row' = [row EXCEPT ![cur.job] = Finished(@, v, "other")]
<1>1. PICK v \in Verdicts(cur.job) :
        CASE v = "claim" ->
               /\ pc' = "claiming"
               /\ cur' = [cur EXCEPT !.rev = note[cur.job.note].rev,
                                     !.open = note[cur.job.note].open]
               /\ UNCHANGED row
          [] v = "spacing" ->
               /\ row' = IF row[cur.job].st \in Open
                         THEN [row EXCEPT ![cur.job].next = "later"] ELSE row
               /\ NextJob
          [] OTHER -> Settle(cur.job, v)
  BY DEF Examine
<1>2. v \in {"claim", "spacing", "superseded", "suppressed", "dead"}
  BY JobFacts DEF Verdicts, EditVerdict, SendVerdict, DeleteVerdicts
<1>3. CASE v = "claim"
  BY <1>1, <1>3
<1>4. CASE v = "spacing"
  BY <1>1, <1>4
<1>5. CASE v \in {"superseded", "suppressed", "dead"}
  BY <1>1, <1>5 DEF Settle
<1>6. QED
  BY <1>2, <1>3, <1>4, <1>5

\* What the ways to change a record, a notification or a chat make of it.
LEMMA RecordFacts ==
    /\ \A r \in 0..MaxRev, b \in BOOLEAN : [rev |-> r, open |-> b] \in NoteType
    /\ \A x \in NoteType : x.rev \in 0..MaxRev /\ x.open \in BOOLEAN
    /\ \A r \in 0..MaxRev, x \in {"never", "later", "due"} :
         [rev |-> r, deleted |-> FALSE, expiry |-> x, fresh |-> TRUE] \in MessageType
    /\ \A m \in MessageType :
         /\ m.rev \in 0..MaxRev /\ m.expiry \in {"never", "later", "due"}
         /\ \A b \in BOOLEAN : [m EXCEPT !.deleted = b] \in MessageType
         /\ [m EXCEPT !.fresh = FALSE] \in MessageType
         /\ [m EXCEPT !.expiry = "due"] \in MessageType
    /\ \A r \in 0..MaxRev : [shown |-> r, there |-> TRUE] \in ChatType
    /\ \A c \in ChatType : [c EXCEPT !.there = FALSE] \in ChatType
<1>1. \A r \in 0..MaxRev, b \in BOOLEAN : [rev |-> r, open |-> b] \in NoteType
  BY DEF NoteType
<1>2. \A x \in NoteType : x.rev \in 0..MaxRev /\ x.open \in BOOLEAN
  BY DEF NoteType
<1>3. \A r \in 0..MaxRev, x \in {"never", "later", "due"} :
        [rev |-> r, deleted |-> FALSE, expiry |-> x, fresh |-> TRUE] \in MessageType
  BY DEF MessageType
<1>4. ASSUME NEW m \in MessageType
      PROVE  /\ m.rev \in 0..MaxRev /\ m.expiry \in {"never", "later", "due"}
             /\ \A b \in BOOLEAN : [m EXCEPT !.deleted = b] \in MessageType
             /\ [m EXCEPT !.fresh = FALSE] \in MessageType
             /\ [m EXCEPT !.expiry = "due"] \in MessageType
  BY DEF MessageType
<1>5. \A r \in 0..MaxRev : [shown |-> r, there |-> TRUE] \in ChatType
  BY DEF ChatType
<1>6. \A c \in ChatType : [c EXCEPT !.there = FALSE] \in ChatType
  BY DEF ChatType
<1>7. QED
  BY <1>1, <1>2, <1>3, <1>4, <1>5, <1>6

\* What the ways to change the job in hand make of it.
LEMMA CurFacts ==
    /\ Idle \in CurType
    /\ \A j \in Job : [Idle EXCEPT !.job = j] \in CurType /\ [Idle EXCEPT !.job = j].job = j
    /\ \A c \in CurType :
         c.job \in Job \cup {Nothing} /\ c.rev \in 0..MaxRev /\ c.open \in BOOLEAN
    /\ \A c \in CurType, r \in 0..MaxRev, b \in BOOLEAN :
         /\ [c EXCEPT !.rev = r, !.open = b] \in CurType
         /\ [c EXCEPT !.rev = r, !.open = b].job = c.job
         /\ [c EXCEPT !.rev = r, !.open = b].rev = r
    /\ \A c \in CurType, err \in Errors :
         /\ [c EXCEPT !.err = err] \in CurType
         /\ [c EXCEPT !.err = err].job = c.job /\ [c EXCEPT !.err = err].rev = c.rev
<1>1. Idle \in CurType
  BY JobFacts DEF Idle, CurType
<1>2. ASSUME NEW j \in Job
      PROVE  [Idle EXCEPT !.job = j] \in CurType /\ [Idle EXCEPT !.job = j].job = j
  <2>1. \A c \in CurType : [c EXCEPT !.job = j] \in CurType /\ [c EXCEPT !.job = j].job = j
    BY DEF CurType
  <2>2. QED
    BY <1>1, <2>1
<1>3. ASSUME NEW c \in CurType
      PROVE  c.job \in Job \cup {Nothing} /\ c.rev \in 0..MaxRev /\ c.open \in BOOLEAN
  BY DEF CurType
<1>4. ASSUME NEW c \in CurType, NEW r \in 0..MaxRev, NEW b \in BOOLEAN
      PROVE  /\ [c EXCEPT !.rev = r, !.open = b] \in CurType
             /\ [c EXCEPT !.rev = r, !.open = b].job = c.job
             /\ [c EXCEPT !.rev = r, !.open = b].rev = r
  BY DEF CurType
<1>5. ASSUME NEW c \in CurType, NEW err \in Errors
      PROVE  /\ [c EXCEPT !.err = err] \in CurType
             /\ [c EXCEPT !.err = err].job = c.job /\ [c EXCEPT !.err = err].rev = c.rev
  BY DEF CurType
<1>6. QED
  BY <1>1, <1>2, <1>3, <1>4, <1>5

\* The job in hand, once it is examined, carries the latest revision.
LEMMA ExaminedCur ==
    ASSUME RecordsTyped, WorkerTyped, cur.job \in Job
    PROVE  /\ [cur EXCEPT !.rev = note[cur.job.note].rev,
                          !.open = note[cur.job.note].open] \in CurType
           /\ [cur EXCEPT !.rev = note[cur.job.note].rev,
                          !.open = note[cur.job.note].open].job = cur.job
           /\ [cur EXCEPT !.rev = note[cur.job.note].rev,
                          !.open = note[cur.job.note].open].rev = note[cur.job.note].rev
<1>1. cur.job.note \in Notes
  BY JobFacts
<1>2. note[cur.job.note].rev \in 0..MaxRev /\ note[cur.job.note].open \in BOOLEAN
  BY <1>1, RecordFacts DEF RecordsTyped
<1>3. \A r \in 0..MaxRev, b \in BOOLEAN :
        /\ [cur EXCEPT !.rev = r, !.open = b] \in CurType
        /\ [cur EXCEPT !.rev = r, !.open = b].job = cur.job
        /\ [cur EXCEPT !.rev = r, !.open = b].rev = r
  BY CurFacts DEF WorkerTyped
<1>4. QED
  BY <1>2, <1>3

\* An error is noted on the job in hand, which stays the same.
LEMMA ErrorKeepsJob ==
    \A c \in CurType, err \in Errors :
        [c EXCEPT !.err = err].job = c.job /\ [c EXCEPT !.err = err].rev = c.rev
BY DEF CurType

\* What a step that leaves a row's state, or changes it, keeps of it.
Same(j) ==
    row'[j].st = row[j].st /\ row'[j].attempts = row[j].attempts /\ row'[j].reason = row[j].reason
Becomes(j, st, why) ==
    row'[j].st = st /\ row'[j].attempts = row[j].attempts /\ row'[j].reason = why

\* What the ways to change one field of a row keep of it.
LEMMA RowUpdates ==
    /\ \A r \in RowType, x \in {"now", "later"} :
         /\ [r EXCEPT !.next = x].st = r.st /\ [r EXCEPT !.next = x].attempts = r.attempts
         /\ [r EXCEPT !.next = x].reason = r.reason
    /\ \A r \in RowType :
         /\ [r EXCEPT !.reason = "backlog"].st = r.st
         /\ [r EXCEPT !.reason = "backlog"].attempts = r.attempts
    /\ \A r \in RowType :
         /\ [r EXCEPT !.st = "retrying", !.next = "now"].st = "retrying"
         /\ [r EXCEPT !.st = "retrying", !.next = "now"].attempts = r.attempts
    /\ \A r \in RowType, k \in Nat :
         /\ [r EXCEPT !.st = "sending", !.attempts = k].st = "sending"
         /\ [r EXCEPT !.st = "sending", !.attempts = k].attempts = k
<1>1. ASSUME NEW r \in RowType, NEW x \in {"now", "later"}
      PROVE  /\ [r EXCEPT !.next = x].st = r.st /\ [r EXCEPT !.next = x].attempts = r.attempts
             /\ [r EXCEPT !.next = x].reason = r.reason
  BY DEF RowType
<1>2. ASSUME NEW r \in RowType
      PROVE  /\ [r EXCEPT !.reason = "backlog"].st = r.st
             /\ [r EXCEPT !.reason = "backlog"].attempts = r.attempts
  BY DEF RowType
<1>3. ASSUME NEW r \in RowType
      PROVE  /\ [r EXCEPT !.st = "retrying", !.next = "now"].st = "retrying"
             /\ [r EXCEPT !.st = "retrying", !.next = "now"].attempts = r.attempts
  BY DEF RowType
<1>4. ASSUME NEW r \in RowType, NEW k \in Nat
      PROVE  /\ [r EXCEPT !.st = "sending", !.attempts = k].st = "sending"
             /\ [r EXCEPT !.st = "sending", !.attempts = k].attempts = k
  BY DEF RowType
<1>5. QED
  BY <1>1, <1>2, <1>3, <1>4

\* The actions that change no row.
KeepsRows ==
    \/ \E n \in Notes : Plan(n) \/ SpacingPasses(n) \/ MessageExpires(n) \/ DeletedInChat(n)
    \/ ReadBacklog \/ Due \/ Loop \/ Return
    \/ Accept \/ (\E err \in Errors : Refuse(err)) \/ AnswerLost \/ Fault
    \/ Resume \/ Reload \/ Timer \/ Crash \/ Restart \/ Start \/ UNCHANGED vars

\* What each action does to a row.
LEMMA RowMoves ==
    ASSUME RowsTyped, WorkerTyped, ServerTyped, RecordsTyped, Held
    PROVE
    /\ KeepsRows => row' = row
    /\ Commit => \A j \in Job :
         IF j = JobOf(prod.note, note[prod.note].rev + 1)
         THEN row'[j].st = prod.st /\ row'[j].attempts = 0 ELSE row'[j] = row[j]
    /\ Sweep => \A j \in Job :
         \/ row'[j] = row[j]
         \/ j.op = "delete" /\ row[j].st = "absent" /\ row'[j].st = "pending"
            /\ row'[j].attempts = 0
    /\ Collapse => \A j \in Job :
         \/ row'[j] = row[j]
         \/ j \in batch /\ Becomes(j, "superseded", "collapsed")
         \/ j \in batch /\ row[j].st \in Open /\ Becomes(j, row[j].st, "backlog")
    /\ Gate => \A j \in Job :
         \/ row'[j] = row[j]
         \/ j \in batch \ batch' /\ Becomes(j, "suppressed", "other") /\ cur' = Idle
    /\ Examine => \A j \in Job :
         \/ row'[j] = row[j]
         \/ j = cur.job /\ Same(j)
         \/ j = cur.job /\ cur' = Idle /\ pc' = "picking"
            /\ \E v \in {"superseded", "suppressed", "dead"} :
                 Becomes(j, v, "other") /\ v \in Verdicts(j)
    /\ Claim => \A j \in Job : j # cur.job => row'[j] = row[j]
    /\ Claim /\ row[cur.job].st \in Open =>
         row'[cur.job].st = "sending" /\ row'[cur.job].attempts = row[cur.job].attempts + 1
    /\ Claim /\ row[cur.job].st \notin Open => row' = row
    /\ Supersede => \A j \in Job :
         \/ row'[j] = row[j]
         \/ Covered(j) /\ Becomes(j, "superseded", "other")
    /\ Deliver => \A j \in Job :
         IF j = cur.job THEN Becomes(j, "sent", "none") ELSE row'[j] = row[j]
    /\ FailGone => \A j \in Job :
         IF j = cur.job THEN Becomes(j, "superseded", "gone") ELSE row'[j] = row[j]
    /\ Fail => \A j \in Job :
         IF j # cur.job THEN row'[j] = row[j]
         ELSE \/ Becomes(j, "dead", "other")
              \/ Becomes(j, "retrying", "other") /\ ~Exhausted(row[j].attempts)
    /\ Break \/ Pause => \A j \in Job :
         row'[j] = row[j] \/ (row[j].st \in Open /\ Becomes(j, "suppressed", "other"))
    /\ Recover => \A j \in Job :
         IF row[j].st = "sending"
         THEN row'[j].st = "retrying" /\ row'[j].attempts = row[j].attempts ELSE row'[j] = row[j]
    /\ \A k \in Job : BackoffPasses(k) => \A j \in Job : Same(j)
<1> USE DEF RowsTyped
<1>1. ASSUME KeepsRows PROVE row' = row
  BY <1>1 DEF KeepsRows, Plan, SpacingPasses, MessageExpires, DeletedInChat, ReadBacklog, Due,
     Loop,
              Return, Accept, Refuse, AnswerLost, Fault, Resume, Reload, Timer, Crash, Restart,
              Start, durable, vars
<1>2. ASSUME Commit, NEW j \in Job
      PROVE  IF j = JobOf(prod.note, note[prod.note].rev + 1)
             THEN row'[j].st = prod.st /\ row'[j].attempts = 0 ELSE row'[j] = row[j]
  BY <1>2, RowFacts DEF Commit, Held
<1>3. ASSUME Sweep, NEW j \in Job
      PROVE  \/ row'[j] = row[j]
             \/ j.op = "delete" /\ row[j].st = "absent" /\ row'[j].st = "pending"
                /\ row'[j].attempts = 0
  BY <1>3, RowFacts DEF Sweep
<1>4. ASSUME Collapse, NEW j \in Job
      PROVE  \/ row'[j] = row[j]
             \/ j \in batch /\ Becomes(j, "superseded", "collapsed")
             \/ j \in batch /\ row[j].st \in Open /\ Becomes(j, row[j].st, "backlog")
  <2>1. CASE j \in batch /\ j # Newest(batch)
    BY <1>4, <2>1, RowFacts DEF Collapse, Becomes, Final, Reasons
  <2>2. CASE j = Newest(batch) /\ j \in batch /\ row[j].st \in Open
    <3>1. row'[j] = [row[j] EXCEPT !.reason = "backlog"]
      BY <1>4, <2>2 DEF Collapse
    <3>2. [row[j] EXCEPT !.reason = "backlog"].reason = "backlog"
      BY DEF RowType
    <3>3. QED
      BY <2>2, <3>1, <3>2, RowUpdates DEF Becomes
  <2>3. QED
    BY <1>4, <2>1, <2>2 DEF Collapse
<1>5. ASSUME Gate, NEW j \in Job
      PROVE  row'[j] = row[j]
             \/ (j \in batch \ batch' /\ Becomes(j, "suppressed", "other") /\ cur' = Idle)
  <2>1. PICK k \in batch :
          /\ batch' = batch \ {k}
          /\ row' = row \/ Settle(k, "suppressed")
    BY <1>5 DEF Gate
  <2>2. k \in Job
    BY <2>1 DEF WorkerTyped
  <2>3. QED
    BY <2>1, <2>2, RowFacts DEF Settle, NextJob, Becomes, Final, Reasons
<1>6. ASSUME Examine, NEW j \in Job
      PROVE  \/ row'[j] = row[j]
             \/ j = cur.job /\ Same(j)
             \/ j = cur.job /\ cur' = Idle /\ pc' = "picking"
                /\ \E v \in {"superseded", "suppressed", "dead"} :
                     Becomes(j, v, "other") /\ v \in Verdicts(j)
  <2>1. cur.job \in Job
    BY <1>6 DEF Examine, Held, AtJob
  <2>2. PICK v \in Verdicts(cur.job) :
          \/ row' = row
          \/ row' = [row EXCEPT ![cur.job].next = "later"]
          \/ /\ v \in {"superseded", "suppressed", "dead"} /\ NextJob
             /\ row' = [row EXCEPT ![cur.job] = Finished(@, v, "other")]
    BY <1>6, <2>1, ExamineCases
  <2>3. CASE j # cur.job
    BY <2>1, <2>2, <2>3
  <2>4. CASE j = cur.job
    <3>1. CASE row' = [row EXCEPT ![cur.job].next = "later"]
      <4>1. row'[j] = [row[j] EXCEPT !.next = "later"] /\ row[j] \in RowType
        BY <2>4, <3>1
      <4>2. QED
        BY <2>4, <4>1, RowUpdates DEF Same
    <3>2. CASE /\ v \in {"superseded", "suppressed", "dead"} /\ NextJob
               /\ row' = [row EXCEPT ![cur.job] = Finished(@, v, "other")]
      <4>1. row'[j] = Finished(row[j], v, "other") /\ v \in Verdicts(j)
        BY <2>2, <2>4, <3>2
      <4>2. Becomes(j, v, "other")
        BY <3>2, <4>1, RowFacts DEF Becomes, Final, Reasons
      <4>3. QED
        BY <2>4, <3>2, <4>1, <4>2 DEF NextJob
    <3>3. QED
      BY <2>2, <3>1, <3>2
  <2>5. QED
    BY <2>3, <2>4
<1>7. ASSUME Claim, NEW j \in Job, j # cur.job PROVE row'[j] = row[j]
  BY <1>7 DEF Claim
<1>8. ASSUME Claim, row[cur.job].st \in Open
      PROVE  row'[cur.job].st = "sending" /\ row'[cur.job].attempts = row[cur.job].attempts + 1
  <2>1. cur.job \in Job
    BY <1>8 DEF Claim, Held, AtJob
  <2>2. row'[cur.job] = [row[cur.job] EXCEPT !.st = "sending", !.attempts = @ + 1]
    BY <1>8, <2>1 DEF Claim
  <2>3. row[cur.job].attempts + 1 \in Nat
    BY <2>1, RowFacts
  <2>4. QED
    BY <2>1, <2>2, <2>3, RowUpdates
<1>9. ASSUME Claim, row[cur.job].st \notin Open PROVE row' = row
  BY <1>9 DEF Claim
<1>10. ASSUME Supersede, NEW j \in Job
       PROVE  row'[j] = row[j] \/ (Covered(j) /\ Becomes(j, "superseded", "other"))
  BY <1>10, RowFacts DEF Supersede, Becomes, Final, Reasons
<1>11. ASSUME Deliver, NEW j \in Job
       PROVE  IF j = cur.job THEN Becomes(j, "sent", "none") ELSE row'[j] = row[j]
  BY <1>11, RowFacts DEF Deliver, Becomes, Final, Reasons
<1>12. ASSUME FailGone, NEW j \in Job
       PROVE  IF j = cur.job THEN Becomes(j, "superseded", "gone") ELSE row'[j] = row[j]
  BY <1>12, RowFacts DEF FailGone, Becomes, Final, Reasons
<1>13. ASSUME Fail, NEW j \in Job
       PROVE  IF j # cur.job THEN row'[j] = row[j]
              ELSE \/ Becomes(j, "dead", "other")
                   \/ Becomes(j, "retrying", "other") /\ ~Exhausted(row[j].attempts)
  <2>1. PICK r \in AfterFailure(row[cur.job]) : row' = [row EXCEPT ![cur.job] = r]
    BY <1>13 DEF Fail
  <2>2. CASE j = cur.job
    <3>1. r = Finished(row[j], "dead", "other")
          \/ (r = Rescheduled(row[j]) /\ ~Exhausted(row[j].attempts))
      BY <2>1, <2>2 DEF AfterFailure
    <3>2. Rescheduled(row[j]).reason = "other"
      BY DEF Rescheduled, RowType
    <3>3. row'[j] = r
      BY <2>1, <2>2
    <3>4. QED
      BY <2>2, <3>1, <3>2, <3>3, RowFacts DEF Becomes, Final, Reasons
  <2>3. QED
    BY <2>1, <2>2
<1>14. ASSUME Break \/ Pause, NEW j \in Job
       PROVE  row'[j] = row[j] \/ (row[j].st \in Open /\ Becomes(j, "suppressed", "other"))
  <2>1. row'[j] = Suppressed(j)
    BY <1>14 DEF Break, Pause
  <2>2. QED
    BY <2>1, RowFacts DEF Suppressed, Becomes, Final, Reasons
<1>15. ASSUME Recover, NEW j \in Job
       PROVE  IF row[j].st = "sending"
              THEN row'[j].st = "retrying" /\ row'[j].attempts = row[j].attempts
              ELSE row'[j] = row[j]
  BY <1>15, RowUpdates DEF Recover
<1>16. ASSUME NEW k \in Job, BackoffPasses(k), NEW j \in Job PROVE Same(j)
  <2>1. CASE j = k
    <3>1. row'[j] = [row[j] EXCEPT !.next = "now"]
      BY <1>16, <2>1 DEF BackoffPasses
    <3>2. row[j] \in RowType
      OBVIOUS
    <3>3. QED
      BY <3>1, <3>2, RowUpdates DEF Same
  <2>2. CASE j # k
    BY <1>16, <2>2 DEF BackoffPasses, Same
  <2>3. QED
    BY <2>1, <2>2
<1>17. QED
  BY <1>1, <1>2, <1>3, <1>4, <1>5, <1>6, <1>7, <1>8, <1>9, <1>10, <1>11, <1>12, <1>13, <1>14,
     <1>15, <1>16

\* The revisions of records are natural numbers.
LEMMA RevisionFacts ==
    ASSUME RecordsTyped
    PROVE  /\ MaxRev \in Nat
           /\ \A n \in Notes :
                note[n].rev \in Nat /\ note[n].rev <= MaxRev /\ cm[n].rev \in Nat
                /\ chat[n].shown \in Nat
<1>1. MaxRev \in Nat
  BY JobFacts
<1>2. ASSUME NEW n \in Notes
      PROVE  note[n].rev \in Nat /\ note[n].rev <= MaxRev /\ cm[n].rev \in Nat
             /\ chat[n].shown \in Nat
  <2>1. note[n].rev \in 0..MaxRev /\ cm[n].rev \in 0..MaxRev
    BY RecordFacts DEF RecordsTyped
  <2>2. chat[n].shown \in 0..MaxRev
    BY DEF RecordsTyped, ChatType
  <2>3. QED
    BY <1>1, <2>1, <2>2
<1>3. QED
  BY <1>1, <1>2

\* The actions that change the record of a message; those that change what the chat shows.
Recording == Deliver \/ FailGone \/ \E n \in Notes : SpacingPasses(n) \/ MessageExpires(n)
Showing == Accept \/ \E n \in Notes : DeletedInChat(n)

\* What each action does to a notification, its record and its message.
LEMMA RecordMoves ==
    ASSUME RecordsTyped, WorkerTyped, ServerTyped, Held
    PROVE
    /\ [Next]_vars => Commit \/ note' = note
    /\ [Next]_vars => Recording \/ cm' = cm
    /\ [Next]_vars => Showing \/ chat' = chat
    /\ Commit => \A n \in Notes :
         note'[n].rev = IF n = prod.note THEN note[n].rev + 1 ELSE note[n].rev
    /\ Deliver => \A n \in Notes :
         IF n = cur.job.note /\ cur.job.op # "delete"
         THEN cm'[n].rev = cur.rev
         ELSE cm'[n].rev = cm[n].rev /\ (n # cur.job.note => cm'[n] = cm[n])
    /\ Deliver /\ cur.job.op = "delete" => cm'[cur.job.note].deleted
    /\ FailGone => \A n \in Notes :
         /\ cm'[n].rev = cm[n].rev
         /\ n = cur.job.note => cm'[n].deleted = (cm[n].rev > 0)
         /\ n # cur.job.note => cm'[n] = cm[n]
    /\ \A m \in Notes : SpacingPasses(m) \/ MessageExpires(m) => \A n \in Notes :
         cm'[n].rev = cm[n].rev /\ cm'[n].deleted = cm[n].deleted
    /\ Accept => \A n \in Notes :
         chat'[n].shown = IF n = cur.job.note /\ cur.job.op # "delete" THEN cur.rev
                          ELSE chat[n].shown
    /\ \A m \in Notes : DeletedInChat(m) => \A n \in Notes : chat'[n].shown = chat[n].shown
<1> USE DEF RecordsTyped, durable, worker, server, bounds
<1>1. ASSUME [Next]_vars
      PROVE  /\ Commit \/ note' = note
             /\ Recording \/ cm' = cm
             /\ Showing \/ chat' = chat
  <2>1. CASE \/ \E n \in Notes : Plan(n)
             \/ Commit \/ Pause \/ Resume \/ Reload \/ Timer \/ Crash \/ Restart \/ Start \/ Recover
             \/ \E j \in Job : BackoffPasses(j)
             \/ \E n \in Notes : SpacingPasses(n) \/ MessageExpires(n) \/ DeletedInChat(n)
    BY <2>1 DEF Plan, Commit, Pause, Resume, Reload, Timer, Crash, Restart, Start, Recover,
                BackoffPasses, SpacingPasses, MessageExpires, DeletedInChat, Recording, Showing
  <2>2. CASE Work \/ Fault
    BY <2>2 DEF Work, Fault, Sweep, ReadBacklog, Collapse, Due, Loop, Return, Gate, Examine,
       Claim,
                Supersede, Accept, Refuse, AnswerLost, Deliver, FailGone, Fail, Break, Recording,
                Showing
  <2>3. CASE UNCHANGED vars
    BY <2>3 DEF vars
  <2>4. QED
    BY <1>1, <2>1, <2>2, <2>3 DEF Next
<1>2. ASSUME Commit, NEW n \in Notes
      PROVE  note'[n].rev = IF n = prod.note THEN note[n].rev + 1 ELSE note[n].rev
  BY <1>2 DEF Commit
<1>3. \A r, b, x, f : [rev |-> r, deleted |-> b, expiry |-> x, fresh |-> f].rev = r
  OBVIOUS
<1>4. \A m \in MessageType, b \in BOOLEAN :
        [m EXCEPT !.deleted = b].rev = m.rev /\ [m EXCEPT !.deleted = b].deleted = b
  BY DEF MessageType
<1>5. ASSUME Deliver, NEW n \in Notes
      PROVE  IF n = cur.job.note /\ cur.job.op # "delete"
             THEN cm'[n].rev = cur.rev
             ELSE cm'[n].rev = cm[n].rev /\ (n # cur.job.note => cm'[n] = cm[n])
  <2>1. CASE n = cur.job.note /\ cur.job.op # "delete"
    <3>1. \E x : cm'[n] = [rev |-> cur.rev, deleted |-> FALSE, expiry |-> x, fresh |-> TRUE]
      BY <1>5, <2>1 DEF Deliver
    <3>2. QED
      BY <1>3, <2>1, <3>1
  <2>2. CASE n = cur.job.note /\ cur.job.op = "delete"
    <3>1. cm'[n] = [cm[n] EXCEPT !.deleted = TRUE]
      BY <1>5, <2>2 DEF Deliver
    <3>2. QED
      BY <1>4, <2>2, <3>1
  <2>3. CASE n # cur.job.note
    <3>1. cm'[n] = cm[n]
      BY <1>5, <2>3 DEF Deliver
    <3>2. QED
      BY <2>3, <3>1
  <2>4. QED
    BY <2>1, <2>2, <2>3
<1>6. ASSUME Deliver, cur.job.op = "delete" PROVE cm'[cur.job.note].deleted
  <2>1. cur.job.note \in Notes
    BY <1>6, JobFacts DEF Deliver, Held, AtJob
  <2>2. cm'[cur.job.note] = [cm[cur.job.note] EXCEPT !.deleted = TRUE]
    BY <1>6, <2>1 DEF Deliver
  <2>3. QED
    BY <1>4, <2>1, <2>2
<1>7. ASSUME FailGone, NEW n \in Notes
      PROVE  /\ cm'[n].rev = cm[n].rev
             /\ n = cur.job.note => cm'[n].deleted = (cm[n].rev > 0)
             /\ n # cur.job.note => cm'[n] = cm[n]
  <2>1. CASE n = cur.job.note
    <3>1. cm'[n] = [cm[n] EXCEPT !.deleted = (cm[n].rev > 0)]
      BY <1>7, <2>1 DEF FailGone
    <3>2. (cm[n].rev > 0) \in BOOLEAN
      OBVIOUS
    <3>3. QED
      BY <1>4, <2>1, <3>1, <3>2
  <2>2. CASE n # cur.job.note
    BY <1>7, <2>2 DEF FailGone
  <2>3. QED
    BY <2>1, <2>2
<1>8. ASSUME NEW m \in Notes, SpacingPasses(m) \/ MessageExpires(m), NEW n \in Notes
      PROVE  cm'[n].rev = cm[n].rev /\ cm'[n].deleted = cm[n].deleted
  <2>1. CASE n = m
    <3>1. \/ cm'[n] = [cm[n] EXCEPT !.fresh = FALSE]
          \/ cm'[n] = [cm[n] EXCEPT !.expiry = "due"]
      BY <1>8, <2>1 DEF SpacingPasses, MessageExpires
    <3>2. \A x \in MessageType :
            /\ [x EXCEPT !.fresh = FALSE].rev = x.rev
            /\ [x EXCEPT !.fresh = FALSE].deleted = x.deleted
            /\ [x EXCEPT !.expiry = "due"].rev = x.rev
            /\ [x EXCEPT !.expiry = "due"].deleted = x.deleted
      BY DEF MessageType
    <3>3. cm[n] \in MessageType
      OBVIOUS
    <3>4. QED
      BY <3>1, <3>2, <3>3
  <2>2. CASE n # m
    <3>1. cm'[n] = cm[n]
      BY <1>8, <2>2 DEF SpacingPasses, MessageExpires
    <3>2. QED
      BY <3>1
  <2>3. QED
    BY <2>1, <2>2
<1>9. \A c \in ChatType : [c EXCEPT !.there = FALSE].shown = c.shown
  BY DEF ChatType
<1>10. ASSUME Accept, NEW n \in Notes
       PROVE  chat'[n].shown = IF n = cur.job.note /\ cur.job.op # "delete" THEN cur.rev
                               ELSE chat[n].shown
  BY <1>9, <1>10 DEF Accept
<1>11. ASSUME NEW m \in Notes, DeletedInChat(m), NEW n \in Notes
       PROVE  chat'[n].shown = chat[n].shown
  <2>1. chat' = [chat EXCEPT ![m] = [chat[m] EXCEPT !.there = FALSE]]
    BY <1>11 DEF DeletedInChat
  <2>2. QED
    BY <1>9, <2>1
<1>12. QED
  BY <1>1, <1>2, <1>5, <1>6, <1>7, <1>8, <1>10, <1>11

\* Every row stays a row.
LEMMA RowsStep ==
    ASSUME RowsTyped, WorkerTyped, ServerTyped, Held, [Next]_vars PROVE RowsTyped'
<1> USE DEF RowsTyped, Held, AtJob, durable, worker, server, bounds, vars
<1>1. CASE Commit
  <2>1. Planned(prod.st) \in RowType
    BY <1>1, RowFacts DEF Commit, Held
  <2>2. QED
    BY <1>1, <2>1 DEF Commit
<1>2. CASE Sweep
  BY <1>2, RowFacts, JobFacts DEF Sweep, Final, Reasons, Open
<1>3. CASE Collapse
  <2>1. \A j \in Job : row'[j] \in RowType
    <3> SUFFICES ASSUME NEW j \in Job PROVE row'[j] \in RowType
      OBVIOUS
    <3>1. Finished(row[j], "superseded", "collapsed") \in RowType
      BY RowFacts DEF Final, Reasons
    <3>2. [row[j] EXCEPT !.reason = "backlog"] \in RowType
      BY DEF RowType, Reasons
    <3>3. QED
      BY <1>3, <3>1, <3>2 DEF Collapse
  <2>2. QED
    BY <1>3, <2>1 DEF Collapse
<1>4. CASE Gate
  BY <1>4, RowFacts, JobFacts DEF Gate, NextJob, Settle, Final, Reasons, Open
<1>5. CASE Examine
  <2>1. cur.job \in Job
    BY <1>5 DEF Examine
  <2>2. row[cur.job].st \in Open => [row[cur.job] EXCEPT !.next = "later"] \in RowType
    BY <2>1 DEF RowType
  <2>3. \A st \in Final : Finished(row[cur.job], st, "other") \in RowType
    BY <2>1, RowFacts DEF Reasons
  <2>4. QED
    <3>1. \/ UNCHANGED row
          \/ row' = IF row[cur.job].st \in Open
                   THEN [row EXCEPT ![cur.job].next = "later"] ELSE row
          \/ \E st \in Final : row' = [row EXCEPT ![cur.job] = Finished(@, st, "other")]
      BY <1>5, <2>1, ExamineCases DEF Final
    <3>2. QED
      BY <2>1, <2>2, <2>3, <3>1
<1>6. CASE Claim
  <2>1. cur.job \in Job
    BY <1>6 DEF Claim
  <2>2. row[cur.job].st \in Open =>
          [row[cur.job] EXCEPT !.st = "sending", !.attempts = @ + 1] \in RowType
    <3>1. ASSUME NEW r \in RowType
          PROVE  [r EXCEPT !.st = "sending", !.attempts = @ + 1] \in RowType
      <4>1. r.attempts + 1 \in Nat
        BY DEF RowType
      <4>2. \A k \in Nat : [r EXCEPT !.st = "sending", !.attempts = k] \in RowType
        BY DEF RowType
      <4>3. QED
        BY ONLY <4>1, <4>2
    <3>2. QED
      BY <2>1, <3>1
  <2>3. CASE row[cur.job].st \in Open
    <3>1. row' = [row EXCEPT ![cur.job] =
                    [row[cur.job] EXCEPT !.st = "sending", !.attempts = @ + 1]]
      BY <1>6, <2>1, <2>3 DEF Claim
    <3>2. QED
      BY <2>1, <2>2, <2>3, <3>1
  <2>4. QED
    BY <1>6, <2>3 DEF Claim
<1>7. CASE Supersede
  BY <1>7, RowFacts, JobFacts DEF Supersede, Final, Reasons, Open
<1>8. CASE Deliver
  BY <1>8, RowFacts, JobFacts DEF Deliver, NextJob, Final, Reasons, Open
<1>9. CASE FailGone
  BY <1>9, RowFacts, JobFacts DEF FailGone, NextJob, Final, Reasons, Open
<1>10. CASE Fail
  <2>1. row[cur.job] \in RowType
    BY <1>10 DEF Fail, Held, AtJob
  <2>2. AfterFailure(row[cur.job]) \subseteq RowType
    BY <2>1, RowFacts DEF AfterFailure, Final, Reasons
  <2>3. QED
    BY <1>10, <2>2 DEF Fail
<1>11. CASE Break
  <2>1. \A j \in Job : Suppressed(j) \in RowType
    BY RowFacts DEF Suppressed, Final, Reasons
  <2>2. QED
    BY <1>11, <2>1 DEF Break
<1>12. CASE Pause
  <2>1. \A j \in Job : Suppressed(j) \in RowType
    BY RowFacts DEF Suppressed, Final, Reasons
  <2>2. QED
    BY <1>12, <2>1 DEF Pause
<1>13. CASE Recover
  <2>1. \A j \in Job : [row[j] EXCEPT !.st = "retrying", !.next = "now"] \in RowType
    BY DEF RowType, Open
  <2>2. QED
    BY <1>13, <2>1 DEF Recover
<1>14. ASSUME NEW j \in Job, BackoffPasses(j)
      PROVE  RowsTyped'
  <2>1. row[j] \in RowType /\ [row[j] EXCEPT !.next = "now"] \in RowType
    BY <1>14 DEF BackoffPasses, RowType
  <2>2. QED
    BY <1>14, <2>1 DEF BackoffPasses
<1>15. CASE (\E n \in Notes : Plan(n)) \/ ReadBacklog \/ Due \/ Loop \/ Return \/ Accept
          \/ (\E err \in Errors : Refuse(err)) \/ AnswerLost \/ Fault \/ Resume \/ Reload
          \/ Timer \/ Crash \/ Restart \/ Start \/ (\E n \in Notes : SpacingPasses(n))
          \/ (\E n \in Notes : MessageExpires(n)) \/ (\E n \in Notes : DeletedInChat(n))
          \/ UNCHANGED vars
  BY <1>15 DEF Plan, ReadBacklog, Due, Loop, Return, Accept, Refuse, AnswerLost, Fault, NextJob,
     Resume, Operate, Reload, Timer, Tick, Crash, Restart, Start, SpacingPasses,
     MessageExpires, DeletedInChat
<1>16. QED
  BY <1>1, <1>2, <1>3, <1>4, <1>5, <1>6, <1>7, <1>8, <1>9, <1>10, <1>11, <1>12, <1>13,
     <1>14, <1>15
  DEF Next, Work

\* Notifications, the chat's record and the chat keep their types.
LEMMA RecordsStep ==
    ASSUME RecordsTyped, WorkerTyped, ServerTyped, Held, [Next]_vars PROVE RecordsTyped'
<1> USE DEF RecordsTyped, Held, AtJob, durable, worker, server, bounds, vars
<1>1. CASE Commit
  <2>1. prod.note \in Notes /\ prod.open \in BOOLEAN /\ note[prod.note].rev < MaxRev
    BY <1>1 DEF Commit, ServerTyped, ProdType
  <2>2. note[prod.note].rev + 1 \in 0..MaxRev
    BY <2>1, JobFacts, RecordFacts
  <2>3. [rev |-> note[prod.note].rev + 1, open |-> prod.open] \in NoteType
    BY <2>1, <2>2, RecordFacts
  <2>4. QED
    BY <1>1, <2>3 DEF Commit
<1>2. CASE Accept
  <2>1. cur.job \in Job /\ cur.job.note \in Notes /\ cur.rev \in 0..MaxRev
    BY <1>2, JobFacts, CurFacts DEF Accept, WorkerTyped
  <2>2. [shown |-> cur.rev, there |-> TRUE] \in ChatType
    BY <2>1, RecordFacts
  <2>3. [chat[cur.job.note] EXCEPT !.there = FALSE] \in ChatType
    BY <2>1, RecordFacts
  <2>4. QED
    BY <1>2, <2>2, <2>3 DEF Accept
<1>3. CASE Deliver
  <2>1. cur.job \in Job /\ cur.job.note \in Notes /\ cur.rev \in 0..MaxRev
    BY <1>3, JobFacts, CurFacts DEF Deliver, WorkerTyped
  <2>2. ExpiryAfter(cur.job.note) \in {"never", "later", "due"}
    BY <2>1, RecordFacts DEF ExpiryAfter
  <2>3. [rev |-> cur.rev, deleted |-> FALSE, expiry |-> ExpiryAfter(cur.job.note),
         fresh |-> TRUE] \in MessageType
    BY <2>1, <2>2, RecordFacts
  <2>4. [cm[cur.job.note] EXCEPT !.deleted = TRUE] \in MessageType
    BY <2>1, RecordFacts
  <2>5. QED
    BY <1>3, <2>3, <2>4 DEF Deliver
<1>4. CASE FailGone
  <2>1. cur.job \in Job /\ cur.job.note \in Notes
    BY <1>4, JobFacts DEF FailGone
  <2>2. (cm[cur.job.note].rev > 0) \in BOOLEAN
    OBVIOUS
  <2>3. [cm[cur.job.note] EXCEPT !.deleted = (cm[cur.job.note].rev > 0)] \in MessageType
    BY <2>1, <2>2, RecordFacts
  <2>4. QED
    BY <1>4, <2>3 DEF FailGone
<1>5. ASSUME NEW n \in Notes, SpacingPasses(n)
      PROVE  RecordsTyped'
  BY <1>5, RecordFacts DEF SpacingPasses
<1>6. ASSUME NEW n \in Notes, MessageExpires(n)
      PROVE  RecordsTyped'
  BY <1>6, RecordFacts DEF MessageExpires
<1>7. ASSUME NEW n \in Notes, DeletedInChat(n)
      PROVE  RecordsTyped'
  BY <1>7, RecordFacts DEF DeletedInChat
<1>8. CASE (\E n \in Notes : Plan(n)) \/ Sweep \/ ReadBacklog \/ Collapse \/ Due \/ Loop
          \/ Return \/ Gate \/ Examine \/ Claim \/ Supersede
          \/ (\E err \in Errors : Refuse(err)) \/ AnswerLost \/ Fail \/ Break \/ Fault
          \/ Pause \/ Resume \/ Reload \/ Timer \/ Crash \/ Restart \/ Start \/ Recover
          \/ (\E j \in Job : BackoffPasses(j)) \/ UNCHANGED vars
  BY <1>8 DEF Plan, Sweep, ReadBacklog, Collapse, Due, Loop, Return, Gate, NextJob, Settle,
     Examine, NextJob, Settle, Claim, NextJob, Supersede, Refuse, AnswerLost, Fail,
     NextJob, Break, NextJob, Fault, NextJob, Pause, Operate, Resume, Operate, Reload,
     Timer, Tick, Crash, Restart, Start, Recover, Tick, BackoffPasses
<1>9. QED
  BY <1>1, <1>2, <1>3, <1>4, <1>5, <1>6, <1>7, <1>8
  DEF Next, Work

\* The worker's variables keep their types.
LEMMA WorkerStep ==
    ASSUME RecordsTyped, WorkerTyped, ServerTyped, Held, [Next]_vars PROVE WorkerTyped'
<1> USE DEF WorkerTyped, Held, AtJob, Between, Phases, durable, worker, server, bounds, vars
<1>1. CASE Commit
  BY <1>1, CurFacts DEF Commit, Tick
<1>2. CASE Sweep
  BY <1>2, CurFacts DEF Sweep
<1>3. CASE ReadBacklog
  BY <1>3 DEF ReadBacklog, InfoSends
<1>4. CASE Collapse
  BY <1>4, CurFacts DEF Collapse
<1>5. CASE Due
  BY <1>5, CurFacts DEF Due
<1>6. CASE Loop
  BY <1>6, CurFacts DEF Loop
<1>7. CASE Return
  BY <1>7, CurFacts DEF Return
<1>8. CASE Gate
  <2>1. PICK j \in batch :
          \/ pc' = "reading" /\ cur' = [Idle EXCEPT !.job = j]
          \/ pc' = "picking" /\ cur' = Idle
    BY <1>8 DEF Gate, Settle, NextJob
  <2>2. j \in Job /\ batch' \subseteq batch /\ UNCHANGED again
    BY <1>8 DEF Gate
  <2>3. Idle \in CurType /\ [Idle EXCEPT !.job = j] \in CurType
    BY <2>2, CurFacts
  <2>4. QED
    BY <2>1, <2>2, <2>3
<1>9. CASE Examine
  <2>1. cur.job \in Job
    BY <1>9 DEF Examine
  <2>2. pc' \in Phases /\ cur' \in CurType
    BY <1>9, <2>1, ExaminedCur, ExamineCases, CurFacts DEF NextJob
  <2>3. QED
    BY <1>9, <2>2 DEF Examine
<1>10. CASE Claim
  BY <1>10, CurFacts DEF Claim, NextJob
<1>11. CASE Supersede
  BY <1>11, CurFacts DEF Supersede
<1>12. CASE Accept
  BY <1>12, CurFacts DEF Accept
<1>13. ASSUME NEW err \in Errors, Refuse(err)
      PROVE  WorkerTyped'
  BY <1>13, CurFacts DEF Refuse
<1>14. CASE AnswerLost
  <2>1. "retry" \in Errors
    BY DEF Errors
  <2>2. QED
    BY <1>14, <2>1, CurFacts DEF AnswerLost
<1>15. CASE Deliver
  BY <1>15, CurFacts DEF Deliver, NextJob
<1>16. CASE FailGone
  BY <1>16, CurFacts DEF FailGone, NextJob
<1>17. CASE Fail
  BY <1>17, CurFacts DEF Fail, NextJob
<1>18. CASE Break
  BY <1>18, CurFacts DEF Break, NextJob
<1>19. CASE Fault
  BY <1>19, CurFacts DEF Fault, NextJob
<1>20. CASE Timer
  BY <1>20, CurFacts DEF Timer, Tick
<1>21. CASE Crash
  BY <1>21, CurFacts DEF Crash
<1>22. CASE Recover
  BY <1>22, CurFacts DEF Recover, Tick
<1>23. CASE (\E n \in Notes : Plan(n)) \/ Pause \/ Resume \/ Reload \/ Restart \/ Start
          \/ (\E j \in Job : BackoffPasses(j)) \/ (\E n \in Notes : SpacingPasses(n))
          \/ (\E n \in Notes : MessageExpires(n)) \/ (\E n \in Notes : DeletedInChat(n))
          \/ UNCHANGED vars
  BY <1>23 DEF Plan, Pause, Operate, Resume, Operate, Reload, Restart, Start, BackoffPasses,
     SpacingPasses, MessageExpires, DeletedInChat
<1>24. QED
  BY <1>1, <1>2, <1>3, <1>4, <1>5, <1>6, <1>7, <1>8, <1>9, <1>10, <1>11, <1>12, <1>13,
     <1>14, <1>15, <1>16, <1>17, <1>18, <1>19, <1>20, <1>21, <1>22, <1>23
  DEF Next, Work

\* The channel's and the process's variables keep their types.
LEMMA ServerStep ==
    ASSUME RecordsTyped, WorkerTyped, ServerTyped, Held, [Next]_vars PROVE ServerTyped'
<1> USE DEF ServerTyped, durable, worker, server, bounds, vars
<1>1. ASSUME NEW n \in Notes, Plan(n)
      PROVE  ServerTyped'
  <2>1. prod' \in ProdType
    BY <1>1 DEF Plan, ProdType
  <2>2. QED
    BY <1>1, <2>1 DEF Plan
<1>2. CASE Commit
  <2>1. prod' \in ProdType
    BY <1>2 DEF Commit, NoChange, ProdType
  <2>2. QED
    BY <1>2, <2>1 DEF Commit
<1>3. CASE Deliver
  BY <1>3, BoundsAssumption DEF Deliver, NextJob
<1>4. CASE Fail
  BY <1>4, BoundsAssumption DEF Fail, NextJob
<1>5. CASE Break
  BY <1>5, BoundsAssumption DEF Break, NextJob
<1>6. CASE Fault
  BY <1>6, BoundsAssumption DEF Fault, NextJob
<1>7. CASE Pause
  BY <1>7, BoundsAssumption DEF Pause, Operate
<1>8. CASE Resume
  BY <1>8, BoundsAssumption DEF Resume, Operate
<1>9. CASE Reload
  <2>1. stale' \in BOOLEAN
    BY <1>9 DEF Reload, PastGate
  <2>2. QED
    BY <1>9, <2>1 DEF Reload
<1>10. CASE Crash
  <2>1. prod' \in ProdType
    BY <1>10 DEF Crash, NoChange, ProdType
  <2>2. crashes' \in 0..MaxCrashes
    BY <1>10, BoundsAssumption DEF Crash
  <2>3. QED
    BY <1>10, <2>1, <2>2 DEF Crash
<1>11. CASE Restart
  BY <1>11, BoundsAssumption DEF Restart
<1>12. CASE Start
  BY <1>12, BoundsAssumption DEF Start
<1>13. CASE Recover
  BY <1>13, BoundsAssumption DEF Recover, Tick
<1>14. ASSUME NEW n \in Notes, DeletedInChat(n)
      PROVE  ServerTyped'
  BY <1>14, BoundsAssumption DEF DeletedInChat
<1>15. CASE Sweep \/ ReadBacklog \/ Collapse \/ Due \/ Loop \/ Return
  BY <1>15 DEF Sweep, ReadBacklog, Collapse, Due, Loop, Return
<1>16. CASE Gate \/ Examine \/ Claim \/ Supersede \/ Accept
          \/ (\E err \in Errors : Refuse(err)) \/ AnswerLost
  BY <1>16 DEF Gate, NextJob, Settle, Examine, NextJob, Settle, Claim, NextJob, Supersede,
     Accept,
     Refuse, AnswerLost
<1>17. CASE FailGone \/ Timer \/ (\E j \in Job : BackoffPasses(j))
          \/ (\E n \in Notes : SpacingPasses(n)) \/ (\E n \in Notes : MessageExpires(n))
          \/ UNCHANGED vars
  BY <1>17 DEF FailGone, NextJob, Timer, Tick, BackoffPasses, SpacingPasses, MessageExpires
<1>18. QED
  BY <1>1, <1>2, <1>3, <1>4, <1>5, <1>6, <1>7, <1>8, <1>9, <1>10, <1>11, <1>12, <1>13,
     <1>14, <1>15, <1>16, <1>17
  DEF Next, Work

\* The worker goes on holding a job where it needs one.
LEMMA HeldStep ==
    ASSUME RecordsTyped, WorkerTyped, ServerTyped, Held, [Next]_vars PROVE Held'
<1> USE DEF Held, AtJob, WorkerTyped, durable, worker, server, bounds, vars
<1>1. ASSUME NEW n \in Notes, Plan(n)
      PROVE  Held'
  <2>1. \E st \in {"pending", "suppressed"} : prod'.st = st /\ prod'.note = n
    BY <1>1 DEF Plan
  <2>2. boot # "down" /\ note[n].rev < MaxRev /\ UNCHANGED <<note, boot, pc, cur>>
    BY <1>1 DEF Plan
  <2>3. QED
    BY <1>1, <2>1, <2>2
<1>2. CASE Commit
  BY <1>2 DEF Commit, Tick
<1>3. CASE Sweep
  BY <1>3 DEF Sweep
<1>4. CASE ReadBacklog
  BY <1>4 DEF ReadBacklog
<1>5. CASE Collapse
  BY <1>5 DEF Collapse
<1>6. CASE Due
  BY <1>6 DEF Due
<1>7. CASE Loop
  BY <1>7 DEF Loop
<1>8. CASE Return
  BY <1>8 DEF Return
<1>9. CASE Gate
  <2>1. PICK j \in batch :
          \/ pc' = "reading" /\ cur' = [Idle EXCEPT !.job = j]
          \/ pc' = "picking" /\ cur' = Idle
    BY <1>9 DEF Gate, Settle, NextJob
  <2>2. j \in Job /\ UNCHANGED <<note, boot, prod, reloading>> /\ pc = "picking"
    BY <1>9 DEF Gate
  <2>3. [Idle EXCEPT !.job = j].job = j
    BY <2>2, CurFacts
  <2>4. QED
    BY <2>1, <2>2, <2>3
<1>10. CASE Examine
  <2>1. cur.job \in Job
    BY <1>10 DEF Examine
  <2>2. (pc' \in AtJob /\ cur'.job = cur.job) \/ (pc' \notin AtJob /\ cur' = Idle)
    BY <1>10, <2>1, ExaminedCur, ExamineCases DEF NextJob
  <2>3. pc' # "superseding"
    BY <1>10, <2>1, ExamineCases DEF NextJob
  <2>4. QED
    BY <1>10, <2>1, <2>2, <2>3 DEF Examine
<1>11. CASE Claim
  BY <1>11 DEF Claim, NextJob
<1>12. CASE Supersede
  BY <1>12 DEF Supersede
<1>13. CASE Accept
  BY <1>13 DEF Accept
<1>14. ASSUME NEW err \in Errors, Refuse(err)
      PROVE  Held'
  <2>1. cur'.job = cur.job
    BY <1>14, CurFacts DEF Refuse
  <2>2. QED
    BY <1>14, <2>1 DEF Refuse
<1>15. CASE AnswerLost
  <2>1. cur'.job = cur.job
    BY <1>15, CurFacts DEF AnswerLost, Errors
  <2>2. QED
    BY <1>15, <2>1 DEF AnswerLost
<1>16. CASE Deliver
  BY <1>16 DEF Deliver, NextJob
<1>17. CASE FailGone
  BY <1>17 DEF FailGone, NextJob
<1>18. CASE Fail
  BY <1>18 DEF Fail, NextJob
<1>19. CASE Break
  BY <1>19 DEF Break, NextJob
<1>20. CASE Fault
  BY <1>20 DEF Fault, NextJob
<1>21. CASE Pause
  BY <1>21 DEF Pause, Operate
<1>22. CASE Resume
  BY <1>22 DEF Resume, Operate
<1>23. CASE Reload
  BY <1>23 DEF Reload
<1>24. CASE Timer
  BY <1>24 DEF Timer, Tick
<1>25. CASE Crash
  BY <1>25 DEF Crash
<1>26. CASE Restart
  BY <1>26 DEF Restart
<1>27. CASE Start
  BY <1>27 DEF Start
<1>28. CASE Recover
  BY <1>28 DEF Recover, Tick
<1>29. ASSUME NEW j \in Job, BackoffPasses(j)
      PROVE  Held'
  BY <1>29 DEF BackoffPasses
<1>30. ASSUME NEW n \in Notes, SpacingPasses(n)
      PROVE  Held'
  BY <1>30 DEF SpacingPasses
<1>31. ASSUME NEW n \in Notes, MessageExpires(n)
      PROVE  Held'
  BY <1>31 DEF MessageExpires
<1>32. ASSUME NEW n \in Notes, DeletedInChat(n)
      PROVE  Held'
  BY <1>32 DEF DeletedInChat
<1>33. CASE UNCHANGED vars
  BY <1>33
<1>34. QED
  BY <1>1, <1>2, <1>3, <1>4, <1>5, <1>6, <1>7, <1>8, <1>9, <1>10, <1>11, <1>12, <1>13,
     <1>14, <1>15, <1>16, <1>17, <1>18, <1>19, <1>20, <1>21, <1>22, <1>23, <1>24, <1>25,
     <1>26, <1>27, <1>28, <1>29, <1>30, <1>31, <1>32, <1>33
  DEF Next, Work

\* The row a change plans is not there yet.
LEMMA PlannedIsAbsent ==
    ASSUME RecordsTyped, Held, PlannedRevisions, prod # NoChange
    PROVE  /\ prod.note \in Notes /\ note[prod.note].rev + 1 \in Revs
           /\ JobOf(prod.note, note[prod.note].rev + 1) \in Job
           /\ row[JobOf(prod.note, note[prod.note].rev + 1)].st = "absent"
<1> DEFINE r == note[prod.note].rev + 1
<1>1. prod.note \in Notes /\ note[prod.note].rev < MaxRev
  BY DEF Held
<1>2. note[prod.note].rev \in Nat /\ MaxRev \in Nat
  BY <1>1, RecordFacts, JobFacts DEF RecordsTyped
<1>3. r \in Revs
  BY <1>1, <1>2 DEF Revs
<1>4. /\ JobOf(prod.note, r) \in Job /\ JobOf(prod.note, r).note = prod.note
      /\ JobOf(prod.note, r).rev = r /\ JobOf(prod.note, r).op # "delete"
  BY <1>1, <1>3, JobFacts
<1>5. row[JobOf(prod.note, r)].st = "absent"
  BY <1>2, <1>4 DEF PlannedRevisions
<1>6. QED
  BY <1>1, <1>3, <1>4, <1>5

\* A revision that is not there has no row.
LEMMA PlannedStep ==
    ASSUME RowsTyped, RecordsTyped, WorkerTyped, ServerTyped, Held, PlannedRevisions,
           BatchIsUnsettled, [Next]_vars PROVE PlannedRevisions'
<1> USE DEF PlannedRevisions, BatchIsUnsettled, OfThePass, InHand, durable, worker, server,
            bounds, vars
<1>1. CASE Commit
  <2>1. prod.note \in Notes /\ note[prod.note].rev < MaxRev
    BY <1>1 DEF Commit, Held
  <2>2. \A n \in Notes : note[n].rev \in 0..MaxRev
    BY RecordFacts DEF RecordsTyped
  <2>3. note' = [note EXCEPT ![prod.note] = [rev |-> note[prod.note].rev + 1, open |-> prod.open]]
    BY <1>1 DEF Commit
  <2>4. \A n \in Notes : note'[n].rev = IF n = prod.note THEN note[n].rev + 1 ELSE note[n].rev
    BY <2>1, <2>3 DEF RecordsTyped
  <2>5. note[prod.note].rev + 1 \in Revs
    BY <1>1, PlannedIsAbsent DEF Commit
  <2>6. ASSUME NEW j \in Job, j.op # "delete", j.rev > note'[j.note].rev
        PROVE  row'[j].st = "absent"
    <3>1. j.note \in Notes /\ j.rev \in Nat
      BY JobFacts
    <3>2. j # JobOf(prod.note, note[prod.note].rev + 1)
      <4>1. /\ JobOf(prod.note, note[prod.note].rev + 1).note = prod.note
            /\ JobOf(prod.note, note[prod.note].rev + 1).rev = note[prod.note].rev + 1
        <5>1. \A n \in Notes, r \in Revs : JobOf(n, r).note = n /\ JobOf(n, r).rev = r
          BY JobFacts
        <5>2. QED
          BY <2>1, <2>5, <5>1
      <4>2. note'[prod.note].rev = note[prod.note].rev + 1 /\ note[prod.note].rev \in Nat
        BY <2>1, <2>4, RevisionFacts
      <4>3. QED
        BY <2>6, <4>1, <4>2
    <3>3. row'[j] = row[j]
      BY <1>1, <3>2, RowMoves
    <3>4. j.rev > note[j.note].rev
      BY <2>1, <2>2, <2>4, <2>6, <3>1
    <3>5. QED
      BY <2>6, <3>3, <3>4
  <2>7. QED
    BY <2>6
<1>2. CASE Sweep
  BY <1>2, RowMoves DEF Sweep, Covered, Open
<1>3. CASE Collapse
  <2>1. \A j \in batch : row[j].st # "absent"
    BY DEF Unsettled, Open
  <2>2. QED
    BY <1>3, <2>1, RowMoves DEF Collapse
<1>4. CASE Gate
  <2>1. \A j \in batch : row[j].st # "absent"
    BY DEF Unsettled, Open
  <2>2. QED
    BY <1>4, <2>1, RowMoves DEF Gate
<1>5. CASE Examine
  <2>1. row[cur.job].st # "absent" /\ note' = note
    BY <1>5 DEF Examine, Unsettled, Open
  <2>2. QED
    BY <1>5, <2>1, RowMoves
<1>6. CASE Claim
  <2>1. row[cur.job].st # "absent" /\ note' = note
    BY <1>6 DEF Claim, Unsettled, Open
  <2>2. QED
    BY <1>6, <2>1, RowMoves
<1>7. CASE Supersede
  BY <1>7, RowMoves DEF Supersede, Covered, Open
<1>8. CASE Deliver
  <2>1. row[cur.job].st # "absent" /\ note' = note
    BY <1>8 DEF Deliver, Claimed, Unsettled, Open
  <2>2. QED
    BY <1>8, <2>1, RowMoves
<1>9. CASE FailGone
  <2>1. row[cur.job].st # "absent" /\ note' = note
    BY <1>9 DEF FailGone, Claimed, Unsettled, Open
  <2>2. QED
    BY <1>9, <2>1, RowMoves
<1>10. CASE Fail
  <2>1. row[cur.job].st # "absent" /\ note' = note
    BY <1>10 DEF Fail, Claimed, Unsettled, Open
  <2>2. QED
    BY <1>10, <2>1, RowMoves
<1>11. CASE Break
  BY <1>11, RowMoves DEF Break, Open
<1>12. CASE Pause
  BY <1>12, RowMoves DEF Pause, Open
<1>13. CASE Recover
  BY <1>13, RowMoves DEF Recover, Tick, Covered, Open
<1>14. ASSUME NEW j \in Job, BackoffPasses(j)
      PROVE  PlannedRevisions'
  <2>1. \A k \in Job : Same(k)
    BY <1>14, RowMoves
  <2>2. QED
    BY <1>14, <2>1 DEF BackoffPasses, Same
<1>15. CASE (\E n \in Notes : Plan(n)) \/ (\E n \in Notes : SpacingPasses(n))
          \/ (\E n \in Notes : MessageExpires(n)) \/ (\E n \in Notes : DeletedInChat(n))
          \/ ReadBacklog \/ Due \/ Loop \/ Return \/ Accept
          \/ (\E err \in Errors : Refuse(err)) \/ AnswerLost \/ Fault \/ Resume \/ Reload
          \/ Timer \/ Crash \/ Restart \/ Start \/ UNCHANGED vars
  <2>1. row' = row
    BY <1>15, RowMoves DEF KeepsRows
  <2>2. note' = note
    BY <1>15 DEF Plan, SpacingPasses, MessageExpires, DeletedInChat, ReadBacklog, Due, Loop,
       Return,
     Accept, Refuse, AnswerLost, Fault, NextJob, Resume, Operate, Reload, Timer, Tick,
     Crash, Restart, Start
  <2>3. QED
    BY <2>1, <2>2
<1>16. QED
  BY <1>1, <1>2, <1>3, <1>4, <1>5, <1>6, <1>7, <1>8, <1>9, <1>10, <1>11, <1>12, <1>13,
     <1>14, <1>15
  DEF Next, Work

\* The jobs of a pass stay unsettled.
LEMMA BatchStep ==
    ASSUME RowsTyped, RecordsTyped, WorkerTyped, ServerTyped, Held, PlannedRevisions,
           BatchIsUnsettled, [Next]_vars PROVE OfThePass'
<1> USE DEF BatchIsUnsettled, OfThePass, InHand, Unsettled, Open, Claimed, WorkerTyped, Held,
            AtJob, durable, worker, server, bounds, vars
<1>1. CASE Commit
  <2>1. JobOf(prod.note, note[prod.note].rev + 1) \in Job
        /\ row[JobOf(prod.note, note[prod.note].rev + 1)].st = "absent"
    BY <1>1, PlannedIsAbsent DEF Commit
  <2>2. \A j \in batch : row[j].st # "absent"
    OBVIOUS
  <2>3. \A j \in batch : row'[j] = row[j]
    BY <1>1, <2>1, <2>2, RowMoves
  <2>4. UNCHANGED batch
    BY <1>1 DEF Commit
  <2>5. QED
    BY <2>3, <2>4
<1>2. CASE Sweep
  <2>1. \A j \in batch' : j \in batch /\ (row'[j] = row[j] \/ row'[j].st \in Unsettled)
    BY <1>2, RowMoves DEF Sweep
  <2>2. QED
    BY <2>1
<1>3. CASE Collapse
  BY <1>3 DEF Collapse
<1>4. CASE Gate
  <2>1. \A j \in batch' : j \in batch /\ (row'[j] = row[j] \/ row'[j].st \in Unsettled)
    BY <1>4, RowMoves DEF Gate
  <2>2. QED
    BY <2>1
<1>5. CASE Examine
  <2>1. \A j \in batch' : j \in batch /\ (row'[j] = row[j] \/ row'[j].st \in Unsettled)
    BY <1>5, RowMoves DEF Examine
  <2>2. QED
    BY <2>1
<1>6. CASE Claim
  <2>1. \A j \in batch' : j \in batch /\ (row'[j] = row[j] \/ row'[j].st \in Unsettled)
    BY <1>6, RowMoves DEF Claim
  <2>2. QED
    BY <2>1
<1>7. CASE Supersede
  <2>1. \A j \in batch' : j \in batch /\ (row'[j] = row[j] \/ row'[j].st \in Unsettled)
    BY <1>7, RowMoves DEF Supersede, Becomes
  <2>2. QED
    BY <2>1
<1>8. CASE Deliver
  <2>1. \A j \in batch' : j \in batch /\ (row'[j] = row[j] \/ row'[j].st \in Unsettled)
    BY <1>8, RowMoves DEF Deliver
  <2>2. QED
    BY <2>1
<1>9. CASE FailGone
  <2>1. \A j \in batch' : j \in batch /\ (row'[j] = row[j] \/ row'[j].st \in Unsettled)
    BY <1>9, RowMoves DEF FailGone
  <2>2. QED
    BY <2>1
<1>10. CASE Fail
  <2>1. \A j \in batch' : j \in batch /\ (row'[j] = row[j] \/ row'[j].st \in Unsettled)
    BY <1>10, RowMoves DEF Fail
  <2>2. QED
    BY <2>1
<1>11. CASE Break
  <2>1. \A j \in batch' : j \in batch /\ (row'[j] = row[j] \/ row'[j].st \in Unsettled)
    BY <1>11, RowMoves DEF Break, Becomes
  <2>2. QED
    BY <2>1
<1>12. CASE Pause
  <2>1. \A j \in batch' : j \in batch /\ (row'[j] = row[j] \/ row'[j].st \in Unsettled)
    BY <1>12, RowMoves DEF Pause, Becomes
  <2>2. QED
    BY <2>1
<1>13. CASE Recover
  <2>1. \A j \in batch' : j \in batch /\ (row'[j] = row[j] \/ row'[j].st \in Unsettled)
    BY <1>13, RowMoves DEF Recover
  <2>2. QED
    BY <2>1
<1>14. ASSUME NEW j \in Job, BackoffPasses(j)
      PROVE  OfThePass'
  <2>1. UNCHANGED batch /\ \A k \in Job : Same(k)
    BY <1>14, RowMoves DEF BackoffPasses
  <2>2. QED
    BY <2>1 DEF Same
<1>15. CASE ReadBacklog \/ Due
  <2>1. row' = row
    BY <1>15, RowMoves DEF KeepsRows
  <2>2. QED
    BY <1>15, <2>1 DEF ReadBacklog, Due, InfoSends
<1>16. CASE (\E n \in Notes : Plan(n)) \/ (\E n \in Notes : SpacingPasses(n))
          \/ (\E n \in Notes : MessageExpires(n)) \/ (\E n \in Notes : DeletedInChat(n))
          \/ Loop \/ Return \/ Accept \/ (\E err \in Errors : Refuse(err)) \/ AnswerLost
          \/ Fault \/ Resume \/ Reload \/ Timer \/ Crash \/ Restart \/ Start
          \/ UNCHANGED vars
  <2>1. row' = row /\ batch' \subseteq batch
    BY <1>16, RowMoves DEF KeepsRows, Plan, SpacingPasses, MessageExpires, DeletedInChat, Loop,
       Return, Accept, Refuse,
     AnswerLost, Fault, NextJob, Resume, Operate, Reload, Timer, Tick, Crash, Restart,
     Start
  <2>2. QED
    BY <2>1
<1>17. QED
  BY <1>1, <1>2, <1>3, <1>4, <1>5, <1>6, <1>7, <1>8, <1>9, <1>10, <1>11, <1>12, <1>13,
     <1>14, <1>15, <1>16
  DEF Next, Work

\* The row of the job in hand stays unsettled until the worker settles it.
LEMMA InHandStep ==
    ASSUME RowsTyped, RecordsTyped, WorkerTyped, ServerTyped, Held, PlannedRevisions,
           BatchIsUnsettled, [Next]_vars PROVE InHand'
<1> USE DEF BatchIsUnsettled, OfThePass, InHand, Unsettled, Open, Claimed, WorkerTyped, Held,
            AtJob, durable, worker, server, bounds, vars
<1>1. CASE Commit
  <2>1. JobOf(prod.note, note[prod.note].rev + 1) \in Job
        /\ row[JobOf(prod.note, note[prod.note].rev + 1)].st = "absent"
    BY <1>1, PlannedIsAbsent DEF Commit
  <2>2. pc \in {"reading", "claiming"} \cup Claimed =>
          row[cur.job].st # "absent" /\ cur.job \in Job
    OBVIOUS
  <2>3. pc \in {"reading", "claiming"} \cup Claimed => row'[cur.job] = row[cur.job]
    BY <1>1, <2>1, <2>2, RowMoves
  <2>4. UNCHANGED <<cur, batch>> /\ (pc' = pc \/ pc' = "sweeping")
    BY <1>1 DEF Commit, Tick
  <2>5. QED
    BY <2>3, <2>4
<1>2. CASE Sweep
  <2>1. pc' \notin AtJob /\ cur' = Idle
    BY <1>2 DEF Sweep
  <2>2. Idle.job \notin batch'
    BY <1>2, JobFacts DEF Sweep
  <2>3. QED
    BY <2>1, <2>2
<1>3. CASE ReadBacklog
  <2>1. pc' \notin AtJob /\ cur' = Idle
    BY <1>3 DEF ReadBacklog
  <2>2. Idle.job \notin batch'
    BY <1>3, JobFacts DEF ReadBacklog, InfoSends
  <2>3. QED
    BY <2>1, <2>2
<1>4. CASE Collapse
  <2>1. pc' \notin AtJob /\ cur' = Idle
    BY <1>4 DEF Collapse
  <2>2. Idle.job \notin batch'
    BY <1>4, JobFacts DEF Collapse
  <2>3. QED
    BY <2>1, <2>2
<1>5. CASE Due
  <2>1. pc' \notin AtJob /\ cur' = Idle
    BY <1>5 DEF Due
  <2>2. Idle.job \notin batch'
    BY <1>5, JobFacts DEF Due
  <2>3. QED
    BY <2>1, <2>2
<1>6. CASE Loop
  <2>1. pc' \notin AtJob /\ cur' = Idle
    BY <1>6 DEF Loop
  <2>2. Idle.job \notin batch'
    BY <1>6, JobFacts DEF Loop
  <2>3. QED
    BY <2>1, <2>2
<1>7. CASE Return
  <2>1. pc' \notin AtJob /\ cur' = Idle
    BY <1>7 DEF Return
  <2>2. Idle.job \notin batch'
    BY <1>7, JobFacts DEF Return
  <2>3. QED
    BY <2>1, <2>2
<1>8. CASE Gate
  <2>1. PICK j \in batch :
          /\ batch' = batch \ {j}
          /\ \/ pc' = "reading" /\ cur' = [Idle EXCEPT !.job = j] /\ row' = row
             \/ pc' = "picking" /\ cur' = Idle
    BY <1>8 DEF Gate, Settle, NextJob
  <2>2. j \in Job /\ [Idle EXCEPT !.job = j].job = j
    BY CurFacts
  <2>3. cur'.job \notin batch'
    BY <2>1, <2>2, JobFacts
  <2>4. /\ pc' \notin Claimed \cup {"claiming"}
        /\ pc' = "reading" => row'[cur'.job].st \in Unsettled
    BY <2>1, <2>2
  <2>5. QED
    BY <2>3, <2>4
<1>9. CASE Examine
  <2>1. cur.job \in Job /\ UNCHANGED batch
    BY <1>9 DEF Examine
  <2>2. \/ pc' = "claiming" /\ cur'.job = cur.job /\ row' = row
        \/ pc' = "picking" /\ cur' = Idle
    BY <1>9, <2>1, ExaminedCur, ExamineCases DEF NextJob
  <2>3. pc = "reading"
    BY <1>9 DEF Examine
  <2>4. QED
    BY <2>1, <2>2, <2>3, JobFacts
<1>10. CASE Claim
  <2>1. cur.job \in Job /\ UNCHANGED batch
    BY <1>10 DEF Claim
  <2>2. \/ pc' \in Claimed /\ cur' = cur /\ row'[cur.job].st = "sending"
        \/ pc' = "picking" /\ cur' = Idle
    BY <1>10, RowMoves DEF Claim, NextJob
  <2>3. QED
    BY <2>1, <2>2, JobFacts
<1>11. CASE Supersede
  <2>1. cur.job \in Job /\ UNCHANGED <<batch, cur>> /\ pc = "superseding" /\ pc' = "calling"
    BY <1>11 DEF Supersede
  <2>2. row'[cur.job] = row[cur.job]
    BY <1>11, <2>1, RowMoves DEF Covered
  <2>3. QED
    BY <2>1, <2>2
<1>12. CASE Accept
  <2>1. cur'.job = cur.job /\ UNCHANGED <<row, batch>> /\ pc \in Claimed /\ pc' \in Claimed
    BY <1>12, CurFacts DEF Accept, durable
  <2>2. QED
    BY <2>1
<1>13. ASSUME NEW err \in Errors, Refuse(err)
      PROVE  InHand'
  <2>1. cur'.job = cur.job /\ UNCHANGED <<row, batch>> /\ pc \in Claimed /\ pc' \in Claimed
    BY <1>13, CurFacts DEF Refuse, durable
  <2>2. QED
    BY <2>1
<1>14. CASE AnswerLost
  <2>1. cur'.job = cur.job /\ UNCHANGED <<row, batch>> /\ pc \in Claimed /\ pc' \in Claimed
    BY <1>14, CurFacts DEF AnswerLost, Errors, durable
  <2>2. QED
    BY <2>1
<1>15. CASE Deliver
  <2>1. pc' \notin AtJob /\ cur' = Idle
    BY <1>15 DEF Deliver, NextJob
  <2>2. Idle.job \notin batch'
    BY <1>15, JobFacts DEF Deliver
  <2>3. QED
    BY <2>1, <2>2
<1>16. CASE FailGone
  <2>1. pc' \notin AtJob /\ cur' = Idle
    BY <1>16 DEF FailGone, NextJob
  <2>2. Idle.job \notin batch'
    BY <1>16, JobFacts DEF FailGone
  <2>3. QED
    BY <2>1, <2>2
<1>17. CASE Fail
  <2>1. UNCHANGED batch /\ ((pc' = "breaking" /\ cur' = cur) \/ (pc' = "picking" /\ cur' = Idle))
    BY <1>17 DEF Fail, NextJob
  <2>2. QED
    BY <1>17, <2>1, JobFacts DEF Fail
<1>18. CASE Break
  <2>1. pc' \notin AtJob /\ cur' = Idle
    BY <1>18 DEF Break, NextJob
  <2>2. Idle.job \notin batch'
    BY <1>18, JobFacts DEF Break
  <2>3. QED
    BY <2>1, <2>2
<1>19. CASE Fault
  <2>1. pc' \notin AtJob /\ cur' = Idle
    BY <1>19 DEF Fault, NextJob
  <2>2. Idle.job \notin batch'
    BY <1>19, JobFacts DEF Fault
  <2>3. QED
    BY <2>1, <2>2
<1>20. CASE Pause
  <2>1. UNCHANGED worker
    BY <1>20 DEF Pause
  <2>2. pc \in {"reading", "claiming"} \cup Claimed =>
          row'[cur.job] = row[cur.job] \/ row'[cur.job].st = "suppressed"
    BY <1>20, RowMoves DEF Becomes
  <2>3. QED
    BY <2>1, <2>2
<1>21. CASE Timer
  <2>1. UNCHANGED <<row, cur, batch>> /\ (pc' = pc \/ pc' = "sweeping")
    BY <1>21 DEF Timer, Tick
  <2>2. QED
    BY <2>1
<1>22. CASE Crash
  <2>1. pc' \notin AtJob /\ cur' = Idle
    BY <1>22 DEF Crash
  <2>2. Idle.job \notin batch'
    BY <1>22, JobFacts DEF Crash
  <2>3. QED
    BY <2>1, <2>2
<1>23. CASE Recover
  <2>1. UNCHANGED <<cur, batch>> /\ (pc' = pc \/ pc' = "sweeping")
    BY <1>23 DEF Recover, Tick
  <2>2. pc \in {"reading", "claiming"} \cup Claimed =>
          \/ row'[cur.job] = row[cur.job]
          \/ row[cur.job].st = "sending" /\ row'[cur.job].st = "retrying"
    BY <1>23, RowMoves
  <2>3. QED
    BY <2>1, <2>2
<1>24. ASSUME NEW j \in Job, BackoffPasses(j)
      PROVE  InHand'
  <2>1. UNCHANGED worker /\ \A k \in Job : Same(k)
    BY <1>24, RowMoves DEF BackoffPasses
  <2>2. QED
    BY <2>1 DEF Same
<1>25. CASE (\E n \in Notes : Plan(n)) \/ (\E n \in Notes : SpacingPasses(n))
          \/ (\E n \in Notes : MessageExpires(n)) \/ (\E n \in Notes : DeletedInChat(n))
          \/ Resume \/ Reload \/ Restart \/ Start \/ UNCHANGED vars
  <2>1. UNCHANGED <<row, worker>>
    BY <1>25 DEF Plan, SpacingPasses, MessageExpires, DeletedInChat, Resume, Operate, Reload,
     Restart, Start
  <2>2. QED
    BY <2>1
<1>26. QED
  BY <1>1, <1>2, <1>3, <1>4, <1>5, <1>6, <1>7, <1>8, <1>9, <1>10, <1>11, <1>12, <1>13,
     <1>14, <1>15, <1>16, <1>17, <1>18, <1>19, <1>20, <1>21, <1>22, <1>23, <1>24, <1>25
  DEF Next, Work

\* The two together.
LEMMA BatchIsUnsettledStep ==
    ASSUME RowsTyped, RecordsTyped, WorkerTyped, ServerTyped, Held, PlannedRevisions,
           BatchIsUnsettled, [Next]_vars PROVE BatchIsUnsettled'
BY BatchStep, InHandStep DEF BatchIsUnsettled

\* A registry that is up to date stays so until somebody pauses or resumes the channel.
LEMMA RegistryStep ==
    ASSUME RowsTyped, RecordsTyped, WorkerTyped, ServerTyped, Held, RegistryIsFresh, [Next]_vars
    PROVE  RegistryIsFresh'
<1> USE DEF RegistryIsFresh, Held, AtJob, durable, worker, server, bounds, vars
<1>1. CASE Gate
  BY <1>1 DEF Gate, NextJob, Settle, NextJob, PastGate
<1>2. CASE Examine
  <2>1. UNCHANGED <<boot, reloading, stale, cache, status>>
    BY <1>2 DEF Examine
  <2>2. cur # Idle
    BY <1>2, JobFacts DEF Examine
  <2>3. QED
    BY <2>1, <2>2
<1>3. CASE Claim
  <2>1. UNCHANGED <<boot, reloading, stale, cache, status>>
    BY <1>3 DEF Claim
  <2>2. cur # Idle
    BY <1>3, JobFacts DEF Claim
  <2>3. QED
    BY <2>1, <2>2
<1>4. ASSUME NEW err \in Errors, Refuse(err)
      PROVE  RegistryIsFresh'
  <2>1. UNCHANGED <<boot, reloading, stale, cache, status>>
    BY <1>4 DEF Refuse
  <2>2. cur # Idle
    BY <1>4, JobFacts DEF Refuse
  <2>3. QED
    BY <2>1, <2>2
<1>5. CASE AnswerLost
  <2>1. UNCHANGED <<boot, reloading, stale, cache, status>>
    BY <1>5 DEF AnswerLost
  <2>2. cur # Idle
    BY <1>5, JobFacts DEF AnswerLost
  <2>3. QED
    BY <2>1, <2>2
<1>6. CASE Deliver
  <2>1. UNCHANGED <<boot, reloading, stale, status>> /\ (cache' = cache \/ cache' = "active")
    BY <1>6 DEF Deliver
  <2>2. cur # Idle /\ cur' = Idle
    BY <1>6, JobFacts DEF Deliver, NextJob
  <2>3. QED
    BY <2>1, <2>2
<1>7. CASE FailGone
  <2>1. UNCHANGED <<boot, reloading, stale, cache, status>>
    BY <1>7 DEF FailGone
  <2>2. cur # Idle
    BY <1>7, JobFacts DEF FailGone
  <2>3. QED
    BY <2>1, <2>2
<1>8. CASE Fail
  <2>1. UNCHANGED <<boot, reloading, stale, status>> /\ (cache' = cache \/ cache' = "active")
    BY <1>8 DEF Fail
  <2>2. cur # Idle /\ (cur' = Idle \/ cur' = cur)
    BY <1>8, JobFacts DEF Fail, NextJob
  <2>3. QED
    BY <2>1, <2>2
<1>9. CASE Break
  BY <1>9 DEF Break, NextJob, NextJob, PastGate
<1>10. CASE Fault
  <2>1. UNCHANGED <<boot, reloading, stale, cache, status>>
    BY <1>10 DEF Fault
  <2>2. cur # Idle
    BY <1>10, JobFacts DEF Fault
  <2>3. QED
    BY <2>1, <2>2
<1>11. CASE Pause
  BY <1>11 DEF Pause, Operate, NextJob, PastGate
<1>12. CASE Resume
  BY <1>12 DEF Resume, Operate, NextJob, PastGate
<1>13. CASE Reload
  BY <1>13 DEF Reload, NextJob, PastGate
<1>14. CASE Crash
  BY <1>14 DEF Crash, NextJob, PastGate
<1>15. CASE Restart
  BY <1>15 DEF Restart, NextJob, PastGate
<1>16. CASE (\E n \in Notes : Plan(n)) \/ Commit \/ Sweep \/ ReadBacklog \/ Collapse
          \/ Due \/ Loop \/ Return
  <2>1. UNCHANGED <<reloading, stale, cache, status, cur>> /\ (boot' = "down" <=> boot = "down")
    BY <1>16 DEF Plan, Commit, Tick, Sweep, ReadBacklog, Collapse, Due, Loop, Return, Tick
  <2>2. QED
    BY <2>1
<1>17. CASE Supersede \/ Accept \/ Timer \/ (\E j \in Job : BackoffPasses(j))
          \/ (\E n \in Notes : SpacingPasses(n)) \/ (\E n \in Notes : MessageExpires(n))
          \/ (\E n \in Notes : DeletedInChat(n)) \/ UNCHANGED vars
  <2>1. UNCHANGED <<reloading, stale, cache, status, cur>> /\ (boot' = "down" <=> boot = "down")
    BY <1>17 DEF Supersede, Accept, Timer, Tick, BackoffPasses, SpacingPasses, MessageExpires,
     DeletedInChat, Tick
  <2>2. QED
    BY <2>1
<1>18. CASE Start \/ Recover
  <2>1. UNCHANGED <<reloading, stale, cache, status, cur>> /\ (boot' = "down" <=> boot = "down")
    BY <1>18 DEF Start, Recover, Tick, Tick
  <2>2. QED
    BY <2>1
<1>19. QED
  BY <1>1, <1>2, <1>3, <1>4, <1>5, <1>6, <1>7, <1>8, <1>9, <1>10, <1>11, <1>12, <1>13,
     <1>14, <1>15, <1>16, <1>17, <1>18
  DEF Next, Work

\* The count of an active channel stays below the threshold, but where the breaker is about to open.
LEMMA BreakerStep ==
    ASSUME RowsTyped, RecordsTyped, WorkerTyped, ServerTyped, Held, BreakerOpens, [Next]_vars
    PROVE  BreakerOpens'
<1> USE DEF BreakerOpens, ServerTyped, durable, worker, server, bounds, vars
<1>1. CASE Deliver
  BY <1>1, BoundsAssumption DEF Deliver, NextJob, NextJob, Operate
<1>2. CASE Fail
  <2>1. UNCHANGED <<status, crashes, faults>>
    BY <1>2 DEF Fail
  <2>2. \/ fails' = fails /\ pc = "failing"
        \/ fails' = fails + 1 /\ fails + 1 >= BreakerThreshold /\ pc' = "breaking"
        \/ fails' = fails + 1 /\ ~(fails + 1 >= BreakerThreshold)
    BY <1>2 DEF Fail, Trips
  <2>3. QED
    BY <2>1, <2>2
<1>3. CASE Break
  BY <1>3, BoundsAssumption DEF Break, NextJob, NextJob, Operate
<1>4. CASE Fault
  BY <1>4, BoundsAssumption DEF Fault, NextJob, NextJob, Operate
<1>5. CASE Pause
  BY <1>5, BoundsAssumption DEF Pause, Operate, NextJob, Operate
<1>6. CASE Resume
  BY <1>6, BoundsAssumption DEF Resume, Operate, NextJob, Operate
<1>7. CASE Crash
  BY <1>7, BoundsAssumption DEF Crash, NextJob, Operate
<1>8. CASE (\E n \in Notes : Plan(n)) \/ Commit \/ Sweep \/ ReadBacklog \/ Collapse
          \/ Due \/ Loop \/ Return \/ Gate \/ Examine \/ Claim \/ Supersede \/ Accept
          \/ (\E err \in Errors : Refuse(err)) \/ AnswerLost \/ FailGone \/ Reload \/ Timer
          \/ Restart \/ Start \/ Recover \/ (\E j \in Job : BackoffPasses(j))
          \/ (\E n \in Notes : SpacingPasses(n)) \/ (\E n \in Notes : MessageExpires(n))
          \/ (\E n \in Notes : DeletedInChat(n)) \/ UNCHANGED vars
  <2>1. UNCHANGED <<status, fails, crashes, faults>> /\ (pc = "breaking" => pc' = "breaking")
    BY <1>8 DEF Plan, Commit, Tick, Sweep, ReadBacklog, Collapse, Due, Loop, Return, Gate,
       NextJob,
     Settle, Examine, NextJob, Settle, Claim, NextJob, Supersede, Accept, Refuse,
     AnswerLost, FailGone, NextJob, Reload, Timer, Tick, Restart, Start, Recover, Tick,
     BackoffPasses, SpacingPasses, MessageExpires, DeletedInChat
  <2>2. QED
    BY <2>1
<1>9. QED
  BY <1>1, <1>2, <1>3, <1>4, <1>5, <1>6, <1>7, <1>8
  DEF Next, Work

\* A row is free unless the worker has claimed it.
Taken(j) == pc \in Claimed /\ cur.job = j
Limit == MaxAttempts + crashes + faults

\* At least one attempt is allowed.
LEMMA LimitIsPositive == ASSUME ServerTyped PROVE Limit \in Nat \ {0}
BY BoundsAssumption DEF ServerTyped, Limit

\* What a step does to the attempts of a row, when neither the limit nor the claim is lost.
AttemptsKept(j) ==
    /\ row'[j].attempts \in {0, row[j].attempts}
    /\ row'[j].st \in Open \cup {"sending"} /\ ~Taken(j)' =>
         row'[j].attempts = 0 \/ (row[j].st \in Open \cup {"sending"} /\ ~Taken(j))

\* It preserves the bound.
LEMMA AttemptsKeptSuffices ==
    ASSUME RowsTyped, ServerTyped, AttemptsLeft, Limit' = Limit,
           \A j \in Job : AttemptsKept(j)
    PROVE  AttemptsLeft'
<1>1. Limit \in Nat \ {0} /\ \A j \in Job : row[j].attempts \in Nat
  BY LimitIsPositive, RowFacts DEF RowsTyped
<1>2. \A j \in Job :
        /\ row[j].attempts <= Limit
        /\ row[j].st \in Open \cup {"sending"} /\ ~Taken(j) => row[j].attempts < Limit
  BY DEF AttemptsLeft, Limit, Taken
<1>3. ASSUME NEW j \in Job
      PROVE  /\ row'[j].attempts <= Limit'
             /\ row'[j].st \in Open \cup {"sending"} /\ ~Taken(j)' => row'[j].attempts < Limit'
  BY <1>1, <1>2 DEF AttemptsKept
<1>4. QED
  BY <1>3 DEF AttemptsLeft, Limit, Taken

\* The attempts of a row stay bounded.
LEMMA AttemptsStep ==
    ASSUME RowsTyped, RecordsTyped, WorkerTyped, ServerTyped, Held, PlannedRevisions,
           BatchIsUnsettled, AttemptsLeft, [Next]_vars PROVE AttemptsLeft'
<1> USE DEF AttemptsLeft, Claimed, Held, AtJob, durable, worker, server, bounds, vars
<1>1. CASE Commit
  <2>1. \A i \in Job : row'[i] = row[i] \/ row'[i].attempts = 0
    BY <1>1, RowMoves DEF Becomes, Same
  <2>2. (pc' \in Claimed <=> pc \in Claimed) /\ cur' = cur /\ Limit' = Limit
    BY <1>1 DEF Commit, Tick, Limit
  <2>3. \A i \in Job : AttemptsKept(i)
    BY <2>1, <2>2 DEF AttemptsKept, Taken, Open
  <2>4. QED
    BY <2>2, <2>3, AttemptsKeptSuffices
<1>2. CASE Sweep
  <2>1. \A i \in Job : row'[i] = row[i] \/ row'[i].attempts = 0
    BY <1>2, RowMoves DEF Becomes, Same
  <2>2. pc \notin Claimed /\ Limit' = Limit
    BY <1>2 DEF Sweep, Limit
  <2>3. \A i \in Job : AttemptsKept(i)
    BY <2>1, <2>2 DEF AttemptsKept, Taken, Open
  <2>4. QED
    BY <2>2, <2>3, AttemptsKeptSuffices
<1>3. CASE Collapse
  <2>1. \A i \in Job :
          /\ row'[i].attempts = row[i].attempts
          /\ row'[i].st = row[i].st \/ row'[i].st = "superseded"
    BY <1>3, RowMoves DEF Becomes
  <2>2. pc \notin Claimed /\ Limit' = Limit
    BY <1>3 DEF Collapse, Limit
  <2>3. \A i \in Job : AttemptsKept(i)
    BY <2>1, <2>2 DEF AttemptsKept, Taken, Open
  <2>4. QED
    BY <2>2, <2>3, AttemptsKeptSuffices
<1>4. CASE Gate
  <2>1. \A i \in Job : AttemptsKept(i)
    BY <1>4, RowMoves DEF Gate, NextJob, Settle, Open, Becomes, Same, AttemptsKept, Taken
  <2>2. Limit' = Limit
    BY <1>4 DEF Limit, Gate, NextJob, Settle
  <2>3. QED
    BY <2>1, <2>2, AttemptsKeptSuffices
<1>5. CASE Examine
  <2>1. \A i \in Job : 
          \/ row'[i] = row[i]
          \/ row'[i].attempts = row[i].attempts /\ row'[i].st = row[i].st
          \/ /\ row'[i].attempts = row[i].attempts
             /\ row'[i].st \in {"superseded", "suppressed", "dead"}
    BY <1>5, RowMoves DEF Becomes, Same
  <2>2. pc \notin Claimed /\ Limit' = Limit
    BY <1>5 DEF Examine, Limit
  <2>3. \A i \in Job : AttemptsKept(i)
    BY <2>1, <2>2 DEF AttemptsKept, Taken, Open
  <2>4. QED
    BY <2>2, <2>3, AttemptsKeptSuffices
<1>6. CASE Claim
  <2>1. cur.job \in Job /\ pc = "claiming"
    BY <1>6 DEF Claim
  <2>2. Limit' = Limit /\ Limit \in Nat /\ row[cur.job].attempts \in Nat
    BY <1>6, <2>1, LimitIsPositive, RowFacts DEF Limit, Claim, RowsTyped
  <2>3. CASE row[cur.job].st \in Open
    <3>1. row'[cur.job].attempts = row[cur.job].attempts + 1 /\ cur' = cur /\ pc' \in Claimed
      BY <1>6, <2>3, RowMoves DEF Claim
    <3>2. \A j \in Job : j # cur.job => row'[j] = row[j]
      BY <1>6, RowMoves
    <3>3. row[cur.job].attempts < Limit
      BY <2>1, <2>3 DEF Limit
    <3>4. \A j \in Job :
            /\ row[j].attempts <= Limit
            /\ row[j].st \in Open \cup {"sending"} => row[j].attempts < Limit
      BY <2>1 DEF Limit
    <3>5. ASSUME NEW j \in Job
          PROVE  /\ row'[j].attempts <= Limit'
                 /\ row'[j].st \in Open \cup {"sending"} /\ ~Taken(j)' => row'[j].attempts < Limit'
      BY <2>1, <2>2, <3>1, <3>2, <3>3, <3>4 DEF Taken
    <3>6. QED
      BY <3>5 DEF Limit, Taken
  <2>4. CASE row[cur.job].st \notin Open
    <3>1. row' = row
      BY <1>6, <2>4, RowMoves
    <3>2. \A j \in Job : AttemptsKept(j)
      BY <2>1, <3>1 DEF AttemptsKept, Taken
    <3>3. QED
      BY <2>2, <3>2, AttemptsKeptSuffices
  <2>5. QED
    BY <2>3, <2>4
<1>7. CASE Supersede
  <2>1. \A i \in Job : AttemptsKept(i)
    BY <1>7, RowMoves DEF Supersede, Open, Becomes, Same, AttemptsKept, Taken
  <2>2. Limit' = Limit
    BY <1>7 DEF Limit, Supersede
  <2>3. QED
    BY <2>1, <2>2, AttemptsKeptSuffices
<1>8. CASE Accept
  <2>1. row' = row /\ pc \in Claimed /\ pc' \in Claimed /\ cur'.job = cur.job /\ Limit' = Limit
    <3>1. row' = row /\ pc \in Claimed /\ pc' \in Claimed /\ UNCHANGED <<crashes, faults>>
      BY <1>8 DEF Accept, durable
    <3>2. cur'.job = cur.job
      <4>1. cur \in CurType /\ (cur' = cur \/ \E e \in Errors : cur' = [cur EXCEPT !.err = e])
        BY <1>8 DEF Accept, WorkerTyped, Errors
      <4>2. QED
        BY <4>1, ErrorKeepsJob
    <3>3. QED
      BY <3>1, <3>2 DEF Limit
  <2>2. \A j \in Job : AttemptsKept(j)
    BY <2>1 DEF AttemptsKept, Taken
  <2>3. QED
    BY <2>1, <2>2, AttemptsKeptSuffices
<1>9. ASSUME NEW err \in Errors, Refuse(err)
      PROVE  AttemptsLeft'
  <2>1. row' = row /\ pc \in Claimed /\ pc' \in Claimed /\ cur'.job = cur.job /\ Limit' = Limit
    <3>1. row' = row /\ pc \in Claimed /\ pc' \in Claimed /\ UNCHANGED <<crashes, faults>>
      BY <1>9 DEF Refuse, durable
    <3>2. cur'.job = cur.job
      <4>1. cur \in CurType /\ (cur' = cur \/ \E e \in Errors : cur' = [cur EXCEPT !.err = e])
        BY <1>9 DEF Refuse, WorkerTyped, Errors
      <4>2. QED
        BY <4>1, ErrorKeepsJob
    <3>3. QED
      BY <3>1, <3>2 DEF Limit
  <2>2. \A j \in Job : AttemptsKept(j)
    BY <2>1 DEF AttemptsKept, Taken
  <2>3. QED
    BY <2>1, <2>2, AttemptsKeptSuffices
<1>10. CASE AnswerLost
  <2>1. row' = row /\ pc \in Claimed /\ pc' \in Claimed /\ cur'.job = cur.job /\ Limit' = Limit
    <3>1. row' = row /\ pc \in Claimed /\ pc' \in Claimed /\ UNCHANGED <<crashes, faults>>
      BY <1>10 DEF AnswerLost, durable
    <3>2. cur'.job = cur.job
      <4>1. cur \in CurType /\ (cur' = cur \/ \E e \in Errors : cur' = [cur EXCEPT !.err = e])
        BY <1>10 DEF AnswerLost, WorkerTyped, Errors
      <4>2. QED
        BY <4>1, ErrorKeepsJob
    <3>3. QED
      BY <3>1, <3>2 DEF Limit
  <2>2. \A j \in Job : AttemptsKept(j)
    BY <2>1 DEF AttemptsKept, Taken
  <2>3. QED
    BY <2>1, <2>2, AttemptsKeptSuffices
<1>11. CASE Deliver
  <2>1. \A i \in Job : IF i = cur.job
          THEN row'[i].attempts = row[i].attempts /\ row'[i].st = "sent" ELSE row'[i] = row[i]
    BY <1>11, RowMoves DEF Becomes, Same
  <2>2. pc' \notin Claimed /\ Limit' = Limit
    BY <1>11 DEF Deliver, NextJob, Limit
  <2>3. \A i \in Job : AttemptsKept(i)
    BY <2>1, <2>2 DEF AttemptsKept, Taken, Open
  <2>4. QED
    BY <2>2, <2>3, AttemptsKeptSuffices
<1>12. CASE FailGone
  <2>1. \A i \in Job : IF i = cur.job
          THEN row'[i].attempts = row[i].attempts /\ row'[i].st = "superseded"
          ELSE row'[i] = row[i]
    BY <1>12, RowMoves DEF Becomes, Same
  <2>2. pc' \notin Claimed /\ Limit' = Limit
    BY <1>12 DEF FailGone, NextJob, Limit
  <2>3. \A i \in Job : AttemptsKept(i)
    BY <2>1, <2>2 DEF AttemptsKept, Taken, Open
  <2>4. QED
    BY <2>2, <2>3, AttemptsKeptSuffices
<1>13. CASE Fail
  <2>1. cur.job \in Job
    BY <1>13 DEF Fail
  <2>2. Limit' = Limit /\ Limit \in Nat /\ MaxAttempts <= Limit
    BY <1>13, BoundsAssumption DEF Limit, Fail, ServerTyped
  <2>3. row'[cur.job].attempts = row[cur.job].attempts
        /\ (row'[cur.job].st \in Open \cup {"sending"} => row[cur.job].attempts < Limit)
    <3>1. cur.job \in Job
      BY <1>13 DEF Fail
    <3>2. row[cur.job].attempts \in Nat
      BY <3>1, RowFacts DEF RowsTyped
    <3>3. QED
      BY <1>13, <2>2, <3>1, <3>2, RowMoves, BoundsAssumption DEF Becomes, Exhausted, Open
  <2>4. pc' \notin Claimed
    BY <1>13 DEF Fail, NextJob
  <2>5. ASSUME NEW j \in Job
        PROVE  /\ row'[j].attempts <= Limit'
               /\ row'[j].st \in Open \cup {"sending"} => row'[j].attempts < Limit'
    <3>1. row[j].attempts \in Nat /\ row[j].attempts <= Limit
      BY RowFacts DEF RowsTyped, Limit
    <3>2. CASE j = cur.job
      BY <2>2, <2>3, <3>1, <3>2
    <3>3. CASE j # cur.job
      <4>1. row'[j] = row[j] /\ ~Taken(j)
        BY <1>13, <3>3, RowMoves DEF Taken
      <4>2. QED
        BY <2>2, <3>1, <4>1 DEF Taken, Limit
    <3>4. QED
      BY <3>2, <3>3
  <2>6. QED
    BY <2>4, <2>5 DEF Limit
<1>14. CASE Break
  <2>1. \A i \in Job : AttemptsKept(i)
    BY <1>14, RowMoves DEF Break, NextJob, Open, Becomes, Same, AttemptsKept, Taken
  <2>2. Limit' = Limit
    BY <1>14 DEF Limit, Break, NextJob
  <2>3. QED
    BY <2>1, <2>2, AttemptsKeptSuffices
<1>15. CASE Fault
  <2>1. row' = row /\ Limit \in Nat /\ Limit' = Limit + 1
    <3>1. row' = row /\ crashes' = crashes /\ faults' = faults + 1
      BY <1>15 DEF Fault, durable
    <3>2. QED
      BY <3>1, LimitIsPositive, BoundsAssumption DEF Limit, ServerTyped
  <2>2. \A j \in Job : row[j].attempts \in Nat /\ row[j].attempts <= Limit
    BY RowFacts DEF RowsTyped, Limit
  <2>3. \A j \in Job : row'[j].attempts <= Limit' /\ row'[j].attempts < Limit'
    BY <2>1, <2>2
  <2>4. QED
    BY <2>3 DEF Limit
<1>16. CASE Pause
  <2>1. \A i \in Job : AttemptsKept(i)
    BY <1>16, RowMoves DEF Pause, Operate, Open, Becomes, Same, AttemptsKept, Taken
  <2>2. Limit' = Limit
    BY <1>16 DEF Limit, Pause, Operate
  <2>3. QED
    BY <2>1, <2>2, AttemptsKeptSuffices
<1>17. CASE Crash
  <2>1. row' = row /\ Limit \in Nat /\ Limit' = Limit + 1
    <3>1. row' = row /\ crashes' = crashes + 1 /\ faults' = faults
      BY <1>17 DEF Crash, durable
    <3>2. QED
      BY <3>1, LimitIsPositive, BoundsAssumption DEF Limit, ServerTyped
  <2>2. \A j \in Job : row[j].attempts \in Nat /\ row[j].attempts <= Limit
    BY RowFacts DEF RowsTyped, Limit
  <2>3. \A j \in Job : row'[j].attempts <= Limit' /\ row'[j].attempts < Limit'
    BY <2>1, <2>2
  <2>4. QED
    BY <2>3 DEF Limit
<1>18. CASE Recover
  <2>1. \A i \in Job :
          /\ row'[i].attempts = row[i].attempts
          /\ row'[i].st = row[i].st \/ row[i].st = "sending"
    BY <1>18, RowMoves
  <2>2. (pc' \in Claimed <=> pc \in Claimed) /\ cur' = cur /\ Limit' = Limit
    BY <1>18 DEF Recover, Tick, Limit
  <2>3. \A i \in Job : AttemptsKept(i)
    BY <2>1, <2>2 DEF AttemptsKept, Taken
  <2>4. QED
    BY <2>2, <2>3, AttemptsKeptSuffices
<1>19. ASSUME NEW j \in Job, BackoffPasses(j)
      PROVE  AttemptsLeft'
  <2>1. \A i \in Job : Same(i)
    BY <1>19, RowMoves
  <2>2. pc' = pc /\ cur' = cur /\ Limit' = Limit
    BY <1>19 DEF BackoffPasses, Limit
  <2>3. \A i \in Job : AttemptsKept(i)
    BY <2>1, <2>2 DEF AttemptsKept, Taken, Same
  <2>4. QED
    BY <2>2, <2>3, AttemptsKeptSuffices
<1>20. CASE (\E n \in Notes : Plan(n)) \/ ReadBacklog \/ Due \/ Loop \/ Return \/ Resume
          \/ Reload \/ Timer \/ Restart \/ Start \/ (\E n \in Notes : SpacingPasses(n))
          \/ (\E n \in Notes : MessageExpires(n)) \/ (\E n \in Notes : DeletedInChat(n))
          \/ UNCHANGED vars
  <2>1. row' = row /\ Limit' = Limit
    BY <1>20, RowMoves DEF KeepsRows, Plan, ReadBacklog, Due, Loop, Return, Resume, Operate,
       Reload, Timer, Tick, Restart,
     Start, SpacingPasses, MessageExpires, DeletedInChat, Limit
  <2>2. (pc' = pc /\ cur' = cur) \/ (pc \notin Claimed /\ pc' \notin Claimed)
    BY <1>20 DEF Plan, ReadBacklog, Due, Loop, Return, Resume, Operate, Reload, Timer, Tick,
       Restart,
     Start, SpacingPasses, MessageExpires, DeletedInChat, Tick
  <2>3. \A j \in Job : AttemptsKept(j)
    BY <2>1, <2>2 DEF AttemptsKept, Taken
  <2>4. QED
    BY <2>1, <2>3, AttemptsKeptSuffices
<1>21. QED
  BY <1>1, <1>2, <1>3, <1>4, <1>5, <1>6, <1>7, <1>8, <1>9, <1>10, <1>11, <1>12, <1>13,
     <1>14, <1>15, <1>16, <1>17, <1>18, <1>19, <1>20
  DEF Next, Work

\* After the recovery, only the worker makes a row sending, and it settles it.
LEMMA SendingStep ==
    ASSUME RowsTyped, RecordsTyped, WorkerTyped, ServerTyped, Held, PlannedRevisions,
           BatchIsUnsettled, SendingIsClaimed, [Next]_vars PROVE SendingIsClaimed'
<1> USE DEF SendingIsClaimed, Claimed, durable, worker, server, bounds, vars
<1>1. CASE Commit
  <2>1. UNCHANGED <<boot, faults>>
    BY <1>1 DEF Commit, Tick
  <2>2. \A i \in Job : row'[i].st = "sending" => row[i].st = "sending"
    <3>1. prod.st \in {"pending", "suppressed"}
      BY <1>1 DEF Commit, Held
    <3>2. QED
      BY <1>1, <3>1, RowMoves
  <2>3. (pc \in Claimed => pc' \in Claimed) /\ cur' = cur
    BY <1>1 DEF Commit, Tick
  <2>4. QED
    BY <2>1, <2>2, <2>3
<1>2. CASE Sweep
  <2>1. UNCHANGED <<boot, faults>>
    BY <1>2 DEF Sweep
  <2>2. \A i \in Job : row'[i].st = "sending" => row[i].st = "sending"
    BY <1>2, RowMoves DEF Becomes, Same, Open, WorkerTyped, ServerTyped, ProdType
  <2>3. (pc \in Claimed => pc' \in Claimed) /\ cur' = cur
    BY <1>2 DEF Sweep
  <2>4. QED
    BY <2>1, <2>2, <2>3
<1>3. CASE Collapse
  <2>1. UNCHANGED <<boot, faults>>
    BY <1>3 DEF Collapse
  <2>2. \A i \in Job : row'[i].st = "sending" => row[i].st = "sending"
    BY <1>3, RowMoves DEF Becomes, Same, Open, WorkerTyped, ServerTyped, ProdType
  <2>3. (pc \in Claimed => pc' \in Claimed) /\ cur' = cur
    BY <1>3 DEF Collapse
  <2>4. QED
    BY <2>1, <2>2, <2>3
<1>4. CASE Gate
  <2>1. UNCHANGED <<boot, faults>> /\ pc \notin Claimed
    BY <1>4 DEF Gate
  <2>2. \A i \in Job : row'[i].st = "sending" => row[i].st = "sending"
    BY <1>4, RowMoves DEF Becomes, Same, Open
  <2>3. QED
    BY <2>1, <2>2
<1>5. CASE Examine
  <2>1. UNCHANGED <<boot, faults>> /\ pc \notin Claimed
    BY <1>5 DEF Examine
  <2>2. \A i \in Job : row'[i].st = "sending" => row[i].st = "sending"
    BY <1>5, RowMoves DEF Becomes, Same, Open
  <2>3. QED
    BY <2>1, <2>2
<1>6. CASE Claim
  <2>1. UNCHANGED <<boot, faults>> /\ pc \notin Claimed
    BY <1>6 DEF Claim
  <2>2. \A i \in Job : i # cur.job /\ row'[i].st = "sending" => row[i].st = "sending"
    BY <1>6, RowMoves
  <2>3. (pc' \in Claimed /\ cur' = cur) \/ row' = row
    BY <1>6 DEF Claim
  <2>4. QED
    BY <2>1, <2>2, <2>3
<1>7. CASE Supersede
  <2>1. UNCHANGED <<boot, faults>>
    BY <1>7 DEF Supersede
  <2>2. \A i \in Job : row'[i].st = "sending" => row[i].st = "sending"
    BY <1>7, RowMoves DEF Becomes, Same, Open, WorkerTyped, ServerTyped, ProdType
  <2>3. (pc \in Claimed => pc' \in Claimed) /\ cur' = cur
    BY <1>7 DEF Supersede
  <2>4. QED
    BY <2>1, <2>2, <2>3
<1>8. CASE Accept
  <2>1. UNCHANGED <<row, boot, faults>> /\ pc \in Claimed /\ pc' \in Claimed
    BY <1>8 DEF Accept
  <2>2. cur'.job = cur.job
    BY <1>8, CurFacts DEF Accept, Errors, WorkerTyped
  <2>3. QED
    BY <2>1, <2>2
<1>9. ASSUME NEW err \in Errors, Refuse(err)
      PROVE  SendingIsClaimed'
  <2>1. UNCHANGED <<row, boot, faults>> /\ pc \in Claimed /\ pc' \in Claimed
    BY <1>9 DEF Refuse
  <2>2. cur'.job = cur.job
    <3>1. cur' = [cur EXCEPT !.err = err] /\ cur \in CurType
      BY <1>9 DEF Refuse, WorkerTyped
    <3>2. QED
      BY <3>1, ErrorKeepsJob
  <2>3. QED
    BY <2>1, <2>2
<1>10. CASE AnswerLost
  <2>1. UNCHANGED <<row, boot, faults>> /\ pc \in Claimed /\ pc' \in Claimed
    BY <1>10 DEF AnswerLost
  <2>2. cur'.job = cur.job
    BY <1>10, CurFacts DEF AnswerLost, Errors, WorkerTyped
  <2>3. QED
    BY <2>1, <2>2
<1>11. CASE Deliver
  <2>1. UNCHANGED <<boot, faults>>
    BY <1>11 DEF Deliver
  <2>2. \A i \in Job : row'[i].st = "sending" => i # cur.job /\ row[i].st = "sending"
    BY <1>11, RowMoves DEF Becomes
  <2>3. QED
    BY <2>1, <2>2
<1>12. CASE FailGone
  <2>1. UNCHANGED <<boot, faults>>
    BY <1>12 DEF FailGone
  <2>2. \A i \in Job : row'[i].st = "sending" => i # cur.job /\ row[i].st = "sending"
    BY <1>12, RowMoves DEF Becomes
  <2>3. QED
    BY <2>1, <2>2
<1>13. CASE Fail
  <2>1. UNCHANGED <<boot, faults>>
    BY <1>13 DEF Fail
  <2>2. \A i \in Job : row'[i].st = "sending" => i # cur.job /\ row[i].st = "sending"
    BY <1>13, RowMoves DEF Becomes
  <2>3. QED
    BY <2>1, <2>2
<1>14. CASE Break
  <2>1. UNCHANGED <<boot, faults>> /\ pc \notin Claimed
    BY <1>14 DEF Break
  <2>2. \A i \in Job : row'[i].st = "sending" => row[i].st = "sending"
    BY <1>14, RowMoves DEF Becomes, Same, Open
  <2>3. QED
    BY <2>1, <2>2
<1>15. CASE Fault
  <2>1. faults' # 0
    <3>1. faults' = faults + 1 /\ faults \in Nat
      BY <1>15, BoundsAssumption DEF Fault, ServerTyped
    <3>2. QED
      BY <3>1
  <2>2. QED
    BY <2>1
<1>16. CASE Pause
  <2>1. UNCHANGED <<boot, faults>>
    BY <1>16 DEF Pause, Operate
  <2>2. \A i \in Job : row'[i].st = "sending" => row[i].st = "sending"
    BY <1>16, RowMoves DEF Becomes, Same, Open, WorkerTyped, ServerTyped, ProdType
  <2>3. (pc \in Claimed => pc' \in Claimed) /\ cur' = cur
    BY <1>16 DEF Pause, Operate
  <2>4. QED
    BY <2>1, <2>2, <2>3
<1>17. CASE Recover
  <2>1. \A i \in Job : row'[i].st # "sending"
    BY <1>17, RowMoves
  <2>2. QED
    BY <2>1
<1>18. ASSUME NEW j \in Job, BackoffPasses(j)
      PROVE  SendingIsClaimed'
  <2>1. UNCHANGED <<boot, faults>>
    BY <1>18 DEF BackoffPasses
  <2>2. \A i \in Job : row'[i].st = "sending" => row[i].st = "sending"
    BY <1>18, RowMoves DEF Becomes, Same, Open, WorkerTyped, ServerTyped, ProdType
  <2>3. (pc \in Claimed => pc' \in Claimed) /\ cur' = cur
    BY <1>18 DEF BackoffPasses
  <2>4. QED
    BY <2>1, <2>2, <2>3
<1>19. CASE Crash \/ Restart \/ Start
  <2>1. boot' # "up"
    BY <1>19 DEF Crash, Restart, Start
  <2>2. QED
    BY <2>1
<1>20. CASE (\E n \in Notes : Plan(n)) \/ ReadBacklog \/ Due \/ Loop \/ Return \/ Resume
          \/ Reload \/ Timer \/ (\E n \in Notes : SpacingPasses(n))
          \/ (\E n \in Notes : MessageExpires(n)) \/ (\E n \in Notes : DeletedInChat(n))
          \/ UNCHANGED vars
  <2>1. UNCHANGED <<row, boot, faults>>
    BY <1>20 DEF Plan, ReadBacklog, Due, Loop, Return, Resume, Operate, Reload, Timer, Tick,
     SpacingPasses, MessageExpires, DeletedInChat
  <2>2. (pc' \in Claimed /\ cur' = cur) \/ pc \notin Claimed
    BY <1>20 DEF Plan, ReadBacklog, Due, Loop, Return, Resume, Operate, Reload, Timer, Tick,
     SpacingPasses, MessageExpires, DeletedInChat, Tick
  <2>3. QED
    BY <2>1, <2>2
<1>21. QED
  BY <1>1, <1>2, <1>3, <1>4, <1>5, <1>6, <1>7, <1>8, <1>9, <1>10, <1>11, <1>12, <1>13,
     <1>14, <1>15, <1>16, <1>17, <1>18, <1>19, <1>20
  DEF Next, Work

\* Together they bound the claims.
LEMMA ClaimsFollow ==
    ASSUME AttemptsLeft, SendingIsClaimed PROVE ClaimsAreAccounted
BY DEF AttemptsLeft, SendingIsClaimed, ClaimsAreAccounted, AttemptsAreBounded, SendingIsInFlight

\* The job in hand after a step is the one before it, or the one the worker has just examined.
CarriesOn ==
    /\ pc' \in Examined =>
         \/ pc \in Examined /\ cur'.job = cur.job /\ cur'.rev = cur.rev
         \/ /\ pc = "reading" /\ pc' = "claiming" /\ cur'.job = cur.job
            /\ cur'.rev = note[cur.job.note].rev /\ "claim" \in Verdicts(cur.job)
    /\ pc' = "accepted" => Accept \/ pc = "accepted"

\* A job in hand stays the same, and carries the same revision, from the claim to its outcome.
LEMMA HandMoves ==
    ASSUME RecordsTyped, WorkerTyped, ServerTyped, Held, [Next]_vars PROVE CarriesOn
<1> USE DEF CarriesOn, Held, AtJob, Examined, Claimed, durable, worker, server, bounds, vars
<1>1. CASE Commit
  BY <1>1 DEF Commit, Tick
<1>2. CASE Gate
  <2>1. pc' \in {"reading", "picking"}
    BY <1>2 DEF Gate, Settle, NextJob
  <2>2. QED
    BY <2>1
<1>3. CASE Examine
  <2>1. cur.job \in Job /\ pc = "reading"
    BY <1>3 DEF Examine
  <2>2. CASE "claim" \in Verdicts(cur.job) /\ pc' = "claiming"
             /\ cur' = [cur EXCEPT !.rev = note[cur.job.note].rev, !.open = note[cur.job.note].open]
    BY <2>1, <2>2, ExaminedCur
  <2>3. CASE pc' = "picking"
    BY <2>3
  <2>4. QED
    BY <1>3, <2>1, <2>2, <2>3, ExamineCases DEF NextJob
<1>4. CASE Claim
  BY <1>4 DEF Claim, NextJob
<1>5. CASE Supersede
  BY <1>5 DEF Supersede
<1>6. CASE Accept
  BY <1>6 DEF Accept
<1>7. ASSUME NEW err \in Errors, Refuse(err)
      PROVE  CarriesOn
  <2>1. cur'.job = cur.job /\ cur'.rev = cur.rev
    BY <1>7, CurFacts DEF Refuse, WorkerTyped
  <2>2. pc \in Examined /\ pc' # "accepted"
    BY <1>7 DEF Refuse
  <2>3. QED
    BY <2>1, <2>2
<1>8. CASE AnswerLost
  <2>1. cur'.job = cur.job /\ cur'.rev = cur.rev
    BY <1>8, CurFacts DEF AnswerLost, WorkerTyped, Errors
  <2>2. pc \in Examined /\ pc' # "accepted"
    BY <1>8 DEF AnswerLost
  <2>3. QED
    BY <2>1, <2>2
<1>9. CASE Timer
  BY <1>9 DEF Timer, Tick
<1>10. CASE Recover
  BY <1>10 DEF Recover, Tick
<1>11. CASE Sweep \/ ReadBacklog \/ Collapse \/ Due \/ Loop \/ Return \/ Deliver
          \/ FailGone \/ Fail \/ Break \/ Fault \/ Crash
  <2>1. pc' \notin Examined
    BY <1>11 DEF Sweep, ReadBacklog, Collapse, Due, Loop, Return, Deliver, NextJob, FailGone,
     NextJob, Fail, NextJob, Break, NextJob, Fault, NextJob, Crash
  <2>2. QED
    BY <2>1
<1>12. CASE (\E n \in Notes : Plan(n)) \/ Pause \/ Resume \/ Reload \/ Restart \/ Start
          \/ (\E j \in Job : BackoffPasses(j)) \/ (\E n \in Notes : SpacingPasses(n))
          \/ (\E n \in Notes : MessageExpires(n)) \/ (\E n \in Notes : DeletedInChat(n))
          \/ UNCHANGED vars
  <2>1. UNCHANGED <<pc, cur>>
    BY <1>12 DEF Plan, Pause, Operate, Resume, Operate, Reload, Restart, Start, BackoffPasses,
     SpacingPasses, MessageExpires, DeletedInChat
  <2>2. QED
    BY <2>1
<1>13. QED
  BY <1>1, <1>2, <1>3, <1>4, <1>5, <1>6, <1>7, <1>8, <1>9, <1>10, <1>11, <1>12
  DEF Next, Work

\* No step takes the record past what the chat shows, nor past what the message in hand carries.
LEMMA RecordsAreBehindStep ==
    ASSUME RecordsTyped, WorkerTyped, ServerTyped, Held, RecordsAreBehind, RecordsTyped',
           [Next]_vars
    PROVE  RecordsAreBehind'
<1>1. /\ \A n \in Notes :
           /\ note[n].rev \in Nat /\ cm[n].rev \in Nat /\ chat[n].shown \in Nat
           /\ note'[n].rev \in Nat /\ cm'[n].rev \in Nat /\ chat'[n].shown \in Nat
      /\ cur.rev \in Nat /\ cur.job \in Job \cup {Nothing}
  <2>1. MaxRev \in Nat
    BY JobFacts
  <2>2. \A c \in CurType : c.rev \in Nat /\ c.job \in Job \cup {Nothing}
    BY <2>1 DEF CurType
  <2>3. /\ \A x \in NoteType : x.rev \in Nat
        /\ \A m \in MessageType : m.rev \in Nat
        /\ \A c \in ChatType : c.shown \in Nat
    BY <2>1 DEF NoteType, MessageType, ChatType
  <2>4. QED
    BY <2>2, <2>3 DEF RecordsTyped, WorkerTyped
<1>2. CarriesOn
  BY HandMoves
<1>3. pc \in Examined => cur.job \in Job /\ cur.job.note \in Notes
  BY JobFacts DEF Examined, Claimed, Held, AtJob
<1>4. \A n \in Notes : note[n].rev <= note'[n].rev
  BY <1>1, RecordMoves
<1>5. CASE Deliver
  <2>1. pc = "accepted" /\ pc' = "picking" /\ note' = note /\ chat' = chat
    BY <1>5 DEF Deliver, NextJob, durable
  <2>2. \A n \in Notes : cm'[n].rev <= note'[n].rev
                         /\ (cm'[n].rev > 0 => cm'[n].rev <= chat'[n].shown)
    <3> SUFFICES ASSUME NEW n \in Notes
                 PROVE  cm'[n].rev <= note'[n].rev
                        /\ (cm'[n].rev > 0 => cm'[n].rev <= chat'[n].shown)
      OBVIOUS
    <3>1. CASE n = cur.job.note /\ cur.job.op # "delete"
      <4>1. cm'[n].rev = cur.rev
        BY <1>5, <3>1, RecordMoves
      <4>2. QED
        BY <1>1, <2>1, <3>1, <4>1 DEF RecordsAreBehind, Examined, Claimed
    <3>2. CASE ~(n = cur.job.note /\ cur.job.op # "delete")
      <4>1. cm'[n].rev = cm[n].rev
        BY <1>5, <3>2, RecordMoves
      <4>2. QED
        BY <1>1, <2>1, <4>1 DEF RecordsAreBehind, RecordMatchesChat
    <3>3. QED
      BY <3>1, <3>2
  <2>3. QED
    BY <2>1, <2>2 DEF RecordsAreBehind, RecordMatchesChat, Examined, Claimed
<1>6. CASE ~Deliver
  <2>1. \A n \in Notes : cm'[n].rev = cm[n].rev
    BY <1>6, RecordMoves DEF Recording
  <2>2. \A n \in Notes : cm'[n].rev <= note'[n].rev
    BY <1>1, <1>4, <2>1 DEF RecordsAreBehind
  <2>3. pc' \in Examined =>
          cm'[cur'.job.note].rev <= cur'.rev /\ cur'.rev <= note'[cur'.job.note].rev
    <3>1. CASE pc \in Examined /\ cur'.job = cur.job /\ cur'.rev = cur.rev
      BY <1>1, <1>3, <1>4, <2>1, <3>1 DEF RecordsAreBehind
    <3>2. CASE pc = "reading" /\ cur'.job = cur.job /\ cur'.rev = note[cur.job.note].rev
      <4>1. cur.job.note \in Notes
        BY <3>2, JobFacts DEF Held, AtJob
      <4>2. QED
        BY <1>1, <1>4, <2>1, <3>2, <4>1 DEF RecordsAreBehind
    <3>3. QED
      BY <1>2, <3>1, <3>2 DEF CarriesOn
  <2>4. CASE Accept
    <3>1. pc = "calling" /\ pc' = "accepted" /\ cur' = cur /\ cm' = cm /\ cur.job.note \in Notes
      BY <1>3, <2>4 DEF Accept, durable, Examined, Claimed
    <3>2. cur.job.op # "delete" => chat'[cur.job.note].shown = cur.rev
      BY <2>4, <3>1, RecordMoves
    <3>3. ASSUME NEW n \in Notes, cm'[n].rev > 0 PROVE cm'[n].rev <= chat'[n].shown
      <4>1. CASE n = cur.job.note /\ cur.job.op # "delete"
        BY <1>1, <3>1, <3>2, <4>1 DEF RecordsAreBehind, Examined, Claimed
      <4>2. CASE ~(n = cur.job.note /\ cur.job.op # "delete")
        <5>1. chat'[n].shown = chat[n].shown
          BY <2>4, <4>2, RecordMoves
        <5>2. QED
          BY <3>1, <3>3, <5>1 DEF RecordsAreBehind, RecordMatchesChat
      <4>3. QED
        BY <4>1, <4>2
    <3>4. QED
      BY <2>2, <2>3, <3>1, <3>2, <3>3 DEF RecordsAreBehind, RecordMatchesChat
  <2>5. CASE ~Accept
    <3>1. \A n \in Notes : chat'[n].shown = chat[n].shown
      BY <2>5, RecordMoves DEF Showing
    <3>2. \A n \in Notes : cm'[n].rev > 0 => cm'[n].rev <= chat'[n].shown
      BY <2>1, <3>1 DEF RecordsAreBehind, RecordMatchesChat
    <3>3. pc' = "accepted" /\ cur'.job.op # "delete" => chat'[cur'.job.note].shown = cur'.rev
      <4>1. pc' = "accepted" => pc = "accepted" /\ cur'.job = cur.job /\ cur'.rev = cur.rev
        BY <1>2, <2>5 DEF CarriesOn, Examined, Claimed
      <4>2. QED
        BY <1>3, <3>1, <4>1 DEF RecordsAreBehind, Examined, Claimed
    <3>4. QED
      BY <2>2, <2>3, <3>2, <3>3 DEF RecordsAreBehind, RecordMatchesChat
  <2>6. QED
    BY <2>4, <2>5
<1>7. QED
  BY <1>5, <1>6

\* A row still owes its state after a step; process() finds a row covered by the record.
OwesAfter(j) ==
    \/ row'[j].st \in Open \cup {"sending", "dead", "suppressed"}
    \/ row'[j].reason \in {"collapsed", "gone"}
Settled(j) == Examine /\ j = cur.job /\ "superseded" \in Verdicts(j)

\* A row goes on owing its state, unless process() finds it covered, a later message covers it,
\* or it is delivered.
LEMMA OwesKept ==
    ASSUME RowsTyped, RecordsTyped, WorkerTyped, ServerTyped, Held, [Next]_vars,
           NEW j \in Job, j.op # "delete", Owes(j)
    PROVE  \/ OwesAfter(j)
           \/ Settled(j)
           \/ Supersede /\ Covered(j)
           \/ Deliver /\ j = cur.job
<1> USE DEF Owes, OwesAfter
<1>1. CASE KeepsRows
  BY <1>1, RowMoves
<1>2. CASE Commit
  <2>1. prod.st \in {"pending", "suppressed"}
    BY <1>2 DEF Commit, Held
  <2>2. row'[j] = row[j] \/ row'[j].st = prod.st
    BY <1>2, RowMoves
  <2>3. QED
    BY <2>1, <2>2 DEF Open
<1>3. CASE Sweep
  BY <1>3, RowMoves
<1>4. CASE Collapse
  BY <1>4, RowMoves DEF Becomes
<1>5. CASE Gate
  BY <1>5, RowMoves DEF Becomes
<1>6. CASE Examine
  BY <1>6, RowMoves DEF Becomes, Same, Settled
<1>7. CASE Claim
  BY <1>7, RowMoves
<1>8. CASE Supersede
  BY <1>8, RowMoves
<1>9. CASE Deliver
  BY <1>9, RowMoves
<1>10. CASE FailGone
  BY <1>10, RowMoves DEF Becomes
<1>11. CASE Fail
  BY <1>11, RowMoves DEF Becomes, Open
<1>12. CASE Break \/ Pause
  BY <1>12, RowMoves DEF Becomes
<1>13. CASE Recover
  BY <1>13, RowMoves DEF Open
<1>14. CASE \E k \in Job : BackoffPasses(k)
  BY <1>14, RowMoves DEF Same
<1>15. QED
  BY <1>1, <1>2, <1>3, <1>4, <1>5, <1>6, <1>7, <1>8, <1>9, <1>10, <1>11, <1>12, <1>13, <1>14
  DEF Next, Work, KeepsRows

\* The row of a new revision owes it.
LEMMA CommitOwes ==
    ASSUME RowsTyped, RecordsTyped, WorkerTyped, ServerTyped, Held, PlannedRevisions, Commit
    PROVE  /\ prod.note \in Notes /\ note[prod.note].rev + 1 \in Revs
           /\ note'[prod.note].rev = note[prod.note].rev + 1
           /\ OwesAfter(JobOf(prod.note, note[prod.note].rev + 1))
<1>1. /\ prod.note \in Notes /\ note[prod.note].rev + 1 \in Revs
      /\ JobOf(prod.note, note[prod.note].rev + 1) \in Job
  BY PlannedIsAbsent DEF Commit
<1>2. note'[prod.note].rev = note[prod.note].rev + 1
  BY <1>1, RecordMoves
<1>3. row'[JobOf(prod.note, note[prod.note].rev + 1)].st = prod.st
  BY <1>1, RowMoves
<1>4. prod.st \in {"pending", "suppressed"}
  BY DEF Commit, Held
<1>5. QED
  BY <1>1, <1>2, <1>3, <1>4 DEF OwesAfter, Open

\* What "superseded" and "claim" say of the record that process() read.
LEMMA VerdictFacts ==
    ASSUME NEW j \in Job
    PROVE  /\ j.op = "send" /\ "superseded" \in Verdicts(j) => cm[j.note].rev >= note[j.note].rev
           /\ j.op = "edit" /\ "superseded" \in Verdicts(j) =>
                \/ cm[j.note].rev = 0 \/ cm[j.note].deleted
                \/ cm[j.note].rev >= note[j.note].rev
           /\ j.op = "edit" /\ "claim" \in Verdicts(j) => cm[j.note].rev # 0
<1>1. CASE j.op = "send"
  <2>1. Verdicts(j) = {SendVerdict(j.note)}
    BY <1>1 DEF Verdicts
  <2>2. QED
    BY <1>1, <2>1 DEF SendVerdict
<1>2. CASE j.op = "edit"
  <2>1. Verdicts(j) = {EditVerdict(j.note)}
    BY <1>2 DEF Verdicts
  <2>2. QED
    BY <1>2, <2>1 DEF EditVerdict
<1>3. QED
  BY <1>1, <1>2

\* Records only grow.
LEMMA RecordsGrow ==
    ASSUME RecordsTyped, WorkerTyped, ServerTyped, Held, RecordsAreBehind, [Next]_vars
    PROVE  /\ \A n \in Notes : note'[n].rev >= note[n].rev /\ cm'[n].rev >= cm[n].rev
           /\ ~Commit => note' = note
<1>1. cur.rev \in Nat /\ \A n \in Notes : note[n].rev \in Nat /\ cm[n].rev \in Nat
  <2>1. \A c \in CurType : c.rev \in Nat
    BY JobFacts DEF CurType
  <2>2. QED
    BY <2>1, RevisionFacts DEF WorkerTyped
<1>2. ~Commit => note' = note
  BY RecordMoves
<1>3. ASSUME NEW n \in Notes PROVE note'[n].rev >= note[n].rev
  BY <1>1, RecordMoves
<1>4. ASSUME NEW n \in Notes PROVE cm'[n].rev >= cm[n].rev
  <2>1. CASE Deliver
    <3>1. pc = "accepted"
      BY <2>1 DEF Deliver
    <3>2. n = cur.job.note => cm[n].rev <= cur.rev
      BY <3>1 DEF RecordsAreBehind, Examined, Claimed
    <3>3. QED
      BY <1>1, <2>1, <3>2, RecordMoves
  <2>2. CASE ~Deliver
    <3>1. cm'[n].rev = cm[n].rev
      BY <2>2, RecordMoves DEF Recording
    <3>2. QED
      BY <1>1, <3>1
  <2>3. QED
    BY <2>1, <2>2
<1>5. QED
  BY <1>2, <1>3, <1>4

\* What was never sent goes on being owed by its send.
LEMMA FirstIsOwedStep ==
    ASSUME RowsTyped, RecordsTyped, WorkerTyped, ServerTyped, Held, PlannedRevisions,
           RecordsAreBehind, OwedByRows, [Next]_vars, NEW n \in Notes,
           note'[n].rev > 0, cm'[n].rev = 0
    PROVE  OwesAfter(JobOf(n, 1))
<1>1. /\ JobOf(n, 1) \in Job /\ JobOf(n, 1).note = n /\ JobOf(n, 1).rev = 1
      /\ JobOf(n, 1).op = "send" /\ JobOf(n, 1).op # "delete"
  BY JobFacts DEF JobOf
<1>2. note[n].rev \in Nat /\ cm[n].rev = 0
  <2>1. note[n].rev \in Nat /\ cm[n].rev \in Nat /\ cm'[n].rev >= cm[n].rev
    BY RevisionFacts, RecordsGrow
  <2>2. QED
    BY <2>1
<1>3. CASE note[n].rev = 0
  <2>1. Commit /\ prod.note = n
    <3>1. Commit
      BY <1>3, RecordsGrow
    <3>2. QED
      BY <1>3, <3>1, RecordMoves
  <2>2. QED
    BY <1>3, <2>1, CommitOwes
<1>4. CASE note[n].rev > 0
  <2>1. Owes(JobOf(n, 1))
    BY <1>2, <1>4 DEF OwedByRows
  <2>2. ~Settled(JobOf(n, 1))
    BY <1>1, <1>2, <1>4, VerdictFacts DEF Settled
  <2>3. ~(Supersede /\ Covered(JobOf(n, 1)))
    <3> SUFFICES ASSUME Supersede, Covered(JobOf(n, 1)) PROVE FALSE
      OBVIOUS
    <3>1. cur.job \in Job /\ cur.job.note = n /\ cur.job # JobOf(n, 1) /\ cur.job.op # "delete"
      BY <1>1 DEF Supersede, Covered, Held, AtJob
    <3>2. cur.job.op = "edit"
      BY <1>1, <3>1, JobFacts
    <3>3. pc \in Examined
      BY DEF Supersede, Examined, Claimed
    <3>4. QED
      BY <1>2, <3>1, <3>2, <3>3 DEF OwedByRows
  <2>4. ~(Deliver /\ JobOf(n, 1) = cur.job)
    <3> SUFFICES ASSUME Deliver, JobOf(n, 1) = cur.job PROVE FALSE
      OBVIOUS
    <3>1. cur.rev \in Nat /\ cur.job.rev <= cur.rev
      <4>1. pc \in Examined
        BY DEF Deliver, Examined, Claimed
      <4>2. \A c \in CurType : c.rev \in Nat
        BY JobFacts DEF CurType
      <4>3. QED
        BY <1>1, <4>1, <4>2 DEF OwedByRows, WorkerTyped
    <3>2. cm'[n].rev = cur.rev
      BY <1>1, RecordMoves
    <3>3. QED
      BY <1>1, <3>1, <3>2
  <2>5. QED
    BY <1>1, <2>1, <2>2, <2>3, <2>4, OwesKept
<1>5. QED
  BY <1>2, <1>3, <1>4

\* What arrived while a message is on its way goes on being owed by its own row.
LEMMA LaterIsOwedStep ==
    ASSUME RowsTyped, RecordsTyped, WorkerTyped, ServerTyped, Held, PlannedRevisions,
           RecordsAreBehind, OwedByRows, [Next]_vars,
           pc \in Examined, cur.job \in Job, cur.rev < note'[cur.job.note].rev,
           ~(Deliver /\ cur.rev >= note[cur.job.note].rev)
    PROVE  OwesAfter(JobOf(cur.job.note, note'[cur.job.note].rev))
<1> DEFINE n == cur.job.note
<1>1. n \in Notes
  BY JobFacts
<1>2. cur.rev \in Nat /\ note[n].rev \in Nat /\ note[n].rev <= MaxRev /\ MaxRev \in Nat
  <2>1. \A c \in CurType : c.rev \in Nat
    BY JobFacts DEF CurType
  <2>2. QED
    BY <1>1, <2>1, RevisionFacts DEF WorkerTyped
<1>3. CASE Commit /\ prod.note = n
  BY <1>3, CommitOwes
<1>4. CASE ~(Commit /\ prod.note = n)
  <2>1. note'[n].rev = note[n].rev
    BY <1>1, <1>4, RecordMoves
  <2>2. note[n].rev \in Revs
    BY <1>2, <2>1 DEF Revs
  <2>3. /\ JobOf(n, note[n].rev) \in Job /\ JobOf(n, note[n].rev).op # "delete"
        /\ JobOf(n, note[n].rev).rev = note[n].rev
    BY <1>1, <2>2, JobFacts
  <2>4. Owes(JobOf(n, note[n].rev))
    BY <2>1 DEF OwedByRows, Latest
  <2>5. ~Settled(JobOf(n, note[n].rev))
    BY DEF Settled, Examine, Examined, Claimed
  <2>6. ~Covered(JobOf(n, note[n].rev))
    BY <1>2, <2>1, <2>3 DEF Covered
  <2>7. JobOf(n, note[n].rev) # cur.job
    <3>1. CASE cur.job.op = "delete"
      BY <2>3, <3>1
    <3>2. CASE cur.job.op # "delete"
      <4>1. cur.job.rev <= cur.rev /\ cur.job.rev \in Nat
        BY <3>2, JobFacts DEF OwedByRows
      <4>2. QED
        BY <1>2, <2>1, <2>3, <4>1
    <3>3. QED
      BY <3>1, <3>2
  <2>8. QED
    BY <2>1, <2>3, <2>4, <2>5, <2>6, <2>7, OwesKept
<1>5. QED
  BY <1>3, <1>4

\* So the rows go on owing what the record does not have.
LEMMA OwedByRowsStep ==
    ASSUME RowsTyped, RecordsTyped, WorkerTyped, ServerTyped, Held, PlannedRevisions,
           BatchIsUnsettled, RecordsAreBehind, OwedByRows, [Next]_vars
    PROVE  OwedByRows'
<1>1. \A n \in Notes : note'[n].rev > 0 /\ cm'[n].rev = 0 => OwesAfter(JobOf(n, 1))
  BY FirstIsOwedStep
<1>2. CarriesOn
  BY HandMoves
<1>3. pc \in {"reading"} \cup Examined => cur.job \in Job /\ cur.job.note \in Notes
  BY JobFacts DEF Examined, Claimed, Held, AtJob
<1>4. /\ \A n \in Notes :
           /\ note[n].rev \in Nat /\ cm[n].rev \in Nat /\ cm'[n].rev \in Nat
           /\ cm'[n].rev >= cm[n].rev /\ note'[n].rev >= note[n].rev
      /\ cur.rev \in Nat
  <2>1. \A c \in CurType : c.rev \in Nat
    BY JobFacts DEF CurType
  <2>2. cur.rev \in Nat
    BY <2>1 DEF WorkerTyped
  <2>3. ASSUME NEW n \in Notes
        PROVE  /\ note[n].rev \in Nat /\ cm[n].rev \in Nat
               /\ cm'[n].rev >= cm[n].rev /\ note'[n].rev >= note[n].rev
    BY RevisionFacts, RecordsGrow
  <2>4. ASSUME NEW n \in Notes PROVE cm'[n].rev \in Nat
    BY <2>2, <2>3, RecordMoves DEF Recording
  <2>5. QED
    BY <2>2, <2>3, <2>4
<1>5. CASE pc' \notin Examined
  BY <1>1, <1>5 DEF OwedByRows, Owes, OwesAfter
<1>6. CASE pc' \in Examined /\ pc \in Examined /\ cur'.job = cur.job /\ cur'.rev = cur.rev
  <2>1. cur.job.op = "edit" => cm'[cur.job.note].rev > 0
    <3>1. cur.job.op = "edit" => cm[cur.job.note].rev > 0
      BY <1>6 DEF OwedByRows
    <3>2. QED
      BY <1>3, <1>4, <1>6, <3>1
  <2>2. cur.job.op # "delete" => cur.job.rev <= cur.rev
    BY <1>6 DEF OwedByRows
  <2>3. ~Deliver
    BY <1>6 DEF Deliver, NextJob, Examined, Claimed
  <2>4. cur.rev < note'[cur.job.note].rev =>
          OwesAfter(JobOf(cur.job.note, note'[cur.job.note].rev))
    BY <1>3, <1>6, <2>3, LaterIsOwedStep
  <2>5. QED
    BY <1>1, <1>6, <2>1, <2>2, <2>4 DEF OwedByRows, Owes, OwesAfter, Latest
<1>7. CASE /\ pc' \in Examined
           /\ pc = "reading" /\ pc' = "claiming" /\ cur'.job = cur.job
           /\ cur'.rev = note[cur.job.note].rev /\ "claim" \in Verdicts(cur.job)
  <2>1. cur.job.op = "edit" => cm'[cur.job.note].rev > 0
    <3>1. cur.job.op = "edit" => cm[cur.job.note].rev # 0
      BY <1>3, <1>7, VerdictFacts
    <3>2. QED
      BY <1>3, <1>4, <1>7, <3>1
  <2>2. cur.job.op # "delete" => cur.job.rev <= note[cur.job.note].rev
    <3>1. row[cur.job].st # "absent"
      BY <1>7 DEF BatchIsUnsettled, InHand, Unsettled, Open
    <3>2. cur.job.rev \in Nat
      BY <1>3, <1>7, JobFacts
    <3>3. QED
      BY <1>3, <1>4, <1>7, <3>1, <3>2 DEF PlannedRevisions
  <2>3. note' = note
    <3>1. ~Commit
      BY <1>7 DEF Commit, Tick
    <3>2. QED
      BY <3>1, RecordsGrow
  <2>4. ~(note[cur.job.note].rev < note'[cur.job.note].rev)
    BY <1>3, <1>4, <1>7, <2>3
  <2>5. QED
    BY <1>1, <1>7, <2>1, <2>2, <2>4 DEF OwedByRows, Owes, OwesAfter, Latest
<1>8. QED
  BY <1>2, <1>5, <1>6, <1>7 DEF CarriesOn

\* And the latest state goes on being owed.
LEMMA LatestStateIsOwedStep ==
    ASSUME RowsTyped, RecordsTyped, WorkerTyped, ServerTyped, Held, PlannedRevisions,
           BatchIsUnsettled, RecordsAreBehind, OwedByRows, LatestStateIsOwed, [Next]_vars
    PROVE  LatestStateIsOwed'
<1> SUFFICES ASSUME NEW n \in Notes, note'[n].rev > 0
             PROVE  \/ cm'[n].rev >= note'[n].rev \/ cm'[n].deleted
                    \/ \E j \in Carriers(n) : OwesAfter(j)
  BY DEF LatestStateIsOwed, OwesAfter, Carriers
<1>1. /\ note[n].rev \in Nat /\ cm[n].rev \in Nat /\ cm'[n].rev >= cm[n].rev
      /\ cur.rev \in Nat /\ cm'[n].rev \in Nat /\ note[n].rev <= MaxRev /\ MaxRev \in Nat
  <2>1. \A c \in CurType : c.rev \in Nat
    BY JobFacts DEF CurType
  <2>2. /\ note[n].rev \in Nat /\ cm[n].rev \in Nat /\ cm'[n].rev >= cm[n].rev
        /\ note[n].rev <= MaxRev /\ MaxRev \in Nat
    BY RevisionFacts, RecordsGrow
  <2>3. cur.rev \in Nat
    BY <2>1 DEF WorkerTyped
  <2>4. cm'[n].rev \in Nat
    BY <2>2, <2>3, RecordMoves DEF Recording
  <2>5. QED
    BY <2>2, <2>3, <2>4
<1>2. \A r \in Revs : JobOf(n, r) \in Carriers(n)
  BY JobFacts DEF Carriers
<1>3. CASE Commit /\ prod.note = n
  BY <1>2, <1>3, CommitOwes
<1>4. CASE ~(Commit /\ prod.note = n)
  <2>1. note'[n].rev = note[n].rev
    BY <1>4, RecordMoves
  <2>2. note[n].rev \in Revs /\ 1 \in Revs
    BY <1>1, <2>1, JobFacts DEF Revs
  <2>3. CASE Deliver /\ cur.job.note = n /\ cur.job.op # "delete"
    <3>1. cm'[n].rev = cur.rev /\ pc \in Examined /\ cur.job \in Job
      BY <2>3, RecordMoves DEF Deliver, Held, AtJob, Examined, Claimed
    <3>2. CASE cur.rev >= note[n].rev
      BY <2>1, <3>1, <3>2
    <3>3. CASE cur.rev < note[n].rev
      <4>1. ~(Deliver /\ cur.rev >= note[cur.job.note].rev)
        BY <1>1, <2>3, <3>3
      <4>2. OwesAfter(JobOf(n, note'[n].rev))
        BY <2>1, <2>3, <3>1, <3>3, <4>1, LaterIsOwedStep
      <4>3. QED
        BY <1>2, <2>1, <2>2, <4>2
    <3>4. QED
      BY <1>1, <3>2, <3>3
  <2>4. CASE ~(Deliver /\ cur.job.note = n /\ cur.job.op # "delete")
    <3>1. CASE cm[n].rev >= note[n].rev
      BY <1>1, <2>1, <3>1
    <3>2. CASE cm'[n].rev = 0
      BY <1>2, <2>2, <3>2, FirstIsOwedStep
    <3>3. CASE cm[n].deleted /\ cm'[n].rev # 0
      <4>1. cm'[n].rev = cm[n].rev
        BY <2>4, RecordMoves DEF Recording
      <4>2. CASE FailGone /\ n = cur.job.note
        <5>1. cm[n].rev > 0
          BY <1>1, <3>3, <4>1
        <5>2. cm'[n].deleted
          BY <4>2, <5>1, RecordMoves
        <5>3. QED
          BY <5>2
      <4>3. CASE Deliver /\ n = cur.job.note
        BY <2>4, <4>3, RecordMoves
      <4>4. CASE ~(FailGone /\ n = cur.job.note) /\ ~(Deliver /\ n = cur.job.note)
        BY <3>3, <4>4, RecordMoves DEF Recording
      <4>5. QED
        BY <4>2, <4>3, <4>4
    <3>4. CASE cm'[n].rev # 0 /\ \E j \in Carriers(n) : Owes(j)
      <4>1. PICK j \in Carriers(n) : Owes(j)
        BY <3>4
      <4>2. j \in Job /\ j.note = n /\ j.op # "delete"
        BY <4>1 DEF Carriers
      <4>3. CASE OwesAfter(j)
        BY <4>1, <4>3
      <4>4. CASE Settled(j)
        <5>1. cm' = cm
          BY <4>4 DEF Settled, Examine
        <5>2. cm[n].rev >= note[n].rev \/ cm[n].rev = 0 \/ cm[n].deleted
          BY <4>2, <4>4, VerdictFacts, JobFacts DEF Settled
        <5>3. QED
          BY <1>1, <2>1, <3>4, <5>1, <5>2
      <4>5. CASE Supersede /\ Covered(j)
        <5>1. cur.job \in Carriers(n) /\ pc = "superseding" /\ cur.job \in Job
          BY <4>2, <4>5 DEF Supersede, Covered, Held, AtJob, Carriers
        <5>2. row[cur.job].st \in Open \cup {"sending", "suppressed"}
          BY <5>1 DEF BatchIsUnsettled, InHand, Claimed
        <5>3. row'[cur.job] = row[cur.job]
          BY <4>5, <5>1, RowMoves DEF Covered
        <5>4. QED
          BY <5>1, <5>2, <5>3 DEF OwesAfter
      <4>6. CASE Deliver /\ j = cur.job
        BY <2>4, <4>2, <4>6
      <4>7. QED
        BY <4>2, <4>1, <4>3, <4>4, <4>5, <4>6, OwesKept
    <3>5. QED
      <4>1. \/ cm[n].rev >= note[n].rev \/ cm[n].deleted
            \/ \E j \in Carriers(n) : Owes(j)
        BY <2>1 DEF LatestStateIsOwed, Owes
      <4>2. QED
        BY <3>1, <3>2, <3>3, <3>4, <4>1
  <2>5. QED
    BY <2>3, <2>4
<1>5. QED
  BY <1>3, <1>4

----------------------------------------------------------------------------
\* The invariant, and what follows from it.

\* Nothing is planned and nothing is on its way when the registry has been loaded.
LEMMA OutboxInit == Init => OutboxInv
<1> SUFFICES ASSUME Init PROVE OutboxInv
  OBVIOUS
<1> USE DEF Init
<1>1. TypeOK
  <2>1. RowsTyped
    BY RowFacts DEF RowsTyped
  <2>2. RecordsTyped
    <3>1. MaxRev \in Nat
      BY JobFacts
    <3>2. /\ [rev |-> 0, open |-> TRUE] \in NoteType /\ NoMessage \in MessageType
          /\ [shown |-> 0, there |-> FALSE] \in ChatType
      BY <3>1 DEF NoteType, NoMessage, MessageType, ChatType
    <3>3. QED
      BY <3>2 DEF RecordsTyped
  <2>3. WorkerTyped
    BY CurFacts DEF WorkerTyped, Phases, Between
  <2>4. ServerTyped
    <3>1. 0 \in 0..MaxCrashes /\ 0 \in 0..MaxOps /\ 0 \in 0..MaxFaults
      BY BoundsAssumption
    <3>2. [note |-> 0, open |-> FALSE, st |-> "none"] \in ProdType
      BY DEF ProdType
    <3>3. QED
      BY <3>1, <3>2 DEF ServerTyped
  <2>5. QED
    BY <2>1, <2>2, <2>3, <2>4, TypesInParts
<1>2. Held
  BY DEF Held, AtJob, NoChange
<1>3. \A j \in Job : row[j].st = "absent" /\ row[j].attempts = 0
  BY RowFacts
<1>4. PlannedRevisions
  BY <1>3 DEF PlannedRevisions
<1>5. BatchIsUnsettled
  BY DEF BatchIsUnsettled, OfThePass, InHand, Claimed
<1>6. RegistryIsFresh
  BY DEF RegistryIsFresh
<1>7. AttemptsLeft
  BY <1>3, BoundsAssumption DEF AttemptsLeft
<1>8. SendingIsClaimed
  BY <1>3 DEF SendingIsClaimed
<1>9. BreakerOpens
  BY BoundsAssumption DEF BreakerOpens
<1>10. \A n \in Notes : note[n].rev = 0 /\ cm[n].rev = 0
  BY DEF NoMessage
<1>11. RecordsAreBehind
  BY <1>10 DEF RecordsAreBehind, RecordMatchesChat, Examined, Claimed
<1>12. OwedByRows /\ LatestStateIsOwed
  BY <1>10 DEF OwedByRows, LatestStateIsOwed, Examined, Claimed
<1>13. QED
  BY <1>1, <1>2, <1>4, <1>5, <1>6, <1>7, <1>8, <1>9, <1>11, <1>12 DEF OutboxInv

\* Every step preserves it.
LEMMA OutboxStep == OutboxInv /\ [Next]_vars => OutboxInv'
<1> SUFFICES ASSUME OutboxInv, [Next]_vars PROVE OutboxInv'
  OBVIOUS
<1>1. /\ RowsTyped /\ RecordsTyped /\ WorkerTyped /\ ServerTyped /\ Held
      /\ PlannedRevisions /\ BatchIsUnsettled /\ RegistryIsFresh /\ AttemptsLeft
      /\ SendingIsClaimed /\ BreakerOpens /\ RecordsAreBehind /\ OwedByRows
      /\ LatestStateIsOwed
  BY TypesInParts DEF OutboxInv
<1>2. RowsTyped' /\ RecordsTyped' /\ WorkerTyped' /\ ServerTyped'
  BY <1>1, RowsStep, RecordsStep, WorkerStep, ServerStep
<1>3. TypeOK'
  BY <1>2, TypesInParts, PTL
<1>4. Held'
  BY <1>1, HeldStep
<1>5. PlannedRevisions'
  BY <1>1, PlannedStep
<1>6. BatchIsUnsettled'
  BY <1>1, BatchIsUnsettledStep
<1>7. RegistryIsFresh'
  BY <1>1, RegistryStep
<1>8. AttemptsLeft'
  BY <1>1, AttemptsStep
<1>9. SendingIsClaimed'
  BY <1>1, SendingStep
<1>10. BreakerOpens'
  BY <1>1, BreakerStep
<1>11. RecordsAreBehind'
  BY <1>1, <1>2, RecordsAreBehindStep
<1>12. OwedByRows'
  BY <1>1, OwedByRowsStep
<1>13. LatestStateIsOwed'
  BY <1>1, LatestStateIsOwedStep
<1>14. QED
  BY <1>3, <1>4, <1>5, <1>6, <1>7, <1>8, <1>9, <1>10, <1>11, <1>12, <1>13 DEF OutboxInv

\* The invariant holds of every behaviour of the outbox.
THEOREM OutboxInvariant == Spec => []OutboxInv
<1>1. Init => OutboxInv
  BY OutboxInit
<1>2. OutboxInv /\ [Next]_vars => OutboxInv'
  BY OutboxStep
<1>3. QED
  BY <1>1, <1>2, PTL DEF Spec

\* The variables keep their types, and a row is due again only while it is still work to do.
THEOREM OutboxTypes == Spec => []TypeOK
<1>1. OutboxInv => TypeOK
  BY DEF OutboxInv
<1>2. QED
  BY <1>1, OutboxInvariant, PTL

\* Nothing is silently lost: whatever fails, crashes or is overtaken, the chat's record has the
\* latest state of a notification, or a row still has to bring it, or the log names one.
THEOREM NothingIsLost == Spec => []LatestStateIsOwed
<1>1. OutboxInv => LatestStateIsOwed
  BY DEF OutboxInv
<1>2. QED
  BY <1>1, OutboxInvariant, PTL

\* The record never runs ahead of what the platform shows.
THEOREM RecordNeverLies == Spec => []RecordMatchesChat
<1>1. OutboxInv => RecordMatchesChat
  BY DEF OutboxInv, RecordsAreBehind
<1>2. QED
  BY <1>1, OutboxInvariant, PTL

\* A job gives up after its attempts, but for one more for every crash or failing call, and what
\* is being sent once the recovery has run is what the worker is at.
THEOREM ClaimsAccounted == Spec => []ClaimsAreAccounted
<1>1. OutboxInv => ClaimsAreAccounted
  BY ClaimsFollow DEF OutboxInv
<1>2. QED
  BY <1>1, OutboxInvariant, PTL

\* The breaker opens at the threshold.
THEOREM BreakerAtThreshold == Spec => []BreakerOpens
<1>1. OutboxInv => BreakerOpens
  BY DEF OutboxInv
<1>2. QED
  BY <1>1, OutboxInvariant, PTL

\* No step touches the row of a delivery that was sent or given up.
LEMMA SettledStaysSettled ==
    ASSUME OutboxInv, [Next]_vars, NEW j \in Job, row[j].st \in {"sent", "dead"}
    PROVE  row'[j] = row[j]
<1>1. RowsTyped /\ RecordsTyped /\ WorkerTyped /\ ServerTyped /\ Held /\ PlannedRevisions
  BY TypesInParts DEF OutboxInv
<1>2. j \notin batch
  BY DEF OutboxInv, BatchIsUnsettled, OfThePass, Unsettled, Open
<1>3. pc \in {"reading", "claiming"} \cup Claimed => j # cur.job
  BY DEF OutboxInv, BatchIsUnsettled, InHand, Unsettled, Open
<1>4. CASE KeepsRows
  BY <1>1, <1>4, RowMoves
<1>5. CASE Commit
  <2>1. row[JobOf(prod.note, note[prod.note].rev + 1)].st = "absent"
    BY <1>1, <1>5, PlannedIsAbsent DEF Commit
  <2>2. j # JobOf(prod.note, note[prod.note].rev + 1)
    BY <2>1
  <2>3. QED
    BY <1>1, <1>5, <2>2, RowMoves
<1>6. CASE Sweep \/ Collapse \/ Gate
  BY <1>1, <1>2, <1>6, RowMoves
<1>7. CASE Examine
  <2>1. j # cur.job
    BY <1>3, <1>7 DEF Examine
  <2>2. QED
    BY <1>1, <1>7, <2>1, RowMoves
<1>8. CASE Claim
  <2>1. j # cur.job
    BY <1>3, <1>8 DEF Claim
  <2>2. QED
    BY <1>1, <1>8, <2>1, RowMoves
<1>9. CASE Supersede
  BY <1>1, <1>9, RowMoves DEF Covered, Open
<1>10. CASE Deliver \/ FailGone \/ Fail
  <2>1. j # cur.job
    BY <1>3, <1>10 DEF Deliver, FailGone, Fail, Claimed
  <2>2. QED
    BY <1>1, <1>10, <2>1, RowMoves
<1>11. CASE Break \/ Pause
  BY <1>1, <1>11, RowMoves DEF Open
<1>12. CASE Recover
  BY <1>1, <1>12, RowMoves
<1>13. CASE \E k \in Job : BackoffPasses(k)
  <2>1. PICK k \in Job : BackoffPasses(k)
    BY <1>13
  <2>2. row[k].st \in Open \cup {"sending"}
    BY <1>1, <2>1 DEF BackoffPasses, RowsTyped, RowType
  <2>3. j # k
    BY <2>2 DEF Open
  <2>4. QED
    BY <2>1, <2>3 DEF BackoffPasses
<1>14. QED
  BY <1>4, <1>5, <1>6, <1>7, <1>8, <1>9, <1>10, <1>11, <1>12, <1>13
  DEF Next, Work, KeepsRows

\* A delivery that was sent, or given up, is never reopened, suppressed or superseded.
THEOREM SettledIsFinal == Spec => SentAndDeadAreFinal
<1>1. OutboxInv /\ [Next]_vars =>
        [\A j \in Job : row[j].st \in {"sent", "dead"} => row'[j] = row[j]]_vars
  BY SettledStaysSettled
<1>2. QED
  BY <1>1, OutboxInvariant, PTL DEF Spec, SentAndDeadAreFinal

\* No attempt begins on a channel that is paused or broken, but by a job that was past its gate
\* when the registry was reloaded.
THEOREM NoAttemptWhenInactive == Spec => InactiveUnlessStale
<1>1. OutboxInv /\ [Next]_vars =>
        [pc = "claiming" /\ row'[cur.job].st = "sending" =>
           status = "active" \/ reloading \/ stale]_vars
  <2> SUFFICES ASSUME OutboxInv, pc = "claiming"
               PROVE  status = "active" \/ reloading \/ stale
    OBVIOUS
  <2>1. boot # "down" /\ cur # Idle
    BY JobFacts DEF OutboxInv, Held, AtJob
  <2>2. QED
    BY <2>1, TypesInParts DEF OutboxInv, RegistryIsFresh, ServerTyped
<1>2. QED
  BY <1>1, OutboxInvariant, PTL DEF Spec, InactiveUnlessStale
=============================================================================
