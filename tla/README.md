# BrowserHive: a TLA+ verification project

BrowserHive is a server (TypeScript on Bun) that launches real browsers for AI agents. Agents
drive it over MCP, human operators over an admin HTTP API and a dashboard. One process keeps
everything: browser sessions with sliding leases, a broker of questions to humans, a vault that
types credentials into pages, an outbox of notifications, and a SQLite database. The process is
single-threaded, so its hard behaviour lies at its `await`s: what other handlers do between two
of them, what a crash leaves behind there, and which promise nobody settles.

All paths below are under `src/packages/core/src/` unless they start with `browserhive/`,
`dashboard/` or `contracts/`, which stand for `src/packages/browserhive/src/` and so on.

## Files

| file | what it is |
|---|---|
| `OperatorRequests.tla` | the operator-request broker, its table, its callers, sessions' leases, restarts |
| `OperatorRequestContract.tla` | what that broker promises, without maps, queues or processes |
| `OperatorRequestsProofs.tla` | theorems about `OperatorRequests`, for every value of its constants, and that it implements the contract |
| `MCOperatorRequests.tla`, `OperatorRequests*.cfg` | its instances for TLC |
| `SessionLifecycle.tla` | creation pipeline, close, crash, lease sweeper, shutdown |
| `SessionLifecycleProofs.tla` | theorems about `SessionLifecycle`, for any number of sessions and any capacity |
| `MCSessionLifecycle.tla`, `SessionLifecycle*.cfg` | its instances for TLC |
| `DeliveryOutbox.tla` | notification outbox of a channel: planning, worker, breaker, operator, recovery |
| `DeliveryOutboxProofs.tla` | theorems about `DeliveryOutbox`, for any notifications, rules, crashes and failures |
| `MCDeliveryOutbox.tla`, `DeliveryOutbox*.cfg` | its instances for TLC |
| `FeedContract.tla` | what a reader of the realtime feed is promised |
| `RealtimeFeed.tla` | the WebSocket hub, its replay buffer and the dashboard's client, which implement it |
| `RealtimeFeedProofs.tla` | the theorems that `RealtimeFeed` implements the contract, and its types |
| `MCRealtimeFeed.tla`, `RealtimeFeed.cfg` | its instance for TLC |
| `LiveView.tla` | the live view of one session: its queue, bridge, viewers and tabs |
| `LiveViewProofs.tla` | theorems about `LiveView`, for any connections, tabs, sizes, commands, switches and failures |
| `MCLiveView.tla`, `LiveView.cfg` | its instance for TLC |
| `ReportScheduler.tla` | the report clock: digests, watches and anomaly alerts, over crashes and failures |
| `ReportSchedulerProofs.tla` | theorems about `ReportScheduler`, for any channels, rules, periods and failures |
| `MCReportScheduler.tla`, `ReportScheduler.cfg` | its instance for TLC |
| `WriteQueue.tla` | the queue of recorder writes, its drains, the connection, and the close of both |
| `WriteQueueProofs.tla` | theorems about `WriteQueue`, for any readers, writes and bounds |
| `MCWriteQueue.tla`, `WriteQueue.cfg` | its instance for TLC |
| `DataDirLock.tla` | the lock file of a data directory and the processes that use it |
| `DataDirLockProofs.tla` | theorems about `DataDirLock`, for any number of processes |
| `MCDataDirLock.tla`, `DataDirLock.cfg` | its instance for TLC |
| `PROJECT.json` | components, runs, mutants, source map, findings, hazards, theorems |

Run a model with `tlc -config X.cfg MCModule.tla`, a proof with
`tlapm OperatorRequestsProofs.tla`.

## Inventory

**Operator-request broker** (`domain/operator-requests/broker.ts`,
`app/attention/attention-service.ts`, `infra/persistence/repositories/operator-requests.ts`,
`app/maintenance/startup-reconcile.ts`). State: the map `pending` of live requests, each with a
promise and up to two settlers (deadline, client abort); the table `operator_requests`; the audit
table `operator_actions`; the pause of the session's lease. Operations: `open`, `result`,
`resolve`, `settleForSession`, `shutdown`, `recoverOrphans`. Callers: the attention tools, the
vault's confirmation, the dashboard's decisions; `session.closed` triggers a sweep. Hard:
settlers race for one request; `open` awaits twice between its checks and going live; a reader
that finds a pending row nobody waits for rejects it; the process may die between a decision, its
row and its audit. Correct when there is one decision, everybody hears that one now and after a
restart, only the winner is audited, and whoever waits is answered.

**Session lifecycle** (`app/sessions/*`, `domain/session/state.ts`, `admission.ts`). State: the
`Session` objects and their state machine, the registry under its lock, the compensator stack of
each creation, browser handles, directory trees. Operations: the eight phases of creation with
their compensators, `closeSession`, the crash handler, the lease sweeper, `closeAll`. Hard: a
close, a crash, an abort and the sweeper may each work on a session whose creation is between two
phases; a launch may deliver after everybody stopped waiting. Correct when the capacity holds, every
browser and tree has somebody who will tear it down until that was tried, each end is announced by
one close, and creations end.

**Session lease arithmetic** (`domain/session/lease.ts`, `app/sessions/lease-controller.ts`).
State: expiry and remaining time. `touch`, `pause`, `resume`. Correct when a pause neither gives
nor takes time and a lease never shrinks by being used. Not modelled yet.

**Tabs and pages** (`domain/session/tabs.ts`, `app/sessions/session-tabs.ts`). A small ordered map
driven by page events that may come before, during and after tool calls. `LiveView` has the active
tab and its changes; the rest is not modelled.

**Vault** (`domain/vault/broker.ts`). A fill is a sequence of gates, an optional confirmation by
the operator-request broker, the fetch, the typing, the redaction and the audit. Hard: the page
may navigate while a human decides. Not modelled yet.

**Notifications** (`app/notifications/*`, `infra/persistence/repositories/notification-outbox.ts`).
State: notifications and their revisions, one delivery row per channel, revision and operation,
the record of what each chat message shows, a channel's status and failure count in its table and
in the registry's cache. Operations: plan and commit with a notification's transaction; the pass
of the worker (sweep, collapse, claim, send, record); retry, breaker, pause, resume, recovery.
Hard: claim, send and record are three steps with a crash or a lost answer between any two;
revisions overtake and supersede each other while one is being sent; the worker acts on a channel
entry it read before the platform call. Correct when nothing is silently lost, a pause holds, and
every delivery comes to an end. The dedup window, test sends and edits of a channel's connection
are not modelled.

**Report clock** (`app/notifications/report-scheduler.ts`, `report-settings.ts`, `reports.ts`,
`contracts/notifications/schedule.ts`). State: for each schedule (a channel, or the in-app one) a
digest cursor and an anomaly cursor, for each distinct anomaly rule a watch; all of them stored and
cached; the reports and alerts they name. Operations: start, the minute's pass (watches, then the
digest and the check of every schedule), edits. Hard: a pass spans many awaits and edits fall
between them; a database call may fail, or the process end, between any two; rules change while
their last window reaches into the next. Correct when every occurrence is reported once or counted
as skipped, and every open alert is the one some cursor names.

**Realtime feed** (`interface/ws/hub.ts`, `feed-buffer.ts`, `connection.ts`,
`dashboard/lib/ws/store.ts`, `dashboard/app/providers/SocketProvider.tsx`). State: the daemon's
epoch and numbered buffer, each connection's topics; in the tab, the link, the epoch it knows, and
a cursor with the numbers seen for each topic that has a reader. Hard: frames dropped under
back-pressure, connections that break or are closed, buffers that evict, daemons that restart and
number from one again, readers that come and go meanwhile. Correct when a reader is handed every
event in order or is told to read again, and catches up in the end.

**Live view** (`interface/ws/live-view.ts`, `commands/screencast.ts`). State: at most one bridge (a
CDP session on the active tab, its viewers, its size, a grace timer) per session, one queue of
tasks per session, the subscriptions of every connection. Hard: viewers join, resize and leave, the
agent switches tabs, the session ends, CDP calls fail, all between the awaits of a queued task.
Correct when subscriptions and viewers agree, an unwatched screencast stops, and a watched one
shows the tab the agent is on.

**Persistence** (`infra/persistence/dialect/bun-sqlite-driver.ts`, `write-queue.ts`,
`unit-of-work.ts`). One connection behind a first-come mutex (the `dbq` of `OperatorRequests`, the
`connection` of `WriteQueue`). The write queue: bounded, flushed in a microtask, drained by reads and
by the shutdown, with overlapping drains coalesced. Hard: drains overlap, jobs and transactions fail,
the queue closes while a write is accepted. Correct when a read sees what was written before it, and
no write disappears uncounted. That the mutex serves in the order of asking is
behaviour of Kysely, an external library, taken from its use here; `OutcomeIsDurable` and
`ContractSpec` of `OperatorRequests` and `DrainsTakePriorWrites` of `WriteQueue` rest on it. Retention,
backup and migrations (bulk SQL and file copies) are not modelled.

**Composition** (`browserhive/composition/*`). Boot phases push their stops on an unwind stack;
a signal may arrive during boot; stops have a time budget; a lock file keeps a second process out
of the data directory. Hard: other processes run between the calls on the file, and any of them may
be killed there. Correct when whoever has the database open is named by the lock, and what a killed
process left behind keeps nobody out. Modelled: the lock (`DataDirLock`), the storage handle's stop
(`WriteQueue`, `DataDirLock`), the order in which `build-domain` stops, process death, and recovery
before anything is served. The unwind stack over all phases is planned.

**Browser driver** (`infra/browsers/*`). Modelled as far as the lifecycle sees it: a launch that
delivers, throws or never answers; an idempotent handle close that ends by its deadline, whether or
not the process is gone then; crashes reported until a close began. The steps of a teardown, stealth,
fingerprints and page actions are not modelled.

**Event bus, MCP, HTTP API, authentication, configuration, blocklist, saved logins, dashboard views,
contracts, website.** The bus is a synchronous fan-out, so its one subscriber that changes state
(the sweep on `session.closed`) is part of the step that publishes. The rest holds no protocol state
that this project looks at and is not modelled; `PROJECT.json` lists each with its reason.

## OperatorRequests

| model | code |
|---|---|
| `pc[c]` | where a tool call is suspended: `admitted` before `open`, `finding` / `inserting` on a database call of `open`, `waiting` on the promise, `peeking` / `reading` / `expiring` in `AttentionService.result` and `broker.result` |
| `pending`, `decision` | the broker's map; the status `settle` chose when it removed the entry |
| `row`, `audit` | `operator_requests.status`; the row `resolve` appends to `operator_actions` |
| `lease` | live or paused; `closing` once `closeSession` took the session out of the registry; `closed` once `session.closed` was published |
| `sweep`, `Busy` | the ids `settleForSession` or `shutdown` still has to reject, and whether its loop awaits a settle |
| `dbq`, `DbExec`, `DbFail` | calls issued to the one SQLite connection, executed in order, each with what its caller does until the next await |
| `Exit`, `Restart`, `RecoverOrphan`, `Recovered` | the process dies at any point; another one takes the directory and recovers before it serves |

Executing a call and running its continuation is one step because a continuation reads no rows
and only appends to `dbq`: it commutes with whatever the database executes next. A call that
opens a request gives its name to it, so `target[c] = c` for the caller that opened. Idempotency
keys are per session; `Stored` is `getByIdempotencyKey`. `Place` is the part of `open` from the
bounds check to the insert, shared by the two ways to reach it. One process serves at a time:
that is what the data-directory lock is for (see `DataDirLock` for how far it goes), and it is an
assumption here.

Abstracted: time (a deadline may pass at any moment; a lease is only paused or not), the contents
of questions and answers, event payloads, the list operations. `input` holds what a call was
made with and never changes. Two simplifications stand: `get_attention_result` asks about a request
its own principal opened (the code answers "unknown" to another one, or for a request of another
kind, and does nothing else: `attention-service.ts:121-124`); and `Sessions` are there from the
start, so a session reserved after `closeAll` listed the registry is outside the model, while one
whose close is under way at that moment is in it (`Shutdown` does not wait for it).

### What the runs show

| run | instance | shows |
|---|---|---|
| `operator_requests` | 3 calls, with or without one key, 1 session, 2 open requests per session, 1 failing database call, 2 processes; symmetric calls; about 1.28 million states | the type invariant and the five safety invariants below |
| `operator_requests_live` | 2 calls without keys, with or without deadline, 1 restart, fair | the broker implements `OperatorRequestContract`; `RequestsEnd`: requests with a deadline (`TimedRequestsEnd`) and those a sweep found (`SweptRequestsEnd`) end |
| `close_claim` | 1 call | refutes "rejects every open request of a session" for a request whose insert is under way |

* `RowIsPendingWhileLive`: a live request's row is pending, unless the row of another request
  holds its key (two concurrent opens with one key both go live; `insert ... on conflict do
  nothing` drops the second row).
* `OutcomeIsDurable`: what a caller was told is what the row says, from then on.
* `AuditIsTheOutcome`: no loser of a settle race is audited.
* `PausedLeaseHasWaiter`: no session outlives its lease for want of anybody who waits, as long as
  no database call threw (the code does not resume the lease when the insert throws).
* `LeaseRunsOnlyAfterADecision`: a session with an open request has a running lease only if
  another of its requests was decided meanwhile (`settle` resumes the lease for all).
* `ContractSpec`: the refinement maps `row`, `target`, `told` and `audit` to the contract's
  variables. It is checked without keys: a shadowed request has no row, and what its waiter hears
  is not on record anywhere.

Three calls are enough for the interleavings the hazards name: an opener, one that shares its key
or races it for a place, and a reader; two processes for one crash between any two steps. One
session is enough for the safety run because requests of different sessions only meet in the
global bound; the theorems cover any number.

Fairness: the database executes its oldest call (`DbExec`), an admitted call opens (`Open`),
timers fire (`Expire`), an awaited loop goes on (`SweepNext`), a teardown ends because every step
of it is bounded by a deadline (`Closed`). Nothing is assumed of humans, agents or failures; the
fair run has no failing database call, since a settle whose UPDATE throws tells nobody and the
code has no retry. All runs disable the deadlock check, because a system in which nobody asks
anything rests.

### What is proved

`OperatorRequestsProofs.tla` proves `Spec => [](TypeOK /\ BrokerInv)` for any sets of calls,
sessions, keys and inputs, any limits, any number of faults and restarts, from
`NamesAssumption` alone (sentinels are no members of the sets they mark, inputs have their
type). `TypeOK` is not inductive: a queued settle writes `decision[r]`, which must have been
chosen, and a reader looks up the row of its target, which must exist. Nor are the safety
invariants. `BrokerInv` adds, with the reason for each:

* `CallersWait`, `QueuedOnce`: the queue and the calls agree, so executing a call moves exactly
  the caller that issued it;
* `LiveIsAwaited`, `DecidedWasOpened`, `UnopenedHasNoRow`: a live request is undecided, its opener
  waits for it, and an insert finds no trace of itself;
* `SettlesWillTell`: what a queued settle will write is what waiters will be told, and what a
  queued audit will record is written already;
* `ReadersOfTheDead`, `SettledBeforeRead`, `OnlyReaderRejects`: reject-on-read is safe because the
  queue is first come, first served. A `get` of a request that left the map is behind its settle,
  so a pending row it sees is nobody's, and nobody else will write it afterwards;
* `SweptIsClosed`, `LeaseRunsOnlyForTheUndecided`: sweeps, which do not resume leases, touch only
  sessions that are closed or being closed; the lease property in its inductive form;
* `NothingWhileDown`: recovery runs with an empty map and an empty queue.

The proof first shows types, action by action, then `BrokerInv`: general facts on the queue after
issuing and executing calls, one lemma for each way a call can move (`JoinInv`, `AskInv`,
`PlaceInv`, `EndInv`), one for `Settle` with its four callers, one for each database call, one
for each event of sessions and processes. `Invariant`, `TypeCorrect`, `TableMirrorsMap`,
`OutcomesAreDurable`, `AuditsAreOutcomes`, `PausedLeasesHaveWaiters` and
`LeasesRunAfterDecisions` follow.

The second part of `OperatorRequestsProofs.tla` proves `Spec /\ []NoneDropped => ContractSpec`: in a behaviour in
which no live request lost its row to a concurrent open with its key, the broker implements the
contract. A hypothesis of this kind is needed, because what the waiter of such a request is told is
nowhere on record; callers may share keys, as long as their inserts do not cross. The corollary
`ImplementsContractWithoutKeys` has keys that differ, as the run has, and no other hypothesis. The
refinement needs `BrokerInv` and two facts of its own: who was told something is done
(`TellingEnds`), and what was opened has its row and keeps it (`Written`). With those a call of the
database is a step of the contract or none (`ExecImplements`), and every other step but the
recovery of an orphan is none.

The liveness properties are only model-checked (liveness under fairness is outside what TLAPS can do
here).

## SessionLifecycle

| model | code |
|---|---|
| `at`, `busy` | the phase of `create-pipeline.ts` a creation is in, and whether it still runs; `unwinding`, then `failed`; `served` once `register` returned |
| `aborted`, `Interrupted` | the creation's signal; `checkpoint` |
| `comps` | the compensators pushed so far, run in reverse by `CloseLaunched`, `RemoveDirs`, `Finalize` |
| `state`, `handle`, `registry` | `Session.state`, `Session.handle`, `SessionRegistry` |
| `browser` | the process behind the handle: launching, up, dead, closing; after its teardown gone, or `left`: it may still run |
| `dirs` | the session's tree; `partial` between two of its mkdirs; `left` when the unwinding failed to remove it |
| `closer`, `why` | `closeSession`: claimed from the registry, drained, trace, handle close, clean-up, settle; the reason it reports |
| `published` | the reasons of the `session.closed` events of a session |
| `doomed`, `mode` | `closeAll` |

The registry lock is never held across an await, so a critical section is a step. A close's
decision and its claim are one step (adjacent microtasks), claim and drain are two. `startTracing`
is passed over, since it awaits nothing and changes no state. `cleanupAfterClose` keeps a tree
that holds a profile or artifacts, which the model leaves open.

Everything that tears down is best-effort in the code and in the model. `HandleClosed` and a launch
that throws or is given up (`PhaseThrows`, `LateLaunch`: the driver closes what it opened and ignores
errors) end with the process gone or `left`; `compensate` logs a removal that fails and the unwinding
goes on, so `RemoveDirs` may leave the tree. Callers wait until the teardown ended (`TornDown`), which
is all they can know, and that is what the properties say: that a teardown was called for and awaited,
not that it achieved its end. A teardown leaves the process when closing the context or the browser was
rejected (which counts as done), or when it overran its deadline and there was nothing to kill: no
browser in the handle (a persistent context's), or one without a `process()` (`session-handle.ts:126-127`,
`144-148`, `182-199`).

| run | instance | shows |
|---|---|---|
| `session_lifecycle` | 2 creations, capacity 1; symmetric; about 3.8 million states | `HostIsAccounted`: `CapacityHolds`, `DrivableIsRegistered`, `BrowserHasOwner` and `FailedLaunchIsUnwound`; `AnnouncementsAreTrue`: `AnnouncedIsTornDown` and `OneCloseAnnounces` |
| `session_lifecycle_live` | 1 creation, fair | `LaunchesEnd`: `CreationsEnd` and `TeardownsEnd`; `EndsAreAnnounced` |

* `FailedLaunchIsUnwound`: whatever closed, crashed or reaped the session meanwhile, a failed creation
  holds no place and no handle, its session is over, a browser it had was torn down and its tree was
  removed or the removal failed. Only a launch that was given up may still be in the driver.
* `AnnouncedIsTornDown`: `session.closed` of a session that was served comes after the teardown of its
  browser ended. The process may run on; its observers are not told.
* `TeardownsEnd`: a browser that the driver delivered, in time or late, is torn down once its session is
  over, whoever ended it.

Two creations and one place are what it takes for two creations to pass the early check and meet
at the reservation; everything else is between one creation and its closers, of which there may
be as many as the reasons allow. Nothing is cut off: the state space is finite without a bound.

Fairness: whatever the process is executing goes on (`Progress`), the deadline of a creation
fires (`Abort`), crashed sessions are reaped (`Claim` with reason `crash`, by the crash handler or
the sweeper's timer). A launch need not end, in time or later: creations end by their deadline all
the same, and `TeardownsEnd` speaks of browsers that were delivered. A handle's close ends within its
deadline (`HandleClosed`), since every step of it is raced against that deadline
(`session-handle.ts:116-129`). Phases
other than the launch are not raced against the deadline by the code, so that a mkdir or a
resolver ends is an assumption, not a result.

`SessionLifecycleProofs.tla` proves `TypeCorrect`, `HostAccounted` and `AnnouncementsTrue` for any set
of sessions and any capacity, from `MaxSessionsAssumption` (a natural number) alone. The inductive
invariant is `TypeOK /\ LifeInv /\ Capacity`; `LifeInv` says of each session, in three groups:

* `Standing`: a session nobody reserved yet has nothing; a registered one has no close yet, since the
  close that took it also took it out of the registry; one that tools may drive is registered or its
  close has not come back from the lock; a close past that point finds it draining, closed or crashed,
  and has a reason to report, which is why what it appends to `published` has its type;
* `Owned`: the compensator of the launch is on the stack exactly from the launch to the end of the
  creation, so a browser has an owner until `register` drops the stack, and from then on the handle
  stays attached until a close settles, and that close waited for the teardown (`CloseTearsDown`). It
  is the handle being attached before the close looks at it, or the stack being unwound after, that
  leaves no browser unattended when a close and a launch overlap. `PendingIsAwaited`: a browser that is
  still with the driver or being closed is somebody's, unless its launch was given up;
* `Announced`: only a failed launch and a settled close announce, and a close settles once.

`Capacity` adds that the registry is finite, without which its cardinality says nothing. A step works
on one session and leaves the others as they are (`OthersStep`, `SameIsSound`); `closeAll`, which works
on all registered ones, has a lemma of its own. `LaunchesEnd` and `EndsAreAnnounced` are liveness
properties, and only model-checked.

Not modelled here: a browser that dies between the opening of its page and the registration of
the handle's listeners; the single steps of a teardown; warnings and counters; what the clean-up of a
profile keeps.

## DeliveryOutbox

| model | code |
|---|---|
| `note` | a notification's revision, and whether its state is `open` (what `delete_when_resolved` looks at) |
| `row` | `notification_deliveries` by the unique key of a row, with status, attempts, whether its next attempt is due, later or never, and as much of the reason as matters |
| `cm`, `chat` | `notification_channel_messages`; what the platform really shows |
| `status`, `fails`, `cache`, `reloading` | the channel's row; its status in the `ChannelRegistry`; between the write of a pause or resume and its reload |
| `prod` | a change planned on the cache and not yet committed (`plan`, then `write` and `kick`) |
| `pc`, `batch`, `cur`, `again` | the await at which the pass is suspended, its jobs left, the job in hand with the revision `process` read, and the flag a second `tick` raises |
| `boot` | dead; registry loaded (`reconcileRequests` may already kick); `start` called; recovered |
| `stale` | history: a job was past its gate when the registry was reloaded |

A step is the code between two awaits. Reads that only the worker's own writes could change in
between (the channel message and the notification of a job) are one step with the decision made on
them. Time is abstracted: a back-off, the spacing of edits, a TTL, the delete window and the age of
a job pass at any moment, and the order of `due` by time becomes any order. One channel is enough:
channels share the worker's pass and nothing else that the properties look at. Platforms that
cannot edit are modelled as far as planning suppresses silent revisions.

| run | instance | shows |
|---|---|---|
| `delivery_outbox` | 1 notification of 2 revisions, deleted when resolved, 2 attempts, breaker at 2, 1 failing database call; fair; about 166 000 states | `LatestStateIsOwed`, `RecordMatchesChat`, `EveryDeliveryEnds`, `ExpiredMessagesEnd` |
| `delivery_outbox_backlog` | 2 info notifications of 1 revision that collapse, with a TTL, 1 attempt, breaker at 2, 1 act of a person (pause, resume, deletion in the chat), 1 crash; about 943 000 states | `ClaimsAreAccounted` (`AttemptsAreBounded` and `SendingIsInFlight`), `BreakerOpens`, `SentAndDeadAreFinal`, `InactiveUnlessStale` |

* `LatestStateIsOwed`: the chat's record has the latest revision, or a row still has to bring it,
  or the log names a row that ended in another way than being replaced.
* `RecordMatchesChat`: later edits are dropped as `covered` on the record's word, so it must not run
  ahead of the chat, whatever was lost or repeated.
* `AttemptsAreBounded`: `maxAttempts`, plus one for every crash in the middle of an attempt (recovery
  does not look at the count; the attempt itself then does).
* `SendingIsInFlight`: recovery leaves no row `sending` that the worker is not at.
* `BreakerOpens`: an active channel is below the threshold, except between the two transactions of
  the breaker and after a crash there.
* `InactiveUnlessStale`: what is true of a pause (see Findings): only a job that was past its gate
  when the registry was reloaded makes the worker send on an inactive channel.
* `EveryDeliveryEnds`, `ExpiredMessagesEnd`: an end is any final status; a failing database call after
  a claim is excepted, because nothing looks at the row before the next start.

Two revisions are what it takes for a message to be overtaken, covered, edited and deleted; two
notifications for a backlog; two failures for a retry and for the breaker. Fairness: the worker goes
on (its database calls end and the adapters bound every platform call), its interval fires, start and
recovery follow a boot, back-offs and the spacing of edits pass. Answers, commits, people and
restarts are not assumed. The fair run has no crash: what a crash leaves is the matter of
`SendingIsInFlight`. `CHECK_DEADLOCK FALSE`: a process may die and stay dead.

`DeliveryOutboxProofs.tla` proves all seven safety properties of the two runs, for any notifications
and revisions, any rules and capabilities of the channel, any limits, and any number of crashes,
failing calls and acts of people, from the three assumptions of the module. None of the properties is
inductive, because between two awaits the worker acts on what it read: whether a send loses something
depends on what the row and the record were when it read them, and on what can have happened to them
since. `OutboxInv` says so for every point of the worker:

* `Held`, `PlannedRevisions`: the worker has a job exactly where it needs one, a dead process has
  nothing, and no row precedes its revision;
* `BatchIsUnsettled`: listed jobs, and the one in hand, were neither sent nor given up by anybody
  else, whatever a person or a producer did to the rows meanwhile. This is why a settled row is never
  reopened (`SettledIsFinal`);
* `RegistryIsFresh`: unless a reload is due or the worker is past its gate, the registry has the
  channel's status (`NoAttemptWhenInactive`);
* `AttemptsLeft`, `SendingIsClaimed`: a row whose attempt is not under way has one left, or a crash
  or a failing call took it (`ClaimsAccounted`);
* `RecordsAreBehind`: record, message in hand and latest revision are in this order, and what the
  platform shows is not behind the record (`RecordNeverLies`);
* `OwedByRows`: a message never sent is owed by its first row, one overtaken while on its way by the
  row of the latest revision (`NothingIsLost`).

`OutboxInv` was checked with TLC on both instances before it was proved. `EveryDeliveryEnds` and
`ExpiredMessagesEnd` are liveness properties, and only model-checked.

Not modelled: batches smaller than the due jobs, several channels, removal and reconfiguration of a
channel, `sendNow` (test sends and report previews bypass the worker).

## RealtimeFeed and FeedContract

`FeedContract` says what the reader of a topic is promised, without sockets, cursors or buffers: its
position in the daemon's numbering passes an event of its topic only when it is handed that event,
and then that one is the next; or when, in the same instant, it is told to read the REST API again.
`RealtimeFeed` is the hub, the socket and one tab.

| model | code |
|---|---|
| `epoch`, `log`, `floor` | the daemon's epoch; what `FeedBuffer.append` numbered; the newest number its buffer evicted |
| `conn` | `WsConnection`: registered and open, its topics |
| `up`, `down` | the socket, first come first served in each direction; `close` frames end `down` |
| `link`, `known`, `entry` | `SocketStore`: connection state, epoch, and for each topic with a reader its cursor and the numbers seen |
| `pos`, `asked`, `told` | history: how far a reader was handed everything; subscribes in flight; who was told in this step |
| `SendAll` | `sendFeed` with `checkOverload`: all frames are written, or the connection is closed after some of them |
| `Complete`, `Replay`, `Subscribe` | `FeedBuffer.replay` and the three answers of `RealtimeHub.subscribe` |
| `Ascending` | the order of the frames that `replay` filters |
| `OnHello`, `OnEvent`, `OnSubscribed`, `OnResyncRequired` | the handlers of `SocketStore` and what `SocketProvider` invalidates |

The contract's `handed` is the tab's cursor; its `told` are the readers whose queries are invalidated
by a reconnect, an incomplete answer or a `resync_required`.

| run | instance | shows |
|---|---|---|
| `realtime_feed` | 2 topics, 2 events of each of 2 daemons, 1 connection lost, closed or short of a frame, 3 readers that come or go; fair; about 510 000 states | `TypeOK` (a cursor and the seen numbers belong to the daemon the tab follows), `ContractSpec`, `ReadersCatchUp` |

Two topics are what it takes for a cursor of one topic to lag behind the head because the events in
between are another's, which is what `Complete` has to decide; two events for an eviction between a
cursor and the head and for one exactly at it; two daemons for a stale epoch; one loss for a
reconnect with cursors, because what a tab keeps of a connection is its cursors, whatever came
before. `MaxTurns` lets a reader come, go and come again, or both topics be read with a change.

Fairness: the reconnect timer fires, the channel delivers, the database answers the touch before a
command. Publishing, evictions, losses, readers and restarts are not assumed, and each is bounded,
so `ReadersCatchUp` speaks of the time after the last one. `stopped` is an end: the store does not
reconnect when the operator session ended.

The subscribes of a reconnect go out in any order; the code takes the order in which the topics were
first read (that of a `Map`), which nothing depends on.

`RealtimeFeedProofs.tla` proves `FeedTypes` and `FeedImplementsContract` for any finite set of topics,
any number of events, daemons and losses, and readers that come and go at will, from
`FeedAssumption` (the bounds are numbers, at least one daemon, `None` is no number, finitely many
topics). `ContractSpec` says of a step what the tab does with one frame; whether it may do so depends
on everything on its way. `FeedInv` says what that is:

* `Linked`, `Frames`: what the socket holds fits the state of the link (a hello, perhaps a close
  behind it, before the tab is connected; no hello after), names events of the followed daemon, and
  an answer names none earlier than an event sent before it or the reader's cursor;
* `Entries`: cursors and seen numbers are of the topic's own events of the followed daemon, no cursor is
  past its position, and a topic without a reader has no position;
* `Asking`: answers and subscribes on their way are counted by `asked`, a reader with a position waits
  for at most one, whose cursor is not past that position, and a subscribe with a cursor is the first
  of its topic on the connection;
* `Coverage`: take any place in the socket, or its end while the hub still sends there, and the
  position the reader will have before it. Each event of the topic between that position and what
  comes is in the socket between the two. This is the heart: it holds over a publication because the
  hub numbers an event and writes it in one step, over a subscribe because `replay` writes all or
  says that it cannot, and over a drop because the close is written in the place of the lost frame.

From `FeedInv`, each step is one of the contract: `Publish` publishes, `Join` and `Leave` turn,
`OnHello` meets a daemon or tells every reader, `OnEvent` hands the next event or an earlier one,
`OnSubscribed` follows, assures or tells, `OnResyncRequired` tells, and what the hub does besides is
idle. The parts of `FeedInv` were checked with TLC, also with two losses, before they were proved.
`ReadersCatchUp` is a liveness property, and only model-checked.

Left out, because the code has no answer to it and the property would say so: a `hello`,
`subscribed` or `resync_required` that the socket drops although the frames before it went through
(the hub ignores the status of a reply); a touch that throws (the error reply carries no correlation
and the store drops it). Left out as different matters: what happened between a page's REST read and
its first subscribe (a first subscribe has no cursor); the `logs` topic, which is neither numbered
nor kept; screencast frames.

## LiveView

| model | code |
|---|---|
| `queue`, `run` | `KeyedSerial` of the session: its tasks, and the await at which the first one is suspended, with the tab it opens and the viewers it carries from one bridge to the next |
| `bridge` | `LiveView.bridges` for the session: tab, viewers with size and ordinal, `casting` and `size` as the daemon believes, `cast` as Chromium has it, the grace timer, whether a frame is kept, and the capture of `prime` |
| `sub` | `WsConnection.screencasts`: none, starting, on; the ordinal tells an old subscription from its successor |
| `chain`, `busy` | the screencast commands of a connection, one at a time, each after the touch of its operator session |
| `sess`, `active` | the session's state; `TabRegistry.activeId` |
| `shown` | history: the tab whose frame a subscriber was handed last |
| `Begin*`, `Torn`, `Opened`, `OpenFails`, `Ensured`, `Stopped`, `Started`, `Moved`, `Fails`, `Failed` | the stretches of `addViewer`, `removeViewer`, `setViewerSize`, `sessionClosed`, `followTab`, `sendInput`, `scheduleStop`, `openBridge`, `retarget`, `applySize` and `fail` between two awaits |

A bridge that was torn down does nothing more (its timer is cleared, its listeners are released, its
capture is discarded), so it leaves the model; the `follow` and `stop` tasks queued for it stay in
the queue as `stale` and do nothing when they run. What the caller of a task does when the task
settles follows in microtasks and is part of that step (`Finish`).

| run | instance | shows |
|---|---|---|
| `live_view` | 2 connections, 2 tabs (or none), 2 sizes, 2 commands, 1 tab switch, 1 failing CDP call or capture; fair; about 520 000 states | `TypeOK` (Chromium never sees a second `startScreencast`, a size is asked only for somebody), `Audience`, `UnwatchedStops`, `ShowsActiveTab` |

* `Audience`: an announced subscription is a viewer of the bridge, or is carried by the task that
  replaces it; a viewer that is no longer subscribed has its removal in the queue.
* `UnwatchedStops`: when nobody subscribes any more, the screencast and its CDP session go.
* `ShowsActiveTab`: at rest every subscriber of a live session was shown the active tab last,
  excepting a bridge whose last capture failed (the code does not try again).

Two connections are what it takes for a viewer to be carried, resized or failed by the command of
another; two commands for two starts, or a start and a stop, resize or input; one switch for a tab
that changes while its predecessor is being opened. Fairness: CDP calls are answered or fail,
captures end within their three seconds, the grace timer fires, a touched command runs, a close that
drains ends. Agents, viewers and switches are not assumed.

Not modelled: a frame the socket drops, `dispose` at shutdown, what an input does to the page.

`LiveViewProofs.tla` proves `TypeOK` and `Audience` (`LiveTypes`, `AudienceKept`) for any finite set
of connections, any nonempty set of tabs, any sizes and any number of commands, switches and
failures; the only other assumption, that `None` is no tab and no bridge, is about the model's own
value for "nothing". `Audience` alone is not inductive: it relates subscriptions, which commands and
closing connections change at once, to viewers, which the tasks of the queue change later. `LiveInv`
adds what keeps them together:

* `Connected`: types of subscriptions and commands; a busy connection has a command.
* `Bridging`: which task may wait at which await, with a bridge or with the viewers it carries; who
  adjusts the size has somebody to adjust it for, and stops a screencast before it starts one.
* `Waiting`: a command waits for one task of the queue, so a connection has at most one add in it.
* `Owned`: a `follow` or `stop` that is not stale still has the bridge it was queued for. Without it
  `followTab` could run with no bridge to compare the tab with.
* `Pending`: an add is for the last subscription of its connection, which is still starting or was
  given up by a remove behind it. `Removals`: a remove is for a connection without a subscription, or
  for one whose next add is behind it. A remove therefore never takes away a later subscription.
* `Watchers`: a viewer's entry is not newer than its subscription; a viewer whose add is still in the
  queue is the one of the running task. This is what makes a failed start take back its own
  subscription and no other. `Attended` is `Audience`.

The proof first has a lemma for each way queue, subscriptions and viewers change (`LinkedBehind`,
`LinkedSubscribed`, `LinkedLeft`, `LinkedJoined`, `LinkedDropped`, `LinkedLost`, `LinkedAdded`,
`LinkedDone`, ...), over any queue and any viewers. `GoesOn` and `Ends` turn them into a step of a
task that goes on and one that ends; then there is one lemma for each action. `TypeOK` needs that
the largest size of a nonempty finite audience exists, which `LargestOf` proves from the
well-foundedness of inclusion among finite sets. `UnwatchedStops` and `ShowsActiveTab` are liveness
and only model-checked.

## ReportScheduler

| model | code |
|---|---|
| `now` | the clock, read once per pass, in units of which `Period` lie between two occurrences and `Hour` between two anomaly slots |
| `rules`, `saved` | the digest and anomaly rule of every schedule; the stored in-app settings |
| `digest`, `anomaly`, `watches` | the stored cursors; `dcache`, `acache`, `wcache` their caches |
| `pass` | the pass: its time, the watches wanted when it began, the facts of the trailing hour (gathered once, or failed), the decisions left |
| `trail`, `copies`, `alerts` | history: when a schedule armed and what it reported; the in-app copies by thread; the alerts with owner, state and link |
| `Tick`, `Gather`, `WatchTick`, `DigestTick`, `AnomalyTick` | `tick` and `pass`, the facts, and a decision each |
| `Window`, `Occurrences`, `Thread` | `digestWindow`, `occurrencesBetween`, `digestPeriodThread` |
| `Step`, `Evaluate` | `anomalyStep`, `evaluateAnomalies` with its hysteresis |
| `Start`, `End`, `Edit` | `wireObservers` (settings or cursors that cannot be read leave the scheduler as it was built), the end of the process at any step, a saved edit |

A decision reads its cursor, writes one transaction and then the cache. The pass is the only writer
of cursors and of what they name, so a decision is one step, which commits or writes nothing;
`Fault` is the latter. `Occurrences` is `occurrencesBetween` for spans of up to 400 days: of a longer
one the code scans the last 400 days only and counts the older occurrences by dividing by the nominal
period (`schedule.ts:157-158`), so that the number of skipped ones may be off by one. That is not
modelled; the instants of the run stay far below, and the theorem is about shorter spans.

| run | instance | shows |
|---|---|---|
| `report_scheduler` | 1 channel and the in-app schedule, 2 digest rules, 1 anomaly rule with 2 checks, any rules to begin with, 1 edit, 4 instants with 2 anomaly slots, 1 fault; symmetric checks; about 2.3 million states | `TypeOK` (a cache is empty or equal to what is stored), `OccurrencesAccounted`, `AlertsAreNamed` |

* `OccurrencesAccounted`: since its rule was armed, every occurrence up to the cursor is in one report,
  or counted as skipped by the next one; windows of a schedule do not overlap and leave no gap where
  nothing was skipped; a period has one in-app copy.
* `AlertsAreNamed`: the open alert of a channel or a watch is the one its cursor names, and there is
  one exactly while a check is active.

One channel beside the in-app schedule is enough for two schedules to share a period, a watch and a
copy; two digest rules for a window of the old rule to reach into the period of the new one; two
checks for an alert to be superseded; four instants for two occurrences of a rule after it was
armed, the older of them missed while the process was down. Only instant 4 is quiet. There is no
liveness property: the code promises none for a process that is down, and within one a pass is a
loop over a finite list.

`ReportSchedulerProofs.tla` proves `TypeCorrect`, `OccurrencesAreAccounted` and
`AlertsAreNamedAlways` for any channels, rules, checks and periods and any number of edits, faults
and restarts, from `ReportAssumption` (the sentinels are told apart from what they mark, channels and
watches are finite sets, a phase is less than the period). The inductive invariant `SchedulerInv` is

* `TypeOK` and `Shapes`: caches agree with what is stored, decisions and cursors are of their kind,
  and a pass keeps the time it read;
* `TrailsOK`: every report of a trail handled the occurrences since the entry before it, exactly
  `1 + skipped` of them, in a window after those of all earlier reports; and the stored cursor is
  where its trail ended. `OccurrencesAccounted` speaks of the trail only, but the next report is made
  from the cursor, so the two must be tied;
* `CopiesOK`, `AlertsOK`: in-app copies do not repeat and every reported period has one; a cursor names
  the open alert of its owner, and alerts of channels name those of watches.

That the newest window lies after the others is arithmetic: between two instants of one phase lies a
whole period (`ModNext`, `OnlyOccurrence`, `NewestWindow`), also when the cursor carries over the end
of a window of an older rule. The pass handles watches and checks in folds over sets. The library's
induction theorems cannot be used here, since they take an operator; induction over a finite set is
instead proved once (`SetInduction`, from the well-foundedness of strict inclusion, which the library
states without one), and gives what a fold keeps (`FoldStays`).

Not modelled: time zones, weekdays and daylight saving (occurrences are instants of one phase), a
wall clock that steps back, reports an operator asks for, removal of a channel, what a report says.

## WriteQueue

| model | code |
|---|---|
| `queue`, `scheduled`, `closed`, `dropped` | the fields of `SqliteWriteQueue` |
| `batch`, `draining` | the batch of `#drainOnce`, and whether it asked for the connection or is inside its transaction |
| `waiting`, `resumed` | continuations of the running `#draining`, and of drains that ended |
| `connection` | who has the one connection and who asked after (Kysely's mutex) |
| `pc`, `prior` | the callers that drain: readers, and the storage handle's stop; history: what had been accepted when a caller called |
| `Join`, `StartDrain`, `Nothing` | the three ways through `drain` |
| `Resume` | the `then` that drains whatever arrived meanwhile |
| `Commit`, `Fail` | a batch whose jobs ran, some of which threw; a transaction that could not begin or commit, or whose database was closed |
| `Close`, `CloseDatabase` | `queue.close()` after its drain, then `handle.close()` |

A promise settles in a step and its continuations run one by one, with anything else in between. That
is more than the microtask queue allows, so what holds here holds there.

| run | instance | shows |
|---|---|---|
| `write_queue` | 3 writes, depth 2, batches of 1, 1 reader and the shutdown; fair; about 165 000 states | `TypeOK` (the bound; one drain at a time), `LossesAreCounted`, `DrainsTakePriorWrites`, `AcceptedWritesEnd` |

* `LossesAreCounted`: jobs that throw, transactions that fail, a queue that is full or closed and a
  database that closes under a batch are all in `droppedWrites`. It may count more than was lost: the
  jobs that threw inside a transaction that then fails are counted twice.
* `DrainsTakePriorWrites`: a query that drained first sees every write accepted before it. This
  needs more than the drain: a drain may resolve while a batch that another drain took is still
  in its transaction, and the query only comes after it because the connection is first come, first
  served.
* `AcceptedWritesEnd`: a write accepted between the last drain of `close()` and its refusals is
  flushed into a closing database, and then at least counted.

Three writes are one in a batch, one queued and one that finds the queue full or comes later; depth 2
with batches of 1 makes drains go round; the flush, the reader and the stop are three drains that
overlap. Fairness: microtasks run and the connection answers; enqueues, drains and the shutdown are
not assumed.

`WriteQueueProofs.tla` proves `QueueTypes`, `LossesCounted` and `QueriesFollowPriorWrites` for any
readers, any number of writes and failures, any depth of the queue and size of its batches, from
`QueueAssumption`. `DrainsTakePriorWrites` is an action property about the moment a query runs; what
makes it true lies between three queues, and `QueueInv` relates them:

* `InLine`: a caller that drains is in line once, among the continuations of the running drain or of
  one that ended;
* `OnConnection`: the connection is held and asked for, once each, by the batch of the running drain
  and the readers whose drain is over;
* `WritesAreKept`, `PriorLeftQueue`: an accepted write that has not settled is in the queue or in the
  batch, and a caller whose drain is over has left none of its writes in the queue. So such a write
  can only be in a batch that another drain took;
* `BatchIsAhead`: and then that batch is ahead of the caller on the connection.

`QueueInv` was checked with TLC, with two readers, before it was proved. `AcceptedWritesEnd` is a
liveness property, and only model-checked.

## DataDirLock

| model | code |
|---|---|
| `file` | `browserhive.lock`: the process that created it, and whether its pid is written |
| `pc`, `attempts`, `holder` | where a process is in `acquireDataDirLock`, in the use of the database, or in `release`; its attempts; what `readLock` returned to it |
| `robbed` | history: processes whose file was removed by another while they lived |
| `Create`, `Exists`, `Write`, `Read`, `Locked`, `Stale`, `Remove` | the calls of `acquireDataDirLock`, with `Unwritable` for those that fail |
| `Opened`, `OpenFails`, `Stop`, `Closed`, `CutOff` | `openStoragePhase` and `openStorageForCli` with their failures; the stop of a server; a storage handle that throws or overruns |
| `KeepRelease`, `Release`, `Unlock` | `release()`: the file is read, and removed in a second call |
| `Die` | the process is killed, at any step |

| run | instance | shows |
|---|---|---|
| `data_dir_lock` | 2 servers, 1 command; no lock, a stale or an empty one to begin with; fair; about 217 000 states | `TypeOK`, `LockNamesOwner`, `RobbedByStaleJudgement`, `LoneProcessAcquires` |

* `LockNamesOwner`: whoever has the database open is named by the lock file, unless another process
  removed that file. So two owners are never the work of a release, a failed open or a crash.
* `RobbedByStaleJudgement`: a living process loses its file only to one that judged another file (or
  this one before its pid was in it), or to the release of one that had been robbed itself.
* `LoneProcessAcquires`: whatever is left behind, a process that tries alone gets the lock.

Three processes are one whose file is robbed, one that robs it, and one whose stale file is judged.
Fairness: a process that began to acquire makes its next call; starts, stops and kills are not assumed.

Assumed: pids are not reused. In a container, where they are, a restarted server may find its own pid
in the lock of its predecessor and refuse to start. Read-only commands take no lock and are left out.

`DataDirLockProofs.tla` proves `TypeCorrect`, `OwnersAreNamed`, `OwnersAreRobbedByStaleJudgement` and
`LocksGoWithTheirOwners` for any sets of servers and commands, from
`LockAssumption` (the sentinels are no processes). The inductive invariant is `TypeOK /\ LockInv`:

* `OwnFile`: from the creation of its file to its removal, a process that was not robbed has its file
  in place, named once the pid is written;
* `NamesCreators`: neither the file nor what anybody read from it names a process that has created no
  file yet, so a holder that was found dead cannot turn out to be one that is about to start;
* `JudgedIsDead`: hence whoever is about to remove a file read in it the name of nobody or of a
  process that has ended and stays so;
* `FinishedLeavesNoLock`: a process that released its lock leaves no file that names it.

`LockNamesOwner` alone is not inductive: that a removal hits a process's file only as
`RobbedByStaleJudgement` says depends on what the remover knows. `LoneProcessAcquires` is a liveness
property and is only model-checked.

## Findings

**A request may go live on a closed session** (`close_claim`). `open` adds the request to the map
after its insert; the sweep of a session that closed meanwhile does not see it.

Disagreements with a document that were met and have no run of their own:

* **Shutdown does not wait for launches and closes under way.** `closeAll` closes the ids listed at
  one moment (`session-service.ts:209`), so the process may end while a browser launches or is being
  torn down; `specs/00-decisions.md:475` says that shutdowns never leak processes.
* **A send under way undoes a pause.** `delivered` and `failed` write the status they read before the
  platform call back to the registry (`outbox.ts:546`), so a channel paused meanwhile is planned for
  and sent to until the registry is next reloaded.
* **Two processes may own the data directory.** Two that find the same stale or empty file each
  remove "it", and the second removal is of the first one's new file (`lock-file.ts:105`);
  `specs/00-decisions.md` has one owner per data directory. Such an owner is in `robbed`.
* **A drain may resolve before its writes are in the database.** `drain()` returns when the queue is
  empty, although a batch that another drain took is in its transaction (`write-queue.ts:79`). Queries
  come after it on the connection; `close()` does not, so the database may be closed under that batch
  (which is then counted as lost), and a backup, which uses the raw handle
  (`infra/persistence/maintenance.ts`), may miss it, although its comment says that sweeps and backups
  see every write.
* **A close may end with the browser running.** The handle of a persistent context has no browser, which
  `teardown` counts as closed even when the deadline cut the close of the context
  (`session-handle.ts:144`), and `killProcess` does nothing to a browser without a `process()`; the doc
  comment of `close` says that on overrun the browser process is killed rather than awaited. A session
  is then announced as closed with its browser `left`.
* `settle` resumes the session's lease when any of its requests is decided, although
  `lease-controller.ts:6` says that waiting on a human never expires the session
  (`LeaseRunsOnlyAfterADecision` is what holds).
* `closeSession` releases a session before it drains, although `registry.ts:7` and `admission.ts:8`
  count draining sessions.
* The footer that says how many messages were missed is made from a row's reason, which the first
  failed attempt overwrites (`outbox.ts:625`).
* A digest switched off and on again with an unchanged rule finds its old cursor and sends a late
  report, although `report-scheduler.ts:518` says an edit never does.

Seen while modelling and not claimed by any document: concurrent opens exceed the bounds by the
number of inserts under way; an insert that throws leaves the lease paused; a settle whose UPDATE
throws leaves its waiters hanging and, in a sweep, the requests after it open; a delivery may be
attempted once more than `maxAttempts` after a crash; a database call that throws after a claim
leaves the row `sending` until the next start; a delete suppressed by a pause is never planned
again; a test send that dies before its claim leaves a pending row without a next attempt; settings
that cannot be loaded at start are taken for off until they are saved again; a screencast command
that waits behind another one runs after its connection was closed, and that screencast runs until
the session ends; a channel whose anomaly rule is switched off keeps its open alert until the rule
is switched on again.

## Not modelled

Input validation, HTTP handlers, schemas, rendering and texts, page actions and fingerprints,
website and scripts: by far the largest part of the repository, and sequential code without a state
of its own that another step could see. The MCP dispatcher, authentication, retention and migrations
have some, which is not modelled yet. What each modelled component leaves out is said in its section.

## Plan

1. `OperatorRequests` with its contract, its safety proofs and the refinement as a theorem: done.
2. `SessionLifecycle` with its safety proofs: done. Left: the steps of a teardown as a module of
   their own; an abstract session (open, closing,
   announced once) it implements.
3. `DeliveryOutbox` with its safety proofs: done for one channel. Left: the abstract promise "every
   accepted delivery ends once" as a specification it implements; test sends; the dedup window of its
   producers.
4. `RealtimeFeed` with its contract and the refinement as a theorem, `LiveView`, and
   `ReportScheduler`, both with their safety proofs: done.
5. `WriteQueue` and `DataDirLock` with their safety proofs: done. Left: `ServerProcess`: boot and
   unwind (a stop during boot, stops over budget) over the phases.
6. `VaultFill`: the gates against a page that navigates during the confirmation.
7. `Lease`: touch, pause and resume over bounded clocks, with proofs; the whole of the tabs.

Worth proving besides the above: no delivery recorded twice in the outbox, lease arithmetic.

Out of the provers' reach, and left to TLC: liveness under fairness (`RequestsEnd`, `LaunchesEnd`,
`EndsAreAnnounced`, `EveryDeliveryEnds`, `ExpiredMessagesEnd`, `ReadersCatchUp`, `UnwatchedStops`,
`ShowsActiveTab`, `AcceptedWritesEnd`, `LoneProcessAcquires`). Every invariant and every action
property that a run checks is a theorem.
