--------------------------- MODULE SessionLifecycle ---------------------------
(***************************************************************************)
(* The life of browser sessions (decision D-21): the creation pipeline     *)
(* with its compensators, the close path, crashes, the lease sweeper and   *)
(* the shutdown that closes every session.  All of them work on the same   *)
(* Session objects, browser handles and directories, between each other's  *)
(* awaits.                                                                 *)
(*                                                                         *)
(* A session is named by the call that creates it.  A step is the code     *)
(* between two awaits.  The registry lock is never held across an await,   *)
(* so each critical section is a step.  Time is abstracted: a deadline or  *)
(* a lease may pass at any moment.                                         *)
(*                                                                         *)
(* Whatever tears something down is best-effort: a handle's teardown ends  *)
(* with the process gone or left, a removal of a tree with the tree gone   *)
(* or left, and the caller goes on the same way.                           *)
(***************************************************************************)
EXTENDS Naturals, Sequences, FiniteSets

CONSTANTS
    Sessions,    \* launch_session calls, and the sessions they make
    MaxSessions  \* CapAdmissionPolicy.limit

ASSUME MaxSessionsAssumption == MaxSessions \in Nat

VARIABLES
    at,          \* the phase a creation is in, or how it ended
    busy,        \* the phase is running, as opposed to finished and not yet followed
    aborted,     \* the creation's signal: its deadline passed or its caller gave up
    comps,       \* compensators on the creation's stack
    state,       \* Session.state.kind
    registry,    \* SessionRegistry.sessions
    handle,      \* Session.handle is set
    browser,     \* the browser process and its handle; left: torn down, it may still run
    dirs,        \* the session's directory tree; left: the unwinding failed to remove it
    closer,      \* how far the close of a session is
    why,         \* the reason that close reports
    published,   \* reasons of the session.closed events published for a session
    doomed,      \* closeAll: sessions it has listed
    mode         \* the server: up, closing (closeAll runs), drained (closeAll settled)

vars == <<at, busy, aborted, comps, state, registry, handle,
          browser, dirs, closer, why, published, doomed, mode>>

Reasons == {"user", "lease_expired", "crash", "shutdown", "launch_failed"}

\* PIPELINE_PHASES from reserve on, as the phase that follows each.  startTracing awaits nothing
\* and changes no state, so it is passed over.
PhaseAfter == [reserve |-> "prepareProfile", prepareProfile |-> "resolveIdentity",
               resolveIdentity |-> "launch", launch |-> "installPolicies",
               installPolicies |-> "applyIdentity", applyIdentity |-> "register"]
Phases == DOMAIN PhaseAfter
\* Phases that await something which takes nothing a compensator has to give back.
Passive == {"resolveIdentity", "installPolicies", "applyIdentity"}

Init ==
    /\ at = [s \in Sessions |-> "idle"]
    /\ busy = [s \in Sessions |-> FALSE]
    /\ aborted = [s \in Sessions |-> FALSE]
    /\ comps = [s \in Sessions |-> {}]
    /\ state = [s \in Sessions |-> "none"]
    /\ registry = {}
    /\ handle = [s \in Sessions |-> FALSE]
    /\ browser = [s \in Sessions |-> "none"]
    /\ dirs = [s \in Sessions |-> "none"]
    /\ closer = [s \in Sessions |-> "none"]
    /\ why = [s \in Sessions |-> "none"]
    /\ published = [s \in Sessions |-> <<>>]
    /\ doomed = {}
    /\ mode = "up"

Admitted == Cardinality(registry) < MaxSessions
CanServeTools(s) == state[s] \in {"live", "paused"}

\* Session.tryApply of drain and of crash: a refused event leaves the state alone.
Drained(s) == IF state[s] \in {"reserved", "launching", "live", "paused"}
              THEN [state EXCEPT ![s] = "draining"] ELSE state
Crashed(s) == IF state[s] \in {"launching", "live", "paused"}
              THEN [state EXCEPT ![s] = "crashed"] ELSE state

\* The teardown of the browser ran to its end, whatever it achieved.
TornDown(s) == browser[s] \in {"gone", "left"}

\* SessionHandle.close is idempotent: the first caller starts the teardown.
HandleClose(s) ==
    browser' = [browser EXCEPT ![s] = IF @ \in {"up", "dead"} THEN "closing" ELSE @]

-----------------------------------------------------------------------------
(* The creation pipeline *)

\* validate and admit: an early refusal on the registry's size.
Admit(s) ==
    /\ mode = "up" /\ at[s] = "idle"
    /\ IF Admitted
       THEN at' = [at EXCEPT ![s] = "reserve"] /\ busy' = [busy EXCEPT ![s] = TRUE]
       ELSE at' = [at EXCEPT ![s] = "refused"] /\ UNCHANGED busy
    /\ UNCHANGED <<aborted, comps, state, registry, handle, browser,
                   dirs, closer, why, published, doomed, mode>>

\* reserve: the capacity is checked again under the lock, with the insertion.
Reserve(s) ==
    /\ at[s] = "reserve" /\ busy[s]
    /\ busy' = [busy EXCEPT ![s] = FALSE]
    /\ \/ /\ Admitted
          /\ registry' = registry \cup {s}
          /\ state' = [state EXCEPT ![s] = "reserved"]
          /\ comps' = [comps EXCEPT ![s] = @ \cup {"reserve"}]
          /\ UNCHANGED at
       \/ /\ ~Admitted
          /\ at' = [at EXCEPT ![s] = "refused"]
          /\ UNCHANGED <<registry, state, comps>>
    /\ UNCHANGED <<aborted, handle, browser, dirs, closer, why,
                   published, doomed, mode>>

\* checkpoint: the signal fired, or the session crashed or was closed meanwhile.
Interrupted(s) == aborted[s] \/ state[s] \notin {"reserved", "launching"}

\* A phase ended and the checkpoint before the next one throws.
Interrupt(s) ==
    /\ at[s] \in Phases /\ ~busy[s] /\ Interrupted(s)
    /\ at' = [at EXCEPT ![s] = "unwinding"]
    /\ UNCHANGED <<busy, aborted, comps, state, registry, handle,
                   browser, dirs, closer, why, published, doomed, mode>>

\* A phase ended: checkpoint, advance, and the next phase runs up to its first await.
NextPhase(s) ==
    /\ at[s] \in Phases \ {"applyIdentity"} /\ ~busy[s] /\ ~Interrupted(s)
    /\ at' = [at EXCEPT ![s] = PhaseAfter[@]]
    /\ busy' = [busy EXCEPT ![s] = TRUE]
    /\ state' = [state EXCEPT ![s] = "launching"]
    /\ browser' = [browser EXCEPT ![s] = IF PhaseAfter[at[s]] = "launch" THEN "launching" ELSE @]
    /\ UNCHANGED <<aborted, comps, registry, handle, dirs, closer,
                   why, published, doomed, mode>>

\* register has no await: checkpoint, launched, and the outcome is returned; the stack is dropped.
Register(s) ==
    /\ at[s] = "applyIdentity" /\ ~busy[s] /\ ~Interrupted(s)
    /\ at' = [at EXCEPT ![s] = "served"]
    /\ state' = [state EXCEPT ![s] = "live"]
    /\ comps' = [comps EXCEPT ![s] = {}]
    /\ UNCHANGED <<busy, aborted, registry, handle, browser, dirs,
                   closer, why, published, doomed, mode>>

\* prepareSessionDirs makes the directories one by one, each mkdir recursive.
MakeDir(s) ==
    /\ at[s] = "prepareProfile" /\ busy[s] /\ "prepareProfile" \notin comps[s]
    /\ dirs' = [dirs EXCEPT ![s] = "partial"]
    /\ UNCHANGED <<at, busy, aborted, comps, state, registry, handle,
                   browser, closer, why, published, doomed, mode>>

\* The last one: the compensator is registered; what follows restores a profile.
DirsMade(s) ==
    /\ at[s] = "prepareProfile" /\ busy[s] /\ "prepareProfile" \notin comps[s]
    /\ dirs' = [dirs EXCEPT ![s] = "made"]
    /\ comps' = [comps EXCEPT ![s] = @ \cup {"prepareProfile"}]
    /\ UNCHANGED <<at, busy, aborted, state, registry, handle,
                   browser, closer, why, published, doomed, mode>>

\* Mutant of Launched: the compensator of launch is forgotten.
MutantLaunchedNoCompensator(s) ==
    /\ at[s] = "launch" /\ busy[s]
    /\ busy' = [busy EXCEPT ![s] = FALSE]
    /\ browser' = [browser EXCEPT ![s] = "up"]
    /\ handle' = [handle EXCEPT ![s] = TRUE]
    /\ UNCHANGED <<at, aborted, comps, state, registry, dirs, closer,
                   why, published, doomed, mode>>

\* launch: the driver delivered in time; the handle is attached whatever became of the session.
Launched(s) ==
    /\ at[s] = "launch" /\ busy[s]
    /\ busy' = [busy EXCEPT ![s] = FALSE]
    /\ browser' = [browser EXCEPT ![s] = "up"]
    /\ handle' = [handle EXCEPT ![s] = TRUE]
    /\ comps' = [comps EXCEPT ![s] = @ \cup {"launch"}]
    /\ UNCHANGED <<at, aborted, state, registry, dirs, closer, why,
                   published, doomed, mode>>

\* Any other phase ends.
PhaseDone(s) ==
    /\ busy[s]
    /\ \/ at[s] \in Passive
       \/ at[s] = "prepareProfile" /\ "prepareProfile" \in comps[s]
    /\ busy' = [busy EXCEPT ![s] = FALSE]
    /\ UNCHANGED <<at, aborted, comps, state, registry, handle,
                   browser, dirs, closer, why, published, doomed, mode>>

\* A phase throws.  Before launch does, the driver closes what it opened, with errors ignored.
PhaseThrows(s) ==
    /\ busy[s] /\ at[s] \in Phases \ {"reserve"}
    /\ busy' = [busy EXCEPT ![s] = FALSE]
    /\ at' = [at EXCEPT ![s] = "unwinding"]
    /\ \/ at[s] # "launch" /\ UNCHANGED browser
       \/ at[s] = "launch" /\ \E end \in {"gone", "left"} : browser' = [browser EXCEPT ![s] = end]
    /\ UNCHANGED <<aborted, comps, state, registry, handle, dirs,
                   closer, why, published, doomed, mode>>

\* The signal fires; only the launch is raced against it.
Abort(s) ==
    /\ at[s] \in Phases /\ ~aborted[s]
    /\ aborted' = [aborted EXCEPT ![s] = TRUE]
    /\ IF at[s] = "launch" /\ busy[s]
       THEN at' = [at EXCEPT ![s] = "unwinding"] /\ busy' = [busy EXCEPT ![s] = FALSE]
       ELSE UNCHANGED <<at, busy>>
    /\ UNCHANGED <<comps, state, registry, handle, browser, dirs,
                   closer, why, published, doomed, mode>>

\* Mutant of LateLaunch: nobody listens to a launch that lost the race.
MutantLateLaunchIgnored(s) ==
    /\ browser[s] = "launching" /\ at[s] # "launch"
    /\ browser' = [browser EXCEPT ![s] = "up"]
    /\ UNCHANGED <<at, busy, aborted, comps, state, registry, handle,
                   dirs, closer, why, published, doomed, mode>>

\* A launch that was given up ends after all.  If the driver delivers, launchRaced closes the
\* handle; if it sees the signal or fails, it closes what it opened itself, and throws to nobody.
LateLaunch(s) ==
    /\ browser[s] = "launching" /\ at[s] # "launch"
    /\ \E end \in {"closing", "gone", "left"} : browser' = [browser EXCEPT ![s] = end]
    /\ UNCHANGED <<at, busy, aborted, comps, state, registry, handle,
                   dirs, closer, why, published, doomed, mode>>

-----------------------------------------------------------------------------
(* Unwinding a failed creation: the compensators in reverse, then finalizeFailure *)

CloseLaunched(s) ==
    /\ at[s] = "unwinding" /\ "launch" \in comps[s]
    /\ \/ browser[s] \in {"up", "dead"} /\ HandleClose(s) /\ UNCHANGED comps
       \/ /\ TornDown(s)
          /\ comps' = [comps EXCEPT ![s] = @ \ {"launch"}]
          /\ UNCHANGED browser
    /\ UNCHANGED <<at, busy, aborted, state, registry, handle, dirs,
                   closer, why, published, doomed, mode>>

\* compensate logs a removal that fails, and the unwinding goes on.
RemoveDirs(s) ==
    /\ at[s] = "unwinding" /\ "launch" \notin comps[s] /\ "prepareProfile" \in comps[s]
    /\ comps' = [comps EXCEPT ![s] = @ \ {"prepareProfile"}]
    /\ \E end \in {"none", "left"} : dirs' = [dirs EXCEPT ![s] = end]
    /\ UNCHANGED <<at, busy, aborted, state, registry, handle,
                   browser, closer, why, published, doomed, mode>>

\* The reserve compensator and finalizeFailure run in one go.
Finalize(s) ==
    /\ at[s] = "unwinding" /\ comps[s] \subseteq {"reserve"}
    /\ at' = [at EXCEPT ![s] = "failed"]
    /\ comps' = [comps EXCEPT ![s] = {}]
    /\ registry' = registry \ {s}
    /\ state' = [state EXCEPT ![s] = IF @ = "crashed" THEN @ ELSE "closed"]
    /\ handle' = [handle EXCEPT ![s] = FALSE]
    /\ published' = [published EXCEPT ![s] = Append(@, "launch_failed")]
    /\ UNCHANGED <<busy, aborted, browser, dirs, closer, why,
                   doomed, mode>>

-----------------------------------------------------------------------------
(* Closing a session *)

\* Mutant of Wanted: the sweeper only looks at leases, and nobody reaps the dead.
MutantWantedNoReaper(s, reason) ==
    \/ reason = "user" /\ mode = "up"
    \/ reason = "lease_expired" /\ state[s] = "live" /\ mode = "up"

\* Who closes: its agent or an operator, the lease sweeper, the reaper of crashed sessions.
Wanted(s, reason) ==
    \/ reason = "user" /\ mode = "up"
    \/ reason = "lease_expired" /\ state[s] = "live" /\ mode = "up"
    \/ reason = "crash" /\ state[s] = "crashed" /\ (mode = "up" \/ at[s] = "served")

\* Mutant of Claim: the session stays registered until it is closed.
MutantClaimKeeps(s, reason) ==
    /\ s \in registry /\ Wanted(s, reason) /\ Len(published[s]) < 3
    /\ closer' = [closer EXCEPT ![s] = "claimed"]
    /\ why' = [why EXCEPT ![s] = reason]
    /\ UNCHANGED <<at, busy, aborted, comps, state, registry, handle,
                   browser, dirs, published, doomed, mode>>

\* closeSession takes the session out of the registry under the lock: no other close gets it.
Claim(s, reason) ==
    /\ s \in registry /\ Wanted(s, reason)
    /\ registry' = registry \ {s}
    /\ closer' = [closer EXCEPT ![s] = "claimed"]
    /\ why' = [why EXCEPT ![s] = reason]
    /\ UNCHANGED <<at, busy, aborted, comps, state, handle, browser,
                   dirs, published, doomed, mode>>

\* Back from the lock: drain, and tear down the handle if there is one by now.
Drain(s) ==
    /\ closer[s] = "claimed"
    /\ why' = [why EXCEPT ![s] = IF state[s] = "crashed" THEN "crash" ELSE @]
    /\ state' = Drained(s)
    /\ closer' = [closer EXCEPT ![s] = IF handle[s] THEN "tracing" ELSE "cleaning"]
    /\ UNCHANGED <<at, busy, aborted, comps, registry, handle,
                   browser, dirs, published, doomed, mode>>

\* Mutant of CloseHandle: the close of the handle is not awaited.
MutantCloseHandleUnawaited(s) ==
    /\ closer[s] = "tracing"
    /\ HandleClose(s)
    /\ closer' = [closer EXCEPT ![s] = "cleaning"]
    /\ UNCHANGED <<at, busy, aborted, comps, state, registry, handle,
                   dirs, why, published, doomed, mode>>

\* The trace was finalized or given up: the handle is closed, and awaited.
CloseHandle(s) ==
    /\ \/ /\ closer[s] = "tracing"
          /\ HandleClose(s)
          /\ closer' = [closer EXCEPT ![s] = "awaiting"]
       \/ /\ closer[s] = "awaiting" /\ TornDown(s)
          /\ closer' = [closer EXCEPT ![s] = "cleaning"]
          /\ UNCHANGED browser
    /\ UNCHANGED <<at, busy, aborted, comps, state, registry, handle,
                   dirs, why, published, doomed, mode>>

\* cleanupAfterClose keeps the tree if it holds a profile or artifacts; an error is only logged.
CleanUp(s) ==
    /\ closer[s] = "cleaning"
    /\ closer' = [closer EXCEPT ![s] = "settling"]
    /\ dirs' = [dirs EXCEPT ![s] = "none"] \/ UNCHANGED dirs
    /\ UNCHANGED <<at, busy, aborted, comps, state, registry, handle,
                   browser, why, published, doomed, mode>>

\* Mutant of EndClose: a crashed session settles with no reason of its own.
MutantEndCloseNoReason(s) ==
    /\ closer[s] = "settling"
    /\ closer' = [closer EXCEPT ![s] = "done"]
    /\ state' = [state EXCEPT ![s] = IF @ = "draining" THEN "closed" ELSE @]
    /\ handle' = [handle EXCEPT ![s] = FALSE]
    /\ published' = [published EXCEPT ![s] =
                        Append(@, IF state[s] = "crashed" THEN "none" ELSE why[s])]
    /\ UNCHANGED <<at, busy, aborted, comps, registry, browser, dirs,
                   why, doomed, mode>>

\* The close settles: closed unless crashed, detached, announced.
EndClose(s) ==
    /\ closer[s] = "settling"
    /\ closer' = [closer EXCEPT ![s] = "done"]
    /\ state' = [state EXCEPT ![s] = IF @ = "draining" THEN "closed" ELSE @]
    /\ handle' = [handle EXCEPT ![s] = FALSE]
    /\ published' = [published EXCEPT ![s] = Append(@, why[s])]
    /\ UNCHANGED <<at, busy, aborted, comps, registry, browser, dirs,
                   why, doomed, mode>>

-----------------------------------------------------------------------------
(* Browsers, leases, shutdown *)

\* The browser exits on its own; a handle that is or was being closed does not report it.
Crash(s) ==
    /\ \/ /\ browser[s] = "up"
          /\ browser' = [browser EXCEPT ![s] = "dead"]
          /\ state' = Crashed(s)
       \/ /\ browser[s] = "left"
          /\ browser' = [browser EXCEPT ![s] = "gone"]
          /\ UNCHANGED state
    /\ UNCHANGED <<at, busy, aborted, comps, registry, handle, dirs,
                   closer, why, published, doomed, mode>>

\* The handle's teardown ends, with its deadline at the latest, and the process may be left: a
\* close of context or browser that is rejected counts as done; an overrun kills nothing if the
\* handle has no browser (a persistent context's), nor if the browser names no process to kill.
HandleClosed(s) ==
    /\ browser[s] = "closing"
    /\ \E end \in {"gone", "left"} : browser' = [browser EXCEPT ![s] = end]
    /\ UNCHANGED <<at, busy, aborted, comps, state, registry, handle,
                   dirs, closer, why, published, doomed, mode>>

\* The operator-request broker pauses and resumes the lease of a registered session.
PauseOrResume(s) ==
    /\ s \in registry /\ CanServeTools(s)
    /\ state' = [state EXCEPT ![s] = IF @ = "live" THEN "paused" ELSE "live"]
    /\ UNCHANGED <<at, busy, aborted, comps, registry, handle,
                   browser, dirs, closer, why, published, doomed, mode>>

\* build-domain's stop calls closeAll: the registry is listed once and every close is called.
CloseAll ==
    /\ mode = "up"
    /\ mode' = "closing" /\ doomed' = registry /\ registry' = {}
    /\ closer' = [s \in Sessions |-> IF s \in registry THEN "claimed" ELSE closer[s]]
    /\ why' = [s \in Sessions |-> IF s \in registry THEN "shutdown" ELSE why[s]]
    /\ UNCHANGED <<at, busy, aborted, comps, state, handle, browser,
                   dirs, published>>

\* closeAll settles once the closes it called did.
CloseAllDone ==
    /\ mode = "closing" /\ \A s \in doomed : closer[s] = "done"
    /\ mode' = "drained"
    /\ UNCHANGED <<at, busy, aborted, comps, state, registry, handle,
                   browser, dirs, closer, why, published, doomed>>

Next ==
    \/ \E s \in Sessions :
        \/ Admit(s) \/ Reserve(s) \/ Interrupt(s) \/ NextPhase(s) \/ Register(s)
        \/ MakeDir(s) \/ DirsMade(s) \/ Launched(s) \/ PhaseDone(s)
        \/ PhaseThrows(s) \/ Abort(s) \/ LateLaunch(s)
        \/ CloseLaunched(s) \/ RemoveDirs(s) \/ Finalize(s)
        \/ Drain(s) \/ CloseHandle(s) \/ CleanUp(s) \/ EndClose(s)
        \/ Crash(s) \/ HandleClosed(s) \/ PauseOrResume(s)
        \/ \E reason \in Reasons : Claim(s, reason)
    \/ CloseAll \/ CloseAllDone

Spec == Init /\ [][Next]_vars

\* What runs on by itself.  A launch need not end, in time or late: the deadline's timer ends
\* the wait for it.
Progress(s) ==
    \/ Reserve(s) \/ Interrupt(s) \/ NextPhase(s) \/ Register(s)
    \/ DirsMade(s) \/ PhaseDone(s)
    \/ CloseLaunched(s) \/ RemoveDirs(s) \/ Finalize(s)
    \/ Drain(s) \/ CloseHandle(s) \/ CleanUp(s) \/ EndClose(s) \/ HandleClosed(s)

Fairness ==
    \A s \in Sessions :
        WF_vars(Progress(s)) /\ WF_vars(Abort(s)) /\ WF_vars(Claim(s, "crash"))

FairSpec == Spec /\ Fairness
-----------------------------------------------------------------------------
(* Properties *)

Ended == {"served", "failed", "refused"}

\* Type invariant of sessions, creations and closes.
TypeOK ==
    /\ at \in [Sessions -> Phases \cup Ended \cup {"idle", "unwinding"}]
    /\ busy \in [Sessions -> BOOLEAN]
    /\ aborted \in [Sessions -> BOOLEAN]
    /\ comps \in [Sessions -> SUBSET {"reserve", "prepareProfile", "launch"}]
    /\ state \in [Sessions -> {"none", "reserved", "launching", "live", "paused",
                               "draining", "closed", "crashed"}]
    /\ registry \subseteq Sessions
    /\ handle \in [Sessions -> BOOLEAN]
    /\ browser \in [Sessions -> {"none", "launching", "up", "dead", "closing",
                                 "gone", "left"}]
    /\ dirs \in [Sessions -> {"none", "partial", "made", "left"}]
    /\ closer \in [Sessions -> {"none", "claimed", "tracing", "awaiting",
                                "cleaning", "settling", "done"}]
    /\ why \in [Sessions -> Reasons \cup {"none"}]
    /\ published \in [Sessions -> Seq(Reasons)]
    /\ doomed \subseteq Sessions
    /\ mode \in {"up", "closing", "drained"}

\* The cap holds for the sessions that occupy capacity, whatever number of creations passed the
\* early check on the same registry (create-phases.ts: "two creates may both pass admit").
CapacityHolds == Cardinality(registry) <= MaxSessions

\* A session tools may drive is in the registry, where the sweeper, the operator and closeAll
\* find it, or a close has just taken it: no close or crash during the launch leaves it live.
DrivableIsRegistered ==
    \A s \in Sessions : CanServeTools(s) => s \in registry \/ closer[s] = "claimed"

\* A browser process always has somebody who will close it: the creation that has the
\* compensator, a registered session, or a close that has the handle.
BrowserHasOwner ==
    \A s \in Sessions : browser[s] \in {"up", "dead"} =>
        \/ "launch" \in comps[s]
        \/ handle[s] /\ (s \in registry \/ closer[s] \in {"claimed", "tracing"})

\* A failed launch has unwound every phase that ran (D-21), even when a close, a crash or the
\* lease sweeper worked on the same session: it holds no capacity and no handle, its browser was
\* torn down and its tree removed, as far as the teardown and the removal got.  Only a launch that
\* was given up is still in the driver, or in the close that follows it.  (A tree whose mkdirs
\* threw half-way has no compensator, and stays.)
FailedLaunchIsUnwound ==
    \A s \in Sessions : at[s] = "failed" =>
        /\ s \notin registry /\ ~handle[s]
        /\ state[s] \in {"closed", "crashed"}
        /\ \/ browser[s] \in {"none", "gone", "left"}
           \/ browser[s] \in {"launching", "closing"} /\ aborted[s]
        /\ dirs[s] # "made"

\* Capacity, registry, browsers and trees add up at every await of creations and closes.
HostIsAccounted ==
    CapacityHolds /\ DrivableIsRegistered /\ BrowserHasOwner /\ FailedLaunchIsUnwound

\* session.closed of a session that was served comes when the close is through: the teardown of
\* its browser ran to its end, its handle is dropped, it is registered no more, and it is closed
\* or crashed.  That the process is gone is not among it: a teardown may leave it.
AnnouncedIsTornDown ==
    \A s \in Sessions : at[s] = "served" /\ published[s] # <<>> =>
        /\ TornDown(s) /\ ~handle[s] /\ s \notin registry
        /\ state[s] \in {"closed", "crashed"}

\* One close owns a session: of an agent, an operator, the sweeper, the crash handler and
\* closeAll exactly one announces it; a failed launch announces itself besides.
OneCloseAnnounces ==
    \A s \in Sessions : \A i, j \in DOMAIN published[s] :
        published[s][i] # "launch_failed" /\ published[s][j] # "launch_failed" => i = j

\* What session.closed tells its observers is said once, and after the teardown.
AnnouncementsAreTrue == AnnouncedIsTornDown /\ OneCloseAnnounces

\* Every creation ends, with its deadline at the latest, whoever closed the session meanwhile.
CreationsEnd ==
    \A s \in Sessions : (at[s] \in Phases \cup {"unwinding"}) ~> (at[s] \in Ended)

\* A session that is closed or crashed is announced, so its observers let go of it.
EndsAreAnnounced ==
    \A s \in Sessions :
        (state[s] \in {"draining", "closed", "crashed"}) ~> (published[s] # <<>>)

\* A browser the driver delivered does not outlive its session unattended: whoever closed the
\* session, and whenever, its teardown is started and ends.  (A launch that never ends is out of
\* reach, and so is a process that its teardown left.)
TeardownsEnd ==
    \A s \in Sessions :
        (at[s] \in Ended /\ state[s] \in {"draining", "closed", "crashed"}
             /\ browser[s] \in {"up", "dead", "closing"})
            ~> TornDown(s)

\* A launch ends for those who wait for it, and a browser it delivers is torn down with its
\* session, whether the driver delivers in time, late or never.
LaunchesEnd == CreationsEnd /\ TeardownsEnd
=============================================================================
