----------------------- MODULE SessionLifecycleProofs -----------------------
(***************************************************************************)
(* Theorems about SessionLifecycle, for any number of sessions and any     *)
(* capacity: types, the accounts of the host, and the announcements.       *)
(*                                                                         *)
(* The inductive invariant says of each session how far its creation and   *)
(* its close can have got with respect to each other, and who is           *)
(* responsible for its browser, its tree and its place meanwhile.  A step  *)
(* works on one session and leaves the others as they are; only closeAll   *)
(* works on all.                                                           *)
(***************************************************************************)
EXTENDS SessionLifecycle, FiniteSetTheorems, TLAPS

Going == {"reserved", "launching", "live", "paused"}
Over == {"closed", "crashed"}

\* A creation that has not reserved has nothing, and nobody knows its session.
Unstarted(s) == at[s] \in {"idle", "refused"} \/ (at[s] = "reserve" /\ busy[s])

UnstartedIsNothing(s) ==
    Unstarted(s) =>
        state[s] = "none" /\ comps[s] = {} /\ s \notin registry /\ closer[s] = "none"

\* The registry hands a session to one close.
RegisteredIsUnclaimed(s) == s \in registry => closer[s] = "none" /\ state[s] # "none"

\* A session is drained as soon as its close comes back from the lock.
GoingIsRegistered(s) == state[s] \in Going => s \in registry \/ closer[s] = "claimed"

DrainedIsOver(s) ==
    /\ closer[s] \in {"tracing", "awaiting", "cleaning", "settling"} =>
           state[s] \in Over \cup {"draining"}
    /\ closer[s] = "done" => state[s] \in Over

ClosesForAReason(s) == closer[s] # "none" => why[s] # "none" /\ state[s] # "none"

\* The compensator of the launch is there from the launch to the end of the creation.
HasLaunched(s) ==
    at[s] \in {"installPolicies", "applyIdentity"} \/ (at[s] = "launch" /\ ~busy[s])

LaunchIsCompensated(s) ==
    /\ HasLaunched(s) => "launch" \in comps[s]
    /\ "launch" \in comps[s] => HasLaunched(s) \/ at[s] = "unwinding"

\* A handle stays attached until its close settles.
HandleUntilSettled(s) ==
    "launch" \in comps[s] \/ at[s] = "served" => handle[s] \/ closer[s] = "done"

\* BrowserHasOwner, where the creation is over only if it served.
BrowserIsOwned(s) ==
    browser[s] \in {"up", "dead"} =>
        \/ "launch" \in comps[s]
        \/ /\ at[s] = "served" /\ handle[s]
           /\ s \in registry \/ closer[s] \in {"claimed", "tracing"}

TreeIsOwned(s) == dirs[s] = "made" => "prepareProfile" \in comps[s] \/ at[s] = "served"

\* The close of a session that was served awaits the teardown of its browser.
CloseTearsDown(s) ==
    at[s] = "served" /\ closer[s] \in {"cleaning", "settling", "done"} => TornDown(s)

\* A browser is with the driver, or being closed, for somebody who waits for it, unless its launch
\* was given up.
PendingIsAwaited(s) ==
    browser[s] \in {"launching", "closing"} =>
        \/ at[s] = "launch" /\ busy[s]
        \/ "launch" \in comps[s]
        \/ at[s] = "served"
        \/ aborted[s]

FailedIsOver(s) ==
    at[s] = "failed" =>
        s \notin registry /\ comps[s] = {} /\ ~handle[s] /\ state[s] \in Over

\* Only a failed launch and a close that settled announce.
AnnouncedAtTheEnd(s) ==
    /\ published[s] # <<>> => closer[s] = "done" \/ at[s] = "failed"
    /\ closer[s] = "done" /\ at[s] = "served" => ~handle[s]
    /\ closer[s] # "done" =>
           \A i \in DOMAIN published[s] : published[s][i] = "launch_failed"

AnnouncedOnce(s) ==
    \A i, j \in DOMAIN published[s] :
        published[s][i] # "launch_failed" /\ published[s][j] # "launch_failed" => i = j

\* Where a session stands, who owns what it holds, and what was announced of it.
Standing(s) ==
    /\ UnstartedIsNothing(s) /\ RegisteredIsUnclaimed(s) /\ GoingIsRegistered(s)
    /\ DrainedIsOver(s) /\ ClosesForAReason(s) /\ FailedIsOver(s)

Owned(s) ==
    /\ LaunchIsCompensated(s) /\ HandleUntilSettled(s) /\ BrowserIsOwned(s) /\ TreeIsOwned(s)
    /\ CloseTearsDown(s) /\ PendingIsAwaited(s)

Announced(s) == AnnouncedAtTheEnd(s) /\ AnnouncedOnce(s)

Sound(s) == Standing(s) /\ Owned(s) /\ Announced(s)

LifeInv == \A s \in Sessions : Sound(s)

Capacity == IsFiniteSet(registry) /\ CapacityHolds

-----------------------------------------------------------------------------

\* What the phases are, and which follows which.
LEMMA PhaseFacts ==
    /\ Phases = {"reserve", "prepareProfile", "resolveIdentity", "launch", "installPolicies",
                 "applyIdentity"}
    /\ \A p \in Phases \ {"applyIdentity"} :
          /\ PhaseAfter[p] \in Phases \ {"reserve"}
          /\ PhaseAfter[p] = "launch" <=> p = "resolveIdentity"
          /\ PhaseAfter[p] \in {"installPolicies", "applyIdentity"} <=>
                 p \in {"launch", "installPolicies"}
  BY DEF Phases, PhaseAfter

\* A step leaves a session as it is.
Same(s) ==
    /\ at'[s] = at[s] /\ busy'[s] = busy[s] /\ aborted'[s] = aborted[s] /\ comps'[s] = comps[s]
    /\ state'[s] = state[s] /\ handle'[s] = handle[s] /\ browser'[s] = browser[s]
    /\ dirs'[s] = dirs[s] /\ closer'[s] = closer[s] /\ why'[s] = why[s]
    /\ published'[s] = published[s]
    /\ (s \in registry') = (s \in registry)

USE DEF Going, Over

\* Such a session stays sound.
LEMMA SameIsSound ==
    ASSUME NEW s \in Sessions, Sound(s), Same(s)
    PROVE  Sound(s)'
<1>1. Standing(s)'
  BY DEF Sound, Same, Unstarted, Standing, UnstartedIsNothing, RegisteredIsUnclaimed,
         GoingIsRegistered, DrainedIsOver, ClosesForAReason, FailedIsOver
<1>2. Owned(s)'
  BY DEF Sound, Same, HasLaunched, Owned, LaunchIsCompensated, HandleUntilSettled,
         BrowserIsOwned, TreeIsOwned, CloseTearsDown, PendingIsAwaited, TornDown
<1>3. Announced(s)'
  BY DEF Sound, Same, Announced, AnnouncedAtTheEnd, AnnouncedOnce
<1>4. QED
  BY <1>1, <1>2, <1>3 DEF Sound

-----------------------------------------------------------------------------

\* The steps that work on one session.
Step(s) ==
    \/ Admit(s) \/ Reserve(s) \/ Interrupt(s) \/ NextPhase(s) \/ Register(s)
    \/ MakeDir(s) \/ DirsMade(s) \/ Launched(s) \/ PhaseDone(s)
    \/ PhaseThrows(s) \/ Abort(s) \/ LateLaunch(s)
    \/ CloseLaunched(s) \/ RemoveDirs(s) \/ Finalize(s)
    \/ Drain(s) \/ CloseHandle(s) \/ CleanUp(s) \/ EndClose(s)
    \/ Crash(s) \/ HandleClosed(s) \/ PauseOrResume(s)
    \/ \E reason \in Reasons : Claim(s, reason)

\* Next is a step of one session, or of closeAll.
LEMMA NextIsStep == Next <=> (\E s \in Sessions : Step(s)) \/ CloseAll \/ CloseAllDone
  BY DEF Next, Step

\* An update with a value of the type keeps a function's type.
LEMMA ExceptType ==
    ASSUME NEW S, NEW T, NEW f \in [S -> T], NEW x \in S, NEW v \in T
    PROVE  [f EXCEPT ![x] = v] \in [S -> T]
OBVIOUS

\* A step keeps the types.
LEMMA TypeStep ==
    ASSUME TypeOK, LifeInv, NEW s \in Sessions, Step(s)
    PROVE  TypeOK'
<1>1. CASE Admit(s)
  <2>1. at' \in [Sessions -> Phases \cup Ended \cup {"idle", "unwinding"}]
    <3>1. \E v \in {"reserve", "refused"} : at' = [at EXCEPT ![s] = v]
      BY <1>1 DEF Admit
    <3>2. at \in [Sessions -> Phases \cup Ended \cup {"idle", "unwinding"}]
      BY DEF TypeOK
    <3>3. "reserve" \in Phases /\ "refused" \in Ended
      BY PhaseFacts DEF Ended
    <3>4. QED
      BY <3>1, <3>2, <3>3, ExceptType
  <2>2. busy' \in [Sessions -> BOOLEAN]
    BY <1>1 DEF Admit, TypeOK
  <2>3. QED
    BY <1>1, <2>1, <2>2 DEF Admit, TypeOK
<1>2. CASE Reserve(s)
  <2>1. at' \in [Sessions -> Phases \cup Ended \cup {"idle", "unwinding"}]
    <3>1. at' = at \/ at' = [at EXCEPT ![s] = "refused"]
      BY <1>2 DEF Reserve
    <3>2. QED
      BY <3>1 DEF Ended, TypeOK
  <2>2. state' \in [Sessions -> {"none", "reserved", "launching", "live", "paused",
                                     "draining", "closed", "crashed"}]
    <3>1. state' = state \/ state' = [state EXCEPT ![s] = "reserved"]
      BY <1>2 DEF Reserve
    <3>2. QED
      BY <3>1 DEF TypeOK
  <2>3. comps' \in [Sessions -> SUBSET {"reserve", "prepareProfile", "launch"}]
    <3>1. comps' = comps \/ comps' = [comps EXCEPT ![s] = comps[s] \cup {"reserve"}]
      BY <1>2 DEF Reserve
    <3>2. comps \in [Sessions -> SUBSET {"reserve", "prepareProfile", "launch"}]
      BY DEF TypeOK
    <3>3. comps[s] \cup {"reserve"} \in SUBSET {"reserve", "prepareProfile", "launch"}
      BY <3>2
    <3>4. QED
      BY <3>1, <3>2, <3>3, ExceptType
  <2>4. registry' \subseteq Sessions
    BY <1>2 DEF Reserve, TypeOK
  <2>5. QED
    BY <1>2, <2>1, <2>2, <2>3, <2>4 DEF Reserve, TypeOK
<1>3. CASE Interrupt(s)
  BY <1>3, PhaseFacts DEF Interrupt, Interrupted, TypeOK
<1>4. CASE NextPhase(s)
  BY <1>4, PhaseFacts DEF NextPhase, Interrupted, TypeOK
<1>5. CASE Register(s)
  <2>1. at' \in [Sessions -> Phases \cup Ended \cup {"idle", "unwinding"}]
    BY <1>5, PhaseFacts DEF Register, Ended, TypeOK
  <2>2. state' \in [Sessions -> {"none", "reserved", "launching", "live", "paused",
                                     "draining", "closed", "crashed"}]
    BY <1>5 DEF Register, TypeOK
  <2>3. comps' \in [Sessions -> SUBSET {"reserve", "prepareProfile", "launch"}]
    BY <1>5 DEF Register, TypeOK
  <2>4. QED
    BY <1>5, <2>1, <2>2, <2>3 DEF Register, TypeOK
<1>6. CASE MakeDir(s)
  BY <1>6, PhaseFacts DEF MakeDir, TypeOK
<1>7. CASE DirsMade(s)
  BY <1>7, PhaseFacts DEF DirsMade, TypeOK
<1>8. CASE Launched(s)
  BY <1>8, PhaseFacts DEF Launched, TypeOK
<1>9. CASE PhaseDone(s)
  BY <1>9, PhaseFacts DEF PhaseDone, Passive, TypeOK
<1>10. CASE PhaseThrows(s)
  <2>1. browser' = browser \/ \E end \in {"gone", "left"} : browser' = [browser EXCEPT ![s] = end]
    BY <1>10 DEF PhaseThrows
  <2>2. browser' \in [Sessions -> {"none", "launching", "up", "dead", "closing", "gone", "left"}]
    BY <2>1 DEF TypeOK
  <2>3. QED
    BY <1>10, <2>2 DEF PhaseThrows, TypeOK
<1>11. CASE Abort(s)
  <2>1. at' \in [Sessions -> Phases \cup Ended \cup {"idle", "unwinding"}]
    <3>1. at' = at \/ at' = [at EXCEPT ![s] = "unwinding"]
      BY <1>11 DEF Abort
    <3>2. QED
      BY <3>1 DEF TypeOK
  <2>2. busy' \in [Sessions -> BOOLEAN]
    BY <1>11 DEF Abort, TypeOK
  <2>3. QED
    BY <1>11, <2>1, <2>2 DEF Abort, TypeOK
<1>12. CASE LateLaunch(s)
  BY <1>12, PhaseFacts DEF LateLaunch, TypeOK
<1>13. CASE CloseLaunched(s)
  <2>1. browser' \in [Sessions -> {"none", "launching", "up", "dead", "closing", "gone", "left"}]
    <3>1. \/ browser' = browser
          \/ browser' = [browser EXCEPT ![s] = IF @ \in {"up", "dead"} THEN "closing" ELSE @]
      BY <1>13 DEF CloseLaunched, HandleClose
    <3>2. browser \in [Sessions -> {"none", "launching", "up", "dead", "closing", "gone", "left"}]
      BY DEF TypeOK
    <3>3. (IF browser[s] \in {"up", "dead"} THEN "closing" ELSE browser[s])
              \in {"none", "launching", "up", "dead", "closing", "gone", "left"}
      BY <3>2
    <3>4. QED
      BY <3>1, <3>2, <3>3, ExceptType
  <2>2. comps' \in [Sessions -> SUBSET {"reserve", "prepareProfile", "launch"}]
    <3>1. comps' = comps \/ comps' = [comps EXCEPT ![s] = comps[s] \ {"launch"}]
      BY <1>13 DEF CloseLaunched
    <3>2. comps \in [Sessions -> SUBSET {"reserve", "prepareProfile", "launch"}]
      BY DEF TypeOK
    <3>3. comps[s] \ {"launch"} \in SUBSET {"reserve", "prepareProfile", "launch"}
      BY <3>2
    <3>4. QED
      BY <3>1, <3>2, <3>3, ExceptType
  <2>3. QED
    BY <1>13, <2>1, <2>2 DEF CloseLaunched, TypeOK
<1>14. CASE RemoveDirs(s)
  BY <1>14, PhaseFacts DEF RemoveDirs, TypeOK
<1>15. CASE Finalize(s)
  <2>1. at' \in [Sessions -> Phases \cup Ended \cup {"idle", "unwinding"}]
    BY <1>15 DEF Finalize, Ended, TypeOK
  <2>2. comps' \in [Sessions -> SUBSET {"reserve", "prepareProfile", "launch"}]
    BY <1>15 DEF Finalize, TypeOK
  <2>3. state' \in [Sessions -> {"none", "reserved", "launching", "live", "paused",
                                     "draining", "closed", "crashed"}]
    BY <1>15 DEF Finalize, TypeOK
  <2>4. handle' \in [Sessions -> BOOLEAN]
    BY <1>15 DEF Finalize, TypeOK
  <2>5. published' \in [Sessions -> Seq(Reasons)]
    BY <1>15 DEF Finalize, Reasons, TypeOK
  <2>6. QED
    BY <1>15, <2>1, <2>2, <2>3, <2>4, <2>5 DEF Finalize, TypeOK
<1>16. CASE Drain(s)
  <2>1. state' \in [Sessions -> {"none", "reserved", "launching", "live", "paused",
                                     "draining", "closed", "crashed"}]
    BY <1>16 DEF Drain, Drained, TypeOK
  <2>2. closer' \in [Sessions -> {"none", "claimed", "tracing", "awaiting",
                                      "cleaning", "settling", "done"}]
    BY <1>16 DEF Drain, TypeOK
  <2>3. why' \in [Sessions -> Reasons \cup {"none"}]
    BY <1>16 DEF Drain, Reasons, TypeOK
  <2>4. QED
    BY <1>16, <2>1, <2>2, <2>3 DEF Drain, TypeOK
<1>17. CASE CloseHandle(s)
  <2>1. browser' \in [Sessions -> {"none", "launching", "up", "dead", "closing", "gone", "left"}]
    <3>1. \/ browser' = browser
          \/ browser' = [browser EXCEPT ![s] = IF @ \in {"up", "dead"} THEN "closing" ELSE @]
      BY <1>17 DEF CloseHandle, HandleClose
    <3>2. browser \in [Sessions -> {"none", "launching", "up", "dead", "closing", "gone", "left"}]
      BY DEF TypeOK
    <3>3. (IF browser[s] \in {"up", "dead"} THEN "closing" ELSE browser[s])
              \in {"none", "launching", "up", "dead", "closing", "gone", "left"}
      BY <3>2
    <3>4. QED
      BY <3>1, <3>2, <3>3, ExceptType
  <2>2. closer' \in [Sessions -> {"none", "claimed", "tracing", "awaiting",
                                      "cleaning", "settling", "done"}]
    <3>1. closer' = [closer EXCEPT ![s] = "awaiting"] \/ closer' = [closer EXCEPT ![s] = "cleaning"]
      BY <1>17 DEF CloseHandle
    <3>2. closer \in [Sessions -> {"none", "claimed", "tracing", "awaiting",
                                   "cleaning", "settling", "done"}]
      BY DEF TypeOK
    <3>3. QED
      BY <3>1, <3>2
  <2>3. QED
    BY <1>17, <2>1, <2>2 DEF CloseHandle, TypeOK
<1>18. CASE CleanUp(s)
  BY <1>18, PhaseFacts DEF CleanUp, TypeOK
<1>19. CASE EndClose(s)
  <2>1. closer' \in [Sessions -> {"none", "claimed", "tracing", "awaiting",
                                      "cleaning", "settling", "done"}]
    BY <1>19 DEF EndClose, TypeOK
  <2>2. state' \in [Sessions -> {"none", "reserved", "launching", "live", "paused",
                                     "draining", "closed", "crashed"}]
    BY <1>19 DEF EndClose, TypeOK
  <2>3. handle' \in [Sessions -> BOOLEAN]
    BY <1>19 DEF EndClose, TypeOK
  <2>4. published' \in [Sessions -> Seq(Reasons)]
    BY <1>19 DEF EndClose, LifeInv, Sound, Standing, ClosesForAReason, TypeOK
  <2>5. QED
    BY <1>19, <2>1, <2>2, <2>3, <2>4 DEF EndClose, TypeOK
<1>20. CASE Crash(s)
  <2>1. browser' \in [Sessions -> {"none", "launching", "up", "dead", "closing", "gone", "left"}]
    <3>1. \E v \in {"dead", "gone"} : browser' = [browser EXCEPT ![s] = v]
      BY <1>20 DEF Crash
    <3>2. browser \in [Sessions -> {"none", "launching", "up", "dead", "closing", "gone", "left"}]
      BY DEF TypeOK
    <3>3. QED
      BY <3>1, <3>2
  <2>2. state' \in [Sessions -> {"none", "reserved", "launching", "live", "paused",
                                     "draining", "closed", "crashed"}]
    <3>1. state' = state \/ state' = [state EXCEPT ![s] = "crashed"]
      BY <1>20 DEF Crash, Crashed
    <3>2. QED
      BY <3>1 DEF TypeOK
  <2>3. QED
    BY <1>20, <2>1, <2>2 DEF Crash, TypeOK
<1>21. CASE HandleClosed(s)
  BY <1>21, PhaseFacts DEF HandleClosed, TypeOK
<1>22. CASE PauseOrResume(s)
  BY <1>22, PhaseFacts DEF PauseOrResume, CanServeTools, TypeOK
<1>23. CASE \E reason \in Reasons : Claim(s, reason)
  BY <1>23 DEF Claim, TypeOK
<1>24. QED
  BY <1>1, <1>2, <1>3, <1>4, <1>5, <1>6, <1>7, <1>8, <1>9, <1>10, <1>11, <1>12,
     <1>13, <1>14, <1>15, <1>16, <1>17, <1>18, <1>19, <1>20, <1>21, <1>22, <1>23 DEF Step

\* A step on a session leaves the others as they are.
LEMMA OthersStep ==
    ASSUME TypeOK, NEW s \in Sessions, Step(s), NEW q \in Sessions \ {s}
    PROVE  Same(q)
<1>1. CASE Admit(s)
  BY <1>1, PhaseFacts DEF Admit, Admitted, TypeOK, Same
<1>2. CASE Reserve(s)
  BY <1>2, PhaseFacts DEF Reserve, TypeOK, Same
<1>3. CASE Interrupt(s)
  BY <1>3, PhaseFacts DEF Interrupt, Interrupted, TypeOK, Same
<1>4. CASE NextPhase(s)
  BY <1>4, PhaseFacts DEF NextPhase, Interrupted, TypeOK, Same
<1>5. CASE Register(s)
  BY <1>5, PhaseFacts DEF Register, Interrupted, TypeOK, Same
<1>6. CASE MakeDir(s)
  BY <1>6, PhaseFacts DEF MakeDir, TypeOK, Same
<1>7. CASE DirsMade(s)
  BY <1>7, PhaseFacts DEF DirsMade, TypeOK, Same
<1>8. CASE Launched(s)
  BY <1>8, PhaseFacts DEF Launched, TypeOK, Same
<1>9. CASE PhaseDone(s)
  BY <1>9, PhaseFacts DEF PhaseDone, Passive, TypeOK, Same
<1>10. CASE PhaseThrows(s)
  BY <1>10, PhaseFacts DEF PhaseThrows, TypeOK, Same
<1>11. CASE Abort(s)
  BY <1>11, PhaseFacts DEF Abort, TypeOK, Same
<1>12. CASE LateLaunch(s)
  BY <1>12, PhaseFacts DEF LateLaunch, TypeOK, Same
<1>13. CASE CloseLaunched(s)
  BY <1>13, PhaseFacts DEF CloseLaunched, HandleClose, TypeOK, Same
<1>14. CASE RemoveDirs(s)
  BY <1>14, PhaseFacts DEF RemoveDirs, TypeOK, Same
<1>15. CASE Finalize(s)
  BY <1>15, PhaseFacts DEF Finalize, TypeOK, Same
<1>16. CASE Drain(s)
  BY <1>16, PhaseFacts DEF Drain, Drained, TypeOK, Same
<1>17. CASE CloseHandle(s)
  BY <1>17, PhaseFacts DEF CloseHandle, HandleClose, TypeOK, Same
<1>18. CASE CleanUp(s)
  BY <1>18, PhaseFacts DEF CleanUp, TypeOK, Same
<1>19. CASE EndClose(s)
  BY <1>19, PhaseFacts DEF EndClose, TypeOK, Same
<1>20. CASE Crash(s)
  BY <1>20, PhaseFacts DEF Crash, Crashed, TypeOK, Same
<1>21. CASE HandleClosed(s)
  BY <1>21, PhaseFacts DEF HandleClosed, TypeOK, Same
<1>22. CASE PauseOrResume(s)
  BY <1>22, PhaseFacts DEF PauseOrResume, CanServeTools, TypeOK, Same
<1>23. CASE \E reason \in Reasons : Claim(s, reason)
  BY <1>23 DEF Claim, TypeOK, Same
<1>24. QED
  BY <1>1, <1>2, <1>3, <1>4, <1>5, <1>6, <1>7, <1>8, <1>9, <1>10, <1>11, <1>12,
     <1>13, <1>14, <1>15, <1>16, <1>17, <1>18, <1>19, <1>20, <1>21, <1>22, <1>23 DEF Step

\* The next phase is not the first, it runs, and it finds or leaves the launch behind.
LEMMA NextPhaseFacts ==
    ASSUME TypeOK, NEW s \in Sessions, NextPhase(s)
    PROVE  /\ ~Unstarted(s) /\ at[s] \notin {"served", "failed", "unwinding"}
           /\ ~Unstarted(s)' /\ at'[s] \notin {"served", "failed", "unwinding"}
           /\ HasLaunched(s)' = HasLaunched(s)
           /\ state[s] \in {"reserved", "launching"} /\ state'[s] = "launching"
           /\ \/ browser'[s] = browser[s]
              \/ browser'[s] = "launching" /\ at'[s] = "launch" /\ busy'[s]
           /\ ~busy[s]
           /\ UNCHANGED <<aborted, comps, registry, handle, dirs, closer, why, published>>
<1>1. /\ at[s] \in Phases \ {"applyIdentity"} /\ ~busy[s]
      /\ state[s] \in {"reserved", "launching"}
  BY DEF NextPhase, Interrupted
<1>2. at'[s] = PhaseAfter[at[s]] /\ busy'[s] /\ state'[s] = "launching"
  BY DEF NextPhase, TypeOK
<1>3. at'[s] \in Phases \ {"reserve"}
  BY <1>1, <1>2, PhaseFacts
<1>4. HasLaunched(s)' <=> at[s] \in {"launch", "installPolicies"}
  BY <1>1, <1>2, PhaseFacts DEF HasLaunched
<1>5. HasLaunched(s) <=> at[s] \in {"launch", "installPolicies"}
  BY <1>1, PhaseFacts DEF HasLaunched
<1>6. \/ browser'[s] = browser[s]
      \/ browser'[s] = "launching" /\ at'[s] = "launch" /\ busy'[s]
  BY <1>2 DEF NextPhase, TypeOK
<1>7. UNCHANGED <<aborted, comps, registry, handle, dirs, closer, why, published>>
  BY DEF NextPhase
<1>8. ~Unstarted(s)' /\ at'[s] \notin {"served", "failed", "unwinding"}
  BY <1>3, PhaseFacts DEF Unstarted
<1>9. ~Unstarted(s) /\ at[s] \notin {"served", "failed", "unwinding"}
  BY <1>1, PhaseFacts DEF Unstarted
<1>10. HasLaunched(s)' = HasLaunched(s)
  BY <1>4, <1>5 DEF HasLaunched
<1>11. QED
  BY <1>1, <1>2, <1>6, <1>7, <1>8, <1>9, <1>10

\* A step leaves its session where it may stand.
LEMMA StandingStep ==
    ASSUME TypeOK, LifeInv, NEW s \in Sessions, Step(s)
    PROVE  Standing(s)'
<1>. USE PhaseFacts DEF TypeOK, LifeInv, Sound, Standing, Unstarted, UnstartedIsNothing,
         RegisteredIsUnclaimed, GoingIsRegistered, DrainedIsOver, ClosesForAReason, FailedIsOver
<1>1. CASE Admit(s)
  BY <1>1 DEF Admit, Admitted
<1>2. CASE Reserve(s)
  BY <1>2 DEF Reserve
<1>3. CASE Interrupt(s)
  BY <1>3 DEF Interrupt, Interrupted
<1>4. CASE NextPhase(s)
  BY <1>4, NextPhaseFacts
<1>5. CASE Register(s)
  BY <1>5 DEF Register, Interrupted
<1>6. CASE MakeDir(s)
  BY <1>6 DEF MakeDir
<1>7. CASE DirsMade(s)
  BY <1>7 DEF DirsMade
<1>8. CASE Launched(s)
  BY <1>8 DEF Launched
<1>9. CASE PhaseDone(s)
  BY <1>9 DEF PhaseDone, Passive
<1>10. CASE PhaseThrows(s)
  BY <1>10 DEF PhaseThrows
<1>11. CASE Abort(s)
  BY <1>11 DEF Abort
<1>12. CASE LateLaunch(s)
  BY <1>12 DEF LateLaunch
<1>13. CASE CloseLaunched(s)
  BY <1>13 DEF CloseLaunched, HandleClose
<1>14. CASE RemoveDirs(s)
  BY <1>14 DEF RemoveDirs
<1>15. CASE Finalize(s)
  BY <1>15 DEF Finalize
<1>16. CASE Drain(s)
  BY <1>16 DEF Drain, Drained
<1>17. CASE CloseHandle(s)
  BY <1>17 DEF CloseHandle, HandleClose
<1>18. CASE CleanUp(s)
  BY <1>18 DEF CleanUp
<1>19. CASE EndClose(s)
  BY <1>19 DEF EndClose
<1>20. CASE Crash(s)
  BY <1>20 DEF Crash, Crashed
<1>21. CASE HandleClosed(s)
  BY <1>21 DEF HandleClosed
<1>22. CASE PauseOrResume(s)
  <2>1. /\ s \in registry /\ state[s] \in {"live", "paused"} /\ state'[s] \in {"live", "paused"}
        /\ UNCHANGED <<at, busy, comps, registry, handle, closer, why>>
    BY <1>22 DEF PauseOrResume, CanServeTools
  <2>2. closer[s] = "none"
    BY <2>1
  <2>3. QED
    BY <2>1, <2>2
<1>23. CASE \E reason \in Reasons : Claim(s, reason)
  BY <1>23 DEF Claim, Reasons
<1>24. QED
  BY <1>1, <1>2, <1>3, <1>4, <1>5, <1>6, <1>7, <1>8, <1>9, <1>10, <1>11, <1>12,
     <1>13, <1>14, <1>15, <1>16, <1>17, <1>18, <1>19, <1>20, <1>21, <1>22, <1>23 DEF Step

\* A step leaves what its session holds with an owner.
LEMMA OwnedStep ==
    ASSUME TypeOK, LifeInv, NEW s \in Sessions, Step(s)
    PROVE  Owned(s)'
<1>. USE PhaseFacts DEF TypeOK, LifeInv, Sound, Standing, Owned, Unstarted, HasLaunched,
         UnstartedIsNothing, RegisteredIsUnclaimed, GoingIsRegistered, DrainedIsOver,
         FailedIsOver, LaunchIsCompensated, HandleUntilSettled, BrowserIsOwned, TreeIsOwned,
         CloseTearsDown, PendingIsAwaited, TornDown
<1>1. CASE Admit(s)
  BY <1>1 DEF Admit, Admitted
<1>2. CASE Reserve(s)
  BY <1>2 DEF Reserve
<1>3. CASE Interrupt(s)
  BY <1>3 DEF Interrupt, Interrupted
<1>4. CASE NextPhase(s)
  BY <1>4, NextPhaseFacts
<1>5. CASE Register(s)
  BY <1>5 DEF Register, Interrupted
<1>6. CASE MakeDir(s)
  <2>1. /\ dirs'[s] = "partial"
        /\ UNCHANGED <<at, busy, aborted, comps, registry, handle, browser, closer>>
    BY <1>6 DEF MakeDir
  <2>2. QED
    BY <2>1
<1>7. CASE DirsMade(s)
  <2>1. /\ at[s] = "prepareProfile" /\ comps'[s] = comps[s] \cup {"prepareProfile"}
        /\ UNCHANGED <<at, busy, aborted, registry, handle, browser, closer>>
    BY <1>7 DEF DirsMade
  <2>2. QED
    BY <2>1
<1>8. CASE Launched(s)
  BY <1>8 DEF Launched
<1>9. CASE PhaseDone(s)
  BY <1>9 DEF PhaseDone, Passive
<1>10. CASE PhaseThrows(s)
  BY <1>10 DEF PhaseThrows
<1>11. CASE Abort(s)
  BY <1>11 DEF Abort
<1>12. CASE LateLaunch(s)
  <2>1. /\ browser[s] = "launching" /\ at[s] # "launch"
        /\ browser'[s] \in {"closing", "gone", "left"}
        /\ UNCHANGED <<at, busy, aborted, comps, registry, handle, dirs, closer>>
    BY <1>12 DEF LateLaunch
  <2>2. QED
    BY <2>1
<1>13. CASE CloseLaunched(s)
  BY <1>13 DEF CloseLaunched, HandleClose
<1>14. CASE RemoveDirs(s)
  <2>1. /\ at[s] = "unwinding" /\ "launch" \notin comps[s]
        /\ comps'[s] = comps[s] \ {"prepareProfile"} /\ dirs'[s] \in {"none", "left"}
        /\ UNCHANGED <<at, busy, aborted, registry, handle, browser, closer>>
    BY <1>14 DEF RemoveDirs
  <2>2. QED
    BY <2>1
<1>15. CASE Finalize(s)
  <2>1. /\ at[s] = "unwinding" /\ "launch" \notin comps[s] /\ "prepareProfile" \notin comps[s]
        /\ at'[s] = "failed" /\ comps'[s] = {}
        /\ UNCHANGED <<busy, aborted, browser, dirs, closer>>
    BY <1>15 DEF Finalize
  <2>2. /\ browser[s] \notin {"up", "dead"} /\ dirs[s] # "made"
        /\ browser[s] \in {"launching", "closing"} => aborted[s]
    BY <2>1
  <2>3. QED
    BY <2>1, <2>2
<1>16. CASE Drain(s)
  BY <1>16 DEF Drain, Drained
<1>17. CASE CloseHandle(s)
  BY <1>17 DEF CloseHandle, HandleClose
<1>18. CASE CleanUp(s)
  BY <1>18 DEF CleanUp
<1>19. CASE EndClose(s)
  BY <1>19 DEF EndClose
<1>20. CASE Crash(s)
  BY <1>20 DEF Crash, Crashed
<1>21. CASE HandleClosed(s)
  BY <1>21 DEF HandleClosed
<1>22. CASE PauseOrResume(s)
  BY <1>22 DEF PauseOrResume, CanServeTools
<1>23. CASE \E reason \in Reasons : Claim(s, reason)
  BY <1>23 DEF Claim, Reasons
<1>24. QED
  BY <1>1, <1>2, <1>3, <1>4, <1>5, <1>6, <1>7, <1>8, <1>9, <1>10, <1>11, <1>12,
     <1>13, <1>14, <1>15, <1>16, <1>17, <1>18, <1>19, <1>20, <1>21, <1>22, <1>23 DEF Step

\* A step announces at the end, and once.
LEMMA AnnouncedStep ==
    ASSUME TypeOK, LifeInv, NEW s \in Sessions, Step(s)
    PROVE  Announced(s)'
<1>. USE PhaseFacts DEF TypeOK, LifeInv, Sound, Standing, Announced, Unstarted,
         UnstartedIsNothing, RegisteredIsUnclaimed, DrainedIsOver, ClosesForAReason,
         FailedIsOver, AnnouncedAtTheEnd, AnnouncedOnce
<1>1. CASE Admit(s)
  BY <1>1 DEF Admit, Admitted
<1>2. CASE Reserve(s)
  BY <1>2 DEF Reserve
<1>3. CASE Interrupt(s)
  BY <1>3 DEF Interrupt, Interrupted
<1>4. CASE NextPhase(s)
  BY <1>4 DEF NextPhase, Interrupted
<1>5. CASE Register(s)
  BY <1>5 DEF Register, Interrupted
<1>6. CASE MakeDir(s)
  BY <1>6 DEF MakeDir
<1>7. CASE DirsMade(s)
  BY <1>7 DEF DirsMade
<1>8. CASE Launched(s)
  BY <1>8 DEF Launched
<1>9. CASE PhaseDone(s)
  BY <1>9 DEF PhaseDone, Passive
<1>10. CASE PhaseThrows(s)
  BY <1>10 DEF PhaseThrows
<1>11. CASE Abort(s)
  BY <1>11 DEF Abort
<1>12. CASE LateLaunch(s)
  BY <1>12 DEF LateLaunch
<1>13. CASE CloseLaunched(s)
  BY <1>13 DEF CloseLaunched, HandleClose
<1>14. CASE RemoveDirs(s)
  BY <1>14 DEF RemoveDirs
<1>15. CASE Finalize(s)
  <2>1. /\ at'[s] = "failed" /\ closer' = closer
        /\ published'[s] = Append(published[s], "launch_failed")
    BY <1>15 DEF Finalize
  <2>2. published[s] \in Seq(Reasons) /\ Len(published[s]) \in Nat
    OBVIOUS
  <2>3. \A i \in DOMAIN published'[s] :
            IF i = Len(published[s]) + 1 THEN published'[s][i] = "launch_failed"
            ELSE i \in DOMAIN published[s] /\ published'[s][i] = published[s][i]
    BY <2>1, <2>2
  <2>4. Announced(s)
    OBVIOUS
  <2>5. QED
    BY <2>1, <2>2, <2>3, <2>4
<1>16. CASE Drain(s)
  BY <1>16 DEF Drain, Drained
<1>17. CASE CloseHandle(s)
  BY <1>17 DEF CloseHandle, HandleClose
<1>18. CASE CleanUp(s)
  BY <1>18 DEF CleanUp
<1>19. CASE EndClose(s)
  <2>1. /\ closer[s] = "settling" /\ closer'[s] = "done" /\ ~handle'[s]
        /\ published'[s] = Append(published[s], why[s])
    BY <1>19 DEF EndClose
  <2>2. published[s] \in Seq(Reasons) /\ Len(published[s]) \in Nat
    OBVIOUS
  <2>3. \A i \in DOMAIN published'[s] :
            i # Len(published[s]) + 1 =>
                i \in DOMAIN published[s] /\ published'[s][i] = published[s][i]
    BY <2>1, <2>2
  <2>4. \A i \in DOMAIN published[s] : published[s][i] = "launch_failed"
    BY <2>1
  <2>5. QED
    BY <2>1, <2>3, <2>4
<1>20. CASE Crash(s)
  BY <1>20 DEF Crash, Crashed
<1>21. CASE HandleClosed(s)
  BY <1>21 DEF HandleClosed
<1>22. CASE PauseOrResume(s)
  BY <1>22 DEF PauseOrResume, CanServeTools
<1>23. CASE \E reason \in Reasons : Claim(s, reason)
  BY <1>23 DEF Claim, Reasons
<1>24. QED
  BY <1>1, <1>2, <1>3, <1>4, <1>5, <1>6, <1>7, <1>8, <1>9, <1>10, <1>11, <1>12,
     <1>13, <1>14, <1>15, <1>16, <1>17, <1>18, <1>19, <1>20, <1>21, <1>22, <1>23 DEF Step


\* A step keeps its session sound.
LEMMA SoundStep ==
    ASSUME TypeOK, LifeInv, NEW s \in Sessions, Step(s)
    PROVE  Sound(s)'
BY StandingStep, OwnedStep, AnnouncedStep DEF Sound

-----------------------------------------------------------------------------

\* closeAll keeps the types and takes every registered session.
LEMMA CloseAllStep ==
    ASSUME TypeOK, LifeInv, CloseAll
    PROVE  TypeOK' /\ LifeInv'
<1>1. /\ registry' = {}
      /\ \A s \in Sessions :
            /\ closer'[s] = IF s \in registry THEN "claimed" ELSE closer[s]
            /\ why'[s] = IF s \in registry THEN "shutdown" ELSE why[s]
  BY DEF CloseAll
<1>2. UNCHANGED <<at, busy, aborted, comps, state, handle, browser, dirs, published>>
  BY DEF CloseAll
<1>3. TypeOK'
  <2>1. closer' \in [Sessions -> {"none", "claimed", "tracing", "awaiting",
                                  "cleaning", "settling", "done"}]
    BY DEF CloseAll, TypeOK
  <2>2. why' \in [Sessions -> Reasons \cup {"none"}]
    BY DEF CloseAll, TypeOK, Reasons
  <2>3. QED
    BY <2>1, <2>2 DEF CloseAll, TypeOK
<1>4. ASSUME NEW s \in Sessions, s \notin registry
      PROVE  Sound(s)'
  <2>1. Same(s)
    BY <1>1, <1>2, <1>4 DEF Same
  <2>2. QED
    BY <2>1, SameIsSound DEF LifeInv
<1>5. ASSUME NEW s \in Sessions, s \in registry
      PROVE  Sound(s)'
  <2>1. /\ closer[s] = "none" /\ ~Unstarted(s) /\ at[s] # "failed" /\ state[s] # "none"
        /\ Sound(s)
    BY <1>5 DEF LifeInv, Sound, Standing, Owned, Announced, RegisteredIsUnclaimed,
       UnstartedIsNothing, FailedIsOver
  <2>2. closer'[s] = "claimed" /\ why'[s] = "shutdown" /\ s \notin registry'
    BY <1>1, <1>5
  <2>3. (UnstartedIsNothing(s) /\ RegisteredIsUnclaimed(s) /\ GoingIsRegistered(s)
         /\ DrainedIsOver(s) /\ ClosesForAReason(s))'
    BY <1>2, <2>1, <2>2 DEF Unstarted, UnstartedIsNothing, RegisteredIsUnclaimed,
       GoingIsRegistered, DrainedIsOver, ClosesForAReason
  <2>4. (LaunchIsCompensated(s) /\ HandleUntilSettled(s) /\ BrowserIsOwned(s) /\ TreeIsOwned(s))'
    BY <1>2, <2>1, <2>2 DEF Sound, Standing, Owned, Announced, HasLaunched, LaunchIsCompensated,
       HandleUntilSettled, BrowserIsOwned, TreeIsOwned
  <2>5. (CloseTearsDown(s) /\ PendingIsAwaited(s) /\ FailedIsOver(s) /\ AnnouncedAtTheEnd(s)
         /\ AnnouncedOnce(s))'
    BY <1>2, <2>1, <2>2 DEF Sound, Standing, Owned, Announced, CloseTearsDown, PendingIsAwaited,
       TornDown, FailedIsOver, AnnouncedAtTheEnd, AnnouncedOnce
  <2>6. QED
    BY <2>3, <2>4, <2>5 DEF Sound, Standing, Owned, Announced
<1>6. QED
  BY <1>3, <1>4, <1>5 DEF LifeInv

\* A session enters the registry only by the capacity check under the lock; any other step
\* takes sessions out or leaves it alone.
LEMMA RegistryStep ==
    ASSUME Next
    PROVE  \/ \E s \in Sessions : Admitted /\ registry' = registry \cup {s}
           \/ registry' \subseteq registry
<1>1. ASSUME NEW s \in Sessions, Step(s)
      PROVE  \/ Admitted /\ registry' = registry \cup {s}
             \/ registry' \subseteq registry
  <2>1. CASE Reserve(s)
    BY <2>1 DEF Reserve
  <2>2. CASE Admit(s) \/ Interrupt(s) \/ NextPhase(s) \/ Register(s) \/ MakeDir(s) \/ DirsMade(s)
    BY <2>2 DEF Admit, Interrupt, NextPhase, Register, MakeDir, DirsMade
  <2>3. CASE Launched(s) \/ PhaseDone(s) \/ PhaseThrows(s) \/ Abort(s) \/ LateLaunch(s)
             \/ CloseLaunched(s) \/ RemoveDirs(s) \/ Finalize(s)
    BY <2>3 DEF Launched, PhaseDone, PhaseThrows, Abort, LateLaunch, CloseLaunched, RemoveDirs,
       Finalize
  <2>4. CASE Drain(s) \/ CloseHandle(s) \/ CleanUp(s) \/ EndClose(s) \/ Crash(s)
             \/ HandleClosed(s) \/ PauseOrResume(s) \/ \E reason \in Reasons : Claim(s, reason)
    BY <2>4 DEF Drain, CloseHandle, CleanUp, EndClose, Crash, HandleClosed, PauseOrResume, Claim
  <2>5. QED
    BY <1>1, <2>1, <2>2, <2>3, <2>4 DEF Step
<1>2. CASE CloseAll \/ CloseAllDone
  BY <1>2 DEF CloseAll, CloseAllDone
<1>3. QED
  BY <1>1, <1>2, NextIsStep

\* The cap survives every step.
LEMMA CapacityStep ==
    ASSUME Capacity, Next
    PROVE  Capacity'
<1>1. IsFiniteSet(registry) /\ Cardinality(registry) \in Nat
  BY FS_CardinalityType DEF Capacity
<1>2. CASE \E s \in Sessions : Admitted /\ registry' = registry \cup {s}
  <2>. PICK s \in Sessions : Admitted /\ registry' = registry \cup {s}
    BY <1>2
  <2>1. /\ IsFiniteSet(registry')
        /\ Cardinality(registry') \in {Cardinality(registry), Cardinality(registry) + 1}
    BY <1>1, FS_AddElement
  <2>2. QED
    BY <1>1, <2>1, MaxSessionsAssumption DEF Capacity, CapacityHolds, Admitted
<1>3. CASE registry' \subseteq registry
  <2>1. /\ IsFiniteSet(registry') /\ Cardinality(registry') <= Cardinality(registry)
    BY <1>1, <1>3, FS_Subset
  <2>2. Cardinality(registry') \in Nat
    BY <2>1, FS_CardinalityType
  <2>3. QED
    BY <1>1, <2>1, <2>2, MaxSessionsAssumption DEF Capacity, CapacityHolds
<1>4. QED
  BY <1>2, <1>3, RegistryStep

\* The inductive invariant holds at the start.
LEMMA Start ==
    ASSUME Init
    PROVE  TypeOK /\ LifeInv /\ Capacity
<1>1. TypeOK
  BY DEF Init, TypeOK
<1>2. ASSUME NEW s \in Sessions
      PROVE  Sound(s)
  BY DEF Init, Sound, Standing, Owned, Announced, Unstarted, UnstartedIsNothing,
     RegisteredIsUnclaimed, GoingIsRegistered, DrainedIsOver, ClosesForAReason, HasLaunched,
     LaunchIsCompensated, HandleUntilSettled, BrowserIsOwned, TreeIsOwned, CloseTearsDown,
     PendingIsAwaited, FailedIsOver, AnnouncedAtTheEnd, AnnouncedOnce
<1>3. Capacity
  BY FS_EmptySet, MaxSessionsAssumption DEF Init, Capacity, CapacityHolds
<1>4. QED
  BY <1>1, <1>2, <1>3 DEF LifeInv

\* A step keeps it.
LEMMA Preserved ==
    ASSUME TypeOK, LifeInv, Capacity, [Next]_vars
    PROVE  TypeOK' /\ LifeInv' /\ Capacity'
<1>1. CASE Next
  <2>1. Capacity'
    BY <1>1, CapacityStep
  <2>2. CASE \E s \in Sessions : Step(s)
    <3>. PICK s \in Sessions : Step(s)
      BY <2>2
    <3>1. TypeOK'
      BY TypeStep
    <3>2. ASSUME NEW q \in Sessions
          PROVE  Sound(q)'
      <4>1. CASE q = s
        BY <4>1, SoundStep
      <4>2. CASE q # s
        <5>1. Same(q)
          BY <4>2, OthersStep
        <5>2. QED
          BY <5>1, SameIsSound DEF LifeInv
      <4>3. QED
        BY <4>1, <4>2
    <3>3. QED
      BY <2>1, <3>1, <3>2 DEF LifeInv
  <2>3. CASE CloseAll
    BY <2>1, <2>3, CloseAllStep
  <2>4. CASE CloseAllDone
    <3>1. TypeOK'
      BY <2>4 DEF CloseAllDone, TypeOK
    <3>2. ASSUME NEW q \in Sessions
          PROVE  Sound(q)'
      <4>1. Same(q)
        BY <2>4 DEF CloseAllDone, Same
      <4>2. QED
        BY <4>1, SameIsSound DEF LifeInv
    <3>3. QED
      BY <2>1, <3>1, <3>2 DEF LifeInv
  <2>5. QED
    BY <1>1, <2>2, <2>3, <2>4, NextIsStep
<1>2. CASE UNCHANGED vars
  <2>1. TypeOK' /\ Capacity'
    BY <1>2 DEF vars, TypeOK, Capacity, CapacityHolds
  <2>2. ASSUME NEW q \in Sessions
        PROVE  Sound(q)'
    <3>1. Same(q)
      BY <1>2 DEF vars, Same
    <3>2. QED
      BY <3>1, SameIsSound DEF LifeInv
  <2>3. QED
    BY <2>1, <2>2 DEF LifeInv
<1>3. QED
  BY <1>1, <1>2

-----------------------------------------------------------------------------

\* The accounts of a session follow from its soundness.
LEMMA SoundIsAccounted ==
    ASSUME TypeOK, LifeInv, Capacity
    PROVE  HostIsAccounted /\ AnnouncementsAreTrue
<1>1. DrivableIsRegistered
  BY DEF LifeInv, Sound, Standing, Owned, Announced, GoingIsRegistered, DrivableIsRegistered,
     CanServeTools
<1>2. BrowserHasOwner
  BY DEF LifeInv, Sound, Standing, Owned, Announced, BrowserIsOwned, BrowserHasOwner
<1>3. FailedLaunchIsUnwound
  <2>. SUFFICES ASSUME NEW s \in Sessions, at[s] = "failed"
                PROVE  /\ s \notin registry /\ ~handle[s] /\ state[s] \in {"closed", "crashed"}
                       /\ \/ browser[s] \in {"none", "gone", "left"}
                          \/ browser[s] \in {"launching", "closing"} /\ aborted[s]
                       /\ dirs[s] # "made"
    BY DEF FailedLaunchIsUnwound
  <2>1. s \notin registry /\ ~handle[s] /\ state[s] \in {"closed", "crashed"}
    BY DEF LifeInv, Sound, Standing, Owned, Announced, FailedIsOver
  <2>2. "launch" \notin comps[s]
    BY DEF LifeInv, Sound, Standing, Owned, Announced, LaunchIsCompensated, HasLaunched
  <2>3. browser[s] \notin {"up", "dead"}
    BY <2>2 DEF LifeInv, Sound, Standing, Owned, Announced, BrowserIsOwned
  <2>4. browser[s] \in {"launching", "closing"} => aborted[s]
    BY <2>2 DEF LifeInv, Sound, Standing, Owned, Announced, PendingIsAwaited
  <2>5. dirs[s] # "made"
    BY DEF LifeInv, Sound, Standing, Owned, Announced, TreeIsOwned, FailedIsOver
  <2>6. QED
    BY <2>1, <2>3, <2>4, <2>5 DEF TypeOK
<1>4. AnnouncedIsTornDown
  <2>. SUFFICES ASSUME NEW s \in Sessions, at[s] = "served", published[s] # <<>>
                PROVE  /\ TornDown(s) /\ ~handle[s] /\ s \notin registry
                       /\ state[s] \in {"closed", "crashed"}
    BY DEF AnnouncedIsTornDown
  <2>1. closer[s] = "done" /\ ~handle[s]
    BY DEF LifeInv, Sound, Standing, Owned, Announced, AnnouncedAtTheEnd
  <2>2. TornDown(s) /\ s \notin registry /\ state[s] \in {"closed", "crashed"}
    BY <2>1 DEF LifeInv, Sound, Standing, Owned, Announced, CloseTearsDown,
       RegisteredIsUnclaimed, DrainedIsOver
  <2>3. QED
    BY <2>1, <2>2
<1>5. OneCloseAnnounces
  BY DEF LifeInv, Sound, Standing, Owned, Announced, AnnouncedOnce, OneCloseAnnounces
<1>6. QED
  BY <1>1, <1>2, <1>3, <1>4, <1>5 DEF Capacity, HostIsAccounted, AnnouncementsAreTrue

\* Every reachable state satisfies the inductive invariant.
THEOREM Invariant == Spec => [](TypeOK /\ LifeInv /\ Capacity)
<1>1. Init => TypeOK /\ LifeInv /\ Capacity
  BY Start
<1>2. (TypeOK /\ LifeInv /\ Capacity) /\ [Next]_vars => (TypeOK /\ LifeInv /\ Capacity)'
  BY Preserved
<1>3. QED
  BY <1>1, <1>2, PTL DEF Spec

\* Sessions, creations and closes keep their types.
THEOREM TypeCorrect == Spec => []TypeOK
BY Invariant, PTL

\* Capacity, registry, browsers and trees add up at every await, for any number of sessions and
\* any capacity: closes, crashes and the shutdown in the middle of a launch included.  A failed
\* launch has called for the end of whatever it made; what a teardown or a removal that itself
\* failed left behind is nobody's.
THEOREM HostAccounted == Spec => []HostIsAccounted
<1>1. TypeOK /\ LifeInv /\ Capacity => HostIsAccounted
  BY SoundIsAccounted
<1>2. QED
  BY <1>1, Invariant, PTL

\* At most one close announces a session, and one that was served only after the teardown of its
\* browser ran to its end and the session is over.
THEOREM AnnouncementsTrue == Spec => []AnnouncementsAreTrue
<1>1. TypeOK /\ LifeInv /\ Capacity => AnnouncementsAreTrue
  BY SoundIsAccounted
<1>2. QED
  BY <1>1, Invariant, PTL

=============================================================================
