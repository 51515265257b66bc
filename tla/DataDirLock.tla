----------------------------- MODULE DataDirLock -----------------------------
(***************************************************************************)
(* The lock file of a data directory, and what it guards: every process    *)
(* that writes the database (a server or a maintenance command) creates    *)
(* browserhive.lock, opens the database, closes it, and removes the file.  *)
(*                                                                         *)
(* The calls on the file are steps of their own, because other processes   *)
(* run between them: creating the file, writing the pid into it, reading   *)
(* it, asking whether that pid is alive, removing it.  A file is known by  *)
(* the process that created it: an acquisition creates one file at most,   *)
(* and what it writes goes to that file even after somebody removed it.    *)
(* Pids are not reused.  Commands that open the database read-only look at *)
(* the lock and take nothing; they are not modelled.                       *)
(***************************************************************************)
EXTENDS Naturals

CONSTANTS
    Servers,   \* processes that run `serve`
    Commands,  \* processes that run a maintenance command on a writable database
    Dead,      \* a process of the past, whose pid names nobody
    None       \* no file

Processes == Servers \cup Commands

\* A lock file: who created it, and whether its pid is written.
Files == [by : Processes \cup {Dead}, named : BOOLEAN]
File(p, named) == [by |-> p, named |-> named]

ASSUME LockAssumption == Dead \notin Processes /\ None \notin Processes \cup {Dead} \cup Files

VARIABLES
    file,      \* the lock file
    pc,        \* where each process is
    attempts,  \* acquireDataDirLock: the attempts each process has made
    holder,    \* what readLock returned to each process
    robbed     \* history: processes whose lock file was removed by another while they lived

vars == <<file, pc, attempts, holder, robbed>>

\* What readLock returns: nobody when there is no file, or an empty or garbled one.
ReadLock == IF file = None \/ ~file.named THEN None ELSE file.by

Alive(p) == p \in Processes /\ pc[p] \notin {"down", "refused", "finished", "gone"}

\* The processes that have the database open for writing: a server until its storage handle's stop
\* closed it, a command until close() did.
UsesDatabase(p) == pc[p] \in {"opening", "open", "stopping"}

Transition(p, from, to) == pc[p] = from /\ pc' = [pc EXCEPT ![p] = to]

Init ==
    /\ file \in {None, File(Dead, TRUE), File(Dead, FALSE)}
    /\ pc = [p \in Processes |-> "down"]
    /\ attempts = [p \in Processes |-> 0]
    /\ holder = [p \in Processes |-> None]
    /\ robbed = {}

----------------------------------------------------------------------------
\* acquireDataDirLock.

Start(p) ==
    /\ Transition(p, "down", "creating")
    /\ UNCHANGED <<file, attempts, holder, robbed>>

\* Mutant of Create: the file is opened without O_EXCL.
MutantCreateShared(p) ==
    /\ Transition(p, "creating", "writing")
    /\ file' = File(p, FALSE)
    /\ UNCHANGED <<attempts, holder, robbed>>

\* openSync(path, 'wx') creates the file, or finds that there is one.
Create(p) ==
    /\ file = None
    /\ Transition(p, "creating", "writing")
    /\ file' = File(p, FALSE)
    /\ UNCHANGED <<attempts, holder, robbed>>

Exists(p) ==
    /\ file # None
    /\ Transition(p, "creating", "reading")
    /\ UNCHANGED <<file, attempts, holder, robbed>>

\* writeSync fills the file the process created, wherever it is by now.
Write(p) ==
    /\ Transition(p, "writing", "opening")
    /\ file' = IF file = File(p, FALSE) THEN File(p, TRUE) ELSE file
    /\ UNCHANGED <<attempts, holder, robbed>>

\* DATA_DIR_UNWRITABLE: the file cannot be created, or not written; then it stays, and empty.
Unwritable(p) ==
    /\ pc[p] \in {"creating", "writing"}
    /\ pc' = [pc EXCEPT ![p] = "gone"]
    /\ UNCHANGED <<file, attempts, holder, robbed>>

Read(p) ==
    /\ Transition(p, "reading", "probing")
    /\ holder' = [holder EXCEPT ![p] = ReadLock]
    /\ UNCHANGED <<file, attempts, robbed>>

\* DATA_DIR_LOCKED.
Locked(p) ==
    /\ Alive(holder[p])
    /\ Transition(p, "probing", "refused")
    /\ UNCHANGED <<file, attempts, holder, robbed>>

\* Mutant of Stale: the pid is not probed.
MutantStaleUnprobed(p) ==
    /\ Transition(p, "probing", "removing")
    /\ UNCHANGED <<file, attempts, holder, robbed>>

Stale(p) ==
    /\ ~Alive(holder[p])
    /\ Transition(p, "probing", "removing")
    /\ UNCHANGED <<file, attempts, holder, robbed>>

\* removeQuietly: whatever file is there by now goes.
Unlink(p) ==
    /\ file' = None
    /\ robbed' = robbed \cup {q \in Processes \ {p} : Alive(q) /\ file # None /\ file.by = q}

\* Mutant of Remove: it tries for ever.
MutantRemoveForever(p) ==
    /\ Transition(p, "removing", "creating")
    /\ attempts' = [attempts EXCEPT ![p] = IF @ < 2 THEN @ + 1 ELSE @]
    /\ Unlink(p)
    /\ UNCHANGED holder

\* Mutant of Remove: a stale file is removed, and the caller refused.
MutantRemoveOnce(p) ==
    /\ Transition(p, "removing", "refused")
    /\ attempts' = [attempts EXCEPT ![p] = @ + 1]
    /\ Unlink(p)
    /\ UNCHANGED holder

\* The first attempt is followed by a second, the second by "kept reappearing".
Remove(p) ==
    /\ Transition(p, "removing", IF attempts[p] = 0 THEN "creating" ELSE "refused")
    /\ attempts' = [attempts EXCEPT ![p] = @ + 1]
    /\ Unlink(p)
    /\ UNCHANGED holder

----------------------------------------------------------------------------
\* openStoragePhase and openStorageForCli; what is left of boot and of the command.

Opened(p) ==
    /\ Transition(p, "opening", "open")
    /\ UNCHANGED <<file, attempts, holder, robbed>>

\* The database is corrupt, too new, or cannot be migrated: the lock is released.
OpenFails(p) ==
    /\ Transition(p, "opening", "releasing")
    /\ UNCHANGED <<file, attempts, holder, robbed>>

\* A later phase of boot failed, or a stop was requested: the stack unwinds down to the storage.
Stop(p) ==
    /\ p \in Servers
    /\ Transition(p, "open", "stopping")
    /\ UNCHANGED <<file, attempts, holder, robbed>>

\* The database is closed: by a command that is done, by a server's storage handle.
Closed(p) ==
    /\ Transition(p, IF p \in Servers THEN "stopping" ELSE "open", "releasing")
    /\ UNCHANGED <<file, attempts, holder, robbed>>

\* A storage handle that throws or overruns its budget is left behind when the process exits.
CutOff(p) ==
    /\ p \in Servers
    /\ Transition(p, "stopping", "gone")
    /\ UNCHANGED <<file, attempts, holder, robbed>>

\* release() removes a file only when it still names this process.
KeepRelease(p) ==
    /\ ReadLock # p
    /\ Transition(p, "releasing", "finished")
    /\ UNCHANGED <<file, attempts, holder, robbed>>

Release(p) ==
    /\ ReadLock = p
    /\ Transition(p, "releasing", "unlocking")
    /\ UNCHANGED <<file, attempts, holder, robbed>>

Unlock(p) ==
    /\ Transition(p, "unlocking", "finished")
    /\ Unlink(p)
    /\ UNCHANGED <<attempts, holder>>

\* A kill, a second signal, a crash.
Die(p) ==
    /\ Alive(p)
    /\ pc' = [pc EXCEPT ![p] = "gone"]
    /\ UNCHANGED <<file, attempts, holder, robbed>>

----------------------------------------------------------------------------

Acquire(p) ==
    Create(p) \/ Exists(p) \/ Write(p) \/ Read(p) \/ Locked(p) \/ Stale(p) \/ Remove(p)

Next ==
    \E p \in Processes :
        \/ Start(p) \/ Acquire(p) \/ Unwritable(p)
        \/ Opened(p) \/ OpenFails(p) \/ Stop(p) \/ Closed(p) \/ CutOff(p)
        \/ KeepRelease(p) \/ Release(p) \/ Unlock(p) \/ Die(p)

\* A process that began to acquire goes on: these are synchronous calls.
Spec == Init /\ [][Next]_vars

FairSpec == Spec /\ \A p \in Processes : WF_vars(Acquire(p))

----------------------------------------------------------------------------
\* Properties.

States ==
    {"down", "creating", "writing", "reading", "probing", "removing", "opening", "open",
     "stopping", "releasing", "unlocking", "refused", "finished", "gone"}

\* Types; a process that made its second attempt in vain has given up.
TypeOK ==
    /\ file \in Files \cup {None}
    /\ pc \in [Processes -> States]
    /\ attempts \in [Processes -> 0..2]
    /\ holder \in [Processes -> Processes \cup {Dead, None}]
    /\ robbed \subseteq Processes
    /\ \A p \in Processes : attempts[p] = 2 => pc[p] = "refused"

\* One owner per data directory, as far as it goes: while a process has the database open, the lock
\* file is the one it created and names it, unless another process removed that file.  Two writers at
\* once are therefore never the work of a release, a failed open, a crash or a restart.
LockNamesOwner ==
    \A p \in Processes : UsesDatabase(p) => p \in robbed \/ file = File(p, TRUE)

\* A process loses its lock file to another only when that one judged a different file stale, or this
\* one before the pid was in it; or when it released a lock that it had itself lost before.  A file in
\* which a process read the name of its living owner is never removed by that process.
RobbedByStaleJudgement ==
    [][\A p \in robbed' \ robbed :
        \E q \in Processes :
            \/ pc[q] = "removing" /\ pc'[q] # "removing" /\ holder[q] # p
            \/ pc[q] = "unlocking" /\ pc'[q] = "finished" /\ q \in robbed]_vars

\* A process that closed the database and released its lock leaves no file that names it.
FinishedLeavesNoLock ==
    \A p \in Processes : pc[p] = "finished" => file # File(p, TRUE)

\* Whatever a process of the past left behind, a process that tries alone gets the lock, unless the
\* file system or a kill ends it.
Alone(p) == \A q \in Processes \ {p} : pc[q] \in {"finished", "refused", "gone"}

LoneProcessAcquires ==
    \A p \in Processes :
        pc[p] = "creating" /\ attempts[p] = 0 /\ Alone(p) ~> pc[p] \in {"opening", "gone"}
=============================================================================
