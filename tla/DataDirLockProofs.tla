-------------------------- MODULE DataDirLockProofs --------------------------
(***************************************************************************)
(* Theorems about DataDirLock for any number of servers and commands: the  *)
(* type invariant, that the lock file names whoever has the database open  *)
(* unless it was removed by another process, that it goes with its owner,  *)
(* and who removes a file that is not its own.                             *)
(*                                                                         *)
(* LockInv is the inductive invariant.  A process has a file of its own    *)
(* from the moment it created it until it released it or was robbed; a     *)
(* file, and what readLock returned, name processes that have created one, *)
(* and what was judged stale is of a process that has ended.               *)
(***************************************************************************)
EXTENDS DataDirLock, TLAPS

\* Where a process is that has not created a file yet.
Before == {"down", "creating", "reading", "probing", "removing"}

Holding(p) == UsesDatabase(p) \/ pc[p] \in {"releasing", "unlocking"}

\* A process that created a file has it, unless it was robbed.
OwnFileOf(p) ==
    /\ pc[p] = "writing" => p \in robbed \/ file = File(p, FALSE)
    /\ Holding(p) => p \in robbed \/ file = File(p, TRUE)

OwnFile == \A p \in Processes : OwnFileOf(p)

\* Neither the file nor what was read from one names a process that has created none.
NamesCreators ==
    \A p \in Processes : pc[p] \in Before =>
        /\ file = None \/ file.by # p
        /\ \A q \in Processes : holder[q] # p

\* What a process is about to remove it took for a file of nobody, or of one that has ended.
JudgedIsDead ==
    \A p \in Processes : pc[p] = "removing" => ~Alive(holder[p])

LockInv == OwnFile /\ NamesCreators /\ JudgedIsDead /\ FinishedLeavesNoLock

----------------------------------------------------------------------------

\* What a file is: it is its creator's, and named or not.
LEMMA FileFacts ==
    ASSUME NEW p \in Processes
    PROVE  /\ File(p, TRUE) \in Files /\ File(p, FALSE) \in Files
           /\ File(p, TRUE) # None /\ File(p, FALSE) # None
           /\ File(p, TRUE).by = p /\ File(p, FALSE).by = p
           /\ File(p, TRUE) # File(p, FALSE)
<1>1. File(p, TRUE) \in Files /\ File(p, FALSE) \in Files
  BY DEF File, Files
<1>2. File(p, TRUE).named /\ ~File(p, FALSE).named
  BY DEF File
<1>3. File(p, TRUE).by = p /\ File(p, FALSE).by = p
  BY DEF File
<1>4. QED
  BY <1>1, <1>2, <1>3, LockAssumption

\* readLock returns a process when the file is that process's and named.
LEMMA ReadFacts ==
    ASSUME TypeOK, NEW p \in Processes
    PROVE  ReadLock = p <=> file = File(p, TRUE)
<1>1. CASE file = None
  BY <1>1, FileFacts, LockAssumption DEF ReadLock
<1>2. CASE file \in Files
  <2>1. file # None /\ file = File(file.by, file.named) /\ file.named \in BOOLEAN
    BY <1>2, LockAssumption DEF Files, File
  <2>2. File(p, TRUE).named /\ File(p, TRUE).by = p
    BY DEF File
  <2>3. QED
    BY <2>1, <2>2, LockAssumption DEF ReadLock
<1>3. QED
  BY <1>1, <1>2 DEF TypeOK

\* A transition moves one process.
LEMMA Moves ==
    ASSUME TypeOK, NEW p \in Processes, NEW s, pc' = [pc EXCEPT ![p] = s]
    PROVE  pc'[p] = s /\ \A q \in Processes \ {p} : pc'[q] = pc[q]
  BY DEF TypeOK

\* Every step keeps the types.
LEMMA TypeStep ==
    ASSUME TypeOK, [Next]_vars
    PROVE  TypeOK'
<1> USE LockAssumption DEF TypeOK, States, Files
<1>1. CASE UNCHANGED vars
  BY <1>1 DEF vars
<1>2. ASSUME NEW p \in Processes, Acquire(p)
      PROVE  TypeOK'
  <2>1. CASE Create(p)
    BY <2>1 DEF Create, Transition, File
  <2>2. CASE Write(p)
    BY <2>2 DEF Write, Transition, File
  <2>3. CASE Read(p)
    BY <2>3 DEF Read, Transition, ReadLock
  <2>4. CASE Remove(p)
    BY <2>4 DEF Remove, Transition, Unlink
  <2>5. CASE Exists(p) \/ Locked(p) \/ Stale(p)
    BY <2>5 DEF Exists, Locked, Stale, Transition
  <2>6. QED
    BY <1>2, <2>1, <2>2, <2>3, <2>4, <2>5 DEF Acquire
<1>3. ASSUME NEW p \in Processes, Unlock(p)
      PROVE  TypeOK'
  BY <1>3 DEF Unlock, Transition, Unlink
<1>4. ASSUME NEW p \in Processes,
             \/ Start(p) \/ Unwritable(p) \/ Opened(p) \/ OpenFails(p) \/ Stop(p)
             \/ Closed(p) \/ CutOff(p) \/ KeepRelease(p) \/ Release(p) \/ Die(p)
      PROVE  TypeOK'
  BY <1>4 DEF Start, Unwritable, Opened, OpenFails, Stop, Closed, CutOff, KeepRelease, Release, Die,
              Transition, Alive
<1>5. QED
  BY <1>1, <1>2, <1>3, <1>4 DEF Next

\* A step that leaves the file, and moves no process to where it would hold one, keeps OwnFileOf.
LEMMA OwnFileKept ==
    ASSUME OwnFile, NEW q \in Processes, UNCHANGED <<file, robbed>>,
           pc'[q] # "writing" \/ pc'[q] = pc[q], Holding(q)' => Holding(q)
    PROVE  OwnFileOf(q)'
  BY DEF OwnFile, OwnFileOf

\* Every step keeps LockInv; first what it says of a process's own file.
LEMMA OwnFileStep ==
    ASSUME TypeOK, LockInv, [Next]_vars
    PROVE  OwnFile'
<1> SUFFICES ASSUME NEW q \in Processes
             PROVE  OwnFileOf(q)'
  BY DEF OwnFile
<1>0. OwnFile /\ OwnFileOf(q)
  BY DEF LockInv, OwnFile
<1>1. CASE UNCHANGED vars
  BY <1>0, <1>1 DEF vars, OwnFileOf, Holding, UsesDatabase
<1>2. ASSUME NEW p \in Processes, Create(p)
      PROVE  OwnFileOf(q)'
  <2>1. file = None /\ file' = File(p, FALSE) /\ robbed' = robbed
    BY <1>2 DEF Create
  <2>2. pc'[p] = "writing" /\ \A r \in Processes \ {p} : pc'[r] = pc[r]
    BY <1>2, Moves DEF Create, Transition
  <2>3. QED
    BY <1>0, <2>1, <2>2, FileFacts DEF OwnFileOf, Holding, UsesDatabase
<1>3. ASSUME NEW p \in Processes, Write(p)
      PROVE  OwnFileOf(q)'
  <2>1. pc[p] = "writing" /\ robbed' = robbed
    BY <1>3 DEF Write, Transition
  <2>2. file' = IF file = File(p, FALSE) THEN File(p, TRUE) ELSE file
    BY <1>3 DEF Write
  <2>3. pc'[p] = "opening" /\ \A r \in Processes \ {p} : pc'[r] = pc[r]
    BY <1>3, Moves DEF Write, Transition
  <2>4. CASE q = p
    BY <1>0, <2>1, <2>2, <2>3, <2>4 DEF OwnFileOf, Holding, UsesDatabase
  <2>5. CASE q # p
    <3>1. file = File(p, FALSE) => file # File(q, TRUE) /\ file # File(q, FALSE)
      BY <2>5, FileFacts
    <3>2. QED
      BY <1>0, <2>1, <2>2, <2>3, <2>5, <3>1 DEF OwnFileOf, Holding, UsesDatabase
  <2>6. QED
    BY <2>4, <2>5
<1>4. ASSUME NEW p \in Processes, Remove(p) \/ Unlock(p)
      PROVE  OwnFileOf(q)'
  <2>1. /\ pc'[p] \in {"creating", "refused", "finished"}
        /\ \A r \in Processes \ {p} : pc'[r] = pc[r]
    BY <1>4, Moves DEF Remove, Unlock, Transition
  <2>2. Unlink(p)
    BY <1>4 DEF Remove, Unlock
  <2>3. CASE q = p
    BY <2>1, <2>3 DEF OwnFileOf, Holding, UsesDatabase
  <2>4. CASE q # p
    <3> SUFFICES ASSUME pc[q] = "writing" \/ Holding(q)
                 PROVE  q \in robbed'
      BY <2>1, <2>4 DEF OwnFileOf, Holding, UsesDatabase
    <3>1. q \in robbed \/ (file # None /\ file.by = q)
      BY <1>0, FileFacts DEF OwnFileOf
    <3>2. Alive(q)
      BY DEF Alive, Holding, UsesDatabase
    <3>3. QED
      BY <2>2, <2>4, <3>1, <3>2 DEF Unlink
  <2>5. QED
    BY <2>3, <2>4
<1>5. ASSUME NEW p \in Processes,
             \/ Start(p) \/ Exists(p) \/ Read(p) \/ Locked(p) \/ Stale(p) \/ Unwritable(p)
             \/ Opened(p) \/ OpenFails(p) \/ Stop(p) \/ Closed(p) \/ CutOff(p)
             \/ KeepRelease(p) \/ Release(p) \/ Die(p)
      PROVE  OwnFileOf(q)'
  <2>1. UNCHANGED <<file, robbed>>
    BY <1>5 DEF Start, Exists, Read, Locked, Stale, Unwritable, Opened, OpenFails, Stop, Closed,
                CutOff, KeepRelease, Release, Die
  <2>2. PICK s : /\ pc' = [pc EXCEPT ![p] = s] /\ s # "writing"
                 /\ s \in {"opening", "open", "stopping", "releasing", "unlocking"} => Holding(p)
    BY <1>5 DEF Start, Exists, Read, Locked, Stale, Unwritable, Opened, OpenFails, Stop, Closed,
                CutOff, KeepRelease, Release, Die, Transition, Holding, UsesDatabase
  <2>3. pc'[p] = s /\ \A r \in Processes \ {p} : pc'[r] = pc[r]
    BY <2>2, Moves
  <2>4. QED
    BY <1>0, <2>1, <2>2, <2>3, OwnFileKept DEF Holding, UsesDatabase
<1>6. QED
  BY <1>1, <1>2, <1>3, <1>4, <1>5 DEF Next, Acquire

\* Every step but Create, Read and the removals, with what it leaves and where it leads.
OtherStep(p) ==
    \/ Start(p) \/ Exists(p) \/ Locked(p) \/ Stale(p) \/ Unwritable(p)
    \/ Opened(p) \/ OpenFails(p) \/ Stop(p) \/ Closed(p) \/ CutOff(p)
    \/ KeepRelease(p) \/ Release(p) \/ Die(p)

\* The other steps leave the files alone and move one process.
LEMMA OtherSteps ==
    ASSUME TypeOK, NEW p \in Processes, OtherStep(p)
    PROVE  /\ UNCHANGED <<file, holder, robbed>>
           /\ \A q \in Processes \ {p} : pc'[q] = pc[q]
           /\ pc'[p] \in Before => pc[p] \in Before
           /\ Alive(p) \/ pc[p] = "down"
           /\ pc'[p] = "removing" => ~Alive(holder[p]) /\ pc[p] \in Before
           /\ pc'[p] = "finished" => ReadLock # p
<1>1. UNCHANGED <<file, holder, robbed>>
  BY DEF OtherStep, Start, Exists, Locked, Stale, Unwritable, Opened, OpenFails, Stop, Closed, CutOff,
         KeepRelease, Release, Die
<1>2. PICK s : /\ pc' = [pc EXCEPT ![p] = s]
               /\ s \in Before => pc[p] \in Before
               /\ Alive(p) \/ pc[p] = "down"
               /\ s = "removing" => ~Alive(holder[p]) /\ pc[p] \in Before
               /\ s = "finished" => ReadLock # p
  BY DEF OtherStep, Start, Exists, Locked, Stale, Unwritable, Opened, OpenFails, Stop, Closed, CutOff,
         KeepRelease, Release, Die, Transition, Before, Alive
<1>3. pc'[p] = s /\ \A q \in Processes \ {p} : pc'[q] = pc[q]
  BY <1>2, Moves
<1>4. QED
  BY <1>1, <1>2, <1>3

\* Every step is one of those that matter for the files, or another.
LEMMA Steps ==
    ASSUME [Next]_vars
    PROVE  \/ UNCHANGED vars
           \/ \E p \in Processes :
                Create(p) \/ Write(p) \/ Read(p) \/ Remove(p) \/ Unlock(p) \/ OtherStep(p)
  BY DEF Next, Acquire, OtherStep

\* A process creates its file once and never returns to where it was before; what is read names
\* the creator of the file.
LEMMA NamesCreatorsStep ==
    ASSUME TypeOK, LockInv, [Next]_vars
    PROVE  NamesCreators'
<1> SUFFICES ASSUME NEW q \in Processes, pc'[q] \in Before
             PROVE  (file' = None \/ file'.by # q) /\ \A r \in Processes : holder'[r] # q
  BY DEF NamesCreators
<1>0. pc[q] \in Before => (file = None \/ file.by # q) /\ \A r \in Processes : holder[r] # q
  BY DEF LockInv, NamesCreators
<1>1. CASE UNCHANGED vars
  BY <1>0, <1>1 DEF vars
<1>2. ASSUME NEW p \in Processes, Create(p) \/ Write(p)
      PROVE  (file' = None \/ file'.by # q) /\ \A r \in Processes : holder'[r] # q
  <2>1. pc'[p] \in {"writing", "opening"} /\ \A r \in Processes \ {p} : pc'[r] = pc[r]
    BY <1>2, Moves DEF Create, Write, Transition
  <2>2. q # p /\ pc[q] \in Before
    BY <2>1 DEF Before
  <2>3. (file' = file \/ file' = File(p, TRUE) \/ file' = File(p, FALSE)) /\ holder' = holder
    BY <1>2 DEF Create, Write
  <2>4. File(p, TRUE).by = p /\ File(p, FALSE).by = p
    BY FileFacts
  <2>5. QED
    BY <1>0, <2>2, <2>3, <2>4
<1>3. ASSUME NEW p \in Processes, Read(p)
      PROVE  (file' = None \/ file'.by # q) /\ \A r \in Processes : holder'[r] # q
  <2>1. pc[p] = "reading" /\ \A r \in Processes \ {p} : pc'[r] = pc[r]
    BY <1>3, Moves DEF Read, Transition
  <2>2. pc[q] \in Before
    BY <2>1 DEF Before
  <2>3. file' = file /\ holder' = [holder EXCEPT ![p] = ReadLock]
    BY <1>3 DEF Read
  <2>4. ReadLock # q
    BY <1>0, <2>2, ReadFacts, FileFacts
  <2>5. \A r \in Processes : holder'[r] = IF r = p THEN ReadLock ELSE holder[r]
    BY <2>3 DEF TypeOK
  <2>6. QED
    BY <1>0, <2>2, <2>3, <2>4, <2>5
<1>4. ASSUME NEW p \in Processes, Remove(p) \/ Unlock(p)
      PROVE  (file' = None \/ file'.by # q) /\ \A r \in Processes : holder'[r] # q
  <2>1. /\ pc'[p] \in Before => pc[p] \in Before
        /\ \A r \in Processes \ {p} : pc'[r] = pc[r]
    BY <1>4, Moves DEF Remove, Unlock, Transition, Before
  <2>2. file' = None /\ holder' = holder
    BY <1>4 DEF Remove, Unlock, Unlink
  <2>3. QED
    BY <1>0, <2>1, <2>2
<1>5. ASSUME NEW p \in Processes, OtherStep(p)
      PROVE  (file' = None \/ file'.by # q) /\ \A r \in Processes : holder'[r] # q
  BY <1>0, <1>5, OtherSteps
<1>6. QED
  BY <1>1, <1>2, <1>3, <1>4, <1>5, Steps

\* A process that has been alive and is not will not be.
LEMMA DeadStays ==
    ASSUME TypeOK, [Next]_vars, NEW x, ~Alive(x), x \in Processes => pc[x] # "down"
    PROVE  ~Alive(x)'
<1>1. CASE UNCHANGED vars
  BY <1>1 DEF vars, Alive
<1>2. ASSUME NEW p \in Processes, Create(p) \/ Write(p) \/ Read(p) \/ Remove(p) \/ Unlock(p)
      PROVE  ~Alive(x)'
  <2>1. Alive(p) /\ \A r \in Processes \ {p} : pc'[r] = pc[r]
    BY <1>2, Moves DEF Create, Write, Read, Remove, Unlock, Transition, Alive
  <2>2. QED
    BY <2>1 DEF Alive
<1>3. ASSUME NEW p \in Processes, OtherStep(p)
      PROVE  ~Alive(x)'
  BY <1>3, OtherSteps DEF Alive
<1>4. QED
  BY <1>1, <1>2, <1>3, Steps

\* A process found dead stays dead: whoever is named has been alive already.
LEMMA JudgedIsDeadStep ==
    ASSUME TypeOK, LockInv, [Next]_vars
    PROVE  JudgedIsDead'
<1> SUFFICES ASSUME NEW q \in Processes, pc'[q] = "removing"
             PROVE  ~Alive(holder[q])' /\ holder'[q] = holder[q]
  BY DEF JudgedIsDead, Alive
<1>1. holder'[q] = holder[q] /\ ~Alive(holder[q])
  <2>1. CASE UNCHANGED vars
    BY <2>1 DEF vars, LockInv, JudgedIsDead
  <2>2. ASSUME NEW p \in Processes, Create(p) \/ Write(p) \/ Read(p) \/ Remove(p) \/ Unlock(p)
        PROVE  holder'[q] = holder[q] /\ ~Alive(holder[q])
    <3>1. PICK s : pc' = [pc EXCEPT ![p] = s] /\ s # "removing"
      BY <2>2 DEF Create, Write, Read, Remove, Unlock, Transition
    <3>2. \A r \in Processes \ {p} : holder'[r] = holder[r]
      BY <2>2 DEF Create, Write, Read, Remove, Unlock, TypeOK
    <3>3. q # p /\ pc[q] = "removing"
      BY <3>1, Moves
    <3>4. QED
      BY <3>2, <3>3 DEF LockInv, JudgedIsDead
  <2>3. ASSUME NEW p \in Processes, OtherStep(p)
        PROVE  holder'[q] = holder[q] /\ ~Alive(holder[q])
    BY <2>3, OtherSteps DEF LockInv, JudgedIsDead
  <2>4. QED
    BY <2>1, <2>2, <2>3, Steps
<1>2. holder[q] \in Processes => pc[holder[q]] # "down"
  BY DEF LockInv, NamesCreators, Before
<1>3. QED
  BY <1>1, <1>2, DeadStays

\* A file that is gone, or another's, does not come back.
LEMMA FinishedStep ==
    ASSUME TypeOK, LockInv, [Next]_vars
    PROVE  FinishedLeavesNoLock'
<1> SUFFICES ASSUME NEW q \in Processes, pc'[q] = "finished"
             PROVE  file' # File(q, TRUE)
  BY DEF FinishedLeavesNoLock
<1>0. pc[q] = "finished" => file # File(q, TRUE)
  BY DEF LockInv, FinishedLeavesNoLock
<1>1. CASE UNCHANGED vars
  BY <1>0, <1>1 DEF vars
<1>2. ASSUME NEW p \in Processes, Create(p) \/ Write(p) \/ Read(p)
      PROVE  file' # File(q, TRUE)
  <2>1. pc'[p] # "finished" /\ \A r \in Processes \ {p} : pc'[r] = pc[r]
    BY <1>2, Moves DEF Create, Write, Read, Transition
  <2>2. file' \in {file, File(p, TRUE), File(p, FALSE)}
    BY <1>2 DEF Create, Write, Read
  <2>3. QED
    BY <1>0, <2>1, <2>2, FileFacts
<1>3. ASSUME NEW p \in Processes, Remove(p) \/ Unlock(p)
      PROVE  file' # File(q, TRUE)
  BY <1>3, FileFacts DEF Remove, Unlock, Unlink
<1>4. ASSUME NEW p \in Processes, OtherStep(p)
      PROVE  file' # File(q, TRUE)
  BY <1>0, <1>4, OtherSteps, ReadFacts
<1>5. QED
  BY <1>1, <1>2, <1>3, <1>4, Steps

----------------------------------------------------------------------------

\* The invariant: types and LockInv hold in every reachable state.
THEOREM Invariant == Spec => [](TypeOK /\ LockInv)
<1>1. Init => TypeOK /\ LockInv
  <2> SUFFICES ASSUME Init
               PROVE  TypeOK /\ LockInv
    OBVIOUS
  <2>1. file \in Files \cup {None} /\ \A p \in Processes : file = None \/ file.by # p
    <3>1. \A b \in BOOLEAN : File(Dead, b) \in Files /\ File(Dead, b).by = Dead
      BY DEF File, Files
    <3>2. QED
      BY <3>1, LockAssumption DEF Init
  <2>2. TypeOK
    BY <2>1 DEF Init, TypeOK, States
  <2>3. OwnFile /\ JudgedIsDead /\ FinishedLeavesNoLock
    BY DEF Init, OwnFile, OwnFileOf, Holding, UsesDatabase, JudgedIsDead, FinishedLeavesNoLock
  <2>4. NamesCreators
    BY <2>1, LockAssumption DEF Init, NamesCreators
  <2>5. QED
    BY <2>2, <2>3, <2>4 DEF LockInv
<1>2. TypeOK /\ LockInv /\ [Next]_vars => (TypeOK /\ LockInv)'
  BY TypeStep, OwnFileStep, NamesCreatorsStep, JudgedIsDeadStep, FinishedStep DEF LockInv
<1>3. QED
  BY <1>1, <1>2, PTL DEF Spec

\* The variables keep their types.
THEOREM TypeCorrect == Spec => []TypeOK
  BY Invariant, PTL

\* Whoever has the database open is named by the lock file, unless somebody removed it.
THEOREM OwnersAreNamed == Spec => []LockNamesOwner
<1>1. TypeOK /\ LockInv => LockNamesOwner
  BY DEF LockInv, OwnFile, OwnFileOf, Holding, LockNamesOwner
<1>2. QED
  BY <1>1, Invariant, PTL

\* A process that released its lock left no file that names it.
THEOREM LocksGoWithTheirOwners == Spec => []FinishedLeavesNoLock
<1>1. TypeOK /\ LockInv => FinishedLeavesNoLock
  BY DEF LockInv
<1>2. QED
  BY <1>1, Invariant, PTL

\* The step form of RobbedByStaleJudgement.
RobbedStep ==
    \A p \in robbed' \ robbed :
        \E q \in Processes :
            \/ pc[q] = "removing" /\ pc'[q] # "removing" /\ holder[q] # p
            \/ pc[q] = "unlocking" /\ pc'[q] = "finished" /\ q \in robbed

\* Nobody removes the file of a living owner whose name it read there.
THEOREM OwnersAreRobbedByStaleJudgement == Spec => RobbedByStaleJudgement
<1>1. TypeOK /\ LockInv /\ [Next]_vars => [RobbedStep]_vars
  <2> SUFFICES ASSUME TypeOK, LockInv, [Next]_vars, NEW q \in robbed' \ robbed
               PROVE  \E p \in Processes :
                        \/ pc[p] = "removing" /\ pc'[p] # "removing" /\ holder[p] # q
                        \/ pc[p] = "unlocking" /\ pc'[p] = "finished" /\ p \in robbed
    BY DEF RobbedStep
  <2>1. PICK p \in Processes : Remove(p) \/ Unlock(p)
    BY DEF Next, Acquire, vars, Start, Create, Exists, Write, Read, Locked, Stale, Unwritable,
           Opened, OpenFails, Stop, Closed, CutOff, KeepRelease, Release, Die
  <2>2. q \in Processes \ {p} /\ Alive(q) /\ file # None /\ file.by = q
    BY <2>1 DEF Remove, Unlock, Unlink
  <2>3. CASE Remove(p)
    <3>1. pc[p] = "removing" /\ holder[p] # q
      BY <2>2, <2>3 DEF Remove, Transition, LockInv, JudgedIsDead
    <3>2. PICK s \in {"creating", "refused"} : pc' = [pc EXCEPT ![p] = s]
      BY <2>3 DEF Remove, Transition
    <3>3. QED
      BY <3>1, <3>2, Moves
  <2>4. CASE Unlock(p)
    <3>1. pc[p] = "unlocking" /\ pc' = [pc EXCEPT ![p] = "finished"]
      BY <2>4 DEF Unlock, Transition
    <3>2. p \in robbed
      BY <2>2, <3>1, FileFacts DEF LockInv, OwnFile, OwnFileOf, Holding
    <3>3. QED
      BY <3>1, <3>2, Moves
  <2>5. QED
    BY <2>1, <2>3, <2>4
<1>2. QED
  BY <1>1, Invariant, PTL DEF Spec, RobbedByStaleJudgement, RobbedStep

=============================================================================
