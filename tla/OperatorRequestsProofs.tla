------------------------ MODULE OperatorRequestsProofs ------------------------
(***************************************************************************)
(* TypeOK and the safety invariants of OperatorRequests hold for every     *)
(* number of calls, sessions and keys, all limits, any number of failed    *)
(* database calls and any number of restarts; and OperatorRequests         *)
(* implements OperatorRequestContract.                                     *)
(***************************************************************************)
EXTENDS OperatorRequests, SequenceTheorems, TLAPS

\* What issuing a database call does to the queue.
LEMMA Issued ==
    ASSUME NEW q \in Seq(DbOps), NEW x \in DbOps
    PROVE  /\ Append(q, x) \in Seq(DbOps)
           /\ Len(q) \in Nat /\ Len(Append(q, x)) = Len(q) + 1
           /\ \A i \in 1..Len(q) : Append(q, x)[i] = q[i]
           /\ Append(q, x)[Len(q) + 1] = x
  OBVIOUS

\* What executing the oldest one does.
LEMMA Executed ==
    ASSUME NEW q \in Seq(DbOps), q # <<>>
    PROVE  /\ Head(q) = q[1] /\ Head(q) \in DbOps
           /\ Tail(q) \in Seq(DbOps)
           /\ Len(q) \in Nat \ {0} /\ Len(Tail(q)) = Len(q) - 1
           /\ \A i \in 1..Len(q) - 1 : Tail(q)[i] = q[i + 1]
  OBVIOUS

\* A call's database calls are in the queue's type.
LEMMA CallType ==
    ASSUME NEW c \in Calls, NEW op \in CallerOps \cup {"audit"}
    PROVE  /\ Call(op, c) \in DbOps
           /\ Call(op, c).op = op /\ Call(op, c).id = c
  BY DEF Call, CallerOps, DbOps

LEMMA SettleType ==
    ASSUME NEW r \in Calls, NEW by \in Settlers
    PROVE  [op |-> "settle", id |-> r, by |-> by] \in DbOps
  BY DEF DbOps

LEMMA InitInv == Init => TypeOK /\ BrokerInv
  <1> SUFFICES ASSUME Init PROVE TypeOK /\ BrokerInv
    OBVIOUS
  <1>1. TypeOK
    BY DEF Init, TypeOK, PcStates, Terminal
  <1>2. Queued = {} /\ pending = {}
    BY DEF Init, Queued
  <1>3. CallersWait /\ QueuedOnce /\ SettlesWillTell /\ SettledBeforeRead /\ OnlyReaderRejects
    BY <1>2 DEF Init, CallersWait, QueuedOnce, SettlesWillTell, SettledBeforeRead,
       OnlyReaderRejects
  <1>4. LiveIsAwaited /\ RowIsPendingWhileLive /\ NothingWhileDown
    BY <1>2 DEF Init, LiveIsAwaited, RowIsPendingWhileLive, NothingWhileDown
  <1>5. DecidedWasOpened /\ UnopenedHasNoRow /\ ReadersOfTheDead
    BY DEF Init, DecidedWasOpened, UnopenedHasNoRow, ReadersOfTheDead
  <1>6. SweptIsClosed /\ LeaseRunsOnlyForTheUndecided /\ PausedLeaseHasWaiter
    BY DEF Init, SweptIsClosed, LeaseRunsOnlyForTheUndecided, PausedLeaseHasWaiter
  <1>7. OutcomeIsDurable /\ AuditIsTheOutcome
    BY DEF Init, OutcomeIsDurable, AuditIsTheOutcome
  <1> QED
    BY <1>1, <1>3, <1>4, <1>5, <1>6, <1>7 DEF BrokerInv
-----------------------------------------------------------------------------
(* Type correctness, one lemma for the actions of each kind *)

\* Settle, whoever calls it.
LEMMA SettleTypeOK ==
    ASSUME TypeOK, NEW r \in Calls, NEW status \in Terminal, NEW resume \in BOOLEAN,
           NEW by \in Settlers, Settle(r, status, resume, by), UnchangedBySettle,
           sweep' \in [Sweepers -> SUBSET Calls]
    PROVE  TypeOK'
  <1>1. dbq' \in Seq(DbOps)
    BY SettleType, Issued DEF Settle, TypeOK
  <1>2. pending' \subseteq Calls /\ decision' \in [Calls -> Terminal \cup {"none"}]
    BY DEF Settle, TypeOK
  <1>3. lease' \in [Sessions -> {"live", "paused", "closing", "closed"}]
    BY DEF Settle, TypeOK
  <1> QED
    BY <1>1, <1>2, <1>3 DEF UnchangedBySettle, TypeOK

LEMMA PlaceTypeOK ==
    ASSUME TypeOK, NEW c \in Calls, NEW q \in Seq(DbOps), Place(c, q)
    PROVE  /\ pc' \in [Calls -> PcStates]
           /\ lease' \in [Sessions -> {"live", "paused", "closing", "closed"}]
           /\ dbq' \in Seq(DbOps)
           /\ target' = target
  <1>1. CASE ~HasCapacity(SessionOf(c))
    <2>1. pc' = [pc EXCEPT ![c] = "failed"] /\ dbq' = q /\ UNCHANGED <<lease, target>>
      BY <1>1 DEF Place
    <2> QED
      BY <2>1 DEF TypeOK, PcStates
  <1>2. CASE HasCapacity(SessionOf(c))
    <2>1. dbq' \in Seq(DbOps)
      BY <1>2, CallType, Issued DEF Place, CallerOps
    <2> QED
      BY <1>2, <2>1 DEF Place, TypeOK, PcStates, InFlight
  <1> QED
    BY <1>1, <1>2

LEMMA AwaitOrReadTypeOK ==
    ASSUME TypeOK, dbq # <<>>, NEW c \in Calls, NEW r \in Calls, AwaitOrRead(c, r)
    PROVE  /\ pc' \in [Calls -> PcStates]
           /\ target' \in [Calls -> Calls \cup {None}]
           /\ dbq' \in Seq(DbOps)
  <1>1. Tail(dbq) \in Seq(DbOps)
    BY Executed DEF TypeOK
  <1>2. dbq' \in Seq(DbOps)
    BY <1>1, CallType, Issued DEF AwaitOrRead, CallerOps
  <1> QED
    BY <1>2 DEF AwaitOrRead, TypeOK, PcStates, InFlight

\* The head of the queue, as DbExec and DbFail take it.
LEMMA HeadTypeOK ==
    ASSUME TypeOK, dbq # <<>>
    PROVE  /\ Head(dbq) = dbq[1] /\ 1 \in Queued
           /\ Head(dbq).id \in Calls /\ Head(dbq).by \in Settlers \cup {None}
           /\ Head(dbq).op \in CallerOps \cup {"settle", "audit"}
           /\ Tail(dbq) \in Seq(DbOps)
  BY Executed DEF TypeOK, DbOps, CallerOps, Queued

\* DbExec, when its settle was decided and its readers are after a request.
LEMMA ExecTypeOK ==
    ASSUME TypeOK, SettlesWillTell, ReadersOfTheDead, CallersWait, DbExec
    PROVE  TypeOK'
  <1> DEFINE c == Head(dbq).id
  <1>0. dbq # <<>> /\ c \in Calls /\ Tail(dbq) \in Seq(DbOps) /\ Head(dbq) = dbq[1] /\ 1 \in Queued
    BY HeadTypeOK DEF DbExec
  <1>1. SUFFICES /\ pc' \in [Calls -> PcStates]
                 /\ target' \in [Calls -> Calls \cup {None}]
                 /\ told' \in [Calls -> Terminal \cup {"none", "unknown"}]
                 /\ pending' \subseteq Calls
                 /\ row' \in [Calls -> Terminal \cup {"absent", "pending"}]
                 /\ audit' \in [Calls -> Terminal \cup {"none"}]
                 /\ lease' \in [Sessions -> {"live", "paused", "closing", "closed"}]
                 /\ dbq' \in Seq(DbOps)
    BY DEF DbExec, TypeOK
  <1>2. CASE ExecFind(c)
    <2>1. CASE \E r \in Stored(c) : AwaitOrRead(c, r) /\ UNCHANGED lease
      <3>1. PICK r \in Stored(c) : AwaitOrRead(c, r) /\ UNCHANGED lease
        BY <2>1
      <3>2. r \in Calls
        BY DEF Stored
      <3> QED
        BY <1>0, <1>2, <3>1, <3>2, AwaitOrReadTypeOK DEF ExecFind, TypeOK
    <2>2. CASE Place(c, Tail(dbq))
      BY <1>0, <1>2, <2>2, PlaceTypeOK DEF ExecFind, TypeOK
    <2> QED
      BY <1>2, <2>1, <2>2 DEF ExecFind
  <1>3. CASE ExecInsert(c)
    BY <1>0, <1>3 DEF ExecInsert, TypeOK, PcStates, InFlight
  <1>4. CASE Head(dbq).op = "peek" /\ ExecPeek(c)
    <2>1. target[c] \in Calls
      BY <1>0, <1>4 DEF CallersWait, ReadersOfTheDead
    <2>2. CASE row[target[c]] # "absent"
      <3>1. AwaitOrRead(c, target[c]) /\ UNCHANGED told
        BY <1>4, <2>2 DEF ExecPeek
      <3> QED
        BY <1>0, <1>4, <2>1, <3>1, AwaitOrReadTypeOK DEF ExecPeek, TypeOK
    <2>3. CASE row[target[c]] = "absent"
      <3>1. /\ pc' = [pc EXCEPT ![c] = "done"]
            /\ told' = [told EXCEPT ![c] = "unknown"]
            /\ dbq' = Tail(dbq)
            /\ UNCHANGED <<target, pending, row, audit, lease>>
        BY <1>4, <2>3 DEF ExecPeek
      <3> QED
        BY <1>0, <3>1 DEF TypeOK, PcStates
    <2> QED
      BY <2>2, <2>3
  <1>5. CASE ExecGet(c)
    <2>1. dbq' \in Seq(DbOps)
      BY <1>0, <1>5, CallType, Issued DEF ExecGet, CallerOps
    <2>2. pc' \in [Calls -> PcStates]
      BY <1>0, <1>5 DEF ExecGet, TypeOK, PcStates, InFlight
    <2>3. told' \in [Calls -> Terminal \cup {"none", "unknown"}]
      BY <1>0, <1>5 DEF ExecGet, TypeOK
    <2> QED
      BY <1>5, <2>1, <2>2, <2>3 DEF ExecGet, TypeOK
  <1>6. CASE ExecExpire(c)
    BY <1>0, <1>6 DEF ExecExpire, Update, TypeOK, PcStates, Terminal
  <1>7. CASE Head(dbq).op = "settle" /\ ExecSettle(c, Head(dbq).by)
    <2>1. decision[c] \in Terminal
      BY <1>0, <1>7 DEF SettlesWillTell
    <2>2. dbq' \in Seq(DbOps)
      BY <1>0, <1>7, CallType, Issued DEF ExecSettle
    <2> QED
      BY <1>0, <1>7, <2>1, <2>2 DEF ExecSettle, Update, TypeOK, PcStates
  <1>8. CASE ExecAudit(c)
    BY <1>0, <1>8 DEF ExecAudit, TypeOK
  <1> QED
    BY <1>2, <1>3, <1>4, <1>5, <1>6, <1>7, <1>8 DEF DbExec

\* Every step keeps the types.
LEMMA NextTypeOK == TypeOK /\ BrokerInv /\ [Next]_vars => TypeOK'
  <1> SUFFICES ASSUME TypeOK, BrokerInv, [Next]_vars PROVE TypeOK'
    OBVIOUS
  <1>1. ASSUME NEW c \in Calls, Admit(c) PROVE TypeOK'
    BY <1>1 DEF Admit, TypeOK, PcStates, InFlight
  <1>2. ASSUME NEW c \in Calls, Open(c) PROVE TypeOK'
    <2>1. CASE \E r \in pending : /\ pc' = [pc EXCEPT ![c] = "waiting"]
                                  /\ target' = [target EXCEPT ![c] = r]
                                  /\ UNCHANGED <<lease, dbq>>
      BY <1>2, <2>1 DEF Open, TypeOK, PcStates, InFlight
    <2>2. CASE Place(c, dbq)
      <3>1. dbq \in Seq(DbOps)
        BY DEF TypeOK
      <3> QED
        BY <1>2, <2>2, <3>1, PlaceTypeOK DEF Open, TypeOK
    <2>3. CASE /\ pc' = [pc EXCEPT ![c] = "finding"]
               /\ dbq' = Append(dbq, Call("find", c)) /\ UNCHANGED <<lease, target>>
      <3>1. dbq' \in Seq(DbOps)
        BY <2>3, CallType, Issued DEF TypeOK, CallerOps
      <3>2. pc' \in [Calls -> PcStates]
        BY <2>3 DEF TypeOK, PcStates, InFlight
      <3> QED
        BY <1>2, <2>3, <3>1, <3>2 DEF Open, TypeOK
    <2> QED
      BY <1>2, <2>1, <2>2, <2>3 DEF Open
  <1>3. ASSUME NEW c \in Calls, NEW r \in Calls, Reattach(c, r) PROVE TypeOK'
    <2>1. dbq' \in Seq(DbOps)
      BY <1>3, CallType, Issued DEF Reattach, TypeOK, CallerOps
    <2> QED
      BY <1>3, <2>1 DEF Reattach, TypeOK, PcStates, InFlight
  <1>4. ASSUME NEW r \in Calls, Expire(r) PROVE TypeOK'
    BY <1>4, SettleTypeOK DEF Expire, Settlers, Terminal, TypeOK
  <1>5. ASSUME NEW r \in Calls, Cancel(r) PROVE TypeOK'
    BY <1>5, SettleTypeOK DEF Cancel, Settlers, Terminal, TypeOK
  <1>6. ASSUME NEW r \in Calls, NEW status \in {"resolved", "rejected"}, Resolve(r, status)
        PROVE  TypeOK'
    BY <1>6, SettleTypeOK DEF Resolve, Settlers, Terminal, TypeOK
  <1>7. ASSUME NEW b \in Sweepers, SweepNext(b) PROVE TypeOK'
    <2>1. PICK r \in sweep[b] \cap pending :
            /\ Settle(r, "rejected", FALSE, b)
            /\ sweep' = [sweep EXCEPT ![b] = (@ \cap pending) \ {r}]
      BY <1>7 DEF SweepNext
    <2>2. r \in Calls /\ sweep' \in [Sweepers -> SUBSET Calls]
      BY <2>1 DEF TypeOK
    <2> QED
      BY <1>7, <2>1, <2>2, SettleTypeOK DEF SweepNext, Settlers, Terminal
  <1>8. ASSUME NEW s \in Sessions, BeginClose(s) \/ Closed(s) PROVE TypeOK'
    BY <1>8 DEF BeginClose, Closed, OpenIdsFor, Sweepers, TypeOK
  <1>9. CASE DbExec
    BY <1>9, ExecTypeOK DEF BrokerInv
  <1>10. CASE DbFail
    <2>1. Tail(dbq) \in Seq(DbOps) /\ Head(dbq).id \in Calls
      BY <1>10, HeadTypeOK DEF DbFail
    <2> QED
      BY <1>10, <2>1 DEF DbFail, TypeOK, PcStates
  <1>11. CASE Shutdown
    BY <1>11 DEF Shutdown, TypeOK
  <1>12. CASE Exit
    BY <1>12 DEF Exit, TypeOK, PcStates
  <1>13. CASE Restart \/ Recovered
    BY <1>13 DEF Restart, Recovered, TypeOK
  <1>14. ASSUME NEW r \in Calls, RecoverOrphan(r) PROVE TypeOK'
    BY <1>14 DEF RecoverOrphan, Update, TypeOK, Terminal
  <1>15. CASE UNCHANGED vars
    BY <1>15 DEF vars, TypeOK
  <1> QED
    BY <1>1, <1>2, <1>3, <1>4, <1>5, <1>6, <1>7, <1>8, <1>9, <1>10, <1>11, <1>12,
       <1>13, <1>14, <1>15 DEF Next
-----------------------------------------------------------------------------
(* The queue and the rows, from one state to the next *)

LEMMA QueuedTypeOK ==
    ASSUME TypeOK
    PROVE  \A i \in Queued :
              /\ i \in Nat /\ dbq[i].id \in Calls
              /\ dbq[i].op \in CallerOps \cup {"settle", "audit"}
              /\ dbq[i].op = "settle" => dbq[i].by \in Settlers
  BY DEF TypeOK, DbOps, CallerOps, Queued

\* A call was added: it is last, the others are where they were.
LEMMA AfterIssue ==
    ASSUME TypeOK, NEW x \in DbOps, dbq' = Append(dbq, x)
    PROVE  \A i \in Queued' : \/ i \in Queued /\ dbq'[i] = dbq[i]
                              \/ i = Len(dbq) + 1 /\ i \notin Queued /\ dbq'[i] = x
  BY Issued DEF TypeOK, Queued

\* The oldest call left: the others move up.
LEMMA AfterExec ==
    ASSUME TypeOK, dbq # <<>>, dbq' = Tail(dbq)
    PROVE  \A i \in Queued' : i \in Nat /\ i + 1 \in Queued /\ i + 1 # 1 /\ dbq'[i] = dbq[i + 1]
  BY Executed DEF TypeOK, Queued

\* The oldest call left and its caller issued another one.
LEMMA AfterExecAndIssue ==
    ASSUME TypeOK, dbq # <<>>, NEW x \in DbOps, dbq' = Append(Tail(dbq), x)
    PROVE  \A i \in Queued' :
              /\ i \in Nat
              /\ \/ i + 1 \in Queued /\ i + 1 # 1 /\ dbq'[i] = dbq[i + 1]
                 \/ i + 1 \notin Queued /\ i = Len(dbq) /\ dbq'[i] = x
  <1>1. /\ Tail(dbq) \in Seq(DbOps) /\ Len(dbq) \in Nat \ {0} /\ Len(Tail(dbq)) = Len(dbq) - 1
        /\ \A i \in 1..Len(dbq) - 1 : Tail(dbq)[i] = dbq[i + 1]
    BY Executed DEF TypeOK
  <1>2. /\ Len(dbq') = Len(Tail(dbq)) + 1
        /\ \A i \in 1..Len(Tail(dbq)) : dbq'[i] = Tail(dbq)[i]
        /\ dbq'[Len(Tail(dbq)) + 1] = x
    BY <1>1, Issued
  <1> QED
    BY <1>1, <1>2 DEF Queued

\* Shadowed, for the rows of this state or of the next one.
ShadowedIn(rows, r) ==
    rows[r] = "absent" /\ \E o \in Calls \ {r} : rows[o] # "absent" /\ SameKey(o, r)

\* The safety invariants of the next state, in terms of its rows.
LEMMA RowsOfNext ==
    ASSUME input' = input
    PROVE  /\ \A r \in Calls : Shadowed(r) <=> ShadowedIn(row, r)
           /\ (\A r \in pending' : row'[r] = "pending" \/ ShadowedIn(row', r))
                 => RowIsPendingWhileLive'
           /\ (\A c \in Calls : pc'[c] = "done" /\ told'[c] \in Terminal =>
                 row'[target'[c]] = told'[c] \/ ShadowedIn(row', target'[c]))
                 => OutcomeIsDurable'
           /\ (\A r \in Calls : audit'[r] # "none" =>
                 row'[r] = audit'[r] \/ ShadowedIn(row', r))
                 => AuditIsTheOutcome'
  BY DEF ShadowedIn, Shadowed, SameKey, SessionOf, RowIsPendingWhileLive, OutcomeIsDurable,
     AuditIsTheOutcome

\* A row is never deleted, so a request once shadowed stays so until its own row is written.
LEMMA ShadowStays ==
    ASSUME \A o \in Calls : row[o] # "absent" => row'[o] # "absent",
           NEW r \in Calls, ShadowedIn(row, r), row'[r] = "absent"
    PROVE  ShadowedIn(row', r)
  BY DEF ShadowedIn

\* A call that awaits no database call has none queued.
LEMMA NoneQueued ==
    ASSUME TypeOK, CallersWait, NEW c \in Calls,
           pc[c] \in {"idle", "admitted", "waiting", "done", "failed", "lost"}
    PROVE  \A i \in Queued : dbq[i].op \in CallerOps => dbq[i].id # c
  BY QueuedTypeOK DEF CallersWait, CallerOps

\* The oldest call's caller has no other one queued.
LEMMA OnlyHead ==
    ASSUME TypeOK, QueuedOnce, dbq # <<>>, Head(dbq).op \in CallerOps
    PROVE  \A i \in Queued : i # 1 /\ dbq[i].op \in CallerOps => dbq[i].id # Head(dbq).id
  BY HeadTypeOK DEF QueuedOnce
-----------------------------------------------------------------------------
(* A settle, whoever calls it, up to its UPDATE *)

LEMMA SettleInv ==
    ASSUME TypeOK, BrokerInv, Serving, NEW r \in Calls, NEW status \in Terminal,
           NEW resume \in BOOLEAN, NEW by \in Settlers,
           Settle(r, status, resume, by), UnchangedBySettle,
           \A b \in Sweepers : sweep'[b] \subseteq sweep[b],
           resume \/ lease[SessionOf(r)] \in {"closing", "closed"}
    PROVE  BrokerInv'
  <1> DEFINE x == [op |-> "settle", id |-> r, by |-> by]
  <1> USE QueuedTypeOK
  <1>1. /\ pc[r] = "waiting" /\ target[r] = r /\ decision[r] = "none"
        /\ row[r] = "pending" \/ Shadowed(r)
    BY DEF BrokerInv, Settle, LiveIsAwaited, RowIsPendingWhileLive
  <1>2. \A i \in Queued' : \/ i \in Queued /\ dbq'[i] = dbq[i]
                           \/ i = Len(dbq) + 1 /\ i \notin Queued /\ dbq'[i] = x
    BY AfterIssue, SettleType DEF Settle
  <1>3. \A i \in Queued : dbq[i].op \in {"settle", "audit"} => dbq[i].id # r
    BY <1>1 DEF BrokerInv, SettlesWillTell, Terminal
  <1>4. UNCHANGED <<pc, input, target, told, row, audit, mode, faults>>
    BY DEF UnchangedBySettle
  <1>5. \A o \in Calls : Shadowed(o)' <=> Shadowed(o)
    BY <1>4 DEF Shadowed, SameKey, SessionOf
  <1>6. CallersWait'
    BY <1>2, <1>4 DEF BrokerInv, CallersWait
  <1>7. QueuedOnce'
    BY <1>2, <1>3 DEF BrokerInv, QueuedOnce, CallerOps
  <1>8. SettlesWillTell'
    <2> SUFFICES ASSUME NEW i \in Queued'
                 PROVE  /\ dbq'[i].op = "settle" =>
                             /\ decision'[dbq'[i].id] \in Terminal
                             /\ row[dbq'[i].id] = "pending" \/ Shadowed(dbq'[i].id)
                        /\ dbq'[i].op = "audit" =>
                             /\ decision'[dbq'[i].id] \in Terminal
                             /\ \/ row[dbq'[i].id] = decision'[dbq'[i].id]
                                \/ Shadowed(dbq'[i].id)
      BY <1>4, <1>5 DEF SettlesWillTell, Shadowed, SameKey, SessionOf
    <2>1. CASE i \in Queued /\ dbq'[i] = dbq[i]
      <3>1. dbq[i].op \in {"settle", "audit"} => decision'[dbq[i].id] = decision[dbq[i].id]
        BY <2>1, <1>3 DEF Settle, TypeOK
      <3> QED
        BY <2>1, <3>1 DEF BrokerInv, SettlesWillTell
    <2>2. CASE dbq'[i] = x
      <3>1. dbq'[i].id = r /\ dbq'[i].op = "settle"
        BY <2>2
      <3>2. decision'[r] = status
        BY DEF Settle, TypeOK
      <3> QED
        BY <3>1, <3>2, <1>1
    <2> QED
      BY <1>2, <2>1, <2>2
  <1>9. LiveIsAwaited' /\ DecidedWasOpened' /\ UnopenedHasNoRow' /\ ReadersOfTheDead'
    BY <1>1, <1>4 DEF BrokerInv, LiveIsAwaited, DecidedWasOpened, UnopenedHasNoRow,
       ReadersOfTheDead, Settle, TypeOK
  <1>10. SettledBeforeRead'
    <2>1. \A i \in Queued : dbq[i].op = "get" => target[dbq[i].id] # r
      BY DEF BrokerInv, CallersWait, ReadersOfTheDead, Settle
    <2> QED
      BY <1>2, <1>4, <2>1 DEF BrokerInv, SettledBeforeRead
  <1>11. OnlyReaderRejects'
    <2>1. \A c \in Calls : pc[c] = "expiring" => target[c] # r
      BY DEF BrokerInv, ReadersOfTheDead, Settle
    <2> QED
      BY <1>2, <1>4, <2>1 DEF BrokerInv, OnlyReaderRejects
  <1>12. SweptIsClosed'
    <2>1. \A s \in Sessions : lease[s] \in {"closing", "closed"} => lease'[s] = lease[s]
      BY DEF Settle, TypeOK
    <2>2. \A o \in Calls : SessionOf(o) \in Sessions /\ SessionOf(o)' = SessionOf(o)
      BY <1>4, NamesAssumption DEF SessionOf, TypeOK
    <2> QED
      BY <1>4, <2>1, <2>2 DEF BrokerInv, SweptIsClosed, TypeOK
  <1>13. LeaseRunsOnlyForTheUndecided'
    <2> SUFFICES ASSUME NEW o \in Calls, o \in pending' \/ pc[o] = "inserting",
                        lease'[SessionOf(o)] = "live"
                 PROVE  \E d \in Calls \ {o} : SessionOf(d) = SessionOf(o) /\ decision'[d] # "none"
      BY <1>4 DEF LeaseRunsOnlyForTheUndecided, SessionOf
    <2>1. CASE SessionOf(o) = SessionOf(r)
      <3>1. r # o /\ decision'[r] # "none"
        BY <1>1 DEF Settle, TypeOK, Terminal
      <3> QED
        BY <2>1, <3>1
    <2>2. CASE SessionOf(o) # SessionOf(r)
      <3>1. lease[SessionOf(o)] = "live" /\ (o \in pending \/ pc[o] = "inserting")
        BY <2>2 DEF Settle, TypeOK
      <3>2. PICK d \in Calls \ {o} : SessionOf(d) = SessionOf(o) /\ decision[d] # "none"
        BY <3>1 DEF BrokerInv, LeaseRunsOnlyForTheUndecided
      <3> QED
        BY <2>2, <3>2 DEF Settle, TypeOK
    <2> QED
      BY <2>1, <2>2
  <1>14. PausedLeaseHasWaiter'
    BY <1>1, <1>4 DEF BrokerInv, PausedLeaseHasWaiter, Settle, SessionOf, TypeOK
  <1>15. NothingWhileDown' /\ RowIsPendingWhileLive'
    BY <1>4 DEF NothingWhileDown, BrokerInv, RowIsPendingWhileLive, Settle, Serving,
       Shadowed, SameKey, SessionOf
  <1>16. OutcomeIsDurable' /\ AuditIsTheOutcome'
    BY <1>4 DEF BrokerInv, OutcomeIsDurable, AuditIsTheOutcome, Shadowed, SameKey, SessionOf
  <1> QED
    BY <1>6, <1>7, <1>8, <1>9, <1>10, <1>11, <1>12, <1>13, <1>14, <1>15, <1>16 DEF BrokerInv
-----------------------------------------------------------------------------
(* Opening and re-attaching *)

LEMMA AdmitInv ==
    ASSUME TypeOK, BrokerInv, NEW c \in Calls, Admit(c)
    PROVE  BrokerInv'
  <1>1. /\ pc[c] = "idle" /\ pc' = [pc EXCEPT ![c] = "admitted"] /\ Serving
        /\ UNCHANGED <<input, target, told, pending, decision, row, audit, lease,
                       sweep, dbq, mode, faults>>
    BY DEF Admit
  <1>2. CallersWait' /\ QueuedOnce'
    <2>1. QueuedOnce'
      BY <1>1 DEF BrokerInv, QueuedOnce, Queued
    <2>2. \A i \in Queued : dbq[i].op \in CallerOps => pc'[dbq[i].id] = pc[dbq[i].id]
      BY <1>1, NoneQueued, QueuedTypeOK DEF BrokerInv, TypeOK
    <2>3. CallersWait'
      BY <1>1, <2>2 DEF BrokerInv, CallersWait, CallerOps, Queued
    <2> QED
      BY <2>1, <2>3
  <1>3. SettlesWillTell' /\ SettledBeforeRead'
    BY <1>1 DEF BrokerInv, SettlesWillTell, SettledBeforeRead, Queued, Shadowed, SameKey, SessionOf
  <1>4. LiveIsAwaited' /\ DecidedWasOpened' /\ UnopenedHasNoRow' /\ ReadersOfTheDead'
    BY <1>1 DEF BrokerInv, LiveIsAwaited, DecidedWasOpened, UnopenedHasNoRow,
       ReadersOfTheDead, TypeOK
  <1>5. OnlyReaderRejects' /\ SweptIsClosed' /\ NothingWhileDown'
    BY <1>1 DEF BrokerInv, OnlyReaderRejects, SweptIsClosed, NothingWhileDown, Queued,
       Serving, SessionOf, TypeOK
  <1>6. LeaseRunsOnlyForTheUndecided' /\ PausedLeaseHasWaiter'
    BY <1>1 DEF BrokerInv, LeaseRunsOnlyForTheUndecided, PausedLeaseHasWaiter, SessionOf, TypeOK
  <1>7. RowIsPendingWhileLive' /\ OutcomeIsDurable' /\ AuditIsTheOutcome'
    BY <1>1 DEF BrokerInv, RowIsPendingWhileLive, OutcomeIsDurable, AuditIsTheOutcome,
       Shadowed, SameKey, SessionOf, TypeOK
  <1> QED
    BY <1>2, <1>3, <1>4, <1>5, <1>6, <1>7 DEF BrokerInv

\* A call joins a live request: open's first case, and result of a live one (n calls executed).
LEMMA JoinInv ==
    ASSUME TypeOK, BrokerInv, Serving, NEW c \in Calls, NEW r \in pending, NEW n \in {0, 1},
           pc[c] \in {"admitted", "finding", "peeking"},
           pc' = [pc EXCEPT ![c] = "waiting"], target' = [target EXCEPT ![c] = r],
           \A i \in Queued' : i \in Nat /\ i + n \in Queued /\ dbq'[i] = dbq[i + n],
           \A i \in Queued : i > n /\ dbq[i].op \in CallerOps => dbq[i].id # c,
           UNCHANGED <<input, told, pending, decision, row, audit, lease, sweep, mode, faults>>
    PROVE  BrokerInv'
  <1> USE QueuedTypeOK
  <1>0. \A i \in Queued' : i + n > n
    BY DEF Queued
  <1>1. CallersWait'
    BY <1>0 DEF BrokerInv, CallersWait, CallerOps, TypeOK
  <1>2. QueuedOnce'
    BY <1>0 DEF BrokerInv, QueuedOnce
  <1>3. SettlesWillTell'
    BY DEF BrokerInv, SettlesWillTell, Shadowed, SameKey, SessionOf
  <1>4. SettledBeforeRead'
    <2>1. \A i \in Queued' : dbq'[i].op = "get" => target'[dbq'[i].id] = target[dbq'[i].id]
      BY <1>0 DEF CallerOps, TypeOK
    <2> QED
      BY <2>1 DEF BrokerInv, SettledBeforeRead
  <1>5. LiveIsAwaited' /\ DecidedWasOpened' /\ UnopenedHasNoRow' /\ ReadersOfTheDead'
    BY DEF BrokerInv, LiveIsAwaited, DecidedWasOpened, UnopenedHasNoRow,
       ReadersOfTheDead, TypeOK
  <1>6. OnlyReaderRejects'
    BY DEF BrokerInv, OnlyReaderRejects, TypeOK
  <1>7. SweptIsClosed' /\ NothingWhileDown'
    BY DEF BrokerInv, SweptIsClosed, NothingWhileDown, Serving, SessionOf, TypeOK
  <1>8. LeaseRunsOnlyForTheUndecided' /\ PausedLeaseHasWaiter'
    BY DEF BrokerInv, LeaseRunsOnlyForTheUndecided, PausedLeaseHasWaiter, SessionOf, TypeOK
  <1>9. RowIsPendingWhileLive' /\ OutcomeIsDurable' /\ AuditIsTheOutcome'
    BY DEF BrokerInv, RowIsPendingWhileLive, OutcomeIsDurable, AuditIsTheOutcome,
       Shadowed, SameKey, SessionOf, TypeOK
  <1> QED
    BY <1>1, <1>2, <1>3, <1>4, <1>5, <1>6, <1>7, <1>8, <1>9 DEF BrokerInv

\* A call issues a find, a peek or a read (n calls executed): only its own position changes.
LEMMA AskInv ==
    ASSUME TypeOK, BrokerInv, Serving, NEW c \in Calls, NEW n \in {0, 1},
           NEW x \in DbOps, NEW at \in {"finding", "peeking", "reading"},
           NEW r \in Calls \cup {None},
           pc[c] \in {"idle", "admitted", "finding", "peeking"},
           x.op \in {"find", "peek", "get"}, x.op = "find" => at = "finding",
           x.op = "peek" => at = "peeking", x.op = "get" => at = "reading",
           x.id = c, pc' = [pc EXCEPT ![c] = at], target' = [target EXCEPT ![c] = r],
           x.op = "find" => pc[c] = "admitted",
           x.op # "find" => r \in Calls,
           x.op = "get" => r \notin pending /\ row[r] # "absent",
           \A i \in Queued' :
              /\ i \in Nat
              /\ \/ i + n \in Queued /\ dbq'[i] = dbq[i + n]
                 \/ i + n = Len(dbq) + 1 /\ dbq'[i] = x,
           \A i \in Queued : i > n /\ dbq[i].op \in CallerOps => dbq[i].id # c,
           UNCHANGED <<input, told, pending, decision, row, audit, lease, sweep, mode, faults>>
    PROVE  BrokerInv'
  <1> USE QueuedTypeOK
  <1>0. /\ \A i \in Queued' : i + n > n
        /\ \A i \in Queued : i < Len(dbq) + 1
        /\ x.op \in CallerOps /\ x.op # "settle" /\ x.op # "audit"
        /\ at \in {"finding", "peeking", "reading"}
        /\ Len(dbq) \in Nat
    BY DEF Queued, CallerOps, TypeOK
  <1>1. CallersWait'
    <2>1. ASSUME NEW i \in Queued', i + n \in Queued, dbq'[i] = dbq[i + n]
          PROVE  dbq'[i].op \in CallerOps => pc'[dbq'[i].id] = pc[dbq[i + n].id]
      BY <1>0, <2>1 DEF TypeOK
    <2>2. ASSUME NEW i \in Queued', dbq'[i] = x
          PROVE  pc'[dbq'[i].id] = at
      BY <2>2 DEF TypeOK
    <2> QED
      BY <2>1, <2>2 DEF BrokerInv, CallersWait, CallerOps
  <1>2. QueuedOnce'
    <2>1. \A i \in Queued' : dbq'[i].op = "settle" => i + n \in Queued /\ dbq'[i] = dbq[i + n]
      BY <1>0
    <2>2. \A i \in Queued' : dbq'[i].op \in CallerOps =>
             \/ i + n \in Queued /\ dbq'[i] = dbq[i + n] /\ dbq'[i].id # c
             \/ i + n = Len(dbq) + 1 /\ dbq'[i].id = c
      BY <1>0
    <2> SUFFICES ASSUME NEW i \in Queued', NEW j \in Queued', i # j,
                        \/ dbq'[i].op \in CallerOps /\ dbq'[j].op \in CallerOps
                        \/ dbq'[i].op = "settle" /\ dbq'[j].op = "settle"
                 PROVE  dbq'[i].id # dbq'[j].id
      BY DEF QueuedOnce
    <2>3. i \in Nat /\ j \in Nat /\ i + n # j + n
      OBVIOUS
    <2>4. CASE dbq'[i].op = "settle" /\ dbq'[j].op = "settle"
      <3>1. /\ i + n \in Queued /\ dbq'[i] = dbq[i + n]
            /\ j + n \in Queued /\ dbq'[j] = dbq[j + n]
        BY <2>1, <2>4
      <3> QED
        BY <2>3, <2>4, <3>1 DEF BrokerInv, QueuedOnce
    <2>5. CASE dbq'[i].op \in CallerOps /\ dbq'[j].op \in CallerOps
      BY <2>2, <2>3, <2>5 DEF BrokerInv, QueuedOnce
    <2> QED
      BY <2>4, <2>5
  <1>3. SettlesWillTell'
    BY <1>0 DEF BrokerInv, SettlesWillTell, Shadowed, SameKey, SessionOf
  <1>4. SettledBeforeRead'
    <2> SUFFICES ASSUME NEW i \in Queued', NEW j \in Queued', dbq'[i].op = "get",
                        dbq'[j].op = "settle", target'[dbq'[i].id] = dbq'[j].id
                 PROVE  j < i
      BY DEF SettledBeforeRead
    <2>1. j \in Nat /\ j + n \in Queued /\ dbq'[j] = dbq[j + n] /\ j + n < Len(dbq) + 1
      BY <1>0
    <2>2. CASE i + n = Len(dbq) + 1
      BY <2>1, <2>2
    <2>3. CASE i + n \in Queued /\ dbq'[i] = dbq[i + n]
      <3>1. target'[dbq[i + n].id] = target[dbq[i + n].id]
        BY <1>0, <2>3 DEF CallerOps, TypeOK
      <3> QED
        BY <2>1, <2>3, <3>1 DEF BrokerInv, SettledBeforeRead
    <2> QED
      BY <2>2, <2>3
  <1>5. LiveIsAwaited' /\ DecidedWasOpened' /\ UnopenedHasNoRow' /\ ReadersOfTheDead'
    BY <1>0 DEF BrokerInv, LiveIsAwaited, DecidedWasOpened, UnopenedHasNoRow,
       ReadersOfTheDead, TypeOK
  <1>6. OnlyReaderRejects'
    BY <1>0 DEF BrokerInv, OnlyReaderRejects, TypeOK
  <1>7. SweptIsClosed' /\ NothingWhileDown'
    BY DEF BrokerInv, SweptIsClosed, NothingWhileDown, Serving, SessionOf, TypeOK
  <1>8. LeaseRunsOnlyForTheUndecided' /\ PausedLeaseHasWaiter'
    BY <1>0 DEF BrokerInv, LeaseRunsOnlyForTheUndecided, PausedLeaseHasWaiter, SessionOf, TypeOK
  <1>9. RowIsPendingWhileLive' /\ AuditIsTheOutcome'
    BY DEF BrokerInv, RowIsPendingWhileLive, AuditIsTheOutcome, Shadowed, SameKey, SessionOf
  <1>10. OutcomeIsDurable'
    <2>1. \A o \in Calls : pc'[o] = "done" => pc[o] = "done" /\ target'[o] = target[o]
      BY <1>0 DEF TypeOK
    <2> QED
      BY <2>1 DEF BrokerInv, OutcomeIsDurable, Shadowed, SameKey, SessionOf
  <1> QED
    BY <1>1, <1>2, <1>3, <1>4, <1>5, <1>6, <1>7, <1>8, <1>9, <1>10 DEF BrokerInv

\* A call ends without an outcome (n calls executed): refused for want of capacity, an unknown
\* id, a database call that threw.
LEMMA EndInv ==
    ASSUME TypeOK, BrokerInv, Serving, NEW c \in Calls, NEW n \in {0, 1},
           NEW at \in {"failed", "done"},
           pc[c] \in {"admitted", "finding", "inserting", "peeking", "reading", "expiring"},
           pc[c] = "inserting" => faults' # 0,
           at = "done" => pc[c] = "peeking" /\ told'[c] = "unknown",
           pc' = [pc EXCEPT ![c] = at],
           \A o \in Calls \ {c} : told'[o] = told[o],
           \A i \in Queued' : i \in Nat /\ i + n \in Queued /\ dbq'[i] = dbq[i + n],
           \A i \in Queued : i > n /\ dbq[i].op \in CallerOps => dbq[i].id # c,
           faults' \in Nat, faults' = 0 => faults = 0,
           UNCHANGED <<input, target, pending, decision, row, audit, lease, sweep, mode>>
    PROVE  BrokerInv'
  <1> USE QueuedTypeOK
  <1>0. \A i \in Queued' : i + n > n
    BY DEF Queued
  <1>1. CallersWait'
    BY <1>0 DEF BrokerInv, CallersWait, CallerOps, TypeOK
  <1>2. QueuedOnce'
    BY <1>0 DEF BrokerInv, QueuedOnce
  <1>3. SettlesWillTell'
    BY DEF BrokerInv, SettlesWillTell, Shadowed, SameKey, SessionOf
  <1>4. SettledBeforeRead'
    BY <1>0 DEF BrokerInv, SettledBeforeRead
  <1>5. LiveIsAwaited' /\ DecidedWasOpened' /\ UnopenedHasNoRow' /\ ReadersOfTheDead'
    BY DEF BrokerInv, LiveIsAwaited, DecidedWasOpened, UnopenedHasNoRow,
       ReadersOfTheDead, TypeOK
  <1>6. OnlyReaderRejects'
    BY DEF BrokerInv, OnlyReaderRejects, TypeOK
  <1>7. SweptIsClosed' /\ NothingWhileDown'
    BY DEF BrokerInv, SweptIsClosed, NothingWhileDown, Serving, SessionOf, TypeOK
  <1>8. LeaseRunsOnlyForTheUndecided'
    BY DEF BrokerInv, LeaseRunsOnlyForTheUndecided, SessionOf, TypeOK
  <1>9. PausedLeaseHasWaiter'
    BY DEF BrokerInv, PausedLeaseHasWaiter, SessionOf, TypeOK
  <1>10. RowIsPendingWhileLive' /\ AuditIsTheOutcome'
    BY DEF BrokerInv, RowIsPendingWhileLive, AuditIsTheOutcome, Shadowed, SameKey, SessionOf
  <1>11. OutcomeIsDurable'
    <2>1. \A o \in Calls : pc'[o] = "done" /\ told'[o] \in Terminal =>
             pc[o] = "done" /\ told'[o] = told[o]
      BY DEF Terminal, TypeOK
    <2> QED
      BY <2>1 DEF BrokerInv, OutcomeIsDurable, Shadowed, SameKey, SessionOf
  <1> QED
    BY <1>1, <1>2, <1>3, <1>4, <1>5, <1>6, <1>7, <1>8, <1>9, <1>10, <1>11 DEF BrokerInv

\* A call pauses the lease and issues its insert (n calls executed).
LEMMA PlaceInv ==
    ASSUME TypeOK, BrokerInv, Serving, NEW c \in Calls, NEW n \in {0, 1},
           pc[c] \in {"admitted", "finding"},
           pc' = [pc EXCEPT ![c] = "inserting"],
           lease' = IF lease[SessionOf(c)] = "live"
                    THEN [lease EXCEPT ![SessionOf(c)] = "paused"] ELSE lease,
           \A i \in Queued' :
              /\ i \in Nat
              /\ \/ i + n \in Queued /\ dbq'[i] = dbq[i + n]
                 \/ i + n = Len(dbq) + 1 /\ dbq'[i] = Call("insert", c),
           \A i \in Queued : i > n /\ dbq[i].op \in CallerOps => dbq[i].id # c,
           UNCHANGED <<input, target, told, pending, decision, row, audit, sweep, mode, faults>>
    PROVE  BrokerInv'
  <1> USE QueuedTypeOK
  <1>0. /\ \A i \in Queued' : i + n > n
        /\ \A i \in Queued : i < Len(dbq) + 1
        /\ Call("insert", c).op = "insert" /\ Call("insert", c).id = c
        /\ "insert" \in CallerOps
        /\ Len(dbq) \in Nat
    BY DEF Queued, Call, CallerOps, TypeOK
  <1>1. CallersWait'
    <2>1. ASSUME NEW i \in Queued', i + n \in Queued, dbq'[i] = dbq[i + n]
          PROVE  dbq'[i].op \in CallerOps => pc'[dbq'[i].id] = pc[dbq[i + n].id]
      BY <1>0, <2>1 DEF TypeOK
    <2>2. ASSUME NEW i \in Queued', dbq'[i] = Call("insert", c)
          PROVE  dbq'[i].op = "insert" /\ pc'[dbq'[i].id] = "inserting"
      BY <1>0, <2>2 DEF TypeOK
    <2> QED
      BY <2>1, <2>2 DEF BrokerInv, CallersWait, CallerOps
  <1>2. QueuedOnce'
    <2>1. \A i \in Queued' : dbq'[i].op = "settle" => i + n \in Queued /\ dbq'[i] = dbq[i + n]
      BY <1>0
    <2>2. \A i \in Queued' : dbq'[i].op \in CallerOps =>
             \/ i + n \in Queued /\ dbq'[i] = dbq[i + n] /\ dbq'[i].id # c
             \/ i + n = Len(dbq) + 1 /\ dbq'[i].id = c
      BY <1>0
    <2> SUFFICES ASSUME NEW i \in Queued', NEW j \in Queued', i # j,
                        \/ dbq'[i].op \in CallerOps /\ dbq'[j].op \in CallerOps
                        \/ dbq'[i].op = "settle" /\ dbq'[j].op = "settle"
                 PROVE  dbq'[i].id # dbq'[j].id
      BY DEF QueuedOnce
    <2>3. i \in Nat /\ j \in Nat /\ i + n # j + n
      OBVIOUS
    <2>4. CASE dbq'[i].op = "settle" /\ dbq'[j].op = "settle"
      <3>1. /\ i + n \in Queued /\ dbq'[i] = dbq[i + n]
            /\ j + n \in Queued /\ dbq'[j] = dbq[j + n]
        BY <2>1, <2>4
      <3> QED
        BY <2>3, <2>4, <3>1 DEF BrokerInv, QueuedOnce
    <2>5. CASE dbq'[i].op \in CallerOps /\ dbq'[j].op \in CallerOps
      BY <2>2, <2>3, <2>5 DEF BrokerInv, QueuedOnce
    <2> QED
      BY <2>4, <2>5
  <1>3. SettlesWillTell'
    BY <1>0 DEF BrokerInv, SettlesWillTell, Shadowed, SameKey, SessionOf
  <1>4. SettledBeforeRead'
    BY <1>0 DEF BrokerInv, SettledBeforeRead
  <1>5. LiveIsAwaited' /\ DecidedWasOpened' /\ UnopenedHasNoRow' /\ ReadersOfTheDead'
    BY DEF BrokerInv, LiveIsAwaited, DecidedWasOpened, UnopenedHasNoRow,
       ReadersOfTheDead, TypeOK
  <1>6. OnlyReaderRejects'
    BY <1>0 DEF BrokerInv, OnlyReaderRejects, TypeOK
  <1>7. SweptIsClosed'
    BY DEF BrokerInv, SweptIsClosed, SessionOf, TypeOK
  <1>8. NothingWhileDown'
    BY DEF NothingWhileDown, Serving
  <1>9. LeaseRunsOnlyForTheUndecided'
    BY NamesAssumption
       DEF BrokerInv, LeaseRunsOnlyForTheUndecided, SessionOf, TypeOK
  <1>10. PausedLeaseHasWaiter'
    BY NamesAssumption DEF BrokerInv, PausedLeaseHasWaiter, SessionOf, TypeOK
  <1>11. RowIsPendingWhileLive' /\ AuditIsTheOutcome' /\ OutcomeIsDurable'
    BY DEF BrokerInv, RowIsPendingWhileLive, AuditIsTheOutcome, OutcomeIsDurable,
       Shadowed, SameKey, SessionOf, TypeOK
  <1> QED
    BY <1>1, <1>2, <1>3, <1>4, <1>5, <1>6, <1>7, <1>8, <1>9, <1>10, <1>11 DEF BrokerInv

LEMMA OpenInv ==
    ASSUME TypeOK, BrokerInv, NEW c \in Calls, Open(c)
    PROVE  BrokerInv'
  <1>1. /\ Serving /\ pc[c] = "admitted"
        /\ UNCHANGED <<input, told, pending, decision, row, audit, sweep, mode, faults>>
    BY DEF Open
  <1>2. \A i \in Queued : i > 0 /\ dbq[i].op \in CallerOps => dbq[i].id # c
    BY <1>1, NoneQueued DEF BrokerInv
  <1>3. ASSUME dbq' = dbq
        PROVE  \A i \in Queued' : i \in Nat /\ i + 0 \in Queued /\ dbq'[i] = dbq[i + 0]
    BY <1>3, QueuedTypeOK DEF Queued
  <1>4. ASSUME NEW x \in DbOps, dbq' = Append(dbq, x)
        PROVE  \A i \in Queued' :
                  /\ i \in Nat
                  /\ \/ i + 0 \in Queued /\ dbq'[i] = dbq[i + 0]
                     \/ i + 0 = Len(dbq) + 1 /\ dbq'[i] = x
    BY <1>4, AfterIssue DEF Queued
  <1>5. CASE \E r \in pending : /\ pc' = [pc EXCEPT ![c] = "waiting"]
                                /\ target' = [target EXCEPT ![c] = r]
                                /\ UNCHANGED <<lease, dbq>>
    BY <1>1, <1>2, <1>3, <1>5, JoinInv
  <1>6. CASE /\ pc' = [pc EXCEPT ![c] = "finding"]
             /\ dbq' = Append(dbq, Call("find", c)) /\ UNCHANGED <<lease, target>>
    <2>1. PICK r \in Calls \cup {None} : target' = [target EXCEPT ![c] = r]
      BY <1>6 DEF TypeOK
    <2>2. Call("find", c) \in DbOps /\ Call("find", c).op = "find" /\ Call("find", c).id = c
      BY CallType DEF CallerOps
    <2>3. UNCHANGED <<input, told, pending, decision, row, audit, lease, sweep, mode, faults>>
      BY <1>1, <1>6
    <2>4. \A i \in Queued' : /\ i \in Nat
                             /\ \/ i + 0 \in Queued /\ dbq'[i] = dbq[i + 0]
                                \/ i + 0 = Len(dbq) + 1 /\ dbq'[i] = Call("find", c)
      BY <1>4, <1>6, <2>2
    <2> QED
      <3> DEFINE x == Call("find", c)
      <3>1. x \in DbOps /\ x.op = "find" /\ x.id = c /\ pc' = [pc EXCEPT ![c] = "finding"]
        BY <1>6, <2>2
      <3>2. \A i \in Queued' : /\ i \in Nat
                               /\ \/ i + 0 \in Queued /\ dbq'[i] = dbq[i + 0]
                                  \/ i + 0 = Len(dbq) + 1 /\ dbq'[i] = x
        BY <2>4
      <3> HIDE DEF x
      <3> QED
        BY <1>1, <1>2, <2>1, <2>3, <3>1, <3>2, AskInv
  <1>7. CASE Place(c, dbq)
    <2>1. CASE ~HasCapacity(SessionOf(c))
      <3>1. pc' = [pc EXCEPT ![c] = "failed"] /\ UNCHANGED <<dbq, lease, target>>
        BY <1>7, <2>1 DEF Place
      <3>2. /\ UNCHANGED <<input, target, pending, decision, row, audit, lease, sweep, mode>>
            /\ faults' \in Nat /\ faults' = faults
            /\ \A o \in Calls \ {c} : told'[o] = told[o]
        BY <1>1, <3>1 DEF TypeOK
      <3>3. \A i \in Queued' : i \in Nat /\ i + 0 \in Queued /\ dbq'[i] = dbq[i + 0]
        BY <1>3, <3>1
      <3> QED
        BY <1>1, <1>2, <3>1, <3>2, <3>3, EndInv
    <2>2. CASE HasCapacity(SessionOf(c))
      <3>1. Call("insert", c) \in DbOps
        BY CallType DEF CallerOps
      <3> QED
        BY <1>1, <1>2, <1>4, <1>7, <2>2, <3>1, PlaceInv DEF Place
    <2> QED
      BY <2>1, <2>2
  <1> QED
    BY <1>5, <1>6, <1>7 DEF Open

LEMMA ReattachInv ==
    ASSUME TypeOK, BrokerInv, NEW c \in Calls, NEW r \in Calls, Reattach(c, r)
    PROVE  BrokerInv'
  <1>1. /\ Serving /\ pc[c] = "idle" /\ pc' = [pc EXCEPT ![c] = "peeking"]
        /\ target' = [target EXCEPT ![c] = r] /\ dbq' = Append(dbq, Call("peek", c))
        /\ UNCHANGED <<input, told, pending, decision, row, audit, lease, sweep, mode, faults>>
    BY DEF Reattach
  <1>2. \A i \in Queued : i > 0 /\ dbq[i].op \in CallerOps => dbq[i].id # c
    BY <1>1, NoneQueued DEF BrokerInv
  <1>3. Call("peek", c) \in DbOps /\ Call("peek", c).op = "peek" /\ Call("peek", c).id = c
    BY CallType DEF CallerOps
  <1>4. \A i \in Queued' : /\ i \in Nat
                           /\ \/ i + 0 \in Queued /\ dbq'[i] = dbq[i + 0]
                              \/ i + 0 = Len(dbq) + 1 /\ dbq'[i] = Call("peek", c)
    BY <1>1, <1>3, AfterIssue DEF Queued
  <1> QED
    BY <1>1, <1>2, <1>3, <1>4, AskInv
-----------------------------------------------------------------------------
(* Executing the oldest database call *)

\* What every execution finds at the head of the queue, and what it leaves alone.
LEMMA ExecHead ==
    ASSUME TypeOK, BrokerInv, DbExec
    PROVE  /\ Serving /\ dbq # <<>> /\ Head(dbq) = dbq[1] /\ 1 \in Queued
           /\ Head(dbq).id \in Calls /\ Head(dbq).by \in Settlers \cup {None}
           /\ \A i \in Queued : i > 1 /\ dbq[i].op \in CallerOps /\ Head(dbq).op \in CallerOps
                 => dbq[i].id # Head(dbq).id
           /\ UNCHANGED <<input, decision, sweep, mode, faults>>
  BY HeadTypeOK, OnlyHead DEF BrokerInv, DbExec

\* What the caller of the head is suspended on.
LEMMA HeadWaits ==
    ASSUME TypeOK, BrokerInv, dbq # <<>>, NEW c \in Calls, c = Head(dbq).id
    PROVE  /\ Head(dbq).op = "find" => pc[c] = "finding"
           /\ Head(dbq).op = "insert" => pc[c] = "inserting"
           /\ Head(dbq).op = "peek" => pc[c] = "peeking"
           /\ Head(dbq).op = "get" => pc[c] = "reading"
           /\ Head(dbq).op = "expire" => pc[c] = "expiring"
  BY HeadTypeOK DEF BrokerInv, CallersWait

\* The queue after a plain execution, and after one that issues the next call.
LEMMA QueueAfter ==
    ASSUME TypeOK, dbq # <<>>
    PROVE  /\ dbq' = Tail(dbq) =>
                 \A i \in Queued' : i \in Nat /\ i + 1 \in Queued /\ dbq'[i] = dbq[i + 1]
           /\ \A x \in DbOps : dbq' = Append(Tail(dbq), x) =>
                 \A i \in Queued' :
                    /\ i \in Nat
                    /\ \/ i + 1 \in Queued /\ dbq'[i] = dbq[i + 1]
                       \/ i + 1 = Len(dbq) + 1 /\ dbq'[i] = x
  <1>1. ASSUME dbq' = Tail(dbq)
        PROVE  \A i \in Queued' : i \in Nat /\ i + 1 \in Queued /\ dbq'[i] = dbq[i + 1]
    BY <1>1, AfterExec
  <1>2. ASSUME NEW x \in DbOps, dbq' = Append(Tail(dbq), x)
        PROVE  \A i \in Queued' : /\ i \in Nat
                                  /\ \/ i + 1 \in Queued /\ dbq'[i] = dbq[i + 1]
                                     \/ i + 1 = Len(dbq) + 1 /\ dbq'[i] = x
    BY <1>2, AfterExecAndIssue
  <1> QED
    BY <1>1, <1>2

\* result after the row was found: the live request is joined, the dead one's row is read.
LEMMA AwaitOrReadInv ==
    ASSUME TypeOK, BrokerInv, Serving, dbq # <<>>, NEW c \in Calls, c = Head(dbq).id,
           pc[c] \in {"finding", "peeking"}, NEW r \in Calls, row[r] # "absent",
           AwaitOrRead(c, r),
           \A i \in Queued : i > 1 /\ dbq[i].op \in CallerOps => dbq[i].id # c,
           UNCHANGED <<input, told, pending, decision, row, audit, lease, sweep, mode, faults>>
    PROVE  BrokerInv'
  <1>1. target' = [target EXCEPT ![c] = r]
    BY DEF AwaitOrRead
  <1>2. CASE r \in pending
    <2>1. \A i \in Queued' : i \in Nat /\ i + 1 \in Queued /\ dbq'[i] = dbq[i + 1]
      BY <1>2, QueueAfter DEF AwaitOrRead
    <2> QED
      BY <1>1, <1>2, <2>1, JoinInv DEF AwaitOrRead
  <1>3. CASE r \notin pending
    <2> DEFINE x == Call("get", c)
    <2>1. x \in DbOps /\ x.op = "get" /\ x.id = c
      BY CallType DEF CallerOps
    <2>2. \A i \in Queued' : /\ i \in Nat
                             /\ \/ i + 1 \in Queued /\ dbq'[i] = dbq[i + 1]
                                \/ i + 1 = Len(dbq) + 1 /\ dbq'[i] = x
      BY <1>3, <2>1, QueueAfter DEF AwaitOrRead
    <2>3. pc' = [pc EXCEPT ![c] = "reading"]
      BY <1>3 DEF AwaitOrRead
    <2> HIDE DEF x
    <2> QED
      BY <1>1, <1>3, <2>1, <2>2, <2>3, AskInv
  <1> QED
    BY <1>2, <1>3

LEMMA ExecFindInv ==
    ASSUME TypeOK, BrokerInv, DbExec, NEW c \in Calls, c = Head(dbq).id,
           Head(dbq).op = "find", ExecFind(c)
    PROVE  BrokerInv'
  <1>1. /\ Serving /\ dbq # <<>> /\ pc[c] = "finding"
        /\ \A i \in Queued : i > 1 /\ dbq[i].op \in CallerOps => dbq[i].id # c
    BY ExecHead, HeadWaits DEF CallerOps
  <1>2. UNCHANGED <<input, told, pending, decision, row, audit, sweep, mode, faults>>
    BY ExecHead DEF ExecFind
  <1>3. CASE \E r \in Stored(c) : AwaitOrRead(c, r) /\ UNCHANGED lease
    <2>1. PICK r \in Stored(c) : AwaitOrRead(c, r) /\ UNCHANGED lease
      BY <1>3
    <2>2. r \in Calls /\ row[r] # "absent"
      BY DEF Stored
    <2> QED
      BY <1>1, <1>2, <2>1, <2>2, AwaitOrReadInv
  <1>4. CASE Place(c, Tail(dbq))
    <2>1. CASE ~HasCapacity(SessionOf(c))
      <3>1. pc' = [pc EXCEPT ![c] = "failed"] /\ dbq' = Tail(dbq) /\ UNCHANGED <<lease, target>>
        BY <1>4, <2>1 DEF Place
      <3>2. /\ UNCHANGED <<input, target, pending, decision, row, audit, lease, sweep, mode>>
            /\ faults' \in Nat /\ faults' = faults
            /\ \A o \in Calls \ {c} : told'[o] = told[o]
        BY <1>2, <3>1 DEF TypeOK
      <3>3. \A i \in Queued' : i \in Nat /\ i + 1 \in Queued /\ dbq'[i] = dbq[i + 1]
        BY <1>1, <3>1, QueueAfter
      <3> QED
        BY <1>1, <3>1, <3>2, <3>3, EndInv
    <2>2. CASE HasCapacity(SessionOf(c))
      <3>1. Call("insert", c) \in DbOps
        BY CallType DEF CallerOps
      <3>2. \A i \in Queued' :
               /\ i \in Nat
               /\ \/ i + 1 \in Queued /\ dbq'[i] = dbq[i + 1]
                  \/ i + 1 = Len(dbq) + 1 /\ dbq'[i] = Call("insert", c)
        BY <1>1, <1>4, <2>2, <3>1, QueueAfter DEF Place
      <3> QED
        BY <1>1, <1>2, <1>4, <2>2, <3>2, PlaceInv DEF Place
    <2> QED
      BY <2>1, <2>2
  <1> QED
    BY <1>3, <1>4 DEF ExecFind

LEMMA ExecPeekInv ==
    ASSUME TypeOK, BrokerInv, DbExec, NEW c \in Calls, c = Head(dbq).id,
           Head(dbq).op = "peek", ExecPeek(c)
    PROVE  BrokerInv'
  <1>1. /\ Serving /\ dbq # <<>> /\ pc[c] = "peeking"
        /\ \A i \in Queued : i > 1 /\ dbq[i].op \in CallerOps => dbq[i].id # c
    BY ExecHead, HeadWaits DEF CallerOps
  <1>2. UNCHANGED <<input, decision, sweep, mode, faults, pending, row, audit, lease>>
    BY ExecHead DEF ExecPeek
  <1>3. target[c] \in Calls
    BY <1>1 DEF BrokerInv, ReadersOfTheDead
  <1>4. CASE row[target[c]] = "absent"
    <2>1. /\ pc' = [pc EXCEPT ![c] = "done"] /\ told' = [told EXCEPT ![c] = "unknown"]
          /\ dbq' = Tail(dbq) /\ UNCHANGED target
      BY <1>4 DEF ExecPeek
    <2>2. /\ UNCHANGED <<input, target, pending, decision, row, audit, lease, sweep, mode>>
          /\ faults' \in Nat /\ faults' = faults /\ told'[c] = "unknown"
          /\ \A o \in Calls \ {c} : told'[o] = told[o]
      BY <1>2, <2>1 DEF TypeOK
    <2>3. \A i \in Queued' : i \in Nat /\ i + 1 \in Queued /\ dbq'[i] = dbq[i + 1]
      BY <1>1, <2>1, QueueAfter
    <2> QED
      BY <1>1, <2>1, <2>2, <2>3, EndInv
  <1>5. CASE row[target[c]] # "absent"
    <2>1. AwaitOrRead(c, target[c]) /\ UNCHANGED told
      BY <1>5 DEF ExecPeek
    <2> QED
      BY <1>1, <1>2, <1>3, <1>5, <2>1, AwaitOrReadInv
  <1> QED
    BY <1>4, <1>5

LEMMA ExecInsertInv ==
    ASSUME TypeOK, BrokerInv, DbExec, NEW c \in Calls, c = Head(dbq).id,
           Head(dbq).op = "insert", ExecInsert(c)
    PROVE  BrokerInv'
  <1> USE QueuedTypeOK
  <1>1. /\ Serving /\ dbq # <<>> /\ pc[c] = "inserting"
        /\ \A i \in Queued : i > 1 /\ dbq[i].op \in CallerOps => dbq[i].id # c
        /\ \A i \in Queued' : i \in Nat /\ i + 1 \in Queued /\ dbq'[i] = dbq[i + 1] /\ i + 1 > 1
    <2>1. /\ Serving /\ dbq # <<>> /\ pc[c] = "inserting"
          /\ \A i \in Queued : i > 1 /\ dbq[i].op \in CallerOps => dbq[i].id # c
      BY ExecHead, HeadWaits DEF CallerOps
    <2>2. \A i \in Queued' : i \in Nat /\ i + 1 \in Queued /\ dbq'[i] = dbq[i + 1]
      BY <2>1, QueueAfter DEF ExecInsert
    <2>3. \A i \in Queued' : i + 1 > 1
      BY DEF Queued
    <2> QED
      BY <2>1, <2>2, <2>3
  <1>2. /\ UNCHANGED <<input, decision, sweep, mode, faults, told, audit, lease>>
        /\ pending' = pending \cup {c} /\ pc' = [pc EXCEPT ![c] = "waiting"]
        /\ target' = [target EXCEPT ![c] = c]
        /\ row' = IF Stored(c) = {} THEN [row EXCEPT ![c] = "pending"] ELSE row
    BY ExecHead DEF ExecInsert
  <1>3. row[c] = "absent" /\ decision[c] = "none"
    BY <1>1 DEF BrokerInv, UnopenedHasNoRow, DecidedWasOpened
  <1>4. /\ \A o \in Calls : row[o] # "absent" => row'[o] = row[o]
        /\ \A o \in Calls \ {c} : row'[o] = row[o]
        /\ IF ShadowedIn(row, c) THEN row' = row ELSE row'[c] = "pending"
    <2>1. CASE Stored(c) = {}
      <3>1. ~ShadowedIn(row, c)
        BY <2>1 DEF Stored, ShadowedIn
      <3>2. row' = [row EXCEPT ![c] = "pending"]
        BY <1>2, <2>1
      <3> QED
        BY <1>3, <3>1, <3>2 DEF TypeOK
    <2>2. CASE Stored(c) # {}
      <3>1. row' = row
        BY <1>2, <2>2
      <3>2. ShadowedIn(row, c)
        BY <1>3, <2>2 DEF Stored, ShadowedIn
      <3> QED
        BY <1>3, <3>1, <3>2
    <2> QED
      BY <2>1, <2>2
  <1>5. \A o \in Calls : ShadowedIn(row, o) => ShadowedIn(row', o)
    <2> SUFFICES ASSUME NEW o \in Calls, ShadowedIn(row, o) PROVE ShadowedIn(row', o)
      OBVIOUS
    <2>1. row'[o] = "absent"
      BY <1>4 DEF ShadowedIn
    <2> QED
      BY <1>2, <1>4, <2>1, ShadowStays
  <1>6. CallersWait'
    BY <1>1, <1>2 DEF BrokerInv, CallersWait, CallerOps, TypeOK
  <1>7. QueuedOnce'
    BY <1>1 DEF BrokerInv, QueuedOnce
  <1>8. SettlesWillTell'
    BY <1>1, <1>2, <1>3, <1>4, <1>5
       DEF BrokerInv, SettlesWillTell, Shadowed, SameKey, SessionOf, Terminal
  <1>9. LiveIsAwaited' /\ DecidedWasOpened'
    BY <1>1, <1>2, <1>3 DEF BrokerInv, LiveIsAwaited, DecidedWasOpened, TypeOK
  <1>10. UnopenedHasNoRow' /\ ReadersOfTheDead'
    BY <1>1, <1>2, <1>3, <1>4 DEF BrokerInv, UnopenedHasNoRow, ReadersOfTheDead, TypeOK
  <1>11. SettledBeforeRead'
    BY <1>1, <1>2 DEF BrokerInv, SettledBeforeRead, CallerOps, TypeOK
  <1>12. OnlyReaderRejects'
    BY <1>1, <1>2, <1>3, <1>4 DEF BrokerInv, OnlyReaderRejects, ReadersOfTheDead, TypeOK
  <1>13. SweptIsClosed' /\ NothingWhileDown'
    BY <1>1, <1>2 DEF BrokerInv, SweptIsClosed, NothingWhileDown, Serving, SessionOf
  <1>14. LeaseRunsOnlyForTheUndecided'
    BY <1>1, <1>2 DEF BrokerInv, LeaseRunsOnlyForTheUndecided, SessionOf, TypeOK
  <1>15. PausedLeaseHasWaiter'
    BY <1>1, <1>2 DEF BrokerInv, PausedLeaseHasWaiter, SessionOf, TypeOK
  <1>16. RowIsPendingWhileLive'
    <2>1. \A r \in pending : row[r] = "pending" \/ ShadowedIn(row, r)
      BY <1>2, RowsOfNext DEF BrokerInv, RowIsPendingWhileLive, TypeOK
    <2>2. \A r \in pending' : row'[r] = "pending" \/ ShadowedIn(row', r)
      <3>1. row'[c] = "pending" \/ ShadowedIn(row', c)
        BY <1>4, <1>5
      <3>2. ASSUME NEW r \in pending', r # c
            PROVE  row'[r] = row[r] /\ r \in pending
        BY <1>2, <1>4, <3>2 DEF TypeOK
      <3> QED
        BY <1>2, <1>5, <2>1, <3>1, <3>2 DEF TypeOK
    <2> QED
      BY <1>2, <2>2, RowsOfNext
  <1>17. OutcomeIsDurable'
    <2> SUFFICES ASSUME NEW o \in Calls, pc'[o] = "done", told'[o] \in Terminal
                 PROVE  row'[target'[o]] = told'[o] \/ ShadowedIn(row', target'[o])
      BY <1>2, RowsOfNext
    <2>1. /\ target'[o] = target[o] /\ target[o] \in Calls /\ told'[o] = told[o]
          /\ pc[o] = "done"
      BY <1>1, <1>2 DEF BrokerInv, ReadersOfTheDead, TypeOK
    <2>2. row[target[o]] = told[o] \/ ShadowedIn(row, target[o])
      BY <1>2, <2>1, RowsOfNext DEF BrokerInv, OutcomeIsDurable
    <2> QED
      BY <1>4, <1>5, <2>1, <2>2 DEF Terminal
  <1>18. AuditIsTheOutcome'
    <2>1. \A r \in Calls : audit[r] # "none" => row[r] = audit[r] \/ ShadowedIn(row, r)
      BY <1>2, RowsOfNext DEF BrokerInv, AuditIsTheOutcome
    <2>2. audit' = audit /\ \A r \in Calls : audit[r] # "none" => audit[r] # "absent"
      BY <1>2 DEF TypeOK, Terminal
    <2>3. \A r \in Calls : audit'[r] # "none" => row'[r] = audit'[r] \/ ShadowedIn(row', r)
      BY <1>4, <1>5, <2>1, <2>2
    <2> QED
      BY <1>2, <2>3, RowsOfNext
  <1> QED
    BY <1>6, <1>7, <1>8, <1>9, <1>10, <1>11, <1>12, <1>13, <1>14, <1>15, <1>16, <1>17, <1>18
       DEF BrokerInv

LEMMA ExecGetInv ==
    ASSUME TypeOK, BrokerInv, DbExec, NEW c \in Calls, c = Head(dbq).id,
           Head(dbq).op = "get", ExecGet(c)
    PROVE  BrokerInv'
  <1> USE QueuedTypeOK
  <1>1. /\ Serving /\ dbq # <<>> /\ pc[c] = "reading" /\ dbq[1] = Head(dbq) /\ 1 \in Queued
        /\ \A i \in Queued : i > 1 /\ dbq[i].op \in CallerOps => dbq[i].id # c
        /\ UNCHANGED <<input, target, pending, decision, row, audit, lease, sweep, mode, faults>>
    BY ExecHead, HeadWaits DEF ExecGet, CallerOps
  <1>2. target[c] \in Calls /\ target[c] \notin pending /\ row[target[c]] # "absent"
    BY <1>1 DEF BrokerInv, ReadersOfTheDead
  <1> DEFINE x == Call("expire", c)
  <1>3. x \in DbOps /\ x.op = "expire" /\ x.id = c
    BY CallType DEF CallerOps
  <1>4. \A i \in Queued' :
           /\ i \in Nat /\ i + 1 > 1
           /\ \/ i + 1 \in Queued /\ dbq'[i] = dbq[i + 1]
              \/ dbq'[i] = x /\ i + 1 = Len(dbq) + 1 /\ pc' = [pc EXCEPT ![c] = "expiring"]
    BY <1>1, <1>3, QueueAfter DEF ExecGet, Queued
  <1> HIDE DEF x
  <1>5. \/ /\ row[target[c]] \in Terminal
           /\ pc' = [pc EXCEPT ![c] = "done"] /\ told' = [told EXCEPT ![c] = row[target[c]]]
        \/ /\ row[target[c]] = "pending"
           /\ pc' = [pc EXCEPT ![c] = "expiring"] /\ told' = told
    BY DEF ExecGet
  <1>6. CallersWait'
    <2>1. ASSUME NEW i \in Queued', i + 1 \in Queued, dbq'[i] = dbq[i + 1]
          PROVE  dbq'[i].op \in CallerOps => pc'[dbq'[i].id] = pc[dbq[i + 1].id]
      BY <1>1, <1>4, <1>5, <2>1 DEF TypeOK
    <2>2. ASSUME NEW i \in Queued', dbq'[i] = x, pc' = [pc EXCEPT ![c] = "expiring"]
          PROVE  dbq'[i].op = "expire" /\ pc'[dbq'[i].id] = "expiring"
      BY <1>3, <2>2 DEF TypeOK
    <2> QED
      BY <1>4, <2>1, <2>2 DEF BrokerInv, CallersWait, CallerOps
  <1>7. QueuedOnce'
    <2>1. \A i \in Queued' : dbq'[i].op = "settle" => i + 1 \in Queued /\ dbq'[i] = dbq[i + 1]
      BY <1>3, <1>4
    <2>2. \A i \in Queued' : dbq'[i].op \in CallerOps =>
             \/ i + 1 \in Queued /\ dbq'[i] = dbq[i + 1] /\ dbq'[i].id # c
             \/ i + 1 = Len(dbq) + 1 /\ dbq'[i].id = c
      BY <1>1, <1>3, <1>4
    <2> SUFFICES ASSUME NEW i \in Queued', NEW j \in Queued', i # j,
                        \/ dbq'[i].op \in CallerOps /\ dbq'[j].op \in CallerOps
                        \/ dbq'[i].op = "settle" /\ dbq'[j].op = "settle"
                 PROVE  dbq'[i].id # dbq'[j].id
      BY DEF QueuedOnce
    <2>3. i \in Nat /\ j \in Nat /\ i + 1 # j + 1
      BY <1>4
    <2>4. CASE dbq'[i].op = "settle" /\ dbq'[j].op = "settle"
      BY <2>1, <2>3, <2>4 DEF BrokerInv, QueuedOnce
    <2>5. CASE dbq'[i].op \in CallerOps /\ dbq'[j].op \in CallerOps
      BY <2>2, <2>3, <2>5 DEF BrokerInv, QueuedOnce
    <2> QED
      BY <2>4, <2>5
  <1>8. SettlesWillTell' /\ SettledBeforeRead'
    <2>1. \A i \in Queued' : dbq'[i].op \in {"settle", "audit", "get"} =>
             i + 1 \in Queued /\ dbq'[i] = dbq[i + 1]
      BY <1>3, <1>4
    <2>2. SettlesWillTell'
      BY <1>1, <2>1 DEF BrokerInv, SettlesWillTell, Shadowed, SameKey, SessionOf
    <2>3. SettledBeforeRead'
      BY <1>1, <1>4, <2>1 DEF BrokerInv, SettledBeforeRead
    <2> QED
      BY <2>2, <2>3
  <1>9. LiveIsAwaited' /\ DecidedWasOpened' /\ UnopenedHasNoRow' /\ ReadersOfTheDead'
    <2>1. PICK at \in {"done", "expiring"} : pc' = [pc EXCEPT ![c] = at]
      BY <1>5
    <2>2. LiveIsAwaited' /\ DecidedWasOpened' /\ UnopenedHasNoRow'
      BY <1>1, <2>1 DEF BrokerInv, LiveIsAwaited, DecidedWasOpened, UnopenedHasNoRow, TypeOK
    <2>3. ReadersOfTheDead'
      BY <1>1, <1>2, <2>1 DEF BrokerInv, ReadersOfTheDead, TypeOK
    <2> QED
      BY <2>2, <2>3
  <1>10. OnlyReaderRejects'
    <2>1. \A i \in Queued : dbq[i].op = "settle" => dbq[i].id # target[c]
      BY <1>1 DEF BrokerInv, SettledBeforeRead, Queued
    <2>2. \A i \in Queued' : dbq'[i].op = "settle" => i + 1 \in Queued /\ dbq'[i] = dbq[i + 1]
      BY <1>3, <1>4
    <2>3. ASSUME NEW o \in Calls, pc'[o] = "expiring"
          PROVE  \/ o = c /\ row[target[c]] = "pending"
                 \/ pc[o] = "expiring"
      BY <1>5, <2>3 DEF TypeOK
    <2> QED
      BY <1>1, <2>1, <2>2, <2>3 DEF BrokerInv, OnlyReaderRejects
  <1>11. SweptIsClosed' /\ NothingWhileDown'
    BY <1>1 DEF BrokerInv, SweptIsClosed, NothingWhileDown, Serving, SessionOf
  <1>12. LeaseRunsOnlyForTheUndecided' /\ PausedLeaseHasWaiter'
    BY <1>1, <1>5 DEF BrokerInv, LeaseRunsOnlyForTheUndecided, PausedLeaseHasWaiter,
       SessionOf, TypeOK
  <1>13. RowIsPendingWhileLive' /\ AuditIsTheOutcome'
    BY <1>1 DEF BrokerInv, RowIsPendingWhileLive, AuditIsTheOutcome, Shadowed, SameKey, SessionOf
  <1>14. OutcomeIsDurable'
    BY <1>1, <1>5 DEF BrokerInv, OutcomeIsDurable, Shadowed, SameKey, SessionOf, TypeOK
  <1> QED
    BY <1>6, <1>7, <1>8, <1>9, <1>10, <1>11, <1>12, <1>13, <1>14 DEF BrokerInv

\* A pending row that belongs to no live request is rejected: reject-on-read and recovery.
LEMMA RejectRowInv ==
    ASSUME TypeOK, BrokerInv, input' = input, pending' = pending, audit' = audit,
           NEW r \in Calls \ pending, row[r] = "pending",
           row' = [row EXCEPT ![r] = "rejected"]
    PROVE  /\ \A o \in Calls : row[o] \in Terminal => row'[o] = row[o]
           /\ \A o \in Calls : ShadowedIn(row', o) <=> ShadowedIn(row, o)
           /\ RowIsPendingWhileLive' /\ AuditIsTheOutcome'
  <1>1. \A o \in Calls : row[o] \in Terminal => row'[o] = row[o]
    BY DEF TypeOK, Terminal
  <1>2. /\ \A o \in Calls : (row'[o] = "absent") <=> (row[o] = "absent")
        /\ \A o \in Calls \ {r} : row'[o] = row[o]
    BY DEF TypeOK
  <1>3. \A o \in Calls : ShadowedIn(row', o) <=> ShadowedIn(row, o)
    BY <1>2 DEF ShadowedIn
  <1>4. RowIsPendingWhileLive'
    <2>1. \A o \in pending : row[o] = "pending" \/ ShadowedIn(row, o)
      BY RowsOfNext DEF BrokerInv, RowIsPendingWhileLive, TypeOK
    <2>2. \A o \in pending' : o \in pending /\ o \in Calls \ {r}
      BY DEF TypeOK
    <2>3. \A o \in pending' : row'[o] = "pending" \/ ShadowedIn(row', o)
      BY <1>2, <1>3, <2>1, <2>2
    <2> QED
      BY <2>3, RowsOfNext
  <1>5. AuditIsTheOutcome'
    <2>1. \A o \in Calls : audit[o] # "none" => row[o] = audit[o] \/ ShadowedIn(row, o)
      BY RowsOfNext DEF BrokerInv, AuditIsTheOutcome
    <2>2. \A o \in Calls : audit[o] # "none" => audit[o] \in Terminal
      BY DEF TypeOK
    <2>3. \A o \in Calls : audit'[o] # "none" => row'[o] = audit'[o] \/ ShadowedIn(row', o)
      BY <1>1, <1>3, <2>1, <2>2
    <2> QED
      BY <2>3, RowsOfNext
  <1> QED
    BY <1>1, <1>3, <1>4, <1>5

LEMMA ExecExpireInv ==
    ASSUME TypeOK, BrokerInv, DbExec, NEW c \in Calls, c = Head(dbq).id,
           Head(dbq).op = "expire", ExecExpire(c)
    PROVE  BrokerInv'
  <1> USE QueuedTypeOK
  <1> DEFINE r == target[c]
  <1>1. /\ Serving /\ dbq # <<>> /\ pc[c] = "expiring"
        /\ \A i \in Queued : i > 1 /\ dbq[i].op \in CallerOps => dbq[i].id # c
        /\ \A i \in Queued' : i \in Nat /\ i + 1 \in Queued /\ dbq'[i] = dbq[i + 1] /\ i + 1 > 1
    <2>1. /\ Serving /\ dbq # <<>> /\ pc[c] = "expiring"
          /\ \A i \in Queued : i > 1 /\ dbq[i].op \in CallerOps => dbq[i].id # c
      BY ExecHead, HeadWaits DEF CallerOps
    <2>2. \A i \in Queued' : i \in Nat /\ i + 1 \in Queued /\ dbq'[i] = dbq[i + 1]
      BY <2>1, QueueAfter DEF ExecExpire
    <2>3. \A i \in Queued' : i + 1 > 1
      BY DEF Queued
    <2> QED
      BY <2>1, <2>2, <2>3
  <1>2. /\ UNCHANGED <<input, target, pending, decision, audit, lease, sweep, mode, faults>>
        /\ pc' = [pc EXCEPT ![c] = "done"] /\ told' = [told EXCEPT ![c] = "rejected"]
        /\ row' = IF row[r] = "pending" THEN [row EXCEPT ![r] = "rejected"] ELSE row
    BY ExecHead DEF ExecExpire, Update
  <1>3. /\ r \in Calls \ pending /\ row[r] \in {"pending", "rejected"}
        /\ \A i \in Queued : dbq[i].op = "settle" => dbq[i].id # r
    BY <1>1 DEF BrokerInv, ReadersOfTheDead, OnlyReaderRejects
  <1>4. /\ \A o \in Calls : row[o] \in Terminal => row'[o] = row[o]
        /\ \A o \in Calls : ShadowedIn(row', o) <=> ShadowedIn(row, o)
        /\ \A o \in Calls : (row'[o] = "absent") <=> (row[o] = "absent")
        /\ \A o \in Calls \ {r} : row'[o] = row[o]
        /\ row'[r] = "rejected"
        /\ RowIsPendingWhileLive' /\ AuditIsTheOutcome'
    <2>1. CASE row[r] = "pending"
      <3> HIDE DEF r
      <3>1. row' = [row EXCEPT ![r] = "rejected"]
        BY <1>2, <2>1
      <3>2. /\ \A o \in Calls : row[o] \in Terminal => row'[o] = row[o]
            /\ \A o \in Calls : ShadowedIn(row', o) <=> ShadowedIn(row, o)
            /\ RowIsPendingWhileLive' /\ AuditIsTheOutcome'
        BY <1>2, <1>3, <2>1, <3>1, RejectRowInv
      <3>3. /\ \A o \in Calls : (row'[o] = "absent") <=> (row[o] = "absent")
            /\ \A o \in Calls \ {r} : row'[o] = row[o]
            /\ row'[r] = "rejected"
        BY <1>3, <2>1, <3>1 DEF TypeOK
      <3> QED
        BY <3>2, <3>3
    <2>2. CASE row[r] = "rejected"
      <3>1. row' = row
        BY <1>2, <2>2
      <3>2. RowIsPendingWhileLive' /\ AuditIsTheOutcome'
        BY <1>2, <3>1 DEF BrokerInv, RowIsPendingWhileLive, AuditIsTheOutcome, Shadowed,
           SameKey, SessionOf
      <3> QED
        BY <1>3, <2>2, <3>1, <3>2
    <2> QED
      BY <1>3, <2>1, <2>2
  <1> HIDE DEF r
  <1>5. CallersWait'
    BY <1>1, <1>2 DEF BrokerInv, CallersWait, CallerOps, TypeOK
  <1>6. QueuedOnce' /\ SettledBeforeRead'
    BY <1>1, <1>2 DEF BrokerInv, QueuedOnce, SettledBeforeRead
  <1>7. SettlesWillTell'
    <2> SUFFICES ASSUME NEW i \in Queued', dbq'[i].op \in {"settle", "audit"}
                 PROVE  LET o == dbq'[i].id
                        IN /\ decision[o] \in Terminal
                           /\ dbq'[i].op = "settle" =>
                                row'[o] = "pending" \/ ShadowedIn(row', o)
                           /\ dbq'[i].op = "audit" =>
                                row'[o] = decision[o] \/ ShadowedIn(row', o)
      BY <1>2 DEF SettlesWillTell, Shadowed, ShadowedIn, SameKey, SessionOf
    <2>1. /\ dbq'[i].id \in Calls /\ decision[dbq'[i].id] \in Terminal
          /\ dbq'[i].op = "settle" => /\ dbq'[i].id # r
                                      /\ \/ row[dbq'[i].id] = "pending"
                                         \/ ShadowedIn(row, dbq'[i].id)
          /\ dbq'[i].op = "audit" => \/ row[dbq'[i].id] = decision[dbq'[i].id]
                                     \/ ShadowedIn(row, dbq'[i].id)
      BY <1>1, <1>2, <1>3, RowsOfNext DEF BrokerInv, SettlesWillTell
    <2> QED
      BY <1>4, <2>1
  <1>8. LiveIsAwaited' /\ DecidedWasOpened' /\ UnopenedHasNoRow' /\ ReadersOfTheDead'
    BY <1>1, <1>2, <1>3, <1>4 DEF BrokerInv, LiveIsAwaited, DecidedWasOpened,
       UnopenedHasNoRow, ReadersOfTheDead, TypeOK
  <1>9. OnlyReaderRejects'
    BY <1>1, <1>2, <1>3, <1>4 DEF BrokerInv, OnlyReaderRejects, ReadersOfTheDead, TypeOK
  <1>10. SweptIsClosed' /\ NothingWhileDown'
    BY <1>1, <1>2 DEF BrokerInv, SweptIsClosed, NothingWhileDown, Serving, SessionOf
  <1>11. LeaseRunsOnlyForTheUndecided' /\ PausedLeaseHasWaiter'
    BY <1>1, <1>2 DEF BrokerInv, LeaseRunsOnlyForTheUndecided, PausedLeaseHasWaiter,
       SessionOf, TypeOK
  <1>12. OutcomeIsDurable'
    <2> SUFFICES ASSUME NEW o \in Calls, pc'[o] = "done", told'[o] \in Terminal
                 PROVE  row'[target'[o]] = told'[o] \/ ShadowedIn(row', target'[o])
      BY <1>2, RowsOfNext
    <2>1. CASE o = c
      BY <1>2, <1>4, <2>1 DEF r, TypeOK
    <2>2. CASE o # c
      <3>1. /\ target'[o] = target[o] /\ target[o] \in Calls /\ told'[o] = told[o]
            /\ pc[o] = "done"
        BY <1>2, <2>2 DEF BrokerInv, ReadersOfTheDead, TypeOK
      <3>2. row[target[o]] = told[o] \/ ShadowedIn(row, target[o])
        BY <1>2, <3>1, RowsOfNext DEF BrokerInv, OutcomeIsDurable
      <3> QED
        BY <1>4, <3>1, <3>2
    <2> QED
      BY <2>1, <2>2
  <1> QED
    BY <1>4, <1>5, <1>6, <1>7, <1>8, <1>9, <1>10, <1>11, <1>12 DEF BrokerInv

LEMMA ExecAuditInv ==
    ASSUME TypeOK, BrokerInv, DbExec, NEW r \in Calls, r = Head(dbq).id,
           Head(dbq).op = "audit", ExecAudit(r)
    PROVE  BrokerInv'
  <1> USE QueuedTypeOK
  <1>1. /\ Serving /\ dbq # <<>> /\ dbq[1] = Head(dbq) /\ 1 \in Queued
        /\ \A i \in Queued' : i \in Nat /\ i + 1 \in Queued /\ dbq'[i] = dbq[i + 1]
    BY ExecHead, QueueAfter DEF ExecAudit
  <1>2. /\ UNCHANGED <<input, pc, target, told, pending, decision, row, lease, sweep, mode, faults>>
        /\ audit' = [audit EXCEPT ![r] = decision[r]]
    BY ExecHead DEF ExecAudit
  <1>3. CallersWait' /\ QueuedOnce' /\ SettledBeforeRead' /\ OnlyReaderRejects'
    BY <1>1, <1>2 DEF BrokerInv, CallersWait, QueuedOnce, SettledBeforeRead, OnlyReaderRejects
  <1>4. SettlesWillTell'
    BY <1>1, <1>2 DEF BrokerInv, SettlesWillTell, Shadowed, SameKey, SessionOf
  <1>5. LiveIsAwaited' /\ DecidedWasOpened' /\ UnopenedHasNoRow' /\ ReadersOfTheDead'
    BY <1>2 DEF BrokerInv, LiveIsAwaited, DecidedWasOpened, UnopenedHasNoRow, ReadersOfTheDead
  <1>6. SweptIsClosed' /\ NothingWhileDown' /\ LeaseRunsOnlyForTheUndecided'
        /\ PausedLeaseHasWaiter'
    BY <1>1, <1>2 DEF BrokerInv, SweptIsClosed, NothingWhileDown, LeaseRunsOnlyForTheUndecided,
       PausedLeaseHasWaiter, Serving, SessionOf
  <1>7. RowIsPendingWhileLive' /\ OutcomeIsDurable'
    BY <1>2 DEF BrokerInv, RowIsPendingWhileLive, OutcomeIsDurable, Shadowed, SameKey, SessionOf
  <1>8. AuditIsTheOutcome'
    <2>1. row[r] = decision[r] \/ Shadowed(r)
      BY <1>1 DEF BrokerInv, SettlesWillTell
    <2> QED
      BY <1>2, <2>1 DEF BrokerInv, AuditIsTheOutcome, Shadowed, SameKey, SessionOf, TypeOK
  <1> QED
    BY <1>3, <1>4, <1>5, <1>6, <1>7, <1>8 DEF BrokerInv

\* settle after its await: whoever waited is told what the row now says.
LEMMA ExecSettleInv ==
    ASSUME TypeOK, BrokerInv, DbExec, NEW r \in Calls, r = Head(dbq).id,
           Head(dbq).op = "settle", ExecSettle(r, Head(dbq).by)
    PROVE  BrokerInv'
  <1> USE QueuedTypeOK
  <1> DEFINE x == Call("audit", r)
  <1>1. /\ Serving /\ dbq # <<>> /\ dbq[1] = Head(dbq) /\ 1 \in Queued
        /\ x \in DbOps /\ x.op = "audit" /\ x.id = r
    BY ExecHead, CallType
  <1>2. \A i \in Queued' :
           /\ i \in Nat /\ i + 1 > 1
           /\ \/ i + 1 \in Queued /\ dbq'[i] = dbq[i + 1]
              \/ dbq'[i] = x
    BY <1>1, QueueAfter DEF ExecSettle, Queued
  <1> HIDE DEF x
  <1>3. /\ UNCHANGED <<input, target, pending, decision, audit, lease, sweep, mode, faults>>
        /\ \A c \in Calls : IF pc[c] = "waiting" /\ target[c] = r
                            THEN pc'[c] = "done" /\ told'[c] = decision[r]
                            ELSE pc'[c] = pc[c] /\ told'[c] = told[c]
        /\ row' = IF row[r] = "pending" THEN [row EXCEPT ![r] = decision[r]] ELSE row
    BY ExecHead DEF ExecSettle, Update, Waiters
  <1>4. /\ decision[r] \in Terminal
        /\ row[r] = "pending" \/ ShadowedIn(row, r)
        /\ \A i \in Queued : i > 1 /\ dbq[i].op = "settle" => dbq[i].id # r
        /\ r \notin pending
        /\ \A c \in Calls : pc[c] = "expiring" => target[c] # r
    BY <1>1, <1>3, RowsOfNext DEF BrokerInv, SettlesWillTell, QueuedOnce, LiveIsAwaited,
       OnlyReaderRejects, Terminal
  <1>5. /\ \A o \in Calls : row[o] \in Terminal => row'[o] = row[o]
        /\ \A o \in Calls \ {r} : row'[o] = row[o]
        /\ \A o \in Calls : (row'[o] = "absent") <=> (row[o] = "absent")
        /\ row'[r] = decision[r] \/ ShadowedIn(row, r)
    BY <1>3, <1>4 DEF TypeOK, Terminal
  <1>6. \A o \in Calls : ShadowedIn(row', o) <=> ShadowedIn(row, o)
    BY <1>5 DEF ShadowedIn
  <1>7. CallersWait'
    <2>1. \A i \in Queued' : dbq'[i].op \in CallerOps => i + 1 \in Queued /\ dbq'[i] = dbq[i + 1]
      BY <1>1, <1>2 DEF CallerOps
    <2>2. \A c \in Calls : pc[c] # "waiting" => pc'[c] = pc[c]
      BY <1>3
    <2> QED
      BY <2>1, <2>2 DEF BrokerInv, CallersWait, CallerOps
  <1>8. QueuedOnce' /\ SettledBeforeRead'
    <2>1. \A i \in Queued' : dbq'[i].op \in CallerOps \cup {"settle"} =>
             i + 1 \in Queued /\ dbq'[i] = dbq[i + 1]
      BY <1>1, <1>2 DEF CallerOps
    <2>2. QueuedOnce'
      BY <1>2, <2>1 DEF BrokerInv, QueuedOnce
    <2>3. SettledBeforeRead'
      BY <1>2, <1>3, <2>1 DEF BrokerInv, SettledBeforeRead, CallerOps
    <2> QED
      BY <2>2, <2>3
  <1>9. SettlesWillTell'
    <2> SUFFICES ASSUME NEW i \in Queued', dbq'[i].op \in {"settle", "audit"}
                 PROVE  LET o == dbq'[i].id
                        IN /\ decision[o] \in Terminal
                           /\ dbq'[i].op = "settle" =>
                                row'[o] = "pending" \/ ShadowedIn(row', o)
                           /\ dbq'[i].op = "audit" =>
                                row'[o] = decision[o] \/ ShadowedIn(row', o)
      BY <1>3 DEF SettlesWillTell, Shadowed, ShadowedIn, SameKey, SessionOf
    <2>1. CASE dbq'[i] = x
      BY <1>1, <1>4, <1>5, <1>6, <2>1
    <2>2. CASE i + 1 \in Queued /\ dbq'[i] = dbq[i + 1]
      <3>1. /\ dbq'[i].id \in Calls /\ decision[dbq'[i].id] \in Terminal
            /\ dbq'[i].op = "settle" => /\ dbq'[i].id # r
                                        /\ \/ row[dbq'[i].id] = "pending"
                                           \/ ShadowedIn(row, dbq'[i].id)
            /\ dbq'[i].op = "audit" => \/ row[dbq'[i].id] = decision[dbq'[i].id]
                                       \/ ShadowedIn(row, dbq'[i].id)
        BY <1>2, <1>3, <1>4, <2>2, RowsOfNext DEF BrokerInv, SettlesWillTell
      <3> QED
        BY <1>5, <1>6, <3>1
    <2> QED
      BY <1>2, <2>1, <2>2
  <1>10. LiveIsAwaited' /\ DecidedWasOpened' /\ UnopenedHasNoRow'
    BY <1>3, <1>4, <1>5 DEF BrokerInv, LiveIsAwaited, DecidedWasOpened, UnopenedHasNoRow, TypeOK
  <1>11. ReadersOfTheDead'
    BY <1>3, <1>5 DEF BrokerInv, ReadersOfTheDead
  <1>12. OnlyReaderRejects'
    <2>1. \A i \in Queued' : dbq'[i].op = "settle" => i + 1 \in Queued /\ dbq'[i] = dbq[i + 1]
      BY <1>1, <1>2
    <2>2. \A c \in Calls : pc'[c] = "expiring" =>
             pc[c] = "expiring" /\ target[c] \in Calls \ {r}
      BY <1>3, <1>4 DEF BrokerInv, ReadersOfTheDead
    <2> QED
      BY <1>3, <1>5, <2>1, <2>2 DEF BrokerInv, OnlyReaderRejects
  <1>13. SweptIsClosed' /\ NothingWhileDown'
    BY <1>1, <1>3 DEF BrokerInv, SweptIsClosed, NothingWhileDown, Serving, SessionOf
  <1>14. LeaseRunsOnlyForTheUndecided' /\ PausedLeaseHasWaiter'
    <2>1. \A c \in Calls : (pc'[c] = "inserting") <=> (pc[c] = "inserting")
      BY <1>3
    <2> QED
      BY <1>3, <2>1 DEF BrokerInv, LeaseRunsOnlyForTheUndecided, PausedLeaseHasWaiter, SessionOf
  <1>15. RowIsPendingWhileLive'
    <2>1. \A o \in pending : row[o] = "pending" \/ ShadowedIn(row, o)
      BY <1>3, RowsOfNext DEF BrokerInv, RowIsPendingWhileLive, TypeOK
    <2>2. pending' = pending /\ \A o \in pending : o \in Calls \ {r}
      BY <1>3, <1>4 DEF TypeOK
    <2>3. \A o \in pending' : row'[o] = "pending" \/ ShadowedIn(row', o)
      BY <1>5, <1>6, <2>1, <2>2
    <2> QED
      BY <1>3, <2>3, RowsOfNext
  <1>16. OutcomeIsDurable'
    <2> SUFFICES ASSUME NEW c \in Calls, pc'[c] = "done", told'[c] \in Terminal
                 PROVE  row'[target'[c]] = told'[c] \/ ShadowedIn(row', target'[c])
      BY <1>3, RowsOfNext
    <2>1. CASE pc[c] = "waiting" /\ target[c] = r
      BY <1>3, <1>5, <1>6, <2>1
    <2>2. CASE ~(pc[c] = "waiting" /\ target[c] = r)
      <3>1. target'[c] = target[c] /\ told'[c] = told[c] /\ pc[c] = "done"
        BY <1>3, <2>2
      <3>2. target[c] \in Calls /\ (row[target[c]] = told[c] \/ ShadowedIn(row, target[c]))
        BY <1>3, <3>1, RowsOfNext DEF BrokerInv, ReadersOfTheDead, OutcomeIsDurable
      <3> QED
        BY <1>5, <1>6, <3>1, <3>2
    <2> QED
      BY <2>1, <2>2
  <1>17. AuditIsTheOutcome'
    <2>1. \A o \in Calls : audit[o] # "none" => row[o] = audit[o] \/ ShadowedIn(row, o)
      BY <1>3, RowsOfNext DEF BrokerInv, AuditIsTheOutcome
    <2>2. audit' = audit /\ \A o \in Calls : audit[o] # "none" => audit[o] \in Terminal
      BY <1>3 DEF TypeOK
    <2>3. \A o \in Calls : audit'[o] # "none" => row'[o] = audit'[o] \/ ShadowedIn(row', o)
      BY <1>5, <1>6, <2>1, <2>2
    <2> QED
      BY <1>3, <2>3, RowsOfNext
  <1> QED
    BY <1>7, <1>8, <1>9, <1>10, <1>11, <1>12, <1>13, <1>14, <1>15, <1>16, <1>17 DEF BrokerInv

LEMMA DbExecInv == TypeOK /\ BrokerInv /\ DbExec => BrokerInv'
  <1> SUFFICES ASSUME TypeOK, BrokerInv, DbExec PROVE BrokerInv'
    OBVIOUS
  <1>1. Head(dbq).id \in Calls
    BY ExecHead
  <1> QED
    BY <1>1, ExecFindInv, ExecInsertInv, ExecPeekInv, ExecGetInv, ExecExpireInv,
       ExecSettleInv, ExecAuditInv DEF DbExec

\* A database call throws: its caller fails, or a settle is never told and its sweep stops.
LEMMA DbFailInv == TypeOK /\ BrokerInv /\ DbFail => BrokerInv'
  <1> SUFFICES ASSUME TypeOK, BrokerInv, DbFail PROVE BrokerInv'
    OBVIOUS
  <1> USE QueuedTypeOK
  <1> DEFINE c == Head(dbq).id
  <1>1. /\ Serving /\ dbq # <<>> /\ Head(dbq) = dbq[1] /\ 1 \in Queued /\ c \in Calls
        /\ Head(dbq).op \in CallerOps \cup {"settle", "audit"}
    BY HeadTypeOK DEF DbFail
  <1>2. \A i \in Queued' : i \in Nat /\ i + 1 \in Queued /\ dbq'[i] = dbq[i + 1]
    BY <1>1, QueueAfter DEF DbFail
  <1>3. /\ UNCHANGED <<input, target, told, pending, decision, row, audit, lease, mode>>
        /\ faults' = faults + 1 /\ faults' \in Nat /\ faults' # 0
    BY DEF DbFail, TypeOK
  <1>4. CASE Head(dbq).op \in {"settle", "audit"}
    <2>1. pc' = pc /\ \A b \in Sweepers : sweep'[b] \subseteq sweep[b]
      BY <1>4 DEF DbFail, TypeOK
    <2>2. CallersWait' /\ QueuedOnce' /\ SettledBeforeRead' /\ OnlyReaderRejects'
      BY <1>2, <1>3, <2>1
         DEF BrokerInv, CallersWait, QueuedOnce, SettledBeforeRead, OnlyReaderRejects
    <2>3. SettlesWillTell'
      BY <1>2, <1>3 DEF BrokerInv, SettlesWillTell, Shadowed, SameKey, SessionOf
    <2>4. LiveIsAwaited' /\ DecidedWasOpened' /\ UnopenedHasNoRow' /\ ReadersOfTheDead'
      BY <1>3, <2>1 DEF BrokerInv, LiveIsAwaited, DecidedWasOpened, UnopenedHasNoRow,
         ReadersOfTheDead
    <2>5. /\ SweptIsClosed' /\ NothingWhileDown' /\ LeaseRunsOnlyForTheUndecided'
          /\ PausedLeaseHasWaiter'
      BY <1>1, <1>3, <2>1 DEF BrokerInv, SweptIsClosed, NothingWhileDown,
         LeaseRunsOnlyForTheUndecided, PausedLeaseHasWaiter, Serving, SessionOf
    <2>6. RowIsPendingWhileLive' /\ OutcomeIsDurable' /\ AuditIsTheOutcome'
      BY <1>3, <2>1 DEF BrokerInv, RowIsPendingWhileLive, OutcomeIsDurable, AuditIsTheOutcome,
         Shadowed, SameKey, SessionOf
    <2> QED
      BY <2>2, <2>3, <2>4, <2>5, <2>6 DEF BrokerInv
  <1>5. CASE Head(dbq).op \in CallerOps
    <2>1. /\ pc' = [pc EXCEPT ![c] = "failed"] /\ sweep' = sweep
          /\ \A o \in Calls \ {c} : told'[o] = told[o]
      BY <1>3, <1>5 DEF DbFail, CallerOps
    <2>2. pc[c] \in {"finding", "inserting", "peeking", "reading", "expiring"}
      BY <1>1, <1>5, HeadWaits DEF CallerOps
    <2>3. \A i \in Queued : i > 1 /\ dbq[i].op \in CallerOps => dbq[i].id # c
      BY <1>1, <1>5, OnlyHead DEF BrokerInv
    <2> HIDE DEF c
    <2> QED
      BY <1>1, <1>2, <1>3, <2>1, <2>2, <2>3, EndInv
  <1> QED
    BY <1>1, <1>4, <1>5
-----------------------------------------------------------------------------
(* Sessions, and the process *)

LEMMA CloseInv ==
    ASSUME TypeOK, BrokerInv, NEW s \in Sessions, BeginClose(s) \/ Closed(s)
    PROVE  BrokerInv'
  <1>1. /\ UNCHANGED <<input, pc, target, told, pending, decision, row, audit, dbq, mode, faults>>
        /\ Serving
    BY DEF BeginClose, Closed
  <1>2. PICK st \in {"closing", "closed"} : lease' = [lease EXCEPT ![s] = st]
    BY DEF BeginClose, Closed
  <1>3. CallersWait' /\ QueuedOnce' /\ SettledBeforeRead' /\ OnlyReaderRejects'
    BY <1>1 DEF BrokerInv, CallersWait, QueuedOnce, SettledBeforeRead, OnlyReaderRejects, Queued
  <1>4. SettlesWillTell'
    BY <1>1 DEF BrokerInv, SettlesWillTell, Queued, Shadowed, SameKey, SessionOf
  <1>5. LiveIsAwaited' /\ DecidedWasOpened' /\ UnopenedHasNoRow' /\ ReadersOfTheDead'
    BY <1>1 DEF BrokerInv, LiveIsAwaited, DecidedWasOpened, UnopenedHasNoRow, ReadersOfTheDead
  <1>6. SweptIsClosed'
    <2>1. CASE BeginClose(s)
      BY <1>1, <2>1 DEF BeginClose, BrokerInv, SweptIsClosed, SessionOf, TypeOK
    <2>2. CASE Closed(s)
      BY <1>1, <2>2 DEF Closed, BrokerInv, SweptIsClosed, OpenIdsFor, SessionOf, TypeOK
    <2> QED
      BY <2>1, <2>2
  <1>7. NothingWhileDown'
    BY <1>1 DEF BrokerInv, NothingWhileDown, Serving
  <1>8. LeaseRunsOnlyForTheUndecided' /\ PausedLeaseHasWaiter'
    BY <1>1, <1>2 DEF BrokerInv, LeaseRunsOnlyForTheUndecided, PausedLeaseHasWaiter, SessionOf,
       TypeOK
  <1>9. RowIsPendingWhileLive' /\ OutcomeIsDurable' /\ AuditIsTheOutcome'
    BY <1>1 DEF BrokerInv, RowIsPendingWhileLive, OutcomeIsDurable, AuditIsTheOutcome,
       Shadowed, SameKey, SessionOf
  <1> QED
    BY <1>3, <1>4, <1>5, <1>6, <1>7, <1>8, <1>9 DEF BrokerInv

LEMMA ShutdownInv == TypeOK /\ BrokerInv /\ Shutdown => BrokerInv'
  <1> SUFFICES ASSUME TypeOK, BrokerInv, Shutdown PROVE BrokerInv'
    OBVIOUS
  <1>1. /\ UNCHANGED <<input, pc, target, told, pending, decision, row, audit, lease, dbq, faults>>
        /\ mode = "up" /\ mode' = "stopping"
    BY DEF Shutdown
  <1>2. CallersWait' /\ QueuedOnce' /\ SettledBeforeRead' /\ OnlyReaderRejects'
    BY <1>1 DEF BrokerInv, CallersWait, QueuedOnce, SettledBeforeRead, OnlyReaderRejects, Queued
  <1>3. SettlesWillTell'
    BY <1>1 DEF BrokerInv, SettlesWillTell, Queued, Shadowed, SameKey, SessionOf
  <1>4. LiveIsAwaited' /\ DecidedWasOpened' /\ UnopenedHasNoRow' /\ ReadersOfTheDead'
    BY <1>1 DEF BrokerInv, LiveIsAwaited, DecidedWasOpened, UnopenedHasNoRow, ReadersOfTheDead
  <1>5. SweptIsClosed'
    <2>1. \A r \in Calls : SessionOf(r) \in Sessions
      BY NamesAssumption DEF SessionOf, TypeOK
    <2> QED
      BY <1>1, <2>1 DEF Shutdown, BrokerInv, SweptIsClosed, SessionOf, TypeOK
  <1>6. NothingWhileDown' /\ LeaseRunsOnlyForTheUndecided' /\ PausedLeaseHasWaiter'
    BY <1>1 DEF BrokerInv, NothingWhileDown, LeaseRunsOnlyForTheUndecided, PausedLeaseHasWaiter,
       Serving, SessionOf
  <1>7. RowIsPendingWhileLive' /\ OutcomeIsDurable' /\ AuditIsTheOutcome'
    BY <1>1 DEF BrokerInv, RowIsPendingWhileLive, OutcomeIsDurable, AuditIsTheOutcome,
       Shadowed, SameKey, SessionOf
  <1> QED
    BY <1>2, <1>3, <1>4, <1>5, <1>6, <1>7 DEF BrokerInv

LEMMA ExitInv == TypeOK /\ BrokerInv /\ Exit => BrokerInv'
  <1> SUFFICES ASSUME TypeOK, BrokerInv, Exit PROVE BrokerInv'
    OBVIOUS
  <1>1. Queued' = {} /\ pending' = {}
    BY DEF Exit, Queued
  <1>2. /\ UNCHANGED <<input, target, told, row, audit>>
        /\ \A c \in Calls : /\ pc'[c] \notin InFlight /\ decision'[c] = "none"
                            /\ pc'[c] \in {"idle", "done"} => pc[c] = pc'[c]
        /\ \A s \in Sessions : lease'[s] = "closed"
        /\ \A b \in Sweepers : sweep'[b] = {}
    BY DEF Exit, InFlight
  <1>3. /\ CallersWait' /\ QueuedOnce' /\ SettlesWillTell' /\ SettledBeforeRead'
        /\ OnlyReaderRejects'
    BY <1>1, <1>2 DEF CallersWait, QueuedOnce, SettlesWillTell, SettledBeforeRead,
       OnlyReaderRejects, InFlight
  <1>4. LiveIsAwaited' /\ DecidedWasOpened' /\ UnopenedHasNoRow' /\ ReadersOfTheDead'
    BY <1>1, <1>2 DEF BrokerInv, LiveIsAwaited, DecidedWasOpened, UnopenedHasNoRow,
       ReadersOfTheDead, InFlight
  <1>5. SweptIsClosed' /\ NothingWhileDown' /\ RowIsPendingWhileLive'
    BY <1>1, <1>2 DEF Exit, SweptIsClosed, NothingWhileDown, RowIsPendingWhileLive
  <1>6. LeaseRunsOnlyForTheUndecided' /\ PausedLeaseHasWaiter'
    <2>1. \A r \in Calls : SessionOf(r) \in Sessions
      BY NamesAssumption DEF SessionOf, TypeOK
    <2> QED
      BY <1>1, <1>2, <2>1 DEF LeaseRunsOnlyForTheUndecided, PausedLeaseHasWaiter, SessionOf
  <1>7. OutcomeIsDurable' /\ AuditIsTheOutcome'
    BY <1>2 DEF BrokerInv, OutcomeIsDurable, AuditIsTheOutcome, Shadowed, SameKey, SessionOf
  <1> QED
    BY <1>3, <1>4, <1>5, <1>6, <1>7 DEF BrokerInv

\* The next process starts and ends its recovery with an empty map and an empty queue.
LEMMA RestartInv == TypeOK /\ BrokerInv /\ (Restart \/ Recovered) => BrokerInv'
  <1> SUFFICES ASSUME TypeOK, BrokerInv, Restart \/ Recovered PROVE BrokerInv'
    OBVIOUS
  <1>1. /\ UNCHANGED <<input, pc, target, told, pending, decision, row, audit, lease, sweep, dbq>>
        /\ ~Serving /\ faults' \in Nat /\ (faults' = 0 => faults = 0)
    BY DEF Restart, Recovered, Serving, TypeOK
  <1>2. CallersWait' /\ QueuedOnce' /\ SettledBeforeRead' /\ OnlyReaderRejects'
    BY <1>1 DEF BrokerInv, CallersWait, QueuedOnce, SettledBeforeRead, OnlyReaderRejects, Queued
  <1>3. SettlesWillTell'
    BY <1>1 DEF BrokerInv, SettlesWillTell, Queued, Shadowed, SameKey, SessionOf
  <1>4. LiveIsAwaited' /\ DecidedWasOpened' /\ UnopenedHasNoRow' /\ ReadersOfTheDead'
    BY <1>1 DEF BrokerInv, LiveIsAwaited, DecidedWasOpened, UnopenedHasNoRow, ReadersOfTheDead
  <1>5. /\ SweptIsClosed' /\ NothingWhileDown' /\ LeaseRunsOnlyForTheUndecided'
        /\ PausedLeaseHasWaiter'
    BY <1>1 DEF BrokerInv, SweptIsClosed, NothingWhileDown, LeaseRunsOnlyForTheUndecided,
       PausedLeaseHasWaiter, SessionOf
  <1>6. RowIsPendingWhileLive' /\ OutcomeIsDurable' /\ AuditIsTheOutcome'
    BY <1>1 DEF BrokerInv, RowIsPendingWhileLive, OutcomeIsDurable, AuditIsTheOutcome,
       Shadowed, SameKey, SessionOf
  <1> QED
    BY <1>2, <1>3, <1>4, <1>5, <1>6 DEF BrokerInv

LEMMA RecoverInv ==
    ASSUME TypeOK, BrokerInv, NEW r \in Calls, RecoverOrphan(r)
    PROVE  BrokerInv'
  <1>1. /\ UNCHANGED <<input, pc, target, told, pending, decision, audit, lease, sweep, dbq, mode,
                       faults>>
        /\ ~Serving /\ r \in Calls \ pending /\ row[r] = "pending"
        /\ row' = [row EXCEPT ![r] = "rejected"]
    BY DEF RecoverOrphan, Update, Serving
  <1>2. Queued = {} /\ Queued' = {} /\ pending = {}
    BY <1>1 DEF BrokerInv, NothingWhileDown, Queued
  <1>3. /\ \A o \in Calls : row[o] \in Terminal => row'[o] = row[o]
        /\ \A o \in Calls : ShadowedIn(row', o) <=> ShadowedIn(row, o)
        /\ RowIsPendingWhileLive' /\ AuditIsTheOutcome'
    BY <1>1, RejectRowInv
  <1>4. /\ \A o \in Calls : (row'[o] = "absent") <=> (row[o] = "absent")
        /\ \A o \in Calls \ {r} : row'[o] = row[o]
        /\ row'[r] = "rejected"
    BY <1>1 DEF TypeOK
  <1>5. CallersWait' /\ QueuedOnce' /\ SettlesWillTell' /\ SettledBeforeRead'
    BY <1>2 DEF CallersWait, QueuedOnce, SettlesWillTell, SettledBeforeRead
  <1>6. OnlyReaderRejects'
    BY <1>1, <1>2, <1>4 DEF BrokerInv, OnlyReaderRejects, ReadersOfTheDead
  <1>7. LiveIsAwaited' /\ DecidedWasOpened' /\ UnopenedHasNoRow' /\ ReadersOfTheDead'
    BY <1>1, <1>2, <1>4 DEF BrokerInv, LiveIsAwaited, DecidedWasOpened, UnopenedHasNoRow,
       ReadersOfTheDead
  <1>8. /\ SweptIsClosed' /\ NothingWhileDown' /\ LeaseRunsOnlyForTheUndecided'
        /\ PausedLeaseHasWaiter'
    BY <1>1 DEF BrokerInv, SweptIsClosed, NothingWhileDown, LeaseRunsOnlyForTheUndecided,
       PausedLeaseHasWaiter, Serving, SessionOf
  <1>9. OutcomeIsDurable'
    <2> SUFFICES ASSUME NEW c \in Calls, pc'[c] = "done", told'[c] \in Terminal
                 PROVE  row'[target'[c]] = told'[c] \/ ShadowedIn(row', target'[c])
      BY <1>1, RowsOfNext
    <2>1. target[c] \in Calls /\ (row[target[c]] = told[c] \/ ShadowedIn(row, target[c]))
      BY <1>1, RowsOfNext DEF BrokerInv, ReadersOfTheDead, OutcomeIsDurable
    <2> QED
      BY <1>1, <1>3, <2>1
  <1> QED
    BY <1>3, <1>5, <1>6, <1>7, <1>8, <1>9 DEF BrokerInv

LEMMA StutterInv == TypeOK /\ BrokerInv /\ UNCHANGED vars => BrokerInv'
  <1> SUFFICES ASSUME TypeOK, BrokerInv, UNCHANGED vars PROVE BrokerInv'
    OBVIOUS
  <1>1. UNCHANGED <<input, pc, target, told, pending, decision, row, audit, lease, sweep, dbq,
                    mode, faults>>
    BY DEF vars
  <1>2. CallersWait' /\ QueuedOnce' /\ SettledBeforeRead' /\ OnlyReaderRejects'
    BY <1>1 DEF BrokerInv, CallersWait, QueuedOnce, SettledBeforeRead, OnlyReaderRejects, Queued
  <1>3. SettlesWillTell'
    BY <1>1 DEF BrokerInv, SettlesWillTell, Queued, Shadowed, SameKey, SessionOf
  <1>4. LiveIsAwaited' /\ DecidedWasOpened' /\ UnopenedHasNoRow' /\ ReadersOfTheDead'
    BY <1>1 DEF BrokerInv, LiveIsAwaited, DecidedWasOpened, UnopenedHasNoRow, ReadersOfTheDead
  <1>5. /\ SweptIsClosed' /\ NothingWhileDown' /\ LeaseRunsOnlyForTheUndecided'
        /\ PausedLeaseHasWaiter'
    BY <1>1 DEF BrokerInv, SweptIsClosed, NothingWhileDown, LeaseRunsOnlyForTheUndecided,
       PausedLeaseHasWaiter, Serving, SessionOf
  <1>6. RowIsPendingWhileLive' /\ OutcomeIsDurable' /\ AuditIsTheOutcome'
    BY <1>1 DEF BrokerInv, RowIsPendingWhileLive, OutcomeIsDurable, AuditIsTheOutcome,
       Shadowed, SameKey, SessionOf
  <1> QED
    BY <1>2, <1>3, <1>4, <1>5, <1>6 DEF BrokerInv
-----------------------------------------------------------------------------
(* The invariant and what it implies *)

LEMMA NextInv == TypeOK /\ BrokerInv /\ [Next]_vars => BrokerInv'
  <1> SUFFICES ASSUME TypeOK, BrokerInv, [Next]_vars PROVE BrokerInv'
    OBVIOUS
  <1>1. ASSUME NEW c \in Calls, Admit(c) \/ Open(c) PROVE BrokerInv'
    BY <1>1, AdmitInv, OpenInv
  <1>2. ASSUME NEW c \in Calls, NEW r \in Calls, Reattach(c, r) PROVE BrokerInv'
    BY <1>2, ReattachInv
  <1>3. ASSUME NEW r \in Calls, Expire(r) PROVE BrokerInv'
    BY <1>3, SettleInv DEF Expire, Settlers, Terminal
  <1>4. ASSUME NEW r \in Calls, Cancel(r) PROVE BrokerInv'
    BY <1>4, SettleInv DEF Cancel, Settlers, Terminal
  <1>5. ASSUME NEW r \in Calls, NEW status \in {"resolved", "rejected"}, Resolve(r, status)
        PROVE  BrokerInv'
    BY <1>5, SettleInv DEF Resolve, Settlers, Terminal
  <1>6. ASSUME NEW b \in Sweepers, SweepNext(b) PROVE BrokerInv'
    <2>1. PICK r \in sweep[b] \cap pending :
            /\ Settle(r, "rejected", FALSE, b)
            /\ sweep' = [sweep EXCEPT ![b] = (@ \cap pending) \ {r}]
      BY <1>6 DEF SweepNext
    <2>2. r \in Calls /\ lease[SessionOf(r)] \in {"closing", "closed"}
      BY DEF BrokerInv, SweptIsClosed, TypeOK
    <2>3. \A d \in Sweepers : sweep'[d] \subseteq sweep[d]
      BY <2>1 DEF TypeOK
    <2>4. b \in Settlers /\ "rejected" \in Terminal /\ FALSE \in BOOLEAN
      BY DEF Settlers, Terminal
    <2> QED
      BY <1>6, <2>1, <2>2, <2>3, <2>4, SettleInv DEF SweepNext
  <1>7. ASSUME NEW s \in Sessions, BeginClose(s) \/ Closed(s) PROVE BrokerInv'
    BY <1>7, CloseInv
  <1>8. ASSUME NEW r \in Calls, RecoverOrphan(r) PROVE BrokerInv'
    BY <1>8, RecoverInv
  <1> QED
    BY <1>1, <1>2, <1>3, <1>4, <1>5, <1>6, <1>7, <1>8, DbExecInv, DbFailInv, ShutdownInv,
       ExitInv, RestartInv, StutterInv DEF Next

\* The broker's state, its table and its queue have their types, and the inductive invariant
\* holds, in every reachable state.
THEOREM Invariant == Spec => [](TypeOK /\ BrokerInv)
  <1>1. Init => TypeOK /\ BrokerInv
    BY InitInv
  <1>2. TypeOK /\ BrokerInv /\ [Next]_vars => (TypeOK /\ BrokerInv)'
    BY NextTypeOK, NextInv
  <1> QED
    BY <1>1, <1>2, PTL DEF Spec

\* Type correctness of the broker (broker.ts): in particular every queued UPDATE has a decision
\* to write and every reader has a row to read.
THEOREM TypeCorrect == Spec => []TypeOK
  BY Invariant, PTL

\* The table is the durable projection of the map (broker.ts): a live request's row is pending,
\* or another request with its key took the row.
THEOREM TableMirrorsMap == Spec => []RowIsPendingWhileLive
  <1>1. BrokerInv => RowIsPendingWhileLive
    BY DEF BrokerInv
  <1> QED
    BY <1>1, Invariant, PTL

\* What an agent was told of a request is what the table says, for ever: over later settles,
\* readers that reject on read, failed database calls, restarts and their recoveries.
THEOREM OutcomesAreDurable == Spec => []OutcomeIsDurable
  <1>1. BrokerInv => OutcomeIsDurable
    BY DEF BrokerInv
  <1> QED
    BY <1>1, Invariant, PTL

\* No loser of a race to settle a request is audited as having decided it (broker.resolve).
THEOREM AuditsAreOutcomes == Spec => []AuditIsTheOutcome
  <1>1. BrokerInv => AuditIsTheOutcome
    BY DEF BrokerInv
  <1> QED
    BY <1>1, Invariant, PTL

\* Unless a database call threw, a session with a paused lease is waited for.
THEOREM PausedLeasesHaveWaiters == Spec => []PausedLeaseHasWaiter
  <1>1. BrokerInv => PausedLeaseHasWaiter
    BY DEF BrokerInv
  <1> QED
    BY <1>1, Invariant, PTL

\* The lease of a session with a live request runs only after another one was decided.
THEOREM LeasesRunAfterDecisions == Spec => []LeaseRunsOnlyAfterADecision
  <1>1. TypeOK /\ BrokerInv => LeaseRunsOnlyAfterADecision
    BY DEF BrokerInv, LeaseRunsOnlyForTheUndecided, LeaseRunsOnlyAfterADecision, TypeOK
  <1> QED
    BY <1>1, Invariant, PTL

----------------------------------------------------------------------------
\* The broker implements its contract, for every number of calls and sessions, all limits, any
\* failed database calls and any restarts, in every behaviour in which insert drops no row.
\* Callers may share idempotency keys, as long as no two of them open at once.
\*
\* A step of the broker that changes the table, or tells a caller, is one step of the contract;
\* every other step is none.  That a settle finds its row pending, and a reader a row that nobody
\* else will write, is what BrokerInv says.

\* No live request lost its row to another one: insert ... on conflict do nothing dropped none.
NoneDropped == \A r \in pending : ~Shadowed(r)

\* No two calls of a session share a key.
KeysDiffer == \A c, r \in Calls : SameKey(r, c) => r = c

\* While none is dropped, what was opened has its row, and keeps it.
Written ==
    \A r \in Calls :
        r \in pending \/ decision[r] # "none" \/ audit[r] # "none" => row[r] # "absent"

\* Who was told something is done.
TellingEnds == \A c \in Calls : told[c] # "none" => pc[c] = "done"

\* A step tells only who ends by it, and nobody who was told goes on.
LEMMA TellingEndsStep ==
    ASSUME TypeOK, BrokerInv, TellingEnds, [Next]_vars PROVE TellingEnds'
  <1> USE DEF TellingEnds
  <1>1. CASE UNCHANGED told /\ \A c \in Calls : pc[c] = "done" => pc'[c] = "done"
    BY <1>1
  <1>2. ASSUME NEW c \in Calls, Admit(c) \/ Open(c) PROVE TellingEnds'
    <2>1. UNCHANGED told /\ pc[c] # "done" /\ \A d \in Calls \ {c} : pc'[d] = pc[d]
      BY <1>2 DEF Admit, Open, Place, TypeOK
    <2> QED
      BY <2>1
  <1>3. ASSUME NEW c \in Calls, NEW r \in Calls, Reattach(c, r) PROVE TellingEnds'
    BY <1>3 DEF Reattach, TypeOK
  <1>4. CASE DbExec
    <2> DEFINE h == Head(dbq)
    <2>1. dbq # <<>> /\ h = dbq[1] /\ 1 \in Queued /\ h.id \in Calls
      BY <1>4, HeadTypeOK DEF DbExec
    <2>2. h.op \in CallerOps => pc[h.id] # "done"
      BY <2>1 DEF BrokerInv, CallersWait, CallerOps
    <2>3. CASE h.op = "find" /\ ExecFind(h.id)
      <3>1. UNCHANGED told /\ pc[h.id] # "done" /\ \A d \in Calls \ {h.id} : pc'[d] = pc[d]
        BY <2>1, <2>2, <2>3 DEF ExecFind, AwaitOrRead, Place, CallerOps, TypeOK
      <3> QED
        BY <3>1
    <2>4. CASE h.op = "insert" /\ ExecInsert(h.id)
      BY <2>1, <2>2, <2>4 DEF ExecInsert, CallerOps, TypeOK
    <2>5. CASE h.op = "peek" /\ ExecPeek(h.id)
      BY <2>1, <2>2, <2>5 DEF ExecPeek, AwaitOrRead, CallerOps, TypeOK
    <2>6. CASE h.op = "get" /\ ExecGet(h.id)
      BY <2>1, <2>2, <2>6 DEF ExecGet, CallerOps, TypeOK
    <2>7. CASE h.op = "expire" /\ ExecExpire(h.id)
      BY <2>1, <2>2, <2>7 DEF ExecExpire, CallerOps, TypeOK
    <2>8. CASE h.op = "settle" /\ ExecSettle(h.id, h.by)
      BY <2>8 DEF ExecSettle
    <2>9. CASE h.op = "audit" /\ ExecAudit(h.id)
      BY <2>9 DEF ExecAudit
    <2> QED
      BY <1>4, <2>3, <2>4, <2>5, <2>6, <2>7, <2>8, <2>9 DEF DbExec
  <1>5. CASE DbFail
    <2> DEFINE h == Head(dbq)
    <2>1. dbq # <<>> /\ h = dbq[1] /\ 1 \in Queued /\ h.id \in Calls
          /\ h.op \in CallerOps \cup {"settle", "audit"}
      BY <1>5, HeadTypeOK DEF DbFail
    <2>2. h.op \in CallerOps => pc[h.id] # "done"
      BY <2>1 DEF BrokerInv, CallersWait, CallerOps
    <2> QED
      BY <1>5, <2>1, <2>2 DEF DbFail, TypeOK
  <1>6. CASE \/ \E r \in Calls : Expire(r) \/ Cancel(r) \/ RecoverOrphan(r)
             \/ \E r \in Calls, status \in {"resolved", "rejected"} : Resolve(r, status)
             \/ \E b \in Sweepers : SweepNext(b)
             \/ \E s \in Sessions : BeginClose(s) \/ Closed(s)
             \/ Shutdown \/ Restart \/ Recovered \/ UNCHANGED vars
    BY <1>1, <1>6 DEF Expire, Cancel, RecoverOrphan, Resolve, SweepNext, UnchangedBySettle,
       BeginClose, Closed, Shutdown, Restart, Recovered, vars
  <1>7. CASE Exit
    BY <1>7 DEF Exit, InFlight
  <1> QED
    BY <1>2, <1>3, <1>4, <1>5, <1>6, <1>7 DEF Next

\* What only the broker knows changes.
Unseen == UNCHANGED <<row, target, told, audit>>

\* A request is decided after it was written, and audited after it was decided; rows stay.
LEMMA WrittenStep ==
    ASSUME TypeOK, BrokerInv, Written, NoneDropped, NoneDropped', [Next]_vars PROVE Written'
  <1> USE DEF Written
  <1>1. \A r \in Calls : row[r] # "absent" => row'[r] # "absent"
    <2>1. CASE DbExec
      <3>1. decision[Head(dbq).id] # "absent"
        BY <2>1, HeadTypeOK DEF DbExec, TypeOK, Terminal
      <3>2. UNCHANGED row \/ row' = [row EXCEPT ![Head(dbq).id] = "pending"]
            \/ \E r \in Calls \cup {None} : Update(r, "rejected")
            \/ Update(Head(dbq).id, decision[Head(dbq).id])
        BY <2>1, HeadTypeOK DEF DbExec, ExecFind, ExecInsert, ExecPeek, ExecGet, ExecExpire,
           ExecSettle, ExecAudit, TypeOK
      <3> QED
        BY <3>1, <3>2 DEF Update, TypeOK
    <2>2. CASE \E r \in Calls : RecoverOrphan(r)
      BY <2>2 DEF RecoverOrphan, Update, TypeOK
    <2>3. CASE UNCHANGED row
      BY <2>3
    <2> QED
      BY <2>1, <2>2, <2>3 DEF Next, vars, Admit, Open, Reattach, Expire, Cancel, Resolve,
         SweepNext, UnchangedBySettle, BeginClose, Closed, DbFail, Shutdown, Exit, Restart,
         Recovered
  <1>2. \A r \in pending' : row'[r] # "absent"
    BY NextTypeOK, NextInv DEF NoneDropped, BrokerInv, RowIsPendingWhileLive
  <1>3. \A r \in Calls : decision'[r] # "none" => decision[r] # "none" \/ r \in pending
    <2>1. CASE \E r \in Calls : \E status, by, resume : Settle(r, status, resume, by)
      BY <2>1 DEF Settle, TypeOK
    <2>2. CASE UNCHANGED decision
      BY <2>2
    <2>3. CASE Exit
      BY <2>3 DEF Exit
    <2>4. ASSUME NEW r \in Calls, Expire(r) \/ Cancel(r)
          PROVE  \E x \in Calls : \E status, by, resume : Settle(x, status, resume, by)
      BY <2>4 DEF Expire, Cancel
    <2>5. ASSUME NEW r \in Calls, NEW status \in {"resolved", "rejected"}, Resolve(r, status)
          PROVE  \E x \in Calls : \E st, by, resume : Settle(x, st, resume, by)
      BY <2>5 DEF Resolve
    <2>6. ASSUME NEW b \in Sweepers, SweepNext(b)
          PROVE  \E x \in Calls : \E status, by, resume : Settle(x, status, resume, by)
      BY <2>6 DEF SweepNext, TypeOK
    <2> QED
      BY <2>1, <2>2, <2>3, <2>4, <2>5, <2>6 DEF Next, vars, Admit, Open, Reattach, BeginClose,
         Closed, DbExec, DbFail, Shutdown, Restart, Recovered, RecoverOrphan
  <1>4. \A r \in Calls : audit'[r] # "none" => audit[r] # "none" \/ decision[r] # "none"
    <2>1. CASE DbExec
      <3>1. UNCHANGED audit
            \/ \E c \in Calls \cup {None} : audit' = [audit EXCEPT ![c] = decision[c]]
        BY <2>1, HeadTypeOK DEF DbExec, ExecFind, ExecInsert, ExecPeek, ExecGet, ExecExpire,
           ExecSettle, ExecAudit
      <3> QED
        BY <3>1 DEF TypeOK
    <2>2. CASE UNCHANGED audit
      BY <2>2
    <2> QED
      BY <2>1, <2>2 DEF Next, vars, Admit, Open, Reattach, Expire, Cancel, Resolve, SweepNext,
         UnchangedBySettle, BeginClose, Closed, DbFail, Shutdown, Exit, Restart, Recovered,
         RecoverOrphan
  <1> QED
    BY <1>1, <1>2, <1>3, <1>4

\* The initial states are the contract's.
LEMMA ContractInit == Init => Contract!Init
  BY DEF Init, Contract!Init

\* The head of the queue is a call of the contract.
LEMMA ExecImplements ==
    ASSUME TypeOK, BrokerInv, TellingEnds, Written, NoneDropped', DbExec
    PROVE  Contract!Next \/ Unseen
  <1> DEFINE h == Head(dbq)
             c == h.id
  <1>1. dbq # <<>> /\ h = dbq[1] /\ 1 \in Queued /\ c \in Calls
    BY HeadTypeOK DEF DbExec
  <1>2. \A r \in Calls : decision[r] # "none" \/ audit[r] # "none" => ~Shadowed(r)
    BY DEF Shadowed, Written
  <1>3. h.op = "insert" => row[c] = "absent"
    BY <1>1 DEF BrokerInv, CallersWait, UnopenedHasNoRow
  <1>4. CASE h.op = "find" /\ ExecFind(c)
    <2>1. told[c] = "none"
      BY <1>1, <1>4 DEF BrokerInv, CallersWait, TellingEnds
    <2>2. CASE \E r \in Stored(c) : AwaitOrRead(c, r)
      <3>1. Contract!Ask(c)
        BY <1>4, <2>1, <2>2 DEF ExecFind, AwaitOrRead, Stored, Contract!Ask
      <3> QED
        BY <1>1, <3>1 DEF Contract!Next
    <2>3. CASE Stored(c) = {} /\ Place(c, Tail(dbq))
      BY <1>4, <2>3 DEF ExecFind, Place, Unseen
    <2> QED
      BY <1>4, <2>2, <2>3 DEF ExecFind
  <1>5. CASE h.op = "insert" /\ ExecInsert(c)
    <2>1. told[c] = "none"
      BY <1>1, <1>5 DEF BrokerInv, CallersWait, TellingEnds
    <2>2. Stored(c) = {}
      <3> SUFFICES ASSUME NEW o \in Calls, row[o] # "absent", SameKey(o, c) PROVE FALSE
        BY DEF Stored
      <3>1. PICK r \in Calls : r = c
        BY <1>1
      <3>2. o # r /\ UNCHANGED <<row, input>> /\ row[r] = "absent" /\ r \in pending'
        BY <1>3, <1>5, <3>1 DEF ExecInsert, Stored, DbExec
      <3>3. SameKey(o, r)'
        BY <3>1, <3>2 DEF SameKey, SessionOf
      <3> QED
        BY <3>2, <3>3 DEF NoneDropped, Shadowed
    <2>3. Contract!Record(c)
      BY <1>1, <1>3, <1>5, <2>1, <2>2 DEF ExecInsert, Contract!Record
    <2> QED
      BY <1>1, <2>3 DEF Contract!Next
  <1>6. CASE h.op = "peek" /\ ExecPeek(c)
    <2>1. pc[c] = "peeking" /\ told[c] = "none" /\ target[c] \in Calls
      BY <1>1, <1>6 DEF BrokerInv, CallersWait, ReadersOfTheDead, TellingEnds
    <2>2. CASE row[target[c]] = "absent"
      <3>1. Contract!Tell(c)
        BY <1>6, <2>1, <2>2, NamesAssumption DEF ExecPeek, AwaitOrRead, Contract!Tell
      <3> QED
        BY <1>1, <3>1 DEF Contract!Next
    <2>3. CASE row[target[c]] # "absent"
      BY <1>1, <1>6, <2>1, <2>3 DEF ExecPeek, AwaitOrRead, Unseen, TypeOK
    <2> QED
      BY <2>2, <2>3
  <1>7. CASE h.op = "get" /\ ExecGet(c)
    <2>1. pc[c] = "reading" /\ told[c] = "none" /\ target[c] \in Calls
      BY <1>1, <1>7 DEF BrokerInv, CallersWait, ReadersOfTheDead, TellingEnds
    <2>2. CASE row[target[c]] \in Terminal
      <3>1. Contract!Tell(c)
        BY <1>7, <2>1, <2>2, NamesAssumption DEF ExecGet, Contract!Tell, Terminal
      <3> QED
        BY <1>1, <3>1 DEF Contract!Next
    <2>3. CASE row[target[c]] \notin Terminal
      BY <1>7, <2>3 DEF ExecGet, Unseen
    <2> QED
      BY <2>2, <2>3
  <1>8. CASE h.op = "expire" /\ ExecExpire(c)
    <2> DEFINE r == target[c]
    <2>1. pc[c] = "expiring" /\ told[c] = "none" /\ r \in Calls
      BY <1>1, <1>8 DEF BrokerInv, CallersWait, ReadersOfTheDead, TellingEnds
    <2>2. row[r] \in {"pending", "rejected"}
      BY <1>1, <2>1 DEF BrokerInv, OnlyReaderRejects
    <2>3. told' = [told EXCEPT ![c] = "rejected"] /\ UNCHANGED <<target, audit>>
      BY <1>8 DEF ExecExpire
    <2>4. CASE row[r] = "pending"
      <3>1. row' = [row EXCEPT ![r] = "rejected"]
        BY <1>8, <2>4 DEF ExecExpire, Update
      <3>2. {c} \in SUBSET {d \in Calls : target[d] = r /\ told[d] = "none"}
        BY <1>1, <2>1
      <3>3. told' = [d \in Calls |-> IF d \in {c} THEN "rejected" ELSE told[d]]
        BY <1>1, <2>3 DEF TypeOK
      <3>4. Contract!Decide(r, "rejected")
        BY <2>3, <2>4, <3>1, <3>2, <3>3 DEF Contract!Decide
      <3> QED
        BY <2>1, <3>4 DEF Contract!Next, Terminal
    <2>5. CASE row[r] = "rejected"
      <3>1. UNCHANGED row
        BY <1>8, <2>5 DEF ExecExpire, Update
      <3>2. Contract!Tell(c)
        BY <2>1, <2>3, <2>5, <3>1, NamesAssumption DEF Contract!Tell, Terminal
      <3> QED
        BY <1>1, <3>2 DEF Contract!Next
    <2> QED
      BY <2>2, <2>4, <2>5
  <1>9. CASE h.op = "settle" /\ ExecSettle(c, h.by)
    <2>1. decision[c] \in Terminal /\ row[c] = "pending"
      BY <1>1, <1>2, <1>9, NamesAssumption DEF BrokerInv, SettlesWillTell, Terminal
    <2>2. row' = [row EXCEPT ![c] = decision[c]] /\ UNCHANGED <<target, audit>>
      BY <1>9, <2>1 DEF ExecSettle, Update
    <2>3. Waiters(c) \in SUBSET {d \in Calls : target[d] = c /\ told[d] = "none"}
      BY DEF Waiters, TellingEnds
    <2>4. told' = [d \in Calls |-> IF d \in Waiters(c) THEN decision[c] ELSE told[d]]
      BY <1>9 DEF ExecSettle
    <2>5. Contract!Decide(c, decision[c])
      BY <2>1, <2>2, <2>3, <2>4 DEF Contract!Decide
    <2> QED
      BY <1>1, <2>1, <2>5 DEF Contract!Next
  <1>10. CASE h.op = "audit" /\ ExecAudit(c)
    <2>1. decision[c] \in Terminal /\ row[c] = decision[c]
      BY <1>1, <1>2, <1>10, NamesAssumption DEF BrokerInv, SettlesWillTell, Terminal
    <2>2. audit' = [audit EXCEPT ![c] = decision[c]] /\ UNCHANGED <<row, target, told>>
      BY <1>10 DEF ExecAudit
    <2>3. CASE audit[c] = "none"
      <3>1. Contract!Audit(c)
        BY <2>1, <2>2, <2>3 DEF Contract!Audit
      <3> QED
        BY <1>1, <3>1 DEF Contract!Next
    <2>4. CASE audit[c] # "none"
      <3>1. audit[c] = decision[c]
        BY <1>1, <1>2, <2>1, <2>4 DEF BrokerInv, AuditIsTheOutcome
      <3> QED
        BY <1>1, <2>2, <3>1 DEF Unseen, TypeOK
    <2> QED
      BY <2>3, <2>4
  <1> QED
    BY <1>4, <1>5, <1>6, <1>7, <1>8, <1>9, <1>10 DEF DbExec

\* Every step is one of the contract, or none.
LEMMA ContractStep ==
    ASSUME TypeOK, BrokerInv, TellingEnds, Written, NoneDropped', [Next]_vars
    PROVE  Contract!Next \/ Unseen
  <1>1. ASSUME NEW c \in Calls, Admit(c) PROVE Unseen
    BY <1>1 DEF Admit, Unseen
  <1>2. ASSUME NEW c \in Calls, Open(c) PROVE Contract!Next \/ Unseen
    <2>1. CASE \E r \in pending : target' = [target EXCEPT ![c] = r]
      <3>1. Contract!Ask(c)
        BY <1>2, <2>1 DEF Open, TellingEnds, TypeOK, Contract!Ask
      <3> QED
        BY <3>1 DEF Contract!Next
    <2>2. CASE UNCHANGED target
      BY <1>2, <2>2 DEF Open, Unseen
    <2> QED
      BY <1>2, <2>1, <2>2 DEF Open, Place
  <1>3. ASSUME NEW c \in Calls, NEW r \in Calls, Reattach(c, r) PROVE Contract!Next
    <2>1. Contract!Ask(c)
      BY <1>3 DEF Reattach, TellingEnds, Contract!Ask
    <2> QED
      BY <2>1 DEF Contract!Next
  <1>4. CASE \/ \E r \in Calls : Expire(r) \/ Cancel(r)
             \/ \E r \in Calls, status \in {"resolved", "rejected"} : Resolve(r, status)
             \/ \E b \in Sweepers : SweepNext(b)
             \/ \E s \in Sessions : BeginClose(s) \/ Closed(s)
             \/ DbFail \/ Shutdown \/ Exit \/ Restart \/ Recovered \/ UNCHANGED vars
    BY <1>4 DEF Expire, Cancel, Resolve, SweepNext, UnchangedBySettle, BeginClose, Closed, DbFail,
       Shutdown, Exit, Restart, Recovered, vars, Unseen
  <1>5. CASE DbExec
    BY <1>5, ExecImplements
  <1>6. ASSUME NEW r \in Calls, RecoverOrphan(r) PROVE Contract!Next
    <2>1. row[r] = "pending" /\ row' = [row EXCEPT ![r] = "rejected"]
          /\ UNCHANGED <<target, told, audit>>
      BY <1>6 DEF RecoverOrphan, Update
    <2>2. told' = [d \in Calls |-> IF d \in {} THEN "rejected" ELSE told[d]]
      BY <2>1 DEF TypeOK
    <2>3. {} \in SUBSET {d \in Calls : target[d] = r /\ told[d] = "none"}
      OBVIOUS
    <2>4. Contract!Decide(r, "rejected")
      BY <2>1, <2>2, <2>3 DEF Contract!Decide
    <2> QED
      BY <2>4 DEF Contract!Next, Terminal
  <1> QED
    BY <1>1, <1>2, <1>3, <1>4, <1>5, <1>6 DEF Next

\* While insert drops no row, the broker is its contract: restarts, failed database calls, races
\* of settlers, callers with one key and readers that come back all look like one decision that
\* is made once, and that every caller hears once.
THEOREM ImplementsContract == Spec /\ []NoneDropped => ContractSpec
  <1>1. Init => Contract!Init /\ TellingEnds /\ Written
    BY ContractInit DEF Init, TellingEnds, Written
  <1>2. TypeOK /\ BrokerInv /\ TellingEnds /\ [Next]_vars => TellingEnds'
    BY TellingEndsStep
  <1>3. TypeOK /\ BrokerInv /\ Written /\ NoneDropped /\ NoneDropped' /\ [Next]_vars => Written'
    BY WrittenStep
  <1>4. TypeOK /\ BrokerInv /\ TellingEnds /\ Written /\ NoneDropped' /\ [Next]_vars
          => [Contract!Next]_<<row, target, told, audit>>
    BY ContractStep DEF Unseen
  <1>5. Spec => [](TypeOK /\ BrokerInv)
    BY Invariant
  <1> QED
    BY <1>1, <1>2, <1>3, <1>4, <1>5, PTL DEF Spec, ContractSpec, Contract!Spec

\* When no two calls share a key nothing is dropped: the case TLC checks on an instance.
COROLLARY ImplementsContractWithoutKeys == Spec /\ KeysDiffer => ContractSpec
  <1>1. TypeOK /\ KeysDiffer => NoneDropped
    BY DEF KeysDiffer, NoneDropped, Shadowed, TypeOK
  <1>2. KeysDiffer /\ [Next]_vars => KeysDiffer'
    <2>1. [Next]_vars => UNCHANGED input
      BY DEF Next, vars, Admit, Open, Reattach, Expire, Cancel, Resolve, SweepNext,
         UnchangedBySettle, BeginClose, Closed, DbExec, DbFail, Shutdown, Exit, Restart,
         Recovered, RecoverOrphan
    <2> QED
      BY <2>1 DEF KeysDiffer, SameKey, SessionOf
  <1> QED
    BY <1>1, <1>2, TypeCorrect, ImplementsContract, PTL DEF Spec
=============================================================================
