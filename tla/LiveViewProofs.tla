---------------------------- MODULE LiveViewProofs ----------------------------
(***************************************************************************)
(* Theorems about LiveView, for any connections, tabs and sizes and any    *)
(* number of commands, tab switches and faults: types, and who watches.    *)
(*                                                                         *)
(* The last one relates three things that change at different times: the   *)
(* subscriptions, which commands and closing connections change at once;   *)
(* the viewers, which the tasks of the queue change later; and the adds    *)
(* and removes in between.  Linked says how they stay together.            *)
(***************************************************************************)
EXTENDS LiveView, FiniteSetTheorems, SequenceTheorems, TLAPS

Tasks ==
    [op : {"input", "closed", "follow", "stop", "stale"}]
      \cup [op : {"add"}, conn : Conns, entry : Entries]
      \cup [op : {"size"}, conn : Conns, size : Sizes]
      \cup [op : {"remove"}, conn : Conns, awaited : BOOLEAN]

Places == {"idle", "torn", "opening", "ensured", "stopping", "starting", "moving", "failing"}
Subscriptions == [Conns -> [st : {"none", "starting", "on"}, ordinal : Nat]]

\* Viewers, or those a task carries.
IsAudience(w) == DOMAIN w \subseteq Conns /\ w \in [DOMAIN w -> Entries]

IsBridge(b) == IsAudience(b.viewers) /\ b \in Bridges({b.viewers})

\* The connections, their commands and subscriptions.
Connected ==
    /\ sess \in {"live", "draining", "closed"} /\ active \in Tabs \cup {None}
    /\ open \in [Conns -> BOOLEAN] /\ busy \in [Conns -> BOOLEAN]
    /\ sub \in Subscriptions /\ shown \in [Conns -> Tabs \cup {None}]
    /\ chain \in [Conns -> Seq(Commands)]
    /\ \A c \in Conns : busy[c] => chain[c] # <<>>

\* Which tasks wait where, and what bridge there is for run r of the task at the front of q.
Bridging(q, r, b) ==
    /\ q \in Seq(Tasks)
    /\ r \in [pc : Places, tab : Tabs \cup {None}, carried : {r.carried}] /\ IsAudience(r.carried)
    /\ IF r.pc = "idle" THEN r = Idle ELSE q # <<>>
    /\ r.pc = "ensured" => Head(q).op \in {"add", "input"}
    /\ r.pc \in {"stopping", "starting"} => Head(q).op \in {"add", "remove", "size"}
    /\ r.pc \in {"torn", "opening", "moving"} => Head(q).op \in {"add", "input", "follow"}
    /\ r.pc = "opening" /\ Head(q).op = "follow" => r.carried # <<>>
    /\ b = None => r.pc \in {"idle", "torn", "opening", "failing"}
    /\ b # None =>
         /\ IsBridge(b) /\ r.carried = <<>>
         /\ r.pc \in {"idle", "ensured", "stopping", "starting", "moving"}
         /\ IF r.pc \in {"stopping", "starting", "moving"} THEN DOMAIN b.viewers # {}
            ELSE b.cast = b.casting
         /\ r.pc \in {"starting", "moving"} => ~b.cast

\* A command waits for task t of the queue: each connection's for one task, while it is busy.
Awaited(t) == t.op \in {"add", "size"} \/ (t.op = "remove" /\ t.awaited)
Waiting(q, b) ==
    \A i \in DOMAIN q : Awaited(q[i]) =>
        /\ b[q[i].conn]
        /\ \A j \in DOMAIN q : Awaited(q[j]) /\ q[j].conn = q[i].conn => i = j

Adds(q, i, c) == q[i].op = "add" /\ q[i].conn = c
Removes(q, i, c) == q[i].op = "remove" /\ q[i].conn = c
IsCurrent(s, c, entry) == s[c].st # "none" /\ s[c].ordinal = entry.ordinal

\* An add is for the last subscription of its connection, which is starting, or was given up by
\* a remove behind it.
Pending(q, s) ==
    \A c \in Conns : \A i \in DOMAIN q : Adds(q, i, c) =>
        /\ q[i].entry.ordinal = s[c].ordinal /\ s[c].st # "on"
        /\ s[c].st = "starting" \/ \E j \in DOMAIN q : i < j /\ Removes(q, j, c)

\* A remove is for a connection without a subscription, or with one whose add is behind it.
Removals(q, s) ==
    \A c \in Conns : \A i \in DOMAIN q : Removes(q, i, c) =>
        \/ s[c].st = "none"
        \/ s[c].st = "starting" /\ \E k \in DOMAIN q : i < k /\ Adds(q, k, c)

\* A task adjusts the size.
Adjusts(pc) == pc \in {"stopping", "starting"}

\* A viewer's entry is for the last subscription of its connection or an earlier one; for one
\* whose add is still in the queue only while that add adjusts the size.  A running remove has
\* dropped its viewer.
Watchers(q, s, w, pc) ==
    /\ \A c \in DOMAIN w :
         /\ w[c].ordinal <= s[c].ordinal
         /\ \A i \in DOMAIN q :
              Adds(q, i, c) /\ w[c].ordinal = s[c].ordinal => i = 1 /\ Adjusts(pc)
    /\ Adjusts(pc) /\ q[1].op = "add" => q[1].conn \in DOMAIN w /\ w[q[1].conn] = q[1].entry
    /\ pc # "idle" /\ q[1].op = "remove" => q[1].conn \notin DOMAIN w

\* Audience, of any queue, subscriptions and viewers.
Attended(q, s, w) ==
    \A c \in Conns :
        /\ s[c].st = "on" => c \in DOMAIN w /\ IsCurrent(s, c, w[c])
        /\ c \in DOMAIN w => IsCurrent(s, c, w[c]) \/ \E i \in DOMAIN q : Removes(q, i, c)

Linked(q, s, w, pc) ==
    /\ Pending(q, s) /\ Removals(q, s)
    /\ Watchers(q, s, w, pc) /\ Attended(q, s, w)

\* A follow or a stop that is not stale has the bridge it was queued for, until it runs.
Owned(q, pc, b) ==
    b = None => \A i \in DOMAIN q : q[i].op \in {"follow", "stop"} => i = 1 /\ pc # "idle"

LiveInv ==
    /\ Connected /\ Bridging(queue, run, bridge) /\ Waiting(queue, busy)
    /\ Owned(queue, run.pc, bridge)
    /\ Linked(queue, sub, Watching, run.pc)

----------------------------------------------------------------------------
\* Queues.

\* A queue is a function; the running task is at its front.
LEMMA QueueIs ==
    ASSUME NEW q \in Seq(Tasks)
    PROVE  /\ Len(q) \in Nat /\ q \in [1..Len(q) -> Tasks]
           /\ q = <<>> <=> Len(q) = 0
           /\ q # <<>> => Head(q) = q[1]
<1>1. Len(q) \in Nat /\ q \in [1..Len(q) -> Tasks]
  BY LenProperties
<1>2. q = <<>> <=> Len(q) = 0
  BY EmptySeq, <1>1
<1>3. q # <<>> => Head(q) = q[1]
  BY <1>1
<1>4. QED
  BY <1>1, <1>2, <1>3

\* A task put behind the others.
LEMMA Appended ==
    ASSUME NEW q \in Seq(Tasks), NEW t \in Tasks
    PROVE  /\ Append(q, t) \in Seq(Tasks) /\ Append(q, t) # <<>>
           /\ Append(q, t) \in [1..Len(q) + 1 -> Tasks]
           /\ Len(Append(q, t)) = Len(q) + 1
           /\ \A i \in 1..Len(q) : Append(q, t)[i] = q[i]
           /\ Append(q, t)[Len(q) + 1] = t
           /\ q # <<>> => Head(Append(q, t)) = Head(q)
<1> DEFINE a == Append(q, t)
<1>1. /\ a \in Seq(Tasks) /\ Len(a) = Len(q) + 1 /\ a[Len(q) + 1] = t
      /\ \A i \in 1..Len(q) : a[i] = q[i]
  BY AppendProperties
<1> HIDE DEF a
<1>2. Len(q) \in Nat
  BY QueueIs
<1>3. a # <<>> /\ a \in [1..Len(q) + 1 -> Tasks] /\ Head(a) = a[1]
  BY <1>1, <1>2, QueueIs
<1>4. q # <<>> => Head(a) = Head(q)
  <2> SUFFICES ASSUME q # <<>> PROVE Head(a) = Head(q)
    OBVIOUS
  <2>1. Head(q) = q[1] /\ 1 \in 1..Len(q)
    BY <1>2, QueueIs
  <2>2. QED
    BY <1>1, <1>3, <2>1
<1>5. QED
  BY <1>1, <1>3, <1>4 DEF a

\* The queue once the running task ended.
LEMMA Popped ==
    ASSUME NEW q \in Seq(Tasks), q # <<>>
    PROVE  /\ Tail(q) \in Seq(Tasks) /\ Len(q) - 1 \in Nat /\ Len(Tail(q)) = Len(q) - 1
           /\ Tail(q) \in [1..Len(q) - 1 -> Tasks]
           /\ \A i \in 1..Len(q) - 1 : Tail(q)[i] = q[i + 1]
  BY HeadTailProperties, QueueIs

\* The tasks of a bridge that goes change places with stale ones, and no task moves.
LEMMA OrphanedIs ==
    ASSUME queue \in Seq(Tasks), queue # <<>>
    PROVE  /\ Orphaned \in Seq(Tasks) /\ Len(Orphaned) = Len(queue) /\ Orphaned # <<>>
           /\ Orphaned \in [1..Len(queue) -> Tasks]
           /\ Head(Orphaned) = Head(queue) /\ Orphaned[1] = queue[1]
           /\ \A i \in 1..Len(queue) : Orphaned[i].op \in {"follow", "stop"} => i = 1
           /\ \A i \in 1..Len(queue) :
                \/ Orphaned[i] = queue[i]
                \/ queue[i].op \in {"follow", "stop"} /\ Orphaned[i] = [op |-> "stale"]
<1> DEFINE n == Len(queue)
           e(i) == IF i # 1 /\ queue[i].op \in {"follow", "stop"} THEN [op |-> "stale"]
                   ELSE queue[i]
<1>1. n \in Nat /\ n >= 1 /\ queue \in [1..n -> Tasks] /\ Head(queue) = queue[1]
  BY QueueIs
<1>2. [op |-> "stale"] \in Tasks
  BY DEF Tasks
<1>3. Orphaned = [i \in 1..n |-> e(i)]
  BY <1>1 DEF Orphaned
<1>4. Orphaned \in [1..n -> Tasks]
  BY <1>1, <1>2, <1>3
<1>5. Orphaned \in Seq(Tasks) /\ Len(Orphaned) = n
  BY <1>1, <1>4
<1>6. Orphaned # <<>> /\ Head(Orphaned) = Orphaned[1]
  BY <1>1, <1>5, QueueIs
<1>7. \A i \in 1..n : Orphaned[i] = e(i)
  BY <1>3
<1>8. Orphaned[1] = queue[1]
  BY <1>1, <1>7
<1>9. \A i \in 1..n : Orphaned[i].op \in {"follow", "stop"} => i = 1
  BY <1>7
<1>10. QED
  BY <1>1, <1>4, <1>5, <1>6, <1>7, <1>8, <1>9

----------------------------------------------------------------------------
\* How queue, subscriptions and viewers stay linked.

\* Tasks that are put behind, or are replaced, and neither add nor remove a viewer.
LEMMA LinkedBehind ==
    ASSUME NEW n \in Nat, NEW m \in Nat, n <= m,
           NEW q \in [1..n -> Tasks], NEW q2 \in [1..m -> Tasks],
           NEW s \in Subscriptions, NEW w, IsAudience(w),
           NEW pc, pc # "idle" => n >= 1,
           Linked(q, s, w, pc),
           \A i \in 1..n :
             \/ q2[i] = q[i]
             \/ q[i].op \notin {"add", "remove"} /\ q2[i].op \notin {"add", "remove"},
           \A i \in 1..m : i > n => q2[i].op \notin {"add", "remove"}
    PROVE  Linked(q2, s, w, pc)
<1>1. DOMAIN q = 1..n /\ DOMAIN q2 = 1..m /\ \A i \in 1..n : i \in 1..m
  OBVIOUS
<1>2. \A c : \A i \in 1..m :
        (Adds(q2, i, c) \/ Removes(q2, i, c)) => i \in 1..n /\ q2[i] = q[i]
  <2> SUFFICES ASSUME NEW i \in 1..m, NEW c, Adds(q2, i, c) \/ Removes(q2, i, c)
               PROVE  i \in 1..n /\ q2[i] = q[i]
    OBVIOUS
  <2>1. q2[i].op \in {"add", "remove"}
    BY DEF Adds, Removes
  <2>2. i \in 1..n
    BY <2>1
  <2>3. QED
    BY <2>1, <2>2
<1>3. \A c : \A i \in 1..n :
        (Adds(q, i, c) \/ Removes(q, i, c)) => q2[i] = q[i]
  BY DEF Adds, Removes
<1>4. /\ \A c : \A i \in 1..n : Adds(q, i, c) => Adds(q2, i, c)
      /\ \A c : \A i \in 1..n : Removes(q, i, c) => Removes(q2, i, c)
      /\ \A c : \A i \in 1..m : Adds(q2, i, c) => i \in 1..n /\ Adds(q, i, c) /\ q2[i] = q[i]
      /\ \A c : \A i \in 1..m : Removes(q2, i, c) => i \in 1..n /\ Removes(q, i, c)
  BY <1>2, <1>3 DEF Adds, Removes
<1>5. Pending(q2, s)
  BY <1>1, <1>4 DEF Linked, Pending
<1>6. Removals(q2, s)
  BY <1>1, <1>4 DEF Linked, Removals
<1>7. Watchers(q2, s, w, pc)
  <2>1. \A c \in DOMAIN w :
          /\ w[c].ordinal <= s[c].ordinal
          /\ \A i \in 1..m : Adds(q2, i, c) /\ w[c].ordinal = s[c].ordinal => i = 1 /\ Adjusts(pc)
    BY <1>1, <1>4 DEF Linked, Watchers
  <2>2. Adjusts(pc) \/ pc # "idle" => 1 \in 1..n
    BY DEF Adjusts
  <2>3. Adjusts(pc) /\ q2[1].op = "add" => q2[1].conn \in DOMAIN w /\ w[q2[1].conn] = q2[1].entry
    BY <2>2 DEF Linked, Watchers
  <2>4. pc # "idle" /\ q2[1].op = "remove" => q2[1].conn \notin DOMAIN w
    BY <2>2 DEF Linked, Watchers
  <2>5. QED
    BY <1>1, <2>1, <2>3, <2>4 DEF Watchers
<1>8. Attended(q2, s, w)
  BY <1>1, <1>4 DEF Linked, Attended
<1>9. QED
  BY <1>5, <1>6, <1>7, <1>8 DEF Linked

\* A connection subscribes: its add is put behind, and it has no other one in the queue.
LEMMA LinkedSubscribed ==
    ASSUME NEW n \in Nat, NEW q \in [1..n -> Tasks], NEW q2 \in [1..n + 1 -> Tasks],
           NEW s \in Subscriptions, NEW s2 \in Subscriptions, NEW w, IsAudience(w),
           NEW pc, pc # "idle" => n >= 1,
           Linked(q, s, w, pc),
           NEW c \in Conns, s[c].st = "none", \A i \in 1..n : ~Adds(q, i, c),
           s2[c].st = "starting", s2[c].ordinal = s[c].ordinal + 1,
           \A x \in Conns : x # c => s2[x] = s[x],
           \A i \in 1..n : q2[i] = q[i],
           Adds(q2, n + 1, c), q2[n + 1].entry.ordinal = s2[c].ordinal
    PROVE  Linked(q2, s2, w, pc)
<1>1. DOMAIN q = 1..n /\ DOMAIN q2 = 1..n + 1 /\ \A i \in 1..n : i \in 1..n + 1 /\ i < n + 1
  OBVIOUS
<1>2. \A x : \A i \in 1..n : Adds(q, i, x) <=> Adds(q2, i, x)
  BY DEF Adds
<1>3. \A x : \A i \in 1..n : Removes(q, i, x) <=> Removes(q2, i, x)
  BY DEF Removes
<1>4. \A i \in 1..n + 1 : i \in 1..n \/ i = n + 1
  OBVIOUS
<1>5. \A x : Adds(q2, n + 1, x) => x = c
  BY DEF Adds
<1>6. \A x : ~Removes(q2, n + 1, x)
  BY DEF Adds, Removes
<1>7. /\ s2[c].st = "starting" /\ s2[c].ordinal = s[c].ordinal + 1 /\ s[c].ordinal \in Nat
      /\ \A x \in Conns : x # c => s2[x] = s[x]
  BY DEF Subscriptions
<1>8. Pending(q2, s2)
  <2> SUFFICES ASSUME NEW x \in Conns, NEW i \in 1..n + 1, Adds(q2, i, x)
               PROVE  /\ q2[i].entry.ordinal = s2[x].ordinal /\ s2[x].st # "on"
                      /\ \/ s2[x].st = "starting"
                         \/ \E j \in 1..n + 1 : i < j /\ Removes(q2, j, x)
    BY <1>1 DEF Pending
  <2>1. CASE i = n + 1
    BY <2>1, <1>5, <1>7
  <2>2. CASE i \in 1..n
    <3>1. Adds(q, i, x) /\ x # c /\ q2[i] = q[i]
      BY <2>2, <1>2
    <3>2. /\ q[i].entry.ordinal = s[x].ordinal /\ s[x].st # "on"
          /\ s[x].st = "starting" \/ \E j \in 1..n : i < j /\ Removes(q, j, x)
      BY <3>1, <2>2, <1>1 DEF Linked, Pending
    <3>3. QED
      BY <3>1, <3>2, <1>1, <1>3, <1>7
  <2>3. QED
    BY <2>1, <2>2, <1>4
<1>9. Removals(q2, s2)
  <2> SUFFICES ASSUME NEW x \in Conns, NEW i \in 1..n + 1, Removes(q2, i, x)
               PROVE  \/ s2[x].st = "none"
                      \/ /\ s2[x].st = "starting"
                         /\ \E k \in 1..n + 1 : i < k /\ Adds(q2, k, x)
    BY <1>1 DEF Removals
  <2>1. i \in 1..n /\ Removes(q, i, x) /\ i < n + 1 /\ n + 1 \in 1..n + 1
    BY <1>1, <1>3, <1>4, <1>6
  <2>2. CASE x = c
    BY <2>1, <2>2, <1>7
  <2>3. CASE x # c
    <3>1. \/ s[x].st = "none"
          \/ s[x].st = "starting" /\ \E k \in 1..n : i < k /\ Adds(q, k, x)
      BY <2>1, <1>1 DEF Linked, Removals
    <3>2. QED
      BY <2>3, <3>1, <1>1, <1>2, <1>7
  <2>4. QED
    BY <2>2, <2>3
<1>10. Watchers(q2, s2, w, pc)
  <2>1. ASSUME NEW x \in DOMAIN w
        PROVE  /\ w[x].ordinal <= s2[x].ordinal
               /\ \A i \in 1..n + 1 :
                    Adds(q2, i, x) /\ w[x].ordinal = s2[x].ordinal => i = 1 /\ Adjusts(pc)
    <3>1. /\ x \in Conns /\ w[x].ordinal \in Nat /\ s[x].ordinal \in Nat
          /\ w[x].ordinal <= s[x].ordinal
      BY DEF IsAudience, Entries, Subscriptions, Linked, Watchers
    <3>2. CASE x = c
      BY <3>1, <3>2, <1>7, <1>2, <1>4
    <3>3. CASE x # c
      <4>1. s2[x] = s[x]
        BY <3>1, <3>3, <1>7
      <4>2. \A i \in 1..n + 1 : Adds(q2, i, x) => i \in 1..n /\ Adds(q, i, x)
        BY <3>3, <1>2, <1>4, <1>5
      <4>3. QED
        BY <3>1, <4>1, <4>2, <1>1 DEF Linked, Watchers
    <3>4. QED
      BY <3>2, <3>3
  <2>2. Adjusts(pc) \/ pc # "idle" => 1 \in 1..n /\ q2[1] = q[1]
    BY DEF Adjusts
  <2>3. Adjusts(pc) /\ q2[1].op = "add" => q2[1].conn \in DOMAIN w /\ w[q2[1].conn] = q2[1].entry
    BY <2>2 DEF Linked, Watchers
  <2>4. pc # "idle" /\ q2[1].op = "remove" => q2[1].conn \notin DOMAIN w
    BY <2>2 DEF Linked, Watchers
  <2>5. QED
    BY <1>1, <2>1, <2>3, <2>4 DEF Watchers
<1>11. Attended(q2, s2, w)
  <2> SUFFICES ASSUME NEW x \in Conns
               PROVE  /\ s2[x].st = "on" => x \in DOMAIN w /\ IsCurrent(s2, x, w[x])
                      /\ x \in DOMAIN w => \/ IsCurrent(s2, x, w[x])
                                           \/ \E i \in 1..n + 1 : Removes(q2, i, x)
    BY <1>1 DEF Attended
  <2>1. /\ s[x].st = "on" => x \in DOMAIN w /\ IsCurrent(s, x, w[x])
        /\ x \in DOMAIN w => IsCurrent(s, x, w[x]) \/ \E i \in 1..n : Removes(q, i, x)
    BY <1>1 DEF Linked, Attended
  <2>2. CASE x = c
    BY <2>1, <2>2, <1>1, <1>3, <1>7 DEF IsCurrent
  <2>3. CASE x # c
    BY <2>1, <2>3, <1>1, <1>3, <1>7 DEF IsCurrent
  <2>4. QED
    BY <2>2, <2>3
<1>12. QED
  BY <1>8, <1>9, <1>10, <1>11 DEF Linked

\* Connection c gives its subscription up, and its remove is put behind the n others.
LeftBy(n, q, q2, s, s2, c) ==
    /\ s2[c].st = "none" /\ s2[c].ordinal = s[c].ordinal
    /\ \A x \in Conns : x # c => s2[x] = s[x]
    /\ \A i \in 1..n : q2[i] = q[i]
    /\ Removes(q2, n + 1, c)

\* A connection gives its subscription up: a remove is put behind.
LEMMA LinkedLeft ==
    ASSUME NEW n \in Nat, NEW q \in [1..n -> Tasks], NEW q2 \in [1..n + 1 -> Tasks],
           NEW s \in Subscriptions, NEW s2 \in Subscriptions, NEW w, IsAudience(w),
           NEW pc, pc # "idle" => n >= 1,
           Linked(q, s, w, pc),
           NEW c \in Conns, LeftBy(n, q, q2, s, s2, c)
    PROVE  Linked(q2, s2, w, pc)
<1> /\ s2[c].st = "none" /\ s2[c].ordinal = s[c].ordinal
    /\ \A x \in Conns : x # c => s2[x] = s[x]
    /\ \A i \in 1..n : q2[i] = q[i]
    /\ Removes(q2, n + 1, c)
  BY DEF LeftBy
<1>1. DOMAIN q = 1..n /\ DOMAIN q2 = 1..n + 1 /\ \A i \in 1..n : i \in 1..n + 1 /\ i < n + 1
  OBVIOUS
<1>2. \A x : \A i \in 1..n : Adds(q, i, x) <=> Adds(q2, i, x)
  BY DEF Adds
<1>3. \A x : \A i \in 1..n : Removes(q, i, x) <=> Removes(q2, i, x)
  BY DEF Removes
<1>4. \A i \in 1..n + 1 : i \in 1..n \/ i = n + 1
  OBVIOUS
<1>5. \A x : Removes(q2, n + 1, x) => x = c
  BY DEF Removes
<1>6. \A x : ~Adds(q2, n + 1, x)
  BY DEF Adds, Removes
<1>7. /\ s2[c].st = "none" /\ s2[c].ordinal = s[c].ordinal /\ n + 1 \in 1..n + 1
      /\ \A x \in Conns : x # c => s2[x] = s[x]
  BY DEF Subscriptions
<1>8. Pending(q2, s2)
  <2> SUFFICES ASSUME NEW x \in Conns, NEW i \in 1..n + 1, Adds(q2, i, x)
               PROVE  /\ q2[i].entry.ordinal = s2[x].ordinal /\ s2[x].st # "on"
                      /\ \/ s2[x].st = "starting"
                         \/ \E j \in 1..n + 1 : i < j /\ Removes(q2, j, x)
    BY <1>1 DEF Pending
  <2>1. i \in 1..n /\ Adds(q, i, x) /\ q2[i] = q[i]
    BY <1>2, <1>4, <1>6
  <2>2. /\ q[i].entry.ordinal = s[x].ordinal /\ s[x].st # "on"
        /\ s[x].st = "starting" \/ \E j \in 1..n : i < j /\ Removes(q, j, x)
    BY <2>1, <1>1 DEF Linked, Pending
  <2>3. CASE x = c
    BY <2>1, <2>2, <2>3, <1>1, <1>7
  <2>4. CASE x # c
    BY <2>1, <2>2, <2>4, <1>1, <1>3, <1>7
  <2>5. QED
    BY <2>3, <2>4
<1>9. Removals(q2, s2)
  <2> SUFFICES ASSUME NEW x \in Conns, NEW i \in 1..n + 1, Removes(q2, i, x), x # c
               PROVE  \/ s2[x].st = "none"
                      \/ /\ s2[x].st = "starting"
                         /\ \E k \in 1..n + 1 : i < k /\ Adds(q2, k, x)
    BY <1>1, <1>7 DEF Removals
  <2>1. i \in 1..n /\ Removes(q, i, x)
    BY <1>3, <1>4, <1>5
  <2>2. \/ s[x].st = "none"
        \/ s[x].st = "starting" /\ \E k \in 1..n : i < k /\ Adds(q, k, x)
    BY <2>1, <1>1 DEF Linked, Removals
  <2>3. QED
    BY <2>2, <1>1, <1>2, <1>7
<1>10. Watchers(q2, s2, w, pc)
  <2>1. \A x \in DOMAIN w : x \in Conns /\ s2[x].ordinal = s[x].ordinal
    BY <1>7 DEF IsAudience
  <2>2. \A x : \A i \in 1..n + 1 : Adds(q2, i, x) => i \in 1..n /\ Adds(q, i, x)
    BY <1>2, <1>4, <1>6
  <2>3. \A x \in DOMAIN w :
          /\ w[x].ordinal <= s2[x].ordinal
          /\ \A i \in 1..n + 1 :
               Adds(q2, i, x) /\ w[x].ordinal = s2[x].ordinal => i = 1 /\ Adjusts(pc)
    BY <2>1, <2>2, <1>1 DEF Linked, Watchers
  <2>4. Adjusts(pc) \/ pc # "idle" => 1 \in 1..n /\ q2[1] = q[1]
    BY DEF Adjusts
  <2>5. Adjusts(pc) /\ q2[1].op = "add" => q2[1].conn \in DOMAIN w /\ w[q2[1].conn] = q2[1].entry
    BY <2>4 DEF Linked, Watchers
  <2>6. pc # "idle" /\ q2[1].op = "remove" => q2[1].conn \notin DOMAIN w
    BY <2>4 DEF Linked, Watchers
  <2>7. QED
    BY <1>1, <2>3, <2>5, <2>6 DEF Watchers
<1>11. Attended(q2, s2, w)
  <2> SUFFICES ASSUME NEW x \in Conns
               PROVE  /\ s2[x].st = "on" => x \in DOMAIN w /\ IsCurrent(s2, x, w[x])
                      /\ x \in DOMAIN w => \/ IsCurrent(s2, x, w[x])
                                           \/ \E i \in 1..n + 1 : Removes(q2, i, x)
    BY <1>1 DEF Attended
  <2>1. /\ s[x].st = "on" => x \in DOMAIN w /\ IsCurrent(s, x, w[x])
        /\ x \in DOMAIN w => IsCurrent(s, x, w[x]) \/ \E i \in 1..n : Removes(q, i, x)
    BY <1>1 DEF Linked, Attended
  <2>2. CASE x = c
    BY <2>2, <1>7
  <2>3. CASE x # c
    BY <2>1, <2>3, <1>1, <1>3, <1>7 DEF IsCurrent
  <2>4. QED
    BY <2>2, <2>3
<1>12. QED
  BY <1>8, <1>9, <1>10, <1>11 DEF Linked

\* The running task goes on, and no viewer comes or goes.
LEMMA LinkedOn ==
    ASSUME NEW n \in Nat, NEW q \in [1..n -> Tasks], NEW s \in Subscriptions,
           NEW w, NEW w2, IsAudience(w), DOMAIN w2 = DOMAIN w,
           \A c \in DOMAIN w : w2[c].ordinal = w[c].ordinal,
           NEW pc, NEW pc2, q[1].op = "add" => (Adjusts(pc2) <=> Adjusts(pc)) /\ w2 = w,
           q[1].op = "remove" => (pc = "idle" => pc2 = "idle"),
           Linked(q, s, w, pc)
    PROVE  Linked(q, s, w2, pc2)
<1>1. DOMAIN q = 1..n
  OBVIOUS
<1>2. \A c \in DOMAIN w, i \in 1..n :
        Adds(q, i, c) /\ w[c].ordinal = s[c].ordinal => i = 1 /\ Adjusts(pc2)
  BY <1>1 DEF Linked, Watchers, Adds
<1>3. \A c \in DOMAIN w2 :
         /\ w2[c].ordinal <= s[c].ordinal
         /\ \A i \in 1..n :
              Adds(q, i, c) /\ w2[c].ordinal = s[c].ordinal => i = 1 /\ Adjusts(pc2)
  BY <1>2 DEF Linked, Watchers
<1>4. Watchers(q, s, w2, pc2)
  BY <1>1, <1>3 DEF Linked, Watchers
<1>5. Attended(q, s, w2)
  BY DEF Linked, Attended, IsCurrent
<1>6. QED
  BY <1>4, <1>5 DEF Linked

\* A remove drops its viewer.
LEMMA LinkedDropped ==
    ASSUME NEW n \in Nat, n >= 1, NEW q \in [1..n -> Tasks], NEW s \in Subscriptions,
           NEW w, IsAudience(w), NEW pc,
           Linked(q, s, w, pc), q[1].op = "remove",
           NEW pc2
    PROVE  Linked(q, s, Drop(w, q[1].conn), pc2)
<1> DEFINE d == q[1].conn
           w2 == Drop(w, d)
<1>1. DOMAIN q = 1..n /\ 1 \in 1..n /\ Removes(q, 1, d) /\ d \in Conns
  BY DEF Removes, Tasks
<1>2. DOMAIN w2 = DOMAIN w \ {d} /\ \A c \in DOMAIN w2 : w2[c] = w[c]
  BY DEF Drop, Restrict
<1>3. s[d].st # "on"
  BY <1>1 DEF Linked, Removals
<1> HIDE DEF w2
<1>4. \A c \in DOMAIN w2 :
         /\ w2[c].ordinal <= s[c].ordinal
         /\ \A i \in 1..n :
              Adds(q, i, c) /\ w2[c].ordinal = s[c].ordinal => i = 1 /\ Adjusts(pc2)
  BY <1>1, <1>2 DEF Linked, Watchers, Adds
<1>5. Watchers(q, s, w2, pc2)
  BY <1>1, <1>2, <1>4 DEF Watchers
<1>6. Attended(q, s, w2)
  BY <1>2, <1>3 DEF Linked, Attended, IsCurrent
<1>7. QED
  BY <1>5, <1>6 DEF Linked, w2

\* An add has its viewer join, and goes on to adjust the size.
LEMMA LinkedJoined ==
    ASSUME NEW n \in Nat, n >= 1, NEW q \in [1..n -> Tasks], NEW s \in Subscriptions,
           NEW w, IsAudience(w), NEW pc, NEW pc2, ~Adjusts(pc), Adjusts(pc2),
           Linked(q, s, w, pc), q[1].op = "add",
           \A i \in 1..n : Adds(q, i, q[1].conn) => i = 1
    PROVE  Linked(q, s, Joined(w, q[1].conn, q[1].entry), pc2)
<1> DEFINE d == q[1].conn
           e == q[1].entry
           w2 == Joined(w, d, e)
<1>1. /\ DOMAIN q = 1..n /\ 1 \in 1..n /\ Adds(q, 1, d) /\ d \in Conns
      /\ e.ordinal \in Nat
  BY DEF Adds, Tasks, Entries
<1>2. /\ DOMAIN w2 = DOMAIN w \cup {d} /\ w2[d] = e
      /\ \A c \in DOMAIN w : c # d => w2[c] = w[c]
  BY DEF Joined
<1>3. /\ e.ordinal = s[d].ordinal /\ s[d].st # "on"
      /\ s[d].st = "starting" \/ \E j \in 1..n : Removes(q, j, d)
  BY <1>1 DEF Linked, Pending
<1> HIDE DEF w2
<1>4. \A c \in DOMAIN w2 :
         /\ w2[c].ordinal <= s[c].ordinal
         /\ \A i \in 1..n :
              Adds(q, i, c) /\ w2[c].ordinal = s[c].ordinal => i = 1 /\ Adjusts(pc2)
  <2> TAKE c \in DOMAIN w2
  <2>1. CASE c = d
    BY <2>1, <1>1, <1>2, <1>3
  <2>2. CASE c # d
    BY <2>2, <1>1, <1>2 DEF Linked, Watchers
  <2>3. QED
    BY <2>1, <2>2
<1>5. Watchers(q, s, w2, pc2)
  BY <1>1, <1>2, <1>4 DEF Watchers
<1>6. Attended(q, s, w2)
  <2> SUFFICES ASSUME NEW c \in Conns
               PROVE  /\ s[c].st = "on" => c \in DOMAIN w2 /\ IsCurrent(s, c, w2[c])
                      /\ c \in DOMAIN w2 => \/ IsCurrent(s, c, w2[c])
                                            \/ \E i \in 1..n : Removes(q, i, c)
    BY <1>1 DEF Attended
  <2>1. CASE c = d
    BY <2>1, <1>2, <1>3 DEF IsCurrent
  <2>2. CASE c # d
    BY <2>2, <1>1, <1>2 DEF Linked, Attended, IsCurrent
  <2>3. QED
    BY <2>1, <2>2
<1>7. QED
  BY <1>5, <1>6 DEF Linked, w2

\* A task that adjusted the size failed: the viewer of an add goes.
LEMMA LinkedFailing ==
    ASSUME NEW n \in Nat, n >= 1, NEW q \in [1..n -> Tasks], NEW s \in Subscriptions,
           NEW w, IsAudience(w), NEW pc, NEW pc2, ~Adjusts(pc2),
           Linked(q, s, w, pc), q[1].op = "add"
    PROVE  Linked(q, s, Drop(w, q[1].conn), pc2)
<1> DEFINE d == q[1].conn
           w2 == Drop(w, d)
<1>1. DOMAIN q = 1..n /\ 1 \in 1..n /\ Adds(q, 1, d) /\ d \in Conns
  BY DEF Adds, Tasks
<1>2. DOMAIN w2 = DOMAIN w \ {d} /\ \A c \in DOMAIN w2 : w2[c] = w[c]
  BY DEF Drop, Restrict
<1>3. s[d].st # "on"
  BY <1>1 DEF Linked, Pending
<1> HIDE DEF w2
<1>4. \A c \in DOMAIN w2 :
         /\ w2[c].ordinal <= s[c].ordinal
         /\ \A i \in 1..n : Adds(q, i, c) => w2[c].ordinal # s[c].ordinal
  BY <1>1, <1>2 DEF Linked, Watchers, Adds
<1>5. Watchers(q, s, w2, pc2)
  BY <1>1, <1>2, <1>4 DEF Watchers
<1>6. Attended(q, s, w2)
  BY <1>2, <1>3 DEF Linked, Attended, IsCurrent
<1>7. QED
  BY <1>5, <1>6 DEF Linked, w2

\* Subscriptions without those the current ones among w were made for.
Loses(s, s2, w) ==
    \A c \in Conns : s2[c] = IF c \in DOMAIN w /\ IsCurrent(s, c, w[c])
                             THEN [s[c] EXCEPT !.st = "none"] ELSE s[c]

\* The viewers lose their bridge, and those that are current their subscriptions.
LEMMA LinkedLost ==
    ASSUME NEW n \in Nat, NEW q \in [1..n -> Tasks],
           NEW s \in Subscriptions, NEW s2 \in Subscriptions,
           NEW w, IsAudience(w), NEW pc, NEW pc2, ~Adjusts(pc), ~Adjusts(pc2),
           Linked(q, s, w, pc), NEW w2, DOMAIN w2 = {}, Loses(s, s2, w)
    PROVE  /\ Linked(q, s2, w2, pc2)
           /\ \A c \in Conns : s2[c].ordinal = s[c].ordinal
           /\ \A i \in 1..n, c \in Conns : Adds(q, i, c) => s2[c] = s[c]
<1>1. DOMAIN q = 1..n
  OBVIOUS
<1>2. \A c \in Conns :
        /\ s2[c].ordinal = s[c].ordinal
        /\ \/ s2[c].st = s[c].st
           \/ s2[c].st = "none" /\ c \in DOMAIN w /\ IsCurrent(s, c, w[c])
        /\ c \in DOMAIN w /\ IsCurrent(s, c, w[c]) => s2[c].st = "none"
  BY DEF Subscriptions, Loses
<1>3. \A i \in 1..n, c \in Conns : Adds(q, i, c) => s2[c] = s[c]
  BY <1>1 DEF Linked, Watchers, IsCurrent, Loses
<1>4. Pending(q, s2)
  BY <1>1, <1>3 DEF Linked, Pending
<1>5. Removals(q, s2)
  BY <1>1, <1>2 DEF Linked, Removals
<1>6. Watchers(q, s2, w2, pc2)
  BY DEF Watchers
<1>7. Attended(q, s2, w2)
  BY <1>2 DEF Linked, Attended
<1>8. QED
  BY <1>2, <1>3, <1>4, <1>5, <1>6, <1>7 DEF Linked

\* What is behind the running task moves up.
Behind(n, q, q2) == \A i \in 1..n - 1 : q2[i] = q[i + 1]

\* The adds and removes that are left, and those that were there.
LEMMA MovedUp ==
    ASSUME NEW n \in Nat, n >= 1, NEW q \in [1..n -> Tasks], NEW q2 \in [1..n - 1 -> Tasks],
           Behind(n, q, q2)
    PROVE  /\ DOMAIN q = 1..n /\ DOMAIN q2 = 1..n - 1
           /\ \A i \in 1..n - 1 : i + 1 \in 1..n /\ i + 1 > 1 /\ q2[i] = q[i + 1]
           /\ \A i \in 1..n : i = 1 \/ \E j \in 1..n - 1 : i = j + 1
           /\ \A c : \A i \in 1..n - 1 : Adds(q2, i, c) <=> Adds(q, i + 1, c)
           /\ \A c : \A i \in 1..n - 1 : Removes(q2, i, c) <=> Removes(q, i + 1, c)
<1>1. \A i \in 1..n : i = 1 \/ \E j \in 1..n - 1 : i = j + 1
  <2> TAKE i \in 1..n
  <2>1. CASE i # 1
    <3>1. i - 1 \in 1..n - 1 /\ i = (i - 1) + 1
      BY <2>1
    <3>2. QED
      BY <3>1
  <2>2. QED
    BY <2>1
<1>2. \A i \in 1..n - 1 : i + 1 \in 1..n /\ i + 1 > 1 /\ q2[i] = q[i + 1]
  BY DEF Behind
<1>3. QED
  BY <1>1, <1>2 DEF Adds, Removes

\* The running task ends: it neither added nor removed a viewer, or it removed its viewer.
LEMMA LinkedDone ==
    ASSUME NEW n \in Nat, n >= 1, NEW q \in [1..n -> Tasks], NEW q2 \in [1..n - 1 -> Tasks],
           Behind(n, q, q2), NEW s \in Subscriptions, NEW w, IsAudience(w),
           NEW pc,
           Linked(q, s, w, pc), q[1].op # "add",
           q[1].op # "remove" \/ q[1].conn \notin DOMAIN w
    PROVE  Linked(q2, s, w, "idle")
<1>0. /\ DOMAIN q = 1..n /\ DOMAIN q2 = 1..n - 1
      /\ \A i \in 1..n - 1 : i + 1 \in 1..n /\ i + 1 > 1 /\ q2[i] = q[i + 1]
      /\ \A i \in 1..n : i = 1 \/ \E j \in 1..n - 1 : i = j + 1
      /\ \A c : \A i \in 1..n - 1 : Adds(q2, i, c) <=> Adds(q, i + 1, c)
      /\ \A c : \A i \in 1..n - 1 : Removes(q2, i, c) <=> Removes(q, i + 1, c)
  BY MovedUp
<1>1. Pending(q2, s)
  <2> SUFFICES ASSUME NEW c \in Conns, NEW i \in 1..n - 1, Adds(q2, i, c)
               PROVE  /\ q2[i].entry.ordinal = s[c].ordinal /\ s[c].st # "on"
                      /\ \/ s[c].st = "starting"
                         \/ \E j \in 1..n - 1 : i < j /\ Removes(q2, j, c)
    BY <1>0 DEF Pending
  <2>1. i + 1 \in 1..n /\ Adds(q, i + 1, c) /\ q2[i] = q[i + 1]
    BY <1>0
  <2>2. /\ q[i + 1].entry.ordinal = s[c].ordinal /\ s[c].st # "on"
        /\ s[c].st = "starting" \/ \E j \in 1..n : i + 1 < j /\ Removes(q, j, c)
    BY <2>1 DEF Linked, Pending
  <2>3. ASSUME NEW j \in 1..n, i + 1 < j, Removes(q, j, c)
        PROVE  \E k \in 1..n - 1 : i < k /\ Removes(q2, k, c)
    <3>1. PICK k \in 1..n - 1 : j = k + 1
      BY <2>1, <2>3, <1>0
    <3>2. Removes(q2, k, c) /\ i < k
      BY <2>3, <3>1, <1>0
    <3>3. QED
      BY <3>2
  <2>4. QED
    BY <2>1, <2>2, <2>3
<1>2. Removals(q2, s)
  <2> SUFFICES ASSUME NEW c \in Conns, NEW i \in 1..n - 1, Removes(q2, i, c)
               PROVE  \/ s[c].st = "none"
                      \/ /\ s[c].st = "starting"
                         /\ \E k \in 1..n - 1 : i < k /\ Adds(q2, k, c)
    BY <1>0 DEF Removals
  <2>1. i + 1 \in 1..n /\ Removes(q, i + 1, c)
    BY <1>0
  <2>2. \/ s[c].st = "none"
        \/ s[c].st = "starting" /\ \E k \in 1..n : i + 1 < k /\ Adds(q, k, c)
    BY <2>1 DEF Linked, Removals
  <2>3. ASSUME NEW j \in 1..n, i + 1 < j, Adds(q, j, c)
        PROVE  \E k \in 1..n - 1 : i < k /\ Adds(q2, k, c)
    <3>1. PICK k \in 1..n - 1 : j = k + 1
      BY <2>1, <2>3, <1>0
    <3>2. Adds(q2, k, c) /\ i < k
      BY <2>3, <3>1, <1>0
    <3>3. QED
      BY <3>2
  <2>4. QED
    BY <2>2, <2>3
<1> ~Adjusts("idle")
  BY DEF Adjusts
<1>3. Watchers(q2, s, w, "idle")
  <2>1. \A c \in DOMAIN w, i \in 1..n - 1 : Adds(q2, i, c) => w[c].ordinal # s[c].ordinal
    <3> TAKE c \in DOMAIN w, i \in 1..n - 1
    <3>1. Adds(q2, i, c) => i + 1 \in 1..n /\ i + 1 # 1 /\ Adds(q, i + 1, c)
      BY <1>0
    <3>2. QED
      BY <3>1 DEF Linked, Watchers
  <2>2. QED
    BY <2>1, <1>0 DEF Linked, Watchers
<1>4. Attended(q2, s, w)
  <2> SUFFICES ASSUME NEW c \in Conns
               PROVE  /\ s[c].st = "on" => c \in DOMAIN w /\ IsCurrent(s, c, w[c])
                      /\ c \in DOMAIN w => \/ IsCurrent(s, c, w[c])
                                           \/ \E i \in 1..n - 1 : Removes(q2, i, c)
    BY <1>0 DEF Attended
  <2>1. /\ s[c].st = "on" => c \in DOMAIN w /\ IsCurrent(s, c, w[c])
        /\ c \in DOMAIN w => IsCurrent(s, c, w[c]) \/ \E i \in 1..n : Removes(q, i, c)
    BY DEF Linked, Attended
  <2>2. ASSUME NEW i \in 1..n, Removes(q, i, c), c \in DOMAIN w
        PROVE  \E k \in 1..n - 1 : Removes(q2, k, c)
    <3>1. i # 1
      BY <2>2 DEF Removes
    <3>2. PICK k \in 1..n - 1 : i = k + 1
      BY <3>1, <1>0
    <3>3. Removes(q2, k, c)
      BY <2>2, <3>2, <1>0
    <3>4. QED
      BY <3>3
  <2>3. QED
    BY <2>1, <2>2
<1>5. QED
  BY <1>1, <1>2, <1>3, <1>4 DEF Linked

\* An add ends: the subscription it was for is announced, if its viewer joined, or taken back, if
\* it did not.
LEMMA LinkedAdded ==
    ASSUME NEW n \in Nat, n >= 1, NEW q \in [1..n -> Tasks], NEW q2 \in [1..n - 1 -> Tasks],
           Behind(n, q, q2), NEW s \in Subscriptions, NEW s2 \in Subscriptions,
           NEW w, IsAudience(w), NEW pc,
           Linked(q, s, w, pc), q[1].op = "add",
           \A i \in 1..n : Adds(q, i, q[1].conn) => i = 1,
           NEW ok \in BOOLEAN,
           ok => q[1].conn \in DOMAIN w /\ w[q[1].conn] = q[1].entry,
           ~ok => ~Adjusts(pc),
           s2 = IF IsCurrent(s, q[1].conn, q[1].entry)
                THEN [s EXCEPT ![q[1].conn].st = IF ok THEN "on" ELSE "none"] ELSE s
    PROVE  Linked(q2, s2, w, "idle")
<1> DEFINE d == q[1].conn
           e == q[1].entry
<1>0. /\ DOMAIN q = 1..n /\ DOMAIN q2 = 1..n - 1
      /\ \A i \in 1..n - 1 : i + 1 \in 1..n /\ i + 1 > 1 /\ q2[i] = q[i + 1]
      /\ \A i \in 1..n : i = 1 \/ \E j \in 1..n - 1 : i = j + 1
      /\ \A c : \A i \in 1..n - 1 : Adds(q2, i, c) <=> Adds(q, i + 1, c)
      /\ \A c : \A i \in 1..n - 1 : Removes(q2, i, c) <=> Removes(q, i + 1, c)
  BY MovedUp
<1>1. 1 \in 1..n /\ Adds(q, 1, d) /\ d \in Conns
  BY DEF Adds, Tasks
<1>2. /\ e.ordinal = s[d].ordinal /\ s[d].st # "on"
      /\ s[d].st = "starting" \/ \E j \in 1..n : 1 < j /\ Removes(q, j, d)
  BY <1>1 DEF Linked, Pending
<1>3. /\ \A c \in Conns : s2[c].ordinal = s[c].ordinal /\ (c # d => s2[c] = s[c])
      /\ IsCurrent(s, d, e) => s2[d].st = IF ok THEN "on" ELSE "none"
      /\ ~IsCurrent(s, d, e) => s2[d] = s[d]
  BY <1>1 DEF Subscriptions
<1>4. \A i \in 1..n - 1 : ~Adds(q2, i, d)
  BY <1>0
<1>5. \A i \in 1..n : Removes(q, i, d) => s[d].st = "none"
  BY <1>1 DEF Linked, Removals
<1>6. IsCurrent(s, d, e) <=> s[d].st # "none"
  BY <1>2 DEF IsCurrent
<1>7. Pending(q2, s2)
  <2> SUFFICES ASSUME NEW c \in Conns, NEW i \in 1..n - 1, Adds(q2, i, c)
               PROVE  /\ q2[i].entry.ordinal = s2[c].ordinal /\ s2[c].st # "on"
                      /\ \/ s2[c].st = "starting"
                         \/ \E j \in 1..n - 1 : i < j /\ Removes(q2, j, c)
    BY <1>0 DEF Pending
  <2>1. i + 1 \in 1..n /\ Adds(q, i + 1, c) /\ q2[i] = q[i + 1] /\ c # d
    BY <1>4, <1>0
  <2>2. /\ q[i + 1].entry.ordinal = s[c].ordinal /\ s[c].st # "on"
        /\ s[c].st = "starting" \/ \E j \in 1..n : i + 1 < j /\ Removes(q, j, c)
    BY <2>1 DEF Linked, Pending
  <2>3. ASSUME NEW j \in 1..n, i + 1 < j, Removes(q, j, c)
        PROVE  \E k \in 1..n - 1 : i < k /\ Removes(q2, k, c)
    <3>1. PICK k \in 1..n - 1 : j = k + 1
      BY <2>1, <2>3, <1>0
    <3>2. Removes(q2, k, c) /\ i < k
      BY <2>3, <3>1, <1>0
    <3>3. QED
      BY <3>2
  <2>4. QED
    BY <2>1, <2>2, <2>3, <1>3
<1>8. Removals(q2, s2)
  <2> SUFFICES ASSUME NEW c \in Conns, NEW i \in 1..n - 1, Removes(q2, i, c)
               PROVE  \/ s2[c].st = "none"
                      \/ /\ s2[c].st = "starting"
                         /\ \E k \in 1..n - 1 : i < k /\ Adds(q2, k, c)
    BY <1>0 DEF Removals
  <2>1. i + 1 \in 1..n /\ Removes(q, i + 1, c)
    BY <1>0
  <2>2. CASE c = d
    BY <2>1, <2>2, <1>3, <1>5, <1>6
  <2>3. CASE c # d
    <3>1. \/ s[c].st = "none"
          \/ s[c].st = "starting" /\ \E k \in 1..n : i + 1 < k /\ Adds(q, k, c)
      BY <2>1 DEF Linked, Removals
    <3>2. ASSUME NEW j \in 1..n, i + 1 < j, Adds(q, j, c)
          PROVE  \E k \in 1..n - 1 : i < k /\ Adds(q2, k, c)
      <4>1. PICK k \in 1..n - 1 : j = k + 1
        BY <2>1, <3>2, <1>0
      <4>2. Adds(q2, k, c) /\ i < k
        BY <3>2, <4>1, <1>0
      <4>3. QED
        BY <4>2
    <3>3. QED
      BY <2>3, <3>1, <3>2, <1>3
  <2>4. QED
    BY <2>2, <2>3
<1> ~Adjusts("idle")
  BY DEF Adjusts
<1>9. Watchers(q2, s2, w, "idle")
  <2>1. \A c \in DOMAIN w, i \in 1..n - 1 : Adds(q2, i, c) => w[c].ordinal # s[c].ordinal
    <3> TAKE c \in DOMAIN w, i \in 1..n - 1
    <3>1. Adds(q2, i, c) => i + 1 \in 1..n /\ i + 1 # 1 /\ Adds(q, i + 1, c)
      BY <1>0
    <3>2. QED
      BY <3>1 DEF Linked, Watchers
  <2>2. \A c \in DOMAIN w : c \in Conns /\ w[c].ordinal <= s[c].ordinal
    BY DEF Linked, Watchers, IsAudience
  <2>3. QED
    BY <2>1, <2>2, <1>3, <1>0 DEF Watchers
<1>10. Attended(q2, s2, w)
  <2> SUFFICES ASSUME NEW c \in Conns
               PROVE  /\ s2[c].st = "on" => c \in DOMAIN w /\ IsCurrent(s2, c, w[c])
                      /\ c \in DOMAIN w => \/ IsCurrent(s2, c, w[c])
                                           \/ \E i \in 1..n - 1 : Removes(q2, i, c)
    BY <1>0 DEF Attended
  <2>1. /\ s[c].st = "on" => c \in DOMAIN w /\ IsCurrent(s, c, w[c])
        /\ c \in DOMAIN w => IsCurrent(s, c, w[c]) \/ \E i \in 1..n : Removes(q, i, c)
    BY DEF Linked, Attended
  <2>2. ASSUME NEW i \in 1..n, Removes(q, i, c)
        PROVE  \E k \in 1..n - 1 : Removes(q2, k, c)
    <3>1. i # 1
      BY <2>2 DEF Removes
    <3>2. PICK k \in 1..n - 1 : i = k + 1
      BY <3>1, <1>0
    <3>3. Removes(q2, k, c)
      BY <2>2, <3>2, <1>0
    <3>4. QED
      BY <3>3
  <2>3. CASE c # d
    BY <2>1, <2>2, <2>3, <1>3 DEF IsCurrent
  <2>4. CASE c = d
    <3>1. CASE ok
      <4>1. c \in DOMAIN w /\ w[c].ordinal = s[c].ordinal /\ s2[c].ordinal = s[c].ordinal
        BY <2>4, <3>1, <1>2, <1>3
      <4>2. CASE s[c].st = "none"
        <5>1. s2[c] = s[c] /\ \E j \in 1..n : Removes(q, j, c)
          BY <2>4, <4>2, <1>2, <1>3, <1>6
        <5>2. QED
          BY <2>2, <4>2, <5>1
      <4>3. CASE s[c].st # "none"
        <5>1. s2[c].st = "on"
          BY <2>4, <3>1, <4>3, <1>3, <1>6
        <5>2. QED
          BY <4>1, <5>1 DEF IsCurrent
      <4>4. QED
        BY <4>2, <4>3
    <3>2. CASE ~ok
      <4>1. c \in DOMAIN w => w[c].ordinal # s[c].ordinal
        BY <2>4, <3>2, <1>1 DEF Linked, Watchers
      <4>2. s2[c].st # "on"
        BY <2>4, <3>2, <1>2, <1>3, <1>6
      <4>3. c \in DOMAIN w => \E i \in 1..n : Removes(q, i, c)
        BY <2>1, <4>1 DEF IsCurrent
      <4>4. QED
        BY <2>2, <4>2, <4>3
    <3>3. QED
      BY <3>1, <3>2
  <2>5. QED
    BY <2>3, <2>4
<1>11. QED
  BY <1>7, <1>8, <1>9, <1>10 DEF Linked

----------------------------------------------------------------------------
\* Viewers, bridges and sizes.

\* A record of the parts of a bridge is one, and is not None.
LEMMA BridgeIs ==
    ASSUME NEW b, IsBridge(b)
    PROVE  /\ b # None /\ IsAudience(b.viewers) /\ DOMAIN b.viewers \subseteq Conns
           /\ b = [tab |-> b.tab, viewers |-> b.viewers, casting |-> b.casting, cast |-> b.cast,
                   size |-> b.size, timer |-> b.timer, frame |-> b.frame,
                   priming |-> b.priming, raced |-> b.raced, blind |-> b.blind]
           /\ b.tab \in Tabs /\ b.casting \in BOOLEAN /\ b.cast \in BOOLEAN
           /\ b.size \in Sizes \cup {0} /\ b.timer \in BOOLEAN /\ b.frame \in BOOLEAN
           /\ b.priming \in BOOLEAN /\ b.raced \in BOOLEAN /\ b.blind \in BOOLEAN
<1> DEFINE Audiences == UNION {[C -> Entries] : C \in SUBSET Conns}
<1>1. b.viewers \in Audiences
  BY DEF IsBridge, IsAudience
<1>2. b \in Bridges({b.viewers})
  BY DEF IsBridge
<1>3. b \in Bridges(Audiences)
  BY <1>1, <1>2 DEF Bridges
<1>4. b # None
  BY <1>3, LiveViewAssumption
<1>5. QED
  BY <1>2, <1>4 DEF IsBridge, IsAudience, Bridges

\* Nobody, and viewers of which one joins, leaves or asks for another size.
LEMMA AudienceOf ==
    /\ IsAudience(<<>>) /\ DOMAIN <<>> = {}
    /\ \A w : IsAudience(w) /\ DOMAIN w = {} => w = <<>>
    /\ \A w, c : IsAudience(w) =>
         IsAudience(Drop(w, c)) /\ DOMAIN Drop(w, c) = DOMAIN w \ {c}
    /\ \A w, c, e : IsAudience(w) /\ c \in Conns /\ e \in Entries =>
         IsAudience(Joined(w, c, e)) /\ c \in DOMAIN Joined(w, c, e)
<1>1. IsAudience(<<>>) /\ DOMAIN <<>> = {}
  BY DEF IsAudience
<1>2. \A w : IsAudience(w) /\ DOMAIN w = {} => w = <<>>
  BY DEF IsAudience
<1>3. \A w, c : IsAudience(w) =>
        IsAudience(Drop(w, c)) /\ DOMAIN Drop(w, c) = DOMAIN w \ {c}
  BY DEF IsAudience, Drop, Restrict
<1>4. \A w, c, e : IsAudience(w) /\ c \in Conns /\ e \in Entries =>
        IsAudience(Joined(w, c, e)) /\ c \in DOMAIN Joined(w, c, e)
  BY DEF IsAudience, Joined
<1>5. QED
  BY <1>1, <1>2, <1>3, <1>4

\* Among finitely many somebody has the largest number: a least set without one would be larger
\* by somebody than a set with one.
LEMMA LargestOf ==
    ASSUME NEW C, IsFiniteSet(C), C # {}, NEW f \in [C -> Nat]
    PROVE  \E x \in C : \A y \in C : f[x] >= f[y]
<1> DEFINE Tops(T) == {x \in T : \A y \in T : f[x] >= f[y]}
           bad == {T \in SUBSET C : T # {} /\ Tops(T) = {}}
<1>1. SUFFICES ASSUME bad # {} PROVE FALSE
  OBVIOUS
<1>2. bad \subseteq FiniteSubsetsOf(C)
  BY FS_FiniteSubsetsOfFinite
<1>3. PICK T \in bad : \A U \in bad : ~(<<U, T>> \in StrictSubsetOrdering(C))
  <2> HIDE DEF bad
  <2> QED
    BY <1>1, <1>2, FS_StrictSubsetOrderingWellFounded, WFMin
<1>4. PICK x \in T : TRUE
  OBVIOUS
<1>5. T \ {x} \notin bad
  BY <1>3, <1>4 DEF StrictSubsetOrdering
<1>6. T \ {x} # {}
  <2>1. T \ {x} = {} => x \in Tops(T)
    BY <1>4
  <2>2. QED
    BY <2>1
<1>7. PICK z \in T \ {x} : \A y \in T \ {x} : f[z] >= f[y]
  BY <1>5, <1>6
<1>8. f[x] \in Nat /\ f[z] \in Nat /\ \A y \in T : f[y] \in Nat
  OBVIOUS
<1>9. x \in Tops(T) \/ z \in Tops(T)
  <2>1. CASE f[x] >= f[z]
    <3>1. \A y \in T : f[x] >= f[y]
      BY <2>1, <1>7, <1>8
    <3>2. QED
      BY <3>1
  <2>2. CASE f[z] >= f[x]
    <3>1. \A y \in T : f[z] >= f[y]
      BY <2>2, <1>7, <1>8
    <3>2. QED
      BY <3>1
  <2>3. QED
    BY <2>1, <2>2, <1>8
<1>10. QED
  BY <1>9

\* The largest size somebody asked for is one of the sizes.
LEMMA LargestIs ==
    ASSUME NEW b, IsBridge(b), DOMAIN b.viewers # {}
    PROVE  Largest(b) \in Sizes
<1> DEFINE w == b.viewers
           C == DOMAIN w
           f == [c \in C |-> w[c].size]
           S == {w[c].size : c \in C}
<1>1. C \subseteq Conns /\ \A c \in C : w[c].size \in Sizes
  BY DEF IsBridge, IsAudience, Entries
<1>2. IsFiniteSet(C)
  BY <1>1, LiveViewAssumption, FS_Subset
<1>3. f \in [C -> Nat]
  BY <1>1, LiveViewAssumption
<1>4. PICK x \in C : \A y \in C : f[x] >= f[y]
  <2> HIDE DEF f
  <2> QED
    BY <1>2, <1>3, LargestOf
<1>5. w[x].size \in S /\ \A y \in S : w[x].size >= y
  BY <1>4
<1>6. Max(S) \in S
  BY <1>5 DEF Max
<1>7. S \subseteq Sizes
  BY <1>1
<1>8. QED
  BY <1>6, <1>7 DEF Largest

----------------------------------------------------------------------------
\* Steps of the queue.

\* No task runs.
LEMMA BridgingIdle ==
    ASSUME NEW q \in Seq(Tasks), NEW b, b = None \/ (IsBridge(b) /\ b.cast = b.casting)
    PROVE  Bridging(q, Idle, b)
<1>1. /\ Idle \in [pc : Places, tab : Tabs \cup {None}, carried : {Idle.carried}]
      /\ Idle.pc = "idle" /\ Idle.carried = <<>>
  BY DEF Idle, Places
<1>2. QED
  BY <1>1, AudienceOf DEF Bridging

\* The running task is still at the front.
LEMMA BridgingFront ==
    ASSUME NEW q, NEW q2 \in Seq(Tasks), q # <<>> => q2 # <<>> /\ Head(q2) = Head(q),
           NEW r, NEW b, Bridging(q, r, b)
    PROVE  Bridging(q2, r, b)
<1>1. r.pc = "idle" \/ (q2 # <<>> /\ Head(q2) = Head(q))
  BY DEF Bridging
<1>2. CASE r.pc = "idle"
  BY <1>2 DEF Bridging
<1>3. CASE q2 # <<>> /\ Head(q2) = Head(q)
  BY <1>3 DEF Bridging
<1>4. QED
  BY <1>1, <1>2, <1>3

\* Of the tasks a command of one connection waits for, only one is in the queue.
LEMMA WaitingOnce ==
    ASSUME NEW n \in Nat, NEW q \in [1..n -> Tasks], NEW b, Waiting(q, b), n >= 1,
           q[1].op = "add"
    PROVE  \A i \in 1..n : Adds(q, i, q[1].conn) => i = 1
  BY DEF Waiting, Awaited, Adds

\* A task nobody waits for, or the one a command of a connection waits for from now on.
LEMMA WaitingBehind ==
    ASSUME NEW n \in Nat, NEW q \in [1..n -> Tasks], NEW q2 \in [1..n + 1 -> Tasks],
           NEW b, NEW b2, Waiting(q, b), \A i \in 1..n : q2[i] = q[i],
           \A c \in Conns : b[c] => b2[c],
           Awaited(q2[n + 1]) => b2[q2[n + 1].conn] /\ ~b[q2[n + 1].conn]
    PROVE  Waiting(q2, b2)
<1>1. \A i \in 1..n : Awaited(q[i]) => b[q[i].conn] /\ q[i].conn \in Conns
  BY DEF Waiting, Awaited, Tasks
<1>2. Awaited(q2[n + 1]) => q2[n + 1].conn \in Conns
  BY DEF Awaited, Tasks
<1>3. \A i \in 1..n + 1 : i \in 1..n \/ i = n + 1
  OBVIOUS
<1>4. \A i \in 1..n, j \in 1..n : Awaited(q[i]) /\ Awaited(q[j]) /\ q[j].conn = q[i].conn => i = j
  BY DEF Waiting
<1>5. ASSUME NEW i \in 1..n + 1, Awaited(q2[i])
      PROVE  /\ b2[q2[i].conn]
             /\ \A j \in 1..n + 1 : Awaited(q2[j]) /\ q2[j].conn = q2[i].conn => i = j
  <2>1. CASE i = n + 1
    <3>1. \A j \in 1..n : Awaited(q2[j]) => q2[j].conn # q2[i].conn
      BY <2>1, <1>1, <1>5
    <3>2. QED
      BY <2>1, <3>1, <1>2, <1>3, <1>5
  <2>2. CASE i \in 1..n
    <3>1. q2[i] = q[i] /\ b[q[i].conn] /\ q[i].conn \in Conns
      BY <2>2, <1>1, <1>5
    <3>2. ASSUME NEW j \in 1..n + 1, Awaited(q2[j]), q2[j].conn = q2[i].conn
          PROVE  i = j
      <4>1. j \in 1..n
        BY <3>1, <3>2, <1>3
      <4>2. QED
        BY <2>2, <3>1, <3>2, <4>1, <1>4, <1>5
    <3>3. QED
      BY <3>1, <3>2
  <2>3. QED
    BY <2>1, <2>2, <1>3
<1>6. DOMAIN q2 = 1..n + 1
  OBVIOUS
<1>7. QED
  BY <1>5, <1>6 DEF Waiting

\* The tasks of a bridge that goes are nobody's.
LEMMA WaitingOrphaned ==
    ASSUME NEW b, Waiting(queue, b), queue \in Seq(Tasks), queue # <<>>
    PROVE  Waiting(Orphaned, b)
<1>1. /\ DOMAIN queue = 1..Len(queue) /\ DOMAIN Orphaned = 1..Len(queue)
      /\ \A i \in 1..Len(queue) :
           \/ Orphaned[i] = queue[i]
           \/ queue[i].op \in {"follow", "stop"} /\ Orphaned[i] = [op |-> "stale"]
  BY QueueIs, OrphanedIs
<1>2. \A i \in 1..Len(queue) : Awaited(Orphaned[i]) => Orphaned[i] = queue[i]
  BY <1>1 DEF Awaited
<1>3. QED
  BY <1>1, <1>2 DEF Waiting

\* The running task ended, and its command is answered.
LEMMA WaitingDone ==
    ASSUME NEW n \in Nat, n >= 1, NEW q \in [1..n -> Tasks], NEW q2 \in [1..n - 1 -> Tasks],
           Behind(n, q, q2), NEW b, NEW b2, Waiting(q, b),
           \A c \in Conns : b2[c] <=> b[c] /\ ~(Awaited(q[1]) /\ q[1].conn = c)
    PROVE  Waiting(q2, b2)
<1>1. /\ DOMAIN q = 1..n /\ DOMAIN q2 = 1..n - 1
      /\ \A i \in 1..n - 1 : i + 1 \in 1..n /\ i + 1 > 1 /\ q2[i] = q[i + 1]
  BY DEF Behind
<1>2. \A i \in 1..n : Awaited(q[i]) => b[q[i].conn] /\ q[i].conn \in Conns
  BY DEF Waiting, Awaited, Tasks
<1>3. \A i \in 1..n, j \in 1..n : Awaited(q[i]) /\ Awaited(q[j]) /\ q[j].conn = q[i].conn => i = j
  BY DEF Waiting
<1>4. ASSUME NEW i \in 1..n - 1, Awaited(q2[i])
      PROVE  /\ b2[q2[i].conn]
             /\ \A j \in 1..n - 1 : Awaited(q2[j]) /\ q2[j].conn = q2[i].conn => i = j
  <2>1. i + 1 \in 1..n /\ i + 1 # 1 /\ q2[i] = q[i + 1] /\ Awaited(q[i + 1]) /\ 1 \in 1..n
    BY <1>1, <1>4
  <2>2. b[q[i + 1].conn] /\ q[i + 1].conn \in Conns
    BY <1>2, <2>1
  <2>3. ~(Awaited(q[1]) /\ q[1].conn = q[i + 1].conn)
    BY <1>3, <2>1
  <2>4. ASSUME NEW j \in 1..n - 1, Awaited(q2[j]), q2[j].conn = q2[i].conn
        PROVE  i = j
    <3>1. j + 1 \in 1..n /\ q2[j] = q[j + 1]
      BY <1>1
    <3>2. i + 1 = j + 1
      BY <1>3, <2>1, <2>4, <3>1
    <3>3. QED
      BY <3>2
  <2>5. QED
    BY <2>1, <2>2, <2>3, <2>4
<1>5. QED
  BY <1>1, <1>4 DEF Waiting

\* A task is put behind the others; if it is for a bridge there is one.
LEMMA OwnedBehind ==
    ASSUME NEW n \in Nat, NEW q \in [1..n -> Tasks], NEW q2 \in [1..n + 1 -> Tasks],
           \A i \in 1..n : q2[i] = q[i],
           NEW pc, NEW b, NEW b2, Owned(q, pc, b),
           b2 = None => b = None /\ q2[n + 1].op \notin {"follow", "stop"}
    PROVE  Owned(q2, pc, b2)
<1>1. DOMAIN q = 1..n /\ DOMAIN q2 = 1..n + 1 /\ \A i \in 1..n + 1 : i \in 1..n \/ i = n + 1
  OBVIOUS
<1>2. QED
  BY <1>1 DEF Owned

\* The running task ended: it leaves no task of a bridge that is gone.
LEMMA OwnedDone ==
    ASSUME queue \in Seq(Tasks), queue # <<>>, NEW q, q = queue \/ q = Orphaned,
           NEW pc, NEW b, NEW b2, Owned(queue, pc, b), b2 = None => b = None \/ q = Orphaned,
           NEW q2, q2 = Tail(q)
    PROVE  Owned(q2, "idle", b2)
<1> DEFINE n == Len(queue)
<1>1. /\ queue \in [1..n -> Tasks] /\ DOMAIN queue = 1..n
      /\ q \in Seq(Tasks) /\ Len(q) = n /\ q # <<>>
      /\ q = Orphaned => \A i \in 1..n : q[i].op \in {"follow", "stop"} => i = 1
  BY QueueIs, OrphanedIs
<1>2. /\ n \in Nat /\ n - 1 \in Nat /\ q2 \in [1..n - 1 -> Tasks]
      /\ \A i \in 1..n - 1 : q2[i] = q[i + 1]
  BY <1>1, Popped, QueueIs
<1> HIDE DEF n
<1>3. DOMAIN q2 = 1..n - 1 /\ \A i \in 1..n - 1 : i + 1 \in 1..n /\ i + 1 # 1
  BY <1>2
<1>4. b2 = None => \A i \in 1..n : q[i].op \in {"follow", "stop"} => i = 1
  BY <1>1 DEF Owned
<1>5. QED
  BY <1>2, <1>3, <1>4 DEF Owned

\* What a task that ends leaves, for the queue q it is at the front of, the subscriptions subs and
\* the viewers w it leaves.  An add has its viewer among w if it succeeds and none if it fails; a
\* remove has none either.
LEMMA Finished ==
    ASSUME LiveInv, queue # <<>>,
           NEW q, q = queue \/ q = Orphaned,
           NEW subs \in Subscriptions, NEW w, IsAudience(w),
           NEW pc,
           Linked(queue, subs, w, pc),
           NEW ok \in BOOLEAN,
           Task.op = "add" => /\ subs[Task.conn] = sub[Task.conn]
                              /\ ok => Task.conn \in DOMAIN w /\ w[Task.conn] = Task.entry
                              /\ ~ok => ~Adjusts(pc),
           Task.op = "remove" => Task.conn \notin DOMAIN w,
           Finish(ok, Tail(q), subs)
    PROVE  /\ queue' \in Seq(Tasks) /\ run' = Idle /\ open' = open
           /\ busy' \in [Conns -> BOOLEAN] /\ chain' \in [Conns -> Seq(Commands)]
           /\ \A c \in Conns : busy'[c] => chain'[c] # <<>>
           /\ sub' \in Subscriptions
           /\ Waiting(queue', busy')
           /\ Linked(queue', sub', w, "idle")
<1> DEFINE n == Len(queue)
           q2 == Tail(q)
<1>1. /\ queue \in Seq(Tasks) /\ Waiting(queue, busy)
      /\ busy \in [Conns -> BOOLEAN] /\ chain \in [Conns -> Seq(Commands)]
      /\ \A c \in Conns : busy[c] => chain[c] # <<>>
  BY DEF LiveInv, Connected, Bridging
<1>2. n \in Nat /\ n >= 1 /\ queue \in [1..n -> Tasks] /\ Task = queue[1]
  BY <1>1, QueueIs DEF Task
<1>3. /\ q \in Seq(Tasks) /\ Len(q) = n /\ q # <<>> /\ q \in [1..n -> Tasks] /\ q[1] = Task
      /\ \A i \in 1..n :
           \/ q[i] = queue[i]
           \/ queue[i].op \in {"follow", "stop"} /\ q[i] = [op |-> "stale"]
  BY <1>1, <1>2, OrphanedIs
<1>4. Waiting(q, busy)
  BY <1>1, WaitingOrphaned
<1>5. Linked(q, subs, w, pc)
  <2>1. \A i \in 1..n :
          \/ q[i] = queue[i]
          \/ queue[i].op \notin {"add", "remove"} /\ q[i].op \notin {"add", "remove"}
    BY <1>3
  <2>2. \A i \in 1..n : i > n => q[i].op \notin {"add", "remove"}
    BY <1>2
  <2>3. QED
    <3>1. /\ n \in Nat /\ n <= n /\ (pc # "idle" => n >= 1)
          /\ queue \in [1..n -> Tasks] /\ q \in [1..n -> Tasks]
      BY <1>2, <1>3
    <3>2. QED
      BY <2>1, <2>2, <3>1, LinkedBehind
<1> HIDE DEF n
<1>6. q2 \in Seq(Tasks) /\ q2 \in [1..n - 1 -> Tasks] /\ Behind(n, q, q2)
  BY <1>3, Popped DEF Behind
<1>7. /\ n \in Nat /\ n >= 1 /\ q \in [1..n -> Tasks] /\ q2 \in [1..n - 1 -> Tasks]
      /\ Behind(n, q, q2) /\ Linked(q, subs, w, pc) /\ Waiting(q, busy)
  BY <1>2, <1>3, <1>4, <1>5, <1>6
<1>14. queue' = q2 /\ run' = Idle /\ open' = open
  BY DEF Finish
<1> HIDE DEF q2
<1>8. /\ Task \in Tasks
      /\ (Task.op \in {"add", "size"} \/ (Task.op = "remove" /\ Task.awaited)) = Awaited(Task)
      /\ Awaited(Task) => Task.conn \in Conns /\ busy[Task.conn]
  BY <1>1, <1>2 DEF Awaited, Tasks, Waiting
<1>9. /\ busy' = IF Awaited(Task) THEN [busy EXCEPT ![Task.conn] = FALSE] ELSE busy
      /\ chain' = IF Awaited(Task) THEN [chain EXCEPT ![Task.conn] = Tail(@)] ELSE chain
      /\ sub' = IF Task.op = "add" /\ Current(Task.conn, Task.entry)
                THEN [subs EXCEPT ![Task.conn].st = IF ok THEN "on" ELSE "none"] ELSE subs
  BY <1>8 DEF Finish
<1>10. /\ busy' \in [Conns -> BOOLEAN] /\ chain' \in [Conns -> Seq(Commands)]
       /\ \A c \in Conns : busy'[c] => chain'[c] # <<>>
  <2>1. Awaited(Task) => Tail(chain[Task.conn]) \in Seq(Commands)
    BY <1>1, <1>8, HeadTailProperties
  <2>2. busy' \in [Conns -> BOOLEAN] /\ chain' \in [Conns -> Seq(Commands)]
    BY <1>1, <1>9, <2>1
  <2>3. \A c \in Conns : busy'[c] => busy[c] /\ chain'[c] = chain[c]
    BY <1>1, <1>8, <1>9
  <2>4. QED
    BY <1>1, <2>2, <2>3
<1>11. Waiting(q2, busy')
  <2>1. \A c \in Conns : busy'[c] <=> busy[c] /\ ~(Awaited(q[1]) /\ q[1].conn = c)
    BY <1>1, <1>3, <1>8, <1>9
  <2>2. QED
    BY <1>7, <2>1, WaitingDone
<1>12. sub' \in Subscriptions /\ Linked(q2, sub', w, "idle")
  <2>1. CASE Task.op # "add"
    <3>1. sub' = subs
      BY <2>1, <1>9
    <3>2. q[1].op # "add" /\ (q[1].op # "remove" \/ q[1].conn \notin DOMAIN w)
      BY <2>1, <1>3
    <3>3. Linked(q2, subs, w, "idle")
      BY <3>2, <1>7, LinkedDone
    <3>4. QED
      BY <3>1, <3>3
  <2>2. CASE Task.op = "add"
    <3>1. Task.conn \in Conns
      BY <2>2, <1>8 DEF Tasks
    <3>2. Current(Task.conn, Task.entry) = IsCurrent(subs, Task.conn, Task.entry)
      BY <2>2 DEF Current, IsCurrent
    <3>3. sub' = IF IsCurrent(subs, q[1].conn, q[1].entry)
                 THEN [subs EXCEPT ![q[1].conn].st = IF ok THEN "on" ELSE "none"] ELSE subs
      BY <2>2, <3>2, <1>3, <1>9
    <3>4. sub' \in Subscriptions
      <4>1. (IF ok THEN "on" ELSE "none") \in {"none", "starting", "on"}
        OBVIOUS
      <4>2. \A v \in {"none", "starting", "on"} :
              [subs EXCEPT ![Task.conn].st = v] \in Subscriptions
        BY <3>1 DEF Subscriptions
      <4>3. QED
        BY <3>3, <4>1, <4>2, <1>3
    <3>5. \A i \in 1..n : Adds(q, i, q[1].conn) => i = 1
      BY <2>2, <1>2, <1>3, <1>4, WaitingOnce
    <3>6. /\ q[1].op = "add" /\ (~ok => ~Adjusts(pc))
          /\ ok => q[1].conn \in DOMAIN w /\ w[q[1].conn] = q[1].entry
      BY <2>2, <1>3
    <3>7. Linked(q2, sub', w, "idle")
      BY <3>3, <3>4, <3>5, <3>6, <1>7, LinkedAdded
    <3>8. QED
      BY <3>4, <3>7
  <2>3. QED
    BY <2>1, <2>2
<1>13. QED
  BY <1>6, <1>14, <1>10, <1>11, <1>12

\* A step of the running task that is not its last one.
LEMMA GoesOn ==
    ASSUME LiveInv, UNCHANGED <<sess, active, conns>>, shown' \in [Conns -> Tabs \cup {None}],
           Bridging(queue', run', bridge'), Waiting(queue', busy),
           Owned(queue', run'.pc, bridge'),
           NEW w, w = IF bridge' = None THEN run'.carried ELSE bridge'.viewers,
           Linked(queue', sub, w, run'.pc)
    PROVE  LiveInv'
<1>1. Connected' /\ sub' = sub /\ busy' = busy
  BY DEF LiveInv, Connected, conns
<1>2. Watching' = w
  BY DEF Watching
<1>3. QED
  BY <1>1, <1>2 DEF LiveInv

\* Its last step.
LEMMA Ends ==
    ASSUME LiveInv, queue # <<>>, UNCHANGED <<sess, active>>,
           shown' \in [Conns -> Tabs \cup {None}],
           bridge' = None \/ (IsBridge(bridge') /\ bridge'.cast = bridge'.casting),
           NEW q, q = queue \/ q = Orphaned, bridge' = None => bridge = None \/ q = Orphaned,
           NEW subs \in Subscriptions, NEW w, IsAudience(w),
           w = IF bridge' = None THEN <<>> ELSE bridge'.viewers,
           NEW pc,
           Linked(queue, subs, w, pc),
           NEW ok \in BOOLEAN,
           Task.op = "add" => /\ subs[Task.conn] = sub[Task.conn]
                              /\ ok => Task.conn \in DOMAIN w /\ w[Task.conn] = Task.entry
                              /\ ~ok => ~Adjusts(pc),
           Task.op = "remove" => Task.conn \notin DOMAIN w,
           Finish(ok, Tail(q), subs)
    PROVE  LiveInv'
<1>1. /\ queue' \in Seq(Tasks) /\ run' = Idle /\ open' = open
      /\ busy' \in [Conns -> BOOLEAN] /\ chain' \in [Conns -> Seq(Commands)]
      /\ \A c \in Conns : busy'[c] => chain'[c] # <<>>
      /\ sub' \in Subscriptions
      /\ Waiting(queue', busy')
      /\ Linked(queue', sub', w, "idle")
  BY Finished
<1>2. Connected'
  BY <1>1 DEF LiveInv, Connected
<1>3. Bridging(queue', run', bridge')
  BY <1>1, BridgingIdle
<1>4. run'.pc = "idle" /\ run'.carried = <<>> /\ Watching' = w
  BY <1>1 DEF Idle, Watching
<1>5. Linked(queue', sub', Watching', run'.pc)
  BY <1>1, <1>4
<1>6. Owned(queue', run'.pc, bridge')
  <2>1. /\ queue' = Tail(q) /\ queue \in Seq(Tasks) /\ Owned(queue, run.pc, bridge)
    BY DEF Finish, LiveInv, Bridging
  <2>2. Owned(queue', "idle", bridge')
    BY <2>1, OwnedDone
  <2>3. QED
    BY <1>4, <2>2
<1>7. QED
  BY <1>1, <1>2, <1>3, <1>5, <1>6 DEF LiveInv

\* What holds of a task that runs, or is about to.
LEMMA AtWork ==
    ASSUME LiveInv, queue # <<>>
    PROVE  /\ Task \in Tasks /\ Task = queue[1] /\ Task = Head(queue) /\ queue \in Seq(Tasks)
           /\ Len(queue) \in Nat /\ Len(queue) >= 1 /\ queue \in [1..Len(queue) -> Tasks]
           /\ Task.op \in {"add", "size", "remove"} => Task.conn \in Conns
           /\ Task.op = "add" => Task.entry \in Entries
           /\ Task.op = "size" => Task.size \in Sizes
           /\ sub \in Subscriptions /\ shown \in [Conns -> Tabs \cup {None}]
           /\ active \in Tabs \cup {None}
           /\ IsAudience(Watching)
<1>1. queue \in Seq(Tasks)
  BY DEF LiveInv, Bridging
<1>2. /\ Task \in Tasks /\ Task = queue[1] /\ Task = Head(queue)
      /\ Len(queue) \in Nat /\ Len(queue) >= 1 /\ queue \in [1..Len(queue) -> Tasks]
  BY <1>1, QueueIs DEF Task
<1>3. /\ Task.op \in {"add", "size", "remove"} => Task.conn \in Conns
      /\ Task.op = "add" => Task.entry \in Entries
      /\ Task.op = "size" => Task.size \in Sizes
  BY <1>2 DEF Tasks
<1>4. IsAudience(Watching)
  BY DEF LiveInv, Bridging, Watching, IsBridge
<1>5. QED
  BY <1>1, <1>2, <1>3, <1>4 DEF LiveInv, Connected

\* The size is adjusted: the task goes on to stop or to start the screencast.
LEMMA RestartKeeps ==
    ASSUME LiveInv, queue # <<>>, UNCHANGED <<sess, active>>,
           NEW b, IsBridge(b), b.cast = b.casting, DOMAIN b.viewers # {},
           Task.op \in {"add", "remove", "size"},
           NEW pc, Adjusts(pc), Linked(queue, sub, b.viewers, pc),
           Restart(b)
    PROVE  LiveInv'
<1>1. /\ bridge' = [b EXCEPT !.casting = FALSE] /\ UNCHANGED <<queue, conns, shown>>
      /\ run' = [Idle EXCEPT !.pc = IF b.casting THEN "stopping" ELSE "starting"]
  BY DEF Restart
<1>2. /\ run' = [pc |-> run'.pc, tab |-> None, carried |-> <<>>]
      /\ run'.pc = IF b.casting THEN "stopping" ELSE "starting"
  BY <1>1 DEF Idle
<1>3. /\ run'.pc \in {"stopping", "starting"} /\ run'.pc \in Places
      /\ run'.tab = None /\ run'.carried = <<>>
  BY <1>2 DEF Places
<1>4. b \in Bridges({b.viewers}) /\ IsAudience(b.viewers)
  BY DEF IsBridge
<1>5. /\ bridge' \in Bridges({b.viewers}) /\ bridge'.viewers = b.viewers
      /\ bridge'.casting = FALSE /\ bridge'.cast = b.cast
  BY <1>1, <1>4 DEF Bridges
<1>6. IsBridge(bridge')
  BY <1>4, <1>5 DEF IsBridge
<1>7. bridge' # None
  BY <1>6, BridgeIs
<1>8. b.casting \in BOOLEAN /\ (run'.pc = "starting" => ~bridge'.cast)
  BY <1>2, <1>5, BridgeIs
<1>9. Bridging(queue', run', bridge')
  <2>1. queue' = queue /\ queue \in Seq(Tasks) /\ Task = Head(queue)
    BY <1>1, AtWork
  <2>2. IsAudience(run'.carried)
    BY <1>3, AudienceOf
  <2>3. run' \in [pc : Places, tab : Tabs \cup {None}, carried : {run'.carried}]
    BY <1>2, <1>3
  <2>4. QED
    BY <1>3, <1>5, <1>6, <1>7, <1>8, <2>1, <2>2, <2>3 DEF Bridging
<1>10. Linked(queue, sub, b.viewers, run'.pc)
  <2>1. Adjusts(run'.pc) /\ run'.pc # "idle" /\ pc # "idle"
    BY <1>3 DEF Adjusts
  <2>2. QED
    BY <2>1, AtWork, LinkedOn, BridgeIs
<1>11. QED
  <2>1. /\ Waiting(queue', busy) /\ shown' \in [Conns -> Tabs \cup {None}]
        /\ Owned(queue', run'.pc, bridge')
    BY <1>1, <1>7 DEF LiveInv, Connected, Owned
  <2>2. UNCHANGED <<sess, active, conns>> /\ queue' = queue
    BY <1>1
  <2>3. QED
    BY <1>5, <1>7, <1>9, <1>10, <2>1, <2>2, GoesOn

\* A task that only adjusts the size.
LEMMA ResizeKeeps ==
    ASSUME LiveInv, queue # <<>>, UNCHANGED <<sess, active>>,
           NEW b, IsBridge(b), b.cast = b.casting, DOMAIN b.viewers # {},
           Task.op \in {"remove", "size"},
           Task.op = "remove" => Task.conn \notin DOMAIN b.viewers,
           NEW pc, Adjusts(pc), Linked(queue, sub, b.viewers, pc),
           Resize(b)
    PROVE  LiveInv'
<1>1. CASE ~Unchanged(b) /\ Restart(b)
  BY <1>1, RestartKeeps
<1>2. CASE Unchanged(b) /\ bridge' = b /\ UNCHANGED shown /\ Finish(TRUE, Tail(queue), sub)
  <2>1. /\ bridge' # None /\ IsBridge(bridge') /\ bridge'.cast = bridge'.casting
        /\ b.viewers = IF bridge' = None THEN <<>> ELSE bridge'.viewers
        /\ IsAudience(b.viewers)
    BY <1>2, BridgeIs
  <2>2. sub \in Subscriptions /\ shown' \in [Conns -> Tabs \cup {None}] /\ Task.op # "add"
    BY <1>2, AtWork
  <2>3. QED
    BY <1>2, <2>1, <2>2, Ends
<1>3. QED
  BY <1>1, <1>2 DEF Resize

----------------------------------------------------------------------------
\* Steps beside the queue.

\* Nothing but the frames of the bridge changes, and who saw them.
LEMMA BridgeTouched ==
    ASSUME LiveInv, bridge # None, bridge' \in Bridges({bridge.viewers}),
           bridge'.cast = bridge.cast, bridge'.casting = bridge.casting,
           UNCHANGED <<sess, active, conns, queue, run>>, shown' \in [Conns -> Tabs \cup {None}]
    PROVE  LiveInv'
<1>1. IsBridge(bridge') /\ bridge'.viewers = bridge.viewers
  BY DEF LiveInv, Bridging, IsBridge, Bridges
<1>2. bridge' # None
  BY <1>1, BridgeIs
<1>3. Bridging(queue', run', bridge')
  BY <1>1, <1>2 DEF LiveInv, Bridging
<1>4. Watching' = Watching
  BY <1>1, <1>2 DEF Watching
<1>5. Connected'
  BY DEF LiveInv, Connected, conns
<1>6. Owned(queue', run'.pc, bridge')
  BY <1>2 DEF Owned
<1>7. QED
  BY <1>3, <1>4, <1>5, <1>6 DEF LiveInv, conns

\* A bridge shows what it streams to current viewers.
LEMMA ShownIs ==
    ASSUME LiveInv, NEW b \in Bridges({bridge.viewers}), Publish(b)
    PROVE  shown' \in [Conns -> Tabs \cup {None}]
<1>1. b.tab \in Tabs
  BY DEF Bridges
<1>2. QED
  BY <1>1 DEF LiveInv, Connected, Publish

\* A frame reaches the viewers.
LEMMA FrameKeeps == ASSUME LiveInv, Frame PROVE LiveInv'
<1>1. bridge # None /\ Publish(bridge) /\ UNCHANGED <<sess, active, conns, queue, run>>
  BY DEF Frame
<1>2. bridge \in Bridges({bridge.viewers})
  BY <1>1 DEF LiveInv, Bridging, IsBridge
<1>3. /\ bridge' \in Bridges({bridge.viewers}) /\ bridge'.cast = bridge.cast
      /\ bridge'.casting = bridge.casting
  BY <1>1, <1>2 DEF Publish, Bridges
<1>4. shown' \in [Conns -> Tabs \cup {None}]
  BY <1>1, <1>2, ShownIs
<1>5. QED
  BY <1>1, <1>3, <1>4, BridgeTouched

\* A captured frame reaches the viewers, or comes too late.
LEMMA CapturedKeeps == ASSUME LiveInv, Captured PROVE LiveInv'
<1> DEFINE b == [bridge EXCEPT !.priming = FALSE, !.raced = FALSE]
<1>1. /\ bridge # None /\ UNCHANGED <<sess, active, conns, queue, run>>
      /\ (bridge' = b /\ UNCHANGED shown) \/ Publish(b)
  BY DEF Captured
<1>2. bridge \in Bridges({bridge.viewers})
  BY <1>1 DEF LiveInv, Bridging, IsBridge
<1>3. b \in Bridges({bridge.viewers}) /\ b.cast = bridge.cast /\ b.casting = bridge.casting
  BY <1>2 DEF Bridges
<1> HIDE DEF b
<1>4. CASE bridge' = b /\ UNCHANGED shown
  <2>1. shown' \in [Conns -> Tabs \cup {None}]
    BY <1>4 DEF LiveInv, Connected
  <2>2. QED
    BY <1>1, <1>3, <1>4, <2>1, BridgeTouched
<1>5. CASE Publish(b)
  <2>1. /\ bridge' \in Bridges({bridge.viewers}) /\ bridge'.cast = b.cast
        /\ bridge'.casting = b.casting
    BY <1>3, <1>5 DEF Publish, Bridges
  <2>2. shown' \in [Conns -> Tabs \cup {None}]
    BY <1>3, <1>5, ShownIs
  <2>3. QED
    BY <1>1, <1>3, <2>1, <2>2, BridgeTouched
<1>6. QED
  BY <1>1, <1>4, <1>5

\* A capture fails.
LEMMA CaptureFailsKeeps == ASSUME LiveInv, CaptureFails PROVE LiveInv'
<1>1. /\ bridge # None /\ UNCHANGED <<sess, active, conns, queue, run, shown>>
      /\ bridge' = [bridge EXCEPT !.priming = FALSE, !.raced = FALSE, !.blind = ~bridge.raced]
  BY DEF CaptureFails
<1>2. bridge \in Bridges({bridge.viewers})
  BY <1>1 DEF LiveInv, Bridging, IsBridge
<1>3. /\ bridge' \in Bridges({bridge.viewers}) /\ bridge'.cast = bridge.cast
      /\ bridge'.casting = bridge.casting
  BY <1>1, <1>2 DEF Bridges
<1>4. shown' \in [Conns -> Tabs \cup {None}]
  BY <1>1 DEF LiveInv, Connected
<1>5. QED
  BY <1>1, <1>3, <1>4, BridgeTouched

\* A task is put behind the others that adds or removes no viewer, and no command waits for it.
LEMMA Queued ==
    ASSUME LiveInv, NEW t \in Tasks, t.op \notin {"add", "remove", "size"},
           queue' = Append(queue, t), UNCHANGED <<conns, run, shown>>,
           sess' \in {"live", "draining", "closed"}, active' \in Tabs \cup {None},
           Bridging(queue, run, bridge'), Watching' = Watching,
           bridge' = None => bridge = None /\ t.op \notin {"follow", "stop"}
    PROVE  LiveInv'
<1> DEFINE n == Len(queue)
<1>1. queue \in Seq(Tasks) /\ Waiting(queue, busy) /\ Linked(queue, sub, Watching, run.pc)
  BY DEF LiveInv, Bridging
<1>2. n \in Nat /\ n + 1 \in Nat /\ n <= n + 1 /\ queue \in [1..n -> Tasks]
  BY <1>1, QueueIs
<1>3. /\ queue' \in Seq(Tasks) /\ queue' # <<>> /\ queue' \in [1..n + 1 -> Tasks]
      /\ \A i \in 1..n : queue'[i] = queue[i]
      /\ queue'[n + 1] = t
      /\ queue # <<>> => Head(queue') = Head(queue)
  BY <1>1, Appended
<1>4. run.pc # "idle" => n >= 1
  <2>1. run.pc # "idle" => queue # <<>>
    BY DEF LiveInv, Bridging
  <2>2. QED
    BY <1>1, <1>2, <2>1, QueueIs
<1>5. sub \in Subscriptions /\ IsAudience(Watching)
  BY DEF LiveInv, Connected, Watching, Bridging, IsBridge
<1> HIDE DEF n
<1>6. Linked(queue', sub, Watching, run.pc)
  <2>1. \A i \in 1..n + 1 : i > n => queue'[i].op \notin {"add", "remove"}
    BY <1>2, <1>3
  <2>2. QED
    BY <1>1, <1>2, <1>3, <1>4, <1>5, <2>1, LinkedBehind
<1>7. Waiting(queue', busy)
  <2>1. ~Awaited(queue'[n + 1])
    BY <1>3 DEF Awaited
  <2>2. QED
    BY <1>1, <1>2, <1>3, <2>1, WaitingBehind
<1>8. Bridging(queue', run, bridge')
  BY <1>3, BridgingFront
<1>9. Connected' /\ busy' = busy /\ sub' = sub /\ run' = run
  BY DEF LiveInv, Connected, conns
<1>10. Owned(queue', run.pc, bridge')
  <2>1. Owned(queue, run.pc, bridge)
    BY DEF LiveInv
  <2>2. QED
    BY <1>2, <1>3, <2>1, OwnedBehind
<1>11. QED
  BY <1>6, <1>7, <1>8, <1>9, <1>10 DEF LiveInv

\* An input asks for a bridge.
LEMMA InputKeeps == ASSUME LiveInv, Input PROVE LiveInv'
<1>1. /\ queue' = Append(queue, [op |-> "input"]) /\ UNCHANGED <<sess, active, conns, run, shown>>
      /\ bridge' = bridge
  BY DEF Input
<1>2. [op |-> "input"] \in Tasks /\ [op |-> "input"].op \notin {"add", "remove", "size"}
  BY DEF Tasks
<1>3. /\ Bridging(queue, run, bridge') /\ Watching' = Watching
      /\ sess' \in {"live", "draining", "closed"} /\ active' \in Tabs \cup {None}
  BY <1>1 DEF LiveInv, Connected, Watching
<1>4. QED
  BY <1>1, <1>2, <1>3, Queued

\* The session ends, and so will its bridge.
LEMMA CloseSessionKeeps == ASSUME LiveInv, CloseSession PROVE LiveInv'
<1>1. /\ queue' = Append(queue, [op |-> "closed"]) /\ UNCHANGED <<active, conns, run, shown>>
      /\ bridge' = bridge /\ sess' = "closed"
  BY DEF CloseSession
<1>2. [op |-> "closed"] \in Tasks /\ [op |-> "closed"].op \notin {"add", "remove", "size"}
  BY DEF Tasks
<1>3. /\ Bridging(queue, run, bridge') /\ Watching' = Watching
      /\ sess' \in {"live", "draining", "closed"} /\ active' \in Tabs \cup {None}
  BY <1>1 DEF LiveInv, Connected, Watching
<1>4. QED
  BY <1>1, <1>2, <1>3, Queued

\* The grace period ends: a stop for the bridge that has it is put behind.
LEMMA GraceKeeps == ASSUME LiveInv, Grace PROVE LiveInv'
<1>1. /\ queue' = Append(queue, [op |-> "stop"]) /\ UNCHANGED <<sess, active, conns, run, shown>>
      /\ bridge # None /\ bridge' = [bridge EXCEPT !.timer = FALSE]
  BY DEF Grace
<1>2. [op |-> "stop"] \in Tasks /\ [op |-> "stop"].op \notin {"add", "remove", "size"}
  BY DEF Tasks
<1>3. bridge \in Bridges({bridge.viewers})
  BY <1>1 DEF LiveInv, Bridging, IsBridge
<1>4. /\ bridge' \in Bridges({bridge.viewers}) /\ bridge'.cast = bridge.cast
      /\ bridge'.casting = bridge.casting /\ bridge'.viewers = bridge.viewers
  BY <1>1, <1>3 DEF Bridges
<1>5. IsBridge(bridge')
  BY <1>1, <1>4 DEF LiveInv, Bridging, IsBridge
<1>6. bridge' # None
  BY <1>5, BridgeIs
<1>7. Bridging(queue, run, bridge') /\ Watching' = Watching
  BY <1>1, <1>4, <1>5, <1>6 DEF LiveInv, Bridging, Watching
<1>8. sess' \in {"live", "draining", "closed"} /\ active' \in Tabs \cup {None}
  BY <1>1 DEF LiveInv, Connected
<1>9. QED
  BY <1>1, <1>2, <1>6, <1>7, <1>8, Queued

\* The active tab changes: a follow for the bridge is put behind, if there is one.
LEMMA SwitchTabKeeps == ASSUME LiveInv, SwitchTab PROVE LiveInv'
<1>1. /\ queue' = (IF bridge = None THEN queue ELSE Append(queue, [op |-> "follow"]))
      /\ UNCHANGED <<sess, conns, run, bridge, shown>> /\ active' \in Tabs \cup {None}
  BY DEF SwitchTab
<1>2. [op |-> "follow"] \in Tasks /\ [op |-> "follow"].op \notin {"add", "remove", "size"}
  BY DEF Tasks
<1>3. /\ Bridging(queue, run, bridge') /\ Watching' = Watching
      /\ sess' \in {"live", "draining", "closed"}
  BY <1>1 DEF LiveInv, Connected, Watching
<1>4. CASE bridge # None
  BY <1>1, <1>2, <1>3, <1>4, Queued
<1>5. CASE bridge = None
  <2>1. Connected'
    BY <1>1 DEF LiveInv, Connected, conns
  <2>2. QED
    BY <1>1, <1>3, <1>5, <2>1 DEF LiveInv, conns
<1>6. QED
  BY <1>4, <1>5

\* The session is being closed.
LEMMA DrainKeeps == ASSUME LiveInv, Drain PROVE LiveInv'
<1>1. sess' = "draining" /\ UNCHANGED <<active, conns, queue, run, bridge, shown>>
  BY DEF Drain, view
<1>2. Connected' /\ Watching' = Watching
  BY <1>1 DEF LiveInv, Connected, conns, Watching
<1>3. QED
  BY <1>1, <1>2 DEF LiveInv, conns

\* A command is put behind the others of its connection.
LEMMA ArriveKeeps == ASSUME LiveInv, NEW c \in Conns, Arrive(c) PROVE LiveInv'
<1>1. PICK cmd \in Commands : chain' = [chain EXCEPT ![c] = Append(@, cmd)]
  BY DEF Arrive
<1>2. UNCHANGED <<sess, active, open, sub, busy, queue, run, bridge, shown>>
  BY DEF Arrive, view
<1>3. chain \in [Conns -> Seq(Commands)]
  BY DEF LiveInv, Connected
<1>4. Append(chain[c], cmd) \in Seq(Commands) /\ Append(chain[c], cmd) # <<>>
  <2> DEFINE a == Append(chain[c], cmd)
  <2>1. chain[c] \in Seq(Commands)
    BY <1>3
  <2>2. Len(a) = Len(chain[c]) + 1 /\ a \in Seq(Commands) /\ Len(chain[c]) \in Nat
    BY <2>1, AppendProperties, LenProperties
  <2> HIDE DEF a
  <2>3. a = <<>> => Len(a) = 0
    BY EmptySeq
  <2>4. a # <<>>
    BY <2>2, <2>3
  <2>5. QED
    BY <2>2, <2>4 DEF a
<1>5. Connected'
  <2>1. chain' \in [Conns -> Seq(Commands)]
    BY <1>1, <1>3, <1>4
  <2>2. \A x \in Conns : busy'[x] => chain'[x] # <<>>
    BY <1>1, <1>2, <1>3, <1>4 DEF LiveInv, Connected
  <2>3. QED
    BY <1>2, <2>1, <2>2 DEF LiveInv, Connected
<1>6. Watching' = Watching
  BY <1>2 DEF Watching
<1>7. QED
  BY <1>2, <1>5, <1>6 DEF LiveInv

\* Without one connection's subscription.
LEMMA WithoutOne ==
    ASSUME NEW c \in Conns, sub \in Subscriptions
    PROVE  /\ Without({c}) \in Subscriptions
           /\ Without({c})[c].st = "none" /\ Without({c})[c].ordinal = sub[c].ordinal
           /\ \A x \in Conns : x # c => Without({c})[x] = sub[x]
           /\ sub[c].st = "none" => Without({c}) = sub
  BY DEF Without, Subscriptions

\* What is forgotten when subscriptions leave.
LEMMA HiddenIs ==
    ASSUME LiveInv, NEW C, Hidden(C) PROVE shown' \in [Conns -> Tabs \cup {None}]
  BY DEF LiveInv, Connected, Hidden

\* Task t is put behind the others.
PutBehind(t) == queue' = Append(queue, t)

\* What the queue is like before and after a task t is put behind, and that it has n tasks.
LEMMA Put ==
    ASSUME LiveInv, NEW t \in Tasks, PutBehind(t), NEW n, n = Len(queue)
    PROVE  /\ n \in Nat /\ n + 1 \in Nat /\ n <= n + 1
           /\ queue \in [1..n -> Tasks] /\ queue' \in [1..n + 1 -> Tasks]
           /\ \A i \in 1..n : queue'[i] = queue[i]
           /\ queue'[n + 1] = t
           /\ run.pc # "idle" => n >= 1
           /\ run' = run /\ bridge' = bridge => Bridging(queue', run', bridge')
           /\ bridge' = bridge /\ t.op \notin {"follow", "stop"} =>
                Owned(queue', run.pc, bridge')
           /\ IsAudience(Watching) /\ sub \in Subscriptions
<1>1. queue \in Seq(Tasks) /\ (run.pc # "idle" => queue # <<>>)
  BY DEF LiveInv, Bridging
<1>2. n \in Nat /\ queue \in [1..n -> Tasks] /\ (queue # <<>> => n # 0)
  BY <1>1, QueueIs
<1>3. /\ queue' \in Seq(Tasks) /\ queue' # <<>> /\ queue' \in [1..n + 1 -> Tasks]
      /\ \A i \in 1..n : queue'[i] = queue[i]
      /\ queue'[n + 1] = t
      /\ queue # <<>> => Head(queue') = Head(queue)
  BY <1>1, Appended DEF PutBehind
<1>4. run' = run /\ bridge' = bridge => Bridging(queue', run', bridge')
  BY <1>3, BridgingFront DEF LiveInv
<1>5. sub \in Subscriptions /\ IsAudience(Watching)
  BY DEF LiveInv, Connected, Watching, Bridging, IsBridge
<1>6. bridge' = bridge /\ t.op \notin {"follow", "stop"} => Owned(queue', run.pc, bridge')
  BY <1>2, <1>3, OwnedBehind DEF LiveInv
<1>7. QED
  BY <1>1, <1>2, <1>3, <1>4, <1>5, <1>6

\* A connection whose remove is put behind watches, or does not, as the subscriptions say.
LEMMA LeavesLinked ==
    ASSUME LiveInv, NEW c \in Conns, NEW t \in Tasks, t.op = "remove", t.conn = c,
           PutBehind(t), sub' = Without({c})
    PROVE  Linked(queue', sub', Watching, run.pc)
<1> DEFINE n == Len(queue)
<1>1. /\ n \in Nat /\ queue \in [1..n -> Tasks] /\ queue' \in [1..n + 1 -> Tasks]
      /\ \A i \in 1..n : queue'[i] = queue[i]
      /\ queue'[n + 1] = t
      /\ run.pc # "idle" => n >= 1
      /\ IsAudience(Watching) /\ sub \in Subscriptions
  BY Put
<1> HIDE DEF n
<1>2. /\ sub' \in Subscriptions /\ sub'[c].st = "none" /\ sub'[c].ordinal = sub[c].ordinal
      /\ \A x \in Conns : x # c => sub'[x] = sub[x]
  BY <1>1, WithoutOne
<1>3. LeftBy(n, queue, queue', sub, sub', c)
  BY <1>1, <1>2 DEF Removes, LeftBy
<1>4. /\ n \in Nat /\ queue \in [1..n -> Tasks] /\ queue' \in [1..n + 1 -> Tasks]
      /\ run.pc # "idle" => n >= 1
      /\ IsAudience(Watching) /\ sub \in Subscriptions /\ sub' \in Subscriptions
      /\ Linked(queue, sub, Watching, run.pc)
  BY <1>1, <1>2 DEF LiveInv
<1>5. QED
  BY <1>3, <1>4, LinkedLeft

\* A connection's subscription ends, and its remove is put behind.
LEMMA Leaves ==
    ASSUME LiveInv, NEW c \in Conns, NEW awaited \in BOOLEAN, NEW t,
           t = [op |-> "remove", conn |-> c, awaited |-> awaited],
           PutBehind(t), sub' = Without({c}), Hidden({c}),
           UNCHANGED <<sess, active, chain, run, bridge>>, open' \in [Conns -> BOOLEAN],
           awaited => ~busy[c] /\ chain[c] # <<>> /\ busy' = [busy EXCEPT ![c] = TRUE],
           ~awaited => busy' = busy
    PROVE  LiveInv'
<1> DEFINE n == Len(queue)
<1>1. t \in Tasks /\ (Awaited(t) <=> awaited) /\ t.conn = c /\ t.op = "remove"
  BY DEF Tasks, Awaited
<1>2. /\ n \in Nat /\ n + 1 \in Nat /\ n <= n + 1
      /\ queue \in [1..n -> Tasks] /\ queue' \in [1..n + 1 -> Tasks]
      /\ \A i \in 1..n : queue'[i] = queue[i]
      /\ queue'[n + 1] = t
      /\ run.pc # "idle" => n >= 1
      /\ Bridging(queue', run', bridge') /\ Owned(queue', run.pc, bridge')
      /\ IsAudience(Watching) /\ sub \in Subscriptions
  BY <1>1, Put
<1> HIDE DEF n
<1>3. Linked(queue', sub', Watching, run.pc)
  BY <1>1, LeavesLinked
<1>4. Waiting(queue', busy') /\ busy' \in [Conns -> BOOLEAN]
  <2>1. Waiting(queue, busy) /\ busy \in [Conns -> BOOLEAN]
    BY DEF LiveInv, Connected
  <2>2. busy' \in [Conns -> BOOLEAN] /\ \A x \in Conns : busy[x] => busy'[x]
    BY <2>1
  <2>3. Awaited(queue'[n + 1]) => busy'[queue'[n + 1].conn] /\ ~busy[queue'[n + 1].conn]
    BY <1>1, <1>2, <2>1
  <2>4. QED
    BY <1>2, <2>1, <2>2, <2>3, WaitingBehind
<1>5. Connected'
  <2>1. sub' \in Subscriptions /\ shown' \in [Conns -> Tabs \cup {None}]
    BY <1>2, WithoutOne, HiddenIs
  <2>2. \A x \in Conns : busy'[x] => chain'[x] # <<>>
    BY DEF LiveInv, Connected
  <2>3. QED
    BY <1>4, <2>1, <2>2 DEF LiveInv, Connected
<1>6. Watching' = Watching
  BY DEF Watching
<1>7. QED
  BY <1>2, <1>3, <1>4, <1>5, <1>6 DEF LiveInv

\* A connection closes: its subscription, starting or on, gets a remove.
LEMMA CloseKeeps == ASSUME LiveInv, NEW c \in Conns, Close(c) PROVE LiveInv'
<1>1. /\ sub' = Without({c}) /\ Hidden({c})
      /\ UNCHANGED <<sess, active, chain, busy, run, bridge>>
      /\ queue' = (IF sub[c].st = "none" THEN queue
                   ELSE Append(queue, [op |-> "remove", conn |-> c, awaited |-> FALSE]))
  BY DEF Close
<1>2. open' \in [Conns -> BOOLEAN]
  BY DEF Close, LiveInv, Connected
<1>3. CASE sub[c].st # "none"
  BY <1>1, <1>2, <1>3, Leaves DEF PutBehind
<1>4. CASE sub[c].st = "none"
  <2>1. sub' = sub /\ shown' \in [Conns -> Tabs \cup {None}]
    BY <1>1, <1>4, WithoutOne, HiddenIs DEF LiveInv, Connected
  <2>2. Connected'
    BY <1>1, <1>2, <2>1 DEF LiveInv, Connected
  <2>3. Watching' = Watching
    BY <1>1 DEF Watching
  <2>4. QED
    BY <1>1, <1>4, <2>1, <2>2, <2>3 DEF LiveInv
<1>5. QED
  BY <1>3, <1>4

\* The command of a connection that is not busy gets its task, or is done at once.
LEMMA DispatchKeeps == ASSUME LiveInv, NEW c \in Conns, Dispatch(c) PROVE LiveInv'
<1> DEFINE cmd == Head(chain[c])
           n == Len(queue)
<1>1. /\ chain[c] # <<>> /\ ~busy[c] /\ UNCHANGED <<sess, active, open, run, bridge>>
      /\ chain[c] \in Seq(Commands)
  BY DEF Dispatch, LiveInv, Connected
<1>2. /\ cmd \in Commands /\ cmd.op \in {"start", "stop", "size"}
      /\ cmd.op # "stop" => cmd.size \in Sizes
  <2>1. cmd \in Commands
    BY <1>1, HeadTailProperties
  <2>2. QED
    BY <2>1 DEF Commands
<1>3. /\ open' \in [Conns -> BOOLEAN] /\ Watching' = Watching
      /\ Waiting(queue, busy) /\ busy \in [Conns -> BOOLEAN] /\ sub \in Subscriptions
      /\ shown \in [Conns -> Tabs \cup {None}]
      /\ Linked(queue, sub, Watching, run.pc)
  BY <1>1 DEF LiveInv, Connected, Watching
<1> HIDE DEF cmd, n
<1>4. ASSUME busy' = [busy EXCEPT ![c] = TRUE], chain' = chain, sub' \in Subscriptions,
             shown' \in [Conns -> Tabs \cup {None}]
      PROVE  /\ Connected' /\ \A x \in Conns : busy[x] => busy'[x]
             /\ busy'[c]
  <2>1. busy' \in [Conns -> BOOLEAN] /\ \A x \in Conns : busy'[x] => chain'[x] # <<>>
    BY <1>1, <1>3, <1>4 DEF LiveInv, Connected
  <2>2. QED
    BY <1>1, <1>3, <1>4, <2>1 DEF LiveInv, Connected
<1>5. CASE /\ cmd.op = "start" /\ sub[c].st = "none"
           /\ sub' = [sub EXCEPT ![c] = [st |-> "starting", ordinal |-> @.ordinal + 1]]
           /\ queue' = Append(queue, [op |-> "add", conn |-> c,
                                entry |-> [size |-> cmd.size, ordinal |-> sub'[c].ordinal]])
           /\ busy' = [busy EXCEPT ![c] = TRUE] /\ UNCHANGED <<chain, shown>>
  <2> DEFINE t == [op |-> "add", conn |-> c,
                   entry |-> [size |-> cmd.size, ordinal |-> sub'[c].ordinal]]
  <2>1. /\ sub' \in Subscriptions /\ sub'[c].ordinal \in Nat /\ sub'[c].st = "starting"
        /\ sub'[c].ordinal = sub[c].ordinal + 1 /\ \A x \in Conns : x # c => sub'[x] = sub[x]
        /\ sub[c].st = "none"
    BY <1>3, <1>5 DEF Subscriptions
  <2>2. t \in Tasks /\ Awaited(t) /\ t.op = "add" /\ t.conn = c /\ t.entry.ordinal = sub'[c].ordinal
    BY <1>2, <1>5, <2>1 DEF Tasks, Entries, Awaited
  <2> HIDE DEF t
  <2>3. PutBehind(t)
    BY <1>5 DEF PutBehind, t
  <2>4. /\ n \in Nat /\ n + 1 \in Nat /\ n <= n + 1
        /\ queue \in [1..n -> Tasks] /\ queue' \in [1..n + 1 -> Tasks]
        /\ \A i \in 1..n : queue'[i] = queue[i]
        /\ queue'[n + 1] = t
        /\ run.pc # "idle" => n >= 1
        /\ Bridging(queue', run', bridge') /\ Owned(queue', run.pc, bridge')
        /\ IsAudience(Watching)
    BY <1>1, <2>2, <2>3, Put DEF n
  <2>5. \A i \in 1..n : ~Adds(queue, i, c)
    BY <1>1, <1>3, <2>4 DEF Waiting, Awaited, Adds
  <2>6. Linked(queue', sub', Watching, run.pc)
    <3>1. Adds(queue', n + 1, c) /\ queue'[n + 1].entry.ordinal = sub'[c].ordinal
      BY <2>2, <2>4 DEF Adds
    <3>2. QED
      BY <1>3, <2>1, <2>4, <2>5, <3>1, LinkedSubscribed
  <2>7. Connected' /\ (\A x \in Conns : busy[x] => busy'[x]) /\ busy'[c]
    BY <1>3, <1>4, <1>5, <2>1
  <2>8. Waiting(queue', busy')
    <3>1. Awaited(queue'[n + 1]) => busy'[queue'[n + 1].conn] /\ ~busy[queue'[n + 1].conn]
      BY <1>1, <2>2, <2>4, <2>7
    <3>2. QED
      BY <1>3, <2>4, <2>7, <3>1, WaitingBehind
  <2>9. QED
    BY <1>1, <1>3, <2>4, <2>6, <2>7, <2>8 DEF LiveInv
<1>6. CASE /\ cmd.op = "size" \/ (cmd.op = "start" /\ sub[c].st # "none")
           /\ queue' = Append(queue, [op |-> "size", conn |-> c, size |-> cmd.size])
           /\ busy' = [busy EXCEPT ![c] = TRUE] /\ UNCHANGED <<sub, chain, shown>>
  <2> DEFINE t == [op |-> "size", conn |-> c, size |-> cmd.size]
  <2>1. t \in Tasks /\ t.op = "size" /\ t.conn = c
    BY <1>2, <1>6 DEF Tasks
  <2> HIDE DEF t
  <2>2. PutBehind(t)
    BY <1>6 DEF PutBehind, t
  <2>3. /\ n \in Nat /\ n + 1 \in Nat /\ n <= n + 1
        /\ queue \in [1..n -> Tasks] /\ queue' \in [1..n + 1 -> Tasks]
        /\ \A i \in 1..n : queue'[i] = queue[i]
        /\ queue'[n + 1] = t
        /\ run.pc # "idle" => n >= 1
        /\ Bridging(queue', run', bridge') /\ Owned(queue', run.pc, bridge')
        /\ IsAudience(Watching)
    BY <1>1, <2>1, <2>2, Put DEF n
  <2>4. Linked(queue', sub, Watching, run.pc)
    <3>1. \A i \in 1..n + 1 : i > n => queue'[i].op \notin {"add", "remove"}
      BY <2>1, <2>3
    <3>2. QED
      BY <1>3, <2>3, <3>1, LinkedBehind
  <2>5. Connected' /\ (\A x \in Conns : busy[x] => busy'[x]) /\ busy'[c]
    BY <1>3, <1>4, <1>6
  <2>6. Waiting(queue', busy')
    <3>1. Awaited(queue'[n + 1]) => busy'[queue'[n + 1].conn] /\ ~busy[queue'[n + 1].conn]
      BY <1>1, <2>1, <2>3, <2>5
    <3>2. QED
      BY <1>3, <2>3, <2>5, <3>1, WaitingBehind
  <2>7. QED
    BY <1>1, <1>3, <1>6, <2>3, <2>4, <2>5, <2>6 DEF LiveInv
<1>7. CASE /\ sub' = Without({c}) /\ Hidden({c})
           /\ queue' = Append(queue, [op |-> "remove", conn |-> c, awaited |-> TRUE])
           /\ busy' = [busy EXCEPT ![c] = TRUE] /\ UNCHANGED chain
  BY <1>1, <1>3, <1>7, Leaves DEF PutBehind
<1>8. CASE chain' = [chain EXCEPT ![c] = Tail(@)] /\ UNCHANGED <<sub, queue, busy, shown>>
  <2>1. chain \in [Conns -> Seq(Commands)] /\ \A x \in Conns : busy[x] => chain[x] # <<>>
    BY DEF LiveInv, Connected
  <2>2. Tail(chain[c]) \in Seq(Commands)
    BY <1>1, HeadTailProperties
  <2>3. chain' \in [Conns -> Seq(Commands)] /\ \A x \in Conns : busy'[x] => chain'[x] # <<>>
    BY <1>1, <1>8, <2>1, <2>2
  <2>4. Connected'
    BY <1>1, <1>3, <1>8, <2>3 DEF LiveInv, Connected
  <2>5. QED
    BY <1>1, <1>3, <1>8, <2>4 DEF LiveInv
<1>9. QED
  BY <1>5, <1>6, <1>7, <1>8 DEF Dispatch, cmd

----------------------------------------------------------------------------
\* Steps of the running task.

\* The queue of a bridge that goes keeps its adds and removes.
LEMMA LinkedOrphaned ==
    ASSUME queue \in Seq(Tasks), queue # <<>>, NEW s \in Subscriptions, NEW w, IsAudience(w),
           NEW pc, Linked(queue, s, w, pc)
    PROVE  Linked(Orphaned, s, w, pc)
<1> DEFINE n == Len(queue)
<1>1. n \in Nat /\ n >= 1 /\ n <= n /\ queue \in [1..n -> Tasks] /\ (pc # "idle" => n >= 1)
  BY QueueIs
<1>2. /\ Orphaned \in [1..n -> Tasks]
      /\ \A i \in 1..n :
           \/ Orphaned[i] = queue[i]
           \/ queue[i].op \notin {"add", "remove"} /\ Orphaned[i].op \notin {"add", "remove"}
  BY OrphanedIs
<1>3. \A i \in 1..n : i > n => Orphaned[i].op \notin {"add", "remove"}
  BY <1>1
<1> HIDE DEF n
<1>4. QED
  BY <1>1, <1>2, <1>3, LinkedBehind

\* The current viewers w lose their subscriptions.
LEMMA LostIs ==
    ASSUME sub \in Subscriptions, NEW w, IsAudience(w)
    PROVE  /\ Without(CurrentOf(w)) \in Subscriptions
           /\ Loses(sub, Without(CurrentOf(w)), w)
<1>1. \A c \in Conns : c \in CurrentOf(w) <=> c \in DOMAIN w /\ IsCurrent(sub, c, w[c])
  BY DEF CurrentOf, Current, IsCurrent
<1>2. Without(CurrentOf(w)) \in Subscriptions
  BY DEF Without, Subscriptions
<1>3. \A c \in Conns : Without(CurrentOf(w))[c] =
        IF c \in CurrentOf(w) THEN [sub[c] EXCEPT !.st = "none"] ELSE sub[c]
  BY DEF Without
<1>4. QED
  BY <1>1, <1>2, <1>3 DEF Loses

\* Nobody runs: the viewers are those of the bridge.
LEMMA AtRest ==
    ASSUME LiveInv, queue # <<>>, run = Idle
    PROVE  /\ run.pc = "idle" /\ ~Adjusts("idle") /\ Linked(queue, sub, Watching, "idle")
           /\ Watching = IF bridge = None THEN <<>> ELSE bridge.viewers
           /\ Viewers = DOMAIN Watching /\ IsAudience(Watching)
           /\ bridge # None => IsBridge(bridge) /\ bridge.cast = bridge.casting
<1>1. run.pc = "idle" /\ run.carried = <<>> /\ ~Adjusts("idle")
  BY DEF Idle, Adjusts
<1>2. Watching = IF bridge = None THEN <<>> ELSE bridge.viewers
  BY <1>1 DEF Watching
<1>3. Linked(queue, sub, Watching, "idle")
  BY <1>1 DEF LiveInv
<1>4. bridge # None => IsBridge(bridge) /\ bridge.cast = bridge.casting
  BY <1>1 DEF LiveInv, Bridging
<1>5. Viewers = DOMAIN Watching
  BY <1>2, AudienceOf DEF Viewers
<1>6. IsAudience(Watching)
  BY AtWork
<1>7. QED
  BY <1>1, <1>2, <1>3, <1>4, <1>5, <1>6

\* A task that ends at once and leaves the bridge alone.
LEMMA EndsAtOnce ==
    ASSUME LiveInv, queue # <<>>, run = Idle, UNCHANGED <<sess, active, bridge, shown>>,
           NEW ok \in BOOLEAN, Finish(ok, Tail(queue), sub),
           Task.op = "add" => ~ok, Task.op = "remove" => Task.conn \notin Viewers
    PROVE  LiveInv'
<1>1. /\ ~Adjusts("idle") /\ Linked(queue, sub, Watching, "idle")
      /\ Watching = IF bridge' = None THEN <<>> ELSE bridge'.viewers
      /\ Viewers = DOMAIN Watching /\ IsAudience(Watching)
      /\ bridge' = None \/ (IsBridge(bridge') /\ bridge'.cast = bridge'.casting)
  BY AtRest
<1>2. shown' \in [Conns -> Tabs \cup {None}] /\ sub \in Subscriptions
  BY AtWork
<1>3. /\ Task.op = "add" => /\ sub[Task.conn] = sub[Task.conn]
                            /\ ok => Task.conn \in DOMAIN Watching
                                     /\ Watching[Task.conn] = Task.entry
                            /\ ~ok => ~Adjusts("idle")
      /\ Task.op = "remove" => Task.conn \notin DOMAIN Watching
  BY <1>1
<1>4. QED
  BY <1>1, <1>2, <1>3, Ends

\* The bridge is torn down to follow the tab; its viewers are carried.
LEMMA RetargetKeeps ==
    ASSUME LiveInv, queue # <<>>, run = Idle, bridge # None, UNCHANGED <<sess, active>>,
           Task.op \in {"add", "input", "follow"}, Retarget
    PROVE  LiveInv'
<1>1. /\ bridge' = None /\ queue' = Orphaned /\ UNCHANGED <<conns, shown>>
      /\ run' = [pc |-> "torn", tab |-> None, carried |-> bridge.viewers]
  BY DEF Retarget, Idle
<1>2. /\ run'.pc = "torn" /\ run'.tab = None /\ run'.carried = bridge.viewers
      /\ run' \in [pc : Places, tab : Tabs \cup {None}, carried : {run'.carried}]
  BY <1>1 DEF Places
<1>3. /\ Linked(queue, sub, bridge.viewers, "idle") /\ IsAudience(bridge.viewers)
  BY AtRest
<1>4. /\ queue \in Seq(Tasks) /\ Task = queue[1] /\ Len(queue) \in Nat
      /\ queue \in [1..Len(queue) -> Tasks] /\ sub \in Subscriptions
      /\ shown \in [Conns -> Tabs \cup {None}] /\ Task = Head(queue)
  BY AtWork
<1>5. Linked(queue, sub, bridge.viewers, "torn")
  <2>1. /\ Adjusts("torn") <=> Adjusts("idle")
        /\ queue[1].op # "remove"
    BY <1>4 DEF Adjusts
  <2>2. QED
    BY <1>3, <1>4, <2>1, LinkedOn
<1>6. Linked(Orphaned, sub, bridge.viewers, "torn")
  BY <1>3, <1>4, <1>5, LinkedOrphaned
<1>7. Orphaned \in Seq(Tasks) /\ Orphaned # <<>> /\ Head(Orphaned) = Task
  BY <1>4, OrphanedIs
<1>8. Bridging(queue', run', bridge')
  BY <1>1, <1>2, <1>3, <1>7 DEF Bridging
<1>9. Waiting(queue', busy)
  BY <1>1, <1>4, WaitingOrphaned DEF LiveInv
<1>10. Linked(queue', sub, bridge.viewers, run'.pc)
  BY <1>1, <1>2, <1>6
<1>11. Owned(queue', run'.pc, bridge')
  BY <1>1, <1>2, <1>4, OrphanedIs DEF Owned
<1>12. QED
  BY <1>1, <1>2, <1>4, <1>8, <1>9, <1>10, <1>11, GoesOn

\* An add or an input begins with the bridge there is, another one, or none.
LEMMA BeginEnsureKeeps ==
    ASSUME LiveInv, queue # <<>>, run = Idle, UNCHANGED <<sess, active>>, BeginEnsure
    PROVE  LiveInv'
<1>1. /\ Task.op \in {"add", "input"} /\ Task = Head(queue) /\ Task = queue[1]
      /\ queue \in Seq(Tasks) /\ Len(queue) \in Nat /\ queue \in [1..Len(queue) -> Tasks]
      /\ sub \in Subscriptions /\ shown \in [Conns -> Tabs \cup {None}]
      /\ active \in Tabs \cup {None}
  BY AtWork DEF BeginEnsure
<1>2. /\ ~Adjusts("idle") /\ Linked(queue, sub, Watching, "idle")
      /\ Watching = IF bridge = None THEN <<>> ELSE bridge.viewers
      /\ IsAudience(Watching)
      /\ bridge # None => IsBridge(bridge) /\ bridge.cast = bridge.casting
  BY AtRest
<1>3. CASE Finish(FALSE, Tail(queue), sub) /\ UNCHANGED <<bridge, shown>>
  BY <1>1, <1>3, EndsAtOnce
<1>4. ASSUME NEW pc, pc \in Places, ~Adjusts(pc)
      PROVE  Linked(queue, sub, Watching, pc)
  <2>1. (Adjusts(pc) <=> Adjusts("idle")) /\ queue[1].op # "remove"
    BY <1>1, <1>2, <1>4
  <2>2. QED
    BY <1>1, <1>2, <2>1, LinkedOn
<1>5. CASE bridge = None /\ OpenBridge(<<>>) /\ UNCHANGED <<queue, bridge, conns, shown>>
  <2>1. /\ run' = [pc |-> "opening", tab |-> active, carried |-> <<>>]
        /\ run'.pc = "opening" /\ run'.carried = <<>>
        /\ UNCHANGED <<queue, conns, shown>> /\ bridge' = None
    BY <1>5 DEF OpenBridge
  <2>2. run' \in [pc : Places, tab : Tabs \cup {None}, carried : {run'.carried}]
    BY <1>1, <2>1 DEF Places
  <2>3. Bridging(queue', run', bridge')
    BY <1>1, <2>1, <2>2, AudienceOf DEF Bridging
  <2>4. Linked(queue', sub, <<>>, run'.pc)
    BY <1>2, <1>4, <1>5, <2>1 DEF Adjusts, Places
  <2>5. /\ Waiting(queue', busy) /\ shown' \in [Conns -> Tabs \cup {None}]
        /\ Owned(queue, run.pc, None)
    BY <1>1, <1>5, <2>1 DEF LiveInv
  <2>6. Owned(queue', run'.pc, bridge')
    BY <2>1, <2>5 DEF Owned
  <2>7. QED
    BY <2>1, <2>3, <2>4, <2>5, <2>6, GoesOn
<1>6. CASE /\ bridge # None /\ run' = [Idle EXCEPT !.pc = "ensured"]
           /\ UNCHANGED <<queue, bridge, conns, shown>>
  <2>1. /\ run' = [pc |-> "ensured", tab |-> None, carried |-> <<>>]
        /\ run'.pc = "ensured" /\ run'.carried = <<>>
        /\ UNCHANGED <<queue, conns, shown>> /\ bridge' = bridge /\ bridge # None
    BY <1>6 DEF Idle
  <2>2. run' \in [pc : Places, tab : Tabs \cup {None}, carried : {run'.carried}]
    BY <2>1 DEF Places
  <2>3. Bridging(queue', run', bridge')
    BY <1>1, <1>2, <2>1, <2>2, AudienceOf DEF Bridging
  <2>4. Linked(queue', sub, bridge'.viewers, run'.pc)
    BY <1>2, <1>4, <2>1 DEF Adjusts, Places
  <2>5. /\ Waiting(queue', busy) /\ shown' \in [Conns -> Tabs \cup {None}]
        /\ Owned(queue', run'.pc, bridge')
    BY <1>1, <2>1 DEF LiveInv, Owned
  <2>6. QED
    BY <2>1, <2>3, <2>4, <2>5, GoesOn
<1>7. CASE bridge # None /\ Retarget
  BY <1>1, <1>7, RetargetKeeps
<1>8. QED
  BY <1>3, <1>5, <1>6, <1>7 DEF BeginEnsure

\* A remove drops its viewer; the last one leaves a timer behind.
LEMMA BeginRemoveKeeps ==
    ASSUME LiveInv, queue # <<>>, run = Idle, UNCHANGED <<sess, active>>, BeginRemove
    PROVE  LiveInv'
<1> DEFINE c == Task.conn
           w == Drop(bridge.viewers, c)
           b == [bridge EXCEPT !.viewers = Drop(@, c)]
<1>1. /\ Task.op = "remove" /\ Task = queue[1]
      /\ queue \in Seq(Tasks) /\ Len(queue) \in Nat /\ Len(queue) >= 1
      /\ queue \in [1..Len(queue) -> Tasks]
      /\ sub \in Subscriptions /\ shown \in [Conns -> Tabs \cup {None}]
  BY AtWork DEF BeginRemove
<1>2. /\ ~Adjusts("idle") /\ Linked(queue, sub, Watching, "idle")
      /\ Watching = IF bridge = None THEN <<>> ELSE bridge.viewers
      /\ Viewers = DOMAIN Watching /\ IsAudience(Watching)
      /\ bridge # None => IsBridge(bridge) /\ bridge.cast = bridge.casting
  BY AtRest
<1>3. CASE c \notin Viewers
  <2>1. Finish(TRUE, Tail(queue), sub) /\ UNCHANGED <<bridge, shown>>
    BY <1>3 DEF BeginRemove
  <2>2. QED
    BY <1>1, <1>3, <2>1, EndsAtOnce
<1>4. CASE c \in Viewers
  <2>1. bridge # None
    BY <1>4 DEF Viewers
  <2>2. IsAudience(w) /\ c \notin DOMAIN w
    <3>1. IsAudience(bridge.viewers)
      BY <1>2, <2>1
    <3>2. IsAudience(w) /\ DOMAIN w = DOMAIN bridge.viewers \ {c}
      BY <3>1, AudienceOf
    <3>3. QED
      BY <3>2
  <2>3. bridge \in Bridges({bridge.viewers})
    BY <1>2, <2>1 DEF IsBridge
  <2>4. b \in Bridges({w}) /\ b.viewers = w /\ b.cast = b.casting
    BY <1>2, <2>1, <2>3 DEF Bridges
  <2>5. \A pc : Linked(queue, sub, w, pc)
    BY <1>1, <1>2, <2>1, LinkedDropped
  <2>6. IF b.viewers = <<>>
        THEN /\ bridge' = [b EXCEPT !.timer = TRUE]
             /\ Finish(TRUE, Tail(queue), sub) /\ UNCHANGED shown
        ELSE Resize(b)
    BY <1>4 DEF BeginRemove
  <2> HIDE DEF b, w
  <2>7. CASE b.viewers = <<>>
    <3>1. bridge' = [b EXCEPT !.timer = TRUE] /\ Finish(TRUE, Tail(queue), sub) /\ shown' = shown
      BY <2>6, <2>7
    <3>2. /\ bridge' \in Bridges({w}) /\ bridge'.viewers = w
          /\ bridge'.cast = bridge'.casting
      BY <2>4, <3>1 DEF Bridges
    <3>3. IsBridge(bridge')
      BY <2>2, <3>2 DEF IsBridge
    <3>4. bridge' # None /\ w = IF bridge' = None THEN <<>> ELSE bridge'.viewers
      BY <3>2, <3>3, BridgeIs
    <3>5. Linked(queue, sub, w, "idle") /\ shown' \in [Conns -> Tabs \cup {None}]
      BY <1>1, <2>5, <3>1
    <3>6. Task.op # "add" /\ Task.conn \notin DOMAIN w
      BY <1>1, <2>2
    <3>7. QED
      BY <1>1, <2>2, <3>1, <3>2, <3>3, <3>4, <3>5, <3>6, Ends
  <2>8. CASE b.viewers # <<>>
    <3>1. Resize(b) /\ DOMAIN b.viewers # {}
      BY <2>2, <2>4, <2>6, <2>8, AudienceOf
    <3>2. IsBridge(b) /\ Task.conn \notin DOMAIN b.viewers
      BY <2>2, <2>4 DEF IsBridge
    <3>3. Adjusts("starting") /\ Linked(queue, sub, b.viewers, "starting")
      BY <2>4, <2>5 DEF Adjusts
    <3>4. QED
      BY <1>1, <2>4, <3>1, <3>2, <3>3, ResizeKeeps
  <2>9. QED
    BY <2>7, <2>8
<1>5. QED
  BY <1>3, <1>4

\* A viewer asks for another size.
LEMMA BeginSizeKeeps ==
    ASSUME LiveInv, queue # <<>>, run = Idle, UNCHANGED <<sess, active>>, BeginSize
    PROVE  LiveInv'
<1> DEFINE c == Task.conn
           w == [bridge.viewers EXCEPT ![c].size = Task.size]
           b == [bridge EXCEPT !.viewers[Task.conn].size = Task.size]
<1>1. /\ Task.op = "size" /\ Task = queue[1] /\ Task.size \in Sizes
      /\ queue \in Seq(Tasks) /\ Len(queue) \in Nat /\ Len(queue) >= 1
      /\ queue \in [1..Len(queue) -> Tasks]
      /\ sub \in Subscriptions
  BY AtWork DEF BeginSize
<1>2. /\ ~Adjusts("idle") /\ Linked(queue, sub, Watching, "idle")
      /\ Watching = IF bridge = None THEN <<>> ELSE bridge.viewers
      /\ Viewers = DOMAIN Watching /\ IsAudience(Watching)
      /\ bridge # None => IsBridge(bridge) /\ bridge.cast = bridge.casting
  BY AtRest
<1>3. CASE c \notin Viewers
  <2>1. Finish(FALSE, Tail(queue), sub) /\ UNCHANGED <<bridge, shown>>
    BY <1>3 DEF BeginSize
  <2>2. QED
    BY <1>1, <2>1, EndsAtOnce
<1>4. CASE c \in Viewers
  <2>1. bridge # None /\ c \in DOMAIN bridge.viewers /\ IsAudience(bridge.viewers)
    BY <1>2, <1>4 DEF Viewers
  <2>2. /\ IsAudience(w) /\ DOMAIN w = DOMAIN bridge.viewers
        /\ \A x \in DOMAIN w : w[x].ordinal = bridge.viewers[x].ordinal
    BY <1>1, <2>1 DEF IsAudience, Entries
  <2>3. bridge \in Bridges({bridge.viewers})
    BY <1>2, <2>1 DEF IsBridge
  <2>4. b = [bridge EXCEPT !.viewers = w]
    BY <2>3 DEF Bridges
  <2>5. b \in Bridges({w}) /\ b.viewers = w /\ b.cast = b.casting
    BY <1>2, <2>1, <2>3, <2>4 DEF Bridges
  <2>6. Resize(b)
    BY <1>4 DEF BeginSize
  <2> HIDE DEF b, w
  <2>7. Adjusts("starting") /\ Linked(queue, sub, w, "starting")
    <3>1. queue[1].op \notin {"add", "remove"} /\ Linked(queue, sub, bridge.viewers, "idle")
      BY <1>1, <1>2, <2>1
    <3>2. QED
      BY <1>1, <2>1, <2>2, <3>1, LinkedOn DEF Adjusts
  <2>8. IsBridge(b) /\ DOMAIN b.viewers # {}
    BY <2>1, <2>2, <2>5 DEF IsBridge
  <2>9. QED
    BY <1>1, <2>5, <2>6, <2>7, <2>8, ResizeKeeps
<1>5. QED
  BY <1>3, <1>4

\* The session ended: the bridge goes, and the subscriptions of its viewers.
LEMMA BeginClosedKeeps ==
    ASSUME LiveInv, queue # <<>>, run = Idle, UNCHANGED <<sess, active>>, BeginClosed
    PROVE  LiveInv'
<1> DEFINE gone == CurrentOf(Watching)
<1>1. /\ Task.op = "closed" /\ Task = queue[1] /\ bridge' = None
      /\ queue \in Seq(Tasks) /\ Len(queue) \in Nat /\ queue \in [1..Len(queue) -> Tasks]
      /\ sub \in Subscriptions
  BY AtWork DEF BeginClosed
<1>2. /\ ~Adjusts("idle") /\ Linked(queue, sub, Watching, "idle")
      /\ Watching = IF bridge = None THEN <<>> ELSE bridge.viewers
      /\ IsAudience(Watching)
  BY AtRest
<1>3. (IF bridge = None THEN {} ELSE CurrentOf(bridge.viewers)) = gone
  BY <1>2, AudienceOf DEF CurrentOf
<1> HIDE DEF gone
<1>4. Hidden(gone) /\ Finish(TRUE, Tail(Orphaned), Without(gone))
  BY <1>3 DEF BeginClosed
<1>5. shown' \in [Conns -> Tabs \cup {None}]
  BY <1>4, HiddenIs
<1>6. Without(gone) \in Subscriptions /\ Linked(queue, Without(gone), <<>>, "idle")
  <2>1. /\ Without(gone) \in Subscriptions
        /\ Loses(sub, Without(gone), Watching)
    BY <1>1, <1>2, LostIs DEF gone
  <2>2. PICK nobody : nobody = <<>> /\ DOMAIN nobody = {}
    BY AudienceOf
  <2>3. /\ ~Adjusts("idle") /\ Linked(queue, sub, Watching, "idle") /\ IsAudience(Watching)
        /\ Len(queue) \in Nat /\ queue \in [1..Len(queue) -> Tasks] /\ sub \in Subscriptions
    BY <1>1, <1>2
  <2>4. Linked(queue, Without(gone), nobody, "idle")
    BY <2>1, <2>2, <2>3, LinkedLost
  <2>5. QED
    BY <2>1, <2>2, <2>4
<1>7. Task.op \notin {"add", "remove"} /\ IsAudience(<<>>)
  BY <1>1, AudienceOf
<1>8. QED
  BY <1>1, <1>4, <1>5, <1>6, <1>7, Ends

\* A follow that is not stale finds its bridge and moves it to the active tab.
LEMMA BeginFollowKeeps ==
    ASSUME LiveInv, queue # <<>>, run = Idle, UNCHANGED <<sess, active>>, BeginFollow
    PROVE  LiveInv'
<1>1. /\ Task.op = "follow" /\ Task = queue[1] /\ Len(queue) \in Nat /\ Len(queue) >= 1
      /\ queue \in [1..Len(queue) -> Tasks]
  BY AtWork DEF BeginFollow
<1>2. run.pc = "idle" /\ 1 \in DOMAIN queue
  BY <1>1 DEF Idle
<1>3. bridge # None
  BY <1>1, <1>2 DEF LiveInv, Owned
<1>4. CASE Retarget
  BY <1>1, <1>3, <1>4, RetargetKeeps
<1>5. CASE Finish(TRUE, Tail(queue), sub) /\ UNCHANGED <<bridge, shown>>
  BY <1>1, <1>5, EndsAtOnce
<1>6. QED
  BY <1>4, <1>5 DEF BeginFollow

\* A stop tears down a bridge nobody watches.
LEMMA BeginStopKeeps ==
    ASSUME LiveInv, queue # <<>>, run = Idle, UNCHANGED <<sess, active>>, BeginStop
    PROVE  LiveInv'
<1>1. /\ Task.op = "stop" /\ Task = queue[1] /\ UNCHANGED shown
      /\ queue \in Seq(Tasks) /\ Len(queue) \in Nat /\ queue \in [1..Len(queue) -> Tasks]
      /\ sub \in Subscriptions /\ shown \in [Conns -> Tabs \cup {None}]
  BY AtWork DEF BeginStop
<1>2. /\ ~Adjusts("idle") /\ Linked(queue, sub, Watching, "idle")
      /\ Viewers = DOMAIN Watching /\ IsAudience(Watching)
  BY AtRest
<1>3. CASE UNCHANGED bridge /\ Finish(TRUE, Tail(queue), sub)
  BY <1>1, <1>3, EndsAtOnce
<1>4. CASE Viewers = {} /\ bridge' = None /\ Finish(TRUE, Tail(Orphaned), sub)
  <2>1. Linked(queue, sub, <<>>, "idle") /\ IsAudience(<<>>)
    BY <1>2, <1>4, AudienceOf
  <2>2. Task.op \notin {"add", "remove"}
    BY <1>1
  <2>3. QED
    BY <1>1, <1>4, <2>1, <2>2, Ends
<1>5. QED
  BY <1>3, <1>4 DEF BeginStop

\* A task of a bridge that is gone does nothing.
LEMMA BeginStaleKeeps ==
    ASSUME LiveInv, queue # <<>>, run = Idle, UNCHANGED <<sess, active>>, BeginStale
    PROVE  LiveInv'
  BY EndsAtOnce DEF BeginStale

\* A task that waits for the browser, and what bridge there is for it.
LEMMA Running ==
    ASSUME LiveInv, run.pc # "idle"
    PROVE  /\ queue # <<>> /\ Task = Head(queue) /\ Task = queue[1]
           /\ queue \in Seq(Tasks) /\ Len(queue) \in Nat /\ Len(queue) >= 1
           /\ queue \in [1..Len(queue) -> Tasks]
           /\ sub \in Subscriptions /\ shown \in [Conns -> Tabs \cup {None}]
           /\ active \in Tabs \cup {None} /\ Waiting(queue, busy)
           /\ Linked(queue, sub, Watching, run.pc) /\ IsAudience(Watching)
           /\ run.pc \in {"torn", "opening", "failing"} =>
                bridge = None /\ Watching = run.carried
           /\ run.pc \in {"ensured", "stopping", "starting", "moving"} =>
                IsBridge(bridge) /\ bridge # None /\ Watching = bridge.viewers
<1>1. queue # <<>>
  BY DEF LiveInv, Bridging
<1>2. /\ queue \in Seq(Tasks) /\ Len(queue) \in Nat /\ Len(queue) >= 1
      /\ queue \in [1..Len(queue) -> Tasks] /\ Task = Head(queue) /\ Task = queue[1]
      /\ sub \in Subscriptions /\ shown \in [Conns -> Tabs \cup {None}]
      /\ active \in Tabs \cup {None} /\ IsAudience(Watching)
  BY <1>1, AtWork
<1>3. Waiting(queue, busy) /\ Linked(queue, sub, Watching, run.pc)
  BY DEF LiveInv
<1>4. /\ run.pc \in {"torn", "opening", "failing"} => bridge = None
      /\ run.pc \in {"ensured", "stopping", "starting", "moving"} =>
           bridge # None /\ IsBridge(bridge)
  BY DEF LiveInv, Bridging
<1>5. QED
  BY <1>1, <1>2, <1>3, <1>4 DEF Watching

\* The old bridge is gone: the task ends with nobody to carry, or asks for a new bridge.
LEMMA TornKeeps == ASSUME LiveInv, Torn PROVE LiveInv'
<1>1. run.pc = "torn" /\ UNCHANGED <<sess, active, bridge, shown>>
  BY DEF Torn
<1>2. /\ queue # <<>> /\ Task = Head(queue) /\ Task = queue[1]
      /\ queue \in Seq(Tasks) /\ Len(queue) \in Nat /\ queue \in [1..Len(queue) -> Tasks]
      /\ sub \in Subscriptions /\ shown' \in [Conns -> Tabs \cup {None}]
      /\ active \in Tabs \cup {None} /\ Waiting(queue, busy)
      /\ Linked(queue, sub, run.carried, "torn") /\ IsAudience(run.carried)
      /\ bridge = None /\ bridge' = None
  BY <1>1, Running
<1>3. Task.op \in {"add", "input", "follow"}
  BY <1>1, <1>2 DEF LiveInv, Bridging
<1>4. CASE Task.op = "follow" /\ run.carried = <<>> /\ Finish(TRUE, Tail(queue), sub)
  <2>1. run.carried = IF bridge' = None THEN <<>> ELSE bridge'.viewers
    BY <1>2, <1>4
  <2>2. Task.op \notin {"add", "remove"}
    BY <1>4
  <2>3. QED
    BY <1>1, <1>2, <1>4, <2>1, <2>2, Ends
<1>5. CASE /\ ~(Task.op = "follow" /\ run.carried = <<>>)
           /\ OpenBridge(run.carried) /\ UNCHANGED <<queue, conns>>
  <2>1. /\ run' = [pc |-> "opening", tab |-> active, carried |-> run.carried]
        /\ run'.pc = "opening" /\ run'.carried = run.carried
        /\ UNCHANGED <<queue, conns>>
    BY <1>5 DEF OpenBridge
  <2>2. run' \in [pc : Places, tab : Tabs \cup {None}, carried : {run'.carried}]
    BY <1>2, <2>1 DEF Places
  <2>3. Bridging(queue', run', bridge')
    BY <1>2, <1>3, <1>5, <2>1, <2>2 DEF Bridging
  <2>4. Linked(queue', sub, run.carried, run'.pc)
    <3>1. (Adjusts("opening") <=> Adjusts("torn")) /\ queue[1].op # "remove"
      BY <1>2, <1>3 DEF Adjusts
    <3>2. Linked(queue, sub, run.carried, "opening")
      BY <1>2, <3>1, LinkedOn
    <3>3. QED
      BY <2>1, <3>2
  <2>5. Owned(queue, run.pc, None)
    BY <1>2 DEF LiveInv
  <2>6. Owned(queue', run'.pc, bridge')
    BY <1>2, <2>1, <2>5 DEF Owned
  <2>7. QED
    BY <1>1, <1>2, <2>1, <2>3, <2>4, <2>6, GoesOn
<1>6. QED
  BY <1>4, <1>5 DEF Torn

\* The CDP session is there, and a tab switch nobody could follow puts a task behind.
LEMMA OpenedKeeps == ASSUME LiveInv, Opened PROVE LiveInv'
<1> DEFINE follow == [op |-> "follow"]
           n == Len(queue)
           w == run.carried
<1>1. /\ run.pc = "opening" /\ run.tab # None /\ UNCHANGED <<sess, active, conns, shown>>
      /\ bridge' = NewBridge(run.tab, w)
      /\ queue' = queue \/ queue' = Append(queue, follow)
      /\ run' = [pc |-> IF w = <<>> THEN "ensured" ELSE "moving", tab |-> None, carried |-> <<>>]
  BY DEF Opened, Idle
<1>2. /\ queue # <<>> /\ Task = Head(queue) /\ Task = queue[1]
      /\ queue \in Seq(Tasks) /\ n \in Nat /\ n >= 1 /\ queue \in [1..n -> Tasks]
      /\ sub \in Subscriptions /\ shown' \in [Conns -> Tabs \cup {None}]
      /\ Waiting(queue, busy) /\ Linked(queue, sub, w, "opening") /\ IsAudience(w)
  BY <1>1, Running
<1>3. /\ Task.op \in {"add", "input", "follow"} /\ (Task.op = "follow" => w # <<>>)
      /\ run.tab \in Tabs
  BY <1>1, <1>2 DEF LiveInv, Bridging
<1>4. /\ run'.pc = IF w = <<>> THEN "ensured" ELSE "moving"
      /\ run'.pc \in {"ensured", "moving"} /\ run'.carried = <<>>
      /\ run' \in [pc : Places, tab : Tabs \cup {None}, carried : {run'.carried}]
  BY <1>1 DEF Places
<1>5. /\ bridge' \in Bridges({w}) /\ bridge'.viewers = w /\ ~bridge'.cast
      /\ bridge'.cast = bridge'.casting
  BY <1>1, <1>3 DEF NewBridge, Bridges
<1>6. IsBridge(bridge')
  BY <1>2, <1>5 DEF IsBridge
<1>7. bridge' # None
  BY <1>6, BridgeIs
<1>8. Bridging(queue, run', bridge')
  <2>1. w # <<>> => DOMAIN w # {}
    BY <1>2, AudienceOf
  <2>2. QED
    BY <1>2, <1>3, <1>4, <1>5, <1>6, <1>7, <2>1, AudienceOf DEF Bridging
<1>9. Linked(queue, sub, w, run'.pc)
  <2>1. (Adjusts(run'.pc) <=> Adjusts("opening")) /\ queue[1].op # "remove"
    BY <1>2, <1>3, <1>4 DEF Adjusts
  <2>2. QED
    BY <1>2, <2>1, LinkedOn
<1>10. Owned(queue', run'.pc, bridge')
  BY <1>7 DEF Owned
<1>11. CASE queue' = queue
  BY <1>1, <1>2, <1>5, <1>7, <1>8, <1>9, <1>10, <1>11, GoesOn
<1>12. CASE queue' = Append(queue, follow)
  <2>1. follow \in Tasks /\ follow.op = "follow"
    BY DEF Tasks
  <2> HIDE DEF follow, n
  <2>2. /\ queue' \in Seq(Tasks) /\ queue' # <<>> /\ Head(queue') = Head(queue)
        /\ n + 1 \in Nat /\ n <= n + 1 /\ queue' \in [1..n + 1 -> Tasks]
        /\ \A i \in 1..n : queue'[i] = queue[i]
        /\ queue'[n + 1].op = "follow"
    BY <1>2, <1>12, <2>1, Appended DEF n
  <2>3. Bridging(queue', run', bridge')
    BY <1>8, <2>2, BridgingFront
  <2>4. Linked(queue', sub, w, run'.pc)
    <3>1. \A i \in 1..n + 1 : i > n => queue'[i].op \notin {"add", "remove"}
      BY <1>2, <2>2
    <3>2. QED
      BY <1>2, <1>9, <2>2, <3>1, LinkedBehind
  <2>5. Waiting(queue', busy)
    <3>1. ~Awaited(queue'[n + 1])
      BY <2>2 DEF Awaited
    <3>2. QED
      BY <1>2, <2>2, <3>1, WaitingBehind
  <2>6. QED
    BY <1>1, <1>2, <1>5, <1>7, <1>10, <2>3, <2>4, <2>5, GoesOn
<1>13. QED
  BY <1>1, <1>11, <1>12

\* A task fails when its bridge is gone, and the viewers it carries lose their subscriptions.
LEMMA FailureKeeps ==
    ASSUME LiveInv, run.pc \in {"opening", "failing"}, UNCHANGED <<sess, active, bridge>>,
           shown' \in [Conns -> Tabs \cup {None}],
           Finish(FALSE, Tail(queue), Without(CurrentOf(run.carried)))
    PROVE  LiveInv'
<1> DEFINE subs == Without(CurrentOf(run.carried))
<1>1. /\ queue # <<>> /\ Task = queue[1]
      /\ Len(queue) \in Nat /\ Len(queue) >= 1 /\ queue \in [1..Len(queue) -> Tasks]
      /\ sub \in Subscriptions
      /\ Linked(queue, sub, run.carried, run.pc) /\ IsAudience(run.carried)
      /\ bridge = None /\ ~Adjusts(run.pc) /\ ~Adjusts("idle")
  BY Running DEF Adjusts
<1>2. subs \in Subscriptions /\ Loses(sub, subs, run.carried)
  BY <1>1, LostIs
<1> HIDE DEF subs
<1>3. PICK nobody : nobody = <<>> /\ DOMAIN nobody = {}
  BY AudienceOf
<1>4. /\ Linked(queue, subs, nobody, "idle")
      /\ \A i \in 1..Len(queue), c \in Conns : Adds(queue, i, c) => subs[c] = sub[c]
  BY <1>1, <1>2, <1>3, LinkedLost
<1>5. Task.op = "add" => subs[Task.conn] = sub[Task.conn]
  <2> SUFFICES ASSUME Task.op = "add" PROVE subs[Task.conn] = sub[Task.conn]
    OBVIOUS
  <2>1. Adds(queue, 1, Task.conn) /\ 1 \in 1..Len(queue) /\ Task.conn \in Conns
    BY <1>1, AtWork DEF Adds
  <2>2. QED
    BY <1>4, <2>1
<1>6. IsAudience(nobody) /\ Task.conn \notin DOMAIN nobody
  BY <1>3, AudienceOf
<1>7. Finish(FALSE, Tail(queue), subs)
  BY DEF subs
<1>8. nobody = IF bridge' = None THEN <<>> ELSE bridge'.viewers
  BY <1>1, <1>3
<1>9. QED
  BY <1>1, <1>2, <1>4, <1>5, <1>6, <1>7, <1>8, Ends

\* No CDP session is opened.
LEMMA OpenFailsKeeps == ASSUME LiveInv, OpenFails PROVE LiveInv'
<1>1. /\ run.pc = "opening" /\ UNCHANGED <<sess, active, bridge>>
      /\ Hidden(CurrentOf(run.carried))
      /\ Finish(FALSE, Tail(queue), Without(CurrentOf(run.carried)))
  BY DEF OpenFails
<1>2. shown' \in [Conns -> Tabs \cup {None}]
  BY <1>1, HiddenIs
<1>3. QED
  BY <1>1, <1>2, FailureKeeps

\* A failing task has torn its bridge down.
LEMMA FailedKeeps == ASSUME LiveInv, Failed PROVE LiveInv'
<1>1. /\ run.pc = "failing" /\ UNCHANGED <<sess, active, bridge>>
      /\ Finish(FALSE, Tail(queue), Without(CurrentOf(run.carried)))
  BY DEF Failed
<1>2. shown' \in [Conns -> Tabs \cup {None}]
  BY HiddenIs DEF Failed
<1>3. QED
  BY <1>1, <1>2, FailureKeeps

\* A capture starts, or is under way, and the viewers stay.
LEMMA PrimeIs ==
    ASSUME NEW b, IsBridge(b)
    PROVE  /\ IsBridge(Prime(b)) /\ Prime(b) # None /\ Prime(b).viewers = b.viewers
           /\ Prime(b).cast = b.cast /\ Prime(b).casting = b.casting
<1>1. b \in Bridges({b.viewers}) /\ IsAudience(b.viewers)
  BY DEF IsBridge
<1>2. /\ Prime(b) \in Bridges({b.viewers}) /\ Prime(b).viewers = b.viewers
      /\ Prime(b).cast = b.cast /\ Prime(b).casting = b.casting
  BY <1>1 DEF Prime, Bridges
<1>3. IsBridge(Prime(b))
  BY <1>1, <1>2 DEF IsBridge
<1>4. QED
  BY <1>2, <1>3, BridgeIs

\* The screencast of a bridge somebody watches is on, and a capture starts.
LEMMA CastingIs ==
    ASSUME IsBridge(bridge), DOMAIN bridge.viewers # {}
    PROVE  /\ IsBridge(Prime(Casting)) /\ Prime(Casting) # None
           /\ Prime(Casting).viewers = bridge.viewers
           /\ Prime(Casting).cast = Prime(Casting).casting
<1>1. bridge \in Bridges({bridge.viewers}) /\ IsAudience(bridge.viewers)
  BY DEF IsBridge
<1>2. Largest(bridge) \in Sizes
  BY LargestIs
<1>3. /\ Casting \in Bridges({bridge.viewers}) /\ Casting.viewers = bridge.viewers
      /\ Casting.cast = Casting.casting
  BY <1>1, <1>2 DEF Casting, Bridges
<1>4. IsBridge(Casting)
  BY <1>1, <1>3 DEF IsBridge
<1>5. QED
  BY <1>3, <1>4, PrimeIs

\* The old screencast is off.
LEMMA StoppedKeeps == ASSUME LiveInv, Stopped PROVE LiveInv'
<1>1. /\ run.pc = "stopping" /\ UNCHANGED <<sess, active, queue, conns, shown>>
      /\ bridge' = [bridge EXCEPT !.cast = FALSE] /\ run' = [run EXCEPT !.pc = "starting"]
  BY DEF Stopped
<1>2. /\ queue # <<>> /\ Task = queue[1]
      /\ Len(queue) \in Nat /\ queue \in [1..Len(queue) -> Tasks]
      /\ sub \in Subscriptions /\ shown' \in [Conns -> Tabs \cup {None}]
      /\ Waiting(queue', busy)
      /\ Linked(queue, sub, bridge.viewers, "stopping") /\ IsAudience(bridge.viewers)
      /\ IsBridge(bridge)
  BY <1>1, Running
<1>3. /\ bridge' \in Bridges({bridge.viewers}) /\ bridge'.viewers = bridge.viewers
      /\ ~bridge'.cast
  BY <1>1, <1>2 DEF IsBridge, Bridges
<1>4. IsBridge(bridge')
  BY <1>2, <1>3 DEF IsBridge
<1>5. bridge' # None
  BY <1>4, BridgeIs
<1>6. /\ run' \in [pc : Places, tab : Tabs \cup {None}, carried : {run'.carried}]
      /\ run'.pc = "starting" /\ run'.carried = run.carried
  BY <1>1 DEF LiveInv, Bridging, Places
<1>7. Bridging(queue', run', bridge')
  BY <1>1, <1>3, <1>4, <1>5, <1>6 DEF LiveInv, Bridging
<1>8. Linked(queue', sub, bridge.viewers, run'.pc)
  <2>1. Adjusts("stopping") /\ Adjusts("starting")
    BY DEF Adjusts
  <2>2. Linked(queue, sub, bridge.viewers, "starting")
    BY <1>2, <2>1, LinkedOn
  <2>3. QED
    BY <1>1, <1>6, <2>2
<1>9. Owned(queue', run'.pc, bridge')
  BY <1>5 DEF Owned
<1>10. QED
  BY <1>1, <1>2, <1>3, <1>5, <1>7, <1>8, <1>9, GoesOn

\* The screencast of a task that joined, dropped or resized a viewer is on.
LEMMA StartedKeeps == ASSUME LiveInv, Started PROVE LiveInv'
<1> DEFINE w == bridge.viewers
<1>1. /\ run.pc = "starting" /\ UNCHANGED <<sess, active>> /\ bridge' = Prime(Casting)
      /\ Finish(TRUE, Tail(queue), sub)
  BY DEF Started
<1>2. /\ queue # <<>> /\ Task = queue[1] /\ Task = Head(queue)
      /\ Len(queue) \in Nat /\ Len(queue) >= 1 /\ queue \in [1..Len(queue) -> Tasks]
      /\ sub \in Subscriptions /\ shown \in [Conns -> Tabs \cup {None}]
      /\ Linked(queue, sub, w, "starting") /\ IsAudience(w)
      /\ IsBridge(bridge) /\ bridge # None
  BY <1>1, Running
<1>3. DOMAIN w # {}
  BY <1>1, <1>2 DEF LiveInv, Bridging
<1>4. /\ IsBridge(bridge') /\ bridge' # None /\ bridge'.viewers = w
      /\ bridge'.cast = bridge'.casting
  BY <1>1, <1>2, <1>3, CastingIs
<1>5. shown' \in [Conns -> Tabs \cup {None}]
  <2>1. bridge.tab \in Tabs
    BY <1>2, BridgeIs
  <2>2. QED
    BY <1>2, <2>1 DEF Started
<1>6. /\ Task.op = "add" => Task.conn \in DOMAIN w /\ w[Task.conn] = Task.entry
      /\ Task.op = "remove" => Task.conn \notin DOMAIN w
  BY <1>2 DEF Linked, Watchers, Adjusts
<1>7. w = IF bridge' = None THEN <<>> ELSE bridge'.viewers
  BY <1>4
<1>8. QED
  BY <1>1, <1>2, <1>4, <1>5, <1>6, <1>7, Ends

\* The screencast of a bridge that took over its viewers is on.
LEMMA MovedKeeps == ASSUME LiveInv, Moved PROVE LiveInv'
<1> DEFINE w == bridge.viewers
<1>1. /\ run.pc = "moving" /\ UNCHANGED <<sess, active, shown>> /\ bridge' = Prime(Casting)
  BY DEF Moved
<1>2. /\ queue # <<>> /\ Task = queue[1] /\ Task = Head(queue)
      /\ queue \in Seq(Tasks) /\ Len(queue) \in Nat /\ queue \in [1..Len(queue) -> Tasks]
      /\ sub \in Subscriptions /\ shown' \in [Conns -> Tabs \cup {None}]
      /\ Waiting(queue, busy)
      /\ Linked(queue, sub, w, "moving") /\ IsAudience(w)
      /\ IsBridge(bridge) /\ bridge # None
  BY <1>1, Running
<1>3. DOMAIN w # {} /\ Task.op \in {"add", "input", "follow"}
  BY <1>1, <1>2 DEF LiveInv, Bridging
<1>4. /\ IsBridge(bridge') /\ bridge' # None /\ bridge'.viewers = w
      /\ bridge'.cast = bridge'.casting
  BY <1>1, <1>2, <1>3, CastingIs
<1>5. w = IF bridge' = None THEN <<>> ELSE bridge'.viewers
  BY <1>4
<1>6. CASE Task.op = "follow" /\ Finish(TRUE, Tail(queue), sub)
  <2>1. Task.op \notin {"add", "remove"}
    BY <1>6
  <2>2. QED
    BY <1>1, <1>2, <1>4, <1>5, <1>6, <2>1, Ends
<1>7. CASE /\ Task.op # "follow" /\ run' = [Idle EXCEPT !.pc = "ensured"]
           /\ UNCHANGED <<queue, conns>>
  <2>1. /\ run' = [pc |-> "ensured", tab |-> None, carried |-> <<>>]
        /\ run'.pc = "ensured" /\ run'.carried = <<>> /\ UNCHANGED <<queue, conns>>
    BY <1>7 DEF Idle
  <2>2. run' \in [pc : Places, tab : Tabs \cup {None}, carried : {run'.carried}]
    BY <2>1 DEF Places
  <2>3. Bridging(queue', run', bridge')
    BY <1>2, <1>3, <1>4, <1>7, <2>1, <2>2, AudienceOf DEF Bridging
  <2>4. Linked(queue', sub, w, run'.pc)
    <3>1. (Adjusts("ensured") <=> Adjusts("moving")) /\ queue[1].op # "remove"
      BY <1>2, <1>3 DEF Adjusts
    <3>2. Linked(queue, sub, w, "ensured")
      BY <1>2, <3>1, LinkedOn
    <3>3. QED
      BY <2>1, <3>2
  <2>5. Owned(queue', run'.pc, bridge') /\ Waiting(queue', busy)
    BY <1>2, <1>4, <2>1 DEF Owned
  <2>6. QED
    BY <1>1, <1>2, <1>5, <2>1, <2>3, <2>4, <2>5, GoesOn
<1>8. QED
  BY <1>6, <1>7 DEF Moved

\* A task has its bridge: the viewer of an add joins, an input leaves them all.
LEMMA EnsuredKeeps == ASSUME LiveInv, Ensured PROVE LiveInv'
<1> DEFINE w == bridge.viewers
<1>1. run.pc = "ensured" /\ UNCHANGED <<sess, active>>
  BY DEF Ensured
<1>2. /\ queue # <<>> /\ Task = queue[1] /\ Task = Head(queue)
      /\ Len(queue) \in Nat /\ Len(queue) >= 1 /\ queue \in [1..Len(queue) -> Tasks]
      /\ sub \in Subscriptions /\ shown \in [Conns -> Tabs \cup {None}]
      /\ Waiting(queue, busy) /\ Linked(queue, sub, w, "ensured") /\ IsAudience(w)
      /\ IsBridge(bridge) /\ bridge # None
  BY <1>1, Running
<1>3. bridge \in Bridges({w}) /\ bridge.cast = bridge.casting
  BY <1>1, <1>2 DEF LiveInv, Bridging, IsBridge
<1>4. ASSUME Task.op = "add" PROVE LiveInv'
  <2> DEFINE d == Task.conn
             v == Joined(w, d, Task.entry)
             b == [bridge EXCEPT !.timer = FALSE, !.viewers = Joined(@, d, Task.entry)]
  <2>1. d \in Conns /\ Task.entry \in Entries
    BY <1>2, <1>4, AtWork
  <2>2. IsAudience(v) /\ d \in DOMAIN v /\ v[d] = Task.entry
    <3>1. v[d] = Task.entry
      BY DEF Joined
    <3>2. IsAudience(v) /\ d \in DOMAIN v
      BY <1>2, <2>1, AudienceOf
    <3>3. QED
      BY <3>1, <3>2
  <2>3. b \in Bridges({v}) /\ b.viewers = v /\ b.cast = b.casting
    BY <1>3 DEF Bridges
  <2>4. IsBridge(b)
    BY <2>2, <2>3 DEF IsBridge
  <2>5. Linked(queue, sub, v, "starting") /\ Adjusts("starting")
    <3>1. ~Adjusts("ensured") /\ Adjusts("starting")
      BY DEF Adjusts
    <3>2. \A i \in 1..Len(queue) : Adds(queue, i, queue[1].conn) => i = 1
      BY <1>2, <1>4, WaitingOnce
    <3>3. QED
      BY <1>2, <1>4, <3>1, <3>2, LinkedJoined
  <2>6. \/ Restart(b)
        \/ /\ shown' = IF b.frame /\ Current(d, Task.entry)
                       THEN [shown EXCEPT ![d] = b.tab] ELSE shown
           /\ bridge' = IF b.frame THEN b ELSE Prime(b)
           /\ Finish(TRUE, Tail(queue), sub)
    BY <1>4 DEF Ensured
  <2> HIDE DEF b, v
  <2>7. CASE Restart(b)
    BY <1>1, <1>2, <1>4, <2>2, <2>3, <2>4, <2>5, <2>7, RestartKeeps
  <2>8. CASE /\ shown' = IF b.frame /\ Current(d, Task.entry)
                         THEN [shown EXCEPT ![d] = b.tab] ELSE shown
             /\ bridge' = IF b.frame THEN b ELSE Prime(b)
             /\ Finish(TRUE, Tail(queue), sub)
    <3>1. /\ IsBridge(bridge') /\ bridge' # None /\ bridge'.viewers = v
          /\ bridge'.cast = bridge'.casting
      BY <2>3, <2>4, <2>8, BridgeIs, PrimeIs
    <3>2. shown' \in [Conns -> Tabs \cup {None}]
      <4>1. b.tab \in Tabs
        BY <2>4, BridgeIs
      <4>2. QED
        BY <1>2, <2>8, <4>1
    <3>3. v = IF bridge' = None THEN <<>> ELSE bridge'.viewers
      BY <3>1
    <3>4. Task.op # "remove" /\ Task.conn \in DOMAIN v /\ v[Task.conn] = Task.entry
      BY <1>4, <2>2
    <3>5. QED
      BY <1>1, <1>2, <2>2, <2>5, <2>8, <3>1, <3>2, <3>3, <3>4, Ends
  <2>9. QED
    BY <2>6, <2>7, <2>8
<1>5. ASSUME Task.op = "input" PROVE LiveInv'
  <2>1. /\ bridge' = [bridge EXCEPT !.timer = @ \/ Viewers = {}]
        /\ Finish(TRUE, Tail(queue), sub) /\ UNCHANGED shown
    BY <1>5 DEF Ensured
  <2>2. /\ bridge' \in Bridges({w}) /\ bridge'.viewers = w
        /\ bridge'.cast = bridge'.casting
    BY <1>3, <2>1 DEF Bridges
  <2>3. IsBridge(bridge')
    BY <1>2, <2>2 DEF IsBridge
  <2>4. bridge' # None /\ w = IF bridge' = None THEN <<>> ELSE bridge'.viewers
    BY <2>2, <2>3, BridgeIs
  <2>5. Task.op \notin {"add", "remove"}
    BY <1>5
  <2>6. QED
    BY <1>1, <1>2, <2>1, <2>2, <2>3, <2>4, <2>5, Ends
<1>6. QED
  BY <1>4, <1>5 DEF Ensured

\* A CDP call fails: the bridge goes, and the task carries the viewers that are told.
LEMMA FailsKeeps == ASSUME LiveInv, Fails PROVE LiveInv'
<1> DEFINE w == bridge.viewers
<1>1. /\ run.pc \in {"stopping", "starting", "moving"}
      /\ UNCHANGED <<sess, active, conns, shown>> /\ bridge' = None /\ queue' = Orphaned
      /\ run' = [pc |-> "failing", tab |-> None,
                 carried |-> IF run.pc # "moving" /\ Task.op = "add"
                             THEN Drop(w, Task.conn) ELSE w]
  BY DEF Fails, Idle
<1>2. /\ queue # <<>> /\ Task = queue[1] /\ Task = Head(queue)
      /\ queue \in Seq(Tasks) /\ Len(queue) \in Nat /\ Len(queue) >= 1
      /\ queue \in [1..Len(queue) -> Tasks]
      /\ sub \in Subscriptions /\ shown' \in [Conns -> Tabs \cup {None}]
      /\ Waiting(queue, busy) /\ Linked(queue, sub, w, run.pc) /\ IsAudience(w)
  BY <1>1, Running
<1>3. /\ run'.pc = "failing"
      /\ run'.carried = IF run.pc # "moving" /\ Task.op = "add" THEN Drop(w, Task.conn) ELSE w
      /\ run' \in [pc : Places, tab : Tabs \cup {None}, carried : {run'.carried}]
  BY <1>1 DEF Places
<1>4. IsAudience(run'.carried)
  <2>1. IsAudience(w) /\ IsAudience(Drop(w, Task.conn))
    BY <1>2, AudienceOf
  <2>2. QED
    BY <1>3, <2>1
<1>5. Linked(queue, sub, run'.carried, "failing")
  <2>1. ~Adjusts("failing")
    BY DEF Adjusts
  <2>2. CASE run.pc # "moving" /\ Task.op = "add"
    BY <1>2, <1>3, <2>1, <2>2, LinkedFailing
  <2>3. CASE run.pc = "moving" \/ Task.op # "add"
    <3>1. /\ queue[1].op = "add" => (Adjusts("failing") <=> Adjusts(run.pc))
          /\ run.pc # "idle" /\ run'.carried = w
      BY <1>1, <1>2, <1>3, <2>1, <2>3 DEF Adjusts
    <3>2. /\ Len(queue) \in Nat /\ queue \in [1..Len(queue) -> Tasks] /\ sub \in Subscriptions
          /\ IsAudience(w) /\ Linked(queue, sub, w, run.pc)
      BY <1>2
    <3> HIDE DEF w
    <3>3. Linked(queue, sub, w, "failing")
      BY <3>1, <3>2, LinkedOn
    <3>4. QED
      BY <3>1, <3>3
  <2>4. QED
    BY <2>2, <2>3
<1>6. Linked(queue', sub, run'.carried, run'.pc)
  BY <1>1, <1>2, <1>3, <1>4, <1>5, LinkedOrphaned
<1>7. Orphaned \in Seq(Tasks) /\ Orphaned # <<>>
  BY <1>2, OrphanedIs
<1>8. Bridging(queue', run', bridge')
  BY <1>1, <1>3, <1>4, <1>7 DEF Bridging
<1>9. Waiting(queue', busy)
  BY <1>1, <1>2, WaitingOrphaned
<1>10. Owned(queue', run'.pc, bridge')
  BY <1>1, <1>2, <1>3, OrphanedIs DEF Owned
<1>11. QED
  BY <1>1, <1>2, <1>6, <1>8, <1>9, <1>10, GoesOn

\* A task begins.
LEMMA BeginKeeps == ASSUME LiveInv, Begin PROVE LiveInv'
<1>1. queue # <<>> /\ run = Idle /\ UNCHANGED <<sess, active>>
  BY DEF Begin
<1>2. CASE BeginEnsure
  BY <1>1, <1>2, BeginEnsureKeeps
<1>3. CASE BeginRemove
  BY <1>1, <1>3, BeginRemoveKeeps
<1>4. CASE BeginSize
  BY <1>1, <1>4, BeginSizeKeeps
<1>5. CASE BeginClosed
  BY <1>1, <1>5, BeginClosedKeeps
<1>6. CASE BeginFollow
  BY <1>1, <1>6, BeginFollowKeeps
<1>7. CASE BeginStop
  BY <1>1, <1>7, BeginStopKeeps
<1>8. CASE BeginStale
  BY <1>1, <1>8, BeginStaleKeeps
<1>9. QED
  BY <1>2, <1>3, <1>4, <1>5, <1>6, <1>7, <1>8 DEF Begin

----------------------------------------------------------------------------
\* The theorems.

\* At first nobody watches and no task is queued.
LEMMA InitLive == Init => LiveInv
<1> SUFFICES ASSUME Init PROVE LiveInv
  OBVIOUS
<1>1. /\ sess = "live" /\ active = CHOOSE t \in Tabs : TRUE
      /\ open = [c \in Conns |-> TRUE] /\ busy = [c \in Conns |-> FALSE]
      /\ sub = [c \in Conns |-> [st |-> "none", ordinal |-> 0]]
      /\ chain = [c \in Conns |-> <<>>] /\ shown = [c \in Conns |-> None]
      /\ queue = <<>> /\ run = Idle /\ bridge = None
  BY DEF Init
<1>2. active \in Tabs
  BY <1>1, LiveViewAssumption
<1>3. Connected
  <2>1. sub \in Subscriptions /\ chain \in [Conns -> Seq(Commands)]
    BY <1>1 DEF Subscriptions
  <2>2. QED
    BY <1>1, <1>2, <2>1 DEF Connected
<1>4. queue \in Seq(Tasks) /\ DOMAIN queue = {}
  BY <1>1
<1>5. Bridging(queue, run, bridge)
  BY <1>1, <1>4, BridgingIdle
<1>6. run.pc = "idle" /\ Watching = <<>> /\ DOMAIN Watching = {} /\ ~Adjusts("idle")
  BY <1>1, AudienceOf DEF Watching, Idle, Adjusts
<1>7. Waiting(queue, busy) /\ Owned(queue, run.pc, bridge)
  BY <1>4 DEF Waiting, Owned
<1>8. \A c \in Conns : sub[c].st = "none"
  BY <1>1
<1>9. Pending(queue, sub) /\ Removals(queue, sub)
  BY <1>4 DEF Pending, Removals
<1>10. Watchers(queue, sub, Watching, run.pc)
  BY <1>6 DEF Watchers
<1>11. Attended(queue, sub, Watching)
  BY <1>6, <1>8 DEF Attended
<1>12. QED
  BY <1>3, <1>5, <1>7, <1>9, <1>10, <1>11 DEF LiveInv, Linked

\* Every step keeps the invariant.
LEMMA NextLive == LiveInv /\ [Next]_vars => LiveInv'
<1> SUFFICES ASSUME LiveInv, [Next]_vars PROVE LiveInv'
  OBVIOUS
<1>1. CASE Begin
  BY <1>1, BeginKeeps
<1>2. CASE Torn
  BY <1>2, TornKeeps
<1>3. CASE Opened
  BY <1>3, OpenedKeeps
<1>4. CASE OpenFails
  BY <1>4, OpenFailsKeeps
<1>5. CASE Ensured
  BY <1>5, EnsuredKeeps
<1>6. CASE Stopped
  BY <1>6, StoppedKeeps
<1>7. CASE Started
  BY <1>7, StartedKeeps
<1>8. CASE Moved
  BY <1>8, MovedKeeps
<1>9. CASE Fails
  BY <1>9, FailsKeeps
<1>10. CASE Failed
  BY <1>10, FailedKeeps
<1>11. CASE Grace
  BY <1>11, GraceKeeps
<1>12. CASE Frame
  BY <1>12, FrameKeeps
<1>13. CASE Captured
  BY <1>13, CapturedKeeps
<1>14. CASE CaptureFails
  BY <1>14, CaptureFailsKeeps
<1>15. CASE Input
  BY <1>15, InputKeeps
<1>16. CASE Drain
  BY <1>16, DrainKeeps
<1>17. CASE CloseSession
  BY <1>17, CloseSessionKeeps
<1>18. CASE SwitchTab
  BY <1>18, SwitchTabKeeps
<1>19. CASE \E c \in Conns : Arrive(c) \/ Dispatch(c) \/ Close(c)
  BY <1>19, ArriveKeeps, DispatchKeeps, CloseKeeps
<1>20. CASE UNCHANGED vars
  <2>1. /\ UNCHANGED <<sess, active, open, sub, chain, busy, shown>>
        /\ UNCHANGED <<queue, run, bridge>>
    BY <1>20 DEF vars, conns, view
  <2>2. Connected' /\ Watching' = Watching
    BY <2>1 DEF LiveInv, Connected, Watching
  <2>3. QED
    BY <2>1, <2>2 DEF LiveInv
<1>21. QED
  BY <1>1, <1>2, <1>3, <1>4, <1>5, <1>6, <1>7, <1>8, <1>9, <1>10, <1>11, <1>12, <1>13,
     <1>14, <1>15, <1>16, <1>17, <1>18, <1>19, <1>20 DEF Next, Work

\* The invariant has the types of TypeOK.
LEMMA TypesFollow == LiveInv => TypeOK
<1> SUFFICES ASSUME LiveInv PROVE TypeOK
  OBVIOUS
<1>1. /\ sess \in {"live", "draining", "closed"} /\ active \in Tabs \cup {None}
      /\ open \in [Conns -> BOOLEAN] /\ busy \in [Conns -> BOOLEAN]
      /\ sub \in [Conns -> [st : {"none", "starting", "on"}, ordinal : Nat]]
      /\ \A c \in Conns : chain[c] \in Seq(Commands) /\ (busy[c] => chain[c] # <<>>)
      /\ shown \in [Conns -> Tabs \cup {None}]
  BY DEF LiveInv, Connected, Subscriptions
<1>2. run.pc \in Places /\ (run.pc # "idle" => queue # <<>>)
  BY DEF LiveInv, Bridging
<1>3. /\ run.pc \in {"torn", "opening", "failing"} => bridge = None
      /\ run.pc \in {"ensured", "stopping", "starting", "moving"} => bridge # None
  BY DEF LiveInv, Bridging
<1>4. ASSUME bridge # None
      PROVE  /\ Viewers \subseteq Conns /\ bridge.viewers \in [Viewers -> Entries]
             /\ bridge \in Bridges({bridge.viewers})
             /\ run.carried = <<>>
             /\ run.pc \in {"stopping", "starting", "moving"} => Viewers # {}
             /\ run.pc \in {"starting", "moving"} => ~bridge.cast
             /\ run.pc \notin {"stopping", "starting", "moving"} => bridge.cast = bridge.casting
  <2>1. Viewers = DOMAIN bridge.viewers
    BY <1>4 DEF Viewers
  <2>2. /\ IsAudience(bridge.viewers) /\ bridge \in Bridges({bridge.viewers})
        /\ run.carried = <<>>
        /\ run.pc \in {"stopping", "starting", "moving"} => DOMAIN bridge.viewers # {}
        /\ run.pc \in {"starting", "moving"} => ~bridge.cast
        /\ run.pc \notin {"stopping", "starting", "moving"} => bridge.cast = bridge.casting
    BY <1>4 DEF LiveInv, Bridging, IsBridge
  <2>3. QED
    BY <2>1, <2>2 DEF IsAudience
<1>5. QED
  BY <1>1, <1>2, <1>3, <1>4 DEF TypeOK, Places

\* The invariant says who watches.
LEMMA AudienceFollows == LiveInv => Audience
<1> SUFFICES ASSUME LiveInv, NEW c \in Conns
             PROVE  /\ sub[c].st = "on" => c \in DOMAIN Watching /\ Current(c, Watching[c])
                    /\ c \in DOMAIN Watching =>
                         \/ Current(c, Watching[c])
                         \/ \E i \in DOMAIN queue : queue[i].op = "remove" /\ queue[i].conn = c
  BY DEF Audience
<1>1. Attended(queue, sub, Watching)
  BY DEF LiveInv, Linked
<1>2. QED
  BY <1>1 DEF Attended, IsCurrent, Current, Removes

\* The inductive invariant of the live view.
THEOREM LiveInvariant == Spec => []LiveInv
<1>1. QED
  BY InitLive, NextLive, PTL DEF Spec

\* What each variable holds, which bridge each place of a task has, that the largest size is asked
\* of somebody, and that a screencast is started only when none is active.
THEOREM LiveTypes == Spec => []TypeOK
<1>1. QED
  BY LiveInvariant, TypesFollow, PTL

\* An announced screencast has its viewer, and a viewer without a subscription its removal, for
\* any interleaving of commands, closing connections, tab switches, failures and tasks.
THEOREM AudienceKept == Spec => []Audience
<1>1. QED
  BY LiveInvariant, AudienceFollows, PTL

=============================================================================
