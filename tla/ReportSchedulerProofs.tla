------------------------- MODULE ReportSchedulerProofs -------------------------
(***************************************************************************)
(* Every occurrence of a digest rule is accounted for, and every open      *)
(* alert is named by a cursor, for any number of channels, rules and       *)
(* checks, any period and any failures: ReportScheduler keeps its three    *)
(* invariants.                                                             *)
(*                                                                         *)
(* The folds over watches and the list of a pass's decisions are defined   *)
(* by recursion.  Their induction is over sets: the library's induction    *)
(* theorems take an operator, but that strict inclusion is well-founded    *)
(* is stated without one, and a least counterexample is all that is used.  *)
(***************************************************************************)
EXTENDS ReportScheduler, FiniteSetTheorems, TLAPS

-----------------------------------------------------------------------------
(* Induction *)

\* A set of naturals has a least element ...
LEMMA Least ==
    ASSUME NEW T \in SUBSET Nat, T # {} PROVE \E x \in T : \A y \in T : x <= y
  <1> DEFINE below == {0..x : x \in T}
  <1>1. \A x \in Nat : IsFiniteSet(0..x)
    BY FS_Interval
  <1>2. below \subseteq FiniteSubsetsOf(Nat) /\ below # {}
    <2>1. \A b \in below : b \in SUBSET Nat /\ IsFiniteSet(b)
      BY <1>1
    <2>2. PICK x \in T : TRUE
      OBVIOUS
    <2>3. 0..x \in below
      OBVIOUS
    <2> HIDE DEF below
    <2> QED
      BY <2>1, <2>3 DEF FiniteSubsetsOf
  <1>3. PICK b \in below : \A a \in below : ~(<<a, b>> \in StrictSubsetOrdering(Nat))
    <2> HIDE DEF below
    <2> QED
      BY <1>2, FS_StrictSubsetOrderingWellFounded, WFMin
  <1>4. PICK x \in T : b = 0..x
    OBVIOUS
  <1>5. ASSUME NEW y \in T, y < x PROVE FALSE
    <2>1. 0..y \in below
      OBVIOUS
    <2>2. (0..y) \subseteq (0..x) /\ x \in 0..x /\ x \notin 0..y
      BY <1>5
    <2>3. <<0..y, 0..x>> \in StrictSubsetOrdering(Nat)
      BY <2>2 DEF StrictSubsetOrdering
    <2> QED
      BY <1>3, <1>4, <2>1, <2>3
  <1> QED
    BY <1>5

\* ... and a bounded one a greatest, ...
LEMMA Greatest ==
    ASSUME NEW n \in Nat, NEW T \in SUBSET (0..n), T # {} PROVE \E x \in T : \A y \in T : x >= y
  <1> DEFINE U == {n - x : x \in T}
  <1>1. U # {} /\ \A u \in U : u \in Nat
    <2>1. PICK x \in T : TRUE
      OBVIOUS
    <2>2. n - x \in U
      OBVIOUS
    <2> QED
      BY <2>2
  <1>2. PICK u \in U : \A v \in U : u <= v
    <2>1. U \in SUBSET Nat
      BY <1>1
    <2> HIDE DEF U
    <2> QED
    BY <1>1, <2>1, Least
  <1>3. PICK x \in T : u = n - x
    OBVIOUS
  <1>4. ASSUME NEW y \in T PROVE x >= y
    <2>1. n - y \in U
      OBVIOUS
    <2> QED
    BY <1>2, <1>3, <2>1
  <1> QED
    BY <1>4

\* ... which Max chooses.
LEMMA MaxOf ==
    ASSUME NEW n \in Nat, NEW T \in SUBSET (0..n), T # {}
    PROVE  Max(T) \in T /\ \A y \in T : Max(T) >= y
  BY Greatest DEF Max
\* A natural is its quotient and its remainder.
LEMMA DivMod ==
    ASSUME NEW P \in Nat \ {0}, NEW a \in Nat
    PROVE  a % P \in 0..P-1 /\ a \div P \in Nat /\ a = P * (a \div P) + (a % P)
  <1>1. a % P \in 0..P-1
    OBVIOUS
  <1>2. a \div P \in Nat
    OBVIOUS
  <1>3. a = P * (a \div P) + (a % P)
    OBVIOUS
  <1> QED
    BY <1>1, <1>2, <1>3

\* A positive multiple is at least the divisor.
LEMMA AtLeast ==
    ASSUME NEW P \in Nat \ {0}, NEW x \in Int, x > 0 PROVE P * x >= P
  OBVIOUS

\* Multiples differ by a multiple.
LEMMA Distr ==
    ASSUME NEW P \in Nat \ {0}, NEW x \in Int, NEW y \in Int
    PROVE  P * x - P * y = P * (x - y) /\ P * x \in Int /\ P * y \in Int
  OBVIOUS

\* The next number with the same remainder is a period away.
LEMMA ModNext ==
    ASSUME NEW P \in Nat \ {0}, NEW a \in Nat, NEW b \in Nat, a % P = b % P, a < b
    PROVE  a + P <= b
  <1> DEFINE q == a \div P
             p == b \div P
             r == a % P
             m == P * p
             k == P * q
  <1>1. q \in Nat /\ p \in Nat /\ r \in 0..P-1 /\ a = k + r /\ b = m + r
    BY DivMod
  <1>2. m - k = P * (p - q) /\ m \in Int /\ k \in Int
    BY <1>1, Distr
  <1>3. p - q > 0
    <2>1. CASE p <= q
      <3>1. CASE q = p
        BY <1>1, <3>1
      <3>2. CASE q - p > 0
        <4>1. P * (q - p) >= P
          BY <1>1, <3>2, AtLeast
        <4>2. k - m = P * (q - p)
          BY <1>1, Distr
        <4> HIDE DEF k, m, q, p, r
        <4> QED
          BY <1>1, <1>2, <4>1, <4>2
      <3> QED
        BY <1>1, <2>1, <3>1, <3>2
    <2> QED
      BY <1>1, <2>1
  <1>4. P * (p - q) >= P
    BY <1>1, <1>3, AtLeast
  <1> HIDE DEF k, m, q, p, r
  <1> QED
    BY <1>1, <1>2, <1>4

\* A period does not change the remainder.
LEMMA ModPlus ==
    ASSUME NEW P \in Nat \ {0}, NEW a \in Nat
    PROVE  (a + P) % P = a % P
  <1> DEFINE b == a + P
             q == a \div P
             p == b \div P
             r == a % P
             s == b % P
             m == P * p
             k == P * q
             n == p - q - 1
  <1>1. /\ q \in Nat /\ p \in Nat /\ r \in 0..P-1 /\ s \in 0..P-1
        /\ a = k + r /\ b = m + s /\ b = a + P
    <2>1. q \in Nat /\ r \in 0..P-1 /\ a = k + r
      BY DivMod
    <2>2. b \in Nat
      OBVIOUS
    <2>3. p \in Nat /\ s \in 0..P-1 /\ b = m + s
      <3> HIDE DEF b
      <3> QED
        BY <2>2, DivMod
    <2> QED
      BY <2>1, <2>3
  <1>2. m - k = P * (p - q) /\ m \in Int /\ k \in Int
    BY <1>1, Distr
  <1>3. P * (p - q) - P * 1 = P * n /\ P * 1 = P
    BY <1>1, Distr
  <1>4. P * n = r - s /\ n \in Int
    <2> HIDE DEF k, m, q, p, r, b, s
    <2> QED
      BY <1>1, <1>2, <1>3
  <1>5. CASE n = 0
    BY <1>1, <1>4, <1>5
  <1>6. CASE n > 0
    <2>1. P * n >= P
      BY <1>4, <1>6, AtLeast
    <2> QED
      BY <1>1, <1>4, <2>1
  <1>7. CASE n < 0
    <2>1. P * (0 - n) >= P
      BY <1>4, <1>7, AtLeast
    <2>2. P * 0 - P * n = P * (0 - n) /\ P * 0 = 0
      BY <1>4, Distr
    <2> QED
      BY <1>1, <1>4, <2>1, <2>2
  <1> QED
    BY <1>4, <1>5, <1>6, <1>7
-----------------------------------------------------------------------------
(* Folds and flattened sequences *)

\* What holds of no element, and of a set if it holds without one of them, holds of a finite set.
LEMMA SetInduction ==
    ASSUME NEW S, IsFiniteSet(S), NEW Good, {} \in Good,
           \A s \in SUBSET S : s # {} => \E x \in s : s \ {x} \in Good => s \in Good
    PROVE  SUBSET S \subseteq Good
  <1> DEFINE bad == {s \in SUBSET S : s \notin Good}
  <1>1. SUFFICES ASSUME bad # {} PROVE FALSE
    OBVIOUS
  <1>2. bad \subseteq FiniteSubsetsOf(S)
    BY FS_FiniteSubsetsOfFinite
  <1>3. PICK s \in bad : \A t \in bad : ~(<<t, s>> \in StrictSubsetOrdering(S))
    <2> HIDE DEF bad
    <2> QED
      BY <1>1, <1>2, FS_StrictSubsetOrderingWellFounded, WFMin
  <1>4. PICK x \in s : s \ {x} \in Good => s \in Good
    BY <1>3
  <1>5. s \ {x} \in bad
    BY <1>4
  <1>6. <<s \ {x}, s>> \in StrictSubsetOrdering(S)
    BY <1>4 DEF StrictSubsetOrdering
  <1> QED
    BY <1>3, <1>5, <1>6

\* f folds the subsets of S with the function h.
FoldOf(f, S, base, h) ==
    f = [s \in SUBSET S |-> IF s = {} THEN base
                            ELSE h[<<CHOOSE x \in s : TRUE, f[s \ {CHOOSE x \in s : TRUE}]>>]]

\* A fold with a function over the subsets of a finite set exists.
LEMMA FoldExists ==
    ASSUME NEW S, IsFiniteSet(S), NEW base, NEW h PROVE \E f : FoldOf(f, S, base, h)
  <1> DEFINE one(s) == CHOOSE x \in s : TRUE
             Upto(n) == {s \in SUBSET S : Cardinality(s) <= n}
             Rec(f, n) == f = [s \in Upto(n) |->
                                 IF s = {} THEN base ELSE h[<<one(s), f[s \ {one(s)}]>>]]
             bad == {n \in Nat : ~\E f : Rec(f, n)}
  <1>1. \A s \in SUBSET S : IsFiniteSet(s) /\ Cardinality(s) \in Nat
    BY FS_Subset, FS_CardinalityType
  <1>2. \A s \in SUBSET S : s # {} =>
          /\ one(s) \in s /\ s \ {one(s)} \in SUBSET S
          /\ Cardinality(s \ {one(s)}) = Cardinality(s) - 1
    <2> SUFFICES ASSUME NEW s \in SUBSET S, s # {}
                 PROVE  /\ one(s) \in s /\ s \ {one(s)} \in SUBSET S
                        /\ Cardinality(s \ {one(s)}) = Cardinality(s) - 1
      OBVIOUS
    <2>1. one(s) \in s
      OBVIOUS
    <2> HIDE DEF one
    <2> QED
      BY <1>1, <2>1, FS_RemoveElement
  <1>3. \A s \in SUBSET S : s # {} => Cardinality(s) > 0
    BY <1>1, FS_EmptySet
  <1> HIDE DEF one, Rec
  <1>4. bad = {}
    <2> SUFFICES ASSUME bad # {} PROVE FALSE
      OBVIOUS
    <2>1. PICK n \in bad : \A m \in bad : n <= m
      <3>1. bad \in SUBSET Nat
        OBVIOUS
      <3> HIDE DEF bad
      <3> QED
        BY <3>1, Least
    <2>2. CASE n = 0
      <3> DEFINE f == [s \in Upto(0) |-> base]
      <3>1. \A s \in Upto(0) : s = {}
        BY <1>1, <1>3
      <3>2. Rec(f, 0)
        BY <3>1 DEF Rec
      <3> QED
        BY <2>1, <2>2, <3>2
    <2>3. CASE n > 0
      <3>1. n - 1 \in Nat /\ n - 1 \notin bad
        <4>1. n \in Nat
          BY <2>1
        <4> HIDE DEF bad
        <4> QED
          BY <2>1, <2>3, <4>1
      <3>2. PICK g : Rec(g, n - 1)
        BY <3>1
      <3> DEFINE f == [s \in Upto(n) |->
                         IF s = {} THEN base ELSE h[<<one(s), g[s \ {one(s)}]>>]]
      <3>3. \A s \in Upto(n) : s # {} => s \ {one(s)} \in Upto(n - 1)
        BY <1>1, <1>2, <2>1, <2>3
      <3>4. \A s \in Upto(n - 1) : s \in Upto(n) /\ f[s] = g[s]
        <4>1. \A s \in Upto(n - 1) :
                g[s] = IF s = {} THEN base ELSE h[<<one(s), g[s \ {one(s)}]>>]
          <5> HIDE DEF Upto
          <5> QED
            BY <3>2 DEF Rec
        <4>2. \A s \in Upto(n - 1) : s \in Upto(n)
          BY <1>1, <2>1, <2>3
        <4> HIDE DEF Upto
        <4> QED
          BY <4>1, <4>2
      <3>5. \A s \in Upto(n) : s # {} => g[s \ {one(s)}] = f[s \ {one(s)}]
        BY <3>3, <3>4
      <3>6. Rec(f, n)
        <4> HIDE DEF Upto
        <4> QED
          BY <3>5 DEF Rec
      <3> QED
        BY <2>1, <3>6
    <2> QED
      BY <2>1, <2>2, <2>3
  <1>5. Cardinality(S) \in Nat /\ Upto(Cardinality(S)) = SUBSET S
    BY <1>1, FS_Subset
  <1>6. PICK f : Rec(f, Cardinality(S))
    BY <1>4, <1>5
  <1>7. f = [s \in SUBSET S |-> IF s = {} THEN base ELSE h[<<one(s), f[s \ {one(s)}]>>]]
    <2> HIDE DEF Upto
    <2> QED
      BY <1>5, <1>6 DEF Rec
  <1> QED
    BY <1>7 DEF one, FoldOf

\* A flattened sequence has its elements where the flattened ones have theirs.
LEMMA FlattenType ==
    ASSUME NEW D, NEW ss \in Seq(Seq(D)) PROVE FlattenSeq(ss) \in Seq(D)
  <1> DEFINE Rec(f, n) == f = [i \in 1..n |-> IF i = 1 THEN ss[i] ELSE f[i-1] \o ss[i]]
             Flat == CHOOSE f : Rec(f, Len(ss))
  <1>1. CASE Len(ss) = 0
    BY <1>1 DEF FlattenSeq
  <1>2. CASE Len(ss) # 0
    <2>1. Len(ss) \in Nat /\ \A i \in 1..Len(ss) : ss[i] \in Seq(D)
      OBVIOUS
    <2> HIDE DEF Rec
    <2>2. \A n \in 1..Len(ss) : \E f : Rec(f, n)
      <3> DEFINE bad == {n \in 1..Len(ss) : ~\E f : Rec(f, n)}
      <3> SUFFICES ASSUME bad # {} PROVE FALSE
        OBVIOUS
      <3>1. PICK n \in bad : \A m \in bad : n <= m
        <4>1. bad \in SUBSET Nat
          <5>1. \A i \in 1..Len(ss) : i \in Nat
            BY <2>1
          <5> QED
            BY <5>1
        <4> HIDE DEF bad
        <4> QED
          BY <4>1, Least
      <3>2. CASE n = 1
        <4> DEFINE f == [i \in 1..1 |-> ss[i]]
        <4>1. Rec(f, 1)
          BY DEF Rec
        <4> QED
          BY <3>1, <3>2, <4>1
      <3>3. CASE n # 1
        <4>1. n - 1 \in 1..Len(ss) /\ n - 1 \notin bad /\ n \in Nat
          <5>1. n \in 1..Len(ss)
            BY <3>1
          <5> HIDE DEF bad
          <5> QED
            BY <2>1, <3>1, <3>3, <5>1
        <4>2. PICK g : Rec(g, n - 1)
          BY <4>1
        <4> DEFINE f == [i \in 1..n |-> IF i = 1 THEN ss[i] ELSE g[i-1] \o ss[i]]
        <4>3. \A i \in 1..n-1 : i \in 1..n /\ f[i] = g[i]
          <5>1. \A i \in 1..n-1 : g[i] = IF i = 1 THEN ss[i] ELSE g[i-1] \o ss[i]
            BY <4>2 DEF Rec
          <5>2. \A i \in 1..n-1 : i \in 1..n
            BY <4>1
          <5> QED
            BY <5>1, <5>2
        <4>4. \A i \in 1..n : i # 1 => i - 1 \in 1..n-1
          BY <4>1
        <4>5. Rec(f, n)
          BY <4>3, <4>4 DEF Rec
        <4> QED
          BY <3>1, <4>5
      <3> QED
        BY <3>2, <3>3
    <2>3. Rec(Flat, Len(ss))
      <3>1. \E f : Rec(f, Len(ss))
        BY <1>2, <2>1, <2>2
      <3> QED
        BY <3>1
    <2>4. \A i \in 1..Len(ss) : Flat[i] \in Seq(D)
      <3> DEFINE bad == {i \in 1..Len(ss) : Flat[i] \notin Seq(D)}
      <3> HIDE DEF Flat
      <3> SUFFICES ASSUME bad # {} PROVE FALSE
        OBVIOUS
      <3>1. PICK n \in bad : \A m \in bad : n <= m
        <4>1. bad \in SUBSET Nat
          BY <2>1
        <4> HIDE DEF bad
        <4> QED
          BY <4>1, Least
      <3>2. n = 1 \/ (n - 1 \in 1..Len(ss) /\ n - 1 \notin bad)
        BY <2>1, <3>1
      <3>3. Flat[n] = IF n = 1 THEN ss[n] ELSE Flat[n-1] \o ss[n]
        BY <2>3, <3>1 DEF Rec
      <3>4. Flat[n] \in Seq(D)
        BY <2>1, <3>1, <3>2, <3>3
      <3> QED
        BY <3>1, <3>4
    <2>5. FlattenSeq(ss) = Flat[Len(ss)]
      BY <1>2 DEF FlattenSeq, Rec
    <2> HIDE DEF Flat
    <2> QED
      BY <1>2, <2>1, <2>4, <2>5
  <1> QED
    BY <1>1, <1>2

-----------------------------------------------------------------------------
(* The inductive invariant *)

DigestDecision == [kind : {"digest"}, of : Schedules, rule : Specs]
AnomalyDecision == [kind : {"anomaly"}, of : Channels, rule : Keys]
Decision == DigestDecision \cup AnomalyDecision
Pass == [pc : {"idle", "watch", "decide"}, now : Nat, wanted : SUBSET Keys,
         facts : {None, Failed} \cup [Checks -> {"low", "between", "high"}], todo : Seq(Decision)]
Span == [since : Nat, until : Nat]
Arming == [kind : {"armed"}, spec : Specs, at : Nat]
Report == [kind : {"report"}, spec : Specs, at : Nat, window : Span, skipped : Nat,
           empty : BOOLEAN]
Threads == [spec : Specs, window : Span]
Alert == [owner : Channels \cup Keys, state : {"open", "final", "resolved"},
          link : Nat \cup {None}]
DigestCursor == DigestCursors \cup {None}
AnomalyCursor == AnomalyCursors \cup {None}

\* What the variables are; a pass keeps the time it read.
Shapes ==
    /\ digest \in [Schedules -> DigestCursor] /\ dcache \in [Schedules -> DigestCursor]
    /\ anomaly \in [Channels -> AnomalyCursor] /\ acache \in [Channels -> AnomalyCursor]
    /\ watches \in [Keys -> AnomalyCursor]
    /\ pass \in Pass /\ (pass.pc # "idle" => pass.now = now)
    /\ trail \in [Schedules -> Seq(Arming \cup Report)]
    /\ copies \in Seq(Threads) /\ alerts \in Seq(Alert)

\* A report of a trail handled the occurrences since the entry before it, and its window
\* starts after those of earlier reports.
GoodReport(tr, i) ==
    LET r == tr[i]
        before == tr[i-1]
        handled == {t \in before.at+1..r.at : t % Period = r.spec}
    IN /\ i > 1 /\ before.spec = r.spec
       /\ r.at \in handled /\ Cardinality(handled) = 1 + r.skipped
       /\ r.window.since < r.window.until
       /\ before.kind = "report" /\ r.skipped = 0 => r.window.since = before.window.until
       /\ \A j \in 1..i-1 : tr[j].kind = "report" => tr[j].window.until <= r.window.since

\* A cursor d is where its trail ended, no later than t, and its window the last one.
GoodCursor(tr, d, t) ==
    /\ d = None <=> tr = <<>>
    /\ d # None =>
         /\ d.spec = Last(tr).spec /\ d.last = Last(tr).at /\ Period <= d.last /\ d.last <= t
         /\ d.until # None => d.until <= d.last
         /\ \A i \in 1..Len(tr) : tr[i].kind = "report" =>
              d.until # None /\ tr[i].window.until <= d.until
         /\ Last(tr).kind = "report" =>
              /\ d.until = d.last /\ Last(tr).window.until = d.last
              /\ d.last % Period = d.spec

TrailsOK ==
    \A s \in Schedules :
        /\ \A i \in 1..Len(trail[s]) : trail[s][i].kind = "report" => GoodReport(trail[s], i)
        /\ GoodCursor(trail[s], digest[s], now)

\* A period has one copy, and one if a report of it was not empty.
CopiesOK ==
    /\ \A i, j \in 1..Len(copies) : copies[i] = copies[j] => i = j
    /\ \A s \in Schedules : \A i \in 1..Len(trail[s]) :
         trail[s][i].kind = "report" /\ ~trail[s][i].empty =>
            Contains(copies, Thread(trail[s][i].spec, trail[s][i].window))

OpenOf(list, owner) == {i \in 1..Len(list) : list[i].owner = owner /\ list[i].state = "open"}

NamedIn(list, owner, cursor) ==
    IF cursor = None THEN OpenOf(list, owner) = {}
    ELSE /\ OpenOf(list, owner) = {cursor.alert} \ {None}
         /\ cursor.alert = None <=> cursor.active = {}

\* The watch's alert an alert names is one.
LinksOK(list) ==
    \A i \in 1..Len(list) : list[i].link # None =>
        list[i].link \in 1..Len(list) /\ list[list[i].link].owner \in Keys

\* Cursors name the open alerts of a list, and alerts of channels those of watches.
GoodAlerts(list, an, wa) ==
    /\ \A c \in Channels : NamedIn(list, c, an[c])
    /\ \A k \in Keys : NamedIn(list, k, wa[k])
    /\ LinksOK(list)

AlertsOK == GoodAlerts(alerts, anomaly, watches)

SchedulerInv == TypeOK /\ Shapes /\ TrailsOK /\ CopiesOK /\ AlertsOK

\* The inductive invariant says what the runs check.
LEMMA InvImplies == SchedulerInv => TypeOK /\ OccurrencesAccounted /\ AlertsAreNamed
  <1> SUFFICES ASSUME SchedulerInv PROVE TypeOK /\ OccurrencesAccounted /\ AlertsAreNamed
    OBVIOUS
  <1> USE DEF SchedulerInv
  <1>1. \A s \in Schedules : DOMAIN trail[s] = 1..Len(trail[s]) /\ Len(trail[s]) \in Nat
    BY DEF Shapes
  <1>2. \A s \in Schedules : \A i \in Reports(s) :
          i \in 1..Len(trail[s]) /\ trail[s][i].kind = "report"
    BY <1>1 DEF Reports
  <1>3. ASSUME NEW s \in Schedules
        PROVE  /\ digest[s] # None <=> trail[s] # <<>>
               /\ digest[s] # None =>
                    digest[s].spec = Last(trail[s]).spec /\ digest[s].last = Last(trail[s]).at
    BY DEF TrailsOK, GoodCursor
  <1>4. ASSUME NEW s \in Schedules, NEW i \in Reports(s)
        PROVE  LET r == trail[s][i]
                   before == trail[s][i-1]
                   handled == {t \in before.at+1..r.at : t % Period = r.spec}
               IN /\ before.spec = r.spec
                  /\ r.at \in handled /\ Cardinality(handled) = 1 + r.skipped
                  /\ r.window.since < r.window.until
                  /\ i-1 \in Reports(s) /\ r.skipped = 0 =>
                        r.window.since = before.window.until
                  /\ \A j \in Reports(s) : j < i =>
                        trail[s][j].window.until <= r.window.since
    <2>1. GoodReport(trail[s], i) /\ i \in 1..Len(trail[s]) /\ i \in Nat
      BY <1>1, <1>2 DEF TrailsOK
    <2>2. \A j \in Reports(s) : j < i => j \in 1..i-1 /\ trail[s][j].kind = "report"
      BY <1>1, <1>2, <2>1
    <2>3. i-1 \in Reports(s) => trail[s][i-1].kind = "report"
      BY <1>2
    <2> QED
      BY <2>1, <2>2, <2>3 DEF GoodReport
  <1>5. \A i, j \in DOMAIN copies : copies[i] = copies[j] => i = j
    BY DEF Shapes, CopiesOK
  <1>6. \A s \in Schedules : \A i \in Reports(s) :
          ~trail[s][i].empty => Contains(copies, Thread(trail[s][i].spec, trail[s][i].window))
    BY <1>2 DEF CopiesOK
  <1>7. OccurrencesAccounted
    BY <1>3, <1>4, <1>5, <1>6 DEF OccurrencesAccounted
  <1>8. AlertsAreNamed
    <2>1. DOMAIN alerts = 1..Len(alerts)
      BY DEF Shapes
    <2> QED
      BY <2>1 DEF AlertsOK, GoodAlerts, LinksOK, NamedIn, OpenOf, AlertsAreNamed
  <1> QED
    BY <1>7, <1>8

\* It holds at first: nothing is stored.
LEMMA InitInv == Init => SchedulerInv
  <1> SUFFICES ASSUME Init PROVE SchedulerInv
    OBVIOUS
  <1> USE ReportAssumption DEF Init, Nothing
  <1>1. NoPass \in Pass
    BY DEF NoPass, Pass
  <1>2. Period \in Nat \ {0} /\ InApp \in Schedules
    BY DEF Schedules
  <1>3. TypeOK
    BY <1>1, <1>2 DEF TypeOK, Pass, NoPass, Schedules
  <1>4. Shapes
    BY <1>1, <1>2 DEF Shapes, DigestCursor, AnomalyCursor, Schedules, NoPass
  <1>5. TrailsOK /\ CopiesOK
    BY DEF TrailsOK, GoodCursor, CopiesOK
  <1>6. AlertsOK
    BY DEF AlertsOK, GoodAlerts, LinksOK, NamedIn, OpenOf
  <1> QED
    BY <1>3, <1>4, <1>5, <1>6 DEF SchedulerInv

-----------------------------------------------------------------------------
(* Digests *)

\* What a longer trail says of its old entries.
LEMMA AppendKeeps ==
    ASSUME NEW tr \in Seq(Arming \cup Report), NEW e \in Arming \cup Report,
           NEW i \in 1..Len(tr), GoodReport(tr, i)
    PROVE  GoodReport(Append(tr, e), i)
  <1>1. i \in Nat /\ i > 1
    BY DEF GoodReport
  <1>2. \A j \in 1..i : Append(tr, e)[j] = tr[j]
    BY <1>1
  <1>3. i - 1 \in 1..i /\ i \in 1..i /\ \A j \in 1..i-1 : j \in 1..i
    BY <1>1
  <1> QED
    BY <1>2, <1>3 DEF GoodReport

\* The occurrences after a cursor are naturals up to the pass, and finitely many.
LEMMA OccurrencesType ==
    ASSUME NEW spec \in Specs, NEW from \in Nat, NEW to \in Nat
    PROVE  /\ Occurrences(spec, from, to) \in SUBSET (0..to)
           /\ IsFiniteSet(Occurrences(spec, from, to))
           /\ Cardinality(Occurrences(spec, from, to)) \in Nat
  <1>1. Occurrences(spec, from, to) \in SUBSET (0..to)
    BY DEF Occurrences
  <1>2. IsFiniteSet(0..to)
    BY FS_Interval
  <1> QED
    BY <1>1, <1>2, FS_Subset, FS_CardinalityType

\* A rule that arms ends its trail with the arming.
LEMMA ArmKeeps ==
    ASSUME NEW tr \in Seq(Arming \cup Report), NEW d \in DigestCursor, NEW t \in Nat,
           Period <= t, GoodCursor(tr, d, t),
           \A i \in 1..Len(tr) : tr[i].kind = "report" => GoodReport(tr, i),
           NEW e \in Arming, e.at = t, e.kind = "armed",
           NEW d2 \in DigestCursors, d2.spec = e.spec, d2.last = t,
           d = None => d2.until = None, d # None => d2.until = d.until
    PROVE  /\ Append(tr, e) \in Seq(Arming \cup Report)
           /\ \A i \in 1..Len(Append(tr, e)) :
                Append(tr, e)[i].kind = "report" => GoodReport(Append(tr, e), i)
           /\ GoodCursor(Append(tr, e), d2, t)
  <1> DEFINE tr2 == Append(tr, e)
  <1>1. tr2 \in Seq(Arming \cup Report) /\ Len(tr2) = Len(tr) + 1
        /\ Len(tr) \in Nat /\ tr2[Len(tr2)] = e /\ tr2 # <<>>
        /\ \A i \in 1..Len(tr) : tr2[i] = tr[i]
    OBVIOUS
  <1>2. d # None => d \in DigestCursors
    BY DEF DigestCursor
  <1>3. \A i \in 1..Len(tr2) : tr2[i].kind = "report" => i \in 1..Len(tr)
    BY <1>1
  <1>4. \A i \in 1..Len(tr2) : tr2[i].kind = "report" => GoodReport(tr2, i)
    BY <1>1, <1>3, AppendKeeps
  <1>5. \A i \in 1..Len(tr2) : tr2[i].kind = "report" =>
          d2.until # None /\ tr2[i].window.until <= d2.until
    <2>1. tr = <<>> => Len(tr) = 0
      OBVIOUS
    <2> HIDE DEF tr2
    <2> QED
      BY <1>1, <1>3, <2>1 DEF GoodCursor
  <1> HIDE DEF tr2
  <1>6. GoodCursor(tr2, d2, t)
    <2>1. d2 # None
      BY ReportAssumption
    <2>2. d2.until # None => d2.until <= d2.last
      BY <1>2 DEF GoodCursor, DigestCursors
    <2> QED
      BY <1>1, <1>5, <2>1, <2>2 DEF GoodCursor, Last
  <1> QED
    BY <1>1, <1>4, <1>6 DEF tr2
\* When the newest occurrence is the only one after a reported one, a period lies between them.
LEMMA OnlyOccurrence ==
    ASSUME NEW spec \in Specs, NEW from \in Nat, NEW to \in Nat, from % Period = spec,
           Cardinality(Occurrences(spec, from, to)) = 1,
           NEW at \in Occurrences(spec, from, to)
    PROVE  at = from + Period
  <1> USE ReportAssumption
  <1>1. at \in Nat /\ from < at /\ at <= to /\ at % Period = spec
    BY DEF Occurrences
  <1>2. from + Period <= at
    BY <1>1, ModNext
  <1>3. (from + Period) % Period = spec /\ from + Period \in Nat
    <2>1. Period \in Nat \ {0}
      OBVIOUS
    <2>2. (from + Period) % Period = from % Period
      BY <2>1, ModPlus
    <2> QED
      BY <2>1, <2>2
  <1>4. from + Period \in Occurrences(spec, from, to)
    BY <1>1, <1>2, <1>3 DEF Occurrences
  <1>5. \E x : Occurrences(spec, from, to) = {x}
    <2>1. IsFiniteSet(Occurrences(spec, from, to))
      BY OccurrencesType
    <2> QED
      BY <2>1, FS_Singleton
  <1> QED
    BY <1>4, <1>5

\* The occurrences after a cursor, and the newest of them.
DueOf(d, t) == Occurrences(d.spec, d.last, t)
Newest(d, t) == Max(DueOf(d, t))

\* The window of the newest occurrence starts no earlier than the last one ended, and where
\* it ended if a period lies between.
LEMMA NewestWindow ==
    ASSUME NEW d \in DigestCursors, NEW t \in Nat, Period <= d.last,
           d.until # None => d.until <= d.last, DueOf(d, t) # {}
    PROVE  LET at == Newest(d, t)
               window == Window(at, d.until)
           IN /\ at \in DueOf(d, t) /\ at \in Nat /\ d.last < at /\ at <= t
              /\ window \in Span /\ window.until = at /\ window.since < at
              /\ d.until # None => d.until <= window.since /\ d.until <= at
              /\ d.until # None /\ at = d.until + Period => window.since = d.until
              /\ Cardinality(DueOf(d, t)) \in Nat /\ Cardinality(DueOf(d, t)) - 1 \in Nat
              /\ {x \in d.last+1..at : x % Period = d.spec} = DueOf(d, t)
  <1> DEFINE at == Newest(d, t)
             due == DueOf(d, t)
             window == Window(at, d.until)
             since == at - Period
  <1>1. d.spec \in Specs /\ d.last \in Nat /\ d.until \in Nat \cup {None}
        /\ Period \in Nat /\ Period > 0 /\ None \notin Nat
    BY ReportAssumption DEF DigestCursors
  <1>2. due \in SUBSET (0..t) /\ IsFiniteSet(due) /\ Cardinality(due) \in Nat
    BY <1>1, OccurrencesType DEF DueOf
  <1>3. at \in due /\ \A x \in due : x <= at
    <2>1. Max(due) \in due /\ \A x \in due : Max(due) >= x
      BY <1>2, MaxOf
    <2> QED
      BY <1>2, <2>1 DEF Newest
  <1>4. \A x \in due : x \in d.last+1..t /\ x % Period = d.spec
    BY DEF DueOf, Occurrences
  <1> HIDE DEF at, due
  <1>5. at \in Nat /\ d.last < at /\ at <= t
    BY <1>1, <1>3, <1>4
  <1>6. since \in Nat /\ since < at
    BY <1>1, <1>5
  <1>7. window = [since |-> IF d.until # None /\ d.until > since /\ d.until < at
                            THEN d.until ELSE since, until |-> at]
    BY DEF Window
  <1> HIDE DEF window
  <1>8. window.until = at /\ \/ d.until = None /\ window.since = since
                             \/ /\ d.until # None /\ d.until > since /\ d.until < at
                                /\ window.since = d.until
                             \/ /\ d.until # None /\ ~(d.until > since /\ d.until < at)
                                /\ window.since = since
    BY <1>7
  <1>9. window.since \in Nat /\ window.since < at
    BY <1>1, <1>6, <1>8
  <1>10. window \in Span
    <2>1. window = [since |-> window.since, until |-> at]
      BY <1>7
    <2> QED
      BY <1>5, <1>9, <2>1 DEF Span
  <1>11. d.until # None => d.until <= window.since /\ d.until <= at
    <2> SUFFICES ASSUME d.until # None PROVE d.until <= window.since /\ d.until <= at
      OBVIOUS
    <2>1. d.until \in Nat /\ d.until < at
      BY <1>1, <1>5
    <2> QED
      BY <1>5, <1>6, <1>8, <2>1
  <1>12. d.until # None /\ at = d.until + Period => window.since = d.until
    <2> SUFFICES ASSUME d.until # None, at = d.until + Period PROVE window.since = d.until
      OBVIOUS
    <2>1. d.until \in Nat /\ since = d.until
      BY <1>1
    <2> QED
      BY <1>8, <2>1
  <1>13. Cardinality(due) - 1 \in Nat
    <2>1. Cardinality(due) # 0
      BY <1>2, <1>3, FS_EmptySet
    <2> QED
      BY <1>2, <2>1
  <1>14. {x \in d.last+1..at : x % Period = d.spec} = due
    <2>1. \A x \in due : x \in d.last+1..at
      BY <1>1, <1>3, <1>4, <1>5
    <2>2. \A x \in d.last+1..at : x \in d.last+1..t
      BY <1>1, <1>5
    <2>3. \A x \in d.last+1..t : x % Period = d.spec => x \in due
      BY DEF due, DueOf, Occurrences
    <2> QED
      BY <1>4, <2>1, <2>2, <2>3
  <1> QED
    BY <1>2, <1>3, <1>5, <1>8, <1>9, <1>10, <1>11, <1>12, <1>13, <1>14 DEF at, due, window

\* A rule that reports ends its trail with a good report.
LEMMA ProduceKeeps ==
    ASSUME NEW tr \in Seq(Arming \cup Report), NEW d \in DigestCursors, NEW t \in Nat,
           GoodCursor(tr, d, t), DueOf(d, t) # {},
           \A i \in 1..Len(tr) : tr[i].kind = "report" => GoodReport(tr, i),
           NEW e \in Report, e.spec = d.spec, e.at = Newest(d, t),
           e.window = Window(Newest(d, t), d.until),
           e.skipped = Cardinality(DueOf(d, t)) - 1,
           NEW d2 \in DigestCursors, d2.spec = d.spec, d2.last = e.at, d2.until = e.at
    PROVE  /\ Append(tr, e) \in Seq(Arming \cup Report)
           /\ \A i \in 1..Len(Append(tr, e)) :
                Append(tr, e)[i].kind = "report" => GoodReport(Append(tr, e), i)
           /\ GoodCursor(Append(tr, e), d2, t)
  <1> DEFINE due == DueOf(d, t)
             at == e.at
             since == e.window.since
             tr2 == Append(tr, e)
             n == Len(tr) + 1
  <1>1. d.spec \in Specs /\ d.last \in Nat /\ d.until \in Nat \cup {None}
        /\ d # None /\ d2 # None /\ Period \in Nat /\ None \notin Nat
    BY ReportAssumption DEF DigestCursors
  <1>2. /\ tr # <<>> /\ d.spec = Last(tr).spec /\ d.last = Last(tr).at /\ Period <= d.last
        /\ d.last <= t /\ (d.until # None => d.until <= d.last)
        /\ \A i \in 1..Len(tr) : tr[i].kind = "report" =>
              d.until # None /\ tr[i].window.until <= d.until
        /\ Last(tr).kind = "report" =>
              /\ d.until = d.last /\ Last(tr).window.until = d.last
              /\ d.last % Period = d.spec
    BY <1>1 DEF GoodCursor
  <1>3. /\ at \in due /\ at \in Nat /\ d.last < at /\ at <= t
        /\ e.window \in Span /\ e.window.until = at /\ since < at
        /\ d.until # None => d.until <= since /\ d.until <= at
        /\ d.until # None /\ at = d.until + Period => since = d.until
        /\ Cardinality(due) \in Nat /\ Cardinality(due) - 1 \in Nat
        /\ {x \in d.last+1..at : x % Period = d.spec} = due
    BY <1>2, NewestWindow
  <1>4. tr2 \in Seq(Arming \cup Report) /\ Len(tr2) = n /\ tr2[n] = e /\ tr2 # <<>>
        /\ Len(tr) \in Nat /\ Len(tr) >= 1 /\ tr2[n-1] = Last(tr) /\ n > 1 /\ n \in Nat
        /\ \A i \in 1..Len(tr) : tr2[i] = tr[i]
    <2>1. Len(tr) \in Nat /\ Len(tr) # 0
      BY <1>2
    <2> QED
      BY <2>1 DEF Last
  <1>5. at % Period = d.spec
    BY <1>3 DEF DueOf, Occurrences
  <1> HIDE DEF due, tr2, n
  <1>6. Last(tr).kind = "report" /\ e.skipped = 0 => since = Last(tr).window.until
    <2> SUFFICES ASSUME Last(tr).kind = "report", e.skipped = 0
                 PROVE  since = Last(tr).window.until
      OBVIOUS
    <2>1. d.until = d.last /\ Last(tr).window.until = d.last /\ d.last % Period = d.spec
      BY <1>2
    <2>2. Cardinality(due) = 1
      BY <1>3 DEF due
    <2>3. at = d.last + Period
      BY <1>1, <1>3, <2>1, <2>2, OnlyOccurrence DEF due, DueOf
    <2> QED
      BY <1>1, <1>3, <2>1, <2>3
  <1>7. \A j \in 1..Len(tr) : tr[j].kind = "report" =>
            tr[j].window.until <= since /\ tr[j].window.until <= at
    <2> SUFFICES ASSUME NEW j \in 1..Len(tr), tr[j].kind = "report"
                 PROVE  tr[j].window.until <= since /\ tr[j].window.until <= at
      OBVIOUS
    <2>1. d.until # None /\ tr[j].window.until <= d.until
      BY <1>2
    <2>2. tr[j].window.until \in Nat
      <3>1. tr[j] \in Report
        BY DEF Arming
      <3> QED
        BY <3>1 DEF Report, Span
    <2>3. d.until \in Nat /\ since \in Nat /\ d.until <= since /\ d.until <= at
      <3>1. since \in Nat
        BY <1>3 DEF Span
      <3> QED
        BY <1>1, <1>3, <2>1, <3>1
    <2> HIDE DEF since, at
    <2>4. at \in Nat
      BY <1>3
    <2> QED
      BY <2>1, <2>2, <2>3, <2>4
  <1>8. GoodReport(tr2, n)
    <2>1. {x \in tr2[n-1].at+1..tr2[n].at : x % Period = tr2[n].spec} = due
      BY <1>2, <1>3, <1>4
    <2>2. tr2[n].at \in due /\ Cardinality(due) = 1 + tr2[n].skipped
      BY <1>3, <1>4 DEF due
    <2>3. tr2[n-1].spec = tr2[n].spec /\ tr2[n].window.since < tr2[n].window.until
      BY <1>2, <1>3, <1>4
    <2>4. tr2[n-1].kind = "report" /\ tr2[n].skipped = 0 =>
            tr2[n].window.since = tr2[n-1].window.until
      BY <1>4, <1>6
    <2>5. \A j \in 1..n-1 : tr2[j].kind = "report" =>
            tr2[j].window.until <= tr2[n].window.since
      <3>1. \A j \in 1..n-1 : j \in 1..Len(tr)
        BY <1>4 DEF n
      <3> QED
        BY <1>4, <1>7, <3>1
    <2> QED
      BY <1>4, <2>1, <2>2, <2>3, <2>4, <2>5 DEF GoodReport
  <1>9. \A i \in 1..Len(tr2) : i = n \/ i \in 1..Len(tr)
    BY <1>4 DEF n
  <1>10. \A i \in 1..Len(tr2) : tr2[i].kind = "report" => GoodReport(tr2, i)
    <2> SUFFICES ASSUME NEW i \in 1..Len(tr2), tr2[i].kind = "report" PROVE GoodReport(tr2, i)
      OBVIOUS
    <2>1. CASE i = n
      BY <1>8, <2>1
    <2>2. CASE i \in 1..Len(tr)
      <3>1. GoodReport(tr, i)
        BY <1>4, <2>2
      <3> QED
        BY <2>2, <3>1, AppendKeeps DEF tr2
    <2> QED
      BY <1>9, <2>1, <2>2
  <1>11. GoodCursor(tr2, d2, t)
    <2>1. Last(tr2) = e
      BY <1>4 DEF Last
    <2>2. \A i \in 1..Len(tr2) : tr2[i].kind = "report" => tr2[i].window.until <= at
      <3> SUFFICES ASSUME NEW i \in 1..Len(tr2), tr2[i].kind = "report"
                   PROVE  tr2[i].window.until <= at
        OBVIOUS
      <3>1. CASE i = n
        BY <1>3, <1>4, <3>1
      <3>2. CASE i \in 1..Len(tr)
        BY <1>4, <1>7, <3>2
      <3> QED
        BY <1>9, <3>1, <3>2
    <2>3. at # None /\ Period <= at
      BY <1>1, <1>2, <1>3
    <2> QED
      BY <1>1, <1>3, <1>4, <1>5, <2>1, <2>2, <2>3 DEF GoodCursor
  <1> QED
    BY <1>4, <1>10, <1>11 DEF tr2
-----------------------------------------------------------------------------
(* The process, its schedules and the clock *)

\* What a pass asks of every schedule is a list of decisions.
LEMMA DecisionsType ==
    ASSUME rules \in [Schedules -> Rules] PROVE AllDecisions \in Seq(Decision)
  <1> DEFINE chans == SetToSeq(Channels)
             n == Cardinality(Schedules)
             lists == [i \in 1..n |-> Decisions(Append(chans, InApp)[i])]
  <1> USE ReportAssumption
  <1>1. chans \in [1..Cardinality(Channels) -> Channels] /\ Cardinality(Channels) \in Nat
    <2>1. ExistsBijection(1..Cardinality(Channels), Channels) /\ Cardinality(Channels) \in Nat
      BY FS_CardinalityType
    <2>2. \E f \in [1..Cardinality(Channels) -> Channels] : IsInjective(f)
      BY <2>1 DEF ExistsBijection, Bijection, Injection, IsInjective
    <2> QED
      BY <2>1, <2>2 DEF SetToSeq
  <1>2. n = Cardinality(Channels) + 1
    BY FS_AddElement DEF Schedules
  <1>3. \A i \in 1..n : Append(chans, InApp)[i] \in Schedules
    <2>1. chans \in Seq(Channels) /\ Len(chans) = Cardinality(Channels)
      BY <1>1
    <2> HIDE DEF chans, n
    <2>2. \A i \in 1..Len(chans) : Append(chans, InApp)[i] = chans[i] /\ chans[i] \in Channels
      BY <2>1
    <2>3. Append(chans, InApp)[n] = InApp
      BY <1>2, <2>1
    <2>4. \A i \in 1..n : i = n \/ i \in 1..Len(chans)
      BY <1>1, <1>2, <2>1
    <2> QED
      BY <2>2, <2>3, <2>4 DEF Schedules
  <1>4. \A s \in Schedules : Decisions(s) \in Seq(Decision)
    <2> SUFFICES ASSUME NEW s \in Schedules PROVE Decisions(s) \in Seq(Decision)
      OBVIOUS
    <2>1. rules[s].digest \in Specs \cup {None} /\ rules[s].anomaly \in Keys \cup {None}
      OBVIOUS
    <2>2. rules[s].digest # None =>
            [kind |-> "digest", of |-> s, rule |-> rules[s].digest] \in Decision
      BY <2>1 DEF Decision, DigestDecision
    <2>3. ~(rules[s].anomaly = None \/ s = InApp) =>
            [kind |-> "anomaly", of |-> s, rule |-> rules[s].anomaly] \in Decision
      BY <2>1 DEF Decision, AnomalyDecision, Schedules
    <2> HIDE DEF Decision
    <2> QED
      BY <2>2, <2>3 DEF Decisions
  <1>5. lists \in Seq(Seq(Decision))
    <2>1. \A i \in 1..n : lists[i] \in Seq(Decision)
      BY <1>3, <1>4
    <2>2. n \in Nat
      BY <1>1, <1>2
    <2> HIDE DEF n, Decision
    <2>3. lists \in [1..n -> Seq(Decision)]
      BY <2>1
    <2> HIDE DEF lists
    <2> QED
      BY <2>2, <2>3
  <1>6. FlattenSeq(lists) \in Seq(Decision)
    <2> HIDE DEF lists, Decision
    <2> QED
      BY <1>5, FlattenType
  <1> QED
    BY <1>6 DEF AllDecisions

\* The rest of a pass is a pass.
LEMMA TodoType ==
    ASSUME pass \in Pass, pass.pc # "idle", pass.now = now, now' = now,
           NEW todo \in Seq(Decision), Todo(todo)
    PROVE  /\ pass' \in Pass /\ (pass'.pc # "idle" => pass'.now = now')
           /\ (pass'.pc = "decide" => pass'.todo # <<>>)
  <1>1. NoPass \in Pass /\ NoPass.pc = "idle"
    BY DEF NoPass, Pass
  <1> QED
    BY <1>1 DEF Todo, Pass

\* What is known of digests stays true as the clock goes on.
LEMMA DigestFrame ==
    ASSUME SchedulerInv, UNCHANGED <<digest, trail, copies>>, now' \in Nat, now <= now'
    PROVE  TrailsOK' /\ CopiesOK'
  <1>1. \A s \in Schedules : digest[s] # None => digest[s].last \in Nat
    BY DEF SchedulerInv, Shapes, DigestCursor, DigestCursors
  <1>2. \A s \in Schedules : GoodCursor(trail[s], digest[s], now')
    BY <1>1 DEF SchedulerInv, TrailsOK, GoodCursor, TypeOK
  <1>3. TrailsOK'
    BY <1>2 DEF SchedulerInv, TrailsOK
  <1> QED
    BY <1>3 DEF SchedulerInv, CopiesOK

\* What is known of alerts stays true while nobody checks.
LEMMA AlertFrame ==
    ASSUME SchedulerInv, UNCHANGED <<anomaly, watches, alerts>> PROVE AlertsOK'
  BY DEF SchedulerInv, AlertsOK

\* Steps that store nothing keep the invariant if they keep the types.
LEMMA Frame ==
    ASSUME SchedulerInv, UNCHANGED <<stored, written>>,
           now' \in Nat, now <= now', now' <= MaxTime,
           pass' \in Pass, pass'.pc # "idle" => pass'.now = now',
           pass'.pc = "decide" => pass'.todo # <<>>,
           up' \in BOOLEAN, rules' \in [Schedules -> Rules], saved' \in Rules,
           dcache' \in [Schedules -> DigestCursor], acache' \in [Channels -> AnomalyCursor],
           \A s \in Schedules : dcache'[s] \in {None, digest[s]},
           \A c \in Channels : acache'[c] \in {None, anomaly[c]},
           wcache' \in {None, watches}
    PROVE  SchedulerInv'
  <1>1. UNCHANGED <<digest, trail, copies>> /\ UNCHANGED <<anomaly, watches, alerts>>
    BY DEF stored, written
  <1>2. TrailsOK' /\ CopiesOK' /\ AlertsOK'
    BY <1>1, DigestFrame, AlertFrame
  <1>3. Period <= now'
    BY ReportAssumption DEF SchedulerInv, TypeOK
  <1>4. TypeOK'
    BY <1>1, <1>3 DEF SchedulerInv, TypeOK, Pass
  <1>5. Shapes'
    BY <1>1 DEF SchedulerInv, Shapes
  <1> QED
    BY <1>2, <1>4, <1>5 DEF SchedulerInv

\* The process starts, ends, edits a rule; the clock advances; a pass begins or gathers.
LEMMA ProcessInv ==
    ASSUME SchedulerInv, \/ Start \/ End \/ Advance \/ Tick \/ Gather \/ UNCHANGED vars
                         \/ \E s \in Schedules : Edit(s)
    PROVE  SchedulerInv'
  <1> USE ReportAssumption
  <1>0. now \in Nat /\ now <= MaxTime /\ up \in BOOLEAN
        /\ pass \in Pass /\ (pass.pc # "idle" => pass.now = now)
        /\ (pass.pc = "decide" => pass.todo # <<>>)
        /\ rules \in [Schedules -> Rules] /\ saved \in Rules
        /\ dcache \in [Schedules -> DigestCursor] /\ acache \in [Channels -> AnomalyCursor]
        /\ digest \in [Schedules -> DigestCursor] /\ anomaly \in [Channels -> AnomalyCursor]
        /\ (\A s \in Schedules : dcache[s] \in {None, digest[s]})
        /\ (\A c \in Channels : acache[c] \in {None, anomaly[c]})
        /\ wcache \in {None, watches} /\ InApp \in Schedules /\ Channels \subseteq Schedules
        /\ None \in DigestCursor /\ None \in AnomalyCursor
    BY DEF SchedulerInv, TypeOK, Shapes, Schedules, DigestCursor, AnomalyCursor
  <1>1. NoPass \in Pass /\ NoPass.pc = "idle"
    BY DEF NoPass, Pass
  <1>2. CASE Start
    <2>1. rules' \in [Schedules -> Rules]
      BY <1>0, <1>2 DEF Start
    <2>2. /\ dcache' \in [Schedules -> DigestCursor] /\ acache' \in [Channels -> AnomalyCursor]
          /\ \A s \in Schedules : dcache'[s] \in {None, digest[s]}
          /\ \A c \in Channels : acache'[c] \in {None, anomaly[c]}
          /\ wcache' \in {None, watches}
      BY <1>0, <1>2 DEF Start, cached
    <2> QED
      BY <1>0, <1>2, <2>1, <2>2, Frame DEF Start
  <1>3. CASE End
    <2>1. /\ dcache' \in [Schedules -> DigestCursor] /\ acache' \in [Channels -> AnomalyCursor]
          /\ \A s \in Schedules : dcache'[s] \in {None, digest[s]}
          /\ \A c \in Channels : acache'[c] \in {None, anomaly[c]}
          /\ wcache' \in {None, watches}
      BY <1>0, <1>3 DEF End, Nothing
    <2>2. UNCHANGED <<now, rules, saved, stored, written>> /\ pass' = NoPass /\ up' = FALSE
      BY <1>3 DEF End
    <2>3. pass' \in Pass /\ pass'.pc = "idle"
      BY <1>1, <2>2
    <2>4. rules' \in [Schedules -> Rules] /\ saved' \in Rules
          /\ now' \in Nat /\ now <= now' /\ now' <= MaxTime
      BY <1>0, <2>2
    <2>5. up' \in BOOLEAN
      BY <2>2
    <2> QED
      BY <2>1, <2>2, <2>3, <2>4, <2>5, Frame
  <1>4. CASE Advance
    BY <1>0, <1>4, Frame DEF Advance, cached
  <1>5. CASE Tick
    <2>1. WantedWatches \in SUBSET Keys
      BY <1>0 DEF WantedWatches
    <2>2. pass' \in Pass /\ pass'.pc = "watch" /\ pass'.now = now
      BY <1>0, <1>1, <1>5, <2>1 DEF Tick, NoPass, Pass
    <2> QED
      BY <1>0, <1>5, <2>2, Frame DEF Tick, cached
  <1>6. CASE Gather
    <2>1. \E f \in {Failed} \cup [Checks -> {"low", "between", "high"}] :
             pass' = [pass EXCEPT !.facts = f]
      BY <1>6 DEF Gather
    <2>2. pass' \in Pass /\ pass'.pc = pass.pc /\ pass'.now = pass.now /\ pass'.todo = pass.todo
      BY <1>0, <2>1 DEF Pass
    <2> QED
      BY <1>0, <1>6, <2>2, Frame DEF Gather, cached
  <1>7. ASSUME NEW s \in Schedules, Edit(s) PROVE SchedulerInv'
    <2>1. rules' \in [Schedules -> Rules] /\ saved' \in Rules
      BY <1>0, <1>7 DEF Edit
    <2> QED
      BY <1>0, <1>7, <2>1, Frame DEF Edit, cached
  <1>8. CASE UNCHANGED vars
    BY <1>0, <1>8, Frame DEF vars, cached
  <1> QED
    BY <1>2, <1>3, <1>4, <1>5, <1>6, <1>7, <1>8


\* A decision is taken from a pass that has one, and leaves a pass.
LEMMA DecisionType ==
    ASSUME SchedulerInv, pass.pc = "decide", now' = now, Todo(Tail(pass.todo))
    PROVE  /\ Task \in Decision /\ pass.now = now /\ pass \in Pass
           /\ pass' \in Pass /\ (pass'.pc # "idle" => pass'.now = now')
           /\ (pass'.pc = "decide" => pass'.todo # <<>>)
  <1>1. pass \in Pass /\ pass.now = now /\ pass.todo # <<>> /\ pass.pc # "idle"
    BY DEF SchedulerInv, TypeOK, Shapes
  <1>2. pass.todo \in Seq(Decision)
    BY <1>1 DEF Pass
  <1> HIDE DEF Decision
  <1>3. Task \in Decision /\ Tail(pass.todo) \in Seq(Decision)
    BY <1>1, <1>2 DEF Task
  <1> QED
    BY <1>1, <1>3, TodoType

\* The cursor of a schedule is the stored one, whether it is cached or not.
LEMMA CursorOfDigest ==
    ASSUME SchedulerInv, NEW s \in Schedules
    PROVE  /\ Cursor(dcache, digest, s) = digest[s] /\ digest[s] \in DigestCursor
           /\ [dcache EXCEPT ![s] = digest[s]] \in [Schedules -> DigestCursor]
           /\ \A x \in Schedules : [dcache EXCEPT ![s] = digest[s]][x] \in {None, digest[x]}
  <1>1. /\ digest \in [Schedules -> DigestCursor] /\ dcache \in [Schedules -> DigestCursor]
        /\ \A x \in Schedules : dcache[x] \in {None, digest[x]}
    BY DEF SchedulerInv, TypeOK, Shapes
  <1> QED
    BY <1>1 DEF Cursor

\* A decision that stores the cursor its trail ends with keeps the invariant.
LEMMA DigestStored ==
    ASSUME SchedulerInv, NEW s \in Schedules, NEW d2 \in DigestCursors,
           NEW tr2 \in Seq(Arming \cup Report), GoodCursor(tr2, d2, now),
           \A i \in 1..Len(tr2) : tr2[i].kind = "report" => GoodReport(tr2, i),
           digest' = [digest EXCEPT ![s] = d2], dcache' = [dcache EXCEPT ![s] = d2],
           trail' = [trail EXCEPT ![s] = tr2],
           copies' \in Seq(Threads),
           \A i, j \in 1..Len(copies') : copies'[i] = copies'[j] => i = j,
           \A x : Contains(copies, x) => Contains(copies', x),
           \A i \in 1..Len(tr2) : tr2[i].kind = "report" /\ ~tr2[i].empty =>
              Contains(copies', Thread(tr2[i].spec, tr2[i].window)),
           pass' \in Pass, pass'.pc # "idle" => pass'.now = now',
           pass'.pc = "decide" => pass'.todo # <<>>,
           UNCHANGED <<now, up, rules, saved, anomaly, watches, acache, wcache, alerts>>
    PROVE  SchedulerInv'
  <1>1. /\ digest \in [Schedules -> DigestCursor] /\ dcache \in [Schedules -> DigestCursor]
        /\ \A x \in Schedules : digest[x] \in DigestCursor /\ dcache[x] \in {None, digest[x]}
        /\ trail \in [Schedules -> Seq(Arming \cup Report)]
    BY DEF SchedulerInv, TypeOK, Shapes
  <1>2. d2 \in DigestCursor
    BY DEF DigestCursor
  <1>3. /\ digest' \in [Schedules -> DigestCursor] /\ dcache' \in [Schedules -> DigestCursor]
        /\ \A x \in Schedules : digest'[x] \in DigestCursor /\ dcache'[x] \in {None, digest'[x]}
    BY <1>1, <1>2
  <1>4. /\ trail' \in [Schedules -> Seq(Arming \cup Report)]
        /\ trail'[s] = tr2 /\ digest'[s] = d2
        /\ \A x \in Schedules : x # s => trail'[x] = trail[x] /\ digest'[x] = digest[x]
    BY <1>1
  <1>5. TypeOK'
    BY <1>3 DEF SchedulerInv, TypeOK, DigestCursor, Pass
  <1>6. Shapes'
    BY <1>3, <1>4 DEF SchedulerInv, Shapes
  <1>7. TrailsOK'
    BY <1>4 DEF SchedulerInv, TrailsOK
  <1>8. CopiesOK'
    <2> SUFFICES ASSUME NEW x \in Schedules, NEW i \in 1..Len(trail'[x]),
                        trail'[x][i].kind = "report", ~trail'[x][i].empty
                 PROVE  Contains(copies', Thread(trail'[x][i].spec, trail'[x][i].window))
      BY DEF CopiesOK, Thread
    <2>1. CASE x = s
      BY <1>4, <2>1
    <2>2. CASE x # s
      <3>1. Contains(copies, Thread(trail[x][i].spec, trail[x][i].window))
        BY <1>4, <2>2 DEF SchedulerInv, CopiesOK
      <3> QED
        BY <1>4, <2>2, <3>1
    <2> QED
      BY <2>1, <2>2
  <1>9. AlertsOK'
    BY AlertFrame
  <1> QED
    BY <1>5, <1>6, <1>7, <1>8, <1>9 DEF SchedulerInv

\* A copy is written once and none is lost.
LEMMA LinkKeeps ==
    ASSUME SchedulerInv, NEW thread \in Threads, LinkInApp(thread)
    PROVE  /\ copies' \in Seq(Threads) /\ Contains(copies', thread)
           /\ \A i, j \in 1..Len(copies') : copies'[i] = copies'[j] => i = j
           /\ \A x : Contains(copies, x) => Contains(copies', x)
  <1>1. copies \in Seq(Threads) /\ \A i, j \in 1..Len(copies) : copies[i] = copies[j] => i = j
    BY DEF SchedulerInv, Shapes, CopiesOK
  <1>2. CASE Contains(copies, thread)
    BY <1>1, <1>2 DEF LinkInApp
  <1>3. CASE ~Contains(copies, thread)
    <2>1. copies' = Append(copies, thread) /\ copies' \in Seq(Threads)
          /\ Len(copies') = Len(copies) + 1 /\ Len(copies) \in Nat
          /\ copies'[Len(copies')] = thread /\ \A i \in 1..Len(copies) : copies'[i] = copies[i]
      BY <1>1, <1>3 DEF LinkInApp
    <2>2. \A i \in 1..Len(copies) : copies[i] # thread
      BY <1>3 DEF Contains
    <2>3. \A i, j \in 1..Len(copies') : copies'[i] = copies'[j] => i = j
      BY <1>1, <2>1, <2>2
    <2>4. \A x : Contains(copies, x) => Contains(copies', x)
      BY <2>1 DEF Contains
    <2> QED
      BY <2>1, <2>3, <2>4 DEF Contains
  <1> QED
    BY <1>2, <1>3

\* The reports of a longer trail have their copies if the new entry has.
LEMMA CopiesOfTrail ==
    ASSUME SchedulerInv, NEW s \in Schedules, NEW e \in Arming \cup Report,
           \A x : Contains(copies, x) => Contains(copies', x),
           e.kind = "report" /\ ~e.empty => Contains(copies', Thread(e.spec, e.window)),
           NEW tr2, tr2 = Append(trail[s], e)
    PROVE  \A i \in 1..Len(tr2) : tr2[i].kind = "report" /\ ~tr2[i].empty =>
              Contains(copies', Thread(tr2[i].spec, tr2[i].window))
  <1>1. trail[s] \in Seq(Arming \cup Report)
    BY DEF SchedulerInv, Shapes
  <1>2. Len(tr2) = Len(trail[s]) + 1 /\ Len(trail[s]) \in Nat /\ tr2[Len(tr2)] = e
        /\ \A i \in 1..Len(trail[s]) : tr2[i] = trail[s][i]
    BY <1>1
  <1> SUFFICES ASSUME NEW i \in 1..Len(tr2), tr2[i].kind = "report", ~tr2[i].empty
               PROVE  Contains(copies', Thread(tr2[i].spec, tr2[i].window))
    OBVIOUS
  <1>3. CASE i = Len(tr2)
    BY <1>2, <1>3
  <1>4. CASE i # Len(tr2)
    <2>1. i \in 1..Len(trail[s]) /\ tr2[i] = trail[s][i]
      BY <1>2, <1>4
    <2>2. Contains(copies, Thread(tr2[i].spec, tr2[i].window))
      BY <2>1 DEF SchedulerInv, CopiesOK
    <2> QED
      BY <2>2
  <1> QED
    BY <1>3, <1>4

\* What a schedule owes is armed, or produced, or nothing; or it fails.
LEMMA DigestTickInv == ASSUME SchedulerInv, DigestTick PROVE SchedulerInv'
  <1> DEFINE s == Task.of
             spec == Task.rule
             cursor == Cursor(dcache, digest, s)
             due == Occurrences(spec, cursor.last, pass.now)
             known == cursor # None /\ cursor.spec = spec
  <1>1. pass.pc = "decide" /\ Task.kind = "digest" /\ Todo(Tail(pass.todo))
        /\ UNCHANGED <<now, up, rules, saved, anomaly, watches, acache, wcache, alerts>>
    BY DEF DigestTick
  <1>2. /\ Task \in Decision /\ pass.now = now
        /\ pass' \in Pass /\ (pass'.pc # "idle" => pass'.now = now')
        /\ (pass'.pc = "decide" => pass'.todo # <<>>)
    BY <1>1, DecisionType
  <1>3. s \in Schedules /\ spec \in Specs
    BY <1>1, <1>2 DEF Decision, DigestDecision, AnomalyDecision
  <1>4. /\ cursor = digest[s] /\ digest[s] \in DigestCursor
        /\ [dcache EXCEPT ![s] = digest[s]] \in [Schedules -> DigestCursor]
        /\ \A x \in Schedules : [dcache EXCEPT ![s] = digest[s]][x] \in {None, digest[x]}
    BY <1>3, CursorOfDigest
  <1>5. /\ trail[s] \in Seq(Arming \cup Report) /\ now \in Nat /\ Period <= now /\ now <= MaxTime
        /\ copies \in Seq(Threads)
        /\ GoodCursor(trail[s], digest[s], now)
        /\ \A i \in 1..Len(trail[s]) : trail[s][i].kind = "report" => GoodReport(trail[s], i)
        /\ \A i, j \in 1..Len(copies) : copies[i] = copies[j] => i = j
    BY <1>3 DEF SchedulerInv, Shapes, TrailsOK, TypeOK, CopiesOK
  <1>6. \/ ~known /\ Arm(s, spec, cursor)
        \/ known /\ due # {} /\ Produce(s, spec, cursor, due)
        \/ dcache' = [dcache EXCEPT ![s] = cursor] /\ UNCHANGED <<digest, trail, copies>>
    BY DEF DigestTick
  <1> HIDE DEF s, spec, cursor, due, known
  <1>7. CASE ~known /\ Arm(s, spec, cursor)
    <2> DEFINE e == [kind |-> "armed", spec |-> spec, at |-> now]
               tr2 == Append(trail[s], e)
               d2 == [spec |-> spec, last |-> now,
                      until |-> IF digest[s] = None THEN None ELSE digest[s].until]
    <2>1. /\ digest' = [digest EXCEPT ![s] = d2] /\ dcache' = [dcache EXCEPT ![s] = d2]
          /\ trail' = [trail EXCEPT ![s] = tr2] /\ copies' = copies
      <3>1. trail' = [trail EXCEPT ![s] = Append(@, e)]
        BY <1>2, <1>7 DEF Arm
      <3> QED
        BY <1>2, <1>4, <1>7, <3>1 DEF Arm
    <2>2. e \in Arming /\ e.kind = "armed" /\ e.at = now /\ e.spec = spec
      BY <1>3, <1>5 DEF Arming
    <2>3. d2 \in DigestCursors /\ d2.spec = spec /\ d2.last = now
          /\ (digest[s] = None => d2.until = None)
          /\ (digest[s] # None => d2.until = digest[s].until)
      BY <1>3, <1>4, <1>5 DEF DigestCursor, DigestCursors
    <2> HIDE DEF e, d2
    <2>5. /\ tr2 \in Seq(Arming \cup Report)
          /\ \A i \in 1..Len(tr2) : tr2[i].kind = "report" => GoodReport(tr2, i)
          /\ GoodCursor(tr2, d2, now)
      BY <1>4, <1>5, <2>2, <2>3, ArmKeeps
    <2>4. \A i \in 1..Len(tr2) : tr2[i].kind = "report" /\ ~tr2[i].empty =>
             Contains(copies', Thread(tr2[i].spec, tr2[i].window))
      BY <1>3, <2>1, <2>2, CopiesOfTrail
    <2> HIDE DEF tr2
    <2> QED
      BY <1>1, <1>2, <1>3, <1>5, <2>1, <2>3, <2>4, <2>5, DigestStored
  <1>8. CASE known /\ due # {} /\ Produce(s, spec, cursor, due)
    <2> DEFINE at == Max(due)
               window == Window(at, digest[s].until)
               d2 == [spec |-> spec, last |-> at, until |-> at]
    <2>1. PICK empty \in BOOLEAN :
            /\ digest' = [digest EXCEPT ![s] = d2] /\ dcache' = [dcache EXCEPT ![s] = d2]
            /\ trail' = [trail EXCEPT ![s] = Append(@,
                  [kind |-> "report", spec |-> spec, at |-> at, window |-> window,
                   skipped |-> Cardinality(due) - 1, empty |-> empty])]
            /\ IF empty THEN UNCHANGED copies ELSE LinkInApp(Thread(spec, window))
      BY <1>4, <1>8 DEF Produce
    <2> DEFINE e == [kind |-> "report", spec |-> spec, at |-> at, window |-> window,
                     skipped |-> Cardinality(due) - 1, empty |-> empty]
               tr2 == Append(trail[s], e)
    <2>2. trail' = [trail EXCEPT ![s] = tr2]
      BY <2>1
    <2>3. digest[s] \in DigestCursors /\ digest[s].spec = spec /\ due = DueOf(digest[s], now)
      BY <1>2, <1>4, <1>8 DEF known, due, DigestCursor, DueOf
    <2>4. at = Newest(digest[s], now) /\ at \in Nat /\ window \in Span
          /\ Cardinality(due) - 1 \in Nat
      <3>1. Period <= digest[s].last
            /\ (digest[s].until # None => digest[s].until <= digest[s].last)
        <4>1. digest[s] # None
          BY <2>3, ReportAssumption
        <4> QED
          BY <1>5, <4>1 DEF GoodCursor
      <3>2. at = Newest(digest[s], now)
        BY <2>3 DEF Newest
      <3> HIDE DEF at
      <3> QED
        BY <1>5, <1>8, <2>3, <3>1, <3>2, NewestWindow
    <2>5. e \in Report /\ d2 \in DigestCursors
      <3> HIDE DEF at, window
      <3> QED
        BY <1>3, <2>4 DEF Report, DigestCursors
    <2>6. /\ copies' \in Seq(Threads)
          /\ \A i, j \in 1..Len(copies') : copies'[i] = copies'[j] => i = j
          /\ \A x : Contains(copies, x) => Contains(copies', x)
          /\ ~empty => Contains(copies', Thread(spec, window))
      <3>1. CASE empty
        BY <1>5, <2>1, <3>1
      <3>2. CASE ~empty
        <4>1. Thread(spec, window) \in Threads
          BY <1>3, <2>4 DEF Thread, Threads
        <4> QED
          BY <2>1, <3>2, <4>1, LinkKeeps
      <3> QED
        BY <3>1, <3>2
    <2>7. e.empty = empty /\ e.spec = spec /\ e.window = window /\ e.at = at
          /\ e.skipped = Cardinality(due) - 1
          /\ d2.spec = spec /\ d2.last = at /\ d2.until = at
      OBVIOUS
    <2> HIDE DEF e, d2
    <2>8. /\ tr2 \in Seq(Arming \cup Report)
          /\ \A i \in 1..Len(tr2) : tr2[i].kind = "report" => GoodReport(tr2, i)
          /\ GoodCursor(tr2, d2, now)
      <3>1. /\ e.spec = digest[s].spec /\ e.at = Newest(digest[s], now)
            /\ e.window = Window(Newest(digest[s], now), digest[s].until)
            /\ e.skipped = Cardinality(DueOf(digest[s], now)) - 1
            /\ d2.spec = digest[s].spec /\ d2.last = e.at /\ d2.until = e.at
            /\ DueOf(digest[s], now) # {}
        BY <1>8, <2>3, <2>4, <2>7
      <3> HIDE DEF tr2, at, window
      <3> QED
        BY <1>5, <2>3, <2>5, <3>1, ProduceKeeps DEF tr2
    <2> HIDE DEF window, at
    <2>9. \A i \in 1..Len(tr2) : tr2[i].kind = "report" /\ ~tr2[i].empty =>
             Contains(copies', Thread(tr2[i].spec, tr2[i].window))
      BY <1>3, <2>5, <2>6, <2>7, CopiesOfTrail
    <2> HIDE DEF tr2
    <2> QED
      BY <1>1, <1>2, <1>3, <2>1, <2>2, <2>5, <2>6, <2>8, <2>9, DigestStored
  <1>9. CASE dcache' = [dcache EXCEPT ![s] = cursor] /\ UNCHANGED <<digest, trail, copies>>
    <2>1. UNCHANGED <<stored, written>>
      BY <1>1, <1>9 DEF stored, written
    <2>2. /\ dcache' \in [Schedules -> DigestCursor]
          /\ \A x \in Schedules : dcache'[x] \in {None, digest[x]}
      BY <1>4, <1>9
    <2>3. /\ up' \in BOOLEAN /\ rules' \in [Schedules -> Rules] /\ saved' \in Rules
          /\ acache' \in [Channels -> AnomalyCursor]
          /\ \A c \in Channels : acache'[c] \in {None, anomaly[c]}
          /\ wcache' \in {None, watches}
      BY <1>1 DEF SchedulerInv, TypeOK, Shapes
    <2> QED
      BY <1>1, <1>2, <1>5, <2>1, <2>2, <2>3, Frame
  <1> QED
    BY <1>6, <1>7, <1>8, <1>9

-----------------------------------------------------------------------------
(* Checks *)

\* A list of alerts grew from another: whose its alerts were and what they named stays.
Grown(list, list2) ==
    /\ Len(list) <= Len(list2)
    /\ \A i \in 1..Len(list) : list2[i].owner = list[i].owner /\ list2[i].link = list[i].link

\* The open alert i of an owner, or none, is no longer open, and nothing else changed.
Closed(list, list2, owner, i) ==
    /\ list2 \in Seq(Alert) /\ Len(list2) = Len(list) /\ Grown(list, list2)
    /\ OpenOf(list2, owner) = OpenOf(list, owner) \ ({i} \ {None})
    /\ \A o : o # owner => OpenOf(list2, o) = OpenOf(list, o)

\* Ending the open alert of an owner takes it from the open ones, and changes nothing else.
LEMMA EndedKeeps ==
    ASSUME NEW list \in Seq(Alert), NEW owner, NEW i \in OpenOf(list, owner) \cup {None},
           NEW state \in {"final", "resolved"}
    PROVE  Closed(list, Ended(list, i, state), owner, i)
  <1> DEFINE list2 == Ended(list, i, state)
  <1>1. CASE i = None
    BY <1>1 DEF Ended, Grown, Closed
  <1>2. CASE i # None
    <2>1. i \in 1..Len(list) /\ list[i].owner = owner /\ list[i].state = "open"
      BY <1>2 DEF OpenOf
    <2>2. list2 = [list EXCEPT ![i].state = state] /\ list[i] \in Alert
      BY <1>2, <2>1 DEF Ended
    <2>3. [list[i] EXCEPT !.state = state] \in Alert
      BY <2>2 DEF Alert
    <2>4. list2 = [list EXCEPT ![i] = [list[i] EXCEPT !.state = state]]
      BY <2>2
    <2>5. list2 \in Seq(Alert) /\ Len(list2) = Len(list)
          /\ list2[i] = [list[i] EXCEPT !.state = state]
          /\ \A j \in 1..Len(list) : j # i => list2[j] = list[j]
      <3> HIDE DEF list2, Alert
      <3> QED
        BY <2>1, <2>3, <2>4
    <2>6. list2[i].state # "open" /\ list2[i].owner = owner /\ list2[i].link = list[i].link
      BY <2>1, <2>2, <2>5 DEF Alert
    <2> HIDE DEF list2
    <2>7. \A j \in 1..Len(list) :
            /\ list2[j].owner = list[j].owner /\ list2[j].link = list[j].link
            /\ list2[j].state = "open" <=> j # i /\ list[j].state = "open"
      BY <2>1, <2>5, <2>6
    <2>8. Grown(list, list2)
      BY <2>5, <2>7 DEF Grown
    <2>9. OpenOf(list2, owner) = OpenOf(list, owner) \ ({i} \ {None})
      BY <1>2, <2>5, <2>7 DEF OpenOf
    <2>10. \A o : o # owner => OpenOf(list2, o) = OpenOf(list, o)
      BY <2>1, <2>5, <2>7 DEF OpenOf
    <2> QED
      BY <2>5, <2>8, <2>9, <2>10 DEF list2, Closed
  <1> QED
    BY <1>1, <1>2

\* A new alert is the open one of its owner, and changes nothing else.
LEMMA OpenedKeeps ==
    ASSUME NEW list \in Seq(Alert), NEW a \in Alert, a.state = "open",
           NEW owner, a.owner = owner
    PROVE  /\ Append(list, a) \in Seq(Alert) /\ Len(Append(list, a)) = Len(list) + 1
           /\ Append(list, a)[Len(list) + 1] = a /\ Grown(list, Append(list, a))
           /\ \A i \in 1..Len(list) + 1 : i \in 1..Len(list) \/ i = Len(list) + 1
           /\ OpenOf(Append(list, a), owner) = OpenOf(list, owner) \cup {Len(list) + 1}
           /\ \A o : o # owner => OpenOf(Append(list, a), o) = OpenOf(list, o)
  <1> DEFINE list2 == Append(list, a)
  <1>1. list2 \in Seq(Alert) /\ Len(list2) = Len(list) + 1 /\ Len(list) \in Nat
        /\ list2[Len(list2)] = a /\ \A i \in 1..Len(list) : list2[i] = list[i]
    OBVIOUS
  <1> HIDE DEF list2
  <1>2. \A i : i \in 1..Len(list2) <=> i \in 1..Len(list) \/ i = Len(list) + 1
    BY <1>1
  <1>3. Grown(list, list2)
    BY <1>1 DEF Grown
  <1>4. OpenOf(list2, owner) = OpenOf(list, owner) \cup {Len(list) + 1}
    BY <1>1, <1>2 DEF OpenOf
  <1>5. \A o : o # owner => OpenOf(list2, o) = OpenOf(list, o)
    BY <1>1, <1>2 DEF OpenOf
  <1> QED
    BY <1>1, <1>2, <1>3, <1>4, <1>5 DEF list2

\* The alerts an alert names stay those of a watch while the list only grows.
LEMMA LinksKeep ==
    ASSUME NEW list \in Seq(Alert), NEW list2 \in Seq(Alert), LinksOK(list), Grown(list, list2),
           \A i \in 1..Len(list2) : i \in 1..Len(list) \/
              (list2[i].link # None =>
                 list2[i].link \in 1..Len(list) /\ list[list2[i].link].owner \in Keys)
    PROVE  LinksOK(list2)
  <1>1. Len(list) \in Nat /\ Len(list2) \in Nat /\ Len(list) <= Len(list2)
    BY DEF Grown
  <1>2. \A i \in 1..Len(list) : i \in 1..Len(list2)
    BY <1>1
  <1> SUFFICES ASSUME NEW i \in 1..Len(list2), list2[i].link # None
               PROVE  list2[i].link \in 1..Len(list2) /\ list2[list2[i].link].owner \in Keys
    BY DEF LinksOK
  <1>3. list2[i].link \in 1..Len(list) /\ list[list2[i].link].owner \in Keys
    BY DEF LinksOK, Grown
  <1> QED
    BY <1>2, <1>3 DEF Grown

\* An alert of a list that another one may name, or none.
MayName(list, link) ==
    /\ link \in Nat \cup {None}
    /\ link # None => link \in 1..Len(list) /\ list[link].owner \in Keys

\* A check of an owner leaves a cursor that names its open alert, and changes no other owner's.
LEMMA StepKeeps ==
    ASSUME NEW list \in Seq(Alert), NEW owner \in Channels \cup Keys,
           NEW cursor \in AnomalyCursor, NamedIn(list, owner, cursor),
           NEW key \in Keys, pass.now \in Nat, LinksOK(list),
           NEW link, MayName(list, link),
           NEW step, step = Step(list, owner, cursor, key, link)
    PROVE  /\ step.alerts \in Seq(Alert) /\ step.next \in AnomalyCursors
           /\ NamedIn(step.alerts, owner, step.next) /\ LinksOK(step.alerts)
           /\ Grown(list, step.alerts)
           /\ \A o : o # owner => OpenOf(step.alerts, o) = OpenOf(list, o)
  <1> DEFINE before == IF cursor = None THEN {} ELSE cursor.active
             open == IF cursor = None THEN None ELSE cursor.alert
             active == Evaluate(key, before)
             a == [owner |-> owner, state |-> "open", link |-> link]
             ended == Ended(list, open, "final")
             resolved == Ended(list, open, "resolved")
  <1>1. /\ active \ before # {} => step.alerts = Append(ended, a) /\
             step.next = [last |-> pass.now, active |-> active, alert |-> Len(list) + 1]
        /\ active \ before = {} /\ active = {} => step.alerts = resolved /\
             step.next = [last |-> pass.now, active |-> active, alert |-> None]
        /\ active \ before = {} /\ active # {} => step.alerts = list /\
             step.next = [last |-> pass.now, active |-> active, alert |-> open]
    BY DEF Step
  <1>2. active \in SUBSET Checks
    BY DEF Evaluate, Checks
  <1>3. /\ OpenOf(list, owner) = {open} \ {None} /\ (open = None <=> before = {})
        /\ open \in Nat \cup {None}
    <2>1. CASE cursor = None
      BY <2>1 DEF NamedIn
    <2>2. CASE cursor # None
      <3>1. cursor \in AnomalyCursors
        BY <2>2 DEF AnomalyCursor
      <3> QED
        BY <2>2, <3>1 DEF NamedIn, AnomalyCursors
    <2> QED
      BY <2>1, <2>2
  <1>4. Len(list) \in Nat /\ Len(list) + 1 # None /\ a \in Alert /\ a.state = "open"
        /\ a.owner = owner /\ a.link = link
    BY ReportAssumption DEF Alert, MayName
  <1>5. step.next \in AnomalyCursors /\ step.next # None
    <2>1. \A alert \in Nat \cup {None} :
            [last |-> pass.now, active |-> active, alert |-> alert] \in AnomalyCursors
      BY <1>2 DEF AnomalyCursors
    <2> HIDE DEF active, before, open, ended, resolved
    <2>2. Len(list) + 1 \in Nat \cup {None} /\ None \in Nat \cup {None}
      BY <1>4
    <2>3. step.next \in AnomalyCursors
      BY <1>1, <1>3, <2>1, <2>2
    <2> QED
      BY <2>3, ReportAssumption
  <1>6. step.next.active = active
    BY <1>1
  <1>7. open \in OpenOf(list, owner) \cup {None}
    BY <1>3
  <1>8. CASE active \ before # {}
    <2>1. /\ ended \in Seq(Alert) /\ Len(ended) = Len(list) /\ Grown(list, ended)
          /\ OpenOf(ended, owner) = OpenOf(list, owner) \ ({open} \ {None})
          /\ \A o : o # owner => OpenOf(ended, o) = OpenOf(list, o)
      <3> DEFINE state == "final"
      <3>1. state \in {"final", "resolved"} /\ ended = Ended(list, open, state)
        OBVIOUS
      <3> HIDE DEF open, state, ended
      <3>2. Closed(list, Ended(list, open, state), owner, open)
        BY <1>7, <3>1, EndedKeeps
      <3> QED
        BY <3>1, <3>2 DEF Closed
    <2>2. step.alerts = Append(ended, a) /\ step.next.alert = Len(list) + 1
      BY <1>1, <1>8
    <2> HIDE DEF active, before, open, ended, resolved, a
    <2>3. /\ step.alerts \in Seq(Alert) /\ Len(step.alerts) = Len(ended) + 1
          /\ step.alerts[Len(ended) + 1] = a /\ Grown(ended, step.alerts)
          /\ \A i \in 1..Len(ended) + 1 : i \in 1..Len(ended) \/ i = Len(ended) + 1
          /\ OpenOf(step.alerts, owner) = OpenOf(ended, owner) \cup {Len(ended) + 1}
          /\ \A o : o # owner => OpenOf(step.alerts, o) = OpenOf(ended, o)
      <3>1. ended \in Seq(Alert) /\ a \in Alert /\ a.state = "open" /\ a.owner = owner
        BY <1>4, <2>1
      <3>2. /\ Append(ended, a) \in Seq(Alert) /\ Len(Append(ended, a)) = Len(ended) + 1
            /\ Append(ended, a)[Len(ended) + 1] = a /\ Grown(ended, Append(ended, a))
            /\ \A i \in 1..Len(ended) + 1 : i \in 1..Len(ended) \/ i = Len(ended) + 1
            /\ OpenOf(Append(ended, a), owner) = OpenOf(ended, owner) \cup {Len(ended) + 1}
            /\ \A o : o # owner => OpenOf(Append(ended, a), o) = OpenOf(ended, o)
        BY <3>1, OpenedKeeps
      <3> QED
        BY <2>2, <3>2
    <2>4. Grown(list, step.alerts)
      BY <1>4, <2>1, <2>3 DEF Grown
    <2>5. OpenOf(step.alerts, owner) = {Len(list) + 1}
      BY <1>3, <2>1, <2>3
    <2>6. NamedIn(step.alerts, owner, step.next)
      BY <1>4, <1>5, <1>6, <1>8, <2>2, <2>5 DEF NamedIn
    <2>7. LinksOK(step.alerts)
      BY <1>4, <2>1, <2>3, <2>4, LinksKeep DEF MayName
    <2> QED
      BY <1>5, <2>1, <2>3, <2>4, <2>6, <2>7
  <1>9. CASE active \ before = {} /\ active = {}
    <2>1. /\ resolved \in Seq(Alert) /\ Len(resolved) = Len(list) /\ Grown(list, resolved)
          /\ OpenOf(resolved, owner) = OpenOf(list, owner) \ ({open} \ {None})
          /\ \A o : o # owner => OpenOf(resolved, o) = OpenOf(list, o)
      <3> DEFINE state == "resolved"
      <3>1. state \in {"final", "resolved"} /\ resolved = Ended(list, open, state)
        OBVIOUS
      <3> HIDE DEF open, state, resolved
      <3>2. Closed(list, Ended(list, open, state), owner, open)
        BY <1>7, <3>1, EndedKeeps
      <3> QED
        BY <3>1, <3>2 DEF Closed
    <2>2. step.alerts = resolved /\ step.next.alert = None
      BY <1>1, <1>9
    <2> HIDE DEF active, before, open, ended, resolved
    <2>3. NamedIn(step.alerts, owner, step.next)
      BY <1>3, <1>5, <1>6, <1>9, <2>1, <2>2 DEF NamedIn
    <2>4. LinksOK(step.alerts)
      BY <2>1, <2>2, LinksKeep
    <2> QED
      BY <1>5, <2>1, <2>2, <2>3, <2>4
  <1>10. CASE active \ before = {} /\ active # {}
    <2>1. step.alerts = list /\ step.next.alert = open
      BY <1>1, <1>10
    <2> HIDE DEF active, before, open, ended, resolved
    <2>2. NamedIn(step.alerts, owner, step.next)
      BY <1>3, <1>5, <1>6, <1>10, <2>1 DEF NamedIn
    <2>3. Grown(list, list)
      BY <1>4 DEF Grown
    <2> QED
      BY <1>5, <2>1, <2>2, <2>3
  <1> QED
    BY <1>8, <1>9, <1>10

\* Checks of one owner keep what the cursors of the others name.
LEMMA NamedKeeps ==
    ASSUME NEW list, NEW list2, NEW owner, NEW cursor, NamedIn(list, owner, cursor),
           OpenOf(list2, owner) = OpenOf(list, owner)
    PROVE  NamedIn(list2, owner, cursor)
  BY DEF NamedIn

\* The alert a watch has open is one a channel's alert may name.
LEMMA LinkOfWatch ==
    ASSUME NEW list \in Seq(Alert), NEW k \in Keys, NEW cursor \in AnomalyCursor,
           NamedIn(list, k, cursor),
           NEW link, link = IF cursor = None THEN None ELSE cursor.alert
    PROVE  MayName(list, link)
  <1>1. CASE cursor = None
    BY <1>1 DEF MayName
  <1>2. CASE cursor # None
    <2>1. cursor \in AnomalyCursors /\ link = cursor.alert
      BY <1>2 DEF AnomalyCursor
    <2>2. link \in Nat \cup {None}
      BY <2>1 DEF AnomalyCursors
    <2>3. link # None => link \in OpenOf(list, k)
      BY <1>2, <2>1 DEF NamedIn
    <2> QED
      BY <2>2, <2>3 DEF OpenOf, MayName
  <1> QED
    BY <1>1, <1>2

\* A step that stores what the cursors then name keeps the invariant.
LEMMA AlertsStored ==
    ASSUME SchedulerInv, alerts' \in Seq(Alert), anomaly' \in [Channels -> AnomalyCursor],
           watches' \in [Keys -> AnomalyCursor], GoodAlerts(alerts', anomaly', watches'),
           acache' \in [Channels -> AnomalyCursor],
           \A c \in Channels : acache'[c] \in {None, anomaly'[c]}, wcache' \in {None, watches'},
           pass' \in Pass, pass'.pc # "idle" => pass'.now = now',
           pass'.pc = "decide" => pass'.todo # <<>>,
           UNCHANGED <<now, up, rules, saved, digest, dcache, trail, copies>>
    PROVE  SchedulerInv'
  <1>1. TrailsOK' /\ CopiesOK'
    <2>1. now \in Nat
      BY DEF SchedulerInv, TypeOK
    <2> QED
      BY <2>1, DigestFrame
  <1>2. AlertsOK'
    BY DEF AlertsOK
  <1>3. TypeOK'
    BY DEF SchedulerInv, TypeOK, AnomalyCursor, Pass
  <1>4. Shapes'
    BY DEF SchedulerInv, Shapes
  <1> QED
    BY <1>1, <1>2, <1>3, <1>4 DEF SchedulerInv

\* A step that stores nothing of alerts or digests keeps it too, whatever it caches of them.
LEMMA NothingStored ==
    ASSUME SchedulerInv, UNCHANGED <<alerts, anomaly, watches>>,
           acache' \in [Channels -> AnomalyCursor],
           \A c \in Channels : acache'[c] \in {None, anomaly[c]}, wcache' \in {None, watches},
           pass' \in Pass, pass'.pc # "idle" => pass'.now = now',
           pass'.pc = "decide" => pass'.todo # <<>>,
           UNCHANGED <<now, up, rules, saved, digest, dcache, trail, copies>>
    PROVE  SchedulerInv'
  <1>1. /\ alerts \in Seq(Alert) /\ anomaly \in [Channels -> AnomalyCursor]
        /\ watches \in [Keys -> AnomalyCursor] /\ GoodAlerts(alerts, anomaly, watches)
    BY DEF SchedulerInv, Shapes, AlertsOK
  <1> QED
    BY <1>1, AlertsStored

\* A channel's check names its alert, or is skipped, or fails.
LEMMA AnomalyTickInv == ASSUME SchedulerInv, AnomalyTick PROVE SchedulerInv'
  <1> DEFINE c == Task.of
             cursor == Cursor(acache, anomaly, c)
             link == IF Watching[Task.rule] = None THEN None ELSE Watching[Task.rule].alert
             step == Step(alerts, c, cursor, Task.rule, link)
  <1>1. pass.pc = "decide" /\ Task.kind = "anomaly" /\ Todo(Tail(pass.todo))
        /\ UNCHANGED <<now, up, rules, saved, digest, watches, dcache, wcache, trail, copies>>
    BY DEF AnomalyTick
  <1>2. /\ Task \in Decision /\ pass.now = now
        /\ pass' \in Pass /\ (pass'.pc # "idle" => pass'.now = now')
        /\ (pass'.pc = "decide" => pass'.todo # <<>>)
    BY <1>1, DecisionType
  <1>3. c \in Channels /\ Task.rule \in Keys
    BY <1>1, <1>2 DEF Decision, DigestDecision, AnomalyDecision
  <1>4. /\ alerts \in Seq(Alert) /\ anomaly \in [Channels -> AnomalyCursor]
        /\ watches \in [Keys -> AnomalyCursor] /\ acache \in [Channels -> AnomalyCursor]
        /\ \A x \in Channels : acache[x] \in {None, anomaly[x]}
        /\ wcache \in {None, watches} /\ now \in Nat
        /\ GoodAlerts(alerts, anomaly, watches)
    BY DEF SchedulerInv, Shapes, TypeOK, AlertsOK
  <1>5. Watching = watches /\ cursor = anomaly[c]
    BY <1>3, <1>4 DEF Watching, Cursor
  <1>6. \/ /\ alerts' = step.alerts
           /\ anomaly' = [anomaly EXCEPT ![c] = step.next]
           /\ acache' = [acache EXCEPT ![c] = step.next]
        \/ acache' = [acache EXCEPT ![c] = cursor] /\ UNCHANGED <<alerts, anomaly>>
    BY DEF AnomalyTick
  <1>7. MayName(alerts, link)
    <2> DEFINE k == Task.rule
    <2>1. k \in Keys /\ watches[k] \in AnomalyCursor /\ NamedIn(alerts, k, watches[k])
          /\ link = IF watches[k] = None THEN None ELSE watches[k].alert
      BY <1>3, <1>4, <1>5 DEF GoodAlerts
    <2> HIDE DEF k, link
    <2> QED
      BY <1>4, <2>1, LinkOfWatch
  <1>8. CASE /\ alerts' = step.alerts
             /\ anomaly' = [anomaly EXCEPT ![c] = step.next]
             /\ acache' = [acache EXCEPT ![c] = step.next]
    <2>1. /\ c \in Channels \cup Keys /\ cursor \in AnomalyCursor
          /\ NamedIn(alerts, c, cursor) /\ Task.rule \in Keys /\ pass.now \in Nat
          /\ LinksOK(alerts) /\ alerts \in Seq(Alert)
      BY <1>2, <1>3, <1>4, <1>5 DEF GoodAlerts
    <2> HIDE DEF c, cursor, link
    <2>2. /\ step.alerts \in Seq(Alert) /\ step.next \in AnomalyCursors
          /\ NamedIn(step.alerts, c, step.next) /\ LinksOK(step.alerts)
          /\ \A o : o # c => OpenOf(step.alerts, o) = OpenOf(alerts, o)
      BY <1>7, <2>1, StepKeeps
    <2> HIDE DEF step
    <2>3. step.next \in AnomalyCursor
      BY <2>2 DEF AnomalyCursor
    <2>4. /\ anomaly' \in [Channels -> AnomalyCursor] /\ acache' \in [Channels -> AnomalyCursor]
          /\ anomaly'[c] = step.next /\ \A x \in Channels : x # c => anomaly'[x] = anomaly[x]
          /\ \A x \in Channels : acache'[x] \in {None, anomaly'[x]}
      BY <1>3, <1>4, <1>8, <2>3
    <2>5. \A x \in Channels : NamedIn(step.alerts, x, anomaly'[x])
      BY <1>4, <2>2, <2>4, NamedKeeps DEF GoodAlerts
    <2>6. \A k \in Keys : NamedIn(step.alerts, k, watches[k])
      <3>1. c \notin Keys
        BY <1>3, ReportAssumption
      <3> QED
        BY <1>4, <2>2, <3>1, NamedKeeps DEF GoodAlerts
    <2>7. GoodAlerts(alerts', anomaly', watches')
      BY <1>1, <1>8, <2>2, <2>5, <2>6 DEF GoodAlerts
    <2>8. alerts' \in Seq(Alert) /\ watches' \in [Keys -> AnomalyCursor]
          /\ wcache' \in {None, watches'}
      BY <1>1, <1>4, <1>8, <2>2
    <2> QED
      BY <1>1, <1>2, <2>4, <2>7, <2>8, AlertsStored
  <1>9. CASE acache' = [acache EXCEPT ![c] = cursor] /\ UNCHANGED <<alerts, anomaly>>
    <2>1. /\ acache' \in [Channels -> AnomalyCursor]
          /\ \A x \in Channels : acache'[x] \in {None, anomaly[x]}
      BY <1>3, <1>4, <1>5, <1>9
    <2> QED
      BY <1>1, <1>2, <1>4, <1>9, <2>1, NothingStored
  <1> QED
    BY <1>6, <1>8, <1>9

-----------------------------------------------------------------------------
(* Watches *)

\* A fold whose steps stay in a set exists.
LEMMA FoldStays ==
    ASSUME NEW S, IsFiniteSet(S), NEW V, NEW base \in V, NEW h \in [S \X V -> V]
    PROVE  \E f : FoldOf(f, S, base, h) /\ \A s \in SUBSET S : f[s] \in V
  <1> DEFINE one(s) == CHOOSE x \in s : TRUE
  <1>1. PICK f : FoldOf(f, S, base, h)
    BY FoldExists
  <1>2. \A s \in SUBSET S : f[s] = IF s = {} THEN base ELSE h[<<one(s), f[s \ {one(s)}]>>]
    BY <1>1 DEF FoldOf
  <1>3. \A s \in SUBSET S : s # {} => one(s) \in s
    OBVIOUS
  <1> HIDE DEF one
  <1> DEFINE Good == {s \in SUBSET S : f[s] \in V}
  <1>4. {} \in Good
    BY <1>2
  <1>5. ASSUME NEW s \in SUBSET S, s # {} PROVE \E x \in s : s \ {x} \in Good => s \in Good
    <2>1. one(s) \in s /\ one(s) \in S
      BY <1>3, <1>5
    <2>2. f[s] = h[<<one(s), f[s \ {one(s)}]>>]
      BY <1>2, <1>5
    <2>3. ASSUME s \ {one(s)} \in Good PROVE s \in Good
      BY <2>1, <2>2, <2>3
    <2> QED
      BY <2>1, <2>3
  <1>6. SUBSET S \subseteq Good
    <2> HIDE DEF Good
    <2> QED
      BY <1>4, <1>5, SetInduction
  <1>7. \A s \in SUBSET S : f[s] \in V
    BY <1>6
  <1> QED
    BY <1>1, <1>7

\* Ending an alert leaves a list of alerts.
LEMMA EndedType ==
    ASSUME NEW list \in Seq(Alert), NEW i, NEW state \in {"final", "resolved"}
    PROVE  Ended(list, i, state) \in Seq(Alert)
  <1>1. CASE i = None
    BY <1>1 DEF Ended
  <1>2. CASE i # None /\ i \in 1..Len(list)
    <2>1. list[i] \in Alert
      BY <1>2
    <2>2. [list[i] EXCEPT !.state = state] \in Alert
      BY <2>1 DEF Alert
    <2>3. Ended(list, i, state) = [list EXCEPT ![i] = [list[i] EXCEPT !.state = state]]
      BY <1>2 DEF Ended
    <2> HIDE DEF Alert
    <2> QED
      BY <1>2, <2>2, <2>3
  <1>3. CASE i # None /\ i \notin 1..Len(list)
    <2>1. DOMAIN list = 1..Len(list) /\ list = [j \in DOMAIN list |-> list[j]]
      OBVIOUS
    <2>2. Ended(list, i, state) = list
      BY <1>3, <2>1 DEF Ended
    <2> QED
      BY <2>2
  <1> QED
    BY <1>1, <1>2, <1>3

\* The watches that go take their open alerts with them, and nobody else's.
LEMMA DropsKeep ==
    ASSUME SchedulerInv
    PROVE  /\ AfterDrops.alerts \in Seq(Alert) /\ AfterDrops.watches \in [Keys -> AnomalyCursor]
           /\ GoodAlerts(AfterDrops.alerts, anomaly, AfterDrops.watches)
  <1> DEFINE dropped == {k \in Keys \ pass.wanted : Watching[k] # None}
             one(s) == CHOOSE x \in s : TRUE
             Iter(f) == f = [s \in SUBSET dropped |->
                               IF s = {} THEN alerts
                               ELSE Ended(f[s \ {one(s)}], Watching[one(s)].alert, "final")]
             iter == CHOOSE f : Iter(f)
             h == [p \in dropped \X Seq(Alert) |-> Ended(p[2], Watching[p[1]].alert, "final")]
  <1>1. /\ alerts \in Seq(Alert) /\ watches \in [Keys -> AnomalyCursor]
        /\ GoodAlerts(alerts, anomaly, watches) /\ Watching = watches
    BY DEF SchedulerInv, Shapes, TypeOK, AlertsOK, Watching
  <1>2. AfterDrops.alerts = iter[dropped]
    BY DEF AfterDrops, FoldSet, MapThenFoldSet
  <1>3. AfterDrops.watches = [k \in Keys |-> IF k \in dropped THEN None ELSE watches[k]]
    BY <1>1 DEF AfterDrops
  <1>4. IsFiniteSet(dropped) /\ dropped \subseteq Keys /\ \A k \in dropped : watches[k] # None
    <2>1. dropped \subseteq Keys /\ IsFiniteSet(Keys)
      BY ReportAssumption
    <2> QED
      BY <1>1, <2>1, FS_Subset
  <1>5. \A s \in SUBSET dropped : s # {} => one(s) \in s
    OBVIOUS
  <1>6. Iter(iter)
    <2>1. h \in [dropped \X Seq(Alert) -> Seq(Alert)]
      <3>1. \A p \in dropped \X Seq(Alert) : h[p] \in Seq(Alert)
        <4>1. "final" \in {"final", "resolved"}
          OBVIOUS
        <4> HIDE DEF dropped
        <4> QED
          BY <4>1, EndedType
      <3> HIDE DEF dropped
      <3> QED
        BY <3>1
    <2> HIDE DEF h, dropped
    <2>2. PICK f : FoldOf(f, dropped, alerts, h) /\ \A s \in SUBSET dropped : f[s] \in Seq(Alert)
      <3>1. alerts \in Seq(Alert) /\ IsFiniteSet(dropped)
        BY <1>1, <1>4
      <3> QED
        BY <2>1, <3>1, FoldStays
    <2>3. f = [s \in SUBSET dropped |->
                 IF s = {} THEN alerts ELSE h[<<one(s), f[s \ {one(s)}]>>]]
      BY <2>2 DEF FoldOf
    <2>4. \A s \in SUBSET dropped : s # {} =>
             h[<<one(s), f[s \ {one(s)}]>>]
                = Ended(f[s \ {one(s)}], Watching[one(s)].alert, "final")
      <3> SUFFICES ASSUME NEW s \in SUBSET dropped, s # {}
                   PROVE  h[<<one(s), f[s \ {one(s)}]>>]
                            = Ended(f[s \ {one(s)}], Watching[one(s)].alert, "final")
        OBVIOUS
      <3>1. one(s) \in dropped /\ f[s \ {one(s)}] \in Seq(Alert)
        BY <1>5, <2>2
      <3> HIDE DEF one
      <3> QED
        BY <3>1 DEF h
    <2> HIDE DEF one
    <2>5. Iter(f)
      BY <2>3, <2>4
    <2> HIDE DEF Iter
    <2> QED
      BY <2>5
  <1>7. /\ iter[{}] = alerts
        /\ \A s \in SUBSET dropped : s # {} =>
             iter[s] = Ended(iter[s \ {one(s)}], watches[one(s)].alert, "final")
    <2> HIDE DEF iter, dropped, one
    <2> QED
      BY <1>1, <1>6
  <1> DEFINE Gone(s, list) ==
               /\ list \in Seq(Alert) /\ LinksOK(list)
               /\ \A o \in Channels \cup Keys :
                    OpenOf(list, o) = IF o \in s THEN {} ELSE OpenOf(alerts, o)
             Good == {s \in SUBSET dropped : Gone(s, iter[s])}
  <1> HIDE DEF iter, dropped, one, h
  <1>8. {} \in Good
    BY <1>1, <1>7 DEF GoodAlerts
  <1>9. ASSUME NEW s \in SUBSET dropped, s # {} PROVE \E x \in s : s \ {x} \in Good => s \in Good
    <2> DEFINE k == one(s)
               list == iter[s \ {k}]
               i == watches[k].alert
               state == "final"
    <2>1. k \in s /\ k \in Keys /\ watches[k] # None /\ watches[k] \in AnomalyCursors
      BY <1>1, <1>4, <1>5, <1>9 DEF AnomalyCursor
    <2>2. ASSUME Gone(s \ {k}, list) PROVE Gone(s, iter[s])
      <3>1. OpenOf(alerts, k) = {i} \ {None}
        BY <1>1, <2>1 DEF GoodAlerts, NamedIn
      <3>2. OpenOf(list, k) = OpenOf(alerts, k) /\ list \in Seq(Alert) /\ LinksOK(list)
        BY <2>1, <2>2
      <3>3. iter[s] = Ended(list, i, state) /\ state \in {"final", "resolved"}
        BY <1>7, <1>9
      <3>4. i \in OpenOf(list, k) \cup {None}
        BY <3>1, <3>2
      <3> HIDE DEF k, list, i, state
      <3>5. Closed(list, iter[s], k, i)
        BY <3>2, <3>3, <3>4, EndedKeeps
      <3>6. LinksOK(iter[s])
        BY <3>2, <3>5, LinksKeep DEF Closed
      <3>7. \A o \in Channels \cup Keys :
              OpenOf(iter[s], o) = IF o \in s THEN {} ELSE OpenOf(alerts, o)
        <4> SUFFICES ASSUME NEW o \in Channels \cup Keys
                     PROVE  OpenOf(iter[s], o) = IF o \in s THEN {} ELSE OpenOf(alerts, o)
          OBVIOUS
        <4>1. CASE o = k
          BY <2>1, <3>1, <3>2, <3>5, <4>1 DEF Closed
        <4>2. CASE o # k
          <5>1. OpenOf(iter[s], o) = OpenOf(list, o)
            BY <3>5, <4>2 DEF Closed
          <5>2. OpenOf(list, o) = IF o \in s \ {k} THEN {} ELSE OpenOf(alerts, o)
            BY <2>2
          <5> QED
            BY <4>2, <5>1, <5>2
        <4> QED
          BY <4>1, <4>2
      <3> QED
        BY <3>5, <3>6, <3>7 DEF Closed
    <2> HIDE DEF Gone
    <2>3. s \ {k} \in Good => s \in Good
      BY <2>2
    <2> QED
      BY <2>1, <2>3
  <1>10. Gone(dropped, iter[dropped])
    <2>1. SUBSET dropped \subseteq Good
      <3> HIDE DEF Good
      <3> QED
        BY <1>4, <1>8, <1>9, SetInduction
    <2> HIDE DEF Gone
    <2> QED
      BY <2>1
  <1>11. AfterDrops.watches \in [Keys -> AnomalyCursor]
    BY <1>1, <1>3 DEF AnomalyCursor
  <1>12. \A c \in Channels : NamedIn(AfterDrops.alerts, c, anomaly[c])
    <2>1. \A c \in Channels : c \notin dropped
      BY <1>4, ReportAssumption
    <2> QED
      BY <1>1, <1>2, <1>10, <2>1, NamedKeeps DEF GoodAlerts
  <1>13. \A k \in Keys : NamedIn(AfterDrops.alerts, k, AfterDrops.watches[k])
    <2> SUFFICES ASSUME NEW k \in Keys
                 PROVE  NamedIn(AfterDrops.alerts, k, AfterDrops.watches[k])
      OBVIOUS
    <2>1. CASE k \in dropped
      BY <1>2, <1>3, <1>10, <2>1 DEF NamedIn
    <2>2. CASE k \notin dropped
      BY <1>1, <1>2, <1>3, <1>10, <2>2, NamedKeeps DEF GoodAlerts
    <2> QED
      BY <2>1, <2>2
  <1> QED
    BY <1>2, <1>10, <1>11, <1>12, <1>13 DEF GoodAlerts

\* The alerts and the watches while watches are checked.
CheckState ==
    {st \in [alerts : Seq(Alert), watches : [Keys -> AnomalyCursor]] :
        GoodAlerts(st.alerts, anomaly, st.watches)}

\* A watch's check names its alert and leaves what the other cursors name.
LEMMA CheckKeeps ==
    ASSUME NEW k \in Keys, NEW state \in CheckState, pass.now \in Nat
    PROVE  CheckWatch(k, state) \in CheckState
  <1> DEFINE list == state.alerts
             wa == state.watches
             cursor == wa[k]
             step == Step(list, k, cursor, k, None)
             next == [alerts |-> step.alerts, watches |-> [wa EXCEPT ![k] = step.next]]
  <1>1. list \in Seq(Alert) /\ wa \in [Keys -> AnomalyCursor] /\ GoodAlerts(list, anomaly, wa)
        /\ cursor \in AnomalyCursor
    BY DEF CheckState
  <1>2. CheckWatch(k, state) = next
    BY DEF CheckWatch
  <1>3. NamedIn(list, k, cursor) /\ LinksOK(list) /\ k \in Channels \cup Keys
    BY <1>1 DEF GoodAlerts
  <1> HIDE DEF list, wa, cursor
  <1>4. /\ step.alerts \in Seq(Alert) /\ step.next \in AnomalyCursors
        /\ NamedIn(step.alerts, k, step.next) /\ LinksOK(step.alerts)
        /\ \A o : o # k => OpenOf(step.alerts, o) = OpenOf(list, o)
    <2> DEFINE link == None
    <2>1. /\ step = Step(list, k, cursor, k, link) /\ MayName(list, link)
      BY DEF MayName
    <2> HIDE DEF step, link
    <2> QED
      BY <1>1, <1>3, <2>1, StepKeeps
  <1> HIDE DEF step
  <1>5. step.next \in AnomalyCursor
    BY <1>4 DEF AnomalyCursor
  <1>6. /\ next.alerts = step.alerts /\ next.watches \in [Keys -> AnomalyCursor]
        /\ next.watches[k] = step.next /\ \A x \in Keys : x # k => next.watches[x] = wa[x]
    BY <1>1, <1>5
  <1>7. next \in [alerts : Seq(Alert), watches : [Keys -> AnomalyCursor]]
    BY <1>1, <1>4, <1>5
  <1> HIDE DEF next
  <1>8. \A x \in Keys : NamedIn(next.alerts, x, next.watches[x])
    BY <1>1, <1>4, <1>6, NamedKeeps DEF GoodAlerts
  <1>9. \A c \in Channels : NamedIn(next.alerts, c, anomaly[c])
    <2>1. \A c \in Channels : c # k
      BY ReportAssumption
    <2> QED
      BY <1>1, <1>4, <1>6, <2>1, NamedKeeps DEF GoodAlerts
  <1>10. GoodAlerts(next.alerts, anomaly, next.watches)
    BY <1>4, <1>6, <1>8, <1>9 DEF GoodAlerts
  <1> QED
    BY <1>2, <1>7, <1>10 DEF CheckState

\* So do the checks of all the watches that are due, in any order.
LEMMA ChecksKeep ==
    ASSUME NEW S \in SUBSET Keys, NEW base \in CheckState, pass.now \in Nat
    PROVE  FoldSet(CheckWatch, base, S) \in CheckState
  <1> DEFINE one(s) == CHOOSE x \in s : TRUE
             Iter(f) == f = [s \in SUBSET S |->
                               IF s = {} THEN base ELSE CheckWatch(one(s), f[s \ {one(s)}])]
             iter == CHOOSE f : Iter(f)
             h == [p \in S \X CheckState |-> CheckWatch(p[1], p[2])]
  <1>1. IsFiniteSet(S)
    BY ReportAssumption, FS_Subset
  <1>2. FoldSet(CheckWatch, base, S) = iter[S]
    BY DEF FoldSet, MapThenFoldSet
  <1>3. \A s \in SUBSET S : s # {} => one(s) \in s
    OBVIOUS
  <1>4. Iter(iter)
    <2>1. h \in [S \X CheckState -> CheckState]
      <3>1. \A p \in S \X CheckState : h[p] \in CheckState
        BY CheckKeeps
      <3> QED
        BY <3>1
    <2> HIDE DEF h
    <2>2. PICK f : FoldOf(f, S, base, h) /\ \A s \in SUBSET S : f[s] \in CheckState
      BY <1>1, <2>1, FoldStays
    <2>3. f = [s \in SUBSET S |-> IF s = {} THEN base ELSE h[<<one(s), f[s \ {one(s)}]>>]]
      BY <2>2 DEF FoldOf
    <2>4. \A s \in SUBSET S : s # {} =>
             h[<<one(s), f[s \ {one(s)}]>>] = CheckWatch(one(s), f[s \ {one(s)}])
      <3> SUFFICES ASSUME NEW s \in SUBSET S, s # {}
                   PROVE  h[<<one(s), f[s \ {one(s)}]>>] = CheckWatch(one(s), f[s \ {one(s)}])
        OBVIOUS
      <3>1. one(s) \in S /\ f[s \ {one(s)}] \in CheckState
        BY <1>3, <2>2
      <3> HIDE DEF one
      <3> QED
        BY <3>1 DEF h
    <2> HIDE DEF one
    <2>5. Iter(f)
      BY <2>3, <2>4
    <2> HIDE DEF Iter
    <2> QED
      BY <2>5
  <1>5. /\ iter[{}] = base
        /\ \A s \in SUBSET S : s # {} => iter[s] = CheckWatch(one(s), iter[s \ {one(s)}])
    <2> HIDE DEF iter, one
    <2> QED
      BY <1>4
  <1> DEFINE Good == {s \in SUBSET S : iter[s] \in CheckState}
  <1> HIDE DEF iter, one, h
  <1>6. {} \in Good
    BY <1>5
  <1>7. ASSUME NEW s \in SUBSET S, s # {} PROVE \E x \in s : s \ {x} \in Good => s \in Good
    <2>1. one(s) \in s /\ one(s) \in Keys
      BY <1>3, <1>7
    <2>2. iter[s] = CheckWatch(one(s), iter[s \ {one(s)}])
      BY <1>5, <1>7
    <2>3. ASSUME s \ {one(s)} \in Good PROVE s \in Good
      BY <2>1, <2>2, <2>3, CheckKeeps
    <2> QED
      BY <2>1, <2>3
  <1>8. SUBSET S \subseteq Good
    <2> HIDE DEF Good
    <2> QED
      BY <1>1, <1>6, <1>7, SetInduction
  <1>9. iter[S] \in CheckState
    BY <1>8
  <1> QED
    BY <1>2, <1>9

\* The watches of a pass are checked, or the facts or the database fail.
LEMMA WatchTickInv == ASSUME SchedulerInv, WatchTick PROVE SchedulerInv'
  <1> DEFINE after == FoldSet(CheckWatch, AfterDrops, DueWatches)
  <1>1. pass.pc = "watch" /\ Todo(AllDecisions)
        /\ UNCHANGED <<now, up, rules, saved, digest, anomaly, dcache, acache, trail, copies>>
    BY DEF WatchTick
  <1>2. /\ rules \in [Schedules -> Rules] /\ pass \in Pass /\ pass.now = now /\ now \in Nat
        /\ anomaly \in [Channels -> AnomalyCursor] /\ acache \in [Channels -> AnomalyCursor]
        /\ \A c \in Channels : acache[c] \in {None, anomaly[c]}
        /\ wcache \in {None, watches} /\ Watching = watches
    BY <1>1 DEF SchedulerInv, TypeOK, Shapes, Watching
  <1>3. /\ pass' \in Pass /\ (pass'.pc # "idle" => pass'.now = now')
        /\ (pass'.pc = "decide" => pass'.todo # <<>>)
    BY <1>1, <1>2, DecisionsType, TodoType
  <1>4. \/ alerts' = after.alerts /\ watches' = after.watches /\ wcache' = after.watches
        \/ wcache' \in {None, watches} /\ UNCHANGED <<alerts, watches>>
    BY <1>2 DEF WatchTick
  <1>5. after \in CheckState
    <2>1. DueWatches \in SUBSET Keys
      BY <1>2 DEF DueWatches, Pass
    <2>2. AfterDrops = [alerts |-> AfterDrops.alerts, watches |-> AfterDrops.watches]
      BY DEF AfterDrops
    <2>3. AfterDrops \in CheckState
      BY <2>2, DropsKeep DEF CheckState
    <2> QED
      BY <1>2, <2>1, <2>3, ChecksKeep
  <1>6. CASE alerts' = after.alerts /\ watches' = after.watches /\ wcache' = after.watches
    <2> HIDE DEF after
    <2>1. /\ alerts' \in Seq(Alert) /\ watches' \in [Keys -> AnomalyCursor]
          /\ GoodAlerts(alerts', anomaly', watches')
      BY <1>1, <1>5, <1>6 DEF CheckState
    <2> QED
      BY <1>1, <1>2, <1>3, <1>6, <2>1, AlertsStored
  <1>7. CASE wcache' \in {None, watches} /\ UNCHANGED <<alerts, watches>>
    BY <1>1, <1>2, <1>3, <1>7, NothingStored
  <1> QED
    BY <1>4, <1>6, <1>7

-----------------------------------------------------------------------------
(* What always holds *)

\* The caches agree with the database, the trails account for the occurrences and the cursors
\* name the alerts, over edits, failing calls and restarts.
THEOREM Invariant == Spec => []SchedulerInv
  <1>1. Init => SchedulerInv
    BY InitInv
  <1>2. SchedulerInv /\ [Next]_vars => SchedulerInv'
    <2> SUFFICES ASSUME SchedulerInv, [Next]_vars PROVE SchedulerInv'
      OBVIOUS
    <2>1. CASE \/ Start \/ End \/ Advance \/ Tick \/ Gather \/ UNCHANGED vars
               \/ \E s \in Schedules : Edit(s)
      BY <2>1, ProcessInv
    <2>2. CASE WatchTick
      BY <2>2, WatchTickInv
    <2>3. CASE AnomalyTick
      BY <2>3, AnomalyTickInv
    <2>4. CASE DigestTick
      BY <2>4, DigestTickInv
    <2> QED
      BY <2>1, <2>2, <2>3, <2>4 DEF Next
  <1> QED
    BY <1>1, <1>2, PTL DEF Spec

\* The variables stay in their types: what is cached is what is stored.
THEOREM TypeCorrect == Spec => []TypeOK
  BY Invariant, InvImplies, PTL

\* Every occurrence of a digest rule since it was armed is reported once or counted as skipped,
\* in windows that do not overlap, and each period has one in-app copy.
THEOREM OccurrencesAreAccounted == Spec => []OccurrencesAccounted
  BY Invariant, InvImplies, PTL

\* The open alert of a channel or a watch is the one its cursor names, while a check is active.
THEOREM AlertsAreNamedAlways == Spec => []AlertsAreNamed
  BY Invariant, InvImplies, PTL
=============================================================================
