-------------------------- MODULE WriteQueueProofs --------------------------
(***************************************************************************)
(* Theorems about WriteQueue, for any readers, any bounds of the queue and *)
(* of its batches, and any number of writes: types, the count of losses,   *)
(* and what a query finds after its drain.                                 *)
(*                                                                         *)
(* The last one rests on who is ahead of whom.  A caller that left its     *)
(* drain has none of its writes in the queue; one may still be in a batch  *)
(* that somebody else's drain took, and that batch asked for the           *)
(* connection before the caller could.                                     *)
(***************************************************************************)
EXTENDS WriteQueue, FiniteSetTheorems, SequenceTheorems, TLAPS

\* Nobody but a flush is in the sequence twice.
Once(s) == \A i, j \in DOMAIN s : s[i] = s[j] /\ s[i] # Flush => i = j

\* The continuations that are still to run, in the order they will.
Line == resumed \o waiting

\* A caller waits in line once, while its drain goes on.
InLine == Once(Line) /\ \A c \in ToSet(Line) \ {Flush} : pc[c] = "draining"

\* The connection is held and asked for by the batch of the running drain, once, and by each
\* reader whose drain is over, once.  A transaction runs while its batch has the connection.
OnConnection ==
    /\ Once(connection)
    /\ Batch \in ToSet(connection) <=> draining # "none"
    /\ \A r \in Readers : r \in ToSet(connection) <=> pc[r] = "asked"
    /\ draining = "running" => Head(connection) = Batch
    /\ draining = "none" => waiting = <<>>

\* A queued write is in the queue or in the batch; what a drain was called after was accepted.
WritesAreKept ==
    /\ \A w \in Writes : fate[w] = "queued" => w \in ToSet(queue) \cup ToSet(batch)
    /\ \A c \in Callers : prior[c] \subseteq Accepted

\* A caller whose drain is over left none of its writes in the queue.
PriorLeftQueue ==
    \A c \in Callers :
        pc[c] \in {"drained", "asked", "closing", "done"} => prior[c] \cap ToSet(queue) = {}

\* A batch that holds one of a reader's writes is ahead of the reader on the connection.
BatchIsAhead ==
    \A r \in Readers : \A i, j \in DOMAIN connection :
        /\ pc[r] = "asked" /\ prior[r] \cap ToSet(batch) # {}
        /\ connection[i] = Batch /\ connection[j] = r
        => i < j

QueueInv ==
    /\ TypeOK /\ InLine /\ OnConnection /\ WritesAreKept /\ PriorLeftQueue /\ BatchIsAhead

----------------------------------------------------------------------------
\* Names, sequences and finite sets.

\* The flush, the shutdown and the batch are three, and none of them is a reader.
LEMMA Names ==
    /\ Flush # Closer /\ Flush # Batch /\ Closer # Batch
    /\ Flush \notin Readers /\ Closer \notin Readers /\ Batch \notin Readers
<1>1. Cardinality({Flush, Closer, Batch}) = 3
  BY QueueAssumption
<1>2. \A x, y : Cardinality({x, y}) <= 2
  <2> TAKE x, y
  <2>1. IsFiniteSet({x}) /\ Cardinality({x}) = 1
    BY FS_Singleton
  <2>2. Cardinality({x} \cup {y}) <= 2
    BY <2>1, FS_AddElement
  <2>3. {x, y} = {x} \cup {y}
    OBVIOUS
  <2>4. QED
    BY <2>2, <2>3
<1>3. Flush # Closer
  <2> SUFFICES ASSUME Flush = Closer PROVE FALSE
    OBVIOUS
  <2>1. {Flush, Closer, Batch} = {Flush, Batch}
    OBVIOUS
  <2>2. Cardinality({Flush, Batch}) = 3 /\ Cardinality({Flush, Batch}) <= 2
    BY <1>1, <1>2, <2>1
  <2>3. QED
    BY <2>2
<1>4. Flush # Batch
  <2> SUFFICES ASSUME Flush = Batch PROVE FALSE
    OBVIOUS
  <2>1. {Flush, Closer, Batch} = {Flush, Closer}
    OBVIOUS
  <2>2. Cardinality({Flush, Closer}) = 3 /\ Cardinality({Flush, Closer}) <= 2
    BY <1>1, <1>2, <2>1
  <2>3. QED
    BY <2>2
<1>5. Closer # Batch
  <2> SUFFICES ASSUME Closer = Batch PROVE FALSE
    OBVIOUS
  <2>1. {Flush, Closer, Batch} = {Flush, Closer}
    OBVIOUS
  <2>2. Cardinality({Flush, Closer}) = 3 /\ Cardinality({Flush, Closer}) <= 2
    BY <1>1, <1>2, <2>1
  <2>3. QED
    BY <2>2
<1>6. QED
  BY <1>3, <1>4, <1>5, QueueAssumption

\* Who is in a sequence after somebody came in at its end.
LEMMA Appended ==
    ASSUME NEW S, NEW s \in Seq(S), NEW e \in S
    PROVE  /\ Append(s, e) \in Seq(S) /\ Append(s, e) # <<>>
           /\ Len(Append(s, e)) = Len(s) + 1
           /\ DOMAIN s = 1..Len(s) /\ DOMAIN Append(s, e) = 1..(Len(s) + 1)
           /\ \A i \in 1..Len(s) : Append(s, e)[i] = s[i]
           /\ Append(s, e)[Len(s) + 1] = e
           /\ ToSet(Append(s, e)) = ToSet(s) \cup {e}
           /\ s # <<>> => Head(Append(s, e)) = Head(s)
           /\ Head(<<e>>) = e
<1>1. /\ Append(s, e) \in Seq(S) /\ Append(s, e) # <<>>
      /\ Len(Append(s, e)) = Len(s) + 1
      /\ \A i \in 1..Len(s) : Append(s, e)[i] = s[i]
      /\ Append(s, e)[Len(s) + 1] = e
  BY AppendProperties
<1>2. Len(s) \in Nat /\ DOMAIN s = 1..Len(s) /\ DOMAIN Append(s, e) = 1..(Len(s) + 1)
  BY <1>1, LenProperties
<1>3. ToSet(Append(s, e)) = ToSet(s) \cup {e}
  BY <1>1, <1>2 DEF ToSet
<1>4. s # <<>> => Head(Append(s, e)) = Head(s)
  BY HeadTailAppend
<1>5. Head(<<e>>) = e
  OBVIOUS
<1>6. QED
  BY <1>1, <1>2, <1>3, <1>4, <1>5

\* Who is in a sequence after the first one left.
LEMMA Left ==
    ASSUME NEW S, NEW s \in Seq(S), s # <<>>
    PROVE  /\ Tail(s) \in Seq(S) /\ Len(s) \in Nat \ {0} /\ DOMAIN s = 1..Len(s)
           /\ DOMAIN Tail(s) = 1..(Len(s) - 1)
           /\ \A i \in 1..(Len(s) - 1) : Tail(s)[i] = s[i + 1]
           /\ Head(s) = s[1] /\ Head(s) \in S
           /\ ToSet(s) = {Head(s)} \cup ToSet(Tail(s))
<1>1. /\ Tail(s) \in Seq(S) /\ Len(Tail(s)) = Len(s) - 1 /\ Head(s) \in S
      /\ \A i \in 1..Len(Tail(s)) : Tail(s)[i] = s[i + 1]
  BY HeadTailProperties
<1>2. Len(s) \in Nat \ {0} /\ DOMAIN s = 1..Len(s)
  BY EmptySeq, LenProperties
<1>3. DOMAIN Tail(s) = 1..(Len(s) - 1)
  BY <1>1, <1>2, LenProperties
<1>4. Head(s) = s[1]
  BY <1>2
<1>5. \A i \in 2..Len(s) : s[i] = Tail(s)[i - 1] /\ i - 1 \in 1..(Len(s) - 1)
  BY <1>1, <1>2
<1>6. ToSet(s) \subseteq {s[1]} \cup ToSet(Tail(s))
  <2> SUFFICES ASSUME NEW i \in 1..Len(s), i # 1
               PROVE  s[i] \in ToSet(Tail(s))
    BY <1>2 DEF ToSet
  <2>1. i \in 2..Len(s)
    BY <1>2
  <2>2. QED
    BY <1>3, <1>5, <2>1 DEF ToSet
<1>7. {s[1]} \cup ToSet(Tail(s)) \subseteq ToSet(s)
  BY <1>1, <1>2, <1>3 DEF ToSet
<1>8. QED
  BY <1>1, <1>2, <1>3, <1>4, <1>6, <1>7

\* Who is in two sequences, one behind the other.
LEMMA Concatenated ==
    ASSUME NEW S, NEW s \in Seq(S), NEW t \in Seq(S)
    PROVE  s \o t \in Seq(S) /\ ToSet(s \o t) = ToSet(s) \cup ToSet(t)
<1>1. s \o t \in Seq(S)
  BY ConcatProperties
<1>2. Range(s \o t) = Range(s) \cup Range(t)
  BY RangeConcatenation
<1>3. QED
  BY <1>1, <1>2 DEF ToSet, Range

\* A sequence without repetition stays so when its first leaves, or when one comes that is not in
\* it.
LEMMA OnceKept ==
    ASSUME NEW S, NEW s \in Seq(S), Once(s)
    PROVE  /\ \A e \in S : e = Flush \/ e \notin ToSet(s) => Once(Append(s, e))
           /\ s # <<>> => Once(Tail(s)) /\ (Head(s) = Flush \/ Head(s) \notin ToSet(Tail(s)))
<1>1. ASSUME NEW e \in S, e = Flush \/ e \notin ToSet(s)
      PROVE  Once(Append(s, e))
  <2>1. Len(s) \in Nat
    BY LenProperties
  <2>2. QED
    BY <1>1, <2>1, Appended DEF Once, ToSet
<1>2. ASSUME s # <<>>
      PROVE  Once(Tail(s)) /\ (Head(s) = Flush \/ Head(s) \notin ToSet(Tail(s)))
  BY <1>2, Left DEF Once, ToSet
<1>3. QED
  BY <1>1, <1>2

\* The line when a caller comes, when its first goes on, and when its first waits again.
LEMMA LineMoves ==
    ASSUME NEW S, NEW s \in Seq(S), NEW t \in Seq(S), NEW c \in S
    PROVE  /\ s \o Append(t, c) = Append(s \o t, c)
           /\ s # <<>> =>
                /\ s \o t # <<>> /\ Head(s \o t) = Head(s)
                /\ Tail(s) \o t = Tail(s \o t)
<1>1. s \o Append(t, c) = Append(s \o t, c)
  <2>1. Append(t, c) = t \o <<c>> /\ Append(s \o t, c) = (s \o t) \o <<c>>
    BY AppendIsConcat, ConcatProperties
  <2>2. <<c>> \in Seq(S)
    OBVIOUS
  <2>3. QED
    BY <2>1, <2>2, ConcatAssociative
<1>2. ASSUME s # <<>>
      PROVE  s \o t # <<>> /\ Head(s \o t) = Head(s) /\ Tail(s) \o t = Tail(s \o t)
  <2>1. s \o t \in Seq(S) /\ s \o t # <<>>
    BY <1>2, ConcatProperties, ConcatEqualIffEmpty
  <2>2. Head(s \o t) = Head(s)
    BY <1>2, <2>1, Left, ConcatProperties, LenProperties
  <2>3. Tail(s) \in Seq(S) /\ Len(Tail(s)) = Len(s) - 1 /\ Len(s) \in Nat \ {0} /\ Len(t) \in Nat
    BY <1>2, HeadTailProperties, EmptySeq, LenProperties
  <2>4. Tail(s) \o t \in Seq(S) /\ Len(Tail(s) \o t) = Len(s) - 1 + Len(t)
    BY <2>3, ConcatProperties
  <2>5. Tail(s \o t) \in Seq(S) /\ Len(Tail(s \o t)) = Len(s) - 1 + Len(t)
    BY <2>1, <2>3, HeadTailProperties, ConcatProperties
  <2>6. ASSUME NEW i \in 1..(Len(s) - 1 + Len(t))
        PROVE  (Tail(s) \o t)[i] = Tail(s \o t)[i]
    <3>1. Tail(s \o t)[i] = (s \o t)[i + 1]
      BY <2>1, <2>3, <2>5, HeadTailProperties
    <3>2. (s \o t)[i + 1] = IF i + 1 <= Len(s) THEN s[i + 1] ELSE t[i + 1 - Len(s)]
      BY <2>3, ConcatProperties
    <3>3. (Tail(s) \o t)[i] = IF i <= Len(s) - 1 THEN Tail(s)[i] ELSE t[i - (Len(s) - 1)]
      BY <2>3, ConcatProperties
    <3>4. i <= Len(s) - 1 => Tail(s)[i] = s[i + 1]
      BY <1>2, <2>3, HeadTailProperties
    <3>5. QED
      BY <2>3, <3>1, <3>2, <3>3, <3>4
  <2>7. QED
    BY <2>1, <2>2, <2>4, <2>5, <2>6, SeqEqual
<1>3. QED
  BY <1>1, <1>2

\* The batch and the rest of the queue, when a drain takes a batch.
LEMMA Takes ==
    ASSUME queue \in Seq(Writes), queue # <<>>
    PROVE  /\ SubSeq(queue, 1, Taken) \in Seq(Writes) /\ SubSeq(queue, 1, Taken) # <<>>
           /\ Len(SubSeq(queue, 1, Taken)) <= BatchSize
           /\ SubSeq(queue, Taken + 1, Len(queue)) \in Seq(Writes)
           /\ Len(SubSeq(queue, Taken + 1, Len(queue))) <= Len(queue)
           /\ ToSet(queue) = ToSet(SubSeq(queue, 1, Taken))
                             \cup ToSet(SubSeq(queue, Taken + 1, Len(queue)))
<1> DEFINE first == SubSeq(queue, 1, Taken)
           later == SubSeq(queue, Taken + 1, Len(queue))
<1>1. Len(queue) \in Nat \ {0} /\ DOMAIN queue = 1..Len(queue)
  BY EmptySeq, LenProperties
<1>2. Taken \in 1..Len(queue) /\ Taken <= BatchSize
  BY <1>1, QueueAssumption DEF Taken
<1>3. \A i \in 1..Len(queue) : queue[i] \in Writes
  BY ElementOfSeq
<1>4. first \in Seq(Writes) /\ Len(first) = Taken
  BY <1>1, <1>2, <1>3, SubSeqProperties
<1>5. later \in Seq(Writes) /\ Len(later) <= Len(queue)
  BY <1>1, <1>2, <1>3, SubSeqProperties
<1>6. first \o later = SubSeq(queue, 1, Len(queue))
  <2>1. 1 \in 1..(Len(queue) + 1) /\ Taken \in (1 - 1)..Len(queue)
    BY <1>1, <1>2
  <2>2. Len(queue) \in Taken..Len(queue)
    BY <1>1, <1>2
  <2>3. QED
    BY <2>1, <2>2, ConcatAdjacentSubSeq
<1>7. SubSeq(queue, 1, Len(queue)) = queue
  BY SubSeqFull
<1>8. ToSet(queue) = ToSet(first) \cup ToSet(later)
  <2>1. ToSet(first \o later) = ToSet(first) \cup ToSet(later)
    BY <1>4, <1>5, Concatenated
  <2>2. first \o later = queue
    BY <1>6, <1>7
  <2>3. QED
    BY <2>1, <2>2
<1>9. first # <<>>
  BY <1>2, <1>4, EmptySeq
<1>10. QED
  BY <1>2, <1>4, <1>5, <1>8, <1>9

\* A sequence holds no more than its length.
LEMMA AtMostItsLength ==
    ASSUME NEW S, NEW s \in Seq(S)
    PROVE  IsFiniteSet(ToSet(s)) /\ Cardinality(ToSet(s)) <= Len(s) /\ ToSet(s) \subseteq S
<1>1. Len(s) \in Nat /\ DOMAIN s = 1..Len(s) /\ s \in [1..Len(s) -> S]
  BY LenProperties
<1>2. IsFiniteSet(1..Len(s)) /\ Cardinality(1..Len(s)) = Len(s)
  BY <1>1, FS_Interval
<1>3. s \in Surjection(1..Len(s), ToSet(s))
  BY <1>1 DEF ToSet, Surjection
<1>4. IsFiniteSet(ToSet(s)) /\ Cardinality(ToSet(s)) <= Cardinality(1..Len(s))
  BY <1>2, <1>3, FS_Surjection
<1>5. QED
  BY <1>1, <1>2, <1>4 DEF ToSet

----------------------------------------------------------------------------
\* The initial state.

\* At the start nobody is in line, and the connection is free.
LEMMA QueueInit == Init => QueueInv
<1> SUFFICES ASSUME Init PROVE QueueInv
  OBVIOUS
<1>1. TypeOK
  <2>1. Len(<< >>) = 0 /\ MaxDepth \in Nat /\ BatchSize \in Nat
    BY EmptySeq, QueueAssumption
  <2>2. /\ queue \in Seq(Writes) /\ batch \in Seq(Writes)
        /\ connection \in Seq(Readers \cup {Batch})
        /\ waiting \in Seq(Callers \cup {Flush}) /\ resumed \in Seq(Callers \cup {Flush})
    BY EmptySeq DEF Init
  <2>3. Len(queue) <= MaxDepth /\ Len(batch) <= BatchSize
    BY <2>1 DEF Init
  <2>4. /\ fate \in [Writes -> {"new", "refused", "queued", "committed", "lost"}]
        /\ pc \in [Callers -> {"idle", "draining", "drained", "asked", "closing", "done"}]
        /\ prior \in [Callers -> SUBSET Writes] /\ dropped \in Nat
    BY DEF Init
  <2>5. {scheduled, closed, open} \subseteq BOOLEAN
    BY Zenon DEF Init
  <2>6. draining \in {"none", "asked", "running"} /\ (draining = "none") = (batch = <<>>)
    BY DEF Init
  <2>7. QED
    BY <2>2, <2>3, <2>4, <2>5, <2>6 DEF TypeOK
<1>2. Line = <<>>
  BY ConcatEmptySeq DEF Init, Line
<1>3. DOMAIN << >> = {} /\ ToSet(<< >>) = {}
  BY EmptySeq, LenProperties DEF ToSet
<1>4. InLine
  BY <1>2, <1>3 DEF InLine, Once
<1>5. OnConnection
  <2>1. Once(connection)
    BY <1>3 DEF Init, Once
  <2>2. \A r \in Readers : pc[r] = "idle"
    BY DEF Init, Callers
  <2>3. QED
    BY <1>3, <2>1, <2>2 DEF Init, OnConnection
<1>6. WritesAreKept /\ PriorLeftQueue /\ BatchIsAhead
  BY <1>3 DEF Init, WritesAreKept, PriorLeftQueue, BatchIsAhead, Callers
<1>7. QED
  BY <1>1, <1>4, <1>5, <1>6 DEF QueueInv

----------------------------------------------------------------------------
\* enqueue.

\* A write that is accepted is nobody's prior write yet.
LEMMA EnqueueStep ==
    ASSUME QueueInv, NEW w \in Writes, Enqueue(w) PROVE QueueInv'
<1> USE DEF QueueInv, Enqueue, promises
<1>1. TypeOK'
  <2>1. Append(queue, w) \in Seq(Writes) /\ Len(Append(queue, w)) = Len(queue) + 1
    BY Appended DEF TypeOK
  <2>2. Len(queue) \in Nat /\ MaxDepth \in Nat
    BY LenProperties, QueueAssumption DEF TypeOK
  <2>3. QED
    BY <2>1, <2>2 DEF TypeOK
<1>2. InLine'
  BY DEF InLine, Line
<1>3. OnConnection'
  BY DEF OnConnection
<1>4. WritesAreKept'
  <2>1. ToSet(queue') = ToSet(queue) \cup {w}
    BY Appended DEF TypeOK
  <2>2. Accepted \subseteq Accepted'
    BY DEF TypeOK, Accepted
  <2>3. QED
    BY <2>1, <2>2 DEF TypeOK, WritesAreKept
<1>5. PriorLeftQueue'
  <2>1. ToSet(queue') = ToSet(queue) \cup {w}
    BY Appended DEF TypeOK
  <2>2. \A c \in Callers : w \notin prior[c]
    BY DEF WritesAreKept, Accepted
  <2>3. QED
    BY <2>1, <2>2 DEF PriorLeftQueue
<1>6. BatchIsAhead'
  BY DEF BatchIsAhead
<1>7. QED
  BY <1>1, <1>2, <1>3, <1>4, <1>5, <1>6

\* A write that is refused was never in the queue.
LEMMA RefuseStep ==
    ASSUME QueueInv, NEW w \in Writes, Refuse(w) PROVE QueueInv'
<1> USE DEF QueueInv, Refuse, promises
<1>1. TypeOK'
  BY DEF TypeOK
<1>2. InLine'
  BY DEF InLine, Line
<1>3. OnConnection'
  BY DEF OnConnection
<1>4. WritesAreKept'
  <2>1. Accepted \subseteq Accepted'
    BY DEF TypeOK, Accepted
  <2>2. \A v \in Writes : fate'[v] = "queued" => fate[v] = "queued"
    BY DEF TypeOK
  <2>3. QED
    BY <2>1, <2>2 DEF WritesAreKept
<1>5. PriorLeftQueue' /\ BatchIsAhead'
  BY DEF PriorLeftQueue, BatchIsAhead
<1>6. QED
  BY <1>1, <1>2, <1>3, <1>4, <1>5

----------------------------------------------------------------------------
\* drain.

\* What a caller does that joins the running drain, or starts one: it waits last, no write is lost
\* from sight, and a new batch is behind every reader that asked for the connection.
Moved(c, rest) ==
    /\ queue' \in Seq(Writes) /\ Len(queue') <= MaxDepth
    /\ batch' \in Seq(Writes) /\ Len(batch') <= BatchSize /\ batch' # <<>>
    /\ draining' \in {"asked", "running"}
    /\ resumed' = rest /\ waiting' = Append(waiting, c)
    /\ waiting' \in Seq(Callers \cup {Flush})
    /\ connection' \in Seq(Readers \cup {Batch})
    /\ ToSet(queue') \subseteq ToSet(queue)
    /\ ToSet(queue) \cup ToSet(batch) \subseteq ToSet(queue') \cup ToSet(batch')
    /\ Once(connection') /\ ToSet(connection') = ToSet(connection) \cup {Batch}
    /\ draining' = "running" => Head(connection') = Batch
    /\ \A r \in Readers : \A i, j \in DOMAIN connection' :
         /\ pc[r] = "asked" /\ prior[r] \cap ToSet(batch') # {}
         /\ connection'[i] = Batch /\ connection'[j] = r
         => i < j

\* Joining a drain and starting one both do that.
LEMMA DrainMoves ==
    ASSUME QueueInv, NEW c \in Callers \cup {Flush}, NEW rest,
           Join(c, rest) \/ StartDrain(c, rest)
    PROVE  Moved(c, rest)
<1> USE DEF QueueInv, Moved
<1>1. waiting \in Seq(Callers \cup {Flush}) /\ Append(waiting, c) \in Seq(Callers \cup {Flush})
  BY Appended DEF TypeOK
<1>2. CASE Join(c, rest)
  BY <1>1, <1>2 DEF Join, TypeOK, OnConnection, BatchIsAhead
<1>3. CASE StartDrain(c, rest)
  <2> USE <1>3 DEF StartDrain
  <2>1. /\ batch' \in Seq(Writes) /\ batch' # <<>> /\ Len(batch') <= BatchSize
        /\ queue' \in Seq(Writes) /\ Len(queue') <= Len(queue)
        /\ ToSet(queue) = ToSet(batch') \cup ToSet(queue')
    BY Takes DEF TypeOK
  <2>2. Len(queue') <= MaxDepth
    <3>1. Len(queue) \in Nat /\ Len(queue') \in Nat /\ Len(queue) <= MaxDepth
      BY <2>1, LenProperties DEF TypeOK
    <3>2. QED
      BY <2>1, <3>1, QueueAssumption
  <2>3. batch = <<>> /\ ToSet(batch) = {}
    BY EmptySeq, LenProperties DEF TypeOK, ToSet
  <2>4. waiting' = Append(waiting, c)
    BY DEF OnConnection
  <2>5. /\ connection' \in Seq(Readers \cup {Batch})
        /\ ToSet(connection') = ToSet(connection) \cup {Batch}
    BY Appended DEF TypeOK
  <2>6. Once(connection')
    BY OnceKept DEF TypeOK, OnConnection
  <2>7. \A r \in Readers : pc[r] = "asked" => prior[r] \cap ToSet(batch') = {}
    BY <2>1 DEF PriorLeftQueue, Callers
  <2>8. QED
    BY <1>1, <2>1, <2>2, <2>3, <2>4, <2>5, <2>6, <2>7
<1>4. QED
  BY <1>2, <1>3

\* A flush waits for the drain it started or found, and nobody awaits it.
LEMMA FlushNowStep == ASSUME QueueInv, FlushNow PROVE QueueInv'
<1> USE DEF QueueInv
<1>1. CASE Nothing(resumed)
  <2> USE <1>1 DEF FlushNow, Nothing
  <2>1. TypeOK'
    BY DEF TypeOK
  <2>2. InLine' /\ OnConnection'
    BY DEF InLine, Line, OnConnection
  <2>3. WritesAreKept' /\ PriorLeftQueue' /\ BatchIsAhead'
    BY DEF WritesAreKept, Accepted, PriorLeftQueue, BatchIsAhead
  <2>4. QED
    BY <2>1, <2>2, <2>3
<1>2. CASE Join(Flush, resumed) \/ StartDrain(Flush, resumed)
  <2> HIDE DEF QueueInv
  <2>1. UNCHANGED <<fate, pc, prior, closed, open, dropped>> /\ scheduled' = FALSE
    BY DEF FlushNow
  <2>2. Moved(Flush, resumed)
    BY <1>2, DrainMoves
  <2> USE DEF QueueInv, Moved
  <2>3. TypeOK'
    BY <2>1, <2>2 DEF TypeOK
  <2>4. InLine'
    <3>1. resumed \in Seq(Callers \cup {Flush}) /\ waiting \in Seq(Callers \cup {Flush})
      BY DEF TypeOK
    <3>2. Line \in Seq(Callers \cup {Flush}) /\ Line' = resumed \o Append(waiting, Flush)
      BY <2>2, <3>1, Concatenated DEF Line
    <3>3. Line' = Append(Line, Flush)
      BY <3>1, <3>2, LineMoves DEF Line
    <3>4. Once(Line') /\ ToSet(Line') = ToSet(Line) \cup {Flush}
      BY <3>2, <3>3, OnceKept, Appended DEF InLine
    <3>5. QED
      BY <2>1, <3>4 DEF InLine
  <2>5. OnConnection'
    BY <2>1, <2>2, Names DEF OnConnection
  <2>6. WritesAreKept' /\ PriorLeftQueue'
    BY <2>1, <2>2 DEF WritesAreKept, Accepted, PriorLeftQueue
  <2>7. BatchIsAhead'
    BY <2>1, <2>2 DEF BatchIsAhead
  <2>8. QED
    BY <2>3, <2>4, <2>5, <2>6, <2>7
<1>3. QED
  BY <1>1, <1>2 DEF FlushNow

\* A caller that gets in line.
LEMMA DrainStep ==
    ASSUME QueueInv, NEW c \in Callers, Drain(c) PROVE QueueInv'
<1> USE DEF QueueInv
<1>1. c # Flush /\ (\A r \in Readers : r \in Callers) /\ c \notin ToSet(Line)
  BY Names DEF Callers, InLine, Drain
<1>2. Accepted \subseteq Writes
  BY DEF Accepted
<1>3. CASE Nothing(resumed) /\ Resolved(c)
  <2> USE <1>1, <1>3 DEF Drain, Nothing, Resolved
  <2>1. TypeOK'
    BY <1>2 DEF TypeOK
  <2>2. InLine'
    BY DEF InLine, Line, TypeOK
  <2>3. OnConnection'
    BY DEF OnConnection, TypeOK
  <2>4. WritesAreKept'
    BY DEF WritesAreKept, Accepted, TypeOK
  <2>5. PriorLeftQueue'
    <3>1. ToSet(queue) = {}
      BY EmptySeq, LenProperties DEF ToSet
    <3>2. QED
      BY <3>1 DEF PriorLeftQueue
  <2>6. BatchIsAhead'
    BY DEF BatchIsAhead, TypeOK
  <2>7. QED
    BY <2>1, <2>2, <2>3, <2>4, <2>5, <2>6
<1>4. CASE (Join(c, resumed) \/ StartDrain(c, resumed)) /\ pc' = [pc EXCEPT ![c] = "draining"]
  <2> HIDE DEF QueueInv
  <2>1. /\ UNCHANGED <<fate, scheduled, closed, open, dropped>> /\ pc[c] = "idle"
        /\ prior' = [prior EXCEPT ![c] = Accepted] /\ pc' = [pc EXCEPT ![c] = "draining"]
    BY <1>4 DEF Drain
  <2>2. Moved(c, resumed)
    BY <1>4, DrainMoves
  <2> USE DEF QueueInv, Moved
  <2>3. TypeOK'
    BY <1>2, <2>1, <2>2 DEF TypeOK
  <2>4. InLine'
    <3>1. resumed \in Seq(Callers \cup {Flush}) /\ waiting \in Seq(Callers \cup {Flush})
      BY DEF TypeOK
    <3>2. Line \in Seq(Callers \cup {Flush}) /\ Line' = resumed \o Append(waiting, c)
      BY <2>2, <3>1, Concatenated DEF Line
    <3>3. Line' = Append(Line, c)
      <4>1. \A s, t \in Seq(Callers \cup {Flush}) : s \o Append(t, c) = Append(s \o t, c)
        BY LineMoves
      <4>2. QED
        BY <3>1, <3>2, <4>1 DEF Line
    <3>4. Once(Line') /\ ToSet(Line') = ToSet(Line) \cup {c}
      BY <1>1, <3>2, <3>3, OnceKept, Appended DEF InLine
    <3>5. ToSet(Line) \subseteq Callers \cup {Flush}
      BY <3>2, AtMostItsLength
    <3>6. QED
      BY <2>1, <3>4, <3>5 DEF InLine, TypeOK
  <2>5. OnConnection'
    BY <1>1, <2>1, <2>2, Names DEF OnConnection, TypeOK
  <2>6. WritesAreKept'
    BY <2>1, <2>2 DEF WritesAreKept, Accepted, TypeOK
  <2>7. PriorLeftQueue'
    BY <2>1, <2>2 DEF PriorLeftQueue, TypeOK
  <2>8. BatchIsAhead'
    BY <1>1, <2>1, <2>2 DEF BatchIsAhead, TypeOK
  <2>9. QED
    BY <2>3, <2>4, <2>5, <2>6, <2>7, <2>8
<1>5. QED
  BY <1>3, <1>4 DEF Drain

\* The next in line goes on, or waits again.
LEMMA ResumeStep == ASSUME QueueInv, Resume PROVE QueueInv'
<1> USE DEF QueueInv
<1>1. /\ resumed # <<>> /\ resumed \in Seq(Callers \cup {Flush})
      /\ waiting \in Seq(Callers \cup {Flush})
  BY DEF Resume, TypeOK
<1>2. Head(resumed) \in Callers \cup {Flush} /\ Tail(resumed) \in Seq(Callers \cup {Flush})
  BY <1>1, Left
<1>3. PICK c \in Callers \cup {Flush}, rest \in Seq(Callers \cup {Flush}) :
        c = Head(resumed) /\ rest = Tail(resumed)
  BY <1>2
<1>4. UNCHANGED <<fate, scheduled, prior, closed, open, dropped>>
  BY DEF Resume
<1>5. /\ Line # <<>> /\ Line \in Seq(Callers \cup {Flush}) /\ Head(Line) = c
      /\ rest \o waiting = Tail(Line) /\ rest \o Append(waiting, c) = Append(Tail(Line), c)
  <2>1. Line # <<>> /\ Head(Line) = c /\ rest \o waiting = Tail(Line)
    BY <1>1, <1>3, LineMoves DEF Line
  <2>2. rest \o Append(waiting, c) = Append(rest \o waiting, c)
    BY <1>1, <1>3, LineMoves
  <2>3. QED
    BY <1>1, <2>1, <2>2, Concatenated DEF Line
<1>6. /\ Tail(Line) \in Seq(Callers \cup {Flush}) /\ ToSet(Line) = {c} \cup ToSet(Tail(Line))
      /\ Once(Tail(Line)) /\ (c = Flush \/ c \notin ToSet(Tail(Line)))
  BY <1>5, Left, OnceKept DEF InLine
<1>7. CASE queue = <<>> /\ resumed' = rest /\ Resolved(c)
           /\ UNCHANGED <<queue, batch, draining, waiting, connection>>
  <2> USE <1>4, <1>7 DEF Resolved
  <2>1. TypeOK'
    BY <1>3 DEF TypeOK
  <2>2. c # Flush => pc[c] = "draining" /\ c \in Callers
    BY <1>3, <1>6 DEF InLine
  <2>3. InLine'
    <3>1. Line' = Tail(Line)
      BY <1>5 DEF Line
    <3>2. ToSet(Tail(Line)) \subseteq Callers \cup {Flush}
      BY <1>6, AtMostItsLength
    <3>3. QED
      BY <1>6, <3>1, <3>2 DEF InLine, TypeOK
  <2>4. OnConnection'
    BY <2>2 DEF OnConnection, TypeOK, Callers
  <2>5. WritesAreKept'
    BY DEF WritesAreKept, Accepted
  <2>6. PriorLeftQueue'
    <3>1. ToSet(queue) = {}
      BY EmptySeq, LenProperties DEF ToSet
    <3>2. QED
      BY <3>1 DEF PriorLeftQueue
  <2>7. BatchIsAhead'
    BY DEF BatchIsAhead, TypeOK, Callers
  <2>8. QED
    BY <2>1, <2>3, <2>4, <2>5, <2>6, <2>7
<1>8. CASE (Join(c, rest) \/ StartDrain(c, rest)) /\ UNCHANGED pc
  <2> HIDE DEF QueueInv
  <2>2. Moved(c, rest)
    BY <1>8, DrainMoves
  <2> USE <1>4 DEF QueueInv, Moved
  <2>3. TypeOK'
    BY <1>3, <1>8, <2>2 DEF TypeOK
  <2>4. InLine'
    <3>1. Line' = Append(Tail(Line), c)
      BY <1>5, <2>2 DEF Line
    <3>2. Once(Append(Tail(Line), c))
      BY <1>3, <1>6, OnceKept
    <3>3. ToSet(Append(Tail(Line), c)) = ToSet(Line)
      <4>1. \A s \in Seq(Callers \cup {Flush}) : ToSet(Append(s, c)) = ToSet(s) \cup {c}
        BY <1>3, Appended
      <4>2. QED
        BY <1>6, <4>1
    <3>4. QED
      BY <1>8, <3>1, <3>2, <3>3 DEF InLine
  <2>5. OnConnection'
    BY <1>8, <2>2, Names DEF OnConnection
  <2>6. WritesAreKept' /\ PriorLeftQueue'
    BY <1>8, <2>2 DEF WritesAreKept, Accepted, PriorLeftQueue
  <2>7. BatchIsAhead'
    BY <1>8, <2>2 DEF BatchIsAhead
  <2>8. QED
    BY <2>3, <2>4, <2>5, <2>6, <2>7
<1>9. QED
  BY <1>3, <1>7, <1>8 DEF Resume

----------------------------------------------------------------------------
\* The transaction of a batch, and the end of its drain.

\* The transaction begins; the batch stays where it is.
LEMMA BeginStep == ASSUME QueueInv, Begin PROVE QueueInv'
<1> USE DEF QueueInv, Begin
<1>1. TypeOK'
  BY DEF TypeOK
<1>2. InLine' /\ OnConnection'
  BY DEF InLine, Line, OnConnection
<1>3. WritesAreKept' /\ PriorLeftQueue' /\ BatchIsAhead'
  BY DEF WritesAreKept, Accepted, PriorLeftQueue, BatchIsAhead
<1>4. QED
  BY <1>1, <1>2, <1>3

\* A drain ends while its batch has the connection; the continuations of its callers run next.
LEMMA EndStep ==
    ASSUME QueueInv, NEW lost \in SUBSET ToSet(batch), NEW count \in Nat, End(lost, count),
           draining # "none", Head(connection) = Batch
    PROVE  QueueInv'
<1> USE DEF QueueInv, End
<1>1. connection # <<>> /\ connection \in Seq(Readers \cup {Batch})
  <2>1. ToSet(connection) # {} /\ ToSet(<< >>) = {}
    BY EmptySeq, LenProperties DEF OnConnection, ToSet
  <2>2. QED
    BY <2>1 DEF TypeOK
<1>2. /\ Tail(connection) \in Seq(Readers \cup {Batch})
      /\ ToSet(connection) = {Batch} \cup ToSet(Tail(connection))
      /\ Once(Tail(connection)) /\ Batch \notin ToSet(Tail(connection))
  BY <1>1, Left, OnceKept, Names DEF OnConnection
<1>3. ToSet(batch') = {}
  BY EmptySeq, LenProperties DEF ToSet
<1>4. TypeOK'
  <2>1. << >> \in Seq(Writes) /\ Len(<< >>) = 0 /\ BatchSize \in Nat
    BY EmptySeq, QueueAssumption
  <2>2. waiting' \in Seq(Callers \cup {Flush}) /\ resumed' \in Seq(Callers \cup {Flush})
    BY EmptySeq, Concatenated DEF TypeOK
  <2>3. connection' \in Seq(Readers \cup {Batch})
    BY <1>2
  <2>4. fate' \in [Writes -> {"new", "refused", "queued", "committed", "lost"}]
    BY DEF TypeOK
  <2>5. dropped' \in Nat
    BY DEF TypeOK
  <2>6. QED
    BY <2>1, <2>2, <2>3, <2>4, <2>5 DEF TypeOK
<1>5. InLine'
  <2>1. Line' = resumed'
    <3>1. resumed' \in Seq(Callers \cup {Flush}) /\ waiting' = <<>>
      BY <1>4 DEF TypeOK
    <3>2. QED
      BY <3>1, ConcatEmptySeq DEF Line
  <2>2. resumed' = Line
    BY DEF Line
  <2>3. QED
    BY <2>1, <2>2 DEF InLine
<1>6. OnConnection'
  BY <1>2, Names DEF OnConnection
<1>7. WritesAreKept'
  <2>1. \A w \in Writes : fate'[w] = "queued" => fate[w] = "queued" /\ w \notin ToSet(batch)
    BY DEF TypeOK
  <2>2. Accepted \subseteq Accepted'
    BY DEF TypeOK, Accepted
  <2>3. QED
    BY <2>1, <2>2 DEF WritesAreKept
<1>8. PriorLeftQueue' /\ BatchIsAhead'
  BY <1>3 DEF PriorLeftQueue, BatchIsAhead
<1>9. QED
  BY <1>4, <1>5, <1>6, <1>7, <1>8

\* What Commit and Fail count is at least what they lose.
LEMMA EndsCounted ==
    ASSUME QueueInv, Commit \/ Fail
    PROVE  \E lost \in SUBSET ToSet(batch), count \in Nat :
             /\ End(lost, count) /\ Cardinality(lost) <= count
             /\ draining # "none" /\ Head(connection) = Batch
<1> USE DEF QueueInv
<1>1. /\ IsFiniteSet(ToSet(batch)) /\ Cardinality(ToSet(batch)) \in Nat
      /\ Len(batch) \in Nat /\ Cardinality(ToSet(batch)) <= Len(batch)
  BY AtMostItsLength, FS_CardinalityType, LenProperties DEF TypeOK
<1>2. \A thrown \in SUBSET ToSet(batch) : Cardinality(thrown) \in Nat
  BY <1>1, FS_Subset, FS_CardinalityType
<1>3. CASE Commit
  BY <1>2, <1>3 DEF Commit, OnConnection
<1>4. ASSUME draining = "asked", Head(connection) = Batch, End(ToSet(batch), Len(batch))
      PROVE  \E lost \in SUBSET ToSet(batch), count \in Nat :
               /\ End(lost, count) /\ Cardinality(lost) <= count
               /\ draining # "none" /\ Head(connection) = Batch
  BY <1>1, <1>4
<1>5. ASSUME draining = "running", NEW thrown \in SUBSET ToSet(batch),
             End(ToSet(batch), Len(batch) + Cardinality(thrown))
      PROVE  \E lost \in SUBSET ToSet(batch), count \in Nat :
               /\ End(lost, count) /\ Cardinality(lost) <= count
               /\ draining # "none" /\ Head(connection) = Batch
  <2>1. /\ Len(batch) + Cardinality(thrown) \in Nat
        /\ Cardinality(ToSet(batch)) <= Len(batch) + Cardinality(thrown)
    BY <1>1, <1>2
  <2>2. QED
    BY <1>5, <2>1 DEF OnConnection
<1>6. QED
  BY <1>3, <1>4, <1>5 DEF Fail

----------------------------------------------------------------------------
\* A reader after its drain, and the shutdown.

\* A reader asks for the connection behind whoever has it, its batch included.
LEMMA AskStep ==
    ASSUME QueueInv, NEW r \in Readers, Ask(r) PROVE QueueInv'
<1> USE DEF QueueInv, Ask, promises
<1>1. r \in Callers /\ r # Flush /\ r # Batch /\ (\A q \in Readers : q \in Callers)
  BY Names DEF Callers
<1>2. r \notin ToSet(connection)
  BY DEF OnConnection
<1>3. /\ Append(connection, r) \in Seq(Readers \cup {Batch})
      /\ Len(connection) \in Nat /\ DOMAIN connection = 1..Len(connection)
      /\ DOMAIN Append(connection, r) = 1..(Len(connection) + 1)
      /\ \A i \in 1..Len(connection) : Append(connection, r)[i] = connection[i]
      /\ Append(connection, r)[Len(connection) + 1] = r
      /\ ToSet(Append(connection, r)) = ToSet(connection) \cup {r}
      /\ connection # <<>> => Head(Append(connection, r)) = Head(connection)
  <2>1. connection \in Seq(Readers \cup {Batch}) /\ r \in Readers \cup {Batch}
    BY DEF TypeOK
  <2> HIDE DEF QueueInv, Ask
  <2>2. QED
    BY <2>1, Appended, LenProperties
<1>4. TypeOK'
  BY <1>3 DEF TypeOK
<1>5. InLine'
  BY DEF InLine, Line, TypeOK
<1>6. OnConnection'
  <2>1. Once(connection')
    BY <1>2, OnceKept DEF TypeOK, OnConnection
  <2>2. draining = "running" => connection # <<>>
    <3>1. ToSet(<< >>) = {}
      BY EmptySeq, LenProperties DEF ToSet
    <3>2. QED
      BY <3>1 DEF OnConnection
  <2>3. \A q \in Readers : q \in ToSet(connection') <=> pc'[q] = "asked"
    BY <1>1, <1>3 DEF OnConnection, TypeOK
  <2>4. QED
    BY <1>1, <1>3, <2>1, <2>2, <2>3 DEF OnConnection
<1>7. WritesAreKept'
  BY DEF WritesAreKept, Accepted
<1>8. PriorLeftQueue'
  BY <1>1 DEF PriorLeftQueue, TypeOK
<1>9. BatchIsAhead'
  <2> SUFFICES ASSUME NEW q \in Readers, NEW i \in DOMAIN connection', NEW j \in DOMAIN connection',
                      pc'[q] = "asked", prior[q] \cap ToSet(batch) # {},
                      connection'[i] = Batch, connection'[j] = q
               PROVE  i < j
    BY DEF BatchIsAhead
  <2>1. i \in 1..Len(connection) /\ connection[i] = Batch
    BY <1>1, <1>3
  <2>2. CASE j = Len(connection) + 1
    BY <1>3, <2>1, <2>2
  <2>3. CASE j \in 1..Len(connection)
    <3>1. connection[j] = q /\ q \in ToSet(connection)
      BY <1>3, <2>3 DEF ToSet
    <3>2. pc[q] = "asked"
      BY <3>1 DEF OnConnection
    <3>3. QED
      BY <1>3, <2>1, <2>3, <3>1, <3>2 DEF BatchIsAhead
  <2>4. QED
    BY <1>3, <2>2, <2>3
<1>10. QED
  BY <1>4, <1>5, <1>6, <1>7, <1>8, <1>9

\* A query gives up the connection; the others move up by one.
LEMMA QueryStep ==
    ASSUME QueueInv, NEW r \in Readers, Query(r) PROVE QueueInv'
<1> USE DEF QueueInv, Query, promises
<1>1. r \in Callers /\ r # Flush /\ r # Batch /\ (\A q \in Readers : q \in Callers)
  BY Names DEF Callers
<1>2. connection # <<>> /\ connection \in Seq(Readers \cup {Batch})
  <2>1. ToSet(connection) # {} /\ ToSet(<< >>) = {}
    BY EmptySeq, LenProperties DEF OnConnection, ToSet
  <2>2. QED
    BY <2>1 DEF TypeOK
<1>3. /\ Tail(connection) \in Seq(Readers \cup {Batch})
      /\ Len(connection) \in Nat \ {0} /\ DOMAIN connection = 1..Len(connection)
      /\ DOMAIN Tail(connection) = 1..(Len(connection) - 1)
      /\ \A i \in 1..(Len(connection) - 1) : Tail(connection)[i] = connection[i + 1]
      /\ ToSet(connection) = {r} \cup ToSet(Tail(connection))
      /\ Once(Tail(connection)) /\ r \notin ToSet(Tail(connection))
  BY <1>1, <1>2, Left, OnceKept DEF OnConnection
<1>4. TypeOK'
  BY <1>3 DEF TypeOK
<1>5. InLine'
  BY DEF InLine, Line, TypeOK
<1>6. OnConnection'
  <2>1. draining # "running"
    BY <1>1 DEF OnConnection
  <2>2. \A q \in Readers : q \in ToSet(connection') <=> pc'[q] = "asked"
    BY <1>1, <1>3 DEF OnConnection, TypeOK
  <2>3. QED
    BY <1>1, <1>3, <2>1, <2>2 DEF OnConnection
<1>7. WritesAreKept' /\ PriorLeftQueue'
  BY <1>1 DEF WritesAreKept, Accepted, PriorLeftQueue, TypeOK
<1>8. BatchIsAhead'
  <2> SUFFICES ASSUME NEW q \in Readers, NEW i \in DOMAIN connection', NEW j \in DOMAIN connection',
                      pc'[q] = "asked", prior'[q] \cap ToSet(batch) # {},
                      connection'[i] = Batch, connection'[j] = q
               PROVE  i < j
    BY DEF BatchIsAhead
  <2>1. q # r /\ pc[q] = "asked" /\ prior[q] \cap ToSet(batch) # {}
    BY <1>1 DEF TypeOK
  <2>2. connection[i + 1] = Batch /\ connection[j + 1] = q
        /\ i + 1 \in DOMAIN connection /\ j + 1 \in DOMAIN connection
    BY <1>3
  <2>3. i + 1 < j + 1
    BY <2>1, <2>2 DEF BatchIsAhead
  <2>4. QED
    BY <1>3, <2>3
<1>9. QED
  BY <1>4, <1>5, <1>6, <1>7, <1>8

\* The shutdown was not in line any more.
LEMMA CloseStep ==
    ASSUME QueueInv, Close \/ CloseDatabase PROVE QueueInv'
<1> USE DEF QueueInv, Close, CloseDatabase, promises
<1>1. Closer \in Callers /\ (\A r \in Readers : r \in Callers /\ r # Closer)
  BY Names DEF Callers
<1>2. TypeOK'
  BY <1>1 DEF TypeOK
<1>3. InLine'
  <2>1. Line' = Line /\ Closer \notin ToSet(Line)
    BY <1>1, Names DEF InLine, Line
  <2>2. ToSet(Line) \subseteq Callers \cup {Flush}
    BY Concatenated, AtMostItsLength DEF Line, TypeOK
  <2>3. \A c \in Callers \ {Closer} : pc'[c] = pc[c]
    BY DEF TypeOK
  <2>4. QED
    BY <2>1, <2>2, <2>3 DEF InLine
<1>4. OnConnection'
  BY <1>1 DEF OnConnection, TypeOK
<1>5. WritesAreKept' /\ PriorLeftQueue'
  BY <1>1 DEF WritesAreKept, Accepted, PriorLeftQueue, TypeOK
<1>6. BatchIsAhead'
  BY <1>1 DEF BatchIsAhead, TypeOK
<1>7. QED
  BY <1>2, <1>3, <1>4, <1>5, <1>6

----------------------------------------------------------------------------
\* The theorems.

\* Each step preserves the invariant.
LEMMA QueueStep == QueueInv /\ [Next]_vars => QueueInv'
<1> SUFFICES ASSUME QueueInv, [Next]_vars PROVE QueueInv'
  OBVIOUS
<1>1. ASSUME NEW w \in Writes, Enqueue(w) \/ Refuse(w) PROVE QueueInv'
  BY <1>1, EnqueueStep, RefuseStep
<1>2. CASE FlushNow \/ Resume \/ Begin
  BY <1>2, FlushNowStep, ResumeStep, BeginStep
<1>3. CASE Commit \/ Fail
  BY <1>3, EndsCounted, EndStep
<1>4. ASSUME NEW c \in Callers, Drain(c) PROVE QueueInv'
  BY <1>4, DrainStep
<1>5. ASSUME NEW r \in Readers, Ask(r) \/ Query(r) PROVE QueueInv'
  BY <1>5, AskStep, QueryStep
<1>6. CASE Close \/ CloseDatabase
  BY <1>6, CloseStep
<1>7. CASE UNCHANGED vars
  <2> USE <1>7 DEF vars, promises, QueueInv
  <2>1. TypeOK'
    BY DEF TypeOK
  <2>2. InLine' /\ OnConnection'
    BY DEF InLine, Line, OnConnection
  <2>3. WritesAreKept' /\ PriorLeftQueue' /\ BatchIsAhead'
    BY DEF WritesAreKept, Accepted, PriorLeftQueue, BatchIsAhead
  <2>4. QED
    BY <2>1, <2>2, <2>3
<1>8. QED
  BY <1>1, <1>2, <1>3, <1>4, <1>5, <1>6, <1>7 DEF Next

\* The inductive invariant holds: who is in line and on the connection, and which writes are ahead
\* of whom.
THEOREM QueueInvariant == Spec => []QueueInv
  BY QueueInit, QueueStep, PTL DEF Spec

\* Types; the queue stays within maxDepth, and a batch within batchSize is taken by at most one
\* drain at a time.
THEOREM QueueTypes == Spec => []TypeOK
<1>1. QueueInv => TypeOK
  BY DEF QueueInv
<1>2. QED
  BY <1>1, QueueInvariant, PTL

\* "Reads call drain first so they observe every prior write": when a query runs, every write
\* accepted before its drain was called has settled, whoever drained it; and when the queue closes,
\* those of the shutdown have left it.
THEOREM QueriesFollowPriorWrites == Spec => DrainsTakePriorWrites
<1>1. ASSUME QueueInv, [Next]_vars,
             NEW r \in Readers, pc[r] = "asked", pc'[r] = "idle", NEW w \in prior[r]
      PROVE  Settled(w)
  <2> USE DEF QueueInv
  <2>1. Query(r)
    <3> USE DEF TypeOK
    <3>1. r \in Callers /\ r # Closer /\ \A q \in Readers : q \in Callers
      BY Names DEF Callers
    <3>2. CASE UNCHANGED pc
      BY <1>1, <3>2
    <3>3. ASSUME NEW q \in Readers, Query(q) PROVE Query(r)
      BY <1>1, <3>1, <3>3 DEF Query
    <3>4. ASSUME NEW q \in Readers, Ask(q) PROVE FALSE
      BY <1>1, <3>1, <3>4 DEF Ask
    <3>5. ASSUME NEW c \in Callers, Drain(c) PROVE FALSE
      BY <1>1, <3>1, <3>5 DEF Drain, Resolved
    <3>6. CASE Resume
      BY <1>1, <3>1, <3>6 DEF Resume, Resolved
    <3>7. CASE Close \/ CloseDatabase
      BY <1>1, <3>1, <3>7 DEF Close, CloseDatabase
    <3>8. CASE \/ \E v \in Writes : Enqueue(v) \/ Refuse(v)
               \/ FlushNow \/ Begin \/ Commit \/ Fail \/ UNCHANGED vars
      BY <3>2, <3>8 DEF Enqueue, Refuse, FlushNow, Begin, Commit, Fail, End, vars
    <3>9. QED
      BY <1>1, <3>3, <3>4, <3>5, <3>6, <3>7, <3>8 DEF Next
  <2>2. r \in Callers /\ r # Batch
    BY Names DEF Callers
  <2>3. connection # <<>> /\ connection \in Seq(Readers \cup {Batch})
    <3>1. ToSet(connection) # {} /\ ToSet(<< >>) = {}
      BY <1>1, EmptySeq, LenProperties DEF OnConnection, ToSet
    <3>2. QED
      BY <1>1, <3>1 DEF TypeOK
  <2>4. connection[1] = r /\ 1 \in DOMAIN connection /\ DOMAIN connection \subseteq Nat \ {0}
    BY <2>1, <2>3, Left DEF Query
  <2>5. w \notin ToSet(queue)
    BY <1>1, <2>2 DEF PriorLeftQueue
  <2>6. w \notin ToSet(batch)
    <3> SUFFICES ASSUME w \in ToSet(batch) PROVE FALSE
      OBVIOUS
    <3>1. draining # "none"
      <4>1. ToSet(<< >>) = {}
        BY EmptySeq, LenProperties DEF ToSet
      <4>2. QED
        BY <1>1, <4>1 DEF TypeOK
    <3>2. PICK i \in DOMAIN connection : connection[i] = Batch
      BY <1>1, <3>1 DEF OnConnection, ToSet
    <3>3. i < 1
      BY <1>1, <2>4, <3>2 DEF BatchIsAhead
    <3>4. QED
      BY <2>4, <3>3
  <2>7. w \in Writes /\ fate[w] # "queued"
    BY <1>1, <2>2, <2>5, <2>6 DEF TypeOK, WritesAreKept
  <2>8. fate[w] # "new" /\ fate[w] # "refused"
    BY <1>1, <2>2 DEF WritesAreKept, Accepted
  <2>9. QED
    BY <1>1, <2>7, <2>8 DEF TypeOK, Settled
<1>2. ASSUME QueueInv, [Next]_vars, closed', ~closed
      PROVE  prior[Closer] \cap ToSet(queue) = {}
  <2>1. Close
    BY <1>2 DEF Next, vars, Enqueue, Refuse, FlushNow, Resume, Begin, Commit, Fail, End, Drain,
                Ask, Query, CloseDatabase
  <2>2. QED
    BY <1>2, <2>1 DEF Close, QueueInv, PriorLeftQueue, Callers
<1>3. QueueInv /\ [Next]_vars =>
        [/\ \A r \in Readers :
              pc[r] = "asked" /\ pc'[r] = "idle" => \A w \in prior[r] : Settled(w)
         /\ closed' /\ ~closed => prior[Closer] \cap ToSet(queue) = {}]_vars
  BY <1>1, <1>2
<1>4. QED
  BY <1>3, QueueInvariant, PTL DEF Spec, DrainsTakePriorWrites

\* No write is lost uncounted: dropped_writes is at least the number of writes that were refused or
\* lost, through failing jobs, failing transactions and a database that closes under a batch.
THEOREM LossesCounted == Spec => []LossesAreCounted
<1> DEFINE Gone == {w \in Writes : fate[w] \in {"lost", "refused"}}
<1>1. Init => LossesAreCounted
  <2> SUFFICES ASSUME Init PROVE LossesAreCounted
    OBVIOUS
  <2>1. Gone = {}
    BY DEF Init
  <2>2. Cardinality(Gone) = 0
    BY <2>1, FS_EmptySet
  <2>3. QED
    BY <2>2 DEF Init, LossesAreCounted
<1>2. ASSUME QueueInv, LossesAreCounted, [Next]_vars PROVE LossesAreCounted'
  <2> USE DEF LossesAreCounted
  <2>1. /\ IsFiniteSet(Gone) /\ Cardinality(Gone) \in Nat
        /\ IsFiniteSet(Gone') /\ Cardinality(Gone') \in Nat
    <3>1. MaxWrites \in Int /\ 1 \in Int
      BY QueueAssumption
    <3>2. IsFiniteSet(Writes)
      BY <3>1, FS_Interval DEF Writes
    <3>3. Gone \in SUBSET Writes /\ Gone' \in SUBSET Writes
      OBVIOUS
    <3>4. IsFiniteSet(Gone) /\ IsFiniteSet(Gone')
      BY <3>2, <3>3, FS_Subset
    <3>5. QED
      BY <3>4, FS_CardinalityType
  <2>2. dropped \in Nat /\ Cardinality(Gone) <= dropped
    BY <1>2 DEF QueueInv, TypeOK
  <2>3. ASSUME NEW w \in Writes, Refuse(w) PROVE LossesAreCounted'
    <3>1. Gone' = Gone \cup {w} /\ dropped' = dropped + 1
      BY <1>2, <2>3 DEF Refuse, QueueInv, TypeOK
    <3>2. Cardinality(Gone') <= Cardinality(Gone) + 1
      BY <2>1, <3>1, FS_AddElement
    <3>3. QED
      BY <2>1, <2>2, <3>1, <3>2
  <2>4. CASE Commit \/ Fail
    <3>1. PICK lost \in SUBSET ToSet(batch), count \in Nat :
            End(lost, count) /\ Cardinality(lost) <= count
      BY <1>2, <2>4, EndsCounted
    <3>2. Gone' \subseteq Gone \cup lost /\ dropped' = dropped + count
      BY <3>1 DEF End
    <3>3. IsFiniteSet(lost) /\ Cardinality(lost) \in Nat
      BY <1>2, AtMostItsLength, FS_Subset, FS_CardinalityType DEF QueueInv, TypeOK
    <3>4. /\ IsFiniteSet(Gone \cup lost)
          /\ Cardinality(Gone \cup lost) <= Cardinality(Gone) + Cardinality(lost)
      <4>1. IsFiniteSet(Gone \cap lost) /\ Cardinality(Gone \cap lost) \in Nat
        BY <2>1, FS_Intersection, FS_CardinalityType
      <4>2. /\ IsFiniteSet(Gone \cup lost)
            /\ Cardinality(Gone \cup lost) =
                 Cardinality(Gone) + Cardinality(lost) - Cardinality(Gone \cap lost)
        BY <2>1, <3>3, FS_Union
      <4>3. QED
        BY <2>1, <3>3, <4>1, <4>2
    <3>5. Cardinality(Gone') <= Cardinality(Gone \cup lost) /\ Cardinality(Gone') \in Nat
          /\ Cardinality(Gone \cup lost) \in Nat
      BY <2>1, <3>2, <3>4, FS_Subset, FS_CardinalityType
    <3>6. QED
      BY <2>1, <2>2, <3>1, <3>2, <3>3, <3>4, <3>5
  <2>5. CASE UNCHANGED dropped /\ Gone' = Gone
    BY <1>2, <2>5
  <2>6. ASSUME NEW w \in Writes, Enqueue(w) PROVE LossesAreCounted'
    <3>1. Gone' = Gone /\ UNCHANGED dropped
      BY <1>2, <2>6 DEF Enqueue, QueueInv, TypeOK
    <3>2. QED
      BY <2>5, <3>1
  <2>7. CASE UNCHANGED <<fate, dropped>>
    BY <2>5, <2>7
  <2>8. CASE FlushNow \/ Resume \/ Begin \/ Close \/ CloseDatabase \/ UNCHANGED vars
    BY <2>7, <2>8 DEF FlushNow, Resume, Begin, Close, CloseDatabase, vars
  <2>9. ASSUME NEW c \in Callers, Drain(c) PROVE LossesAreCounted'
    BY <2>7, <2>9 DEF Drain
  <2>10. ASSUME NEW r \in Readers, Ask(r) \/ Query(r) PROVE LossesAreCounted'
    BY <2>7, <2>10 DEF Ask, Query
  <2>11. QED
    BY <1>2, <2>3, <2>4, <2>6, <2>8, <2>9, <2>10 DEF Next
<1>3. QED
  BY <1>1, <1>2, QueueInvariant, PTL DEF Spec
=============================================================================
