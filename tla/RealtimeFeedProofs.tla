------------------------- MODULE RealtimeFeedProofs -------------------------
(***************************************************************************)
(* RealtimeFeed implements FeedContract, for any topics, any number of     *)
(* events, daemons, lost connections and readers that come and go: no      *)
(* reader's position passes an event it was not handed, unless the reader  *)
(* is told to read again.                                                  *)
(*                                                                         *)
(* The argument is about what is on its way.  Whatever comes next in the   *)
(* socket, an event, the answer to a subscribe or nothing, each event of a *)
(* topic between the position its reader will then have and the one that   *)
(* comes is in the socket before it.                                       *)
(***************************************************************************)
EXTENDS RealtimeFeed, FiniteSetTheorems, SequenceTheorems, TLAPS

-----------------------------------------------------------------------------
(* The inductive invariant *)

Asks == [type : {"subscribe"}, topic : Topics, cursor : Nat \cup {None}]
Leaves == [type : {"unsubscribe"}, topic : Topics]
Command == Asks \cup Leaves

Hellos == [kind : {"hello"}, epoch : Epochs]
Events == [kind : {"event"}, topic : Topics, seq : Nat]
Answers == [kind : {"subscribed"}, topic : Topics, to : Nat, complete : BOOLEAN]
Resyncs == [kind : {"resync_required"}, topic : Topics]
Closes == [kind : {"close"}, code : {"overloaded", "unauthorized", "going_away"}]
Frame == Hellos \cup Events \cup Answers \cup Resyncs \cup Closes

Shapes ==
    /\ log \in [Epochs -> Seq(Topics)]
    /\ conn \in [open : BOOLEAN, topics : SUBSET Topics]
    /\ up \in Seq(Command) /\ down \in Seq(Frame)
    /\ entry \in [Reading -> [cursor : Nat \cup {None}, seen : SUBSET Nat]]
    /\ asked \in [Topics -> Nat] /\ pos \in [Topics -> Nat \cup {None}]

\* What the daemon numbered that the tab follows.
Seen == log[known]

\* Event s of it is one of topic t.
Numbered(t, s) == s \in 1..Len(Seen) /\ Seen[s] = t

IsEvent(f, t, s) == f.kind = "event" /\ f.topic = t /\ f.seq = s
IsAnswer(f, t) == f.kind = "subscribed" /\ f.topic = t

\* The socket before the tab read its hello: there may be a close behind it, and no more.
Greeting(e) ==
    /\ e <= epoch /\ known <= e /\ (conn.open => e = epoch)
    /\ \/ down = <<[kind |-> "hello", epoch |-> e]>>
       \/ ~conn.open /\ \E f \in Closes : down = <<[kind |-> "hello", epoch |-> e], f>>

\* A tab that is not connected has asked for nothing; one that is follows the daemon it is
\* connected to, as long as the hub has the connection open.
Linked ==
    /\ link \in {"closed", "stopped"} => ~conn.open /\ up = <<>> /\ down = <<>>
    /\ link = "opening" => up = <<>> /\ conn.topics = {} /\ \E e \in Epochs : Greeting(e)
    /\ link = "connected" => known # 0 /\ (conn.open => known = epoch)
    /\ link # "connected" => \A t \in Topics : asked[t] = 0

\* An answer names an event no earlier than those sent before it and those the reader has.
AnswerIsAhead(i) ==
    LET f == down[i] IN
    /\ f.to <= Len(Seen)
    /\ \A k \in 1..i-1 : down[k].kind = "event" => down[k].seq <= f.to
    /\ f.topic \in Reading /\ entry[f.topic].cursor # None => entry[f.topic].cursor <= f.to

\* The frames of a connection whose hello was read.
FrameOK(i) ==
    /\ down[i].kind # "hello"
    /\ down[i].kind = "event" => Numbered(down[i].topic, down[i].seq)
    /\ down[i].kind = "close" => i = Len(down) /\ ~conn.open
    /\ down[i].kind = "subscribed" => AnswerIsAhead(i)

Frames == link = "connected" => \A i \in DOMAIN down : FrameOK(i)

\* A cursor is the last event seen, and not ahead of the reader's position.
EntryOK(t) ==
    /\ entry[t].cursor # None => Numbered(t, entry[t].cursor)
    /\ \A s \in entry[t].seen :
         Numbered(t, s) /\ entry[t].cursor # None /\ s <= entry[t].cursor
    /\ entry[t].cursor # None /\ pos[t] # None => entry[t].cursor <= pos[t]

\* Nothing outlives its daemon or its reader.
Entries ==
    /\ known = 0 => (\A t \in Reading : entry[t] = Fresh) /\ \A t \in Topics : pos[t] = None
    /\ \A t \in Topics \ Reading : pos[t] = None
    /\ \A t \in Reading : EntryOK(t)

\* How often a sequence has an element of a set.
Hits(q, S) == {i \in DOMAIN q : q[i] \in S}
Count(q, S) == Cardinality(Hits(q, S))

AsksFor(t) == {c \in Asks : c.topic = t}
AnswersTo(t) == {f \in Answers : f.topic = t}

\* A subscribe with a cursor was the first for its topic on this connection; its replay begins at
\* the reader's position, or before.
AskOK(t, i) ==
    /\ pos[t] # None => up[i].cursor # None /\ up[i].cursor <= pos[t]
    /\ up[i].cursor # None =>
         /\ \A k \in DOMAIN down : down[k] \notin AnswersTo(t)
         /\ \A k \in 1..i-1 : up[k] \notin AsksFor(t)

\* Subscribes and answers under way were counted; a reader with a position waits for one at most.
AskingOK(t) ==
    /\ Count(down, AnswersTo(t)) + Count(up, AsksFor(t)) <= asked[t]
    /\ pos[t] # None => asked[t] <= 1
    /\ \A i \in DOMAIN up : up[i] \in AsksFor(t) => AskOK(t, i)

Asking == \A t \in Topics : AskingOK(t)

\* A place in the socket from which a reader's position is a: its front, or behind an answer.
Start(t, j, a) ==
    \/ j = 0 /\ pos[t] # None /\ a = pos[t]
    \/ j \in DOMAIN down /\ IsAnswer(down[j], t) /\ a = down[j].to

\* What is at place i, behind j, comes after event s of topic t: an event, a complete answer, or
\* whatever a hub that watches the topic will send.
Passed(t, j, i, s) ==
    \/ i \in DOMAIN down /\ down[i].kind = "event" /\ down[i].topic = t /\ s < down[i].seq
    \/ j = 0 /\ i \in DOMAIN down /\ IsAnswer(down[i], t) /\ down[i].complete /\ s <= down[i].to
    \/ i = Len(down) + 1 /\ conn.open /\ t \in conn.topics

Between(t, j, i, a, s) ==
    /\ Start(t, j, a) /\ j < i /\ a < s
    /\ \A k \in j+1..i-1 : ~IsAnswer(down[k], t)
    /\ Numbered(t, s) /\ Passed(t, j, i, s)

Sent(t, j, i, s) == \E k \in j+1..i-1 : IsEvent(down[k], t, s)

\* What lies between a reader's position and what comes next is sent in between.
Covered(i) ==
    \A t \in Topics, j \in 0..Len(down), a \in Nat, s \in Nat :
        Between(t, j, i, a, s) => Sent(t, j, i, s)

Coverage == link = "connected" => \A i \in 1..Len(down)+1 : Covered(i)

FeedInv == TypeOK /\ Shapes /\ Linked /\ Frames /\ Entries /\ Asking /\ Coverage

-----------------------------------------------------------------------------
(* Frames and sequences *)

\* What a frame has, by its kind.
LEMMA FrameFacts ==
    ASSUME NEW f \in Frame
    PROVE  /\ f.kind \in {"hello", "event", "subscribed", "resync_required", "close"}
           /\ f.kind = "hello" => f \in Hellos
           /\ f.kind = "event" => f.topic \in Topics /\ f.seq \in Nat
           /\ f.kind = "subscribed" => f \in Answers /\ f.topic \in Topics /\ f.to \in Nat
                                       /\ f.complete \in BOOLEAN
           /\ f.kind = "resync_required" => f.topic \in Topics
           /\ f.kind = "close" => f \in Closes
           /\ \A t \in Topics : IsAnswer(f, t) <=> f \in AnswersTo(t)
  BY DEF Frame, Hellos, Events, Answers, Resyncs, Closes, IsAnswer, AnswersTo

\* What a command has, by its type.
LEMMA CommandFacts ==
    ASSUME NEW c \in Command
    PROVE  /\ c.topic \in Topics /\ c.type \in {"subscribe", "unsubscribe"}
           /\ c.type = "subscribe" => c \in AsksFor(c.topic) /\ c.cursor \in Nat \cup {None}
           /\ \A t \in Topics : c \in AsksFor(t) =>
                c.type = "subscribe" /\ c.topic = t /\ c.cursor \in Nat \cup {None}
  BY DEF Command, Asks, Leaves, AsksFor

\* The frames the hub makes.
LEMMA MadeFrames ==
    ASSUME NEW t \in Topics, NEW s \in Nat, NEW complete \in BOOLEAN
    PROVE  /\ Event(t, s) \in Events /\ Event(t, s).kind = "event"
           /\ Event(t, s).topic = t /\ Event(t, s).seq = s
           /\ Subscribed(t, s, complete) \in Answers
           /\ Subscribed(t, s, complete).kind = "subscribed"
           /\ Subscribed(t, s, complete).topic = t /\ Subscribed(t, s, complete).to = s
           /\ Subscribed(t, s, complete).complete = complete
           /\ ResyncRequired(t) \in Resyncs /\ ResyncRequired(t).kind = "resync_required"
           /\ Events \cup Answers \cup Resyncs \cup Closes \subseteq Frame
           /\ \A code \in {"overloaded", "unauthorized", "going_away"} :
                Closing(code) \in Closes /\ Closing(code).kind = "close"
  BY DEF Event, Subscribed, ResyncRequired, Closing, Events, Answers, Resyncs, Closes, Frame

\* One sequence behind another.
LEMMA Joined ==
    ASSUME NEW S, NEW q \in Seq(S), NEW r \in Seq(S)
    PROVE  /\ q \o r \in Seq(S) /\ Len(q) \in Nat /\ Len(r) \in Nat
           /\ Len(q \o r) = Len(q) + Len(r)
           /\ DOMAIN q = 1..Len(q) /\ DOMAIN r = 1..Len(r)
           /\ DOMAIN (q \o r) = 1..Len(q) + Len(r)
           /\ \A i \in 1..Len(q) : (q \o r)[i] = q[i]
           /\ \A i \in Len(q)+1..Len(q)+Len(r) :
                i - Len(q) \in 1..Len(r) /\ (q \o r)[i] = r[i - Len(q)]
  <1>1. q \o r \in Seq(S) /\ Len(q) \in Nat /\ Len(r) \in Nat /\ Len(q \o r) = Len(q) + Len(r)
        /\ DOMAIN q = 1..Len(q) /\ DOMAIN r = 1..Len(r) /\ DOMAIN (q \o r) = 1..Len(q \o r)
    BY ConcatProperties, LenProperties
  <1>2. \A i \in 1..Len(q) + Len(r) : (q \o r)[i] = IF i <= Len(q) THEN q[i] ELSE r[i - Len(q)]
    BY ConcatProperties
  <1> QED
    BY <1>1, <1>2

\* Sequences put together, under names that the provers take as they are.
Joint(p, q) == p \o q
Ending(q, x) == Append(q, x)

\* What is added behind two sequences is added behind the second.
LEMMA EndingJoint ==
    ASSUME NEW S, NEW p \in Seq(S), NEW q \in Seq(S), NEW x \in S
    PROVE  Ending(Joint(p, q), x) = Joint(p, Ending(q, x))
  BY DEF Ending, Joint

\* An element behind a sequence.
LEMMA Added ==
    ASSUME NEW S, NEW q \in Seq(S), NEW x \in S
    PROVE  /\ Append(q, x) \in Seq(S) /\ Len(q) \in Nat /\ Len(Append(q, x)) = Len(q) + 1
           /\ DOMAIN q = 1..Len(q) /\ DOMAIN Append(q, x) = 1..Len(q) + 1
           /\ \A i \in 1..Len(q) : Append(q, x)[i] = q[i]
           /\ Append(q, x)[Len(q) + 1] = x
           /\ Append(q, x) = q \o <<x>> /\ <<x>> \in Seq(S)
  <1>1. Append(q, x) \in Seq(S) /\ Len(Append(q, x)) = Len(q) + 1 /\ Len(q) \in Nat
        /\ DOMAIN q = 1..Len(q) /\ DOMAIN Append(q, x) = 1..Len(Append(q, x))
    BY AppendProperties, LenProperties
  <1>2. (\A i \in 1..Len(q) : Append(q, x)[i] = q[i]) /\ Append(q, x)[Len(q) + 1] = x
    BY AppendProperties
  <1>3. Append(q, x) = q \o <<x>> /\ <<x>> \in Seq(S)
    BY AppendIsConcat
  <1> QED
    BY <1>1, <1>2, <1>3

\* A sequence without its first element.
LEMMA Shifted ==
    ASSUME NEW S, NEW q \in Seq(S), q # <<>>
    PROVE  /\ Tail(q) \in Seq(S) /\ Len(q) \in Nat \ {0} /\ Len(Tail(q)) = Len(q) - 1
           /\ DOMAIN q = 1..Len(q) /\ DOMAIN Tail(q) = 1..Len(q) - 1
           /\ \A i \in 1..Len(q) - 1 : i + 1 \in 1..Len(q) /\ Tail(q)[i] = q[i + 1]
           /\ \A i \in 2..Len(q) : i - 1 \in 1..Len(q) - 1 /\ Tail(q)[i - 1] = q[i]
           /\ Head(q) = q[1] /\ q[1] \in S
  <1>1. /\ Tail(q) \in Seq(S) /\ Len(Tail(q)) = Len(q) - 1
        /\ \A i \in 1..Len(Tail(q)) : Tail(q)[i] = q[i + 1]
    BY HeadTailProperties
  <1>2. Len(q) \in Nat \ {0} /\ DOMAIN q = 1..Len(q) /\ DOMAIN Tail(q) = 1..Len(Tail(q))
    BY <1>1, EmptySeq, LenProperties
  <1>3. Head(q) = q[1] /\ q[1] \in S
    BY <1>2, ElementOfSeq
  <1> QED
    BY <1>1, <1>2, <1>3

\* Hits are counted by a number, which is zero where there are none.
LEMMA CountType ==
    ASSUME NEW T, NEW q \in Seq(T), NEW S
    PROVE  /\ IsFiniteSet(Hits(q, S)) /\ Count(q, S) \in Nat
           /\ Count(q, S) = 0 <=> \A i \in DOMAIN q : q[i] \notin S
  <1>1. Len(q) \in Nat /\ DOMAIN q = 1..Len(q)
    BY LenProperties
  <1>2. IsFiniteSet(Hits(q, S))
    <2>1. Hits(q, S) \in SUBSET (1..Len(q))
      BY <1>1 DEF Hits
    <2>2. IsFiniteSet(1..Len(q))
      BY <1>1, FS_Interval
    <2> QED
      BY <2>1, <2>2, FS_Subset
  <1>3. Count(q, S) \in Nat /\ (Count(q, S) = 0 <=> Hits(q, S) = {})
    BY <1>2, FS_CardinalityType, FS_EmptySet DEF Count
  <1>4. Hits(q, S) = {} <=> \A i \in DOMAIN q : q[i] \notin S
    BY DEF Hits
  <1> QED
    BY <1>2, <1>3, <1>4

\* An element more behind.
LEMMA CountAdded ==
    ASSUME NEW T, NEW q \in Seq(T), NEW x \in T, NEW S
    PROVE  Count(Append(q, x), S) = Count(q, S) + (IF x \in S THEN 1 ELSE 0)
  <1>1. IsFiniteSet(Hits(q, S)) /\ Count(q, S) \in Nat
    BY CountType
  <1>2. Len(q) + 1 \notin Hits(q, S)
    BY Added DEF Hits
  <1>3. CASE x \in S
    <2>1. Hits(Append(q, x), S) = Hits(q, S) \cup {Len(q) + 1}
      <3>1. \A i \in 1..Len(q)+1 : i \in 1..Len(q) \/ i = Len(q) + 1
        BY Added
      <3>2. \A i \in 1..Len(q) : i \in 1..Len(q)+1
        BY Added
      <3> QED
        BY <1>3, <3>1, <3>2, Added DEF Hits
    <2> QED
      BY <1>1, <1>2, <1>3, <2>1, FS_AddElement DEF Count
  <1>4. CASE x \notin S
    <2>1. Hits(Append(q, x), S) = Hits(q, S)
      <3>1. \A i \in 1..Len(q)+1 : i \in 1..Len(q) \/ i = Len(q) + 1
        BY Added
      <3>2. \A i \in 1..Len(q) : i \in 1..Len(q)+1
        BY Added
      <3> QED
        BY <1>4, <3>1, <3>2, Added DEF Hits
    <2> QED
      BY <1>1, <1>4, <2>1 DEF Count
  <1> QED
    BY <1>3, <1>4

\* Others behind.
LEMMA CountJoined ==
    ASSUME NEW T, NEW q \in Seq(T), NEW r \in Seq(T), NEW S, \A i \in DOMAIN r : r[i] \notin S
    PROVE  Count(q \o r, S) = Count(q, S)
  <1>1. \A i \in 1..Len(q)+Len(r) : i \in 1..Len(q) \/ i \in Len(q)+1..Len(q)+Len(r)
    BY Joined
  <1>2. \A i \in 1..Len(q) : i \in 1..Len(q)+Len(r)
    BY Joined
  <1>3. Hits(q \o r, S) = Hits(q, S)
    BY <1>1, <1>2, Joined DEF Hits
  <1> QED
    BY <1>3 DEF Count

\* One less in front.
LEMMA CountShifted ==
    ASSUME NEW T, NEW q \in Seq(T), q # <<>>, NEW S
    PROVE  Count(q, S) = Count(Tail(q), S) + (IF q[1] \in S THEN 1 ELSE 0)
  <1>1. IsFiniteSet(Hits(Tail(q), S)) /\ IsFiniteSet(Hits(q, S)) /\ Count(Tail(q), S) \in Nat
        /\ Count(q, S) \in Nat
    BY Shifted, CountType
  <1> DEFINE later == Hits(q, S) \ {1}
             f == [i \in Hits(Tail(q), S) |-> i + 1]
  <1>2. f \in Bijection(Hits(Tail(q), S), later)
    <2>1. \A i \in Hits(Tail(q), S) : i \in 1..Len(q)-1 /\ i \in Nat /\ q[i+1] \in S
      BY Shifted DEF Hits
    <2>2. \A i \in Hits(Tail(q), S) : i + 1 \in later
      BY <2>1, Shifted DEF Hits
    <2>3. \A i \in later : i - 1 \in Hits(Tail(q), S) /\ i = (i - 1) + 1
      <3> SUFFICES ASSUME NEW i \in later PROVE i - 1 \in Hits(Tail(q), S) /\ i = (i - 1) + 1
        OBVIOUS
      <3>1. i \in 2..Len(q) /\ q[i] \in S
        BY Shifted DEF Hits
      <3> QED
        BY <3>1, Shifted DEF Hits
    <2> HIDE DEF later
    <2>4. f \in [Hits(Tail(q), S) -> later]
      BY <2>2
    <2>5. \A i, k \in Hits(Tail(q), S) : f[i] = f[k] => i = k
      BY <2>1
    <2>6. \A i \in later : \E k \in Hits(Tail(q), S) : f[k] = i
      BY <2>3
    <2> QED
      BY <2>4, <2>5, <2>6 DEF Bijection, Injection, Surjection, IsInjective
  <1>3. Cardinality(later) = Count(Tail(q), S)
    <2> HIDE DEF later, f
    <2> QED
      BY <1>1, <1>2, FS_Bijection DEF Count, ExistsBijection
  <1>4. Cardinality(later) = IF 1 \in Hits(q, S) THEN Count(q, S) - 1 ELSE Count(q, S)
    BY <1>1, FS_RemoveElement DEF Count
  <1>5. 1 \in Hits(q, S) <=> q[1] \in S
    BY Shifted DEF Hits
  <1> HIDE DEF later, f
  <1> QED
    BY <1>1, <1>3, <1>4, <1>5

\* Elements that are alike are at one place: there is one hit at most.
LEMMA CountOnce ==
    ASSUME NEW T, NEW q \in Seq(T), NEW S,
           \A i, k \in DOMAIN q : q[i] \in S /\ q[k] \in S => i = k
    PROVE  Count(q, S) <= 1
  <1>1. CASE Hits(q, S) = {}
    BY <1>1, FS_EmptySet DEF Count
  <1>2. CASE Hits(q, S) # {}
    <2>1. PICK i \in Hits(q, S) : TRUE
      BY <1>2
    <2>2. Hits(q, S) = {i}
      BY <2>1 DEF Hits
    <2>3. Cardinality({i}) = 1
      BY FS_Singleton
    <2> QED
      BY <2>2, <2>3 DEF Count
  <1> QED
    BY <1>1, <1>2


\* Two elements.
LEMMA Pair ==
    ASSUME NEW x, NEW y
    PROVE  /\ Append(<<x>>, y) = <<x, y>> /\ Append(<<>>, y) = <<y>> /\ <<x>> \o <<y>> = <<x, y>>
           /\ Len(<<x, y>>) = 2 /\ <<x, y>>[1] = x /\ <<x, y>>[2] = y
           /\ \A n \in 0..1 : SubSeq(<<x>>, 1, n) \in {<<>>, <<x>>}
  <1> DEFINE S == {x, y}
             q == <<x, y>>
             r == <<x>>
  <1>1. q \in Seq(S) /\ Len(q) = 2 /\ q[1] = x /\ q[2] = y
    OBVIOUS
  <1>2. r \in Seq(S) /\ Len(r) = 1 /\ r[1] = x /\ y \in S /\ <<>> \in Seq(S) /\ Len(<<>>) = 0
    OBVIOUS
  <1> HIDE DEF S, q, r
  <1>3. Append(r, y) = q
    <2>1. Append(r, y) \in Seq(S) /\ Len(Append(r, y)) = 2
          /\ Append(r, y)[1] = x /\ Append(r, y)[2] = y
      <3>1. x \in S /\ 1 \in 1..Len(r) /\ Len(r) + 1 = 2
        BY <1>2 DEF S
      <3>a. r \in Seq(S) /\ y \in S
        BY <1>2
      <3>2. Append(r, y) \in Seq(S) /\ Len(Append(r, y)) = Len(r) + 1
            /\ Append(r, y)[Len(r) + 1] = y /\ \A i \in 1..Len(r) : Append(r, y)[i] = r[i]
        BY <3>a, Added
      <3> QED
        BY <1>2, <3>1, <3>2
    <2>2. \A i \in 1..2 : i = 1 \/ i = 2
      OBVIOUS
    <2>3. \A i \in 1..Len(Append(r, y)) : Append(r, y)[i] = q[i]
      BY <1>1, <2>1, <2>2
    <2>4. Len(Append(r, y)) = Len(q)
      BY <1>1, <2>1
    <2> QED
      BY <1>1, <2>1, <2>3, <2>4, SeqEqual
  <1>4. Append(<<>>, y) = <<y>>
    <2>1. Append(<<>>, y) = <<>> \o <<y>> /\ <<y>> \in Seq(S)
      BY <1>2, AppendIsConcat
    <2> QED
      BY <2>1, ConcatEmptySeq
  <1>5. r \o <<y>> = Append(r, y)
    BY <1>2, AppendIsConcat
  <1>6. ASSUME NEW n \in 0..1 PROVE SubSeq(r, 1, n) \in {<<>>, r}
    <2>1. CASE n = 0
      BY <2>1, SubSeqEmpty
    <2>2. CASE n = 1
      BY <1>2, <2>2, SubSeqFull
    <2> QED
      BY <2>1, <2>2
  <1> QED
    BY <1>1, <1>3, <1>4, <1>5, <1>6 DEF q, r

\* Hits of both.
LEMMA CountBoth ==
    ASSUME NEW T, NEW q \in Seq(T), NEW r \in Seq(T), NEW S
    PROVE  Count(q \o r, S) = Count(q, S) + Count(r, S)
  <1>1. IsFiniteSet(Hits(q, S)) /\ IsFiniteSet(Hits(r, S)) /\ Count(q, S) \in Nat
        /\ Count(r, S) \in Nat /\ Len(q) \in Nat /\ Len(r) \in Nat
    BY CountType, LenProperties
  <1> DEFINE later == {i \in Len(q)+1..Len(q)+Len(r) : r[i - Len(q)] \in S}
             f == [i \in Hits(r, S) |-> i + Len(q)]
  <1>2. f \in Bijection(Hits(r, S), later)
    <2>1. \A i \in Hits(r, S) : i \in 1..Len(r) /\ i \in Nat /\ r[i] \in S
      BY <1>1, Joined DEF Hits
    <2>2. \A i \in Hits(r, S) : i + Len(q) \in later
      <3>1. \A i \in 1..Len(r) : i + Len(q) \in Len(q)+1..Len(q)+Len(r) /\ i + Len(q) - Len(q) = i
        BY <1>1
      <3> QED
        BY <2>1, <3>1
    <2>3. \A i \in later : i - Len(q) \in Hits(r, S) /\ i = (i - Len(q)) + Len(q)
      BY <1>1, Joined DEF Hits
    <2> HIDE DEF later
    <2>4. f \in [Hits(r, S) -> later]
      BY <2>2
    <2>5. \A i, k \in Hits(r, S) : f[i] = f[k] => i = k
      BY <1>1, <2>1
    <2>6. \A i \in later : \E k \in Hits(r, S) : f[k] = i
      BY <2>3
    <2> QED
      BY <2>4, <2>5, <2>6 DEF Bijection, Injection, Surjection, IsInjective
  <1>3. Cardinality(later) = Count(r, S) /\ IsFiniteSet(later)
    <2> HIDE DEF later, f
    <2> QED
      BY <1>1, <1>2, FS_Bijection DEF Count, ExistsBijection
  <1>4. Hits(q \o r, S) = Hits(q, S) \cup later
    <2>1. \A i \in 1..Len(q)+Len(r) : i \in 1..Len(q) \/ i \in Len(q)+1..Len(q)+Len(r)
      BY <1>1
    <2>2. \A i : i \in 1..Len(q) \/ i \in Len(q)+1..Len(q)+Len(r) => i \in 1..Len(q)+Len(r)
      BY <1>1
    <2> QED
      BY <2>1, <2>2, Joined DEF Hits
  <1>5. Hits(q, S) \cap later = {}
    BY <1>1, Joined DEF Hits
  <1> HIDE DEF later, f
  <1>6. Cardinality(Hits(q, S) \cup later) =
          Cardinality(Hits(q, S)) + Cardinality(later) - Cardinality(Hits(q, S) \cap later)
    BY <1>1, <1>3, FS_Union
  <1>7. Cardinality(Hits(q, S) \cap later) = 0
    BY <1>5, FS_EmptySet
  <1>8. Cardinality(Hits(q \o r, S)) = Cardinality(Hits(q, S)) + Cardinality(later) - 0
    BY <1>4, <1>6, <1>7
  <1> QED
    BY <1>1, <1>3, <1>8 DEF Count

-----------------------------------------------------------------------------
(* Replays *)

\* What holds of no element, and of a set if it holds without one of them, holds of a finite set.
LEMMA SetInduction ==
    ASSUME NEW S, IsFiniteSet(S), NEW Good, {} \in Good,
           \A s \in SUBSET S : s # {} => \E x \in s : s \ {x} \in Good => s \in Good
    PROVE  S \in Good
  <1> DEFINE bad == {s \in SUBSET S : s \notin Good}
  <1>1. SUFFICES ASSUME bad # {} PROVE FALSE
    OBVIOUS
  <1>2. bad \subseteq FiniteSubsetsOf(S)
    BY FS_FiniteSubsetsOfFinite
  <1>3. PICK s \in bad : \A t \in bad : ~(<<t, s>> \in StrictSubsetOrdering(S))
    <2> HIDE DEF bad
    <2> QED
      BY <1>1, <1>2, FS_StrictSubsetOrderingWellFounded, WFMin
  <1>4. PICK x \in s : s \ {x} \in Good => s \in Good
    BY <1>3
  <1>5. s \ {x} \in bad
    BY <1>4
  <1>6. <<s \ {x}, s>> \in StrictSubsetOrdering(S)
    BY <1>4 DEF StrictSubsetOrdering
  <1> QED
    BY <1>3, <1>5, <1>6

\* Bounded numbers are finitely many.
LEMMA BoundedNumbers ==
    ASSUME NEW n \in Nat, NEW S \in SUBSET (0..n)
    PROVE  IsFiniteSet(S) /\ Cardinality(S) \in Nat /\ S \subseteq Nat
  <1>1. IsFiniteSet(0..n)
    BY FS_Interval
  <1>2. IsFiniteSet(S)
    BY <1>1, FS_Subset
  <1> QED
    BY <1>2, FS_CardinalityType

\* The last of some numbers.
LEMMA LastOf ==
    ASSUME NEW n \in Nat, NEW S \in SUBSET (0..n), S # {} PROVE \E x \in S : \A y \in S : y <= x
  <1> DEFINE Good == {s \in SUBSET S : s = {} \/ \E x \in s : \A y \in s : y <= x}
  <1>1. IsFiniteSet(S) /\ S \subseteq Nat
    BY BoundedNumbers
  <1>2. ASSUME NEW s \in SUBSET S, s # {} PROVE \E x \in s : s \ {x} \in Good => s \in Good
    <2>1. PICK x \in s : TRUE
      BY <1>2
    <2>2. ASSUME s \ {x} \in Good PROVE s \in Good
      <3>1. CASE s \ {x} = {}
        <4>1. \A z \in s : z = x
          BY <3>1
        <4>2. x \in Nat
          BY <1>1, <2>1
        <4> QED
          BY <2>1, <4>1, <4>2
      <3>2. CASE s \ {x} # {}
        <4>1. PICK y \in s \ {x} : \A z \in s \ {x} : z <= y
          BY <2>2, <3>2
        <4>2. \A z \in s : z \in Nat
          BY <1>1
        <4>3. \E w \in s : \A z \in s : z <= w
          <5>1. CASE x <= y
            BY <4>1, <5>1
          <5>2. CASE y <= x
            <6>1. \A z \in s : z <= x
              BY <4>1, <4>2, <5>2
            <6> QED
              BY <6>1
          <5> QED
            BY <4>2, <5>1, <5>2
        <4> QED
          BY <4>3
      <3> QED
        BY <3>1, <3>2
    <2> QED
      BY <2>1, <2>2
  <1>3. S \in Good
    <2>1. {} \in Good
      OBVIOUS
    <2> HIDE DEF Good
    <2> QED
      BY <1>1, <1>2, <2>1, SetInduction
  <1> QED
    BY <1>3

\* A sequence has the elements of a set in ascending order.
IsAscending(q, S) ==
    /\ q \in [1..Cardinality(S) -> S] /\ ToSet(q) = S
    /\ \A i, j \in DOMAIN q : i < j => q[i] < q[j]

\* Some numbers can be put in order.
LEMMA AscendingExists ==
    ASSUME NEW n \in Nat, NEW S \in SUBSET (0..n) PROVE \E q : IsAscending(q, S)
  <1> DEFINE Good == {s \in SUBSET S : \E q : IsAscending(q, s)}
  <1>1. IsFiniteSet(S) /\ S \subseteq Nat
    BY BoundedNumbers
  <1>2. {} \in Good
    <2>1. IsAscending(<<>>, {})
      BY FS_EmptySet DEF IsAscending, ToSet
    <2> QED
      BY <2>1
  <1>3. ASSUME NEW s \in SUBSET S, s # {} PROVE \E x \in s : s \ {x} \in Good => s \in Good
    <2>1. PICK x \in s : \A y \in s : y <= x
      BY <1>3, LastOf
    <2>2. ASSUME s \ {x} \in Good PROVE s \in Good
      <3>1. PICK q : IsAscending(q, s \ {x})
        BY <2>2
      <3> DEFINE m == Cardinality(s \ {x})
                 r == [i \in 1..m+1 |-> IF i = m + 1 THEN x ELSE q[i]]
      <3>2. m \in Nat /\ Cardinality(s) = m + 1
        <4>1. IsFiniteSet(s)
          BY <1>1, FS_Subset
        <4>2. Cardinality(s) \in Nat /\ m = Cardinality(s) - 1 /\ IsFiniteSet(s \ {x})
          BY <4>1, FS_RemoveElement, FS_CardinalityType
        <4>3. m \in Nat
          BY <4>2, FS_CardinalityType
        <4> HIDE DEF m
        <4> QED
          BY <4>2, <4>3
      <3> HIDE DEF m
      <3>3. q \in [1..m -> s \ {x}] /\ {q[i] : i \in 1..m} = s \ {x}
            /\ \A i, j \in 1..m : i < j => q[i] < q[j]
        BY <3>1 DEF IsAscending, ToSet, m
      <3>4. r \in [1..m+1 -> s]
        <4>1. \A i \in 1..m+1 : i # m + 1 => i \in 1..m
          BY <3>2
        <4> QED
          BY <3>3, <4>1
      <3>5. ToSet(r) = s
        <4>1. m + 1 \in 1..m+1 /\ r[m + 1] = x
          BY <3>2
        <4>2. \A y \in s \ {x} : \E i \in 1..m+1 : r[i] = y
          <5> SUFFICES ASSUME NEW y \in s \ {x} PROVE \E i \in 1..m+1 : r[i] = y
            OBVIOUS
          <5>1. PICK i \in 1..m : q[i] = y
            BY <3>3
          <5>2. i \in 1..m+1 /\ i # m + 1
            BY <3>2
          <5> QED
            BY <5>1, <5>2
        <4> QED
          BY <3>4, <4>1, <4>2 DEF ToSet
      <3>6. ASSUME NEW i \in 1..m+1, NEW j \in 1..m+1, i < j PROVE r[i] < r[j]
        <4>1. i \in 1..m /\ r[i] = q[i] /\ q[i] \in s \ {x} /\ s \subseteq Nat
          BY <3>2, <3>3, <3>6
        <4>2. CASE j = m + 1
          <5>1. q[i] <= x /\ q[i] # x /\ q[i] \in Nat /\ x \in Nat
            BY <2>1, <4>1
          <5> QED
            BY <4>1, <4>2, <5>1
        <4>3. CASE j # m + 1
          <5>1. j \in 1..m
            BY <3>2, <4>3
          <5> QED
            BY <3>3, <3>6, <4>1, <4>3, <5>1
        <4> QED
          BY <4>2, <4>3
      <3>7. IsAscending(r, s)
        <4>1. DOMAIN r = 1..m+1
          OBVIOUS
        <4> HIDE DEF r
        <4> QED
          BY <3>2, <3>4, <3>5, <3>6, <4>1 DEF IsAscending
      <3> QED
        BY <3>7
    <2> QED
      BY <2>1, <2>2
  <1>4. S \in Good
    <2> HIDE DEF Good
    <2> QED
      BY <1>1, <1>2, <1>3, SetInduction
  <1> QED
    BY <1>4

\* What the hub replays: the events of t after c, in order, that its buffer has.
Missed(t, c) == {s \in floor+1..Newest : s > c /\ log[epoch][s] = t}

IsReplay(R, t, c) ==
    /\ R \in Seq(Events)
    /\ \A i \in 1..Len(R) : R[i].topic = t /\ R[i].seq \in Missed(t, c)
    /\ \A s \in Missed(t, c) : \E i \in 1..Len(R) : R[i].seq = s
    /\ \A i, j \in 1..Len(R) : R[i].seq < R[j].seq => i < j

\* Replay is that.
LEMMA ReplayIsReplay ==
    ASSUME Newest \in Nat, floor \in Nat, NEW t \in Topics, NEW c \in Nat
    PROVE  IsReplay(Replay(t, c), t, c)
  <1> DEFINE S == Missed(t, c)
             q == Ascending(S)
             R == [i \in 1..Len(q) |-> Event(t, q[i])]
  <1>1. IsAscending(q, S)
    <2>1. S \in SUBSET (0..Newest)
      BY DEF Missed
    <2>2. \E p : IsAscending(p, S)
      <3> HIDE DEF S
      <3> QED
        BY <2>1, AscendingExists
    <2> HIDE DEF S
    <2> QED
      BY <2>2 DEF IsAscending, Ascending
  <1>2. Cardinality(S) \in Nat
    <2>1. S \in SUBSET (0..Newest)
      BY DEF Missed
    <2> HIDE DEF S
    <2> QED
      BY <2>1, BoundedNumbers
  <1>3. S \subseteq Nat
    BY DEF Missed
  <1> HIDE DEF S
  <1>4. Len(q) = Cardinality(S) /\ DOMAIN q = 1..Len(q) /\ q \in [1..Len(q) -> S]
    BY <1>1, <1>2 DEF IsAscending
  <1> HIDE DEF q
  <1>5. R \in Seq(Events) /\ Len(R) = Len(q)
        /\ \A i \in 1..Len(q) : R[i].topic = t /\ R[i].seq = q[i]
    <2>1. \A i \in 1..Len(q) : q[i] \in Nat
      BY <1>3, <1>4
    <2>2. \A i \in 1..Len(q) : Event(t, q[i]) \in Events
      BY <2>1, MadeFrames
    <2>3. Len(q) \in Nat
      BY <1>2, <1>4
    <2>4. R \in [1..Len(q) -> Events]
      BY <2>2
    <2>5. R \in Seq(Events) /\ Len(R) = Len(q)
      BY <2>3, <2>4
    <2> QED
      BY <2>5 DEF Event
  <1>6. Replay(t, c) = R
    BY DEF Replay, Missed, S, q
  <1> HIDE DEF R
  <1>7. \A s \in S : \E i \in 1..Len(q) : q[i] = s
    BY <1>1, <1>4 DEF IsAscending, ToSet
  <1>8. ASSUME NEW i \in 1..Len(R), NEW j \in 1..Len(R), R[i].seq < R[j].seq PROVE i < j
    <2>1. i \in 1..Len(q) /\ j \in 1..Len(q)
      BY <1>5
    <2>a. q[i] < q[j]
      BY <1>5, <1>8, <2>1
    <2>b. q[i] \in Nat /\ q[j] \in Nat
      BY <1>3, <1>4, <2>1
    <2>2. q[i] < q[j] /\ q[i] \in Nat /\ q[j] \in Nat /\ i \in Nat /\ j \in Nat
      BY <1>2, <1>4, <2>1, <2>a, <2>b
    <2>3. ~(j < i) /\ i # j
      BY <1>1, <1>4, <2>1, <2>2 DEF IsAscending
    <2> QED
      BY <2>2, <2>3
  <1>9. \A i \in 1..Len(R) : R[i].topic = t /\ R[i].seq \in S
    BY <1>4, <1>5
  <1>10. \A s \in S : \E i \in 1..Len(R) : R[i].seq = s
    BY <1>5, <1>7
  <1>11. \A i, j \in 1..Len(R) : R[i].seq < R[j].seq => i < j
    BY <1>8
  <1>12. IsReplay(R, t, c)
    BY <1>5, <1>9, <1>10, <1>11 DEF IsReplay, S
  <1> QED
    BY <1>6, <1>12

-----------------------------------------------------------------------------
(* What is in the socket, as it grows and shifts *)

\* Types of the parts.
LEMMA Basics ==
    ASSUME FeedInv
    PROVE  /\ epoch \in Nat \ {0} /\ epoch \in Epochs /\ known \in 0..epoch /\ known \in Nat
           /\ known # 0 => known \in Epochs /\ Seen \in Seq(Topics) /\ Len(Seen) \in Nat
           /\ Newest \in Nat /\ floor \in 0..Newest /\ floor \in Nat /\ log[epoch] \in Seq(Topics)
           /\ down \in Seq(Frame) /\ Len(down) \in Nat /\ DOMAIN down = 1..Len(down)
           /\ \A i \in 1..Len(down) : down[i] \in Frame
           /\ up \in Seq(Command) /\ Len(up) \in Nat /\ DOMAIN up = 1..Len(up)
           /\ \A i \in 1..Len(up) : up[i] \in Command
           /\ Reading \subseteq Topics
           /\ \A t \in Topics : pos[t] \in Nat \cup {None} /\ asked[t] \in Nat
           /\ \A t \in Reading : entry[t].cursor \in Nat \cup {None} /\ entry[t].seen \subseteq Nat
           /\ conn.open \in BOOLEAN /\ conn.topics \subseteq Topics
           /\ None \notin Nat
  <1> USE DEF FeedInv
  <1>1. epoch \in Nat \ {0} /\ epoch \in Epochs /\ known \in 0..epoch /\ known \in Nat
    BY FeedAssumption DEF TypeOK, Epochs
  <1>2. known # 0 => known \in Epochs
    BY <1>1, FeedAssumption DEF Epochs
  <1>3. \A e \in Epochs : log[e] \in Seq(Topics) /\ Len(log[e]) \in Nat
    BY LenProperties DEF Shapes
  <1>4. Newest \in Nat /\ floor \in 0..Newest /\ floor \in Nat
    BY <1>1, <1>3 DEF TypeOK, Newest
  <1>5. down \in Seq(Frame) /\ Len(down) \in Nat /\ DOMAIN down = 1..Len(down)
        /\ \A i \in 1..Len(down) : down[i] \in Frame
    BY LenProperties, ElementOfSeq DEF Shapes
  <1>6. up \in Seq(Command) /\ Len(up) \in Nat /\ DOMAIN up = 1..Len(up)
        /\ \A i \in 1..Len(up) : up[i] \in Command
    BY LenProperties, ElementOfSeq DEF Shapes
  <1>7. /\ Reading \subseteq Topics
        /\ \A t \in Topics : pos[t] \in Nat \cup {None} /\ asked[t] \in Nat
        /\ \A t \in Reading : entry[t].cursor \in Nat \cup {None} /\ entry[t].seen \subseteq Nat
        /\ conn.open \in BOOLEAN /\ conn.topics \subseteq Topics
    BY DEF TypeOK, Shapes
  <1> QED
    BY <1>1, <1>2, <1>3, <1>4, <1>5, <1>6, <1>7, FeedAssumption DEF Seen

\* The tab goes on with its connection; its daemon may number another event, a reader may leave.
Stays ==
    /\ link = "connected" /\ link' = "connected" /\ known' = known
    /\ Len(Seen') \in Nat /\ Len(Seen) <= Len(Seen')
    /\ \A s \in 1..Len(Seen) : Seen'[s] = Seen[s]

\* Frames come in behind: nothing changes for what was there.
LEMMA GrowCoverage ==
    ASSUME FeedInv, Stays, NEW F \in Seq(Frame), down' = down \o F,
           \A t \in Topics : pos'[t] \in {None, pos[t]},
           \A i \in Len(down)+1..Len(down)+Len(F)+1 : Covered(i)'
    PROVE  Coverage'
  <1>1. Len(down) \in Nat /\ Len(F) \in Nat /\ Len(down') = Len(down) + Len(F)
        /\ DOMAIN down = 1..Len(down) /\ DOMAIN down' = 1..Len(down) + Len(F)
        /\ \A i \in 1..Len(down) : down'[i] = down[i]
    BY Joined, Basics
  <1>2. known # 0 /\ Len(Seen) \in Nat
    BY Basics DEF FeedInv, Linked, Stays
  <1>3. ASSUME NEW i \in 1..Len(down) PROVE Covered(i)'
    <2> SUFFICES ASSUME NEW t \in Topics, NEW j \in 0..Len(down'), NEW a \in Nat, NEW s \in Nat,
                        Between(t, j, i, a, s)'
                 PROVE  Sent(t, j, i, s)'
      BY DEF Covered
    <2>1. j < i /\ a < s /\ j \in 0..Len(down) /\ i \in 1..Len(down)+1 /\ i # Len(down') + 1
          /\ i \in DOMAIN down /\ down'[i] = down[i]
      BY <1>1 DEF Between
    <2>2. Start(t, j, a)
      <3>1. CASE j = 0
        BY <1>1, <3>1 DEF Between, Start
      <3>2. CASE j # 0
        <4>1. j \in 1..Len(down)
          BY <1>1, <2>1, <3>2
        <4> QED
          BY <1>1, <3>2, <4>1 DEF Between, Start
      <3> QED
        BY <3>1, <3>2
    <2>3. \A k \in j+1..i-1 : k \in 1..Len(down) /\ down'[k] = down[k]
      BY <1>1, <2>1
    <2>4. \A k \in j+1..i-1 : ~IsAnswer(down[k], t)
      BY <2>3 DEF Between
    <2>5. Passed(t, j, i, s)
      BY <1>1, <2>1 DEF Between, Passed
    <2>6. \/ s < down[i].seq /\ down[i].kind = "event"
          \/ s <= down[i].to /\ IsAnswer(down[i], t)
      BY <2>1, <2>5, <1>1 DEF Passed
    <2>7. Numbered(t, s)
      <3>1. s \in 1..Len(Seen') /\ Seen'[s] = t
        BY DEF Between, Numbered
      <3>2. FrameOK(i)
        BY <2>1 DEF FeedInv, Frames, Stays
      <3>3. down[i] \in Frame
        BY <2>1, Basics
      <3>4. s <= Len(Seen)
        <4>1. CASE down[i].kind = "event" /\ s < down[i].seq
          <5>1. down[i].seq \in 1..Len(Seen)
            BY <3>2, <4>1 DEF FrameOK, Numbered
          <5> QED
            BY <1>2, <4>1, <5>1
        <4>2. CASE IsAnswer(down[i], t) /\ s <= down[i].to
          <5>1. down[i].to <= Len(Seen) /\ down[i].to \in Nat
            BY <3>2, <3>3, <4>2, FrameFacts DEF FrameOK, AnswerIsAhead, IsAnswer
          <5> QED
            BY <1>2, <4>2, <5>1
        <4> QED
          BY <2>6, <4>1, <4>2
      <3>5. s \in 1..Len(Seen)
        BY <1>2, <3>1, <3>4 DEF Stays
      <3> QED
        BY <3>1, <3>5 DEF Numbered, Stays
    <2>8. Between(t, j, i, a, s)
      BY <2>1, <2>2, <2>4, <2>5, <2>7 DEF Between
    <2>9. Covered(i)
      BY <2>1 DEF FeedInv, Coverage, Stays
    <2>10. Sent(t, j, i, s)
      BY <2>1, <2>8, <2>9 DEF Covered
    <2> QED
      BY <2>3, <2>10 DEF Sent
  <1>4. \A i \in 1..Len(down')+1 : i \in 1..Len(down) \/ i \in Len(down)+1..Len(down)+Len(F)+1
    BY <1>1
  <1> QED
    BY <1>3, <1>4 DEF Coverage

\* Frames come in behind.
LEMMA GrowFrames ==
    ASSUME FeedInv, Stays, NEW F \in Seq(Frame), down' = down \o F,
           conn'.open => conn.open, F = <<>> \/ conn.open,
           \A t \in Reading' : entry'[t].cursor = None
                               \/ (t \in Reading /\ entry'[t].cursor = entry[t].cursor),
           \A i \in Len(down)+1..Len(down)+Len(F) : FrameOK(i)'
    PROVE  Frames'
  <1>1. Len(down) \in Nat /\ Len(F) \in Nat /\ Len(down') = Len(down) + Len(F)
        /\ DOMAIN down = 1..Len(down) /\ DOMAIN down' = 1..Len(down) + Len(F)
        /\ \A i \in 1..Len(down) : down'[i] = down[i]
    BY Joined, Basics
  <1>2. known # 0 /\ Len(Seen) \in Nat
    BY Basics DEF FeedInv, Linked, Stays
  <1>3. ASSUME NEW i \in 1..Len(down) PROVE FrameOK(i)'
    <2>1. FrameOK(i) /\ down'[i] = down[i] /\ down[i] \in Frame
      BY <1>1, Basics DEF FeedInv, Frames, Stays
    <2>2. down[i].kind = "event" => Numbered(down[i].topic, down[i].seq)'
      <3> SUFFICES ASSUME down[i].kind = "event"
                   PROVE  Numbered(down[i].topic, down[i].seq)'
        OBVIOUS
      <3>1. down[i].seq \in 1..Len(Seen) /\ Seen[down[i].seq] = down[i].topic
        BY <2>1 DEF FrameOK, Numbered
      <3>2. down[i].seq \in 1..Len(Seen')
        BY <1>2, <3>1 DEF Stays
      <3> QED
        BY <2>1, <3>1, <3>2 DEF Stays, Numbered
    <2>3. down[i].kind = "close" => i = Len(down') /\ ~conn'.open
      <3> SUFFICES ASSUME down[i].kind = "close" PROVE i = Len(down') /\ ~conn'.open
        OBVIOUS
      <3>1. i = Len(down) /\ ~conn.open
        BY <2>1 DEF FrameOK
      <3>2. F = <<>>
        BY <3>1
      <3> QED
        BY <1>1, <3>1, <3>2
    <2>4. down[i].kind = "subscribed" => AnswerIsAhead(i)'
      <3> SUFFICES ASSUME down[i].kind = "subscribed" PROVE AnswerIsAhead(i)'
        OBVIOUS
      <3>1. AnswerIsAhead(i) /\ down[i].to \in Nat
        BY <2>1, FrameFacts DEF FrameOK
      <3>2. down[i].to <= Len(Seen')
        BY <1>2, <3>1 DEF AnswerIsAhead, Stays
      <3>3. \A k \in 1..i-1 : k \in 1..Len(down)
        BY <1>1
      <3>4. \A k \in 1..i-1 : down'[k].kind = "event" => down'[k].seq <= down[i].to
        BY <1>1, <3>1, <3>3 DEF AnswerIsAhead
      <3>5. down[i].topic \in Reading' /\ entry'[down[i].topic].cursor # None =>
              entry'[down[i].topic].cursor <= down[i].to
        BY <3>1 DEF AnswerIsAhead
      <3> QED
        BY <2>1, <3>2, <3>4, <3>5 DEF AnswerIsAhead
    <2> QED
      BY <2>1, <2>2, <2>3, <2>4 DEF FrameOK
  <1>4. \A i \in DOMAIN down' : i \in 1..Len(down) \/ i \in Len(down)+1..Len(down)+Len(F)
    BY <1>1
  <1> QED
    BY <1>3, <1>4 DEF Frames

\* A frame is read: what is behind it moves up.  It was an event that is not beyond the reader's
\* position, or nothing of the topic, or the last answer of the topic, which gave the position.
LEMMA ShiftCoverage ==
    ASSUME FeedInv, Stays, down # <<>>, down' = Tail(down), UNCHANGED <<log, conn>>,
           \A t \in Topics : pos'[t] \in Nat =>
             \/ /\ pos[t] \in Nat /\ pos[t] <= pos'[t]
                /\ ~IsAnswer(down[1], t)
                /\ \A s \in Nat : IsEvent(down[1], t, s) => s <= pos'[t]
             \/ /\ IsAnswer(down[1], t) /\ down[1].to = pos'[t]
                /\ \A k \in 2..Len(down) : ~IsAnswer(down[k], t)
    PROVE  Coverage'
  <1>1. /\ Len(down) \in Nat \ {0} /\ Len(down') = Len(down) - 1
        /\ DOMAIN down = 1..Len(down) /\ DOMAIN down' = 1..Len(down) - 1
        /\ \A i \in 1..Len(down) - 1 : i + 1 \in 1..Len(down) /\ down'[i] = down[i + 1]
        /\ \A i \in 2..Len(down) : i - 1 \in 1..Len(down) - 1 /\ down'[i - 1] = down[i]
    BY Shifted, Basics
  <1>2. Seen' = Seen
    BY DEF Stays, Seen
  <1> SUFFICES ASSUME NEW i \in 1..Len(down')+1,
                      NEW t \in Topics, NEW j \in 0..Len(down'), NEW a \in Nat, NEW s \in Nat,
                      Between(t, j, i, a, s)'
               PROVE  Sent(t, j, i, s)'
    BY DEF Coverage, Covered
  <1>3. i \in Nat /\ j \in Nat /\ j < i /\ a < s /\ Numbered(t, s)
        /\ \A k \in j+1..i-1 : ~IsAnswer(down'[k], t)
    BY <1>1, <1>2 DEF Between, Numbered
  <1>4. i + 1 \in 1..Len(down)+1 /\ j + 1 \in 0..Len(down)
    BY <1>1
  <1>5. Covered(i + 1)
    BY <1>4 DEF FeedInv, Coverage, Stays
  <1>6. \A k \in j+2..i : k - 1 \in j+1..i-1 /\ k \in 2..Len(down) /\ down'[k - 1] = down[k]
    BY <1>1, <1>3
  <1>7. \A k \in j+2..i : ~IsAnswer(down[k], t)
    BY <1>3, <1>6
  <1>8. /\ i \in DOMAIN down' => i + 1 \in DOMAIN down /\ down'[i] = down[i + 1]
        /\ i = Len(down') + 1 => i + 1 = Len(down) + 1
    <2>1. Len(down') = Len(down) - 1 /\ Len(down) \in Nat
      BY <1>1
    <2>2. i = Len(down') + 1 => i + 1 = Len(down) + 1
      BY <2>1
    <2> QED
      BY <1>1, <2>2
  <1>9. ASSUME NEW b \in Nat, NEW n \in Nat, n <= j + 1, b <= a, Start(t, n, b),
               \A k \in n+1..j+1 : ~IsAnswer(down[k], t), Passed(t, n, i + 1, s),
               \A k \in n+1..j+1 : ~IsEvent(down[k], t, s)
        PROVE  Sent(t, j, i, s)'
    <2>1. \A k \in n+1..i : ~IsAnswer(down[k], t)
      <3>1. \A k \in n+1..i : k \in n+1..j+1 \/ k \in j+2..i
        BY <1>3
      <3> QED
        BY <1>7, <1>9, <3>1
    <2>2. b < s /\ n < i + 1 /\ n \in 0..Len(down)
      BY <1>3, <1>4, <1>9
    <2>3. n+1..i+1-1 = n+1..i
      BY <1>3
    <2>4. Between(t, n, i + 1, b, s)
      BY <1>3, <1>9, <2>1, <2>2, <2>3 DEF Between
    <2>5. Sent(t, n, i + 1, s)
      BY <1>5, <2>2, <2>4 DEF Covered
    <2>6. PICK k \in n+1..i : IsEvent(down[k], t, s)
      BY <2>3, <2>5 DEF Sent
    <2>7. k \in j+2..i
      BY <1>3, <1>9, <2>6
    <2>8. k - 1 \in j+1..i-1 /\ down'[k - 1] = down[k]
      BY <1>6, <2>7
    <2> QED
      BY <2>6, <2>8 DEF Sent
  <1>10. CASE j # 0
    <2>1. j \in 1..Len(down) - 1 /\ j + 1 \in DOMAIN down /\ down'[j] = down[j + 1]
      BY <1>1, <1>10
    <2>2. Start(t, j + 1, a)
      BY <1>10, <2>1 DEF Between, Start
    <2>3. Passed(t, j + 1, i + 1, s)
      BY <1>8, <1>10 DEF Between, Passed
    <2>4. \A k \in j+1+1..j+1 : FALSE
      BY <1>3
    <2> QED
      BY <1>3, <1>9, <2>2, <2>3, <2>4
  <1>11. CASE j = 0
    <2>1. pos'[t] = a /\ pos'[t] \in Nat
      BY <1>1, <1>11 DEF Between, Start
    <2>2. CASE /\ pos[t] \in Nat /\ pos[t] <= pos'[t]
               /\ ~IsAnswer(down[1], t)
               /\ \A n \in Nat : IsEvent(down[1], t, n) => n <= pos'[t]
      <3>1. Start(t, 0, pos[t])
        BY <2>2, Basics DEF Start
      <3>2. Passed(t, 0, i + 1, s)
        BY <1>8, <1>11 DEF Between, Passed
      <3>3. ~IsEvent(down[1], t, s)
        BY <1>3, <2>1, <2>2
      <3>4. \A k \in 0+1..j+1 : k = 1
        BY <1>11
      <3> QED
        BY <1>9, <1>11, <2>1, <2>2, <3>1, <3>2, <3>3, <3>4
    <2>3. CASE /\ IsAnswer(down[1], t) /\ down[1].to = pos'[t]
               /\ \A k \in 2..Len(down) : ~IsAnswer(down[k], t)
      <3>1. Start(t, 1, a)
        BY <1>1, <2>1, <2>3 DEF Start
      <3>2. i \in DOMAIN down' => ~IsAnswer(down'[i], t)
        BY <1>1, <2>3
      <3>3. Passed(t, 1, i + 1, s)
        BY <1>8, <3>2 DEF Between, Passed
      <3>4. \A k \in 1+1..j+1 : FALSE
        BY <1>11
      <3> QED
        BY <1>9, <1>11, <3>1, <3>3, <3>4
    <2> QED
      BY <2>1, <2>2, <2>3
  <1> QED
    BY <1>10, <1>11

\* A frame is read, and if it was an event, its number may be the cursor now.
LEMMA ShiftFrames ==
    ASSUME FeedInv, Stays, down # <<>>, down' = Tail(down), UNCHANGED <<log, conn>>,
           Reading' = Reading,
           \A t \in Reading : entry'[t].cursor \in {None, entry[t].cursor}
                              \/ IsEvent(down[1], t, entry'[t].cursor)
    PROVE  Frames'
  <1>1. /\ Len(down) \in Nat \ {0} /\ Len(down') = Len(down) - 1
        /\ DOMAIN down = 1..Len(down) /\ DOMAIN down' = 1..Len(down) - 1
        /\ \A i \in 1..Len(down) - 1 : i + 1 \in 1..Len(down) /\ down'[i] = down[i + 1]
    BY Shifted, Basics
  <1>2. Seen' = Seen
    BY DEF Stays, Seen
  <1>3. ASSUME NEW i \in 1..Len(down) - 1 PROVE FrameOK(i)'
    <2>1. FrameOK(i + 1) /\ down'[i] = down[i + 1]
      BY <1>1, <1>3 DEF FeedInv, Frames, Stays
    <2>2. AnswerIsAhead(i + 1) => AnswerIsAhead(i)'
      <3> SUFFICES ASSUME AnswerIsAhead(i + 1) PROVE AnswerIsAhead(i)'
        OBVIOUS
      <3>1. \A k \in 1..i : down[k].kind = "event" => down[k].seq <= down[i + 1].to
        <4>1. i + 1 - 1 = i
          BY <1>3
        <4> QED
          BY <4>1 DEF AnswerIsAhead
      <3>2. \A k \in 1..i-1 : k + 1 \in 1..i /\ k \in 1..Len(down) - 1
        BY <1>1
      <3>3. \A k \in 1..i-1 : down'[k].kind = "event" => down'[k].seq <= down[i + 1].to
        BY <1>1, <3>1, <3>2
      <3>4. 1 \in 1..i
        BY <1>1
      <3>5. \A t \in Reading : t = down[i + 1].topic /\ entry'[t].cursor # None =>
              entry'[t].cursor <= down[i + 1].to
        BY <3>1, <3>4 DEF AnswerIsAhead, IsEvent
      <3> QED
        BY <1>2, <2>1, <3>3, <3>5 DEF AnswerIsAhead
    <2>3. i + 1 = Len(down) => i = Len(down')
      <3>1. ASSUME NEW n \in Nat, NEW m, m = n - 1, i + 1 = n PROVE i = m
        BY <3>1
      <3>2. Len(down') = Len(down) - 1 /\ Len(down) \in Nat
        BY <1>1
      <3> QED
        BY <3>1, <3>2
    <2> QED
      BY <1>2, <2>1, <2>2, <2>3 DEF FrameOK, Numbered
  <1> QED
    BY <1>1, <1>3 DEF Frames

-----------------------------------------------------------------------------
(* The parts of the invariant, step by step *)

\* What the types say besides the shapes and the entries.
Base ==
    /\ epoch \in Epochs /\ known \in 0..epoch
    /\ \A e \in Epochs : e > epoch => log[e] = <<>>
    /\ floor \in 0..Newest
    /\ link \in {"closed", "opening", "connected", "stopped"}
    /\ Reading \subseteq Topics /\ told \subseteq Reading

\* The types follow from the shapes, what is said of the entries, and the rest.
LEMMA TypesInParts == Shapes /\ Entries /\ Base => TypeOK
  <1> SUFFICES ASSUME Shapes, Entries, Base PROVE TypeOK
    OBVIOUS
  <1>1. ASSUME NEW t \in Reading
        PROVE  /\ entry[t].cursor \in {None} \cup 1..(IF known = 0 THEN 0 ELSE Len(log[known]))
               /\ \A s \in entry[t].seen : log[known][s] = t
    <2>1. CASE known = 0
      BY <2>1 DEF Entries, Fresh
    <2>2. CASE known # 0
      BY <2>2 DEF Entries, EntryOK, Numbered, Seen
    <2> QED
      BY <2>1, <2>2
  <1> QED
    BY <1>1 DEF TypeOK, Shapes, Base

\* The same, of the state after a step.
LEMMA TypesNext == Shapes' /\ Entries' /\ Base' => TypeOK'
  BY TypesInParts, PTL

\* The invariant says the rest too.
LEMMA BaseNow == FeedInv => Base
  BY DEF FeedInv, TypeOK, Base

\* A daemon's numbering goes on.
Extends == known' = known /\ (known # 0 => Len(Seen') \in Nat /\ Len(Seen) <= Len(Seen')
                                           /\ \A s \in 1..Len(Seen) : Seen'[s] = Seen[s])

\* The hub touches no reader.
LEMMA EntriesKept == ASSUME FeedInv, Extends, UNCHANGED <<entry, pos>> PROVE Entries'
  <1>1. Reading' = Reading /\ known' = known /\ entry' = entry /\ pos' = pos
    BY DEF Extends, Reading
  <1>2. ASSUME NEW t \in Topics, NEW s \in Nat, known # 0, Numbered(t, s) PROVE Numbered(t, s)'
    <2>1. s \in 1..Len(Seen) /\ Len(Seen) \in Nat /\ Len(Seen') \in Nat
          /\ Len(Seen) <= Len(Seen') /\ Seen'[s] = Seen[s]
      BY <1>2, Basics DEF Extends, Numbered
    <2>2. s \in 1..Len(Seen')
      BY <2>1
    <2> QED
      BY <1>2, <2>1, <2>2 DEF Numbered
  <1>3. ASSUME NEW t \in Reading PROVE EntryOK(t)'
    <2>1. CASE known = 0
      <3>1. entry[t] = Fresh
        BY <2>1 DEF FeedInv, Entries
      <3>2. entry'[t].cursor = None /\ entry'[t].seen = {}
        BY <1>1, <3>1 DEF Fresh
      <3> QED
        BY <3>2 DEF EntryOK
    <2>2. CASE known # 0
      <3>1. t \in Topics /\ entry[t].cursor \in Nat \cup {None} /\ entry[t].seen \subseteq Nat
        BY Basics
      <3>2. EntryOK(t)
        BY DEF FeedInv, Entries
      <3>3. entry[t].cursor # None => Numbered(t, entry[t].cursor)'
        BY <1>2, <2>2, <3>1, <3>2 DEF EntryOK
      <3>4. \A s \in entry[t].seen : Numbered(t, s)'
        BY <1>2, <2>2, <3>1, <3>2 DEF EntryOK
      <3> QED
        BY <1>1, <3>2, <3>3, <3>4 DEF EntryOK
    <2> QED
      BY <2>1, <2>2
  <1>4. Entries
    BY DEF FeedInv
  <1> QED
    BY <1>1, <1>3, <1>4 DEF Entries, Fresh

\* What comes in behind answers nobody.
LEMMA AskingKept ==
    ASSUME FeedInv, UNCHANGED <<up, asked, pos>>, NEW F \in Seq(Frame), down' = down \o F,
           \A i \in 1..Len(F) : F[i].kind # "subscribed"
    PROVE  Asking'
  <1> SUFFICES ASSUME NEW t \in Topics PROVE AskingOK(t)'
    BY DEF Asking
  <1>1. AskingOK(t)
    BY DEF FeedInv, Asking
  <1>2. \A i \in DOMAIN F : F[i] \notin AnswersTo(t)
    BY LenProperties DEF AnswersTo, Answers
  <1>3. Count(down', AnswersTo(t)) = Count(down, AnswersTo(t))
    BY <1>2, Basics, CountJoined
  <1>4. \A k \in DOMAIN down' : down'[k] \in AnswersTo(t) =>
          \E l \in DOMAIN down : down[l] = down'[k]
    <2>1. \A k \in DOMAIN down' : \/ k \in DOMAIN down /\ down'[k] = down[k]
                                  \/ k - Len(down) \in DOMAIN F /\ down'[k] = F[k - Len(down)]
      <3>1. \A k \in 1..Len(down)+Len(F) : k \in 1..Len(down) \/ k \in Len(down)+1..Len(down)+Len(F)
        BY Joined, Basics
      <3> QED
        BY <3>1, Joined, Basics
    <2> QED
      BY <1>2, <2>1
  <1>5. ASSUME NEW i \in DOMAIN up, AskOK(t, i) PROVE AskOK(t, i)'
    BY <1>4, <1>5 DEF AskOK
  <1> QED
    BY <1>1, <1>3, <1>5 DEF AskingOK, Count, Hits

\* What the socket takes of what the hub sends: all, or the first of the events and a close.
Took(c, frames, replies, F) ==
    /\ down' = down \o F
    /\ \/ conn' = c /\ F = frames \o replies
       \/ /\ conn' = Gone
          /\ \E n \in 0..Len(frames) : F = Append(SubSeq(frames, 1, n), Closing("overloaded"))

\* What is sent is taken whole, or cut by a close.
LEMMA SendAllCases ==
    ASSUME FeedInv, NEW c, NEW frames \in Seq(Frame), NEW replies \in Seq(Frame),
           SendAll(c, frames, replies)
    PROVE  \E F \in Seq(Frame) : Took(c, frames, replies, F)
  <1>0. down \in Seq(Frame)
    BY Basics
  <1>1. CASE conn' = c /\ down' = (down \o frames) \o replies
    <2>1. frames \o replies \in Seq(Frame)
      BY ConcatProperties
    <2>2. down' = down \o (frames \o replies)
      BY <1>0, <1>1, ConcatAssociative
    <2>3. Took(c, frames, replies, frames \o replies)
      BY <1>1, <2>2 DEF Took
    <2> QED
      BY <2>1, <2>3
  <1>2. ASSUME NEW n \in 0..Len(frames), conn' = Gone,
               down' = Append(down \o SubSeq(frames, 1, n), Closing("overloaded"))
        PROVE  \E F \in Seq(Frame) : Took(c, frames, replies, F)
    <2> DEFINE G == SubSeq(frames, 1, n)
               x == Closing("overloaded")
    <2>1. G \in Seq(Frame)
      <3>1. \A i \in 1..n : frames[i] \in Frame
        BY ElementOfSeq, LenProperties
      <3> QED
        BY <3>1, SubSeqProperties
    <2>2. x \in Frame
      BY DEF Closing, Frame, Closes
    <2> HIDE DEF G, x
    <2>3. Ending(Joint(down, G), x) = Joint(down, Ending(G, x))
      BY <1>0, <2>1, <2>2, EndingJoint
    <2>4. Append(G, x) \in Seq(Frame)
      BY <2>1, <2>2, Added
    <2>5. down' = down \o Append(G, x)
      BY <1>2, <2>3 DEF G, x, Ending, Joint
    <2>6. Took(c, frames, replies, Append(G, x))
      BY <1>2, <2>5 DEF Took, G, x
    <2> QED
      BY <2>4, <2>6
  <1> QED
    BY <1>1, <1>2 DEF SendAll

-----------------------------------------------------------------------------
(* The daemon's steps *)

LEMMA Whole ==
    ASSUME Base', Shapes', Linked', Frames', Entries', Asking', Coverage' PROVE FeedInv'
  BY TypesNext DEF FeedInv

\* What the parts are about.
Concern == <<epoch, log, conn, channel, store, history>>

\* A step that touches none of it keeps the invariant.
LEMMA PartsKept ==
    ASSUME FeedInv, UNCHANGED Concern, Base' PROVE FeedInv'
  <1>1. UNCHANGED <<epoch, log, conn, up, down, link, known, entry, asked, pos>>
    BY DEF Concern, channel, store, history
  <1>2. Seen' = Seen /\ Reading' = Reading
    BY <1>1 DEF Seen, Reading
  <1>3. Shapes'
    BY <1>1, <1>2 DEF FeedInv, Shapes
  <1>4. Linked'
    BY <1>1 DEF FeedInv, Linked, Greeting
  <1>5. Frames'
    BY <1>1, <1>2 DEF FeedInv, Frames, FrameOK, Numbered, AnswerIsAhead
  <1>6. Entries'
    BY <1>1, <1>2 DEF FeedInv, Entries, EntryOK, Numbered, Fresh
  <1>7. Asking'
    BY <1>1 DEF FeedInv, Asking, AskingOK, AskOK, Count, Hits
  <1>8. Coverage'
    BY <1>1, <1>2 DEF FeedInv, Coverage, Covered, Between, Start, Passed, Sent, Numbered
  <1> QED
    BY <1>3, <1>4, <1>5, <1>6, <1>7, <1>8, Whole

\* An eviction changes nothing of it.
LEMMA EvictKeeps == ASSUME FeedInv, Evict PROVE FeedInv'
  <1>1. UNCHANGED Concern
    BY DEF Evict, Concern
  <1>2. floor' \in 0..Newest'
    BY Basics DEF Evict, Newest
  <1>3. Base'
    BY <1>2, BaseNow DEF Evict, Base, Reading, store
  <1> QED
    BY <1>1, <1>3, PartsKept

\* Behind what was there: an event the hub numbered before, of a topic it watches.
LEMMA Behind ==
    ASSUME FeedInv, Stays, NEW F \in Seq(Frame), down' = down \o F, conn.open,
           NEW t \in conn.topics, pos'[t] \in {None, pos[t]},
           NEW j \in 0..Len(down), NEW i \in Len(down)+1..Len(down)+Len(F)+1,
           NEW a \in Nat, NEW s \in Nat, Numbered(t, s), Between(t, j, i, a, s)'
    PROVE  Sent(t, j, i, s)'
  <1>1. Len(down) \in Nat /\ Len(F) \in Nat /\ Len(down') = Len(down) + Len(F)
        /\ DOMAIN down = 1..Len(down) /\ DOMAIN down' = 1..Len(down) + Len(F)
        /\ \A k \in 1..Len(down) : down'[k] = down[k]
    BY Joined, Basics
  <1>2. Start(t, j, a)
    <2>1. CASE j = 0
      BY <1>1, <2>1 DEF Between, Start
    <2>2. CASE j # 0
      <3>1. j \in 1..Len(down)
        BY <1>1, <2>2
      <3> QED
        BY <1>1, <2>2, <3>1 DEF Between, Start
    <2> QED
      BY <2>1, <2>2
  <1>3. \A k \in j+1..Len(down)+1-1 : k \in j+1..i-1 /\ k \in 1..Len(down) /\ down'[k] = down[k]
    BY <1>1
  <1>4. \A k \in j+1..Len(down)+1-1 : ~IsAnswer(down[k], t)
    BY <1>3 DEF Between
  <1>5. t \in Topics /\ Len(down)+1 \in 1..Len(down)+1 /\ j < Len(down)+1
    <2>1. ASSUME NEW m \in Nat PROVE m + 1 \in 1..m+1 /\ \A k \in 0..m : k < m + 1
      OBVIOUS
    <2>2. t \in Topics
      BY Basics
    <2> QED
      BY <1>1, <2>1, <2>2
  <1>6. Between(t, j, Len(down)+1, a, s)
    BY <1>2, <1>4, <1>5 DEF Between, Passed
  <1>7. Covered(Len(down)+1)
    BY <1>5 DEF FeedInv, Coverage, Stays
  <1>8. Sent(t, j, Len(down)+1, s)
    BY <1>5, <1>6, <1>7 DEF Covered
  <1> QED
    BY <1>3, <1>8 DEF Sent

\* The hub closes the connection, or its daemon is gone.
LEMMA ClosingKeeps ==
    ASSUME FeedInv, NEW code \in {"overloaded", "unauthorized", "going_away"},
           epoch' \in Epochs, epoch' \in {epoch, epoch + 1}, floor' \in 0..Newest',
           conn' = Gone, down' = (IF conn.open THEN Append(down, Closing(code)) ELSE down),
           told' = {}, UNCHANGED <<log, up, store, history>>
    PROVE  FeedInv'
  <1> DEFINE F == IF conn.open THEN <<Closing(code)>> ELSE <<>>
  <1>1. UNCHANGED <<log, up, link, known, entry, asked, pos>> /\ ~conn'.open /\ conn'.topics = {}
        /\ conn' \in [open : BOOLEAN, topics : SUBSET Topics]
    BY DEF store, history, Gone
  <1>2. Closing(code).kind = "close" /\ Closing(code) \in Closes /\ Closing(code) \in Frame
    BY DEF Closing, Closes, Frame
  <1>3. down \in Seq(Frame) /\ Len(down) \in Nat
    BY Basics
  <1>4. F \in Seq(Frame) /\ down' = down \o F /\ (F = <<>> \/ conn.open)
    <2>1. CASE conn.open
      <3>1. Append(down, Closing(code)) = down \o <<Closing(code)>>
            /\ <<Closing(code)>> \in Seq(Frame)
        BY <1>2, <1>3, Added
      <3> QED
        BY <2>1, <3>1
    <2>2. CASE ~conn.open
      BY <1>3, <2>2, EmptySeq, ConcatEmptySeq
    <2> QED
      BY <2>1, <2>2
  <1>5. \A i \in 1..Len(F) : i = Len(F) /\ F[i] = Closing(code)
    <2>1. <<Closing(code)>>[1] = Closing(code) /\ Len(<<Closing(code)>>) = 1
      OBVIOUS
    <2>2. Len(<<>>) = 0
      OBVIOUS
    <2> QED
      BY <2>1, <2>2
  <1> HIDE DEF F
  <1>6. Len(F) \in Nat /\ Len(down') = Len(down) + Len(F) /\ DOMAIN down' = 1..Len(down) + Len(F)
        /\ down' \in Seq(Frame)
        /\ \A i \in Len(down)+1..Len(down)+Len(F) :
             i - Len(down) \in 1..Len(F) /\ down'[i] = F[i - Len(down)]
    BY <1>3, <1>4, Joined
  <1>7. \A i \in Len(down)+1..Len(down)+Len(F) : i = Len(down') /\ down'[i] = Closing(code)
    <2> SUFFICES ASSUME NEW i \in Len(down)+1..Len(down)+Len(F)
                 PROVE  i = Len(down') /\ down'[i] = Closing(code)
      OBVIOUS
    <2>1. i - Len(down) \in 1..Len(F) /\ down'[i] = F[i - Len(down)]
      BY <1>6
    <2>2. i - Len(down) = Len(F) /\ down'[i] = Closing(code)
      BY <1>5, <2>1
    <2> QED
      BY <1>3, <1>6, <2>2
  <1>8. Seen' = Seen /\ Reading' = Reading /\ Extends
    BY <1>1, Basics DEF Seen, Reading, Extends
  <1>9. known \in 0..epoch' /\ epoch <= epoch' /\ epoch \in Nat /\ epoch' \in Nat
    BY Basics
  <1>10. Base'
    <2>1. \A e \in Epochs : e > epoch' => log[e] = <<>>
      <3>1. \A e \in Epochs : e \in Nat /\ (e > epoch' => e > epoch)
        BY <1>9 DEF Epochs
      <3> QED
        BY <3>1, BaseNow DEF Base
    <2> QED
      BY <1>1, <1>8, <1>9, <2>1, BaseNow DEF Base
  <1>11. Shapes'
    BY <1>1, <1>6, <1>8 DEF FeedInv, Shapes
  <1>12. Linked'
    <2>1. Linked
      BY DEF FeedInv
    <2>2. ASSUME NEW e \in Epochs, Greeting(e), link = "opening" PROVE Greeting(e)'
      <3>1. e <= epoch'
        BY <1>9, <2>2 DEF Greeting, Epochs
      <3>2. CASE conn.open
        <4>1. down = <<[kind |-> "hello", epoch |-> e]>>
          BY <2>2, <3>2 DEF Greeting
        <4>2. down' = <<[kind |-> "hello", epoch |-> e], Closing(code)>>
          BY <3>2, <4>1, Pair
        <4> QED
          BY <1>1, <1>2, <2>2, <3>1, <4>2 DEF Greeting
      <3>3. CASE ~conn.open
        <4>1. down' = down
          BY <3>3
        <4> QED
          BY <1>1, <2>2, <3>1, <4>1 DEF Greeting
      <3> QED
        BY <3>2, <3>3
    <2>3. link = "opening" => \E e \in Epochs : Greeting(e)'
      BY <2>1, <2>2 DEF Linked
    <2>4. link \in {"closed", "stopped"} => down' = <<>> /\ up = <<>>
      BY <2>1 DEF Linked
    <2> QED
      BY <1>1, <2>1, <2>3, <2>4 DEF Linked
  <1>13. link = "connected" => Stays
    BY <1>1, <1>8, Basics DEF Stays
  <1>14. Frames'
    <2>1. CASE link = "connected"
      <3>1. \A i \in Len(down)+1..Len(down)+Len(F) : FrameOK(i)'
        BY <1>1, <1>2, <1>7 DEF FrameOK
      <3> QED
        BY <1>1, <1>4, <1>8, <1>13, <2>1, <3>1, GrowFrames
    <2> QED
      BY <1>1, <2>1 DEF Frames
  <1>15. Entries'
    BY <1>1, <1>8, EntriesKept
  <1>16. Asking'
    <2>1. \A i \in 1..Len(F) : F[i].kind # "subscribed"
      BY <1>2, <1>5
    <2> QED
      BY <1>1, <1>4, <2>1, AskingKept
  <1>17. Coverage'
    <2>1. CASE link = "connected"
      <3>1. \A i \in Len(down)+1..Len(down)+Len(F)+1, t \in Topics, j \in Nat, s \in Nat :
              ~Passed(t, j, i, s)'
        <4> SUFFICES ASSUME NEW i \in Len(down)+1..Len(down)+Len(F)+1, NEW t \in Topics,
                            NEW j \in Nat, NEW s \in Nat
                     PROVE  ~Passed(t, j, i, s)'
          OBVIOUS
        <4>1. i \in DOMAIN down' => i \in Len(down)+1..Len(down)+Len(F)
          BY <1>6
        <4>2. i \in DOMAIN down' => down'[i].kind = "close"
          BY <1>2, <1>7, <4>1
        <4> QED
          BY <1>1, <4>2 DEF Passed, IsAnswer
      <3>2. \A i \in Len(down)+1..Len(down)+Len(F)+1 : Covered(i)'
        BY <1>6, <3>1 DEF Covered, Between
      <3> QED
        BY <1>1, <1>4, <1>13, <2>1, <3>2, GrowCoverage
    <2> QED
      BY <1>1, <2>1 DEF Coverage
  <1> QED
    BY <1>10, <1>11, <1>12, <1>14, <1>15, <1>16, <1>17, Whole

\* The hub closes a connection.
LEMMA HubClosesKeeps ==
    ASSUME FeedInv, NEW code \in {"overloaded", "unauthorized"}, HubCloses(code) PROVE FeedInv'
  <1>1. UNCHANGED <<log, up, store, history>> /\ told' = {} /\ conn' = Gone
        /\ down' = (IF conn.open THEN Append(down, Closing(code)) ELSE down)
    BY DEF HubCloses
  <1>2. epoch' = epoch /\ epoch' \in Epochs /\ floor' \in 0..Newest'
    BY Basics DEF HubCloses, Newest
  <1> QED
    BY <1>1, <1>2, ClosingKeeps

\* Another daemon starts.
LEMMA RestartKeeps == ASSUME FeedInv, Restart PROVE FeedInv'
  <1>1. UNCHANGED <<log, up, store, history>> /\ told' = {} /\ conn' = Gone
        /\ down' = (IF conn.open THEN Append(down, Closing("going_away")) ELSE down)
    BY DEF Restart
  <1>2. epoch' = epoch + 1 /\ epoch' \in Epochs
    BY Basics, FeedAssumption DEF Restart, Epochs
  <1>3. floor' \in 0..Newest'
    <2>1. Newest' = Len(log[epoch'])
      BY <1>1 DEF Newest
    <2>2. Newest' \in Nat
      BY <1>2, <2>1, LenProperties DEF FeedInv, Shapes
    <2> QED
      BY <2>2 DEF Restart
  <1> QED
    BY <1>1, <1>2, <1>3, ClosingKeeps

-----------------------------------------------------------------------------
(* An event is published *)

\* The daemon numbers it.
LEMMA Numbers ==
    ASSUME FeedInv, NEW t \in Topics, Publish(t)
    PROVE  /\ log' \in [Epochs -> Seq(Topics)] /\ Extends
           /\ Newest' = Newest + 1 /\ log'[epoch] = Append(log[epoch], t)
           /\ \A e \in Epochs \ {epoch} : log'[e] = log[e]
           /\ known = epoch => Len(Seen) = Newest /\ Len(Seen') = Newest + 1
                               /\ Seen'[Newest + 1] = t
  <1>1. /\ log' = [log EXCEPT ![epoch] = Append(@, t)] /\ epoch' = epoch /\ known' = known
        /\ log \in [Epochs -> Seq(Topics)] /\ epoch \in Epochs
    BY Basics DEF Publish, store, FeedInv, Shapes
  <1>2. /\ log'[epoch] = Append(log[epoch], t) /\ \A e \in Epochs \ {epoch} : log'[e] = log[e]
    BY <1>1
  <1>3. /\ log[epoch] \in Seq(Topics) /\ Append(log[epoch], t) \in Seq(Topics) /\ Newest \in Nat
        /\ Len(Append(log[epoch], t)) = Newest + 1
        /\ \A s \in 1..Newest : Append(log[epoch], t)[s] = log[epoch][s]
        /\ Append(log[epoch], t)[Newest + 1] = t
    BY <1>1, Added, Basics DEF Newest
  <1>4. log' \in [Epochs -> Seq(Topics)]
    BY <1>1, <1>3
  <1>5. Newest' = Newest + 1
    BY <1>1, <1>2, <1>3 DEF Newest
  <1>6. CASE known = epoch
    <2>1. Seen = log[epoch] /\ Seen' = Append(log[epoch], t) /\ Len(Seen) = Newest
      BY <1>1, <1>2, <1>6 DEF Seen, Newest
    <2>2. Extends
      BY <1>1, <1>3, <2>1 DEF Extends
    <2> QED
      BY <1>2, <1>3, <1>4, <1>5, <2>1, <2>2
  <1>7. CASE known # epoch
    <2>1. known # 0 => Seen' = Seen
      BY <1>1, <1>2, <1>7, Basics DEF Seen
    <2>2. Extends
      BY <1>1, <2>1, Basics DEF Extends
    <2> QED
      BY <1>2, <1>4, <1>5, <1>7, <2>2
  <1> QED
    BY <1>6, <1>7

\* What comes into the socket then.
Published(t, F) ==
    /\ down' = down \o F
    /\ \/ F = <<>> /\ conn' = conn /\ ~(conn.open /\ t \in conn.topics)
       \/ F = <<Event(t, Newest + 1)>> /\ conn' = conn /\ conn.open /\ t \in conn.topics
       \/ /\ conn.open /\ t \in conn.topics /\ conn' = Gone
          /\ \/ F = <<Event(t, Newest + 1), Closing("overloaded")>>
             \/ F = <<Closing("overloaded")>>

\* What a publication puts in the socket: the event, a close behind it or for it, or nothing.
LEMMA Publishes ==
    ASSUME FeedInv, NEW t \in Topics, Publish(t)
    PROVE  \E F \in Seq(Frame) : Published(t, F)
  <1>1. CASE ~(conn.open /\ t \in conn.topics)
    <2>1. down' = down /\ conn' = conn
      BY <1>1 DEF Publish
    <2>2. <<>> \in Seq(Frame) /\ down \o <<>> = down
      BY Basics, ConcatEmptySeq, EmptySeq
    <2> QED
      BY <1>1, <2>1, <2>2 DEF Published
  <1>2. CASE conn.open /\ t \in conn.topics
    <2> DEFINE x == Event(t, Newest + 1)
    <2>1. x \in Frame
      BY Basics, MadeFrames
    <2> HIDE DEF x
    <2>2. <<x>> \in Seq(Frame) /\ <<>> \in Seq(Frame) /\ Len(<<x>>) = 1 /\ <<x>> \o <<>> = <<x>>
      BY <2>1, EmptySeq, ConcatEmptySeq
    <2>3. SendAll(conn, <<x>>, <<>>)
      BY <1>2 DEF Publish, x
    <2>4. \E F \in Seq(Frame) : Took(conn, <<x>>, <<>>, F)
      <3> DEFINE q == <<x>>
                 r == <<>>
      <3>1. q \in Seq(Frame) /\ r \in Seq(Frame) /\ SendAll(conn, q, r)
        BY <2>2, <2>3
      <3> HIDE DEF q, r
      <3>2. \E F \in Seq(Frame) : Took(conn, q, r, F)
        BY <3>1, SendAllCases
      <3> QED
        BY <3>2 DEF q, r
    <2>5. PICK F \in Seq(Frame) : Took(conn, <<x>>, <<>>, F)
      BY <2>4
    <2>6. down' = down \o F
      BY <2>5 DEF Took
    <2>7. Published(t, F)
      <3>1. CASE conn' = conn /\ F = <<x>> \o <<>>
        BY <1>2, <2>2, <2>6, <3>1 DEF Published, x
      <3>2. ASSUME conn' = Gone, NEW n \in 0..Len(<<x>>),
                   F = Append(SubSeq(<<x>>, 1, n), Closing("overloaded"))
            PROVE  Published(t, F)
        <4>1. SubSeq(<<x>>, 1, n) \in {<<>>, <<x>>}
          BY <2>2, <3>2, Pair
        <4>2. F \in {<<Closing("overloaded")>>, <<x, Closing("overloaded")>>}
          BY <3>2, <4>1, Pair
        <4> QED
          BY <1>2, <2>6, <3>2, <4>2 DEF Published, x
      <3> QED
        BY <2>5, <3>1, <3>2 DEF Took
    <2> QED
      BY <2>7
  <1> QED
    BY <1>1, <1>2

\* The frames by their places.
LEMMA PublishedFrames ==
    ASSUME FeedInv, NEW t \in Topics, NEW F \in Seq(Frame), Published(t, F)
    PROVE  /\ conn'.open => conn' = conn
           /\ conn' \in [open : BOOLEAN, topics : SUBSET Topics]
           /\ Len(F) \in 0..2 /\ (F # <<>> => conn.open /\ t \in conn.topics)
           /\ Len(F) = 0 => F = <<>> /\ ~(conn'.open /\ t \in conn'.topics)
           /\ \A i \in 1..Len(F) : F[i].kind \in {"event", "close"}
           /\ \A i \in 1..Len(F) : F[i].kind = "event" =>
                i = 1 /\ F[i].topic = t /\ F[i].seq = Newest + 1
           /\ \A i \in 1..Len(F) : F[i].kind = "close" => i = Len(F) /\ ~conn'.open
           /\ conn'.open /\ F # <<>> => Len(F) = 1 /\ F[1].kind = "event"
  <1> DEFINE x == Event(t, Newest + 1)
             y == Closing("overloaded")
  <1>1. x.kind = "event" /\ x.topic = t /\ x.seq = Newest + 1 /\ y.kind = "close"
    BY Basics, MadeFrames
  <1>2. conn \in [open : BOOLEAN, topics : SUBSET Topics]
        /\ Gone \in [open : BOOLEAN, topics : SUBSET Topics] /\ ~Gone.open
    BY DEF FeedInv, Shapes, Gone
  <1>3. \/ F = <<>> /\ conn' = conn /\ ~(conn.open /\ t \in conn.topics)
        \/ F = <<x>> /\ conn' = conn /\ conn.open /\ t \in conn.topics
        \/ conn.open /\ t \in conn.topics /\ conn' = Gone /\ F \in {<<x, y>>, <<y>>}
    BY DEF Published
  <1> HIDE DEF x, y
  <1>4. CASE F = <<>> /\ conn' = conn /\ ~(conn.open /\ t \in conn.topics)
    BY <1>2, <1>4
  <1>5. CASE F = <<x>> /\ conn' = conn /\ conn.open /\ t \in conn.topics
    BY <1>1, <1>2, <1>5
  <1>6. CASE conn.open /\ t \in conn.topics /\ conn' = Gone /\ F = <<x, y>>
    <2>1. Len(F) = 2 /\ F[1] = x /\ F[2] = y /\ 1..Len(F) = {1, 2}
      BY <1>6
    <2> QED
      BY <1>1, <1>2, <1>6, <2>1
  <1>7. CASE conn.open /\ t \in conn.topics /\ conn' = Gone /\ F = <<y>>
    BY <1>1, <1>2, <1>7
  <1> QED
    BY <1>3, <1>4, <1>5, <1>6, <1>7

\* The event is behind all that came before it.
LEMMA PublishCovers ==
    ASSUME FeedInv, NEW t \in Topics, Publish(t), NEW F \in Seq(Frame), Published(t, F),
           link = "connected"
    PROVE  Coverage'
  <1>1. Len(down) \in Nat /\ Len(F) \in 0..2 /\ Len(down') = Len(down) + Len(F)
        /\ DOMAIN down' = 1..Len(down) + Len(F) /\ down' = down \o F
        /\ \A i \in Len(down)+1..Len(down)+Len(F) :
             i - Len(down) \in 1..Len(F) /\ down'[i] = F[i - Len(down)]
    BY Joined, Basics, PublishedFrames DEF Published
  <1>2. Stays /\ pos' = pos /\ Newest \in Nat
    BY Numbers, Basics DEF Stays, Publish, store, history, Extends, FeedInv, Linked
  <1>3. conn.open => known = epoch
    BY DEF FeedInv, Linked
  <1>4. ASSUME NEW i \in Len(down)+1..Len(down)+Len(F)+1,
               NEW u \in Topics, NEW j \in 0..Len(down'), NEW a \in Nat, NEW s \in Nat,
               Between(u, j, i, a, s)'
        PROVE  Sent(u, j, i, s)'
    <2>1. j < i /\ a < s /\ Numbered(u, s)' /\ Passed(u, j, i, s)' /\ Start(u, j, a)'
      BY <1>4 DEF Between
    <2>2. ~(j \in Len(down)+1..Len(down)+Len(F))
      <3> SUFFICES ASSUME j \in Len(down)+1..Len(down)+Len(F) PROVE FALSE
        OBVIOUS
      <3>1. down'[j].kind \in {"event", "close"} /\ j # 0
        <4>1. j - Len(down) \in 1..Len(F) /\ down'[j] = F[j - Len(down)] /\ j # 0
          BY <1>1
        <4> QED
          BY <4>1, PublishedFrames
      <3> QED
        BY <2>1, <3>1 DEF Start, IsAnswer
    <2>3. j \in 0..Len(down)
      BY <1>1, <2>2
    <2>4. ASSUME conn.open, u \in conn.topics, s <= Newest PROVE Sent(u, j, i, s)'
      <3>1. Len(Seen) = Newest /\ Seen'[s] = Seen[s] /\ s \in 1..Len(Seen)
        BY <1>2, <1>3, <2>1, <2>4, Numbers DEF Stays, Numbered
      <3>2. Numbered(u, s)
        BY <2>1, <3>1 DEF Numbered
      <3> QED
        BY <1>1, <1>2, <1>4, <2>3, <2>4, <3>2, Behind
    <2>5. conn.open /\ u \in conn.topics
      <3>1. CASE i \in Len(down)+1..Len(down)+Len(F)
        <4>1. i - Len(down) \in 1..Len(F) /\ down'[i] = F[i - Len(down)]
          BY <1>1, <3>1
        <4>2. down'[i].kind = "event" /\ down'[i].topic = u
          <5>1. i # Len(down') + 1
            BY <1>1, <3>1
          <5>2. down'[i].kind # "subscribed"
            BY <4>1, PublishedFrames
          <5> QED
            BY <2>1, <5>1, <5>2 DEF Passed, IsAnswer
        <4>3. F # <<>>
          BY <4>1, EmptySeq
        <4> QED
          BY <4>1, <4>2, <4>3, PublishedFrames
      <3>2. CASE i = Len(down') + 1
        <4>1. i \notin DOMAIN down'
          BY <1>1, <3>2
        <4>2. conn'.open /\ u \in conn'.topics
          BY <2>1, <4>1 DEF Passed
        <4> QED
          BY <4>2, PublishedFrames
      <3>3. i \in Len(down)+1..Len(down)+Len(F) \/ i = Len(down') + 1
        <4>1. ASSUME NEW n \in Nat, NEW m \in Nat, NEW k \in n+1..n+m+1
              PROVE  k \in n+1..n+m \/ k = n+m+1
          OBVIOUS
        <4>2. Len(down) \in Nat /\ Len(F) \in Nat /\ Len(down') = Len(down) + Len(F)
          BY <1>1
        <4> QED
          BY <4>1, <4>2
      <3> QED
        BY <3>1, <3>2, <3>3
    <2>6. CASE s <= Newest
      BY <2>4, <2>5, <2>6
    <2>7. CASE ~(s <= Newest)
      <3>1. s = Newest + 1 /\ u = t
        BY <1>2, <1>3, <2>1, <2>5, <2>7, Numbers DEF Numbered
      <3>2. i # Len(down) + 1
        <4> SUFFICES ASSUME i = Len(down) + 1 PROVE FALSE
          OBVIOUS
        <4>1. CASE Len(F) = 0
          <5>1. i = Len(down') + 1 /\ i \notin DOMAIN down' /\ F = <<>>
            BY <1>1, <4>1, PublishedFrames
          <5>2. conn'.open /\ u \in conn'.topics
            BY <2>1, <5>1 DEF Passed
          <5> QED
            BY <3>1, <4>1, <5>2, PublishedFrames
        <4>2. CASE Len(F) # 0
          <5>1. i \in Len(down)+1..Len(down)+Len(F) /\ i # Len(down') + 1
            BY <1>1, <4>2
          <5>2. i - Len(down) \in 1..Len(F) /\ down'[i] = F[i - Len(down)]
            BY <1>1, <5>1
          <5>3. down'[i].kind = "event" /\ s < down'[i].seq
            BY <2>1, <5>1, <5>2, PublishedFrames DEF Passed, IsAnswer
          <5>4. down'[i].seq = Newest + 1
            BY <5>2, <5>3, PublishedFrames
          <5> QED
            BY <1>2, <3>1, <5>3, <5>4
        <4> QED
          BY <4>1, <4>2
      <3>3. conn'.open /\ Len(F) = 1 /\ F[1].kind = "event"
        <4>1. i # Len(down') + 1 => FALSE
          <5> SUFFICES ASSUME i # Len(down') + 1 PROVE FALSE
            OBVIOUS
          <5>0. i \in Len(down)+1..Len(down)+Len(F) /\ i - Len(down) # 1
            <6>1. Len(down') + 1 = Len(down) + Len(F) + 1 /\ Len(F) \in Nat /\ Len(down) \in Nat
              BY <1>1
            <6>2. i # Len(down) + Len(F) + 1
              BY <6>1
            <6>3. ASSUME NEW n \in Nat, NEW m \in Nat, NEW k \in n+1..n+m+1, k # n+m+1, k # n+1
                  PROVE  k \in n+1..n+m /\ k - n # 1
              BY <6>3
            <6> QED
              BY <3>2, <6>1, <6>2, <6>3
          <5>1. i - Len(down) \in 1..Len(F) /\ down'[i] = F[i - Len(down)] /\ i - Len(down) # 1
            BY <1>1, <5>0
          <5>2. down'[i].kind = "close"
            <6>1. \A k \in 1..Len(F) : k # 1 => F[k].kind = "close"
              BY PublishedFrames
            <6> QED
              BY <5>1, <6>1
          <5> QED
            BY <2>1, <5>1, <5>2 DEF Passed, IsAnswer
        <4>2. i \notin DOMAIN down'
          BY <1>1, <4>1
        <4>3. conn'.open
          BY <2>1, <4>2 DEF Passed
        <4>4. Len(F) # 0
          BY <1>1, <3>2, <4>1
        <4>5. F # <<>>
          BY <4>4, EmptySeq
        <4> QED
          BY <4>3, <4>5, PublishedFrames
      <3>4. Len(down)+1 \in j+1..i-1 /\ 1 \in 1..Len(F)
            /\ Len(down)+1 \in Len(down)+1..Len(down)+Len(F)
        BY <1>1, <2>3, <3>2, <3>3
      <3>5. down'[Len(down)+1] = F[1]
        <4>1. Len(down) + 1 - Len(down) = 1
          BY <1>1
        <4> QED
          BY <1>1, <3>4, <4>1
      <3>6. IsEvent(down'[Len(down)+1], u, s)
        <4>1. F[1].kind = "event" /\ F[1].topic = t /\ F[1].seq = Newest + 1
          BY <3>3, <3>4, PublishedFrames
        <4> QED
          BY <3>1, <3>5, <4>1 DEF IsEvent
      <3> QED
        BY <3>4, <3>6 DEF Sent
    <2> QED
      BY <2>6, <2>7
  <1>5. \A i \in Len(down)+1..Len(down)+Len(F)+1 : Covered(i)'
    BY <1>4 DEF Covered
  <1> QED
    BY <1>1, <1>2, <1>5, GrowCoverage

\* A publication keeps the invariant (hub.ts publish).
LEMMA PublishKeeps == ASSUME FeedInv, NEW t \in Topics, Publish(t) PROVE FeedInv'
  <1>1. PICK F \in Seq(Frame) : Published(t, F)
    BY Publishes
  <1>2. UNCHANGED <<epoch, floor, up, link, known, entry, asked, pos>> /\ told' = {}
        /\ Reading' = Reading
    BY DEF Publish, store, history, Reading
  <1>3. Len(down) \in Nat /\ Len(F) \in 0..2 /\ Len(down') = Len(down) + Len(F)
        /\ down' = down \o F /\ down' \in Seq(Frame)
        /\ \A i \in Len(down)+1..Len(down)+Len(F) :
             i - Len(down) \in 1..Len(F) /\ down'[i] = F[i - Len(down)]
    BY <1>1, Joined, Basics, PublishedFrames DEF Published
  <1>4. Base'
    <2>1. \A e \in Epochs : e > epoch => log'[e] = <<>>
      <3>1. \A e \in Epochs : e > epoch => e # epoch
        BY Basics
      <3> QED
        BY <3>1, Numbers, BaseNow DEF Base
    <2>2. floor \in 0..Newest'
      BY Numbers, Basics
    <2> QED
      BY <1>2, <2>1, <2>2, BaseNow DEF Base
  <1>5. Shapes'
    BY <1>1, <1>2, <1>3, Numbers, PublishedFrames DEF FeedInv, Shapes
  <1>6. link # "connected" => conn' = conn /\ down' = down
    <2>1. link # "connected" => ~(conn.open /\ t \in conn.topics)
      BY Basics DEF FeedInv, Linked, TypeOK
    <2> QED
      BY <2>1 DEF Publish
  <1>7. Linked'
    <2>1. CASE link = "connected"
      BY <1>1, <1>2, <2>1, PublishedFrames DEF FeedInv, Linked
    <2>2. CASE link # "connected"
      <3>1. Linked
        BY DEF FeedInv
      <3> QED
        BY <1>2, <1>6, <2>2, <3>1 DEF Linked, Greeting
    <2> QED
      BY <2>1, <2>2
  <1>8. Frames'
    <2>1. CASE link = "connected"
      <3>1. Stays
        BY <1>2, <2>1, Numbers, Basics DEF Stays, Extends, FeedInv, Linked
      <3>2. ASSUME NEW i \in Len(down)+1..Len(down)+Len(F) PROVE FrameOK(i)'
        <4>1. i - Len(down) \in 1..Len(F) /\ down'[i] = F[i - Len(down)]
          BY <1>3
        <4>2. down'[i].kind \in {"event", "close"}
          BY <1>1, <4>1, PublishedFrames
        <4>3. down'[i].kind = "close" => i = Len(down') /\ ~conn'.open
          <5> SUFFICES ASSUME down'[i].kind = "close" PROVE i = Len(down') /\ ~conn'.open
            OBVIOUS
          <5>1. i - Len(down) = Len(F) /\ ~conn'.open
            BY <1>1, <4>1, PublishedFrames
          <5> QED
            BY <1>3, <5>1
        <4>4. down'[i].kind = "event" => Numbered(down[i].topic, down[i].seq)'
          <5> SUFFICES ASSUME down'[i].kind = "event"
                       PROVE  Numbered(down[i].topic, down[i].seq)'
            OBVIOUS
          <5>1. down'[i].topic = t /\ down'[i].seq = Newest + 1
            BY <1>1, <4>1, PublishedFrames
          <5>2. known = epoch
            <6>1. F # <<>>
              BY <4>1, EmptySeq
            <6> QED
              BY <1>1, <2>1, <6>1, PublishedFrames DEF FeedInv, Linked
          <5>3. Len(Seen') = Newest + 1 /\ Seen'[Newest + 1] = t /\ Newest + 1 \in 1..Len(Seen')
            BY <5>2, Numbers, Basics
          <5> QED
            BY <5>1, <5>3 DEF Numbered
        <4> QED
          BY <4>2, <4>3, <4>4 DEF FrameOK
      <3>3. (conn'.open => conn.open) /\ (F = <<>> \/ conn.open)
        BY <1>1, PublishedFrames
      <3> QED
        BY <1>2, <1>3, <3>1, <3>2, <3>3, GrowFrames
    <2> QED
      BY <1>2, <2>1 DEF Frames
  <1>9. Entries'
    BY <1>2, Numbers, EntriesKept
  <1>10. Asking'
    <2>1. \A i \in 1..Len(F) : F[i].kind # "subscribed"
      BY <1>1, PublishedFrames
    <2> QED
      BY <1>2, <1>3, <2>1, AskingKept
  <1>11. Coverage'
    <2>1. CASE link = "connected"
      BY <1>1, <2>1, PublishCovers
    <2> QED
      BY <1>2, <2>1 DEF Coverage
  <1> QED
    BY <1>4, <1>5, <1>7, <1>8, <1>9, <1>10, <1>11, Whole

-----------------------------------------------------------------------------
(* Connections come and go *)

\* A tab that is not connected: nothing is on its way, or a hello.
LEMMA Apart ==
    ASSUME FeedInv, link' # "connected", UNCHANGED <<epoch, log, floor, known, entry, pos>>,
           link' \in {"closed", "opening", "stopped"}, told' = {}, up' = <<>>,
           asked' = [t \in Topics |-> 0], conn' \in [open : BOOLEAN, topics : SUBSET Topics],
           \/ down' = <<>> /\ ~conn'.open /\ link' # "opening"
           \/ down' = <<Hello>> /\ conn'.topics = {} /\ link' = "opening"
    PROVE  FeedInv'
  <1>1. Hello \in Frame /\ Hello.kind = "hello"
    BY Basics DEF Hello, Frame, Hellos
  <1>2. down' \in Seq(Frame) /\ \A i \in DOMAIN down' : down'[i].kind = "hello"
    <2> DEFINE h == Hello
    <2>1. h \in Frame /\ h.kind = "hello"
      BY <1>1
    <2>2. down' \in {<<>>, <<h>>}
      OBVIOUS
    <2> HIDE DEF h
    <2>3. CASE down' = <<>>
      BY <2>3, EmptySeq
    <2>4. CASE down' = <<h>>
      BY <2>1, <2>4
    <2> QED
      BY <2>2, <2>3, <2>4
  <1>3. Seen' = Seen /\ Reading' = Reading /\ Newest' = Newest
    BY DEF Seen, Reading, Newest
  <1>4. Base'
    BY <1>3, BaseNow DEF Base
  <1>5. Shapes'
    <2>1. up' \in Seq(Command) /\ asked' \in [Topics -> Nat]
      BY EmptySeq
    <2> QED
      BY <1>2, <1>3, <2>1 DEF FeedInv, Shapes
  <1>6. Linked'
    <2>1. link' = "opening" => epoch \in Epochs /\ Greeting(epoch)'
      BY Basics DEF Greeting, Hello
    <2>2. link' # "opening" => down' = <<>> /\ ~conn'.open
      OBVIOUS
    <2>3. \A t \in Topics : asked'[t] = 0
      OBVIOUS
    <2> QED
      BY <2>1, <2>2, <2>3 DEF Linked
  <1>7. Entries'
    <2>1. Extends
      BY <1>3, Basics DEF Extends
    <2> QED
      BY <2>1, EntriesKept
  <1>8. Asking'
    <2> SUFFICES ASSUME NEW t \in Topics PROVE AskingOK(t)'
      BY DEF Asking
    <2>1. Count(down', AnswersTo(t)) = 0
      <3>1. \A i \in DOMAIN down' : down'[i] \notin AnswersTo(t)
        BY <1>2 DEF AnswersTo, Answers
      <3> QED
        BY <1>2, <3>1, CountType
    <2>2. Count(up', AsksFor(t)) = 0
      <3>1. <<>> \in Seq(Command) /\ \A i \in DOMAIN <<>> : <<>>[i] \notin AsksFor(t)
        BY EmptySeq
      <3> QED
        BY <3>1, CountType
    <2>3. asked'[t] = 0 /\ \A i \in DOMAIN up' : FALSE
      BY EmptySeq
    <2> QED
      BY <2>1, <2>2, <2>3 DEF AskingOK, Count, Hits
  <1> QED
    BY <1>4, <1>5, <1>6, <1>7, <1>8, Whole DEF Frames, Coverage

\* A new connection keeps the invariant: nothing is on its way but the hello.
LEMMA ConnectKeeps == ASSUME FeedInv, Connect PROVE FeedInv'
  <1>1. asked' = asked /\ asked \in [Topics -> Nat] /\ \A t \in Topics : asked[t] = 0
    BY DEF Connect, FeedInv, Shapes, Linked, history
  <1>2. asked' = [t \in Topics |-> 0]
    BY <1>1
  <1> QED
    BY <1>2, Apart DEF Connect, history

\* The connection is gone, and what was on its way.
LEMMA DisconnectKeeps ==
    ASSUME FeedInv, NEW to \in {"closed", "stopped"}, Disconnect(to), ~conn'.open,
           conn' \in [open : BOOLEAN, topics : SUBSET Topics], UNCHANGED <<epoch, log, floor>>
    PROVE  FeedInv'
  BY Apart DEF Disconnect

\* A lost connection keeps the invariant.
LEMMA LoseKeeps == ASSUME FeedInv, Lose PROVE FeedInv'
  BY DisconnectKeeps DEF Lose, Gone

-----------------------------------------------------------------------------
(* Readers come and go *)

\* The socket is as it was, for no more topics.
SocketKept ==
    /\ UNCHANGED <<log, known, down, link>>
    /\ conn'.open => conn.open /\ conn'.topics \subseteq conn.topics

\* Nothing that comes is missed when the socket stays and no position moves.
LEMMA CoverageKept ==
    ASSUME FeedInv, SocketKept, \A t \in Topics : pos'[t] \in {None, pos[t]} PROVE Coverage'
  <1> SUFFICES ASSUME link = "connected", NEW i \in 1..Len(down)+1,
                      NEW t \in Topics, NEW j \in 0..Len(down), NEW a \in Nat, NEW s \in Nat,
                      Between(t, j, i, a, s)'
               PROVE  Sent(t, j, i, s)'
    BY DEF SocketKept, Coverage, Covered
  <1>1. Start(t, j, a)
    BY DEF SocketKept, Between, Start
  <1>2. Numbered(t, s) /\ Passed(t, j, i, s)
    BY DEF SocketKept, Between, Numbered, Passed, Seen
  <1>3. Between(t, j, i, a, s)
    BY <1>1, <1>2 DEF SocketKept, Between
  <1>4. Covered(i)
    BY DEF FeedInv, Coverage
  <1>5. Sent(t, j, i, s)
    BY <1>3, <1>4 DEF Covered
  <1> QED
    BY <1>5 DEF Sent, SocketKept

\* The frames stay good when the socket stays and no cursor moves, except to none.
LEMMA FramesKept ==
    ASSUME FeedInv, SocketKept,
           \A t \in Reading' : entry'[t].cursor = None
                               \/ (t \in Reading /\ entry'[t].cursor = entry[t].cursor)
    PROVE  Frames'
  <1> SUFFICES ASSUME link = "connected", NEW i \in DOMAIN down PROVE FrameOK(i)'
    BY DEF SocketKept, Frames
  <1>1. FrameOK(i)
    BY DEF FeedInv, Frames
  <1>2. Seen' = Seen /\ down' = down /\ (conn'.open => conn.open)
    BY DEF Seen, SocketKept
  <1>3. AnswerIsAhead(i) => AnswerIsAhead(i)'
    BY <1>2 DEF AnswerIsAhead
  <1> QED
    BY <1>1, <1>2, <1>3 DEF FrameOK, Numbered

\* The link stays good when neither it nor what it carries changes.
LEMMA LinkedKept ==
    ASSUME FeedInv, UNCHANGED <<epoch, known, conn, down, link>>,
           link # "connected" => up' = up /\ asked' = asked
    PROVE  Linked'
  <1>1. Linked
    BY DEF FeedInv
  <1> QED
    BY <1>1 DEF Linked, Greeting

\* No command is sent.
LEMMA AskingFewer ==
    ASSUME FeedInv, UNCHANGED <<up, down, asked>>, \A t \in Topics : pos'[t] \in {None, pos[t]}
    PROVE  Asking'
  <1> SUFFICES ASSUME NEW t \in Topics PROVE AskingOK(t)'
    BY DEF Asking
  <1>1. AskingOK(t)
    BY DEF FeedInv, Asking
  <1>2. ASSUME NEW i \in DOMAIN up, AskOK(t, i) PROVE AskOK(t, i)'
    BY <1>2 DEF AskOK
  <1> QED
    BY <1>1, <1>2 DEF AskingOK, Count, Hits

\* A command is sent: a subscribe of a new reader, or an unsubscribe.
LEMMA AskingMore ==
    ASSUME FeedInv, NEW c \in Command, up' = Append(up, c), down' = down,
           \A t \in Topics : pos'[t] \in {None, pos[t]}
                             /\ asked'[t] = asked[t] + (IF c \in AsksFor(t) THEN 1 ELSE 0),
           c.type = "subscribe" => pos'[c.topic] = None /\ c.cursor = None
    PROVE  Asking'
  <1> SUFFICES ASSUME NEW t \in Topics PROVE AskingOK(t)'
    BY DEF Asking
  <1>1. AskingOK(t) /\ asked[t] \in Nat
    BY Basics DEF FeedInv, Asking
  <1>2. Count(up', AsksFor(t)) = Count(up, AsksFor(t)) + (IF c \in AsksFor(t) THEN 1 ELSE 0)
    BY Basics, CountAdded
  <1>3. Count(up, AsksFor(t)) \in Nat /\ Count(down, AnswersTo(t)) \in Nat
    BY Basics, CountType
  <1>4. Count(down', AnswersTo(t)) + Count(up', AsksFor(t)) <= asked'[t]
    BY <1>1, <1>2, <1>3 DEF AskingOK
  <1>5. c \in AsksFor(t) => pos'[t] = None /\ c.cursor = None
    BY CommandFacts
  <1>6. pos'[t] # None => asked'[t] <= 1
    BY <1>1, <1>5 DEF AskingOK
  <1>7. ASSUME NEW i \in DOMAIN up', up'[i] \in AsksFor(t) PROVE AskOK(t, i)'
    <2>1. /\ DOMAIN up' = 1..Len(up)+1 /\ Len(up) \in Nat /\ DOMAIN up = 1..Len(up)
          /\ \A k \in 1..Len(up) : up'[k] = up[k]
          /\ up'[Len(up)+1] = c
      BY Basics, Added
    <2>2. CASE i = Len(up)+1
      <3>1. up'[i] = c /\ c \in AsksFor(t)
        BY <1>7, <2>1, <2>2
      <3> QED
        BY <1>5, <3>1 DEF AskOK
    <2>3. CASE i # Len(up)+1
      <3>1. i \in 1..Len(up) /\ up'[i] = up[i] /\ \A k \in 1..i-1 : k \in 1..Len(up)
        BY <2>1, <2>3
      <3>2. AskOK(t, i)
        BY <1>1, <1>7, <2>1, <3>1 DEF AskingOK
      <3>3. pos'[t] # None => pos[t] # None /\ pos'[t] = pos[t]
        OBVIOUS
      <3>4. up'[i].cursor # None =>
              /\ \A k \in DOMAIN down' : down'[k] \notin AnswersTo(t)
              /\ \A k \in 1..i-1 : up'[k] \notin AsksFor(t)
        BY <2>1, <3>1, <3>2 DEF AskOK
      <3>5. pos'[t] # None => up'[i].cursor # None /\ up'[i].cursor <= pos'[t]
        BY <3>1, <3>2, <3>3 DEF AskOK
      <3> QED
        BY <3>4, <3>5 DEF AskOK
    <2> QED
      BY <2>2, <2>3
  <1>8. \A i \in DOMAIN up' : up'[i] \in AsksFor(t) => AskOK(t, i)'
    BY <1>7
  <1> QED
    BY <1>4, <1>6, <1>8 DEF AskingOK, Count, Hits

\* A reader comes: it has seen nothing.
LEMMA JoinKeeps == ASSUME FeedInv, NEW t \in Topics, Join(t) PROVE FeedInv'
  <1>1. /\ UNCHANGED <<epoch, log, floor, conn, down, link, known, pos>> /\ told' = {}
        /\ t \notin Reading /\ Reading' = Reading \cup {t} /\ entry'[t] = Fresh
        /\ \A x \in Reading : entry'[x] = entry[x]
        /\ pos[t] = None /\ Seen' = Seen /\ SocketKept
    BY DEF Join, hub, Reading, Seen, SocketKept, FeedInv, Entries
  <1>2. Fresh.cursor = None /\ Fresh.seen = {}
    BY DEF Fresh
  <1>3. link # "connected" => up' = up /\ asked' = asked
    BY DEF Join
  <1>4. Base'
    BY <1>1, Basics, BaseNow DEF Base, Newest
  <1> DEFINE c == SubscribeTo(t)
  <1>5. c \in Command /\ c.type = "subscribe" /\ c.topic = t /\ c.cursor = None
        /\ \A u \in Topics : c \in AsksFor(u) <=> u = t
    BY <1>1, <1>2 DEF SubscribeTo, Command, Asks, AsksFor
  <1>6. link = "connected" =>
          up' = Append(up, c) /\ asked' \in [Topics -> Nat]
          /\ \A u \in Topics : asked'[u] = asked[u] + (IF u = t THEN 1 ELSE 0)
    <2>1. asked \in [Topics -> Nat]
      BY DEF FeedInv, Shapes
    <2>2. link = "connected" => up' = Append(up, c) /\ asked' = [asked EXCEPT ![t] = @ + 1]
      BY DEF Join
    <2> QED
      BY <2>1, <2>2
  <1> HIDE DEF c
  <1>7. Shapes'
    <2>1. up' \in Seq(Command) /\ asked' \in [Topics -> Nat]
      <3>1. CASE link = "connected"
        <4>1. up \in Seq(Command)
          BY Basics
        <4>2. Append(up, c) \in Seq(Command)
          BY <1>5, <4>1, Added
        <4> QED
          BY <1>6, <3>1, <4>2
      <3>2. CASE link # "connected"
        BY <1>3, <3>2 DEF FeedInv, Shapes
      <3> QED
        BY <3>1, <3>2
    <2>2. entry' \in [Reading' -> [cursor : Nat \cup {None}, seen : SUBSET Nat]]
      <3>1. entry \in [Reading -> [cursor : Nat \cup {None}, seen : SUBSET Nat]]
        BY DEF FeedInv, Shapes
      <3>2. Fresh \in [cursor : Nat \cup {None}, seen : SUBSET Nat]
        BY DEF Fresh
      <3>3. entry' = [x \in Reading' |-> entry'[x]]
        BY <1>1 DEF Join
      <3>4. \A x \in Reading' : entry'[x] \in [cursor : Nat \cup {None}, seen : SUBSET Nat]
        BY <1>1, <3>1, <3>2
      <3> QED
        BY <3>3, <3>4
    <2> QED
      BY <1>1, <2>1, <2>2 DEF FeedInv, Shapes
  <1>8. Linked'
    BY <1>1, <1>3, LinkedKept
  <1>9. Frames'
    <2>1. \A x \in Reading' : entry'[x].cursor = None
                             \/ (x \in Reading /\ entry'[x].cursor = entry[x].cursor)
      BY <1>1, <1>2
    <2> QED
      BY <1>1, <2>1, FramesKept
  <1>10. Entries'
    <2>1. Entries
      BY DEF FeedInv
    <2>2. \A x \in Reading' : EntryOK(x)'
      <3>1. ASSUME NEW x \in Reading PROVE EntryOK(x)'
        BY <1>1, <2>1 DEF Entries, EntryOK, Numbered
      <3>2. EntryOK(t)'
        BY <1>1, <1>2 DEF EntryOK
      <3> QED
        BY <1>1, <3>1, <3>2
    <2>3. known = 0 => \A x \in Reading' : entry'[x] = Fresh
      BY <1>1, <2>1 DEF Entries
    <2> QED
      BY <1>1, <2>1, <2>2, <2>3 DEF Entries, Fresh
  <1>11. Asking'
    <2>1. CASE link = "connected"
      <3>1. \A u \in Topics : pos'[u] \in {None, pos[u]}
                              /\ asked'[u] = asked[u] + (IF c \in AsksFor(u) THEN 1 ELSE 0)
        BY <1>1, <1>5, <1>6, <2>1
      <3>2. up' = Append(up, c) /\ down' = down
            /\ (c.type = "subscribe" => pos'[c.topic] = None /\ c.cursor = None)
        BY <1>1, <1>5, <1>6, <2>1
      <3> QED
        BY <1>5, <3>1, <3>2, AskingMore
    <2>2. CASE link # "connected"
      BY <1>1, <1>3, <2>2, AskingFewer
    <2> QED
      BY <2>1, <2>2
  <1>12. Coverage'
    BY <1>1, CoverageKept
  <1> QED
    BY <1>4, <1>7, <1>8, <1>9, <1>10, <1>11, <1>12, Whole

\* A reader goes.
LEMMA LeaveKeeps == ASSUME FeedInv, NEW t \in Topics, Leave(t) PROVE FeedInv'
  <1>1. /\ UNCHANGED <<epoch, log, floor, conn, down, link, known, asked>> /\ told' = {}
        /\ t \in Reading /\ Reading' = Reading \ {t}
        /\ \A x \in Reading' : entry'[x] = entry[x]
        /\ Seen' = Seen /\ SocketKept
    BY DEF Leave, hub, Reading, Seen, SocketKept, Restrict
  <1>2. /\ pos' \in [Topics -> Nat \cup {None}] /\ pos'[t] = None
        /\ \A u \in Topics \ {t} : pos'[u] = pos[u]
    BY DEF Leave, FeedInv, Shapes
  <1>3. \A u \in Topics : pos'[u] \in {None, pos[u]}
    BY <1>2
  <1> DEFINE c == [type |-> "unsubscribe", topic |-> t]
  <1>4. up' = IF link = "connected" THEN Append(up, c) ELSE up
    BY DEF Leave
  <1>5. c \in Command /\ c.type = "unsubscribe" /\ \A u \in Topics : c \notin AsksFor(u)
    <2>1. c \in Command /\ c.type = "unsubscribe"
      BY DEF Command, Leaves
    <2> QED
      BY <2>1, CommandFacts
  <1> HIDE DEF c
  <1>6. Base'
    BY <1>1, Basics, BaseNow DEF Base, Newest
  <1>7. Shapes'
    <2>1. up' \in Seq(Command)
      BY <1>4, <1>5, Basics, Added
    <2>2. entry' \in [Reading' -> [cursor : Nat \cup {None}, seen : SUBSET Nat]]
      <3>1. entry \in [Reading -> [cursor : Nat \cup {None}, seen : SUBSET Nat]]
        BY DEF FeedInv, Shapes
      <3>2. entry' = [x \in Reading' |-> entry'[x]]
        BY <1>1 DEF Leave, Restrict
      <3>3. \A x \in Reading' : entry'[x] \in [cursor : Nat \cup {None}, seen : SUBSET Nat]
        BY <1>1, <3>1
      <3> QED
        BY <3>2, <3>3
    <2> QED
      BY <1>1, <1>2, <2>1, <2>2 DEF FeedInv, Shapes
  <1>8. Linked'
    BY <1>1, <1>4, LinkedKept
  <1>9. Frames'
    BY <1>1, FramesKept
  <1>10. Entries'
    <2>1. Entries
      BY DEF FeedInv
    <2>2. ASSUME NEW x \in Reading' PROVE EntryOK(x)'
      <3>1. x \in Reading /\ x # t /\ x \in Topics
        BY <1>1, Basics
      <3> QED
        BY <1>1, <1>2, <2>1, <3>1 DEF Entries, EntryOK, Numbered
    <2>3. \A x \in Topics \ Reading' : pos'[x] = None
      BY <1>1, <1>2, <2>1 DEF Entries
    <2>4. known = 0 => (\A x \in Reading' : entry'[x] = Fresh) /\ \A x \in Topics : pos'[x] = None
      BY <1>1, <1>2, <2>1 DEF Entries
    <2> QED
      BY <1>1, <2>2, <2>3, <2>4 DEF Entries, Fresh
  <1>11. Asking'
    <2>1. CASE link = "connected"
      <3>1. \A u \in Topics : pos'[u] \in {None, pos[u]}
                              /\ asked'[u] = asked[u] + (IF c \in AsksFor(u) THEN 1 ELSE 0)
        BY <1>1, <1>3, <1>5, Basics
      <3>2. up' = Append(up, c) /\ down' = down /\ c.type # "subscribe"
        BY <1>1, <1>4, <1>5, <2>1
      <3> QED
        BY <1>5, <3>1, <3>2, AskingMore
    <2>2. CASE link # "connected"
      BY <1>1, <1>3, <1>4, <2>2, AskingFewer
    <2> QED
      BY <2>1, <2>2
  <1>12. Coverage'
    BY <1>1, <1>3, CoverageKept
  <1> QED
    BY <1>6, <1>7, <1>8, <1>9, <1>10, <1>11, <1>12, Whole

-----------------------------------------------------------------------------
(* A command runs *)

\* Event s is of topic t and comes after cursor c.
After(t, c, s) == c # None /\ c < s /\ s <= Newest /\ log[epoch][s] = t

\* Events of t after c, each behind those that come before it.
Replays(t, c, G) ==
    /\ G \in Seq(Frame)
    /\ \A i \in 1..Len(G) : G[i].kind = "event" /\ G[i].topic = t /\ After(t, c, G[i].seq)
    /\ \A i \in 1..Len(G), s \in Nat :
         After(t, c, s) /\ s < G[i].seq => \E k \in 1..i-1 : G[k].seq = s

\* What the hub replays is that, and all there is if the buffer goes back to the cursor.
LEMMA ReplaysAll ==
    ASSUME FeedInv, NEW t \in Topics, NEW c \in Nat, Complete(c)
    PROVE  /\ Replays(t, c, Replay(t, c))
           /\ \A s \in Nat : After(t, c, s) =>
                \E k \in 1..Len(Replay(t, c)) : Replay(t, c)[k].seq = s
  <1> DEFINE R == Replay(t, c)
  <1>1. Newest \in Nat /\ floor \in Nat /\ c # None
    BY Basics
  <1>2. IsReplay(R, t, c)
    BY <1>1, ReplayIsReplay
  <1> HIDE DEF R
  <1>3. R \in Seq(Events) /\ Len(R) \in Nat /\ \A i \in 1..Len(R) : R[i] \in Events
    BY <1>2, ElementOfSeq, LenProperties DEF IsReplay
  <1>4. R \in Seq(Frame)
    <2>1. Events \subseteq Frame
      BY DEF Frame
    <2> HIDE DEF R
    <2> QED
      BY <1>3, <2>1, SeqMonotonic
  <1>5. \A s \in Missed(t, c) : s \in Nat /\ After(t, c, s)
    BY <1>1 DEF Missed, After
  <1>6. \A s \in Nat : After(t, c, s) => s \in Missed(t, c)
    <2> SUFFICES ASSUME NEW s \in Nat, After(t, c, s) PROVE s \in Missed(t, c)
      OBVIOUS
    <2>1. c < s /\ s <= Newest /\ log[epoch][s] = t
      BY DEF After
    <2>2. floor < s
      BY <1>1, <2>1 DEF Complete
    <2> QED
      BY <1>1, <2>1, <2>2 DEF Missed
  <1>7. \A i \in 1..Len(R) : R[i].kind = "event" /\ R[i].topic = t /\ After(t, c, R[i].seq)
    BY <1>2, <1>3, <1>5 DEF IsReplay, Events
  <1>8. \A s \in Nat : After(t, c, s) => \E k \in 1..Len(R) : R[k].seq = s
    BY <1>2, <1>6 DEF IsReplay
  <1>9. ASSUME NEW i \in 1..Len(R), NEW s \in Nat, After(t, c, s), s < R[i].seq
        PROVE  \E k \in 1..i-1 : R[k].seq = s
    <2>1. PICK k \in 1..Len(R) : R[k].seq = s
      BY <1>8, <1>9
    <2>2. k < i
      BY <1>2, <1>9, <2>1 DEF IsReplay
    <2>3. k \in 1..i-1
      BY <1>3, <2>2
    <2> QED
      BY <2>1, <2>3
  <1> QED
    BY <1>4, <1>7, <1>8, <1>9 DEF Replays, R

\* So are the first of them.
LEMMA ReplaysFirst ==
    ASSUME NEW t, NEW c, NEW R, Replays(t, c, R), NEW n \in 0..Len(R)
    PROVE  Replays(t, c, SubSeq(R, 1, n)) /\ Len(SubSeq(R, 1, n)) = n
  <1> DEFINE G == SubSeq(R, 1, n)
  <1>1. R \in Seq(Frame) /\ Len(R) \in Nat /\ \A i \in 1..n : i \in 1..Len(R) /\ R[i] \in Frame
    BY LenProperties, ElementOfSeq DEF Replays
  <1>2. G \in Seq(Frame)
    BY <1>1, SubSeqProperties
  <1>3. Len(G) = IF 1 <= n THEN n - 1 + 1 ELSE 0
    BY <1>1, SubSeqProperties
  <1>4. \A i \in 1..n-1+1 : G[i] = R[1+i-1]
    BY <1>1, SubSeqProperties
  <1> HIDE DEF G
  <1>5. Len(G) = n /\ \A i \in 1..n : G[i] = R[i]
    <2>1. \A i \in 1..n : i \in 1..n-1+1 /\ 1+i-1 = i
      BY <1>1
    <2> QED
      BY <1>1, <1>3, <1>4, <2>1
  <1>6. ASSUME NEW i \in 1..n, NEW s \in Nat, After(t, c, s), s < G[i].seq
        PROVE  \E k \in 1..i-1 : G[k].seq = s
    <2>1. i \in 1..Len(R) /\ s < R[i].seq
      BY <1>1, <1>5, <1>6
    <2>2. PICK k \in 1..i-1 : R[k].seq = s
      BY <1>6, <2>1 DEF Replays
    <2>3. k \in 1..n
      BY <1>1, <2>2
    <2> QED
      BY <1>5, <2>2, <2>3
  <1>7. \A i \in 1..n : G[i].kind = "event" /\ G[i].topic = t /\ After(t, c, G[i].seq)
    BY <1>1, <1>5 DEF Replays
  <1> QED
    BY <1>2, <1>5, <1>6, <1>7 DEF Replays, G

\* What comes in for a subscribe: n events of a replay, and an answer or a close.
Watching(t) == [conn EXCEPT !.topics = @ \cup {t}]

Replied(t, c, F, n) ==
    /\ F[n+1].kind = "subscribed" /\ F[n+1].topic = t /\ F[n+1].to = Newest
    /\ conn' = Watching(t) /\ Len(F) \in {n+1, n+2}
    /\ Len(F) = n+2 => F[n+2].kind = "resync_required"
    /\ F[n+1].complete =>
         \A s \in Nat : After(t, c, s) => \E k \in 1..n : F[k].seq = s

Served(t, c, F, n) ==
    /\ n \in Nat
    /\ \A i \in 1..n : F[i].kind = "event" /\ F[i].topic = t /\ After(t, c, F[i].seq)
    /\ \A i \in 1..n, s \in Nat :
         After(t, c, s) /\ s < F[i].seq => \E k \in 1..i-1 : F[k].seq = s
    /\ \/ Len(F) = n+1 /\ F[n+1].kind = "close" /\ conn' = Gone
       \/ Replied(t, c, F, n)

Serves(t, c) == \E F \in Seq(Frame), n \in Nat : down' = down \o F /\ Served(t, c, F, n)

\* The events of a sequence are where they were with something behind.
LEMMA ServedWith ==
    ASSUME NEW t, NEW c, NEW G, Replays(t, c, G), NEW r \in Seq(Frame), r # <<>>,
           \/ Len(r) = 1 /\ r[1].kind = "close" /\ conn' = Gone
           \/ /\ r[1].kind = "subscribed" /\ r[1].topic = t /\ r[1].to = Newest
              /\ conn' = Watching(t) /\ Len(r) \in {1, 2}
              /\ Len(r) = 2 => r[2].kind = "resync_required"
              /\ r[1].complete =>
                   \A s \in Nat : After(t, c, s) => \E k \in 1..Len(G) : G[k].seq = s
    PROVE  Served(t, c, G \o r, Len(G))
  <1> DEFINE F == G \o r
             n == Len(G)
  <1>1. /\ n \in Nat /\ Len(r) \in Nat \ {0} /\ Len(F) = n + Len(r)
        /\ \A i \in 1..n : F[i] = G[i]
        /\ \A i \in n+1..n+Len(r) : F[i] = r[i - n]
    BY Joined, EmptySeq DEF Replays
  <1> HIDE DEF F
  <1>2. F[n+1] = r[1] /\ (Len(r) = 2 => F[n+2] = r[2])
    <2>1. n+1 \in n+1..n+Len(r) /\ n+1-n = 1 /\ n+2-n = 2
      BY <1>1
    <2>2. Len(r) = 2 => n+2 \in n+1..n+Len(r)
      BY <1>1
    <2> QED
      BY <1>1, <2>1, <2>2
  <1>3. \A i \in 1..n : F[i].kind = "event" /\ F[i].topic = t /\ After(t, c, F[i].seq)
    BY <1>1 DEF Replays
  <1>4. ASSUME NEW i \in 1..n, NEW s \in Nat, After(t, c, s), s < F[i].seq
        PROVE  \E k \in 1..i-1 : F[k].seq = s
    <2>1. s < G[i].seq
      BY <1>1, <1>4
    <2>2. PICK k \in 1..i-1 : G[k].seq = s
      BY <1>4, <2>1 DEF Replays
    <2>3. k \in 1..n
      BY <1>1, <2>2
    <2> QED
      BY <1>1, <2>2, <2>3
  <1>5. CASE Len(r) = 1 /\ r[1].kind = "close" /\ conn' = Gone
    <2>1. Len(F) = n+1 /\ F[n+1].kind = "close"
      BY <1>1, <1>2, <1>5
    <2> QED
      BY <1>1, <1>3, <1>4, <1>5, <2>1 DEF Served, F
  <1>6. CASE /\ r[1].kind = "subscribed" /\ r[1].topic = t /\ r[1].to = Newest
             /\ conn' = Watching(t) /\ Len(r) \in {1, 2}
             /\ Len(r) = 2 => r[2].kind = "resync_required"
             /\ r[1].complete => \A s \in Nat : After(t, c, s) => \E k \in 1..n : G[k].seq = s
    <2>1. Len(F) \in {n+1, n+2} /\ (Len(F) = n+2 => Len(r) = 2)
      BY <1>1, <1>6
    <2>2. F[n+1].complete => \A s \in Nat : After(t, c, s) => \E k \in 1..n : F[k].seq = s
      BY <1>1, <1>2, <1>6
    <2>3. Replied(t, c, F, n)
      BY <1>2, <1>6, <2>1, <2>2 DEF Replied
    <2> QED
      BY <1>1, <1>3, <1>4, <2>3 DEF Served, F
  <1> QED
    BY <1>5, <1>6

\* The hub sends that.
LEMMA ServedBy ==
    ASSUME FeedInv, NEW t \in Topics, NEW c, NEW R, Replays(t, c, R),
           NEW r \in Seq(Frame), Len(r) \in {1, 2},
           r[1].kind = "subscribed", r[1].topic = t, r[1].to = Newest,
           Len(r) = 2 => r[2].kind = "resync_required",
           r[1].complete => \A s \in Nat : After(t, c, s) => \E k \in 1..Len(R) : R[k].seq = s,
           SendAll(Watching(t), R, r)
    PROVE  Serves(t, c)
  <1>1. R \in Seq(Frame)
    BY DEF Replays
  <1>2. PICK F \in Seq(Frame) : Took(Watching(t), R, r, F)
    BY <1>1, SendAllCases
  <1>4. ASSUME conn' = Gone, NEW m \in 0..Len(R),
               F = Append(SubSeq(R, 1, m), Closing("overloaded"))
        PROVE  \E n \in Nat : Served(t, c, F, n)
    <2> DEFINE G == SubSeq(R, 1, m)
               x == Closing("overloaded")
    <2>1. Replays(t, c, G) /\ Len(G) = m
      BY ReplaysFirst
    <2>2. x \in Frame /\ x.kind = "close"
      BY MadeFrames, Basics
    <2> HIDE DEF G, x
    <2>3. G \in Seq(Frame)
      BY <2>1 DEF Replays
    <2>4. <<x>> \in Seq(Frame) /\ Append(G, x) = G \o <<x>>
      BY <2>2, <2>3, Added
    <2>5. Len(<<x>>) = 1 /\ <<x>>[1] = x /\ <<x>> # <<>>
      OBVIOUS
    <2>6. Served(t, c, G \o <<x>>, Len(G))
      <3> DEFINE q == <<x>>
      <3>1. q \in Seq(Frame) /\ q # <<>> /\ Len(q) = 1 /\ q[1].kind = "close"
        BY <2>2, <2>4, <2>5
      <3> HIDE DEF q
      <3>2. Served(t, c, G \o q, Len(G))
        BY <1>4, <2>1, <3>1, ServedWith
      <3> QED
        BY <3>2 DEF q
    <2>7. m \in Nat
      BY <1>1, LenProperties
    <2> QED
      BY <1>4, <2>1, <2>4, <2>6, <2>7 DEF G, x
  <1>5. \E n \in Nat : Served(t, c, F, n)
    <2>1. CASE conn' = Watching(t) /\ F = R \o r
      <3>2. r # <<>>
        BY EmptySeq
      <3>3. Served(t, c, R \o r, Len(R))
        BY <2>1, <3>2, ServedWith
      <3>4. Len(R) \in Nat
        BY <1>1, LenProperties
      <3> QED
        BY <2>1, <3>3, <3>4
    <2> QED
      BY <1>2, <1>4, <2>1 DEF Took
  <1> QED
    BY <1>2, <1>5 DEF Took, Serves

\* A subscribe runs.
LEMMA SubscribeServes ==
    ASSUME FeedInv, NEW t \in Topics, NEW c \in Nat \cup {None}, Subscribe(t, c)
    PROVE  Serves(t, c)
  <1>1. Newest \in Nat /\ None \notin Nat
    BY Basics
  <1> DEFINE x == Subscribed(t, Newest, TRUE)
             y == Subscribed(t, Newest, FALSE)
             z == ResyncRequired(t)
  <1>2. /\ x \in Frame /\ x.kind = "subscribed" /\ x.topic = t /\ x.to = Newest
        /\ y \in Frame /\ y.kind = "subscribed" /\ y.topic = t /\ y.to = Newest /\ ~y.complete
        /\ z \in Frame /\ z.kind = "resync_required"
    <2>1. /\ x \in Answers /\ x.kind = "subscribed" /\ x.topic = t /\ x.to = Newest
          /\ y \in Answers /\ y.kind = "subscribed" /\ y.topic = t /\ y.to = Newest
          /\ y.complete = FALSE /\ z \in Resyncs /\ z.kind = "resync_required"
      BY <1>1 DEF Subscribed, ResyncRequired, Answers, Resyncs
    <2> QED
      BY <2>1 DEF Frame
  <1>3. \/ c = None /\ SendAll(Watching(t), <<>>, <<x>>)
        \/ c # None /\ Complete(c) /\ SendAll(Watching(t), Replay(t, c), <<x>>)
        \/ SendAll(Watching(t), <<>>, <<y, z>>)
    BY DEF Subscribe, Watching
  <1> HIDE DEF x, y, z
  <1> DEFINE R == <<>>
             r == <<x>>
             q == <<y, z>>
  <1>4. Replays(t, c, R)
    BY EmptySeq DEF Replays
  <1>5. r \in Seq(Frame) /\ r[1] = x /\ Len(r) = 1
    BY <1>2
  <1>6. q \in Seq(Frame) /\ q[1] = y /\ q[2] = z /\ Len(q) = 2
    BY <1>2
  <1>7. \/ c = None /\ SendAll(Watching(t), R, r)
        \/ c # None /\ Complete(c) /\ SendAll(Watching(t), Replay(t, c), r)
        \/ SendAll(Watching(t), R, q)
    BY <1>3
  <1> HIDE DEF R, r, q
  <1>8. CASE c = None /\ SendAll(Watching(t), R, r)
    <2>1. \A s \in Nat : ~After(t, c, s)
      BY <1>8 DEF After
    <2> QED
      BY <1>2, <1>4, <1>5, <1>8, <2>1, ServedBy
  <1>9. CASE c # None /\ Complete(c) /\ SendAll(Watching(t), Replay(t, c), r)
    <2> DEFINE S == Replay(t, c)
    <2>1. Replays(t, c, S) /\ \A s \in Nat : After(t, c, s) => \E k \in 1..Len(S) : S[k].seq = s
      BY <1>9, ReplaysAll
    <2>2. SendAll(Watching(t), S, r)
      BY <1>9
    <2> HIDE DEF S
    <2> QED
      BY <1>2, <1>5, <2>1, <2>2, ServedBy
  <1>10. CASE SendAll(Watching(t), R, q)
    BY <1>2, <1>4, <1>6, <1>10, ServedBy
  <1> QED
    BY <1>7, <1>8, <1>9, <1>10

\* What there is before a command runs.
LEMMA BeforeServe ==
    ASSUME FeedInv, Serve
    PROVE  /\ link = "connected" /\ known # 0 /\ (conn.open => known = epoch /\ Seen = log[epoch])
           /\ up' = Tail(up) /\ up # <<>> /\ Len(up) \in Nat \ {0} /\ Head(up) = up[1]
           /\ up[1] \in Command /\ up' \in Seq(Command)
           /\ UNCHANGED <<epoch, log, floor, link, known, entry, asked, pos>> /\ told' = {}
           /\ Seen' = Seen /\ Reading' = Reading /\ Newest' = Newest /\ Stays
           /\ \A t \in Topics : up[1] \in AsksFor(t) => AskOK(t, 1)
  <1>1. /\ up # <<>> /\ up' = Tail(up) /\ told' = {}
        /\ UNCHANGED <<epoch, log, floor, link, known, entry, asked, pos>>
    BY DEF Serve, store, history
  <1>2. Len(up) \in Nat \ {0} /\ Head(up) = up[1] /\ up[1] \in Command /\ up' \in Seq(Command)
        /\ 1 \in DOMAIN up
    BY <1>1, Basics, Shifted
  <1>3. link = "connected" /\ known # 0 /\ (conn.open => known = epoch)
    BY <1>1 DEF FeedInv, Linked, TypeOK
  <1>4. Seen' = Seen /\ Reading' = Reading /\ Newest' = Newest
    BY <1>1 DEF Seen, Reading, Newest
  <1>5. Stays
    BY <1>1, <1>3, <1>4, Basics DEF Stays
  <1>6. \A t \in Topics : up[1] \in AsksFor(t) => AskOK(t, 1)
    BY <1>2 DEF FeedInv, Asking, AskingOK
  <1> QED
    BY <1>1, <1>2, <1>3, <1>4, <1>5, <1>6 DEF Seen

\* The parts that a command leaves alone, whatever it does to the socket.
LEMMA ServeParts ==
    ASSUME FeedInv, Serve, conn' \in [open : BOOLEAN, topics : SUBSET Topics],
           conn'.open => conn.open, down' \in Seq(Frame)
    PROVE  Base' /\ Shapes' /\ Linked' /\ Entries'
  <1>1. Base'
    BY BeforeServe, BaseNow DEF Base
  <1>2. Shapes'
    BY BeforeServe DEF FeedInv, Shapes
  <1>3. Linked'
    BY BeforeServe DEF FeedInv, Linked
  <1>4. Entries'
    <2>1. Extends
      BY BeforeServe, Basics DEF Extends
    <2> QED
      BY <2>1, BeforeServe, EntriesKept
  <1> QED
    BY <1>1, <1>2, <1>3, <1>4

\* An answer comes for the command that ran.
LEMMA AskingServed ==
    ASSUME FeedInv, Serve, NEW F \in Seq(Frame), down' = down \o F,
           \A t \in Topics : up[1] \notin AsksFor(t) =>
             \A i \in 1..Len(F) : F[i] \notin AnswersTo(t),
           \A t \in Topics : Count(down', AnswersTo(t)) <= Count(down, AnswersTo(t)) + 1
    PROVE  Asking'
  <1> SUFFICES ASSUME NEW t \in Topics PROVE AskingOK(t)'
    BY DEF Asking
  <1>1. /\ AskingOK(t) /\ asked[t] \in Nat
        /\ up # <<>> /\ up' = Tail(up) /\ asked' = asked /\ pos' = pos
    BY Basics, BeforeServe DEF FeedInv, Asking
  <1>2. up \in Seq(Command) /\ down \in Seq(Frame) /\ down' \in Seq(Frame)
    BY Basics, Joined
  <1>3. Count(up, AsksFor(t)) = Count(up', AsksFor(t)) + (IF up[1] \in AsksFor(t) THEN 1 ELSE 0)
    BY <1>1, <1>2, CountShifted
  <1>4. /\ Count(up', AsksFor(t)) \in Nat /\ Count(down, AnswersTo(t)) \in Nat
        /\ Count(down', AnswersTo(t)) \in Nat
    BY <1>1, <1>2, CountType, Shifted
  <1>5. up[1] \notin AsksFor(t) => Count(down', AnswersTo(t)) = Count(down, AnswersTo(t))
    <2> SUFFICES ASSUME up[1] \notin AsksFor(t)
                 PROVE  Count(down', AnswersTo(t)) = Count(down, AnswersTo(t))
      OBVIOUS
    <2>1. \A i \in DOMAIN F : F[i] \notin AnswersTo(t)
      BY LenProperties
    <2> QED
      BY <1>2, <2>1, CountJoined
  <1>6. Count(down', AnswersTo(t)) + Count(up', AsksFor(t)) <= asked[t]
    <2>1. Count(down, AnswersTo(t)) + Count(up, AsksFor(t)) <= asked[t]
      BY <1>1 DEF AskingOK
    <2>2. Count(down', AnswersTo(t)) <= Count(down, AnswersTo(t)) + 1
      OBVIOUS
    <2>3. CASE up[1] \in AsksFor(t)
      BY <1>1, <1>3, <1>4, <2>1, <2>2, <2>3
    <2>4. CASE up[1] \notin AsksFor(t)
      BY <1>1, <1>3, <1>4, <1>5, <2>1, <2>4
    <2> QED
      BY <2>3, <2>4
  <1>7. ASSUME NEW i \in DOMAIN up', up'[i] \in AsksFor(t) PROVE AskOK(t, i)'
    <2>1. /\ Len(up) \in Nat \ {0} /\ i \in 1..Len(up)-1 /\ i + 1 \in 1..Len(up)
          /\ DOMAIN up = 1..Len(up)
          /\ \A k \in 1..Len(up)-1 : up'[k] = up[k+1]
      BY <1>1, <1>2, Shifted
    <2>2. AskOK(t, i + 1)
      BY <1>1, <1>7, <2>1 DEF AskingOK
    <2>3. \A k \in 1..i-1 : k + 1 \in 1..i /\ k \in 1..Len(up)-1 /\ up'[k] = up[k+1]
      BY <2>1
    <2>4. i + 1 - 1 = i /\ 1 \in 1..i
      BY <2>1
    <2>5. ASSUME up[i+1].cursor # None
          PROVE  /\ \A k \in DOMAIN down' : down'[k] \notin AnswersTo(t)
                 /\ \A k \in 1..i-1 : up'[k] \notin AsksFor(t)
      <3>1. (\A k \in DOMAIN down : down[k] \notin AnswersTo(t))
            /\ \A k \in 1..i : up[k] \notin AsksFor(t)
        <4>1. ASSUME NEW m \in Nat, AskOK(t, m), up[m].cursor # None
              PROVE  \A k \in 1..m-1 : up[k] \notin AsksFor(t)
          BY <4>1 DEF AskOK
        <4>2. \A k \in DOMAIN down : down[k] \notin AnswersTo(t)
          BY <2>2, <2>5 DEF AskOK
        <4>3. \A k \in 1..i+1-1 : up[k] \notin AsksFor(t)
          BY <2>1, <2>2, <2>5, <4>1
        <4> QED
          BY <2>4, <4>2, <4>3
      <3>2. \A k \in 1..i-1 : up'[k] \notin AsksFor(t)
        BY <2>3, <3>1
      <3>3. Count(down', AnswersTo(t)) = 0
        <4>1. Count(down, AnswersTo(t)) = 0
          BY <1>2, <3>1, CountType
        <4> QED
          BY <1>5, <2>4, <3>1, <4>1
      <3> QED
        BY <1>2, <3>2, <3>3, CountType
    <2>6. pos[t] # None => up[i+1].cursor # None /\ up[i+1].cursor <= pos[t]
      BY <2>2 DEF AskOK
    <2> QED
      BY <1>1, <2>1, <2>5, <2>6 DEF AskOK
  <1>8. pos'[t] # None => asked'[t] <= 1
    BY <1>1 DEF AskingOK
  <1>9. \A i \in DOMAIN up' : up'[i] \in AsksFor(t) => AskOK(t, i)'
    BY <1>7
  <1> QED
    BY <1>1, <1>6, <1>8, <1>9 DEF AskingOK, Count, Hits

\* What comes in for a subscribe, by its places.
Answering(t, c, F, n) ==
    /\ FeedInv /\ Serve /\ conn.open
    /\ t \in Topics /\ c \in Nat \cup {None} /\ up[1] \in AsksFor(t) /\ up[1].cursor = c
    /\ F \in Seq(Frame) /\ down' = down \o F /\ Served(t, c, F, n)

\* The places in the socket of what was sent before the subscribe, and of what answers it.
LEMMA ServedPlaces ==
    ASSUME NEW t, NEW c, NEW F, NEW n, Answering(t, c, F, n)
    PROVE  /\ Len(down) \in Nat /\ Len(F) \in Nat /\ n \in Nat /\ Len(F) \in {n+1, n+2}
           /\ Len(down') = Len(down) + Len(F) /\ down' \in Seq(Frame)
           /\ DOMAIN down' = 1..Len(down) + Len(F)
           /\ \A k \in 1..Len(down) : down'[k] = down[k]
           /\ \A i \in Len(down)+1..Len(down)+Len(F) :
                down'[i] \in Frame /\ i - Len(down) \in 1..Len(F) /\ down'[i] = F[i - Len(down)]
           /\ \A m \in 1..Len(F) : Len(down)+m \in Len(down)+1..Len(down)+Len(F)
                                   /\ down'[Len(down)+m] = F[m] /\ (m <= n \/ m = n+1 \/ m = n+2)
  <1>1. Len(down) \in Nat /\ Len(F) \in Nat /\ down \in Seq(Frame) /\ F \in Seq(Frame)
        /\ down' = down \o F
    BY Basics, LenProperties DEF Answering
  <1>2. n \in Nat /\ Len(F) \in {n+1, n+2}
    BY DEF Answering, Served, Replied
  <1>3. /\ Len(down') = Len(down) + Len(F) /\ down' \in Seq(Frame)
        /\ DOMAIN down' = 1..Len(down) + Len(F)
        /\ \A k \in 1..Len(down) : down'[k] = down[k]
        /\ \A i \in Len(down)+1..Len(down)+Len(F) :
             i - Len(down) \in 1..Len(F) /\ down'[i] = F[i - Len(down)]
    BY <1>1, Joined
  <1>4. \A i \in Len(down)+1..Len(down)+Len(F) : down'[i] \in Frame
    <2>1. \A i \in Len(down)+1..Len(down)+Len(F) : i \in 1..Len(down')
      BY <1>1, <1>3
    <2> QED
      BY <1>3, <2>1, ElementOfSeq
  <1>5. \A m \in 1..Len(F) : Len(down)+m \in Len(down)+1..Len(down)+Len(F)
                             /\ Len(down)+m-Len(down) = m /\ (m <= n \/ m = n+1 \/ m = n+2)
    BY <1>1, <1>2
  <1>6. ASSUME NEW m \in 1..Len(F) PROVE down'[Len(down)+m] = F[m]
    <2> DEFINE i == Len(down) + m
    <2>1. i \in Len(down)+1..Len(down)+Len(F) /\ i - Len(down) = m
      BY <1>5
    <2> HIDE DEF i
    <2>2. down'[i] = F[i - Len(down)]
      BY <1>3, <2>1
    <2> QED
      BY <2>1, <2>2 DEF i
  <1> QED
    BY <1>1, <1>2, <1>3, <1>4, <1>5, <1>6

\* What a frame of it may be.
LEMMA ServedFrame ==
    ASSUME NEW t, NEW c, NEW F, NEW n, Answering(t, c, F, n),
           NEW i \in Len(down)+1..Len(down)+Len(F)
    PROVE  /\ down'[i].kind \in {"event", "close", "subscribed", "resync_required"}
           /\ down'[i].kind = "event" => i - Len(down) \in 1..n /\ down'[i].topic = t
                                         /\ down'[i].seq \in Nat /\ After(t, c, down'[i].seq)
           /\ down'[i].kind = "close" => i = Len(down') /\ conn' = Gone
           /\ down'[i].kind = "subscribed" =>
                i = Len(down)+n+1 /\ down'[i].topic = t /\ down'[i].to = Newest
                /\ Replied(t, c, F, n)
  <1> DEFINE m == i - Len(down)
  <1>1. /\ m \in 1..Len(F) /\ down'[i] = F[m] /\ down'[i] \in Frame /\ i = Len(down) + m
        /\ m \in Nat /\ n \in Nat /\ Len(down) \in Nat /\ (m <= n \/ m = n+1 \/ m = n+2)
        /\ Len(down') = Len(down) + Len(F) /\ Len(F) \in Nat
    BY ServedPlaces
  <1>2. Served(t, c, F, n)
    BY DEF Answering
  <1> HIDE DEF m
  <1>3. CASE m <= n
    <2>1. m \in 1..n
      BY <1>1, <1>3
    <2>2. F[m].kind = "event" /\ F[m].topic = t /\ After(t, c, F[m].seq)
      BY <1>2, <2>1 DEF Served
    <2>3. F[m].seq \in Nat
      BY <1>1, <2>2, FrameFacts
    <2> QED
      BY <1>1, <2>1, <2>2, <2>3 DEF m
  <1>4. CASE m = n+1
    <2>1. CASE Len(F) = n+1 /\ F[n+1].kind = "close" /\ conn' = Gone
      BY <1>1, <1>4, <2>1
    <2>2. CASE Replied(t, c, F, n)
      <3>1. F[m].kind = "subscribed" /\ F[m].topic = t /\ F[m].to = Newest
        BY <1>4, <2>2 DEF Replied
      <3>2. i = Len(down)+n+1
        BY <1>1, <1>4
      <3> QED
        BY <1>1, <2>2, <3>1, <3>2
    <2> QED
      BY <1>2, <2>1, <2>2 DEF Served
  <1>5. CASE m = n+2
    <2>1. Len(F) # n+1
      BY <1>1, <1>5
    <2>2. F[m].kind = "resync_required"
      <3>1. Replied(t, c, F, n)
        BY <1>2, <2>1 DEF Served
      <3>2. Len(F) = n+2
        BY <2>1, <3>1 DEF Replied
      <3> QED
        BY <1>5, <3>1, <3>2 DEF Replied
    <2> QED
      BY <1>1, <2>2
  <1> QED
    BY <1>1, <1>3, <1>4, <1>5

\* What answers a subscribe is good behind what was sent before it.
LEMMA ServeFrames ==
    ASSUME NEW t, NEW c, NEW F, NEW n, Answering(t, c, F, n), conn'.open => conn.open
    PROVE  Frames'
  <1>1. /\ FeedInv /\ Serve /\ conn.open /\ t \in Topics /\ c \in Nat \cup {None}
        /\ F \in Seq(Frame) /\ down' = down \o F
    BY DEF Answering
  <1>2. /\ link = "connected" /\ known = epoch /\ Seen = log[epoch] /\ Seen' = Seen /\ Stays
        /\ entry' = entry /\ Reading' = Reading /\ Newest = Len(Seen)
    BY <1>1, BeforeServe DEF Newest
  <1>3. Newest \in Nat /\ None \notin Nat
    BY <1>1, Basics
  <1>4. \A s \in Nat : After(t, c, s) => Numbered(t, s)
    BY <1>1, <1>2, <1>3 DEF After, Numbered
  <1>5. \A s \in Nat : \A x : Numbered(x, s) => s <= Newest
    BY <1>2, <1>3 DEF Numbered
  <1>6. ASSUME NEW k \in DOMAIN down', down'[k].kind = "event" PROVE down'[k].seq <= Newest
    <2>1. CASE k \in 1..Len(down)
      <3>1. FrameOK(k) /\ down[k] \in Frame /\ down'[k] = down[k]
        BY <1>1, <1>2, <2>1, ServedPlaces, Basics DEF FeedInv, Frames
      <3>2. Numbered(down[k].topic, down[k].seq) /\ down[k].seq \in Nat
        BY <1>6, <3>1, FrameFacts DEF FrameOK
      <3> QED
        BY <1>5, <3>1, <3>2
    <2>2. CASE k \in Len(down)+1..Len(down)+Len(F)
      <3>1. After(t, c, down'[k].seq)
        BY <1>6, <2>2, ServedFrame
      <3> QED
        BY <3>1 DEF After
    <2> QED
      BY <2>1, <2>2, ServedPlaces
  <1>7. t \in Reading /\ entry[t].cursor # None => entry[t].cursor <= Newest
    <2>1. t \in Reading => EntryOK(t) /\ entry[t].cursor \in Nat \cup {None}
      BY <1>1, Basics DEF FeedInv, Entries
    <2> QED
      BY <1>5, <2>1 DEF EntryOK
  <1>8. ASSUME NEW i \in Len(down)+1..Len(down)+Len(F) PROVE FrameOK(i)'
    <2>1. down'[i].kind = "event" => Numbered(down[i].topic, down[i].seq)'
      <3> SUFFICES ASSUME down'[i].kind = "event" PROVE Numbered(down[i].topic, down[i].seq)'
        OBVIOUS
      <3>1. down'[i].topic = t /\ down'[i].seq \in Nat /\ After(t, c, down'[i].seq)
        BY ServedFrame
      <3>2. Numbered(t, down'[i].seq)
        BY <1>4, <3>1
      <3> QED
        BY <1>2, <3>1, <3>2 DEF Numbered
    <2>2. down'[i].kind = "close" => i = Len(down') /\ ~conn'.open
      BY ServedFrame DEF Gone
    <2>3. down'[i].kind = "subscribed" => AnswerIsAhead(i)'
      <3> SUFFICES ASSUME down'[i].kind = "subscribed" PROVE AnswerIsAhead(i)'
        OBVIOUS
      <3>1. down'[i].topic = t /\ down'[i].to = Newest
        BY ServedFrame
      <3>2. \A k \in 1..i-1 : k \in DOMAIN down'
        BY ServedPlaces
      <3>3. \A k \in 1..i-1 : down'[k].kind = "event" => down'[k].seq <= down'[i].to
        BY <1>6, <3>1, <3>2
      <3>4. down'[i].to <= Len(Seen')
        BY <1>2, <1>3, <3>1
      <3> QED
        BY <1>2, <1>7, <3>1, <3>3, <3>4 DEF AnswerIsAhead
    <2>4. down'[i].kind # "hello"
      BY ServedFrame
    <2> QED
      BY <2>1, <2>2, <2>3, <2>4 DEF FrameOK
  <1>9. \A x \in Reading' : \/ entry'[x].cursor = None
                            \/ (x \in Reading /\ entry'[x].cursor = entry[x].cursor)
    BY <1>2
  <1> QED
    BY <1>1, <1>2, <1>8, <1>9, GrowFrames

\* A reader's replay begins where it stands, or before, and leaves out nothing.
LEMMA ServeCovers ==
    ASSUME NEW t, NEW c, NEW F, NEW n, Answering(t, c, F, n)
    PROVE  Coverage'
  <1>1. /\ FeedInv /\ Serve /\ conn.open /\ t \in Topics /\ c \in Nat \cup {None}
        /\ F \in Seq(Frame) /\ down' = down \o F /\ Served(t, c, F, n)
        /\ up[1] \in AsksFor(t) /\ up[1].cursor = c
    BY DEF Answering
  <1>2. /\ link = "connected" /\ known = epoch /\ Seen = log[epoch] /\ Seen' = Seen /\ Stays
        /\ pos' = pos /\ Newest = Len(Seen) /\ Newest \in Nat /\ None \notin Nat
        /\ conn.topics \subseteq Topics /\ conn \in [open : BOOLEAN, topics : SUBSET Topics]
    BY <1>1, BeforeServe, Basics DEF Newest, FeedInv, Shapes
  <1>3. /\ pos[t] # None => c # None /\ c <= pos[t]
        /\ c # None => \A k \in DOMAIN down : down[k] \notin AnswersTo(t)
    <2>1. AskOK(t, 1)
      BY <1>1, BeforeServe
    <2> QED
      BY <1>1, <2>1 DEF AskOK
  <1>4. ASSUME NEW k \in DOMAIN down, IsAnswer(down[k], t) PROVE c = None
    <2>1. down[k] \in AnswersTo(t)
      BY <1>1, <1>4, Basics, FrameFacts
    <2> QED
      BY <1>3, <2>1
  <1>5. Len(down) \in Nat /\ Len(F) \in Nat /\ n \in Nat /\ Len(down') = Len(down) + Len(F)
        /\ DOMAIN down' = 1..Len(down) + Len(F) /\ DOMAIN down = 1..Len(down)
    BY <1>1, ServedPlaces, Basics
  <1>6. ASSUME NEW i \in Len(down)+1..Len(down)+Len(F)+1,
               NEW u \in Topics, NEW j \in 0..Len(down'), NEW a \in Nat, NEW s \in Nat,
               Between(u, j, i, a, s)'
        PROVE  Sent(u, j, i, s)'
    <2>1. /\ j < i /\ a < s /\ Numbered(u, s) /\ Passed(u, j, i, s)' /\ Start(u, j, a)'
          /\ s <= Newest /\ log[epoch][s] = u
          /\ \A k \in j+1..i-1 : ~IsAnswer(down'[k], u)
      BY <1>2, <1>6 DEF Between, Numbered
    <2>2. ASSUME u # t PROVE Sent(u, j, i, s)'
      <3>1. \A k \in Len(down)+1..Len(down)+Len(F) :
              ~IsAnswer(down'[k], u) /\ ~(down'[k].kind = "event" /\ down'[k].topic = u)
        BY <2>2, ServedFrame DEF IsAnswer
      <3>2. ~(j \in Len(down)+1..Len(down)+Len(F))
        BY <1>5, <2>1, <3>1 DEF Start
      <3>3. j \in 0..Len(down)
        BY <1>5, <3>2
      <3>4. i \notin DOMAIN down'
        <4> SUFFICES ASSUME i \in DOMAIN down' PROVE FALSE
          OBVIOUS
        <4>1. i \in Len(down)+1..Len(down)+Len(F) /\ i # Len(down') + 1
          BY <1>5
        <4> QED
          BY <2>1, <3>1, <4>1 DEF Passed
      <3>5. conn'.open /\ u \in conn'.topics
        BY <2>1, <3>4 DEF Passed
      <3>6. conn' = Watching(t)
        BY <1>1, <3>5 DEF Served, Replied, Gone
      <3>7. u \in conn.topics
        BY <1>2, <2>2, <3>5, <3>6 DEF Watching
      <3> QED
        BY <1>1, <1>2, <1>6, <2>1, <3>3, <3>7, Behind
    <2>3. ASSUME u = t PROVE Sent(u, j, i, s)'
      <3>1. CASE i \in Len(down)+1..Len(down)+Len(F) /\ down'[i].kind = "event"
        <4>1. /\ i - Len(down) \in 1..n /\ down'[i].topic = t /\ After(t, c, down'[i].seq)
              /\ down'[i].seq \in Nat /\ down'[i] = F[i - Len(down)] /\ c # None
          BY <3>1, ServedFrame, ServedPlaces DEF After
        <4>2. s < down'[i].seq
          <5>1. i # Len(down') + 1
            BY <1>5, <3>1
          <5> QED
            BY <2>1, <3>1, <5>1 DEF Passed, IsAnswer
        <4>3. j = 0
          <5> SUFFICES ASSUME j # 0 PROVE FALSE
            OBVIOUS
          <5>1. j \in DOMAIN down' /\ IsAnswer(down'[j], t)
            BY <2>1, <2>3 DEF Start
          <5>2. CASE j \in 1..Len(down)
            <6>1. down'[j] = down[j]
              BY <5>2, ServedPlaces
            <6> QED
              BY <1>4, <1>5, <4>1, <5>1, <5>2, <6>1
          <5>3. CASE j \in Len(down)+1..Len(down)+Len(F)
            <6>1. j = Len(down)+n+1
              BY <5>1, <5>3, ServedFrame DEF IsAnswer
            <6> QED
              BY <1>5, <2>1, <4>1, <6>1
          <5> QED
            BY <1>5, <5>1, <5>2, <5>3
        <4>4. c <= a /\ c \in Nat
          BY <1>1, <1>2, <1>3, <2>1, <2>3, <4>1, <4>3 DEF Start
        <4>5. After(t, c, s)
          BY <2>1, <2>3, <4>1, <4>4 DEF After
        <4>6. PICK k \in 1..i-Len(down)-1 : F[k].seq = s
          BY <1>1, <4>1, <4>2, <4>5 DEF Served
        <4>7. k \in 1..n /\ k \in 1..Len(F) /\ Len(down)+k \in j+1..i-1
          <5>0. n <= Len(F)
            BY <1>5, ServedPlaces
          <5>1. i - Len(down) \in Nat /\ i - Len(down) <= n /\ n <= Len(F) /\ i \in Nat
            BY <1>5, <4>1, <5>0
          <5>2. k \in Nat /\ 1 <= k /\ k <= i - Len(down) - 1
            BY <1>5, <4>6, <5>1
          <5> QED
            BY <1>5, <4>3, <5>1, <5>2
        <4>8. down'[Len(down)+k] = F[k]
          BY <4>7, ServedPlaces
        <4>9. IsEvent(F[k], t, s)
          BY <1>1, <4>6, <4>7 DEF Served, IsEvent
        <4> QED
          BY <2>3, <4>7, <4>8, <4>9 DEF Sent
      <3>2. CASE i \in Len(down)+1..Len(down)+Len(F) /\ down'[i].kind # "event"
        <4>1. j = 0 /\ IsAnswer(down'[i], t) /\ down'[i].complete
          <5>1. i # Len(down') + 1
            BY <1>5, <3>2
          <5> QED
            BY <2>1, <2>3, <3>2, <5>1 DEF Passed
        <4>2. i = Len(down)+n+1 /\ Replied(t, c, F, n)
          <5>1. i \in Len(down)+1..Len(down)+Len(F) /\ down'[i].kind = "subscribed"
            BY <3>2, <4>1 DEF IsAnswer
          <5> QED
            BY <5>1, ServedFrame
        <4>3. i - Len(down) = n+1 /\ down'[i] = F[i - Len(down)]
          <5>1. down'[i] = F[i - Len(down)]
            BY <3>2, ServedPlaces
          <5>2. Len(down) \in Nat /\ n \in Nat
            BY <1>5
          <5> QED
            BY <4>2, <5>1, <5>2
        <4>4. F[n+1].complete
          BY <4>1, <4>3
        <4>5. c # None /\ c <= a /\ c \in Nat
          BY <1>1, <1>2, <1>3, <2>1, <2>3, <4>1 DEF Start
        <4>6. After(t, c, s)
          BY <2>1, <2>3, <4>5 DEF After
        <4>7. PICK k \in 1..n : F[k].seq = s
          BY <4>2, <4>4, <4>6 DEF Replied
        <4>8. k \in 1..Len(F) /\ Len(down)+k \in j+1..i-1
          BY <1>5, <4>1, <4>2, <4>7, ServedPlaces
        <4>9. down'[Len(down)+k] = F[k]
          BY <4>8, ServedPlaces
        <4>10. IsEvent(F[k], t, s)
          BY <1>1, <4>7 DEF Served, IsEvent
        <4> QED
          BY <2>3, <4>8, <4>9, <4>10 DEF Sent
      <3>3. CASE i = Len(down') + 1
        <4>1. i \notin DOMAIN down'
          BY <1>5, <3>3
        <4>2. conn'.open
          BY <2>1, <4>1 DEF Passed
        <4>3. Replied(t, c, F, n)
          BY <1>1, <4>2 DEF Served, Gone
        <4> DEFINE p == Len(down)+n+1
        <4>4. n+1 \in 1..Len(F) /\ p \in Len(down)+1..Len(down)+Len(F) /\ p <= i-1
          BY <1>5, <3>3, ServedPlaces
        <4>5. IsAnswer(down'[p], t) /\ down'[p].to = Newest
          <5>1. down'[Len(down)+(n+1)] = F[n+1]
            <6>1. \A m \in 1..Len(F) : down'[Len(down)+m] = F[m]
              BY ServedPlaces
            <6> QED
              BY <4>4, <6>1
          <5>2. Len(down)+(n+1) = p
            BY <1>5
          <5> QED
            BY <4>3, <5>1, <5>2 DEF Replied, IsAnswer
        <4>6. ~(p \in j+1..i-1)
          BY <2>1, <2>3, <4>5
        <4>7. j >= p
          BY <1>5, <4>4, <4>6
        <4>8. j \in Len(down)+1..Len(down)+Len(F) /\ j # 0
          BY <1>5, <4>7
        <4>9. IsAnswer(down'[j], t) /\ down'[j].to = a
          BY <2>1, <2>3, <4>8 DEF Start
        <4>10. a = Newest
          BY <4>8, <4>9, ServedFrame DEF IsAnswer
        <4> QED
          BY <1>2, <2>1, <4>10
      <3> QED
        BY <1>5, <3>1, <3>2, <3>3
    <2> QED
      BY <2>2, <2>3
  <1>7. \A i \in Len(down)+1..Len(down)+Len(F)+1 : Covered(i)'
    BY <1>6 DEF Covered
  <1> QED
    BY <1>1, <1>2, <1>7, GrowCoverage

\* A command that is served keeps the invariant (hub.ts dispatch).
LEMMA ServeKeeps == ASSUME FeedInv, Serve PROVE FeedInv'
  <1>1. /\ up[1] \in Command /\ Head(up) = up[1] /\ down \in Seq(Frame)
        /\ conn \in [open : BOOLEAN, topics : SUBSET Topics]
    BY BeforeServe, Basics DEF FeedInv, Shapes
  <1>2. IF ~conn.open THEN UNCHANGED <<conn, down, losses>>
        ELSE IF up[1].type = "subscribe" THEN Subscribe(up[1].topic, up[1].cursor)
        ELSE Unsubscribe(up[1].topic)
    BY <1>1 DEF Serve
  <1>3. CASE down' = down /\ (conn' = conn \/ Unsubscribe(up[1].topic))
    <2>1. /\ conn'.open => conn.open
          /\ conn'.topics \subseteq conn.topics
          /\ conn' \in [open : BOOLEAN, topics : SUBSET Topics]
      BY <1>1, <1>3 DEF Unsubscribe
    <2>2. SocketKept
      BY <1>3, <2>1, BeforeServe DEF SocketKept
    <2>3. Frames'
      <3>1. \A x \in Reading' : \/ entry'[x].cursor = None
                                \/ (x \in Reading /\ entry'[x].cursor = entry[x].cursor)
        BY BeforeServe
      <3> QED
        BY <2>2, <3>1, FramesKept
    <2>4. Coverage'
      BY <2>2, BeforeServe, CoverageKept
    <2>5. Asking'
      <3> DEFINE F == <<>>
      <3>1. F \in Seq(Frame) /\ down' = down \o F /\ \A i \in 1..Len(F) : FALSE
        BY <1>1, <1>3, EmptySeq, ConcatEmptySeq
      <3>2. \A t \in Topics : Count(down', AnswersTo(t)) <= Count(down, AnswersTo(t)) + 1
        <4>1. \A t \in Topics : Count(down, AnswersTo(t)) \in Nat
          BY <1>1, CountType
        <4> QED
          BY <1>3, <4>1
      <3> HIDE DEF F
      <3> QED
        BY <3>1, <3>2, AskingServed
    <2>6. down' \in Seq(Frame)
      BY <1>1, <1>3
    <2> QED
      BY <2>1, <2>3, <2>4, <2>5, <2>6, ServeParts, Whole
  <1>4. CASE conn.open /\ up[1].type = "subscribe" /\ Subscribe(up[1].topic, up[1].cursor)
    <2> DEFINE t == up[1].topic
               c == up[1].cursor
    <2>1. t \in Topics /\ c \in Nat \cup {None} /\ up[1] \in AsksFor(t)
          /\ \A x \in Topics : up[1] \in AsksFor(x) => x = t
      BY <1>1, <1>4, CommandFacts
    <2>2. Subscribe(t, c) /\ up[1].cursor = c
      BY <1>4
    <2> HIDE DEF t, c
    <2>3. PICK F \in Seq(Frame), n \in Nat : down' = down \o F /\ Served(t, c, F, n)
      BY <2>1, <2>2, SubscribeServes DEF Serves
    <2>4. Answering(t, c, F, n)
      BY <1>4, <2>1, <2>2, <2>3 DEF Answering
    <2>5. /\ conn'.open => conn.open
          /\ conn' \in [open : BOOLEAN, topics : SUBSET Topics]
      <3>1. conn' \in {Gone, Watching(t)}
        BY <2>3 DEF Served, Replied
      <3>2. Gone \in [open : BOOLEAN, topics : SUBSET Topics]
        BY DEF Gone
      <3>3. Watching(t) \in [open : BOOLEAN, topics : SUBSET Topics]
        BY <1>1, <2>1 DEF Watching
      <3> QED
        BY <1>4, <3>1, <3>2, <3>3
    <2>6. Asking'
      <3>1. \A x \in Topics : up[1] \notin AsksFor(x) =>
              \A i \in 1..Len(F) : F[i] \notin AnswersTo(x)
        <4> SUFFICES ASSUME NEW x \in Topics, NEW i \in 1..Len(F), F[i] \in AnswersTo(x)
                     PROVE  x = t
          BY <2>1
        <4> DEFINE k == Len(down) + i
        <4>1. k \in Len(down)+1..Len(down)+Len(F) /\ down'[k] = F[i]
          BY <2>4, ServedPlaces
        <4>2. down'[k].kind = "subscribed" /\ down'[k].topic = x
          BY <4>1 DEF AnswersTo, Answers
        <4> HIDE DEF k
        <4> QED
          BY <2>4, <4>1, <4>2, ServedFrame
      <3>2. ASSUME NEW x \in Topics
            PROVE  Count(down', AnswersTo(x)) <= Count(down, AnswersTo(x)) + 1
        <4>1. Count(F, AnswersTo(x)) <= 1
          <5>1. \A i \in 1..Len(F) : F[i] \in AnswersTo(x) => i = n + 1
            <6> SUFFICES ASSUME NEW i \in 1..Len(F), F[i] \in AnswersTo(x) PROVE i = n + 1
              OBVIOUS
            <6> DEFINE k == Len(down) + i
            <6>1. k \in Len(down)+1..Len(down)+Len(F) /\ down'[k] = F[i]
              BY <2>4, ServedPlaces
            <6>2. down'[k].kind = "subscribed"
              BY <6>1 DEF AnswersTo, Answers
            <6>3. Len(down) + i = Len(down) + n + 1
              BY <2>4, <6>1, <6>2, ServedFrame
            <6> QED
              BY <2>3, <6>3, Basics
          <5>2. \A i, k \in DOMAIN F : F[i] \in AnswersTo(x) /\ F[k] \in AnswersTo(x) => i = k
            BY <5>1, LenProperties
          <5> QED
            BY <5>2, CountOnce
        <4>2. Count(down', AnswersTo(x)) = Count(down, AnswersTo(x)) + Count(F, AnswersTo(x))
          BY <1>1, <2>3, CountBoth
        <4> QED
          BY <1>1, <4>1, <4>2, CountType
      <3> QED
        BY <2>3, <3>1, <3>2, AskingServed
    <2>7. down' \in Seq(Frame)
      BY <2>4, ServedPlaces
    <2>8. Frames' /\ Coverage'
      BY <2>4, <2>5, ServeFrames, ServeCovers
    <2> QED
      BY <2>5, <2>6, <2>7, <2>8, ServeParts, Whole
  <1>5. up[1].type \in {"subscribe", "unsubscribe"}
    BY <1>1, CommandFacts
  <1> QED
    BY <1>2, <1>3, <1>4 DEF Unsubscribe

-----------------------------------------------------------------------------
(* The tab reads a frame *)

\* What there is before a frame is read.
LEMMA BeforeReceive ==
    ASSUME FeedInv, Receive
    PROVE  /\ down # <<>> /\ 1 \in DOMAIN down /\ down[1] \in Frame /\ Head(down) = down[1]
           /\ UNCHANGED <<epoch, log, floor, conn, losses, turns>>
           /\ link \in {"opening", "connected"}
           /\ link = "opening" => down[1].kind = "hello" /\ up = <<>> /\ conn.topics = {}
                                  /\ \E e \in Epochs : Greeting(e) /\ down[1].epoch = e
           /\ link = "connected" => FrameOK(1) /\ down[1].kind # "hello" /\ known # 0
  <1>1. down # <<>> /\ UNCHANGED <<epoch, log, floor, conn, losses, turns>>
    BY DEF Receive, hub, bounds
  <1>2. 1 \in DOMAIN down /\ down[1] \in Frame /\ Head(down) = down[1]
    BY <1>1, Basics, Shifted
  <1>3. Linked /\ link \in {"closed", "opening", "connected", "stopped"}
    BY DEF FeedInv, TypeOK
  <1>4. link \in {"opening", "connected"}
    BY <1>1, <1>3 DEF Linked
  <1>5. ASSUME NEW e, Greeting(e) PROVE down[1].kind = "hello" /\ down[1].epoch = e
    <2> DEFINE h == [kind |-> "hello", epoch |-> e]
    <2>1. h.kind = "hello" /\ h.epoch = e
      OBVIOUS
    <2>2. down = <<h>> \/ \E f \in Closes : down = <<h, f>>
      BY <1>5 DEF Greeting
    <2> HIDE DEF h
    <2>3. down[1] = h
      BY <2>2, Pair
    <2> QED
      BY <2>1, <2>3
  <1>6. link = "connected" => FrameOK(1)
    BY <1>2 DEF FeedInv, Frames
  <1> QED
    BY <1>1, <1>2, <1>3, <1>4, <1>5, <1>6 DEF Linked, FrameOK

\* The commands of a new connection: one for each topic that is read.
LEMMA Resubscribes ==
    ASSUME FeedInv, Reading' = Reading,
           entry' \in [Reading -> [cursor : Nat \cup {None}, seen : SUBSET Nat]],
           NEW q \in SetToSeqs({SubscribeTo(t) : t \in Reading})
    PROVE  /\ q \in Seq(Command)
           /\ \A i \in DOMAIN q, t \in Topics :
                q[i] \in AsksFor(t) => t \in Reading /\ q[i].cursor = entry'[t].cursor
           /\ \A i, k \in DOMAIN q, t \in Topics :
                q[i] \in AsksFor(t) /\ q[k] \in AsksFor(t) => i = k
  <1> DEFINE S == {SubscribeTo(t) : t \in Reading}
             n == Cardinality(S)
  <1>1. Reading \subseteq Topics /\ IsFiniteSet(Reading)
    BY Basics, FeedAssumption, FS_Subset
  <1>2. IsFiniteSet(S)
    <2> DEFINE f == [t \in Reading |-> SubscribeTo(t)]
    <2>1. f \in Surjection(Reading, S)
      <3>1. f \in [Reading -> S]
        OBVIOUS
      <3>2. \A x \in S : \E t \in Reading : f[t] = x
        OBVIOUS
      <3> HIDE DEF f, S
      <3> QED
        BY <3>1, <3>2 DEF Surjection
    <2> HIDE DEF f, S
    <2> QED
      BY <1>1, <2>1, FS_Surjection
  <1>3. n \in Nat
    BY <1>2, FS_CardinalityType
  <1>4. \A t \in Reading : SubscribeTo(t) \in Asks /\ SubscribeTo(t).topic = t
                           /\ SubscribeTo(t).cursor = entry'[t].cursor
    BY <1>1 DEF SubscribeTo, Asks
  <1>5. q \in [1..n -> S] /\ \A i, k \in 1..n : i # k => q[i] # q[k]
    BY DEF SetToSeqs
  <1>6. \A x \in S : \E t \in Reading : x = SubscribeTo(t)
    OBVIOUS
  <1>7. S \subseteq Command
    BY <1>4, <1>6 DEF Command
  <1> HIDE DEF n, S
  <1>8. DOMAIN q = 1..n /\ \A i \in 1..n : q[i] \in S
    BY <1>5
  <1>9. q \in Seq(Command)
    <2>1. q \in [1..n -> Command]
      BY <1>5, <1>7
    <2> QED
      BY <1>3, <2>1
  <1>10. ASSUME NEW x \in S, NEW t \in Topics, x \in AsksFor(t)
         PROVE  t \in Reading /\ x = SubscribeTo(t) /\ x.cursor = entry'[t].cursor
    <2>1. PICK u \in Reading : x = SubscribeTo(u)
      BY <1>6
    <2>2. u = t
      BY <1>4, <1>10, <2>1 DEF AsksFor
    <2> QED
      BY <1>4, <2>1, <2>2
  <1>11. \A i \in DOMAIN q, t \in Topics :
           q[i] \in AsksFor(t) => t \in Reading /\ q[i].cursor = entry'[t].cursor
    BY <1>8, <1>10
  <1>12. ASSUME NEW i \in DOMAIN q, NEW k \in DOMAIN q, NEW t \in Topics,
                q[i] \in AsksFor(t), q[k] \in AsksFor(t)
         PROVE  i = k
    <2>1. q[i] = q[k]
      BY <1>8, <1>10, <1>12
    <2> QED
      BY <1>5, <1>8, <2>1
  <1> QED
    BY <1>9, <1>11, <1>12

\* A hello: the tab subscribes again to what it reads.
LEMMA HelloKeeps ==
    ASSUME FeedInv, Receive, link = "opening" PROVE FeedInv'
  <1>1. /\ UNCHANGED <<epoch, log, floor, conn>> /\ up = <<>> /\ conn.topics = {}
        /\ down # <<>> /\ Head(down) = down[1] /\ down[1].kind = "hello"
        /\ down \in Seq(Frame)
    BY BeforeReceive, Basics
  <1>2. PICK e \in Epochs : Greeting(e) /\ down[1].epoch = e
    BY BeforeReceive
  <1>3. down' = Tail(down) /\ OnHello(e)
    BY <1>1, <1>2 DEF Receive
  <1>4. /\ link' = "connected" /\ known' = e
        /\ entry' = IF known \notin {0, e} THEN [t \in Reading |-> Fresh] ELSE entry
        /\ asked' = [t \in Topics |-> IF t \in Reading THEN 1 ELSE 0]
        /\ pos' = [t \in Topics |->
                     IF t \in Reading /\ entry'[t].cursor # None THEN pos[t] ELSE None]
        /\ told' = IF known # 0 THEN Reading ELSE {}
    BY <1>3 DEF OnHello
  <1>5. e \in Nat \ {0} /\ e <= epoch /\ known <= e /\ (conn.open => e = epoch)
    BY <1>2 DEF Greeting, Epochs
  <1>6. Reading' = Reading /\ \A t \in Reading : entry'[t] \in {Fresh, entry[t]}
    BY <1>4 DEF Reading
  <1>7. entry' \in [Reading -> [cursor : Nat \cup {None}, seen : SUBSET Nat]]
    <2>1. entry \in [Reading -> [cursor : Nat \cup {None}, seen : SUBSET Nat]]
      BY DEF FeedInv, Shapes
    <2>2. Fresh \in [cursor : Nat \cup {None}, seen : SUBSET Nat]
      BY DEF Fresh
    <2> QED
      BY <1>4, <2>1, <2>2
  <1>8. PICK q \in SetToSeqs({SubscribeTo(t) : t \in Reading}) : up' = up \o q
    BY <1>3 DEF OnHello
  <1>9. up' = q /\ q \in Seq(Command)
    <2>1. q \in Seq(Command)
      BY <1>6, <1>7, Resubscribes
    <2> QED
      BY <1>1, <1>8, <2>1, ConcatEmptySeq
  <1>10. /\ \A i \in DOMAIN down' : down'[i].kind = "close" /\ i = Len(down') /\ ~conn.open
         /\ down' \in Seq(Frame)
    <2> DEFINE h == [kind |-> "hello", epoch |-> e]
    <2>1. down = <<h>> \/ (~conn.open /\ \E f \in Closes : down = <<h, f>>)
      BY <1>2 DEF Greeting
    <2> HIDE DEF h
    <2>2. CASE down = <<h>>
      <3>1. Len(down) = 1
        BY <2>2
      <3>2. DOMAIN down' = 1..0 /\ down' \in Seq(Frame)
        BY <1>1, <1>3, <3>1, Shifted
      <3> QED
        BY <3>2
    <2>3. ASSUME ~conn.open, NEW f \in Closes, down = <<h, f>>
          PROVE  \A i \in DOMAIN down' : down'[i].kind = "close" /\ i = Len(down') /\ ~conn.open
      <3>1. Len(down) = 2 /\ down[2] = f
        BY <2>3, Pair
      <3>2. DOMAIN down' = 1..1 /\ Len(down') = 1 /\ down'[1] = f
        <4>1. DOMAIN down' = 1..Len(down)-1 /\ Len(down') = Len(down)-1
          BY <1>1, <1>3, Shifted
        <4>2. \A i \in 1..Len(down)-1 : down'[i] = down[i+1]
          BY <1>1, <1>3, Shifted
        <4> QED
          BY <3>1, <4>1, <4>2
      <3>3. f.kind = "close"
        BY DEF Closes
      <3> QED
        BY <2>3, <3>2, <3>3
    <2>4. down' \in Seq(Frame)
      BY <1>1, <1>3, Shifted
    <2> QED
      BY <2>1, <2>2, <2>3, <2>4
  <1>11. Base'
    <2>1. known' \in 0..epoch' /\ Newest' = Newest
      BY <1>1, <1>4, <1>5, Basics DEF Newest
    <2> QED
      BY <1>1, <1>4, <1>6, <2>1, BaseNow DEF Base
  <1>12. Shapes'
    <2>1. pos' \in [Topics -> Nat \cup {None}] /\ asked' \in [Topics -> Nat]
      BY <1>4 DEF FeedInv, Shapes
    <2> QED
      BY <1>1, <1>6, <1>7, <1>9, <1>10, <2>1 DEF FeedInv, Shapes
  <1>13. Linked'
    BY <1>1, <1>4, <1>5 DEF Linked
  <1>14. Frames'
    BY <1>1, <1>10 DEF Frames, FrameOK
  <1>15. known = e => Seen' = Seen
    BY <1>1, <1>4 DEF Seen
  <1>16. Entries'
    <2>1. ASSUME NEW t \in Reading PROVE EntryOK(t)'
      <3>1. t \in Topics /\ EntryOK(t) /\ (known = 0 => entry[t] = Fresh)
        BY Basics DEF FeedInv, Entries
      <3>2. CASE entry'[t] = Fresh
        BY <3>2 DEF EntryOK, Fresh
      <3>3. CASE entry'[t] # Fresh
        <4>1. known = e /\ entry'[t] = entry[t]
          BY <1>4, <1>6, <3>1, <3>3
        <4>2. pos'[t] \in {None, pos[t]}
          BY <1>4, <3>1
        <4> QED
          BY <1>15, <3>1, <4>1, <4>2 DEF EntryOK, Numbered
      <3> QED
        BY <3>2, <3>3
    <2> QED
      BY <1>4, <1>5, <1>6, <2>1 DEF Entries
  <1>17. Asking'
    <2> SUFFICES ASSUME NEW t \in Topics PROVE AskingOK(t)'
      BY DEF Asking
    <2>1. Count(down', AnswersTo(t)) = 0 /\ \A k \in DOMAIN down' : down'[k] \notin AnswersTo(t)
      <3>1. \A k \in DOMAIN down' : down'[k] \notin AnswersTo(t)
        BY <1>10 DEF AnswersTo, Answers
      <3> QED
        BY <1>10, <3>1, CountType
    <2>2. /\ \A i \in DOMAIN q : q[i] \in AsksFor(t) =>
               t \in Reading /\ q[i].cursor = entry'[t].cursor
          /\ \A i, k \in DOMAIN q : q[i] \in AsksFor(t) /\ q[k] \in AsksFor(t) => i = k
      BY <1>6, <1>7, Resubscribes
    <2>3. asked'[t] = (IF t \in Reading THEN 1 ELSE 0)
      BY <1>4
    <2>4. Count(q, AsksFor(t)) \in Nat /\ Count(q, AsksFor(t)) <= asked'[t]
      <3>1. Count(q, AsksFor(t)) <= 1 /\ Count(q, AsksFor(t)) \in Nat
        BY <1>9, <2>2, CountOnce, CountType
      <3>2. t \notin Reading => Count(q, AsksFor(t)) = 0
        BY <1>9, <2>2, CountType
      <3> QED
        BY <2>3, <3>1, <3>2
    <2>5. Count(down', AnswersTo(t)) + Count(up', AsksFor(t)) <= asked'[t]
      BY <1>9, <2>1, <2>4
    <2>6. ASSUME NEW i \in DOMAIN up', up'[i] \in AsksFor(t) PROVE AskOK(t, i)'
      <3>1. t \in Reading /\ up'[i].cursor = entry'[t].cursor
        BY <1>9, <2>2, <2>6
      <3>2. \A k \in 1..i-1 : up'[k] \notin AsksFor(t)
        <4>1. DOMAIN q = 1..Len(q) /\ Len(q) \in Nat
          BY <1>9, LenProperties
        <4>2. \A k \in 1..i-1 : k \in DOMAIN q /\ k # i
          BY <1>9, <4>1
        <4> QED
          BY <1>9, <2>2, <2>6, <4>2
      <3>3. pos'[t] # None => entry'[t].cursor # None /\ entry'[t].cursor <= pos'[t]
        <4>1. pos'[t] # None => entry'[t].cursor # None
          BY <1>4
        <4>2. EntryOK(t)'
          BY <1>6, <1>16, <3>1 DEF Entries
        <4> QED
          BY <4>1, <4>2 DEF EntryOK
      <3> QED
        BY <2>1, <3>1, <3>2, <3>3 DEF AskOK
    <2>7. \A i \in DOMAIN up' : up'[i] \in AsksFor(t) => AskOK(t, i)'
      BY <2>6
    <2> QED
      BY <2>3, <2>5, <2>7 DEF AskingOK, Count, Hits
  <1>18. Coverage'
    <2>1. \A i \in 1..Len(down')+1, t \in Topics, j \in Nat, s \in Nat : ~Passed(t, j, i, s)'
      BY <1>1, <1>10 DEF Passed, IsAnswer
    <2>2. Len(down') \in Nat
      BY <1>10, LenProperties
    <2> QED
      BY <2>1, <2>2 DEF Coverage, Covered, Between
  <1> QED
    BY <1>11, <1>12, <1>13, <1>14, <1>16, <1>17, <1>18, Whole

\* The front frame is gone.
LEMMA Read ==
    ASSUME FeedInv, Receive, link = "connected", down' = Tail(down), link' = link, known' = known
    PROVE  /\ Stays /\ Seen' = Seen /\ down' \in Seq(Frame) /\ Len(down) \in Nat \ {0}
           /\ \A k \in DOMAIN down' : k + 1 \in DOMAIN down /\ down'[k] = down[k + 1]
           /\ \A t \in Topics : Count(down, AnswersTo(t)) =
                Count(down', AnswersTo(t)) + (IF down[1] \in AnswersTo(t) THEN 1 ELSE 0)
           /\ \A t \in Topics : Count(down', AnswersTo(t)) \in Nat
           /\ UNCHANGED <<epoch, log, floor, conn>>
  <1>1. down \in Seq(Frame) /\ down # <<>> /\ UNCHANGED <<epoch, log, floor, conn>>
    BY BeforeReceive, Basics
  <1>2. /\ down' \in Seq(Frame) /\ Len(down) \in Nat \ {0} /\ DOMAIN down' = 1..Len(down)-1
        /\ DOMAIN down = 1..Len(down)
        /\ \A k \in 1..Len(down)-1 : k + 1 \in 1..Len(down) /\ down'[k] = down[k + 1]
    BY <1>1, Shifted
  <1>3. \A t \in Topics : Count(down, AnswersTo(t)) =
          Count(down', AnswersTo(t)) + (IF down[1] \in AnswersTo(t) THEN 1 ELSE 0)
    BY <1>1, CountShifted
  <1>4. \A t \in Topics : Count(down', AnswersTo(t)) \in Nat
    BY <1>2, CountType
  <1>5. Seen' = Seen
    BY <1>1 DEF Seen
  <1>6. Stays
    BY <1>5, Basics DEF Stays
  <1> QED
    BY <1>1, <1>2, <1>3, <1>4, <1>5, <1>6

\* The parts that do not depend on what the frame says.
LEMMA ReadParts ==
    ASSUME FeedInv, Receive, link = "connected", down' = Tail(down),
           UNCHANGED <<link, known, up>>, told' \subseteq Reading, Reading' = Reading,
           entry' \in [Reading -> [cursor : Nat \cup {None}, seen : SUBSET Nat]],
           asked' \in [Topics -> Nat], pos' \in [Topics -> Nat \cup {None}]
    PROVE  Base' /\ Shapes' /\ Linked'
  <1>1. UNCHANGED <<epoch, log, floor, conn>> /\ down' \in Seq(Frame) /\ Newest' = Newest
    BY Read DEF Newest
  <1>2. Base'
    BY <1>1, BaseNow DEF Base
  <1>3. Shapes'
    BY <1>1 DEF FeedInv, Shapes
  <1>4. Linked'
    BY <1>1 DEF FeedInv, Linked
  <1> QED
    BY <1>2, <1>3, <1>4

\* A frame that answers nobody.
LEMMA AskingRead ==
    ASSUME FeedInv, Receive, link = "connected", down' = Tail(down),
           UNCHANGED <<link, known, up, asked>>, down[1].kind # "subscribed",
           \A t \in Topics : \/ pos'[t] = pos[t]
                             \/ pos[t] \in Nat /\ pos'[t] \in Nat /\ pos[t] <= pos'[t]
    PROVE  Asking'
  <1> SUFFICES ASSUME NEW t \in Topics PROVE AskingOK(t)'
    BY DEF Asking
  <1>1. AskingOK(t) /\ pos[t] \in Nat \cup {None} /\ None \notin Nat
    BY Basics DEF FeedInv, Asking
  <1>2. down[1] \notin AnswersTo(t)
    BY DEF AnswersTo, Answers
  <1>3. Count(down', AnswersTo(t)) = Count(down, AnswersTo(t))
    BY <1>2, Read
  <1>4. \A k \in DOMAIN down' : k + 1 \in DOMAIN down /\ down'[k] = down[k + 1]
    BY Read
  <1>5. pos'[t] # None => pos[t] # None /\ pos[t] \in Nat /\ pos'[t] \in Nat /\ pos[t] <= pos'[t]
    BY <1>1
  <1>6. ASSUME NEW i \in DOMAIN up, up[i] \in AsksFor(t) PROVE AskOK(t, i)'
    <2>1. AskOK(t, i) /\ up[i].cursor \in Nat \cup {None}
      BY <1>1, <1>6, Basics, CommandFacts DEF AskingOK
    <2>2. pos'[t] # None => up[i].cursor # None /\ up[i].cursor <= pos'[t]
      BY <1>1, <1>5, <2>1 DEF AskOK
    <2>3. up[i].cursor # None =>
            /\ \A k \in DOMAIN down' : down'[k] \notin AnswersTo(t)
            /\ \A k \in 1..i-1 : up[k] \notin AsksFor(t)
      BY <1>4, <2>1 DEF AskOK
    <2> QED
      BY <2>2, <2>3 DEF AskOK
  <1>7. \A i \in DOMAIN up' : up'[i] \in AsksFor(t) => AskOK(t, i)'
    BY <1>6
  <1>8. Count(down', AnswersTo(t)) + Count(up', AsksFor(t)) <= asked'[t]
    BY <1>1, <1>3 DEF AskingOK
  <1>9. pos'[t] # None => asked'[t] <= 1
    BY <1>1, <1>5 DEF AskingOK
  <1> QED
    BY <1>7, <1>8, <1>9 DEF AskingOK, Count, Hits

\* A reader is handed an event, or has seen it.
LEMMA EventKeeps ==
    ASSUME FeedInv, Receive, link = "connected", down' = Tail(down),
           NEW t \in Topics, NEW s \in Nat, IsEvent(down[1], t, s), OnEvent(t, s)
    PROVE  FeedInv'
  <1>1. /\ UNCHANGED <<link, known, up, asked>> /\ told' = {} /\ down # <<>>
        /\ Numbered(t, s) /\ Stays /\ Seen' = Seen /\ UNCHANGED <<epoch, log, floor, conn>>
    BY BeforeReceive, Read DEF OnEvent, FrameOK, IsEvent
  <1>2. /\ entry \in [Reading -> [cursor : Nat \cup {None}, seen : SUBSET Nat]]
        /\ pos \in [Topics -> Nat \cup {None}] /\ asked \in [Topics -> Nat] /\ None \notin Nat
    BY FeedAssumption DEF FeedInv, Shapes
  <1> DEFINE new == t \in Reading /\ s \notin entry[t].seen
             later == entry[t].cursor = None \/ entry[t].cursor < s
             cursor == IF later THEN s ELSE entry[t].cursor
             old == entry[t]
  <1>3. /\ new => entry' = [entry EXCEPT ![t] = [cursor |-> cursor, seen |-> @.seen \cup {s}]]
                  /\ pos' = [pos EXCEPT ![t] = IF @ # None /\ @ < s THEN s ELSE @]
        /\ ~new => entry' = entry /\ pos' = pos
    BY DEF OnEvent
  <1>4. new => /\ entry'[t].cursor = cursor /\ entry'[t].seen = old.seen \cup {s}
               /\ pos'[t] = IF pos[t] # None /\ pos[t] < s THEN s ELSE pos[t]
    BY <1>2, <1>3
  <1>5. /\ \A x \in Reading \ {t} : entry'[x] = entry[x]
        /\ \A x \in Topics \ {t} : pos'[x] = pos[x]
        /\ Reading' = Reading
    BY <1>2, <1>3 DEF Reading
  <1>6. new => /\ old.cursor \in Nat \cup {None} /\ old.seen \subseteq Nat
               /\ EntryOK(t) /\ cursor \in Nat
    <2>1. t \in Reading => old.cursor \in Nat \cup {None} /\ old.seen \subseteq Nat /\ EntryOK(t)
      BY <1>2 DEF FeedInv, Entries
    <2> QED
      BY <2>1
  <1>7. /\ entry' \in [Reading -> [cursor : Nat \cup {None}, seen : SUBSET Nat]]
        /\ pos' \in [Topics -> Nat \cup {None}]
    <2>1. CASE new
      <3>1. cursor \in Nat \cup {None} /\ entry[t].seen \cup {s} \in SUBSET Nat
        BY <1>6, <2>1
      <3>2. pos' \in [Topics -> Nat \cup {None}]
        BY <1>2, <1>3, <2>1
      <3> DEFINE x == [cursor |-> cursor, seen |-> entry[t].seen \cup {s}]
      <3>3. x \in [cursor : Nat \cup {None}, seen : SUBSET Nat]
        BY <3>1
      <3>4. entry' = [entry EXCEPT ![t] = x]
        BY <1>3, <2>1
      <3> HIDE DEF cursor, x
      <3> QED
        BY <1>2, <3>2, <3>3, <3>4
    <2> QED
      BY <1>2, <1>3, <2>1
  <1> HIDE DEF new, later, cursor, old
  <1>8. Base' /\ Shapes' /\ Linked'
    BY <1>1, <1>2, <1>5, <1>7, ReadParts
  <1>9. Frames'
    <2>1. \A x \in Reading : \/ entry'[x].cursor \in {None, entry[x].cursor}
                             \/ IsEvent(down[1], x, entry'[x].cursor)
      <3>1. new => entry'[t].cursor \in {s, entry[t].cursor}
        BY <1>4 DEF cursor
      <3> QED
        BY <1>3, <1>5, <3>1
    <2> QED
      BY <1>1, <1>5, <2>1, ShiftFrames
  <1>10. \A x \in Topics : \/ pos'[x] = pos[x]
                           \/ pos[x] \in Nat /\ pos'[x] \in Nat /\ pos[x] <= pos'[x]
    <2>1. new => \/ pos'[t] = pos[t]
                 \/ pos[t] \in Nat /\ pos'[t] \in Nat /\ pos[t] <= pos'[t]
      BY <1>2, <1>4
    <2>2. ~new => pos'[t] = pos[t]
      BY <1>3
    <2> QED
      BY <1>5, <2>1, <2>2
  <1>11. Asking'
    BY <1>1, <1>10, AskingRead DEF IsEvent
  <1>12. Entries'
    <2>1. Entries /\ known # 0 /\ known' = known
      BY <1>1, BeforeReceive DEF FeedInv
    <2>2. \A x \in Topics \ Reading : pos'[x] = None
      BY <1>3, <1>5, <2>1 DEF Entries, new
    <2>3. ASSUME NEW x \in Reading, x # t \/ ~new PROVE EntryOK(x)'
      <3>1. EntryOK(x) /\ x \in Topics
        BY <2>1, Basics DEF Entries
      <3>2. entry'[x] = entry[x] /\ pos'[x] = pos[x]
        BY <1>3, <1>5, <2>3, <3>1
      <3> QED
        BY <1>1, <3>1, <3>2 DEF EntryOK, Numbered
    <2>4. ASSUME new PROVE EntryOK(t)'
      <3>1. /\ old.cursor \in Nat \cup {None} /\ old.seen \subseteq Nat /\ EntryOK(t)
            /\ entry'[t].cursor = cursor /\ entry'[t].seen = old.seen \cup {s} /\ cursor \in Nat
            /\ pos'[t] = (IF pos[t] # None /\ pos[t] < s THEN s ELSE pos[t])
            /\ pos[t] \in Nat \cup {None}
        BY <1>2, <1>4, <1>6, <2>4
      <3>2. /\ old.cursor # None => Numbered(t, old.cursor)
            /\ \A r \in old.seen : Numbered(t, r) /\ old.cursor # None /\ r <= old.cursor
            /\ old.cursor # None /\ pos[t] # None => old.cursor <= pos[t]
        BY <3>1 DEF EntryOK, old
      <3>3. /\ cursor = s \/ (cursor = old.cursor /\ old.cursor # None)
            /\ s <= cursor /\ (old.cursor # None => old.cursor <= cursor)
        BY <1>2, <3>1 DEF cursor, later, old
      <3>4. \A r : Numbered(t, r) => Numbered(t, r)'
        BY <1>1 DEF Numbered
      <3>5. Numbered(t, entry[t].cursor)'
        <4>1. Numbered(t, cursor)
          BY <1>1, <3>2, <3>3
        <4>2. cursor \in 1..Len(Seen) /\ Seen[cursor] = t
          BY <4>1 DEF Numbered
        <4> QED
          BY <1>1, <3>1, <4>2 DEF Numbered
      <3>6. \A r \in entry'[t].seen : Numbered(t, r)'
        BY <1>1, <3>1, <3>2, <3>4
      <3>7. \A r \in entry'[t].seen : r <= cursor
        BY <3>1, <3>2, <3>3
      <3>8. pos'[t] # None => cursor <= pos'[t]
        BY <1>2, <3>1, <3>2, <3>3
      <3>9. cursor # None
        BY <1>2, <3>1
      <3> QED
        BY <3>1, <3>5, <3>6, <3>7, <3>8, <3>9 DEF EntryOK
    <2> QED
      BY <1>5, <2>1, <2>2, <2>3, <2>4 DEF Entries
  <1>13. Coverage'
    <2>1. ASSUME NEW x \in Topics, pos'[x] \in Nat
          PROVE  /\ pos[x] \in Nat /\ pos[x] <= pos'[x]
                 /\ ~IsAnswer(down[1], x)
                 /\ \A r \in Nat : IsEvent(down[1], x, r) => r <= pos'[x]
      <3>1. pos[x] \in Nat /\ pos[x] <= pos'[x] /\ ~IsAnswer(down[1], x)
        BY <1>2, <1>10, <2>1 DEF IsAnswer, IsEvent
      <3>2. ASSUME NEW r \in Nat, IsEvent(down[1], x, r) PROVE r <= pos'[x]
        <4>1. r = s /\ x = t
          BY <3>2 DEF IsEvent
        <4>2. CASE new
          BY <1>2, <1>4, <3>1, <4>1, <4>2
        <4>3. CASE ~new
          <5>1. t \in Reading
            BY <1>2, <3>1, <4>1 DEF FeedInv, Entries
          <5>2. s \in entry[t].seen
            BY <4>3, <5>1 DEF new
          <5>3. EntryOK(t) /\ entry[t].cursor \in Nat \cup {None}
            BY <5>1, Basics DEF FeedInv, Entries
          <5>4. s <= entry[t].cursor /\ entry[t].cursor # None /\ entry[t].cursor <= pos[t]
            BY <1>2, <3>1, <4>1, <5>2, <5>3 DEF EntryOK
          <5> QED
            BY <1>2, <2>1, <3>1, <4>1, <5>3, <5>4
        <4> QED
          BY <4>2, <4>3
      <3> QED
        BY <3>1, <3>2
    <2> QED
      BY <1>1, <2>1, ShiftCoverage
  <1> QED
    BY <1>8, <1>9, <1>11, <1>12, <1>13, Whole

\* A resync notice.
LEMMA ResyncKeeps ==
    ASSUME FeedInv, Receive, link = "connected", down' = Tail(down),
           NEW t, down[1].kind = "resync_required", OnResyncRequired(t)
    PROVE  FeedInv'
  <1>1. /\ UNCHANGED <<link, known, up, asked, entry, pos>> /\ told' \subseteq Reading
        /\ down # <<>> /\ Stays /\ Seen' = Seen /\ UNCHANGED <<epoch, log, floor, conn>>
        /\ Reading' = Reading
    BY BeforeReceive, Read DEF OnResyncRequired, Reading
  <1>2. Base' /\ Shapes' /\ Linked'
    BY <1>1, ReadParts DEF FeedInv, Shapes
  <1>3. Frames'
    BY <1>1, ShiftFrames
  <1>4. Asking'
    BY <1>1, AskingRead
  <1>5. Entries'
    <2>1. Extends
      BY <1>1, Basics DEF Extends
    <2> QED
      BY <1>1, <2>1, EntriesKept
  <1>6. Coverage'
    <2>1. \A x \in Topics : pos'[x] \in Nat =>
            /\ pos[x] \in Nat /\ pos[x] <= pos'[x]
            /\ ~IsAnswer(down[1], x)
            /\ \A r \in Nat : IsEvent(down[1], x, r) => r <= pos'[x]
      BY <1>1 DEF IsAnswer, IsEvent
    <2> QED
      BY <1>1, <2>1, ShiftCoverage
  <1> QED
    BY <1>2, <1>3, <1>4, <1>5, <1>6, Whole

\* What an answer meets: its reader's last one meets no other.
LEMMA Answered ==
    ASSUME FeedInv, Receive, link = "connected", down' = Tail(down),
           UNCHANGED <<link, known, up>>, NEW t \in Topics, IsAnswer(down[1], t)
    PROVE  /\ asked[t] \in Nat \ {0} /\ down[1].to \in Nat /\ AnswerIsAhead(1)
           /\ down[1] \in AnswersTo(t) /\ \A x \in Topics \ {t} : down[1] \notin AnswersTo(x)
           /\ pos[t] # None => t \in Reading /\ asked[t] = 1
           /\ asked[t] = 1 => /\ \A k \in 2..Len(down) : ~IsAnswer(down[k], t)
                              /\ \A i \in DOMAIN up : up[i] \notin AsksFor(t)
           /\ Count(down', AnswersTo(t)) + Count(up, AsksFor(t)) <= asked[t] - 1
           /\ \A i \in DOMAIN up : up[i] \in AsksFor(t) => up[i].cursor = None
  <1>1. /\ AskingOK(t) /\ asked[t] \in Nat /\ down[1] \in Frame /\ FrameOK(1)
        /\ DOMAIN down = 1..Len(down) /\ 1 \in DOMAIN down /\ up \in Seq(Command)
    BY BeforeReceive, Basics DEF FeedInv, Asking
  <1>2. down[1].kind = "subscribed" /\ down[1].topic = t /\ down[1] \in AnswersTo(t)
        /\ down[1].to \in Nat /\ AnswerIsAhead(1)
    BY <1>1, FrameFacts DEF IsAnswer, FrameOK
  <1>3. \A x \in Topics \ {t} : down[1] \notin AnswersTo(x)
    BY <1>2 DEF AnswersTo
  <1>4. /\ Count(down, AnswersTo(t)) = Count(down', AnswersTo(t)) + 1
        /\ Count(down', AnswersTo(t)) \in Nat /\ Count(up, AsksFor(t)) \in Nat
    BY <1>1, <1>2, Read, CountType
  <1>5. Count(down, AnswersTo(t)) + Count(up, AsksFor(t)) <= asked[t]
    BY <1>1 DEF AskingOK
  <1>6. asked[t] \in Nat \ {0} /\ Count(down', AnswersTo(t)) + Count(up, AsksFor(t)) <= asked[t] - 1
    BY <1>1, <1>4, <1>5
  <1>7. pos[t] # None => t \in Reading /\ asked[t] = 1
    <2>1. pos[t] # None => asked[t] <= 1 /\ t \in Reading
      BY <1>1 DEF AskingOK, FeedInv, Entries
    <2> QED
      BY <1>6, <2>1
  <1>8. ASSUME asked[t] = 1
        PROVE  /\ \A k \in 2..Len(down) : ~IsAnswer(down[k], t)
               /\ \A i \in DOMAIN up : up[i] \notin AsksFor(t)
    <2>1. Count(down', AnswersTo(t)) = 0 /\ Count(up, AsksFor(t)) = 0
      BY <1>4, <1>6, <1>8
    <2>2. \A i \in DOMAIN up : up[i] \notin AsksFor(t)
      BY <1>1, <2>1, CountType
    <2>3. down' \in Seq(Frame) /\ \A k \in DOMAIN down' : down'[k] \notin AnswersTo(t)
      BY <2>1, Read, CountType
    <2>4. ASSUME NEW k \in 2..Len(down) PROVE ~IsAnswer(down[k], t)
      <3>1. k - 1 \in DOMAIN down' /\ down'[k - 1] = down[k] /\ down[k] \in Frame
        BY BeforeReceive, Basics, Shifted
      <3> QED
        BY <2>3, <3>1, FrameFacts
    <2> QED
      BY <2>2, <2>4
  <1>9. ASSUME NEW i \in DOMAIN up, up[i] \in AsksFor(t) PROVE up[i].cursor = None
    <2>1. AskOK(t, i)
      BY <1>1, <1>9 DEF AskingOK
    <2> QED
      BY <1>1, <1>2, <2>1 DEF AskOK
  <1> QED
    BY <1>2, <1>3, <1>6, <1>7, <1>8, <1>9

\* A subscribe is answered.
LEMMA SubscribedKeeps ==
    ASSUME FeedInv, Receive, link = "connected", down' = Tail(down), NEW t \in Topics,
           IsAnswer(down[1], t), NEW complete, OnSubscribed(t, down[1].to, complete)
    PROVE  FeedInv'
  <1> DEFINE to == down[1].to
             keeps == t \in Reading /\ asked[t] = 1
  <1>1. /\ UNCHANGED <<link, known, up, entry>> /\ told' \subseteq Reading
        /\ down # <<>> /\ Stays /\ Seen' = Seen /\ UNCHANGED <<epoch, log, floor, conn>>
        /\ Reading' = Reading
        /\ asked' = [asked EXCEPT ![t] = @ - 1]
        /\ pos' = [pos EXCEPT ![t] = IF keeps THEN to ELSE @]
    BY BeforeReceive, Read DEF OnSubscribed, Reading
  <1>2. /\ asked[t] \in Nat \ {0} /\ to \in Nat /\ AnswerIsAhead(1)
        /\ down[1] \in AnswersTo(t) /\ \A x \in Topics \ {t} : down[1] \notin AnswersTo(x)
        /\ pos[t] # None => keeps
        /\ asked[t] = 1 => /\ \A k \in 2..Len(down) : ~IsAnswer(down[k], t)
                           /\ \A i \in DOMAIN up : up[i] \notin AsksFor(t)
        /\ Count(down', AnswersTo(t)) + Count(up, AsksFor(t)) <= asked[t] - 1
        /\ \A i \in DOMAIN up : up[i] \in AsksFor(t) => up[i].cursor = None
    BY <1>1, Answered
  <1>3. /\ pos \in [Topics -> Nat \cup {None}] /\ asked \in [Topics -> Nat] /\ None \notin Nat
        /\ entry \in [Reading -> [cursor : Nat \cup {None}, seen : SUBSET Nat]]
    BY FeedAssumption DEF FeedInv, Shapes
  <1> HIDE DEF to, keeps
  <1>4. /\ asked'[t] = asked[t] - 1
        /\ \A x \in Topics \ {t} : asked'[x] = asked[x] /\ pos'[x] = pos[x]
        /\ pos'[t] = IF keeps THEN to ELSE None
    BY <1>1, <1>2, <1>3
  <1>5. asked' \in [Topics -> Nat] /\ pos' \in [Topics -> Nat \cup {None}]
    <2>1. asked[t] - 1 \in Nat
      BY <1>2
    <2> QED
      BY <1>1, <1>2, <1>3, <2>1
  <1>6. Base' /\ Shapes' /\ Linked'
    BY <1>1, <1>3, <1>5, ReadParts
  <1>7. Frames'
    BY <1>1, ShiftFrames
  <1>8. Entries'
    <2>1. Entries /\ known # 0
      BY <1>1, BeforeReceive DEF FeedInv
    <2>2. \A x \in Topics \ Reading : pos'[x] = None
      BY <1>4, <2>1 DEF Entries, keeps
    <2>3. ASSUME NEW x \in Reading PROVE EntryOK(x)'
      <3>1. EntryOK(x) /\ x \in Topics
        BY <2>1, Basics DEF Entries
      <3>2. CASE x # t
        <4>1. entry'[x] = entry[x] /\ pos'[x] = pos[x]
          BY <1>1, <1>4, <3>1, <3>2
        <4> QED
          BY <1>1, <3>1, <4>1 DEF EntryOK, Numbered
      <3>3. CASE x = t
        <4>1. entry[t].cursor # None => entry[t].cursor <= to
          <5>1. down[1].topic = t
            BY DEF IsAnswer
          <5> QED
            BY <1>2, <3>3, <5>1 DEF AnswerIsAhead, to
        <4>2. pos'[t] # None => pos'[t] = to
          BY <1>4
        <4> QED
          BY <1>1, <3>1, <3>3, <4>1, <4>2 DEF EntryOK, Numbered
      <3> QED
        BY <3>2, <3>3
    <2> QED
      BY <1>1, <2>1, <2>2, <2>3 DEF Entries
  <1>9. Asking'
    <2>0. \A k \in DOMAIN down' : k + 1 \in DOMAIN down /\ down'[k] = down[k + 1]
      BY <1>1, Read
    <2>1. ASSUME NEW x \in Topics, x # t PROVE AskingOK(x)'
      <3>1. AskingOK(x) /\ pos'[x] = pos[x] /\ asked'[x] = asked[x] /\ up' = up
        BY <1>1, <1>4, <2>1 DEF FeedInv, Asking
      <3>2. Count(down', AnswersTo(x)) = Count(down, AnswersTo(x))
        <4>1. down[1] \notin AnswersTo(x)
          BY <1>2, <2>1
        <4>2. Count(down, AnswersTo(x)) = Count(down', AnswersTo(x)) + 0
              /\ Count(down', AnswersTo(x)) \in Nat
          BY <1>1, <4>1, Read
        <4> QED
          BY <4>2
      <3>3. ASSUME NEW i \in DOMAIN up, AskOK(x, i) PROVE AskOK(x, i)'
        BY <2>0, <3>1, <3>3 DEF AskOK
      <3> QED
        BY <3>1, <3>2, <3>3 DEF AskingOK, Count, Hits
    <2>2. AskingOK(t)'
      <3>1. Count(down', AnswersTo(t)) + Count(up', AsksFor(t)) <= asked'[t]
        BY <1>1, <1>2, <1>4
      <3>2. pos'[t] # None => asked'[t] <= 1
        BY <1>2, <1>4 DEF keeps
      <3>3. ASSUME NEW i \in DOMAIN up, up[i] \in AsksFor(t) PROVE AskOK(t, i)'
        <4>1. up[i].cursor = None /\ ~keeps
          BY <1>2, <3>3 DEF keeps
        <4> QED
          BY <1>1, <1>4, <4>1 DEF AskOK
      <3>4. \A i \in DOMAIN up' : up'[i] \in AsksFor(t) => AskOK(t, i)'
        BY <1>1, <3>3
      <3> QED
        BY <3>1, <3>2, <3>4 DEF AskingOK, Count, Hits
    <2> QED
      BY <2>1, <2>2 DEF Asking
  <1>10. Coverage'
    <2>1. ASSUME NEW x \in Topics, pos'[x] \in Nat
          PROVE  \/ /\ pos[x] \in Nat /\ pos[x] <= pos'[x]
                    /\ ~IsAnswer(down[1], x)
                    /\ \A r \in Nat : IsEvent(down[1], x, r) => r <= pos'[x]
                 \/ /\ IsAnswer(down[1], x) /\ down[1].to = pos'[x]
                    /\ \A k \in 2..Len(down) : ~IsAnswer(down[k], x)
      <3>1. CASE x # t
        BY <1>4, <2>1, <3>1 DEF IsAnswer, IsEvent
      <3>2. CASE x = t
        BY <1>2, <1>3, <1>4, <2>1, <3>2 DEF keeps, to
      <3> QED
        BY <3>1, <3>2
    <2> QED
      BY <1>1, <2>1, ShiftCoverage
  <1> QED
    BY <1>6, <1>7, <1>8, <1>9, <1>10, Whole

\* Any frame.
LEMMA ReceiveKeeps == ASSUME FeedInv, Receive PROVE FeedInv'
  <1> DEFINE f == down[1]
  <1>1. /\ Head(down) = f /\ f \in Frame /\ UNCHANGED <<epoch, log, floor, conn>>
        /\ link \in {"opening", "connected"}
        /\ link = "connected" => FrameOK(1) /\ f.kind # "hello"
        /\ link = "opening" => f.kind = "hello"
    BY BeforeReceive
  <1>2. \/ f.kind = "close" /\ OnClosed(f.code)
        \/ /\ f.kind # "close" /\ down' = Tail(down)
           /\ \/ f.kind = "hello" /\ OnHello(f.epoch)
              \/ f.kind = "event" /\ OnEvent(f.topic, f.seq)
              \/ f.kind = "subscribed" /\ OnSubscribed(f.topic, f.to, f.complete)
              \/ f.kind = "resync_required" /\ OnResyncRequired(f.topic)
    BY <1>1 DEF Receive
  <1>3. CASE link = "opening"
    BY <1>3, HelloKeeps
  <1>4. CASE link = "connected" /\ f.kind = "close" /\ OnClosed(f.code)
    <2>1. ~conn.open /\ conn \in [open : BOOLEAN, topics : SUBSET Topics]
      BY <1>1, <1>4 DEF FrameOK, FeedInv, Shapes
    <2>2. \E to \in {"closed", "stopped"} : Disconnect(to)
      BY <1>4 DEF OnClosed
    <2> QED
      BY <1>1, <2>1, <2>2, DisconnectKeeps
  <1>5. CASE link = "connected" /\ f.kind = "event" /\ down' = Tail(down)
             /\ OnEvent(f.topic, f.seq)
    <2>1. f.topic \in Topics /\ f.seq \in Nat /\ IsEvent(f, f.topic, f.seq)
      BY <1>1, <1>5, FrameFacts DEF IsEvent
    <2> QED
      BY <1>5, <2>1, EventKeeps
  <1>6. CASE link = "connected" /\ f.kind = "subscribed" /\ down' = Tail(down)
             /\ OnSubscribed(f.topic, f.to, f.complete)
    <2>1. f.topic \in Topics /\ IsAnswer(f, f.topic)
      BY <1>1, <1>6, FrameFacts DEF IsAnswer
    <2> QED
      BY <1>6, <2>1, SubscribedKeeps
  <1>7. CASE link = "connected" /\ f.kind = "resync_required" /\ down' = Tail(down)
             /\ OnResyncRequired(f.topic)
    BY <1>7, ResyncKeeps
  <1> QED
    BY <1>1, <1>2, <1>3, <1>4, <1>5, <1>6, <1>7

-----------------------------------------------------------------------------
(* The invariant *)

LEMMA FeedInit == Init => FeedInv
  <1> SUFFICES ASSUME Init PROVE FeedInv
    OBVIOUS
  <1> USE DEF Init
  <1>1. 1 \in Epochs /\ epoch = 1 /\ 0 \in 0..1
    BY FeedAssumption DEF Epochs
  <1>2. Reading = {} /\ Newest = 0
    BY <1>1, EmptySeq DEF Reading, Newest
  <1>3. Base
    BY <1>1, <1>2 DEF Base
  <1>4. Shapes
    <2>1. entry \in [Reading -> [cursor : Nat \cup {None}, seen : SUBSET Nat]]
      BY <1>2
    <2>2. conn \in [open : BOOLEAN, topics : SUBSET Topics]
      BY DEF Gone
    <2>3. <<>> \in Seq(Topics) /\ <<>> \in Seq(Command) /\ <<>> \in Seq(Frame)
      BY EmptySeq
    <2> QED
      BY <2>1, <2>2, <2>3 DEF Shapes
  <1>5. Linked
    BY DEF Linked, Gone
  <1>6. Frames /\ Coverage
    BY DEF Frames, Coverage
  <1>7. Entries
    BY <1>2 DEF Entries
  <1>8. Asking
    <2> SUFFICES ASSUME NEW t \in Topics PROVE AskingOK(t)
      BY DEF Asking
    <2>1. <<>> \in Seq(Frame) /\ <<>> \in Seq(Command) /\ \A i \in DOMAIN <<>> : FALSE
      BY EmptySeq
    <2>2. Count(<<>>, AnswersTo(t)) = 0
      <3> DEFINE q == <<>>
      <3>1. q \in Seq(Frame) /\ \A i \in DOMAIN q : FALSE
        BY <2>1
      <3> HIDE DEF q
      <3>2. Count(q, AnswersTo(t)) = 0
        BY <3>1, CountType
      <3> QED
        BY <3>2 DEF q
    <2>3. Count(<<>>, AsksFor(t)) = 0
      <3> DEFINE q == <<>>
      <3>1. q \in Seq(Command) /\ \A i \in DOMAIN q : FALSE
        BY <2>1
      <3> HIDE DEF q
      <3>2. Count(q, AsksFor(t)) = 0
        BY <3>1, CountType
      <3> QED
        BY <3>2 DEF q
    <2> QED
      BY <2>1, <2>2, <2>3 DEF AskingOK
  <1> HIDE DEF Init
  <1> QED
    BY <1>3, <1>4, <1>5, <1>6, <1>7, <1>8, TypesInParts DEF FeedInv

\* Every step keeps the invariant.
LEMMA FeedNext == FeedInv /\ [Next]_vars => FeedInv'
  <1> SUFFICES ASSUME FeedInv, [Next]_vars PROVE FeedInv'
    OBVIOUS
  <1>1. CASE UNCHANGED vars
    <2>1. UNCHANGED Concern /\ UNCHANGED <<floor, told>>
      BY <1>1 DEF vars, hub, channel, store, history, Concern
    <2>2. Base'
      BY <2>1, BaseNow DEF Base, Concern, store, Newest, Reading
    <2> QED
      BY <2>1, <2>2, PartsKept
  <1>2. CASE Connect
    BY <1>2, ConnectKeeps
  <1>3. CASE Evict
    BY <1>3, EvictKeeps
  <1>4. CASE Serve
    BY <1>4, ServeKeeps
  <1>5. CASE Restart
    BY <1>5, RestartKeeps
  <1>6. CASE Lose
    BY <1>6, LoseKeeps
  <1>7. CASE Receive
    BY <1>7, ReceiveKeeps
  <1>8. ASSUME NEW t \in Topics, Publish(t) PROVE FeedInv'
    BY <1>8, PublishKeeps
  <1>9. ASSUME NEW t \in Topics, Join(t) PROVE FeedInv'
    BY <1>9, JoinKeeps
  <1>10. ASSUME NEW t \in Topics, Leave(t) PROVE FeedInv'
    BY <1>10, LeaveKeeps
  <1>11. ASSUME NEW code \in {"overloaded", "unauthorized"}, HubCloses(code) PROVE FeedInv'
    BY <1>11, HubClosesKeeps
  <1> QED
    BY <1>1, <1>2, <1>3, <1>4, <1>5, <1>6, <1>7, <1>8, <1>9, <1>10, <1>11 DEF Next

\* The invariant always holds.
THEOREM FeedInvariant == Spec => []FeedInv
  BY FeedInit, FeedNext, PTL DEF Spec

\* TypeOK always holds: a cursor and the events seen are of the daemon the tab follows.
THEOREM FeedTypes == Spec => []TypeOK
  <1>1. FeedInv => TypeOK
    BY DEF FeedInv
  <1> QED
    BY <1>1, FeedInvariant, PTL

-----------------------------------------------------------------------------
(* The contract, step by step *)

\* What the contract calls handed.
Handed == [t \in Topics |-> IF t \in Reading THEN entry[t].cursor ELSE None]

\* Steps that the readers do not see.
LEMMA StepIdle ==
    ASSUME told' = {}, UNCHANGED <<log, known, pos>>, Reading' = Reading, Handed' = Handed
    PROVE  Contract!Next
  <1>1. Contract!Idle
    BY DEF Contract!Idle, Handed
  <1> QED
    BY <1>1 DEF Contract!Next

\* Nor do they see those that leave their entries alone.
LEMMA StepUnseen ==
    ASSUME told' = {}, UNCHANGED <<log, known, entry, pos>> PROVE Contract!Next
  <1>1. Reading' = Reading /\ Handed' = Handed
    BY DEF Reading, Handed
  <1> QED
    BY <1>1, StepIdle

\* Readers are told.
LEMMA StepTell ==
    ASSUME FeedInv, NEW T \in SUBSET Reading, told' = T, UNCHANGED <<log, known>>,
           Reading' = Reading,
           \A t \in Topics \ T : pos'[t] = pos[t] /\ Handed'[t] = Handed[t],
           T = {} => pos' = pos /\ Handed' = Handed
    PROVE  Contract!Next
  <1>1. CASE T = {}
    BY <1>1, StepIdle
  <1>2. CASE T # {}
    <2>1. Contract!Tell(T)
      BY <1>2 DEF Contract!Tell, Handed
    <2> QED
      BY <2>1 DEF Contract!Next
  <1> QED
    BY <1>1, <1>2

\* A publication is one to the contract.
LEMMA PublishPublishes == ASSUME FeedInv, NEW t \in Topics, Publish(t) PROVE Contract!Next
  <1>1. epoch \in Epochs /\ log' = [log EXCEPT ![epoch] = Append(@, t)] /\ told' = {}
        /\ UNCHANGED <<known, entry, pos>>
    BY Basics DEF Publish, store, history
  <1>2. Contract!Publish(epoch, t)
    BY <1>1 DEF Contract!Publish, Reading
  <1> QED
    BY <1>1, <1>2 DEF Contract!Next

\* A reader comes, or goes.
LEMMA JoinTurns == ASSUME FeedInv, NEW t \in Topics, Join(t) PROVE Contract!Next
  <1>1. /\ UNCHANGED <<log, known, pos>> /\ told' = {}
        /\ t \notin Reading /\ Reading' = Reading \cup {t} /\ entry'[t] = Fresh
        /\ \A x \in Reading : entry'[x] = entry[x]
        /\ pos[t] = None /\ pos \in [Topics -> Nat \cup {None}]
    BY DEF Join, hub, Reading, FeedInv, Entries, Shapes
  <1>2. pos' = [pos EXCEPT ![t] = None]
    BY <1>1
  <1>3. Handed' = [Handed EXCEPT ![t] = None]
    BY <1>1 DEF Handed, Fresh
  <1>4. Contract!Turn(t)
    BY <1>1, <1>2, <1>3 DEF Contract!Turn, Handed
  <1> QED
    BY <1>4 DEF Contract!Next

\* A reader that goes is one that turns away.
LEMMA LeaveTurns == ASSUME FeedInv, NEW t \in Topics, Leave(t) PROVE Contract!Next
  <1>1. /\ UNCHANGED <<log, known>> /\ told' = {} /\ pos' = [pos EXCEPT ![t] = None]
        /\ t \in Reading /\ Reading' = Reading \ {t}
        /\ \A x \in Reading' : entry'[x] = entry[x]
    BY DEF Leave, hub, Reading, Restrict
  <1>2. Handed' = [Handed EXCEPT ![t] = None]
    BY <1>1 DEF Handed
  <1>3. Contract!Turn(t)
    BY <1>1, <1>2 DEF Contract!Turn, Handed
  <1> QED
    BY <1>3 DEF Contract!Next

\* A hello: another daemon is met, or every reader is told.
LEMMA HelloMeets == ASSUME FeedInv, Receive, link = "opening" PROVE Contract!Next
  <1>1. PICK e \in Epochs : Greeting(e) /\ OnHello(e)
    BY BeforeReceive DEF Receive
  <1>2. /\ e # 0 /\ UNCHANGED log /\ known' = e
        /\ entry' = IF known \notin {0, e} THEN [t \in Reading |-> Fresh] ELSE entry
        /\ pos' = [t \in Topics |->
                     IF t \in Reading /\ entry'[t].cursor # None THEN pos[t] ELSE None]
        /\ told' = IF known # 0 THEN Reading ELSE {}
    BY <1>1, BeforeReceive DEF OnHello, Epochs
  <1>3. Reading' = Reading /\ Reading \subseteq Topics
    BY <1>2, Basics DEF Reading
  <1>4. \A t \in Topics \ Reading : pos[t] = None /\ pos'[t] = None /\ Handed'[t] = Handed[t]
    BY <1>2, <1>3 DEF Handed, FeedInv, Entries
  <1>5. CASE known # e
    <2>1. \A t \in Reading : entry'[t].cursor = None
      BY <1>2, <1>5 DEF FeedInv, Entries, Fresh
    <2>2. pos' = [t \in Topics |-> None]
      BY <1>2, <2>1
    <2>3. Contract!Meet
      BY <1>2, <1>3, <1>4, <1>5, <2>2 DEF Contract!Meet, Handed
    <2> QED
      BY <2>3 DEF Contract!Next
  <1>6. CASE known = e
    <2>1. known' = known /\ told' = Reading /\ entry' = entry /\ Handed' = Handed
      BY <1>2, <1>3, <1>6 DEF Handed
    <2>2. Reading = {} => pos' = pos
      <3>1. pos \in [Topics -> Nat \cup {None}]
        BY DEF FeedInv, Shapes
      <3>2. Reading = {} => \A t \in Topics : pos[t] = None
        BY <1>4
      <3> QED
        BY <1>2, <3>1, <3>2
    <2> QED
      BY <1>2, <1>3, <1>4, <2>1, <2>2, StepTell
  <1> QED
    BY <1>5, <1>6

\* Between a reader's position and the frame in front there is nothing.
LEMMA Nothing ==
    ASSUME FeedInv, link = "connected", down # <<>>, NEW t \in Topics, pos[t] # None,
           NEW s \in Nat, Numbered(t, s), pos[t] < s,
           \/ down[1].kind = "event" /\ down[1].topic = t /\ s < down[1].seq
           \/ IsAnswer(down[1], t) /\ down[1].complete /\ s <= down[1].to
    PROVE  FALSE
  <1>1. 1 \in DOMAIN down /\ 1 \in 1..Len(down)+1 /\ pos[t] \in Nat /\ 0 \in 0..Len(down)
    BY Basics, EmptySeq
  <1>2. Passed(t, 0, 1, s)
    BY <1>1 DEF Passed
  <1>3. Between(t, 0, 1, pos[t], s)
    BY <1>2 DEF Between, Start
  <1>4. Covered(1)
    BY <1>1 DEF FeedInv, Coverage
  <1>5. Sent(t, 0, 1, s)
    BY <1>1, <1>3, <1>4 DEF Covered
  <1> QED
    BY <1>5 DEF Sent

\* An event: the next one, an earlier one, or one that was seen.
LEMMA EventHands ==
    ASSUME FeedInv, Receive, link = "connected", NEW t \in Topics, NEW s \in Nat,
           IsEvent(down[1], t, s), OnEvent(t, s)
    PROVE  Contract!Next
  <1>1. /\ UNCHANGED <<log, known>> /\ told' = {} /\ down # <<>> /\ known # 0
        /\ Numbered(t, s)
    BY BeforeReceive DEF OnEvent, FrameOK, IsEvent
  <1>2. /\ entry \in [Reading -> [cursor : Nat \cup {None}, seen : SUBSET Nat]]
        /\ pos \in [Topics -> Nat \cup {None}] /\ None \notin Nat
        /\ Len(Seen) \in Nat /\ s \in 1..Len(Seen) /\ Seen[s] = t
    BY <1>1, FeedAssumption, Basics DEF FeedInv, Shapes, Numbered
  <1>3. CASE ~(t \in Reading /\ s \notin entry[t].seen)
    BY <1>1, <1>3, StepUnseen DEF OnEvent
  <1>4. CASE t \in Reading /\ s \notin entry[t].seen
    <2> DEFINE later == entry[t].cursor = None \/ entry[t].cursor < s
    <2>1. /\ entry' = [entry EXCEPT ![t] = [cursor |-> IF later THEN s ELSE @.cursor,
                                            seen |-> @.seen \cup {s}]]
          /\ pos' = [pos EXCEPT ![t] = IF @ # None /\ @ < s THEN s ELSE @]
      BY <1>4 DEF OnEvent
    <2>2. /\ Reading' = Reading /\ \A x \in Reading \ {t} : entry'[x] = entry[x]
          /\ entry'[t].cursor = IF later THEN s ELSE entry[t].cursor
      BY <1>2, <1>4, <2>1 DEF Reading
    <2>3. Handed' = [Handed EXCEPT ![t] = IF later THEN s ELSE entry[t].cursor]
      BY <1>4, <2>2 DEF Handed
    <2>4. EntryOK(t) /\ entry[t].cursor \in Nat \cup {None}
      BY <1>4, Basics DEF FeedInv, Entries
    <2>5. s \in 0..(IF known = 0 THEN 0 ELSE Len(log[known])) /\ s > 0
      BY <1>1, <1>2 DEF Seen
    <2>6. CASE pos[t] # None /\ pos[t] < s
      <3>1. later
        BY <1>2, <2>4, <2>6 DEF EntryOK
      <3>2. Contract!Events(t, pos[t], s) = {s}
        <4>1. ASSUME NEW r \in pos[t]+1..s, log[known][r] = t PROVE r = s
          <5>1. pos[t] \in Nat /\ r \in Nat /\ pos[t] < r /\ r <= s /\ r \in 1..Len(Seen)
            BY <1>2, <2>6, <4>1
          <5>2. Numbered(t, r)
            BY <4>1, <5>1 DEF Numbered, Seen
          <5>3. r # s => r < s
            BY <1>2, <5>1
          <5> QED
            BY <1>1, <2>6, <5>1, <5>2, <5>3, Nothing DEF IsEvent
        <4>2. s \in pos[t]+1..s /\ log[known][s] = t
          BY <1>2, <2>6 DEF Seen
        <4> QED
          BY <4>1, <4>2 DEF Contract!Events
      <3>3. pos' = [pos EXCEPT ![t] = s] /\ Handed' = [Handed EXCEPT ![t] = s]
        BY <2>1, <2>3, <2>6, <3>1
      <3>4. Contract!HandNext(t, s)
        BY <1>1, <2>2, <2>6, <3>2, <3>3 DEF Contract!HandNext, Handed
      <3> QED
        BY <2>5, <3>4 DEF Contract!Next
    <2>7. CASE ~(pos[t] # None /\ pos[t] < s)
      <3>1. pos' = pos /\ (pos[t] # None => s <= pos[t])
        BY <1>2, <2>1, <2>7
      <3>2. CASE later
        <4>1. Handed' = [Handed EXCEPT ![t] = s]
          BY <2>3, <3>2
        <4>2. log[known][s] = t
          BY <1>2 DEF Seen
        <4>3. Contract!HandEarlier(t, s)
          BY <1>1, <1>4, <2>2, <3>1, <4>1, <4>2 DEF Contract!HandEarlier, Handed
        <4> QED
          BY <2>5, <4>3 DEF Contract!Next
      <3>3. CASE ~later
        <4>1. Handed' = Handed
          BY <1>4, <2>3, <3>3 DEF Handed
        <4> QED
          BY <1>1, <2>2, <3>1, <4>1, StepIdle
      <3> QED
        BY <3>2, <3>3
    <2> QED
      BY <2>6, <2>7
  <1> QED
    BY <1>3, <1>4

\* An answer: a position, an assurance, or a reader that is told.
LEMMA SubscribedFollows ==
    ASSUME FeedInv, Receive, link = "connected", down' = Tail(down), NEW t \in Topics,
           IsAnswer(down[1], t), down[1].complete \in BOOLEAN,
           OnSubscribed(t, down[1].to, down[1].complete)
    PROVE  Contract!Next
  <1> DEFINE to == down[1].to
  <1>1. /\ UNCHANGED <<log, link, known, up, entry>> /\ down # <<>> /\ known # 0 /\ FrameOK(1)
        /\ pos' = [pos EXCEPT ![t] = IF t \in Reading /\ asked[t] = 1 THEN to ELSE @]
        /\ told' = IF down[1].complete THEN {} ELSE {t} \cap Reading
    BY BeforeReceive DEF OnSubscribed
  <1>2. Reading' = Reading /\ Handed' = Handed
    BY <1>1 DEF Reading, Handed
  <1>3. to \in Nat /\ to <= Len(Seen) /\ Len(Seen) \in Nat
        /\ pos \in [Topics -> Nat \cup {None}] /\ None \notin Nat
    BY <1>1, Answered, Basics DEF AnswerIsAhead, FeedInv, Shapes
  <1>4. to \in 0..(IF known = 0 THEN 0 ELSE Len(log[known]))
    BY <1>1, <1>3 DEF Seen
  <1>5. CASE ~(t \in Reading /\ asked[t] = 1) \/ ~down[1].complete
    <2>1. \A x \in Topics \ ({t} \cap Reading) : pos'[x] = pos[x]
      BY <1>1, <1>3
    <2>2. t \notin Reading \/ down[1].complete => pos' = pos
      BY <1>1, <1>3, <1>5
    <2>3. told' \in SUBSET Reading /\ (down[1].complete => told' = {})
          /\ (~down[1].complete => told' = {t} \cap Reading)
      BY <1>1
    <2>4. \A x \in Topics \ told' : pos'[x] = pos[x]
      BY <2>1, <2>2, <2>3
    <2>5. told' = {} => pos' = pos
      BY <2>2, <2>3
    <2> DEFINE T == told'
    <2>6. T \in SUBSET Reading /\ told' = T
      BY <2>3
    <2> QED
      BY <1>1, <1>2, <2>4, <2>5, <2>6, StepTell
  <1>6. CASE t \in Reading /\ asked[t] = 1 /\ down[1].complete
    <2>1. pos' = [pos EXCEPT ![t] = to] /\ told' = {}
      BY <1>1, <1>6
    <2>2. CASE pos[t] = None
      <3>1. Contract!Follow(t, to)
        BY <1>1, <1>2, <1>6, <2>1, <2>2 DEF Contract!Follow, Handed
      <3> QED
        BY <1>4, <3>1 DEF Contract!Next
    <2>3. CASE pos[t] # None
      <3>1. Contract!Events(t, pos[t], to) = {}
        <4>1. ASSUME NEW r \in pos[t]+1..to, log[known][r] = t PROVE FALSE
          <5>1. pos[t] \in Nat /\ r \in Nat /\ pos[t] < r /\ r <= to /\ r \in 1..Len(Seen)
            BY <1>3, <2>3, <4>1
          <5>2. Numbered(t, r)
            BY <4>1, <5>1 DEF Numbered, Seen
          <5> QED
            BY <1>1, <1>6, <2>3, <5>1, <5>2, Nothing
        <4> QED
          BY <4>1 DEF Contract!Events
      <3>2. Contract!Assure(t, to)
        BY <1>1, <1>2, <2>1, <2>3, <3>1 DEF Contract!Assure, Handed
      <3> QED
        BY <1>4, <3>2 DEF Contract!Next
    <2> QED
      BY <2>2, <2>3
  <1> QED
    BY <1>5, <1>6

\* A resync notice.
LEMMA ResyncTells ==
    ASSUME FeedInv, Receive, NEW t, OnResyncRequired(t) PROVE Contract!Next
  <1>1. /\ UNCHANGED <<log, known, entry, pos>> /\ told' = {t} \cap Reading
    BY BeforeReceive DEF OnResyncRequired
  <1>2. Reading' = Reading /\ Handed' = Handed
    BY <1>1 DEF Reading, Handed
  <1> QED
    BY <1>1, <1>2, StepTell

\* Whatever the tab receives is a step of the contract.
LEMMA ReceiveContract == ASSUME FeedInv, Receive PROVE Contract!Next
  <1> DEFINE f == down[1]
  <1>1. /\ Head(down) = f /\ f \in Frame /\ UNCHANGED log
        /\ link \in {"opening", "connected"}
        /\ link = "connected" => f.kind # "hello"
    BY BeforeReceive
  <1>2. \/ f.kind = "close" /\ OnClosed(f.code)
        \/ /\ f.kind # "close" /\ down' = Tail(down)
           /\ \/ f.kind = "hello" /\ OnHello(f.epoch)
              \/ f.kind = "event" /\ OnEvent(f.topic, f.seq)
              \/ f.kind = "subscribed" /\ OnSubscribed(f.topic, f.to, f.complete)
              \/ f.kind = "resync_required" /\ OnResyncRequired(f.topic)
    BY <1>1 DEF Receive
  <1>3. CASE link = "opening"
    BY <1>3, HelloMeets
  <1>4. CASE OnClosed(f.code)
    <2>1. told' = {} /\ UNCHANGED <<known, entry, pos>>
      BY <1>4 DEF OnClosed, Disconnect
    <2> QED
      BY <1>1, <2>1, StepUnseen
  <1>5. CASE link = "connected" /\ f.kind = "event" /\ OnEvent(f.topic, f.seq)
    <2>1. f.topic \in Topics /\ f.seq \in Nat /\ IsEvent(f, f.topic, f.seq)
      BY <1>1, <1>5, FrameFacts DEF IsEvent
    <2> QED
      BY <1>5, <2>1, EventHands
  <1>6. CASE link = "connected" /\ f.kind = "subscribed" /\ down' = Tail(down)
             /\ OnSubscribed(f.topic, f.to, f.complete)
    <2>1. f.topic \in Topics /\ IsAnswer(f, f.topic) /\ f.complete \in BOOLEAN
      BY <1>1, <1>6, FrameFacts DEF IsAnswer
    <2> QED
      BY <1>6, <2>1, SubscribedFollows
  <1>7. CASE OnResyncRequired(f.topic)
    BY <1>7, ResyncTells
  <1> QED
    BY <1>1, <1>2, <1>3, <1>4, <1>5, <1>6, <1>7

\* The feed starts where the contract does.
LEMMA ContractInit == Init => Contract!Init
  <1> SUFFICES ASSUME Init PROVE Contract!Init
    OBVIOUS
  <1>1. Reading = {}
    BY DEF Init, Reading
  <1> QED
    BY <1>1 DEF Init, Contract!Init

\* Every step of the feed is one of the contract, or is not seen there.
LEMMA ContractNext == FeedInv /\ [Next]_vars => [Contract!Next]_Contract!vars
  <1> SUFFICES ASSUME FeedInv, [Next]_vars PROVE [Contract!Next]_Contract!vars
    OBVIOUS
  <1>1. CASE UNCHANGED vars
    <2>1. UNCHANGED <<log, known, entry, pos, told>>
      BY <1>1 DEF vars, hub, store, history
    <2> QED
      BY <2>1 DEF Contract!vars, Reading
  <1>2. CASE Connect \/ Evict \/ Serve \/ Restart \/ Lose
    <2>1. told' = {} /\ UNCHANGED <<log, known, entry, pos>>
      BY <1>2 DEF Connect, Evict, Serve, Restart, Lose, Disconnect, store, history
    <2> QED
      BY <2>1, StepUnseen
  <1>3. CASE Receive
    BY <1>3, ReceiveContract
  <1>4. ASSUME NEW t \in Topics, Publish(t) PROVE Contract!Next
    BY <1>4, PublishPublishes
  <1>5. ASSUME NEW t \in Topics, Join(t) PROVE Contract!Next
    BY <1>5, JoinTurns
  <1>6. ASSUME NEW t \in Topics, Leave(t) PROVE Contract!Next
    BY <1>6, LeaveTurns
  <1>7. ASSUME NEW code, HubCloses(code) PROVE Contract!Next
    <2>1. told' = {} /\ UNCHANGED <<log, known, entry, pos>>
      BY <1>7 DEF HubCloses, store, history
    <2> QED
      BY <2>1, StepUnseen
  <1> QED
    BY <1>1, <1>2, <1>3, <1>4, <1>5, <1>6, <1>7 DEF Next

\* The feed implements its contract: a position passes an event only when its reader is handed
\* it, as the next one, or is told to read again.
THEOREM FeedImplementsContract == Spec => ContractSpec
  <1>1. Init => Contract!Init
    BY ContractInit
  <1>2. FeedInv /\ [Next]_vars => [Contract!Next]_Contract!vars
    BY ContractNext
  <1> QED
    BY <1>1, <1>2, FeedInvariant, PTL DEF Spec, ContractSpec, Contract!Spec

=============================================================================
