----------------------------- MODULE RealtimeFeed -----------------------------
(***************************************************************************)
(* The realtime feed of one dashboard tab: RealtimeHub and its FeedBuffer  *)
(* on the daemon's side, SocketStore on the browser's, and the WebSocket   *)
(* between them.  A connection may break at any moment, the hub may close  *)
(* it because a frame was dropped or the tab does not keep up, the daemon  *)
(* may restart with another epoch, and readers of topics come and go.      *)
(*                                                                         *)
(* The socket is a FIFO channel in each direction.  A command waits for    *)
(* the operator session to be touched before it runs; commands of one      *)
(* connection are touched and run in the order they arrived, so that wait  *)
(* is part of the time they spend in the channel.  What a closed or broken *)
(* connection leaves on the hub's side reaches nobody and is not modelled. *)
(* The logs topic, which is neither buffered nor sequenced, and screencast *)
(* streams are not part of this module.                                    *)
(***************************************************************************)
EXTENDS Naturals, SequencesExt

CONSTANTS
    Topics,     \* feed topics
    None,       \* no cursor, no position
    MaxEvents,  \* bound: events a daemon publishes
    MaxEpochs,  \* bound: daemons that serve one after the other
    MaxLosses,  \* bound: connections that break, are closed or lose a frame
    MaxTurns    \* bound: readers that come or go

Epochs == 1..MaxEpochs

ASSUME FeedAssumption ==
    /\ {MaxEvents, MaxLosses, MaxTurns} \subseteq Nat /\ MaxEpochs \in Nat \ {0}
    /\ None \notin Nat /\ IsFiniteSet(Topics)

VARIABLES
    epoch,   \* the epoch of the serving daemon
    log,     \* of each daemon: the topic of every event FeedBuffer.append numbered
    floor,   \* the newest seq the serving daemon's buffer has evicted
    conn,    \* WsConnection: whether it is registered and open, and its topics
    up,      \* commands on their way to the hub
    down,    \* frames on their way to the tab
    link,    \* SocketStore: closed (reconnecting), opening, connected, stopped
    known,   \* SocketStore.state.epoch, 0 for null
    entry,   \* SocketStore.topics: the cursor and the seen seqs of each topic with a reader
    asked,   \* history: subscribes sent for a topic on this connection and not yet answered
    pos,     \* history: the seq up to which a topic's reader was handed everything, or None
    told,    \* history: the topics whose readers this step tells to read the REST API again
    losses, turns  \* bounded counters

hub == <<epoch, log, floor, conn>>
channel == <<up, down>>
store == <<link, known, entry>>
history == <<asked, pos>>
bounds == <<losses, turns>>
vars == <<hub, channel, store, history, told, bounds>>

Gone == [open |-> FALSE, topics |-> {}]
Fresh == [cursor |-> None, seen |-> {}]
Reading == DOMAIN entry
Newest == Len(log[epoch])

Init ==
    /\ epoch = 1
    /\ log = [e \in Epochs |-> <<>>]
    /\ floor = 0
    /\ conn = Gone
    /\ up = <<>> /\ down = <<>>
    /\ link = "closed" /\ known = 0
    /\ entry = [t \in {} |-> Fresh]
    /\ asked = [t \in Topics |-> 0]
    /\ pos = [t \in Topics |-> None]
    /\ told = {}
    /\ losses = 0 /\ turns = 0

----------------------------------------------------------------------------
\* The hub.

Hello == [kind |-> "hello", epoch |-> epoch]
Event(t, s) == [kind |-> "event", topic |-> t, seq |-> s]
Subscribed(t, to, complete) ==
    [kind |-> "subscribed", topic |-> t, to |-> to, complete |-> complete]
ResyncRequired(t) == [kind |-> "resync_required", topic |-> t]
Closing(code) == [kind |-> "close", code |-> code]

\* The tab opens a socket and the hub registers it and says hello.
Connect ==
    /\ link = "closed"
    /\ link' = "opening"
    /\ conn' = [open |-> TRUE, topics |-> {}]
    /\ up' = <<>> /\ down' = <<Hello>>
    /\ told' = {}
    /\ UNCHANGED <<epoch, log, floor, known, entry, history, bounds>>

\* Mutant of SendAll: a dropped frame is counted and the connection stays open.
MutantSendAllKeeps(c, frames, replies) ==
    \E n \in (IF losses < MaxLosses THEN 0 ELSE Len(frames))..Len(frames) :
      /\ conn' = c
      /\ down' = down \o SubSeq(frames, 1, n) \o replies
      /\ losses' = IF n < Len(frames) THEN losses + 1 ELSE losses

\* Feed frames and then replies, if the socket takes them all.  The socket may drop a frame, or
\* stay over its limit too long after one: the connection is closed and nothing more is written.
SendAll(c, frames, replies) ==
    \/ /\ conn' = c /\ down' = down \o frames \o replies
       /\ UNCHANGED losses
    \/ \E n \in 0..Len(frames) :
         /\ frames # <<>> /\ losses < MaxLosses
         /\ conn' = Gone
         /\ down' = Append(down \o SubSeq(frames, 1, n), Closing("overloaded"))
         /\ losses' = losses + 1

\* RealtimeHub.publish: number the event, keep it, send it to the connections on its topic.
Publish(t) ==
    /\ Newest < MaxEvents
    /\ log' = [log EXCEPT ![epoch] = Append(@, t)]
    /\ IF conn.open /\ t \in conn.topics
       THEN SendAll(conn, <<Event(t, Newest + 1)>>, <<>>)
       ELSE UNCHANGED <<conn, down, losses>>
    /\ told' = {}
    /\ UNCHANGED <<epoch, floor, up, store, history, turns>>

\* The oldest frame leaves the buffer: too many, too many bytes, or too old.
Evict ==
    /\ floor < Newest
    /\ floor' = floor + 1
    /\ told' = {}
    /\ UNCHANGED <<epoch, log, conn, channel, store, history, bounds>>

\* Mutant of Complete: off by one.
MutantCompleteLate(c) == c <= Newest /\ (c = Newest \/ floor <= c + 1)

\* FeedBuffer.replay: whether every event after the cursor is still there.
Complete(c) == c <= Newest /\ (c = Newest \/ floor <= c)

\* A finite set of numbers in ascending order: SetToSortSeq, in a form the provers can unfold.
Ascending(S) ==
    CHOOSE q \in [1..Cardinality(S) -> S] :
        ToSet(q) = S /\ \A i, j \in DOMAIN q : i < j => q[i] < q[j]

\* ... and the frames of a topic after the cursor that the buffer still has.
Replay(t, c) ==
    LET missed == Ascending({s \in floor+1..Newest : s > c /\ log[epoch][s] = t})
    IN  [i \in 1..Len(missed) |-> Event(t, missed[i])]

Subscribe(t, c) ==
    LET with == [conn EXCEPT !.topics = @ \cup {t}] IN
    \/ /\ c = None
       /\ SendAll(with, <<>>, <<Subscribed(t, Newest, TRUE)>>)
    \/ /\ c # None /\ Complete(c)
       /\ SendAll(with, Replay(t, c), <<Subscribed(t, Newest, TRUE)>>)
    \/ /\ c # None /\ ~Complete(c)
       /\ SendAll(with, <<>>, <<Subscribed(t, Newest, FALSE), ResyncRequired(t)>>)

Unsubscribe(t) ==
    /\ conn' = [conn EXCEPT !.topics = @ \ {t}]
    /\ UNCHANGED <<down, losses>>

\* The next command runs; a connection that is closed drops it.
Serve ==
    /\ up # <<>> /\ up' = Tail(up)
    /\ LET cmd == Head(up) IN
         IF ~conn.open THEN UNCHANGED <<conn, down, losses>>
         ELSE IF cmd.type = "subscribe" THEN Subscribe(cmd.topic, cmd.cursor)
         ELSE Unsubscribe(cmd.topic)
    /\ told' = {}
    /\ UNCHANGED <<epoch, log, floor, store, history, turns>>

\* The hub closes the connection: stale, over its limit, or its operator session ended.
HubCloses(code) ==
    /\ conn.open /\ losses < MaxLosses
    /\ conn' = Gone
    /\ down' = Append(down, Closing(code))
    /\ losses' = losses + 1
    /\ told' = {}
    /\ UNCHANGED <<epoch, log, floor, up, store, history, turns>>

\* The daemon stops, or dies, and another one starts with an epoch and a buffer of its own.
Restart ==
    /\ epoch < MaxEpochs
    /\ epoch' = epoch + 1 /\ floor' = 0
    /\ conn' = Gone
    /\ down' = IF conn.open THEN Append(down, Closing("going_away")) ELSE down
    /\ told' = {}
    /\ UNCHANGED <<log, up, store, history, bounds>>

----------------------------------------------------------------------------
\* The tab.

SubscribeTo(t) == [type |-> "subscribe", topic |-> t, cursor |-> entry'[t].cursor]

\* SocketStore.subscribe for a topic nobody reads, and the unsubscribe of its last reader.  A
\* command is dropped unless the socket is connected.
Join(t) ==
    /\ turns < MaxTurns /\ turns' = turns + 1
    /\ t \notin Reading
    /\ entry' = [x \in Reading \cup {t} |-> IF x = t THEN Fresh ELSE entry[x]]
    /\ IF link = "connected"
       THEN up' = Append(up, SubscribeTo(t)) /\ asked' = [asked EXCEPT ![t] = @ + 1]
       ELSE UNCHANGED <<up, asked>>
    /\ told' = {}
    /\ UNCHANGED <<hub, down, link, known, pos, losses>>

Leave(t) ==
    /\ turns < MaxTurns /\ turns' = turns + 1
    /\ t \in Reading
    /\ entry' = Restrict(entry, Reading \ {t})
    /\ up' = IF link = "connected" THEN Append(up, [type |-> "unsubscribe", topic |-> t]) ELSE up
    /\ pos' = [pos EXCEPT ![t] = None]
    /\ told' = {}
    /\ UNCHANGED <<hub, down, link, known, asked, losses>>

\* socket.onclose: a reconnect is scheduled, or the store stops.
Disconnect(to) ==
    /\ link' = to
    /\ up' = <<>> /\ down' = <<>>
    /\ asked' = [t \in Topics |-> 0]
    /\ told' = {}
    /\ UNCHANGED <<known, entry, pos>>

\* The connection breaks, or the heartbeat finds it silent; what was on its way is lost.
Lose ==
    /\ link \in {"opening", "connected"} /\ losses < MaxLosses
    /\ losses' = losses + 1
    /\ conn' = Gone
    /\ Disconnect("closed")
    /\ UNCHANGED <<epoch, log, floor, turns>>

OnClosed(code) == Disconnect(IF code = "unauthorized" THEN "stopped" ELSE "closed")

\* Mutant of OnHello: cursors outlive their epoch.
MutantOnHelloKeeps(e) ==
    /\ link' = "connected" /\ known' = e
    /\ entry' = entry
    /\ \E q \in SetToSeqs({SubscribeTo(t) : t \in Reading}) : up' = up \o q
    /\ asked' = [t \in Topics |-> IF t \in Reading THEN 1 ELSE 0]
    /\ pos' = [t \in Topics |-> IF t \in Reading /\ entry'[t].cursor # None THEN pos[t] ELSE None]
    /\ told' = IF known # 0 THEN Reading ELSE {}

\* onHello: cursors of another epoch are worthless; every topic is subscribed to again; and after
\* a gap every query is invalidated, which is what readers of a topic without a cursor rely on.
OnHello(e) ==
    /\ link' = "connected" /\ known' = e
    /\ entry' = IF known \notin {0, e} THEN [t \in Reading |-> Fresh] ELSE entry
    /\ \E q \in SetToSeqs({SubscribeTo(t) : t \in Reading}) : up' = up \o q
    /\ asked' = [t \in Topics |-> IF t \in Reading THEN 1 ELSE 0]
    /\ pos' = [t \in Topics |-> IF t \in Reading /\ entry'[t].cursor # None THEN pos[t] ELSE None]
    /\ told' = IF known # 0 THEN Reading ELSE {}

\* onEvent: an event seen before is dropped, and the cursor is the highest seq handed on.
OnEvent(t, s) ==
    /\ IF t \in Reading /\ s \notin entry[t].seen
       THEN /\ entry' = [entry EXCEPT ![t] =
                 [cursor |-> IF @.cursor = None \/ @.cursor < s THEN s ELSE @.cursor,
                  seen |-> @.seen \cup {s}]]
            /\ pos' = [pos EXCEPT ![t] = IF @ # None /\ @ < s THEN s ELSE @]
       ELSE UNCHANGED <<entry, pos>>
    /\ told' = {}
    /\ UNCHANGED <<link, known, up, asked>>

\* onReply to a subscribe.  The store keeps nothing of a complete one; an incomplete one is
\* passed to the hooks.  The reader's position is known once its last subscribe is answered.
OnSubscribed(t, to, complete) ==
    /\ asked' = [asked EXCEPT ![t] = @ - 1]
    /\ pos' = [pos EXCEPT ![t] = IF t \in Reading /\ asked[t] = 1 THEN to ELSE @]
    /\ told' = IF complete THEN {} ELSE {t} \cap Reading
    /\ UNCHANGED <<link, known, entry, up>>

OnResyncRequired(t) ==
    /\ told' = {t} \cap Reading
    /\ UNCHANGED <<link, known, entry, up, asked, pos>>

\* socket.onmessage, or onclose once everything before it was read.
Receive ==
    /\ down # <<>>
    /\ LET f == Head(down) IN
         \/ f.kind = "close" /\ OnClosed(f.code)
         \/ /\ f.kind # "close" /\ down' = Tail(down)
            /\ \/ f.kind = "hello" /\ OnHello(f.epoch)
               \/ f.kind = "event" /\ OnEvent(f.topic, f.seq)
               \/ f.kind = "subscribed" /\ OnSubscribed(f.topic, f.to, f.complete)
               \/ f.kind = "resync_required" /\ OnResyncRequired(f.topic)
    /\ UNCHANGED <<hub, bounds>>

----------------------------------------------------------------------------
Next ==
    \/ Connect \/ Evict \/ Serve \/ Restart \/ Lose \/ Receive
    \/ \E t \in Topics : Publish(t) \/ Join(t) \/ Leave(t)
    \/ \E code \in {"overloaded", "unauthorized"} : HubCloses(code)

Spec == Init /\ [][Next]_vars

\* The reconnect timer fires, the channel delivers, and the database answers the touch.
Fairness == WF_vars(Connect) /\ WF_vars(Serve) /\ WF_vars(Receive)

FairSpec == Spec /\ Fairness

----------------------------------------------------------------------------
TypeOK ==
    /\ epoch \in Epochs /\ known \in 0..epoch
    /\ \A e \in Epochs : log[e] \in Seq(Topics) /\ (e > epoch => log[e] = <<>>)
    /\ floor \in 0..Newest
    /\ conn.open \in BOOLEAN /\ conn.topics \subseteq Topics
    /\ link \in {"closed", "opening", "connected", "stopped"}
    /\ Reading \subseteq Topics
    /\ \A t \in Reading :
         LET head == IF known = 0 THEN 0 ELSE Len(log[known]) IN
         /\ entry[t].cursor \in {None} \cup 1..head
         /\ \A s \in entry[t].seen : log[known][s] = t
    /\ \A t \in Topics : pos[t] \in Nat \cup {None} /\ asked[t] \in Nat
    /\ told \subseteq Reading

Contract == INSTANCE FeedContract WITH
    reading <- Reading,
    handed <- [t \in Topics |-> IF t \in Reading THEN entry[t].cursor ELSE None]

\* A reader's position passes an event of its topic only when the reader is handed that event, in
\* order, or when a hook tells it to read the REST API again: frames the socket drops, buffers that
\* evict, reconnects and other daemons never lose an event silently.
ContractSpec == Contract!Spec

\* When the connection holds and nothing more is published, every reader is connected to the
\* serving daemon and stands at the end of its topic, unless the operator session ended.
UpToDate(t) ==
    /\ link = "connected" /\ known = epoch /\ pos[t] # None
    /\ \A s \in pos[t]+1..Newest : log[epoch][s] # t
ReadersCatchUp == <>[](link = "stopped" \/ \A t \in Reading : UpToDate(t))
=============================================================================
