----------------------------- MODULE FeedContract -----------------------------
(***************************************************************************)
(* What the realtime feed promises to the readers of a dashboard, without  *)
(* sockets, cursors or buffers.  A reader of a topic has a position in the *)
(* daemon's numbering of events.  Its position passes an event of its      *)
(* topic only when it is handed that event, and then that event is the     *)
(* next one; or when its reader is told, in the same instant, to read the  *)
(* REST API again.                                                         *)
(***************************************************************************)
EXTENDS Naturals, Sequences

CONSTANTS Topics, Epochs, None

VARIABLES
    log,      \* of each daemon: the topics of the events it published, in order
    known,    \* the daemon the readers follow, 0 before the first
    reading,  \* topics that have a reader
    pos,      \* where each reader stands, or None
    handed,   \* the last event each reader was handed, or None
    told      \* the readers that the last step told to read the REST API again

vars == <<log, known, reading, pos, handed, told>>

\* The events of topic t after position a, up to position b.
Events(t, a, b) == {s \in a+1..b : log[known][s] = t}

Init ==
    /\ log = [e \in Epochs |-> <<>>]
    /\ known = 0
    /\ reading = {}
    /\ pos = [t \in Topics |-> None]
    /\ handed = [t \in Topics |-> None]
    /\ told = {}

Publish(e, t) ==
    /\ log' = [log EXCEPT ![e] = Append(@, t)]
    /\ told' = {}
    /\ UNCHANGED <<known, reading, pos, handed>>

\* Nothing the readers see.
Idle ==
    /\ told' = {}
    /\ UNCHANGED <<log, known, reading, pos, handed>>

\* A reader comes, or goes.
Turn(t) ==
    /\ reading' = IF t \in reading THEN reading \ {t} ELSE reading \cup {t}
    /\ pos' = [pos EXCEPT ![t] = None]
    /\ handed' = [handed EXCEPT ![t] = None]
    /\ told' = {}
    /\ UNCHANGED <<log, known>>

\* A reader without a position is given one.
Follow(t, p) ==
    /\ t \in reading /\ pos[t] = None
    /\ pos' = [pos EXCEPT ![t] = p]
    /\ told' = {}
    /\ UNCHANGED <<log, known, reading, handed>>

\* A reader is assured that there is nothing of its topic up to p.
Assure(t, p) ==
    /\ pos[t] # None /\ Events(t, pos[t], p) = {}
    /\ pos' = [pos EXCEPT ![t] = p]
    /\ told' = {}
    /\ UNCHANGED <<log, known, reading, handed>>

\* A reader is handed the next event of its topic.
HandNext(t, s) ==
    /\ pos[t] # None /\ Events(t, pos[t], s) = {s}
    /\ pos' = [pos EXCEPT ![t] = s]
    /\ handed' = [handed EXCEPT ![t] = s]
    /\ told' = {}
    /\ UNCHANGED <<log, known, reading>>

\* A reader is handed an event from before its position; a new reader may be handed any.
HandEarlier(t, s) ==
    /\ t \in reading /\ (pos[t] # None => s <= pos[t])
    /\ log[known][s] = t
    /\ handed' = [handed EXCEPT ![t] = s]
    /\ told' = {}
    /\ UNCHANGED <<log, known, reading, pos>>

\* Some readers are told to read again; they alone may lose or jump their position.
Tell(T) ==
    /\ T # {}
    /\ told' = T
    /\ \A t \in Topics \ T : pos'[t] = pos[t] /\ handed'[t] = handed[t]
    /\ UNCHANGED <<log, reading>>

\* The first daemon, or another one, is found; no position outlives it.
Meet ==
    /\ known' # known
    /\ pos' = [t \in Topics |-> None]
    /\ UNCHANGED <<log, reading>>
    /\ told' = IF known = 0 THEN {} ELSE reading
    /\ \A t \in Topics \ reading : handed'[t] = handed[t]

Next ==
    \/ \E t \in Topics :
         \/ Turn(t)
         \/ \E e \in Epochs : Publish(e, t)
         \/ \E p \in 0..(IF known = 0 THEN 0 ELSE Len(log[known])) :
              Follow(t, p) \/ Assure(t, p) \/ HandNext(t, p) \/ (p > 0 /\ HandEarlier(t, p))
    \/ \E T \in SUBSET reading : Tell(T) /\ known' = known
    \/ Idle \/ Meet

Spec == Init /\ [][Next]_vars
=============================================================================
