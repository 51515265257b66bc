------------------------------- MODULE LiveView -------------------------------
(***************************************************************************)
(* The live view of one session: LiveView with its per-session queue, the  *)
(* screencast commands and subscriptions of the dashboard's connections in *)
(* RealtimeHub, and the browser at the other end of a CDP session.         *)
(*                                                                         *)
(* Every change to the session's bridge is a task of one queue.  A task    *)
(* runs from one await to the next in one step; run says where it waits.   *)
(* Tab switches, frames, captures, timers, commands and closing            *)
(* connections happen in between.  What a settled task's caller does next  *)
(* follows in microtasks and is part of the step that settles it.          *)
(*                                                                         *)
(* A bridge that was torn down does nothing more: its timer is cleared,    *)
(* its listeners are released, its capture is discarded, and the tasks     *)
(* queued for it return at once.  Writing frames to a socket, input events *)
(* themselves and dispose() at shutdown are not part of this module.       *)
(***************************************************************************)
EXTENDS Naturals, SequencesExt, FiniteSetsExt

CONSTANTS
    Conns,        \* connections, every one of them open at first
    Tabs,         \* tabs of the session
    Sizes,        \* requested sizes, as numbers
    None,         \* no tab, no bridge, no frame
    MaxCommands,  \* bound: commands and inputs that arrive
    MaxSwitches,  \* bound: changes of the active tab
    MaxFaults     \* bound: CDP calls and captures that fail while the session is live

\* A viewer's requested size and the subscription it was made for, and a bridge.
Entries == [size : Sizes, ordinal : Nat]
Bridges(audiences) ==
    [tab : Tabs, viewers : audiences, casting : BOOLEAN, cast : BOOLEAN, size : Sizes \cup {0},
     timer : BOOLEAN, frame : BOOLEAN, priming : BOOLEAN, raced : BOOLEAN, blind : BOOLEAN]

ASSUME LiveViewAssumption ==
    /\ {MaxCommands, MaxSwitches, MaxFaults} \subseteq Nat
    /\ Sizes \subseteq Nat \ {0} /\ IsFiniteSet(Conns)
    /\ Tabs # {} /\ None \notin Tabs \cup Bridges(UNION {[C -> Entries] : C \in SUBSET Conns})

VARIABLES
    sess,      \* live, draining (or crashed: no longer live), closed
    active,    \* TabRegistry.activeId
    open,      \* WsConnection is registered with the hub
    sub,       \* WsConnection.screencasts for this session: none, starting or on (announced), and
               \* the ordinal of the last one
    chain,     \* WsConnection.chains: screencast commands that arrived, the first one running
    busy,      \* whether the first command of the chain was dispatched
    queue,     \* the tasks of the session, the first one running
    run,       \* the running task: where it waits, the tab being opened, viewers it carries
    bridge,    \* LiveView.bridges for this session, with the browser's side of it (cast)
    shown,     \* history: the tab whose frame a subscription was handed last, or None
    commands, switches, faults  \* bounded counters

conns == <<open, sub, chain, busy>>
view == <<queue, run, bridge>>
bounds == <<commands, switches, faults>>
vars == <<sess, active, conns, view, shown, bounds>>

Idle == [pc |-> "idle", tab |-> None, carried |-> <<>>]
Task == Head(queue)
Viewers == IF bridge = None THEN {} ELSE DOMAIN bridge.viewers
Drop(f, c) == Restrict(f, DOMAIN f \ {c})
Joined(f, c, e) == [x \in DOMAIN f \cup {c} |-> IF x = c THEN e ELSE f[x]]
\* current(): whether the subscription of c is the one an entry of the viewers was made for.
Current(c, entry) == sub[c].st # "none" /\ sub[c].ordinal = entry.ordinal
CurrentOf(viewers) == {c \in DOMAIN viewers : Current(c, viewers[c])}
\* The subscriptions without those of C.
Without(C) == [c \in Conns |-> IF c \in C THEN [sub[c] EXCEPT !.st = "none"] ELSE sub[c]]

Init ==
    /\ sess = "live" /\ active = CHOOSE t \in Tabs : TRUE
    /\ open = [c \in Conns |-> TRUE]
    /\ sub = [c \in Conns |-> [st |-> "none", ordinal |-> 0]]
    /\ chain = [c \in Conns |-> <<>>] /\ busy = [c \in Conns |-> FALSE]
    /\ queue = <<>> /\ run = Idle /\ bridge = None
    /\ shown = [c \in Conns |-> None]
    /\ commands = 0 /\ switches = 0 /\ faults = 0

----------------------------------------------------------------------------
\* Connections and their commands.

Commands == {[op |-> "stop", size |-> 0]} \cup [op : {"start", "size"}, size : Sizes]

\* A screencast command arrives on an open connection, behind those before it.
Arrive(c) ==
    /\ open[c] /\ commands < MaxCommands /\ commands' = commands + 1
    /\ \E cmd \in Commands : chain' = [chain EXCEPT ![c] = Append(@, cmd)]
    /\ UNCHANGED <<sess, active, open, sub, busy, view, shown, switches, faults>>

\* An input command or request arrives: requireLive, then a bridge to send it over.
Input ==
    /\ sess = "live" /\ commands < MaxCommands /\ commands' = commands + 1
    /\ queue' = Append(queue, [op |-> "input"])
    /\ UNCHANGED <<sess, active, conns, run, bridge, shown, switches, faults>>

\* A subscription that leaves: what it was shown is forgotten.
Hidden(C) == shown' = [c \in Conns |-> IF c \in C THEN None ELSE shown[c]]

\* The operator session is touched and the next command of the chain runs, whether or not its
\* connection is still open.
Dispatch(c) ==
    /\ chain[c] # <<>> /\ ~busy[c]
    /\ LET cmd == Head(chain[c]) IN
         \/ /\ cmd.op = "start" /\ sub[c].st = "none"
            /\ sub' = [sub EXCEPT ![c] = [st |-> "starting", ordinal |-> @.ordinal + 1]]
            /\ queue' = Append(queue, [op |-> "add", conn |-> c,
                                      entry |-> [size |-> cmd.size, ordinal |-> sub'[c].ordinal]])
            /\ busy' = [busy EXCEPT ![c] = TRUE]
            /\ UNCHANGED <<chain, shown>>
         \/ /\ cmd.op = "size" \/ (cmd.op = "start" /\ sub[c].st # "none")
            /\ queue' = Append(queue, [op |-> "size", conn |-> c, size |-> cmd.size])
            /\ busy' = [busy EXCEPT ![c] = TRUE]
            /\ UNCHANGED <<sub, chain, shown>>
         \/ /\ cmd.op = "stop" /\ sub[c].st # "none"
            /\ sub' = Without({c}) /\ Hidden({c})
            /\ queue' = Append(queue, [op |-> "remove", conn |-> c, awaited |-> TRUE])
            /\ busy' = [busy EXCEPT ![c] = TRUE]
            /\ UNCHANGED chain
         \/ /\ cmd.op = "stop" /\ sub[c].st = "none"
            /\ chain' = [chain EXCEPT ![c] = Tail(@)]
            /\ UNCHANGED <<sub, queue, busy, shown>>
    /\ UNCHANGED <<sess, active, open, run, bridge, bounds>>

\* Mutant of Close: a screencast that is still starting is not given back.
MutantCloseAnnounced(c) ==
    /\ open[c]
    /\ open' = [open EXCEPT ![c] = FALSE]
    /\ queue' = IF sub[c].st # "on" THEN queue
                ELSE Append(queue, [op |-> "remove", conn |-> c, awaited |-> FALSE])
    /\ sub' = Without({c}) /\ Hidden({c})
    /\ UNCHANGED <<sess, active, chain, busy, run, bridge, bounds>>

\* RealtimeHub.close: the peer leaves, or the hub closes the connection.
Close(c) ==
    /\ open[c]
    /\ open' = [open EXCEPT ![c] = FALSE]
    /\ queue' = IF sub[c].st = "none" THEN queue
                ELSE Append(queue, [op |-> "remove", conn |-> c, awaited |-> FALSE])
    /\ sub' = Without({c}) /\ Hidden({c})
    /\ UNCHANGED <<sess, active, chain, busy, run, bridge, bounds>>

----------------------------------------------------------------------------
\* The session and its browser.

Drain == sess = "live" /\ sess' = "draining" /\ UNCHANGED <<active, conns, view, shown, bounds>>

CloseSession ==
    /\ sess = "draining" /\ sess' = "closed"
    /\ queue' = Append(queue, [op |-> "closed"])
    /\ UNCHANGED <<active, conns, run, bridge, shown, bounds>>

\* TabRegistry.setActiveId: a bridge follows the tab.
SwitchTab ==
    /\ sess # "closed" /\ switches < MaxSwitches /\ switches' = switches + 1
    /\ \E t \in (Tabs \cup {None}) \ {active} : active' = t
    /\ queue' = IF bridge = None THEN queue ELSE Append(queue, [op |-> "follow"])
    /\ UNCHANGED <<sess, conns, run, bridge, shown, commands, faults>>

\* Frame f of bridge b reaches its viewers; one that is no longer subscribed ignores it.
Publish(b) ==
    /\ bridge' = [b EXCEPT !.frame = TRUE, !.raced = @ \/ b.priming, !.blind = FALSE]
    /\ shown' = [c \in Conns |-> IF c \in CurrentOf(b.viewers) THEN b.tab ELSE shown[c]]

\* The page changes and the browser emits a screencast frame.
Frame ==
    /\ bridge # None /\ bridge.cast
    /\ Publish(bridge)
    /\ UNCHANGED <<sess, active, conns, queue, run, bounds>>

\* A captured frame, unless the stream emitted one first; or the capture fails or takes too long.
Captured ==
    /\ bridge # None /\ bridge.priming
    /\ LET b == [bridge EXCEPT !.priming = FALSE, !.raced = FALSE] IN
         \/ bridge.raced /\ bridge' = b /\ UNCHANGED shown
         \/ ~bridge.raced /\ Publish(b)
    /\ UNCHANGED <<sess, active, conns, queue, run, bounds>>

\* A CDP call may fail: a fault while the session is live, and freely when it is not.
MayFail ==
    \/ sess # "live" /\ UNCHANGED faults
    \/ faults < MaxFaults /\ faults' = faults + 1

CaptureFails ==
    /\ bridge # None /\ bridge.priming /\ MayFail
    /\ bridge' = [bridge EXCEPT !.priming = FALSE, !.raced = FALSE, !.blind = ~bridge.raced]
    /\ UNCHANGED <<sess, active, conns, queue, run, shown, commands, switches>>

----------------------------------------------------------------------------
\* The queue.

\* prime(): one capture at a time.
Prime(b) == IF b.priming THEN b ELSE [b EXCEPT !.priming = TRUE, !.raced = FALSE]

\* The queue when the bridge is torn down: the tasks behind that were for it are stale.
Orphaned == [i \in DOMAIN queue |-> IF i # 1 /\ queue[i].op \in {"follow", "stop"}
                                    THEN [op |-> "stale"] ELSE queue[i]]

\* The running task ends, rest are the tasks behind it, subs the subscriptions it leaves; a
\* command waiting for it is answered, and a start is announced or taken back.
Finish(ok, rest, subs) ==
    /\ queue' = rest /\ run' = Idle
    /\ LET waits == Task.op \in {"add", "size"} \/ (Task.op = "remove" /\ Task.awaited)
           starts == Task.op = "add" /\ Current(Task.conn, Task.entry)
       IN /\ sub' = IF starts THEN [subs EXCEPT ![Task.conn].st = IF ok THEN "on" ELSE "none"]
                   ELSE subs
          /\ chain' = IF waits THEN [chain EXCEPT ![Task.conn] = Tail(@)] ELSE chain
          /\ busy' = IF waits THEN [busy EXCEPT ![Task.conn] = FALSE] ELSE busy
    /\ UNCHANGED open

\* applySize(): stop and start the screencast, or start it, at the largest size.
Largest(b) == Max({b.viewers[c].size : c \in DOMAIN b.viewers})
Unchanged(b) == b.casting /\ b.size = Largest(b)

\* Mutant of Restart: a screencast that runs is started again.
MutantRestartTwice(b) ==
    /\ bridge' = [b EXCEPT !.casting = FALSE]
    /\ run' = [Idle EXCEPT !.pc = "starting"]
    /\ UNCHANGED <<queue, conns, shown>>

Restart(b) ==
    /\ bridge' = [b EXCEPT !.casting = FALSE]
    /\ run' = [Idle EXCEPT !.pc = IF b.casting THEN "stopping" ELSE "starting"]
    /\ UNCHANGED <<queue, conns, shown>>

\* Where a task that only adjusts the size goes on.
Resize(b) ==
    \/ Unchanged(b) /\ bridge' = b /\ UNCHANGED shown /\ Finish(TRUE, Tail(queue), sub)
    \/ ~Unchanged(b) /\ Restart(b)

\* openBridge() reads the active tab and asks for a CDP session on it.
OpenBridge(carried) == run' = [pc |-> "opening", tab |-> active, carried |-> carried]

\* retarget(): the old bridge is torn down first.
Retarget ==
    /\ bridge' = None
    /\ queue' = Orphaned
    /\ run' = [Idle EXCEPT !.pc = "torn", !.carried = bridge.viewers]
    /\ UNCHANGED <<conns, shown>>

BeginEnsure ==
    /\ Task.op \in {"add", "input"}
    /\ \/ sess # "live" /\ Finish(FALSE, Tail(queue), sub) /\ UNCHANGED <<bridge, shown>>
       \/ /\ sess = "live" /\ bridge = None
          /\ OpenBridge(<<>>) /\ UNCHANGED <<queue, bridge, conns, shown>>
       \/ /\ sess = "live" /\ bridge # None /\ bridge.tab = active
          /\ run' = [Idle EXCEPT !.pc = "ensured"] /\ UNCHANGED <<queue, bridge, conns, shown>>
       \/ sess = "live" /\ bridge # None /\ bridge.tab # active /\ Retarget

\* Mutant of BeginRemove: the last viewer leaves and no stop is scheduled.
MutantBeginRemoveKeeps ==
    /\ Task.op = "remove"
    /\ IF Task.conn \notin Viewers
       THEN Finish(TRUE, Tail(queue), sub) /\ UNCHANGED <<bridge, shown>>
       ELSE LET b == [bridge EXCEPT !.viewers = Drop(@, Task.conn)] IN
              IF b.viewers = <<>>
              THEN bridge' = b /\ Finish(TRUE, Tail(queue), sub) /\ UNCHANGED shown
              ELSE Resize(b)

BeginRemove ==
    /\ Task.op = "remove"
    /\ IF Task.conn \notin Viewers
       THEN Finish(TRUE, Tail(queue), sub) /\ UNCHANGED <<bridge, shown>>
       ELSE LET b == [bridge EXCEPT !.viewers = Drop(@, Task.conn)] IN
              IF b.viewers = <<>>
              THEN /\ bridge' = [b EXCEPT !.timer = TRUE]
                   /\ Finish(TRUE, Tail(queue), sub) /\ UNCHANGED shown
              ELSE Resize(b)

BeginSize ==
    /\ Task.op = "size"
    /\ IF Task.conn \notin Viewers
       THEN Finish(FALSE, Tail(queue), sub) /\ UNCHANGED <<bridge, shown>>
       ELSE Resize([bridge EXCEPT !.viewers[Task.conn].size = Task.size])

BeginClosed ==
    /\ Task.op = "closed"
    /\ LET gone == IF bridge = None THEN {} ELSE CurrentOf(bridge.viewers)
       IN Hidden(gone) /\ Finish(TRUE, Tail(Orphaned), Without(gone))
    /\ bridge' = None

BeginFollow ==
    /\ Task.op = "follow"
    /\ IF sess = "live" /\ active \notin {None, bridge.tab} THEN Retarget
       ELSE Finish(TRUE, Tail(queue), sub) /\ UNCHANGED <<bridge, shown>>

BeginStop ==
    /\ Task.op = "stop"
    /\ \/ /\ Viewers = {} /\ bridge' = None
          /\ Finish(TRUE, Tail(Orphaned), sub)
       \/ Viewers # {} /\ UNCHANGED bridge /\ Finish(TRUE, Tail(queue), sub)
    /\ UNCHANGED shown

\* A follow or a stop of a bridge that is gone: bridge.closed, or nothing to tear down.
BeginStale == Task.op = "stale" /\ Finish(TRUE, Tail(queue), sub) /\ UNCHANGED <<bridge, shown>>

Begin ==
    /\ queue # <<>> /\ run = Idle
    /\ \/ BeginEnsure \/ BeginRemove \/ BeginSize \/ BeginClosed
       \/ BeginFollow \/ BeginStop \/ BeginStale
    /\ UNCHANGED <<sess, active, bounds>>

\* retarget() once the old bridge is gone: nobody to carry means no bridge, unless one is needed.
Torn ==
    /\ run.pc = "torn"
    /\ IF Task.op = "follow" /\ run.carried = <<>> THEN Finish(TRUE, Tail(queue), sub)
       ELSE OpenBridge(run.carried) /\ UNCHANGED <<queue, conns>>
    /\ UNCHANGED <<sess, active, bridge, shown, bounds>>

NewBridge(tab, viewers) ==
    [tab |-> tab, viewers |-> viewers, casting |-> FALSE, cast |-> FALSE, size |-> 0,
     timer |-> FALSE, frame |-> FALSE, priming |-> FALSE, raced |-> FALSE, blind |-> FALSE]

\* Mutant of Opened: a tab switch while the CDP session was opened is not noticed.
MutantOpenedBlindly ==
    /\ run.pc = "opening" /\ run.tab # None /\ sess # "closed"
    /\ bridge' = NewBridge(run.tab, run.carried)
    /\ run' = [Idle EXCEPT !.pc = IF run.carried = <<>> THEN "ensured" ELSE "moving"]
    /\ UNCHANGED <<sess, active, queue, conns, shown, bounds>>

\* The CDP session is there; a tab switch nobody could follow meanwhile is followed now.
Opened ==
    /\ run.pc = "opening" /\ run.tab # None /\ sess # "closed"
    /\ bridge' = NewBridge(run.tab, run.carried)
    /\ queue' = IF active # run.tab THEN Append(queue, [op |-> "follow"]) ELSE queue
    /\ run' = [Idle EXCEPT !.pc = IF run.carried = <<>> THEN "ensured" ELSE "moving"]
    /\ UNCHANGED <<sess, active, conns, shown, bounds>>

OpenFails ==
    /\ run.pc = "opening"
    /\ IF run.tab = None THEN UNCHANGED faults ELSE MayFail
    /\ Hidden(CurrentOf(run.carried))
    /\ Finish(FALSE, Tail(queue), Without(CurrentOf(run.carried)))
    /\ UNCHANGED <<sess, active, bridge, commands, switches>>

\* A task has its bridge: a viewer joins, or an input keeps an unwatched bridge for a while.
Ensured ==
    /\ run.pc = "ensured"
    /\ \/ /\ Task.op = "add"
          /\ LET b == [bridge EXCEPT !.timer = FALSE,
                                     !.viewers = Joined(@, Task.conn, Task.entry)] IN
               \/ ~Unchanged(b) /\ Restart(b)
               \/ /\ Unchanged(b)
                  /\ shown' = IF b.frame /\ Current(Task.conn, Task.entry)
                              THEN [shown EXCEPT ![Task.conn] = b.tab] ELSE shown
                  /\ bridge' = IF b.frame THEN b ELSE Prime(b)
                  /\ Finish(TRUE, Tail(queue), sub)
       \/ /\ Task.op = "input"
          /\ bridge' = [bridge EXCEPT !.timer = @ \/ Viewers = {}]
          /\ Finish(TRUE, Tail(queue), sub) /\ UNCHANGED shown
    /\ UNCHANGED <<sess, active, bounds>>

Stopped ==
    /\ run.pc = "stopping"
    /\ bridge' = [bridge EXCEPT !.cast = FALSE]
    /\ run' = [run EXCEPT !.pc = "starting"]
    /\ UNCHANGED <<sess, active, queue, conns, shown, bounds>>

Casting == [bridge EXCEPT !.cast = TRUE, !.casting = TRUE, !.size = Largest(bridge)]

\* The screencast of a task is on; Chromium refuses a second one.
Started ==
    /\ run.pc = "starting" /\ ~bridge.cast
    /\ bridge' = Prime(Casting)
    /\ shown' = IF Task.op = "add" /\ bridge.frame /\ Current(Task.conn, Task.entry)
                THEN [shown EXCEPT ![Task.conn] = bridge.tab] ELSE shown
    /\ Finish(TRUE, Tail(queue), sub)
    /\ UNCHANGED <<sess, active, bounds>>

\* The screencast of a bridge that took over its viewers is on.
Moved ==
    /\ run.pc = "moving"
    /\ bridge' = Prime(Casting)
    /\ IF Task.op = "follow" THEN Finish(TRUE, Tail(queue), sub)
       ELSE run' = [Idle EXCEPT !.pc = "ensured"] /\ UNCHANGED <<queue, conns>>
    /\ UNCHANGED <<sess, active, shown, bounds>>

\* fail(): the bridge goes, and its viewers are told once it is gone.
Fails ==
    /\ run.pc \in {"stopping", "starting", "moving"}
    /\ IF run.pc = "starting" /\ bridge.cast THEN UNCHANGED faults ELSE MayFail
    /\ run' = [Idle EXCEPT !.pc = "failing",
                 !.carried = IF run.pc # "moving" /\ Task.op = "add"
                             THEN Drop(bridge.viewers, Task.conn) ELSE bridge.viewers]
    /\ bridge' = None
    /\ queue' = Orphaned
    /\ UNCHANGED <<sess, active, conns, shown, commands, switches>>

Failed ==
    /\ run.pc = "failing"
    /\ Hidden(CurrentOf(run.carried) \cup
               {c \in Conns : Task.op = "add" /\ c = Task.conn /\ Current(c, Task.entry)})
    /\ Finish(FALSE, Tail(queue), Without(CurrentOf(run.carried)))
    /\ UNCHANGED <<sess, active, bridge, bounds>>

\* The grace period of an unwatched bridge ends.
Grace ==
    /\ bridge # None /\ bridge.timer
    /\ bridge' = [bridge EXCEPT !.timer = FALSE]
    /\ queue' = Append(queue, [op |-> "stop"])
    /\ UNCHANGED <<sess, active, conns, run, shown, bounds>>

----------------------------------------------------------------------------
Work ==
    \/ Begin \/ Torn \/ Opened \/ OpenFails \/ Ensured
    \/ Stopped \/ Started \/ Moved \/ Fails \/ Failed

Next ==
    \/ Work \/ Grace \/ Frame \/ Captured \/ CaptureFails
    \/ Input \/ Drain \/ CloseSession \/ SwitchTab
    \/ \E c \in Conns : Arrive(c) \/ Dispatch(c) \/ Close(c)

Spec == Init /\ [][Next]_vars

\* CDP calls are answered or fail, a capture ends within three seconds, timers fire, and the
\* database answers the touch before a command.
Fairness ==
    /\ WF_vars(Work) /\ WF_vars(Grace) /\ WF_vars(Captured \/ CaptureFails)
    /\ WF_vars(CloseSession)
    /\ \A c \in Conns : WF_vars(Dispatch(c))

FairSpec == Spec /\ Fairness

----------------------------------------------------------------------------
TypeOK ==
    /\ sess \in {"live", "draining", "closed"} /\ active \in Tabs \cup {None}
    /\ open \in [Conns -> BOOLEAN] /\ busy \in [Conns -> BOOLEAN]
    /\ sub \in [Conns -> [st : {"none", "starting", "on"}, ordinal : Nat]]
    /\ \A c \in Conns : chain[c] \in Seq(Commands) /\ (busy[c] => chain[c] # <<>>)
    /\ run.pc \in {"idle", "torn", "opening", "ensured", "stopping", "starting", "moving", "failing"}
    /\ run.pc # "idle" => queue # <<>>
    /\ run.pc \in {"torn", "opening", "failing"} => bridge = None
    /\ run.pc \in {"ensured", "stopping", "starting", "moving"} => bridge # None
    /\ bridge # None =>
         /\ Viewers \subseteq Conns /\ bridge.viewers \in [Viewers -> Entries]
         /\ bridge \in Bridges({bridge.viewers})
         /\ run.carried = <<>>
         \* The largest size of nobody is never asked for.
         /\ run.pc \in {"stopping", "starting", "moving"} => Viewers # {}
         \* Chromium refuses a second Page.startScreencast while one is active.
         /\ run.pc \in {"starting", "moving"} => ~bridge.cast
         /\ run.pc \notin {"stopping", "starting", "moving"} => bridge.cast = bridge.casting
    /\ shown \in [Conns -> Tabs \cup {None}]

\* Who watches, or will when the running task is done with the bridge.
Watching == IF bridge = None THEN run.carried ELSE bridge.viewers

\* A connection with an announced screencast is a viewer of the bridge or is carried by the task
\* that replaces or fails it, and a viewer without a subscription has its removal in the queue.
Audience ==
    \A c \in Conns :
      LET watches == c \in DOMAIN Watching
          leaving == \E i \in DOMAIN queue : queue[i].op = "remove" /\ queue[i].conn = c
      IN /\ sub[c].st = "on" => watches /\ Current(c, Watching[c])
         /\ watches => Current(c, Watching[c]) \/ leaving

\* Once no connection has a subscription, the screencast stops and its CDP session is given up,
\* unless somebody subscribes again.
Unwatched == \A c \in Conns : sub[c].st = "none"
UnwatchedStops == Unwatched ~> (bridge = None \/ ~Unwatched)

\* Once commands, tabs and connections come to rest, what every subscriber of a live session was
\* shown last is the active tab, unless the capture that had to show it failed.
ShowsActiveTab ==
    <>[](\A c \in Conns : sub[c].st = "on" /\ sess = "live" /\ active # None =>
            shown[c] = active \/ (bridge # None /\ bridge.blind))
=============================================================================
