---------------------------- MODULE ReportScheduler ----------------------------
(***************************************************************************)
(* The report clock: ReportScheduler, the schedules it reads (channels and *)
(* the in-app settings) and the cursors, reports and alerts it keeps in    *)
(* the database, over process restarts and failing database calls.         *)
(*                                                                         *)
(* One pass runs at a time.  It reads the clock once, decides the anomaly  *)
(* watches, then what every schedule owes.  A decision reads its cursor,   *)
(* writes one transaction and then the cache; the pass is the only writer  *)
(* of cursors and of what they name, so a decision is one step, that       *)
(* commits or writes nothing.  Edits, the clock and the end of the process *)
(* fall between the steps.  stop() does not wait for the pass: it is the   *)
(* end of the process at any step.                                         *)
(*                                                                         *)
(* Occurrences of a digest rule are the instants congruent to its phase;   *)
(* time zones, weekdays, the contents of reports, their delivery rows and  *)
(* the reports an operator asks for are not part of this module, nor is    *)
(* the removal of a channel.                                               *)
(***************************************************************************)
EXTENDS Naturals, SequencesExt, FiniteSetsExt

CONSTANTS
    Channels,     \* notification channels
    InApp,        \* IN_APP_SCHEDULE
    Specs,        \* digest rules with their zone (scheduleKey): phases of the period
    Keys,         \* anomaly rules by their thresholds (watchKey): the checks that are switched on
    Rules,        \* the digest and anomaly rules a schedule may have
    None,         \* no rule, no cursor, no alert, nothing gathered
    Failed,       \* the facts of a pass could not be gathered
    Quiet,        \* the instants that fall in the quiet hours of the channels
    Period,       \* periodMs
    Hour,         \* the anomaly slot
    MaxTime,      \* bound: the clock
    MaxEdits,     \* bound: edits of channels and settings
    MaxFaults     \* bound: database calls that fail, and ends of the process

Off == [digest |-> None, anomaly |-> None]
Schedules == Channels \cup {InApp}
Checks == UNION Keys
DigestCursors == [spec : Specs, last : Nat, until : Nat \cup {None}]
AnomalyCursors == [last : Nat, active : SUBSET Checks, alert : Nat \cup {None}]

ASSUME ReportAssumption ==
    /\ {Period, Hour} \subseteq Nat \ {0} /\ Specs \subseteq 0..Period-1
    /\ Off \in Rules /\ Rules \subseteq [digest : Specs \cup {None}, anomaly : Keys \cup {None}]
    /\ {MaxTime, MaxEdits, MaxFaults} \subseteq Nat /\ Period <= MaxTime
    /\ IsFiniteSet(Channels) /\ IsFiniteSet(Keys) /\ Channels \cap Keys = {}
    /\ InApp \notin Channels /\ {} \notin Keys /\ None \notin Keys \cup Nat
    /\ None \notin DigestCursors \cup AnomalyCursors

VARIABLES
    now,      \* the clock
    up,       \* the process runs and the scheduler was started
    rules,    \* the digest and anomaly rule of each schedule, as the process knows them
    saved,    \* the in-app settings, as stored
    digest,   \* stored: the digest cursor of each schedule, or None
    anomaly,  \* stored: the anomaly cursor of each channel, or None
    watches,  \* stored: the watch of each key, or None
    dcache, acache, wcache,  \* what the process knows of the three; wcache None: not read yet
    pass,     \* the pass: its time, wanted watches, facts and the decisions it has left
    trail,    \* the arming of each schedule's digest and the reports written for it, in order
    copies,   \* the threads of the in-app copies
    alerts,   \* the anomaly alerts: whose, their state, and the watch's alert one names
    edits, faults  \* bounded counters

stored == <<digest, anomaly, watches>>
cached == <<dcache, acache, wcache>>
written == <<trail, copies, alerts>>
bounds == <<edits, faults>>
vars == <<now, up, rules, saved, stored, cached, pass, written, bounds>>

NoPass == [pc |-> "idle", now |-> 0, wanted |-> {}, facts |-> None, todo |-> <<>>]
Nothing(S) == [x \in S |-> None]
Fault == faults < MaxFaults /\ faults' = faults + 1
Slot(t) == (t \div Hour) * Hour
Watching == IF wcache = None THEN watches ELSE wcache

Init ==
    /\ now = Period /\ up = TRUE
    /\ rules \in [Schedules -> Rules] /\ saved = rules[InApp]
    /\ digest = Nothing(Schedules) /\ anomaly = Nothing(Channels) /\ watches = Nothing(Keys)
    /\ dcache = Nothing(Schedules) /\ acache = Nothing(Channels) /\ wcache = watches
    /\ pass = NoPass
    /\ trail = [s \in Schedules |-> <<>>] /\ copies = <<>> /\ alerts = <<>>
    /\ edits = 0 /\ faults = 0

----------------------------------------------------------------------------
\* The process and its schedules.

\* The settings and the cursors are loaded and the scheduler starts; if loading fails it starts
\* with the in-app reports off and what was not read unknown.
Start ==
    /\ ~up /\ up' = TRUE
    /\ \/ /\ rules' = [rules EXCEPT ![InApp] = saved]
          /\ dcache' = [s \in Schedules |-> IF rules'[s] = Off THEN None ELSE digest[s]]
          /\ acache' = [c \in Channels |-> IF rules'[c] = Off THEN None ELSE anomaly[c]]
          /\ wcache' = watches
       \/ rules' \in {[rules EXCEPT ![InApp] = r] : r \in {Off, saved}} /\ UNCHANGED cached
    /\ UNCHANGED <<now, saved, stored, pass, written, bounds>>

\* The process ends, in the middle of a pass or not.
End ==
    /\ up /\ Fault
    /\ up' = FALSE /\ pass' = NoPass
    /\ dcache' = Nothing(Schedules) /\ acache' = Nothing(Channels) /\ wcache' = None
    /\ UNCHANGED <<now, rules, saved, stored, written, edits>>

\* The clock is read once, when a pass begins, and may as well advance between passes.
Advance ==
    /\ pass.pc = "idle" /\ now < MaxTime /\ now' = now + 1
    /\ UNCHANGED <<up, rules, saved, stored, cached, pass, written, bounds>>

\* A channel is edited and the registry reloaded, or the in-app settings are saved; those the
\* process failed to load are still in the table until then.
Edit(s) ==
    /\ up /\ edits < MaxEdits /\ edits' = edits + 1
    /\ \E r \in Rules :
         /\ r # rules[s] \/ (s = InApp /\ r # saved)
         /\ rules' = [rules EXCEPT ![s] = r]
         /\ saved' = IF s = InApp THEN r ELSE saved
    /\ UNCHANGED <<now, up, stored, cached, pass, written, faults>>

----------------------------------------------------------------------------
\* A pass.

WantedWatches == {rules[s].anomaly : s \in Schedules} \ {None}

\* wanted(): a schedule, or a watch left to close; the timer runs while it holds.
Wanted == (\E s \in Schedules : rules[s] # Off) \/ wcache \notin {None, Nothing(Keys)}

Tick ==
    /\ up /\ pass.pc = "idle" /\ Wanted
    /\ pass' = [NoPass EXCEPT !.pc = "watch", !.now = now, !.wanted = WantedWatches]
    /\ UNCHANGED <<now, up, rules, saved, stored, cached, written, bounds>>

\* What the schedules ask of the rest of the pass: channels first, their digest before their check.
Decisions(s) ==
    (IF rules[s].digest = None THEN <<>>
     ELSE <<[kind |-> "digest", of |-> s, rule |-> rules[s].digest]>>)
    \o (IF rules[s].anomaly = None \/ s = InApp THEN <<>>
        ELSE <<[kind |-> "anomaly", of |-> s, rule |-> rules[s].anomaly]>>)
AllDecisions == FlattenSeq([i \in 1..Cardinality(Schedules) |->
                              Decisions(Append(SetToSeq(Channels), InApp)[i])])

\* What is left of the pass; the facts are kept while a check is.
Todo(todo) ==
    pass' = IF todo = <<>> THEN NoPass
            ELSE [pass EXCEPT !.pc = "decide", !.todo = todo, !.wanted = {},
                    !.facts = IF \E i \in DOMAIN todo : todo[i].kind = "anomaly" THEN @ ELSE None]

\* A check is due once an hour.
Due(cursor) == ~(cursor # None /\ cursor.last >= Slot(pass.now))
DueWatches == {k \in pass.wanted : Due(Watching[k])}

Cursor(cache, store, x) == IF cache[x] = None THEN store[x] ELSE cache[x]
Task == Head(pass.todo)

\* The next decision evaluates the facts of the trailing hour.
NeedsFacts ==
    \/ pass.pc = "watch" /\ DueWatches # {}
    \/ pass.pc = "decide" /\ Task.kind = "anomaly" /\ pass.now \notin Quiet
       /\ Due(Cursor(acache, anomaly, Task.of))
Ready == NeedsFacts => pass.facts # None
Broken == NeedsFacts /\ pass.facts = Failed

\* The facts are gathered once for all decisions of a pass: each check is below its clear level,
\* between that and its threshold, or above.
Gather ==
    /\ NeedsFacts /\ pass.facts = None
    /\ \/ /\ \E f \in [Checks -> {"low", "between", "high"}] : pass' = [pass EXCEPT !.facts = f]
          /\ UNCHANGED faults
       \/ Fault /\ pass' = [pass EXCEPT !.facts = Failed]
    /\ UNCHANGED <<now, up, rules, saved, stored, cached, written, edits>>

----------------------------------------------------------------------------
\* Anomaly checks.

Evaluate(key, before) ==
    {c \in key : pass.facts[c] = "high" \/ (pass.facts[c] = "between" /\ c \in before)}

Ended(list, i, state) == IF i = None THEN list ELSE [list EXCEPT ![i].state = state]

\* Mutant of Step: a new alert leaves the open one as it is.
MutantStepKeepsOpen(list, owner, cursor, key, link) ==
    LET before == IF cursor = None THEN {} ELSE cursor.active
        open == IF cursor = None THEN None ELSE cursor.alert
        active == Evaluate(key, before)
        cursorWith(alert) == [last |-> pass.now, active |-> active, alert |-> alert]
    IN IF active \ before # {}
       THEN [alerts |-> Append(list, [owner |-> owner, state |-> "open", link |-> link]),
             next |-> cursorWith(Len(list) + 1)]
       ELSE IF active = {}
       THEN [alerts |-> Ended(list, open, "resolved"), next |-> cursorWith(None)]
       ELSE [alerts |-> list, next |-> cursorWith(open)]

\* anomalyStep(): the alerts and the cursor after a check of owner.
Step(list, owner, cursor, key, link) ==
    LET before == IF cursor = None THEN {} ELSE cursor.active
        open == IF cursor = None THEN None ELSE cursor.alert
        active == Evaluate(key, before)
        cursorWith(alert) == [last |-> pass.now, active |-> active, alert |-> alert]
    IN IF active \ before # {}
       THEN [alerts |-> Append(Ended(list, open, "final"),
                               [owner |-> owner, state |-> "open", link |-> link]),
             next |-> cursorWith(Len(list) + 1)]
       ELSE IF active = {}
       THEN [alerts |-> Ended(list, open, "resolved"), next |-> cursorWith(None)]
       ELSE [alerts |-> list, next |-> cursorWith(open)]

\* The watches nobody wants go, and their open alerts with them.
AfterDrops ==
    LET dropped == {k \in Keys \ pass.wanted : Watching[k] # None}
    IN [alerts |-> FoldSet(LAMBDA k, list : Ended(list, Watching[k].alert, "final"), alerts, dropped),
        watches |-> [k \in Keys |-> IF k \in dropped THEN None ELSE Watching[k]]]

CheckWatch(k, state) ==
    LET step == Step(state.alerts, k, state.watches[k], k, None)
    IN [alerts |-> step.alerts, watches |-> [state.watches EXCEPT ![k] = step.next]]

WatchTick ==
    /\ pass.pc = "watch" /\ Ready
    /\ \/ /\ ~Broken
          /\ LET after == FoldSet(CheckWatch, AfterDrops, DueWatches)
             IN alerts' = after.alerts /\ watches' = after.watches /\ wcache' = after.watches
          /\ UNCHANGED faults
       \/ Broken /\ wcache' = Watching /\ UNCHANGED <<alerts, watches, faults>>
       \/ Fault /\ wcache' \in {wcache, Watching} /\ UNCHANGED <<alerts, watches>>
    /\ Todo(AllDecisions)
    /\ UNCHANGED <<now, up, rules, saved, digest, anomaly, dcache, acache, trail, copies, edits>>

\* A channel's check: when due, out of its quiet hours.
AnomalyTick ==
    /\ pass.pc = "decide" /\ Task.kind = "anomaly" /\ Ready
    /\ LET c == Task.of
           cursor == Cursor(acache, anomaly, c)
           link == IF Watching[Task.rule] = None THEN None ELSE Watching[Task.rule].alert
           step == Step(alerts, c, cursor, Task.rule, link)
           skips == ~NeedsFacts \/ Broken
       IN \/ /\ ~skips
             /\ alerts' = step.alerts
             /\ anomaly' = [anomaly EXCEPT ![c] = step.next]
             /\ acache' = [acache EXCEPT ![c] = step.next]
             /\ UNCHANGED faults
          \/ /\ skips /\ acache' = [acache EXCEPT ![c] = cursor]
             /\ UNCHANGED <<alerts, anomaly, faults>>
          \/ Fault /\ acache' = [acache EXCEPT ![c] = cursor] /\ UNCHANGED <<alerts, anomaly>>
    /\ Todo(Tail(pass.todo))
    /\ UNCHANGED <<now, up, rules, saved, digest, watches, dcache, wcache, trail, copies, edits>>

----------------------------------------------------------------------------
\* Digests.

\* occurrencesBetween(), for spans of up to 400 days: a longer one is scanned from 400 days before
\* its end only, and the occurrences before that are counted by dividing, not enumerated.
Occurrences(spec, from, to) == {t \in from+1..to : t % Period = spec}

\* Mutant of Window: the end of the last window is not looked at.
MutantWindowWhole(at, lastUntil) == [since |-> at - Period, until |-> at]

\* digestWindow(): from the previous occurrence, or the end of the last window if that is later.
Window(at, lastUntil) ==
    [since |-> IF lastUntil # None /\ lastUntil > at - Period /\ lastUntil < at
               THEN lastUntil ELSE at - Period,
     until |-> at]

\* Mutant of Arm: the cursor is cached and not stored.
MutantArmInMemory(s, spec, cursor) ==
    LET armed == [spec |-> spec, last |-> pass.now,
                  until |-> IF cursor = None THEN None ELSE cursor.until]
    IN /\ UNCHANGED digest /\ dcache' = [dcache EXCEPT ![s] = armed]
       /\ trail' = [trail EXCEPT ![s] = Append(@, [kind |-> "armed", spec |-> spec, at |-> pass.now])]
       /\ UNCHANGED copies

\* A rule seen for the first time arms from now and produces nothing.
Arm(s, spec, cursor) ==
    LET armed == [spec |-> spec, last |-> pass.now,
                  until |-> IF cursor = None THEN None ELSE cursor.until]
    IN /\ digest' = [digest EXCEPT ![s] = armed] /\ dcache' = [dcache EXCEPT ![s] = armed]
       /\ trail' = [trail EXCEPT ![s] = Append(@, [kind |-> "armed", spec |-> spec, at |-> pass.now])]
       /\ UNCHANGED copies

\* digestPeriodThread()
Thread(spec, window) == [spec |-> spec, window |-> window]

\* The in-app copy of a period is written by the first schedule that reports it.
LinkInApp(thread) == copies' = IF Contains(copies, thread) THEN copies ELSE Append(copies, thread)

\* The newest occurrence is produced and the older ones are skipped.
Produce(s, spec, cursor, due) ==
    LET at == Max(due)
        window == Window(at, cursor.until)
        next == [spec |-> spec, last |-> at, until |-> at]
    IN \E empty \in BOOLEAN :
         /\ digest' = [digest EXCEPT ![s] = next] /\ dcache' = [dcache EXCEPT ![s] = next]
         /\ trail' = [trail EXCEPT ![s] = Append(@,
                 [kind |-> "report", spec |-> spec, at |-> at, window |-> window,
                  skipped |-> Cardinality(due) - 1, empty |-> empty])]
         /\ IF empty THEN UNCHANGED copies ELSE LinkInApp(Thread(spec, window))

DigestTick ==
    /\ pass.pc = "decide" /\ Task.kind = "digest"
    /\ LET s == Task.of
           cursor == Cursor(dcache, digest, s)
           due == Occurrences(Task.rule, cursor.last, pass.now)
           known == cursor # None /\ cursor.spec = Task.rule
       IN \/ /\ ~known /\ Arm(s, Task.rule, cursor) /\ UNCHANGED faults
          \/ /\ known /\ due = {}
             /\ dcache' = [dcache EXCEPT ![s] = cursor] /\ UNCHANGED <<digest, trail, copies, faults>>
          \/ /\ known /\ due # {} /\ Produce(s, Task.rule, cursor, due) /\ UNCHANGED faults
          \/ Fault /\ dcache' = [dcache EXCEPT ![s] = cursor] /\ UNCHANGED <<digest, trail, copies>>
    /\ Todo(Tail(pass.todo))
    /\ UNCHANGED <<now, up, rules, saved, anomaly, watches, acache, wcache, alerts, edits>>

----------------------------------------------------------------------------
Next ==
    \/ Start \/ End \/ Advance \/ Tick \/ Gather \/ WatchTick \/ AnomalyTick \/ DigestTick
    \/ \E s \in Schedules : Edit(s)

Spec == Init /\ [][Next]_vars

----------------------------------------------------------------------------
\* What the process caches is what is stored, whatever failed before: a decision that was not
\* committed is made again and one that was is not.
TypeOK ==
    /\ now \in Nat /\ Period <= now /\ now <= MaxTime /\ up \in BOOLEAN
    /\ rules \in [Schedules -> Rules] /\ saved \in Rules
    /\ \A s \in Schedules : digest[s] \in DigestCursors \cup {None} /\ dcache[s] \in {None, digest[s]}
    /\ \A c \in Channels : anomaly[c] \in AnomalyCursors \cup {None} /\ acache[c] \in {None, anomaly[c]}
    /\ \A k \in Keys : watches[k] \in AnomalyCursors \cup {None}
    /\ wcache \in {None, watches}
    /\ pass.pc \in {"idle", "watch", "decide"} /\ (pass.pc = "decide" => pass.todo # <<>>)

\* The places of the reports of s in its trail.
Reports(s) == {i \in DOMAIN trail[s] : trail[s][i].kind = "report"}

\* Every occurrence of a rule since it was armed was reported once or is counted as skipped by the
\* next report, up to the cursor; the windows of a schedule never overlap and leave no gap where
\* nothing was skipped; and a period has one in-app copy, written with its first report.
OccurrencesAccounted ==
    /\ \A s \in Schedules :
         /\ digest[s] # None <=> trail[s] # <<>>
         /\ digest[s] # None =>
                digest[s].spec = Last(trail[s]).spec /\ digest[s].last = Last(trail[s]).at
         /\ \A i \in Reports(s) :
              LET r == trail[s][i]
                  before == trail[s][i-1]
                  handled == {t \in before.at+1..r.at : t % Period = r.spec}
              IN /\ before.spec = r.spec
                 /\ r.at \in handled /\ Cardinality(handled) = 1 + r.skipped
                 /\ r.window.since < r.window.until
                 /\ i-1 \in Reports(s) /\ r.skipped = 0 => r.window.since = before.window.until
                 /\ \A j \in Reports(s) : j < i => trail[s][j].window.until <= r.window.since
    /\ \A i, j \in DOMAIN copies : copies[i] = copies[j] => i = j
    /\ \A s \in Schedules : \A i \in Reports(s) :
         ~trail[s][i].empty => Contains(copies, Thread(trail[s][i].spec, trail[s][i].window))

\* The open alert of a channel or of a watch is the one its cursor names, and there is one exactly
\* while a check is active; an alert of a channel names an alert of a watch, or none.
AlertsAreNamed ==
    LET Open(owner) == {i \in DOMAIN alerts : alerts[i].owner = owner /\ alerts[i].state = "open"}
        Named(owner, cursor) ==
            IF cursor = None THEN Open(owner) = {}
            ELSE Open(owner) = {cursor.alert} \ {None} /\ (cursor.alert = None <=> cursor.active = {})
    IN /\ \A c \in Channels : Named(c, anomaly[c])
       /\ \A k \in Keys : Named(k, watches[k])
       /\ \A i \in DOMAIN alerts : alerts[i].link # None => alerts[alerts[i].link].owner \in Keys
=============================================================================
