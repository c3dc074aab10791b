--------------------------- MODULE TaskScheduler ---------------------------
(***************************************************************************)
(* The scheduled tasks of the daemon (crates/arbor-httpd,                  *)
(* task_scheduler.rs and the task routes): the table of tasks behind its   *)
(* lock, the loop that starts those that are due, the requests that start  *)
(* one by hand, the executions, and the feed that tells the clients.       *)
(*                                                                         *)
(* Whoever holds the lock makes one step.  An event is sent while the lock *)
(* is held, and a client that subscribes gets its snapshot under the same  *)
(* lock.  The channel keeps a limited number of events for each client.    *)
(***************************************************************************)
EXTENDS Naturals, Sequences, FiniteSets, FiniteSetsExt, SequencesExt

CONSTANTS
    Tasks,       \* names of tasks
    Enabled,     \* those that are enabled in arbor.toml
    Due,         \* Due[t]: the times at which the schedule of t is due
    Clients,     \* WebSocket clients of the feed
    Capacity,    \* events the channel keeps for a client, 64 in the code
    MaxHistory,  \* executions kept per task, 50 in the code
    MaxTime,     \* bound: the clock
    MaxManual    \* bound: tasks started by hand

ASSUME SchedulerAssumption ==
    /\ IsFiniteSet(Tasks) /\ Enabled \subseteq Tasks
    /\ {Capacity, MaxHistory, MaxTime, MaxManual} \subseteq Nat
    /\ MaxHistory > 0 /\ Capacity > 0
    /\ Due \in [Tasks -> SUBSET (1..MaxTime)]

VARIABLES
    tasks,    \* the table
    runs,     \* runs[t]: commands of t that run, and that ended unrecorded
    feed,     \* feed[c]: the client's view, the events sent to it, lagging
    now,      \* the clock
    manual,   \* how many tasks were started by hand
    starts    \* starts[t][d]: how often the loop started t for its due time d

vars == <<tasks, runs, feed, now, manual, starts>>

-----------------------------------------------------------------------------
(* Data *)

Status == {"idle", "running", "disabled"}

Times == 0..MaxTime

\* What a TaskInfo tells of a task; a task that has never run ran at time 0.
Info == [status : Status, lastRun : Times, runCount : Nat]

\* kept: how many executions its history holds.
Task == [info : Info, kept : 0..MaxHistory]

\* What the feed carries.
Event == [task : Tasks, info : Info, kind : {"update", "execution"}]

Feed == [open : BOOLEAN, view : [Tasks -> Info] \cup {<<>>}, queue : Seq(Event),
         lagged : BOOLEAN]

Rest(t) == IF t \in Enabled THEN "idle" ELSE "disabled"

InfoOf == [t \in Tasks |-> tasks[t].info]

Unsubscribed == [open |-> FALSE, view |-> <<>>, queue |-> <<>>, lagged |-> FALSE]

UpdateEvent(t, info) == [task |-> t, info |-> info, kind |-> "update"]
ExecutionEvent(t, info) == [task |-> t, info |-> info, kind |-> "execution"]

\* What a client makes of an event: an execution does not change its tasks.
Seen(view, event) ==
    IF event.kind = "update" THEN [view EXCEPT ![event.task] = event.info] ELSE view

\* Sends events to every client; a client too slow loses the oldest and is told.
Sent(events) ==
    [c \in Clients |->
        LET queue == feed[c].queue \o events
        IN  IF ~feed[c].open \/ feed[c].lagged THEN feed[c]
            ELSE IF Len(queue) > Capacity
            THEN [feed[c] EXCEPT !.lagged = TRUE, !.queue = <<>>]
            ELSE [feed[c] EXCEPT !.queue = queue]]

-----------------------------------------------------------------------------
(* Starting a task *)

MissedOrJustRun(t) == {d \in Due[t] : tasks[t].info.lastRun <= d /\ d <= now}

\* The due times since the last run; without one the latest is not after it.
Missed(t) == {d \in Due[t] : tasks[t].info.lastRun < d /\ d <= now}

IsDue(t) == tasks[t].info.status = "idle" /\ Missed(t) # {}

Started(S) ==
    [t \in Tasks |-> IF t \in S THEN [tasks[t] EXCEPT !.info.status = "running"] ELSE tasks[t]]

\* Marks the tasks of S running, starts their commands and tells the clients.
Start(S) ==
    /\ tasks' = Started(S)
    /\ runs' = [t \in Tasks |->
                    IF t \in S THEN [runs[t] EXCEPT !.running = @ + 1] ELSE runs[t]]
    /\ \E order \in SetToSeqs(S) :
          feed' = Sent([i \in DOMAIN order |->
                            UpdateEvent(order[i], Started(S)[order[i]].info)])

\* One tick of the loop: all tasks that are due.
CollectDueTasks ==
    LET S == {t \in Tasks : IsDue(t)}
    IN  /\ S # {} /\ Start(S)
        /\ starts' = [t \in Tasks |-> [d \in Times |->
                IF t \in S /\ d \in Missed(t) THEN starts[t][d] + 1 ELSE starts[t][d]]]
        /\ UNCHANGED <<now, manual>>

RunAlways(t) ==
    /\ manual < MaxManual /\ manual' = manual + 1
    /\ Start({t}) /\ UNCHANGED <<now, starts>>

\* run_task: also one that is disabled, but none that runs.
RunTask(t) ==
    /\ tasks[t].info.status # "running"
    /\ manual < MaxManual /\ manual' = manual + 1
    /\ Start({t}) /\ UNCHANGED <<now, starts>>

-----------------------------------------------------------------------------
(* An execution *)

CommandEnds(t) ==
    /\ runs[t].running > 0
    /\ runs' = [runs EXCEPT ![t] = [running |-> @.running - 1, ended |-> @.ended + 1]]
    /\ UNCHANGED <<tasks, feed, now, manual, starts>>

Completed(t) ==
    [info |-> [status |-> Rest(t), lastRun |-> now, runCount |-> tasks[t].info.runCount + 1],
     kept |-> Min({tasks[t].kept + 1, MaxHistory})]

RecordSendsExecution(t) ==
    /\ runs[t].ended > 0
    /\ runs' = [runs EXCEPT ![t].ended = @ - 1]
    /\ tasks' = [tasks EXCEPT ![t] = Completed(t)]
    /\ feed' = Sent(<<ExecutionEvent(t, Completed(t).info)>>)
    /\ UNCHANGED <<now, manual, starts>>

\* record_completion, after the agent of the trigger has been spawned.
RecordCompletion(t) ==
    /\ runs[t].ended > 0
    /\ runs' = [runs EXCEPT ![t].ended = @ - 1]
    /\ tasks' = [tasks EXCEPT ![t] = Completed(t)]
    /\ feed' = Sent(<<UpdateEvent(t, Completed(t).info), ExecutionEvent(t, Completed(t).info)>>)
    /\ UNCHANGED <<now, manual, starts>>

-----------------------------------------------------------------------------
(* Clients and the clock *)

Following(view, queue) == [open |-> TRUE, view |-> view, queue |-> queue, lagged |-> FALSE]

Fresh == Following(InfoOf, <<>>)

ToFeed(c, f) == feed' = [feed EXCEPT ![c] = f] /\ UNCHANGED <<tasks, runs, now, manual, starts>>

Subscribe(c) == ~feed[c].open /\ ToFeed(c, Fresh)

Receive(c) ==
    LET f == feed[c]
    IN  /\ f.queue # <<>>
        /\ ToFeed(c, Following(Seen(f.view, Head(f.queue)), Tail(f.queue)))

CarriesOn(c) == feed[c].lagged /\ ToFeed(c, [feed[c] EXCEPT !.lagged = FALSE])

\* A client that lags gets a snapshot and a new subscription.
Resync(c) == feed[c].lagged /\ ToFeed(c, Fresh)

Disconnect(c) == feed[c].open /\ ToFeed(c, Unsubscribed)

Tick == now < MaxTime /\ now' = now + 1 /\ UNCHANGED <<tasks, runs, feed, manual, starts>>

Init ==
    /\ tasks = [t \in Tasks |->
            [info |-> [status |-> Rest(t), lastRun |-> 0, runCount |-> 0], kept |-> 0]]
    /\ runs = [t \in Tasks |-> [running |-> 0, ended |-> 0]]
    /\ feed = [c \in Clients |-> Unsubscribed]
    /\ now = 0 /\ manual = 0
    /\ starts = [t \in Tasks |-> [d \in Times |-> 0]]

Next ==
    \/ CollectDueTasks
    \/ \E t \in Tasks : RunTask(t) \/ CommandEnds(t) \/ RecordCompletion(t)
    \/ \E c \in Clients : Subscribe(c) \/ Receive(c) \/ Resync(c) \/ Disconnect(c)
    \/ Tick

Spec == Init /\ [][Next]_vars

\* A client's handler runs on.
FairSpec == Spec /\ \A c \in Clients : WF_vars(Receive(c) \/ Resync(c))

-----------------------------------------------------------------------------
(* Properties *)

\* Everything has its type; the history and the channel keep what they may.
TypeOK ==
    /\ tasks \in [Tasks -> Task]
    /\ runs \in [Tasks -> [running : Nat, ended : Nat]]
    /\ feed \in [Clients -> Feed]
    /\ \A c \in Clients :
          /\ feed[c].open => feed[c].view \in [Tasks -> Info]
          /\ Len(feed[c].queue) <= Capacity
    /\ now \in Times /\ manual \in 0..MaxManual
    /\ starts \in [Tasks -> [Times -> Nat]]

\* A task is shown as running exactly while one execution of it is under way,
\* and never has two, whether the loop or a request starts it.
RunningIsOneExecution ==
    \A t \in Tasks : runs[t].running + runs[t].ended
                        = IF tasks[t].info.status = "running" THEN 1 ELSE 0

\* The loop starts a task at most once for each due time, also when the task was
\* started by hand, is slow or ends at the very time it is due.
OneRunPerDueTime == \A t \in Tasks, d \in Times : starts[t][d] <= 1

Updates(event, t) == event.kind = "update" /\ event.task = t

\* What a client will show of t once it has received all that was sent to it.
WillShow(f, t, info) ==
    \/ \E k \in DOMAIN f.queue :
          /\ Updates(f.queue[k], t) /\ f.queue[k].info = info
          /\ \A j \in DOMAIN f.queue : j > k => ~Updates(f.queue[j], t)
    \/ /\ \A k \in DOMAIN f.queue : ~Updates(f.queue[k], t)
       /\ f.view[t] = info

\* The events a client has not received yet lead from what it shows to what the
\* table holds, unless it is about to be told that it has lost some.
FeedLeadsToTable ==
    \A c \in Clients, t \in Tasks :
        feed[c].open /\ ~feed[c].lagged => WillShow(feed[c], t, tasks[t].info)

\* A client that was too slow for the channel comes to show what the table holds,
\* however busy the feed is when it resynchronizes.
LagIsRepaired == \A c \in Clients : feed[c].lagged ~> feed[c].view = InfoOf \/ ~feed[c].open
=============================================================================
