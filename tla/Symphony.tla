------------------------------ MODULE Symphony ------------------------------
(***************************************************************************)
(* The Symphony orchestrator of crates/arbor-symphony: one actor task that *)
(* polls an issue tracker, keeps at most a configured number of coding     *)
(* agents running, retries them with a backoff, and reconciles them with   *)
(* the state of their issues.  Beside the actor run one worker task per    *)
(* dispatched attempt, the task that forwards that worker's events, the    *)
(* tasks that remove workspaces, and the tracker, which changes whenever   *)
(* it likes.  An await of the actor on the tracker is a step boundary: the *)
(* answer is taken when the request is made and used in a later step.      *)
(***************************************************************************)
EXTENDS Naturals, Sequences, FiniteSets, Maps

CONSTANTS
    Issues,       \* ids of the issues of the tracker project
    States,       \* names of tracker states, compared without case
    Gone,         \* the issue was deleted or left the project
    Todo,         \* the state in which an issue can be blocked
    Configs,      \* the configurations WORKFLOW.md may hold over time
    Rank,         \* order of priority, creation and identifier; least first
    Blockers,     \* the issues that block an issue
    Gens,         \* numbers that tell the worker tasks of one issue apart
    MaxAttempt,   \* the attempt from which retry_delay_ms no longer grows
    MaxEvents,    \* bound: runner events of one issue under way to the actor
    MaxRemovals,  \* bound: pending removals of one workspace
    MaxCommands,  \* bound: commands waiting for the actor
    Poll,         \* polling interval, in steps of the clock
    Reopen        \* may an issue leave a terminal state?

Config == [active : SUBSET States, terminal : SUBSET States,
           slots : Nat \ {0}, limit : [States -> Nat], stalls : BOOLEAN]

ASSUME ConfigsAssumption == Configs \subseteq Config /\ Configs # {}

\* No configuration may have more than the most slots.
ASSUME SlotsAssumption == \E cfg \in Configs : \A c \in Configs : c.slots <= cfg.slots

ASSUME StatesAssumption == Gone \notin States /\ Todo \in States

ASSUME OrderAssumption ==
    /\ Rank \in [Issues -> Nat]
    /\ \A i, j \in Issues : Rank[i] = Rank[j] => i = j
    /\ Blockers \in [Issues -> SUBSET Issues]

ASSUME BoundsAssumption ==
    /\ MaxAttempt \in Nat \ {0} /\ Poll \in Nat \ {0}
    /\ MaxEvents \in Nat /\ MaxRemovals \in Nat /\ MaxCommands \in Nat
    /\ Reopen \in BOOLEAN
    /\ Gens \subseteq Nat

VARIABLES
    pc,         \* where the actor is: in its select loop, or waiting in a tick
    config,     \* Actor.config
    reply,      \* the tracker's answer to the request the actor waits for
    due,        \* process_due_retries: the ids still to be looked at
    tickError,  \* tick: tick_error is set
    lastError,  \* Actor.last_error is set
    running,    \* Actor.running: issue -> entry
    claimed,    \* Actor.claimed
    retries,    \* Actor.retry_attempts: issue -> entry
    events,     \* the channel of ServiceEvents
    commands,   \* the channel of ServiceCommands
    timer,      \* what is left of the sleep of the select loop
    snapshot,   \* the published RuntimeSnapshot
    worker,     \* the worker tasks: issue -> generation -> task
    dir,        \* does the workspace directory of an issue exist?
    removals,   \* spawned remove_workspace tasks that have not ended
    tracker     \* the tracker: issue -> state

tickVars  == <<reply, due, tickError>>
schedVars == <<running, claimed, retries>>
pubVars   == <<lastError, snapshot, timer>>
envVars   == <<dir, removals, tracker>>
vars      == <<pc, config, tickVars, schedVars, pubVars, events, commands,
               worker, envVars>>

-----------------------------------------------------------------------------
(* Data *)

Entry == [gen : Gens, state : States, idle : BOOLEAN, attempt : 0..MaxAttempt,
          cancel : {"none", "retry", "release"}]

Retry == [attempt : 1..MaxAttempt, due : BOOLEAN]

RunnerEvent    == [kind : {"runner"}, issue : Issues, gen : Gens]
WorkerFinished == [kind : {"finished"}, issue : Issues, gen : Gens,
                   completed : BOOLEAN]

\* A worker task: free (not spawned), starting (in ensure_workspace and
\* before_run), working (in run_attempt), ended.  buffer counts the events in
\* its own channel that the forwarder has not moved yet.
Worker == [phase : {"free", "starting", "working", "ended"},
           aborted : BOOLEAN, buffer : Nat]

Candidate == [state : States, blocked : BOOLEAN]

\* An answer of the tracker: the issues it returned, or an error.
IsAnswer(r) == /\ r.ok \in BOOLEAN
               /\ DOMAIN r.issues \subseteq Issues
               /\ r.issues \in [DOMAIN r.issues -> Candidate]

NoAnswer  == [ok |-> TRUE, issues |-> EmptyMap]
Refused   == [ok |-> FALSE, issues |-> EmptyMap]
Answer(S, cfg) ==
    [ok |-> TRUE,
     issues |-> [i \in S |->
                   [state   |-> tracker[i],
                    blocked |-> \E b \in Blockers[i] :
                                   tracker[b] \in States \ cfg.terminal]]]

\* attempt + 1; from MaxAttempt on all attempts behave alike.
NextAttempt(n) == IF n < MaxAttempt THEN n + 1 ELSE MaxAttempt

Live(i, g) == worker[i][g].phase \in {"starting", "working"}

\* A generation of i that nothing refers to any more.
Unused(i, g) ==
    /\ ~Live(i, g)
    /\ worker[i][g].buffer = 0
    /\ i \in DOMAIN running => running[i].gen # g
    /\ \A k \in 1..Len(events) : ~(events[k].issue = i /\ events[k].gen = g)

TypeOK ==
    /\ pc \in {"startup", "loop", "reconcile", "retries", "due", "fetch",
               "dispatch", "stopped"}
    /\ config \in Configs
    /\ IsAnswer(reply)
    /\ due \subseteq Issues
    /\ tickError \in BOOLEAN
    /\ lastError \in BOOLEAN
    /\ DOMAIN running \subseteq Issues
    /\ running \in [DOMAIN running -> Entry]
    /\ claimed \subseteq Issues
    /\ DOMAIN retries \subseteq Issues
    /\ retries \in [DOMAIN retries -> Retry]
    /\ events \in Seq(RunnerEvent \cup WorkerFinished)
    /\ commands \in Seq({"refresh", "stop"})
    /\ timer \in 0..Poll
    /\ snapshot \in [running : SUBSET Issues, retrying : SUBSET Issues,
                     status : {"running", "degraded", "stopped"}]
    /\ worker \in [Issues -> [Gens -> Worker]]
    /\ dir \in [Issues -> BOOLEAN]
    /\ removals \in [Issues -> 0..MaxRemovals]
    /\ tracker \in [Issues -> States \cup {Gone}]

Init ==
    /\ pc = "startup"
    /\ config \in Configs
    /\ reply = NoAnswer
    /\ due = {}
    /\ tickError = FALSE
    /\ lastError = FALSE
    /\ running = EmptyMap
    /\ claimed = {}
    /\ retries = EmptyMap
    /\ events = <<>>
    /\ commands = <<>>
    /\ timer = Poll
    /\ snapshot = [running |-> {}, retrying |-> {}, status |-> "running"]
    /\ worker = [i \in Issues |->
                   [g \in Gens |-> [phase |-> "free", aborted |-> FALSE, buffer |-> 0]]]
    /\ dir \in [Issues -> BOOLEAN]
    /\ removals = [i \in Issues |-> 0]
    /\ tracker \in [Issues -> States]

-----------------------------------------------------------------------------
(* What the handlers share *)

\* rebuild_snapshots: publish the state the step leaves.
Publish == snapshot' = [running  |-> DOMAIN running',
                        retrying |-> DOMAIN retries',
                        status   |-> IF lastError' THEN "degraded" ELSE "running"]

\* The next turn of the loop sleeps for the polling interval, or for less
\* when a retry is due earlier.
SleepAgain == timer' \in IF DOMAIN retries' = {} THEN {Poll} ELSE 1..Poll

\* A request to the tracker for the issues of S: it answers or it fails.
Ask(S, cfg) == reply' \in {Answer(S, cfg), Refused}

Candidates == {i \in Issues : tracker[i] \in config.active}

IsActive(s) == s \in config.active
IsTerminal(s) == s \in config.terminal

RemovesInactive(s) == s \notin config.active

\* reconcile_running: the states in which a run's workspace is removed.
EndsWorkspace(s) == IsTerminal(s)

AbortsNothing(S) == worker

\* AbortHandle::abort on the workers of the running issues in S.
Abort(S) ==
    [i \in Issues |->
       IF i \in S /\ Live(i, running[i].gen)
       THEN [worker[i] EXCEPT ![running[i].gen].aborted = TRUE]
       ELSE worker[i]]

HasAvailableSlots == Cardinality(DOMAIN running) < config.slots

RunningInState(s) == Cardinality({j \in DOMAIN running : running[j].state = s})

\* can_dispatch: c is the issue as the tracker returned it, taken the claims.
CanDispatch(i, c, taken) ==
    /\ IsActive(c.state) /\ ~IsTerminal(c.state)
    /\ i \notin DOMAIN running
    /\ i \notin taken
    /\ RunningInState(c.state) < config.limit[c.state]
    /\ ~(c.state = Todo /\ c.blocked)
    /\ HasAvailableSlots

\* dispatch_issue: claim the issue, spawn its worker, record it as running.
Dispatch(i, c, attempt) ==
    \E g \in Gens :
      /\ Unused(i, g)
      /\ \A h \in Gens : Unused(i, h) => g <= h
      /\ claimed' = claimed \cup {i}
      /\ retries' = Drop(retries, i)
      /\ worker' = [worker EXCEPT ![i][g] =
                      [phase |-> "starting", aborted |-> FALSE, buffer |-> 0]]
      /\ running' = Put(running, i,
                      [gen |-> g, state |-> c.state, idle |-> FALSE,
                       attempt |-> attempt, cancel |-> "none"])

\* schedule_retry
ScheduleRetry(i, attempt) ==
    /\ claimed' = claimed \cup {i}
    /\ retries' = Put(retries, i, [attempt |-> attempt, due |-> FALSE])

-----------------------------------------------------------------------------
(* The actor *)

\* startup_cleanup: remove the workspaces of terminal issues, if the tracker
\* tells which they are; then publish and enter the loop.
StartupCleanup ==
    /\ pc = "startup"
    /\ pc' = "loop"
    /\ dir' \in {dir, [i \in Issues |-> dir[i] /\ ~IsTerminal(tracker[i])]}
    /\ UNCHANGED <<config, tickVars, schedVars, lastError, events, commands,
                   worker, removals, tracker>>
    /\ Publish
    /\ SleepAgain

\* The head of tick, up to the first request: reload the workflow (a failed
\* reload keeps the configuration), then cancel the stalled runs.
BeginTick ==
    /\ \E cfg \in Configs, failed \in BOOLEAN :
         /\ failed => cfg = config
         /\ config' = cfg
         /\ tickError' = failed
         /\ LET stalled == {i \in DOMAIN running : cfg.stalls /\ running[i].idle}
            IN /\ running' = [i \in DOMAIN running |->
                                IF i \in stalled
                                THEN [running[i] EXCEPT !.cancel = "retry"]
                                ELSE running[i]]
               /\ worker' = Abort(stalled)
         /\ IF DOMAIN running = {}
            THEN pc' = "retries" /\ reply' = NoAnswer
            ELSE /\ pc' = "reconcile"
                 /\ Ask({i \in DOMAIN running : tracker[i] # Gone}, cfg)
    /\ UNCHANGED <<due, claimed, retries, lastError, snapshot, events, envVars>>

\* run: the sleep is over.
WakeUp ==
    /\ pc = "loop"
    /\ timer = 0
    /\ BeginTick
    /\ UNCHANGED <<commands, timer>>

\* run: ServiceCommand::Refresh.
ReceiveRefresh ==
    /\ pc = "loop"
    /\ commands # <<>>
    /\ Head(commands) = "refresh"
    /\ commands' = Tail(commands)
    /\ BeginTick
    /\ UNCHANGED timer

\* run: ServiceCommand::Stop, stop_all_running and the final snapshot.  The
\* actor is gone, and its channels with it.
ReceiveStop ==
    /\ pc = "loop"
    /\ commands # <<>>
    /\ Head(commands) = "stop"
    /\ pc' = "stopped"
    /\ commands' = <<>>
    /\ events' = <<>>
    /\ worker' = Abort(DOMAIN running)
    /\ running' = EmptyMap
    /\ retries' = EmptyMap
    /\ claimed' = {}
    /\ lastError' = FALSE
    /\ snapshot' = [running |-> {}, retrying |-> {}, status |-> "stopped"]
    /\ UNCHANGED <<config, tickVars, timer, envVars>>

\* reconcile_running, from the tracker's answer on: release what is terminal
\* (and remove its workspace) or no longer active, note the state of the rest.
Reconcile ==
    /\ pc = "reconcile"
    /\ pc' = "retries"
    /\ reply' = NoAnswer
    /\ tickError' = (tickError \/ ~reply.ok)
    /\ LET known    == DOMAIN reply.issues \cap DOMAIN running
           released == {i \in known : \/ IsTerminal(reply.issues[i].state)
                                      \/ ~IsActive(reply.issues[i].state)}
           removed  == {i \in known : EndsWorkspace(reply.issues[i].state)}
       IN /\ \A i \in removed : removals[i] < MaxRemovals
          /\ running' = [i \in DOMAIN running |->
                CASE i \in released         -> [running[i] EXCEPT !.cancel = "release"]
                  [] i \in known \ released -> [running[i] EXCEPT !.state = reply.issues[i].state]
                  [] OTHER                  -> running[i]]
          /\ worker' = Abort(released)
          /\ removals' = [i \in Issues |->
                            IF i \in removed THEN removals[i] + 1 ELSE removals[i]]
    /\ UNCHANGED <<config, due, claimed, retries, pubVars, events, commands,
                   dir, tracker>>

\* process_due_retries, up to its request.
CollectDueRetries ==
    /\ pc = "retries"
    /\ due' = {i \in DOMAIN retries : retries[i].due}
    /\ IF due' = {} THEN pc' = "fetch" /\ UNCHANGED reply
                     ELSE pc' = "due" /\ Ask(Candidates, config)
    /\ UNCHANGED <<config, tickError, schedVars, pubVars, events, commands,
                   worker, envVars>>

\* process_due_retries: the tracker refused, every due retry stays due.
DueRetriesRefused ==
    /\ pc = "due"
    /\ ~reply.ok
    /\ pc' = "fetch"
    /\ due' = {}
    /\ tickError' = TRUE
    /\ UNCHANGED <<config, reply, schedVars, pubVars, events, commands, worker,
                   envVars>>

\* One round of process_due_retries: the retry of i is taken out, then dropped
\* (i is no candidate any more), dispatched, or scheduled again.
ProcessDueRetry(i) ==
    /\ pc = "due"
    /\ reply.ok
    /\ i \in due
    /\ due' = due \ {i}
    /\ pc' = IF due' = {} THEN "fetch" ELSE "due"
    /\ UNCHANGED <<config, reply, tickError, pubVars, events, commands, envVars>>

DropKeepsClaim(i) ==
    /\ ProcessDueRetry(i)
    /\ i \notin DOMAIN reply.issues
    /\ retries' = Drop(retries, i)
    /\ UNCHANGED <<running, claimed, worker>>

DropDueRetry(i) ==
    /\ ProcessDueRetry(i)
    /\ i \notin DOMAIN reply.issues
    /\ retries' = Drop(retries, i)
    /\ claimed' = claimed \ {i}
    /\ UNCHANGED <<running, worker>>

DispatchDueRetry(i) ==
    /\ ProcessDueRetry(i)
    /\ i \in DOMAIN reply.issues
    /\ CanDispatch(i, reply.issues[i], claimed \ {i})
    /\ Dispatch(i, reply.issues[i], retries[i].attempt)

PostponeDueRetry(i) ==
    /\ ProcessDueRetry(i)
    /\ i \in DOMAIN reply.issues
    /\ ~CanDispatch(i, reply.issues[i], claimed \ {i})
    /\ ScheduleRetry(i, NextAttempt(retries[i].attempt))
    /\ UNCHANGED <<running, worker>>

\* tick: fetch_candidate_issues.
FetchCandidates ==
    /\ pc = "fetch"
    /\ pc' = "dispatch"
    /\ Ask(Candidates, config)
    /\ UNCHANGED <<config, due, tickError, schedVars, pubVars, events, commands,
                   worker, envVars>>

\* dispatch_candidates: i is the most urgent candidate not looked at yet.
NextCandidate(i) ==
    /\ pc = "dispatch"
    /\ HasAvailableSlots
    /\ i \in DOMAIN reply.issues
    /\ \A j \in DOMAIN reply.issues : Rank[i] <= Rank[j]
    /\ reply' = [reply EXCEPT !.issues = Drop(@, i)]
    /\ UNCHANGED <<pc, config, due, tickError, pubVars, events, commands, envVars>>

DispatchCandidate(i) ==
    /\ NextCandidate(i)
    /\ CanDispatch(i, reply.issues[i], claimed)
    /\ Dispatch(i, reply.issues[i], 0)

SkipCandidate(i) ==
    /\ NextCandidate(i)
    /\ ~CanDispatch(i, reply.issues[i], claimed)
    /\ UNCHANGED <<schedVars, worker>>

\* The tail of tick: record its error, publish, sleep again.
EndTick ==
    /\ pc = "dispatch"
    /\ DOMAIN reply.issues = {} \/ ~HasAvailableSlots
    /\ pc' = "loop"
    /\ reply' = NoAnswer
    /\ lastError' = (tickError \/ ~reply.ok)
    /\ tickError' = FALSE
    /\ UNCHANGED <<config, due, schedVars, events, commands, worker, envVars>>
    /\ Publish
    /\ SleepAgain

\* The select loop takes the next event.
NextEvent(kind) ==
    /\ pc = "loop"
    /\ events # <<>>
    /\ Head(events).kind = kind
    /\ events' = Tail(events)
    /\ UNCHANGED <<pc, config, tickVars, commands, worker, envVars>>

\* handle_event: a RunnerEvent is activity of whatever run its issue has now.
HandleRunnerEvent ==
    /\ NextEvent("runner")
    /\ LET i == Head(events).issue
       IN running' = IF i \in DOMAIN running
                     THEN [running EXCEPT ![i].idle = FALSE] ELSE running
    /\ UNCHANGED <<claimed, retries, lastError>>
    /\ Publish
    /\ SleepAgain

\* handle_event: a WorkerFinished ends the run its issue has now; without one
\* the handler returns early.
HandleFinished ==
    /\ NextEvent("finished")
    /\ LET msg == Head(events)
           i   == msg.issue
       IN IF i \notin DOMAIN running
          THEN UNCHANGED <<schedVars, lastError, snapshot>>
          ELSE /\ running' = Drop(running, i)
               /\ CASE running[i].cancel = "release" ->
                         /\ claimed' = claimed \ {i}
                         /\ retries' = Drop(retries, i)
                         /\ UNCHANGED lastError
                    [] running[i].cancel = "none" /\ msg.completed ->
                         /\ ScheduleRetry(i, 1)
                         /\ UNCHANGED lastError
                    [] OTHER ->
                         /\ ScheduleRetry(i, NextAttempt(running[i].attempt))
                         /\ lastError' = TRUE
               /\ Publish
    /\ SleepAgain

-----------------------------------------------------------------------------
(* The worker tasks and their forwarders *)

workerFrame == <<pc, config, tickVars, schedVars, pubVars, commands, removals,
                 tracker>>

\* Sending to the actor's channel fails silently once the actor is gone.
Send(msg) == events' = IF pc = "stopped" THEN events ELSE Append(events, msg)

ReportsBeforeEnd(i, g, completed) ==
    /\ worker' = worker
    /\ Send([kind |-> "finished", issue |-> i, gen |-> g, completed |-> completed])

\* The task that joins a worker reports its end.
EndWorker(i, g, completed) ==
    /\ worker' = [worker EXCEPT ![i][g].phase = "ended"]
    /\ Send([kind |-> "finished", issue |-> i, gen |-> g, completed |-> completed])

\* ensure_workspace and before_run succeed: the attempt starts.
EnsureWorkspace(i, g) ==
    /\ worker[i][g].phase = "starting"
    /\ worker' = [worker EXCEPT ![i][g].phase = "working"]
    /\ dir' = [dir EXCEPT ![i] = TRUE]
    /\ UNCHANGED <<events, workerFrame>>

\* ensure_workspace, a hook or the prompt template fails, with the directory
\* created or not.
FailToStart(i, g) ==
    /\ worker[i][g].phase = "starting"
    /\ \E created \in BOOLEAN : dir' = [dir EXCEPT ![i] = @ \/ created]
    /\ EndWorker(i, g, FALSE)
    /\ UNCHANGED workerFrame

UnderWay(i) ==
      Cardinality({k \in 1..Len(events) :
                     events[k].kind = "runner" /\ events[k].issue = i})
    + Cardinality({b \in Gens \X (1..MaxEvents) : b[2] <= worker[i][b[1]].buffer})

\* The runner sends an event to the worker's own channel.
Emit(i, g) ==
    /\ worker[i][g].phase = "working"
    /\ UnderWay(i) < MaxEvents
    /\ worker' = [worker EXCEPT ![i][g].buffer = @ + 1]
    /\ UNCHANGED <<events, dir, workerFrame>>

\* The forwarder moves an event to the actor's channel; it outlives a worker
\* that was aborted.
Forward(i, g) ==
    /\ worker[i][g].buffer > 0
    /\ worker' = [worker EXCEPT ![i][g].buffer = @ - 1]
    /\ Send([kind |-> "runner", issue |-> i, gen |-> g])
    /\ UNCHANGED <<dir, workerFrame>>

FinishWithoutDrain(i, g) ==
    /\ worker[i][g].phase = "working"
    /\ \E completed \in BOOLEAN : EndWorker(i, g, completed)
    /\ UNCHANGED <<dir, workerFrame>>

\* run_attempt returned and the forwarder has drained the channel.
FinishRun(i, g) ==
    /\ worker[i][g].phase = "working"
    /\ worker[i][g].buffer = 0
    /\ \E completed \in BOOLEAN : EndWorker(i, g, completed)
    /\ UNCHANGED <<dir, workerFrame>>

\* The abort takes effect at an await of the worker.
CancelWorker(i, g) ==
    /\ Live(i, g)
    /\ worker[i][g].aborted
    /\ EndWorker(i, g, FALSE)
    /\ UNCHANGED <<dir, workerFrame>>

\* A spawned remove_workspace gets to its remove_dir_all.
RemoveWorkspace(i) ==
    /\ removals[i] > 0
    /\ removals' = [removals EXCEPT ![i] = @ - 1]
    /\ dir' = [dir EXCEPT ![i] = FALSE]
    /\ UNCHANGED <<pc, config, tickVars, schedVars, pubVars, events, commands,
                   worker, tracker>>

-----------------------------------------------------------------------------
(* The environment: time, the service's clients, the tracker *)

\* The back-off of a retry is over.
RetryFallsDue(i) ==
    /\ i \in DOMAIN retries
    /\ ~retries[i].due
    /\ retries' = [retries EXCEPT ![i].due = TRUE]
    /\ UNCHANGED <<pc, config, tickVars, running, claimed, pubVars, events,
                   commands, worker, envVars>>

\* No event of a running issue for longer than stall_timeout_ms.
RunGoesIdle(i) ==
    /\ i \in DOMAIN running
    /\ ~running[i].idle
    /\ running' = [running EXCEPT ![i].idle = TRUE]
    /\ UNCHANGED <<pc, config, tickVars, claimed, retries, pubVars, events,
                   commands, worker, envVars>>

\* Time passes for the sleeping loop.
Elapse ==
    /\ pc = "loop"
    /\ timer > 0
    /\ timer' = timer - 1
    /\ UNCHANGED <<pc, config, tickVars, schedVars, lastError, snapshot, events,
                   commands, worker, envVars>>

\* ServiceHandle::refresh and ServiceHandle::stop.
SendCommand(c) ==
    /\ pc # "stopped"
    /\ Len(commands) < MaxCommands
    /\ commands' = Append(commands, c)
    /\ UNCHANGED <<pc, config, tickVars, schedVars, pubVars, events, worker,
                   envVars>>

\* Somebody moves or deletes an issue in the tracker.
MoveIssue(i, s) ==
    /\ tracker[i] \notin {Gone, s}
    /\ Reopen \/ tracker[i] \notin UNION {cfg.terminal : cfg \in Configs}
    /\ tracker' = [tracker EXCEPT ![i] = s]
    /\ UNCHANGED <<pc, config, tickVars, schedVars, pubVars, events, commands,
                   worker, dir, removals>>

-----------------------------------------------------------------------------

Tick == \/ StartupCleanup \/ WakeUp \/ ReceiveRefresh \/ Reconcile
        \/ CollectDueRetries \/ DueRetriesRefused \/ FetchCandidates \/ EndTick
        \/ \E i \in Issues : \/ DropDueRetry(i) \/ DispatchDueRetry(i)
                             \/ PostponeDueRetry(i) \/ DispatchCandidate(i)
                             \/ SkipCandidate(i)

Handle == HandleRunnerEvent \/ HandleFinished

Work(i, g) == \/ EnsureWorkspace(i, g) \/ FailToStart(i, g) \/ Emit(i, g)
              \/ Forward(i, g) \/ FinishRun(i, g) \/ CancelWorker(i, g)

Environment == \/ Elapse
               \/ \E c \in {"refresh", "stop"} : SendCommand(c)
               \/ \E i \in Issues : \/ RetryFallsDue(i) \/ RunGoesIdle(i)
                                    \/ RemoveWorkspace(i)
                                    \/ \E s \in States \cup {Gone} : MoveIssue(i, s)

Next == \/ Tick \/ Handle \/ ReceiveStop
        \/ \E i \in Issues, g \in Gens : Work(i, g)
        \/ Environment

Spec == Init /\ [][Next]_vars

\* The actor's task and the spawned tasks run when they can, an abort takes
\* effect, timers expire.  Agents, clients and the tracker owe nothing.
FairSpec ==
    /\ Spec
    /\ WF_vars(Tick)
    /\ SF_vars(Handle)
    /\ SF_vars(ReceiveStop)
    /\ WF_vars(Elapse)
    /\ \A i \in Issues :
         /\ WF_vars(RetryFallsDue(i))
         /\ WF_vars(RemoveWorkspace(i))
         /\ \A g \in Gens : WF_vars(Forward(i, g)) /\ WF_vars(CancelWorker(i, g))

-----------------------------------------------------------------------------
(* Safety *)

\* An issue is claimed exactly while it runs or waits for a retry, and never
\* does both; the retries a tick still has to look at are pending.  The three
\* collections are changed one by one in dispatch_issue, schedule_retry,
\* process_due_retries and handle_event.
ClaimsMatch ==
    /\ claimed = DOMAIN running \cup DOMAIN retries
    /\ DOMAIN running \cap DOMAIN retries = {}
    /\ due \subseteq DOMAIN retries
    /\ pc # "due" => due = {}

FinishedAt(i, g) == {k \in 1..Len(events) : /\ events[k].kind = "finished"
                                            /\ events[k].issue = i
                                            /\ events[k].gen = g}

RunsAs(i, g) == i \in DOMAIN running /\ running[i].gen = g

\* handle_event finds the run of a WorkerFinished by issue id alone.  That is
\* sound only because a run stays in the table until its own worker's single
\* WorkerFinished is handled: a worker is live, or its WorkerFinished waits,
\* for the current run and for no other; so no two workers of an issue are ever
\* alive together, sharing its workspace.
RunOwnsItsFinish ==
    pc # "stopped" =>
        \A i \in Issues, g \in Gens :
            /\ Live(i, g) \/ FinishedAt(i, g) # {} => RunsAs(i, g)
            /\ RunsAs(i, g) =>
                  IF Live(i, g) THEN FinishedAt(i, g) = {}
                  ELSE \E k \in FinishedAt(i, g) : FinishedAt(i, g) = {k}

\* A RunnerEvent, too, is matched by issue id alone.  One that another run
\* sent can wait in the channel only if that run was aborted: a worker that
\* ends by itself first waits for its forwarder.
StaleEventsAreOfAbortedRuns ==
    \A k \in 1..Len(events) :
        LET e == events[k]
        IN e.kind = "runner" => \/ RunsAs(e.issue, e.gen)
                                \/ worker[e.issue][e.gen].aborted

\* When no issue is ever reopened, a worker that was not aborted keeps its
\* workspace: a late remove_workspace cannot hit a later attempt.
WorkspaceIntact ==
    ~Reopen => \A i \in Issues, g \in Gens :
                  worker[i][g].phase = "working" /\ ~worker[i][g].aborted => dir[i]

-----------------------------------------------------------------------------
(* Liveness *)

\* The loop keeps ticking (its sleep is not re-armed by events for ever) and
\* the tracker keeps answering some of the requests.
TicksGoOn == []<>(pc # "loop")
TrackerAnswers == \A p \in {"reconcile", "due"} :
                    []<>(pc = p) => []<>(pc = p /\ reply.ok)

Done(i) == IsTerminal(tracker[i])
Forgotten(i) == i \notin claimed

\* An issue that reached a terminal state is, in the end, neither running nor
\* waiting for a retry, and stays so.
TerminalIsForgotten ==
    TicksGoOn /\ TrackerAnswers => \A i \in Issues : Done(i) ~> []Forgotten(i)

\* After Stop the workers end.
StopEndsWorkers ==
    pc = "stopped" ~> \A i \in Issues, g \in Gens : ~Live(i, g)

-----------------------------------------------------------------------------
(* The promise: leases on issues *)

MaxSlots == CHOOSE n \in {cfg.slots : cfg \in Configs} :
                \A cfg \in Configs : cfg.slots <= n

Lease == INSTANCE IssueLease WITH
    Slots  <- MaxSlots,
    lease  <- [i \in Issues |-> IF i \in DOMAIN running THEN "leased"
                                ELSE IF i \in DOMAIN retries THEN "waiting"
                                ELSE "free"],
    agents <- [i \in Issues |-> Cardinality({g \in Gens : Live(i, g)})],
    open   <- (pc # "stopped")

\* The orchestrator keeps the promise of IssueLease: whatever the order of
\* ticks, finishes, aborts, late events and reloads, a run's slot and claim
\* are given back only after its worker is gone.
KeepsLeases == Lease!LeaseSpec
=============================================================================
