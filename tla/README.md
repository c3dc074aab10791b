# A verification of Arbor

Arbor is a desktop application for coding with agents, with a daemon
(`arbor-httpd`) that keeps terminals, managed processes and agent chats alive
for it, for the web interface, the command line and an MCP server, and with
Symphony (`arbor-symphony`), an orchestrator that works off an issue tracker
with agents of its own. This directory holds TLA+ models of the parts of Arbor
where steps of several actors can meet in orders nobody wrote a test for, the
TLC runs that check them, and proofs that TLAPS checks.

Paths below are relative to `crates/` unless they start with `docs/`.

## 1. The system

### Parts that are modelled

**Symphony orchestrator** (`arbor-symphony/src/service.rs`, `workspace.rs`).
- *State*: `Actor` keeps the runs (`running`), the claims (`claimed`), the
  retries (`retry_attempts`), the configuration and the last error; it
  publishes a `RuntimeSnapshot` on a watch channel.
- *Operations*: one task selects among its sleep, a channel of commands
  (refresh, stop) and a channel of events of the workers. A tick reloads
  `WORKFLOW.md`, cancels stalled runs, reconciles the runs with the tracker,
  dispatches due retries and then new candidates.
- *Interaction*: for every run a worker task (create the workspace, run hooks,
  run Codex) and a task that forwards the worker's events; for every run that
  is done a task that removes its directory. All of them report to the actor
  by messages that name the issue.
- *Hard*: each request to the tracker is an await, and its answer is applied
  later; a worker may be aborted and still have messages on the way; events and
  finishes are matched by issue id, never by run; a retry holds a claim.
- *Correct when*: an issue is claimed exactly while it runs or waits; a finish
  ends the run it belongs to; no two workers share a workspace; the slots are
  respected; a stop reaches every worker; an issue that is done is forgotten.

**Codex runner** (`arbor-symphony/src/codex.rs`): one attempt of a worker.
- *State*: the number of the next request, the turns counted, the child process
  and the pipes to and from it.
- *Operations*: start the app server, initialize, start a thread, then turn after
  turn: ask for it, read until it ends, look the issue up. Questions of the server
  are answered on the way. At the end the child is killed and waited for.
- *Interaction*: lines of JSON with another program; events to the worker.
- *Hard*: two loops read one pipe, one for an answer and one for a turn, and each
  meets what is meant for the other; the server may say anything, or nothing, or stop
  reading; the worker may be aborted at every await; writes have no timeout.
- *Correct when*: the turns reported are the turns completed; no question and no end
  of a turn is dropped; every attempt ends, and its server with it.

**Terminal daemon and session store** (`arbor-httpd/src/terminal_daemon.rs`,
`arbor-core/src/daemon.rs`).
- *State*: the table of live sessions, and a JSON file of records that survives
  the program. Each session has a child on a pty, a reader thread, and a
  thread that waits for the child and then records its end.
- *Operations*: create or attach, write, resize, signal, detach, kill, list,
  subscribe, reap. Most of them save the store, and each save merges live and
  stored records.
- *Interaction*: everything goes through one mutex, but the child ends and its
  wait thread runs whenever they like.
- *Hard*: calls that fail halfway (kill, spawn, save); the list that mixes
  fresh and stored records; sessions that are removed before their child ends,
  and recreated under the same id; restarts.
- *Correct when*: no running child is without a session by which it can be
  killed; a session listed as ended has no running child; live sessions can
  be restored; ended ones leave memory.

**Managed processes** (`arbor-httpd/src/process_manager.rs`, with the monitor
loop of `startup.rs` and the handlers of `routes.rs`).
- *State*: for each process its definition, status, session and backoff; the
  monitor's pending restarts; the restart tasks that sleep.
- *Operations*: handlers discover the definitions from `arbor.toml` and
  `Procfile`, synchronize the table with them and start, stop or restart one
  process or all; every two seconds the monitor looks for crashes, and every
  minute it reaps ended sessions; a task per crash restarts its process.
- *Interaction*: the manager's tokio mutex is taken first, the daemon's second,
  and both are held for a whole operation. The definitions are read before the
  locks are taken.
- *Hard*: stale definitions, leftover restart tasks, compound operations on the
  daemon (kill, then create) of which one call fails, definitions removed or
  edited while a restart is pending, clients that use the daemon directly.
- *Correct when*: a restart that is announced comes; nothing runs that was not
  asked to; nothing that runs is taken for crashed; what is stopped is gone.

**Activity of terminals** (`terminal_daemon.rs`, with the hub of agent sessions
in `routes.rs`).
- *State*: per session a flag that its child asks for input; the hub's map of
  agent sessions, fed by a channel of events.
- *Operations*: the reader thread notes a bell, a write clears the flag, the
  wait thread clears it at the end; a forwarder moves the events into the hub;
  entries of the hub expire.
- *Hard*: the threads of an old session run on beside the session that replaced
  it under the same id; events arrive late.
- *Correct when*: the hub lists no terminal as waiting that is not, once what is
  on the way has arrived.

**Agent chats** (`agent_chat.rs`).
- *State*: per session its status, messages, the answer under way, the handle
  that cancels its turn; a JSON file of all of them.
- *Operations*: create, send a message, cancel, kill; a task per turn runs the
  agent and sends events; a listener per session turns events into messages.
- *Hard*: the channel between them is bounded and drops the oldest events;
  turns overlap after an error; cancel, kill and restarts at any moment.
- *Correct when*: a session that works has an end coming; what was said survives.

**Task scheduler** (`task_scheduler.rs`, `arbor-core/src/task.rs`, and the task
routes).
- *State*: per task its status, last run, run count and history; the channel of
  updates to WebSocket clients.
- *Operations*: a loop collects what is due, clients start tasks by hand, a
  spawned future runs each command and records its end.
- *Hard*: the table is unlocked between start and completion; schedules are
  compared with the last completion; slow subscribers.
- *Correct when*: one execution per task, one per due time; a client ends up
  with what the table holds.

**Worktree rows of the window** (`arbor-gui/src/worktree_refresh.rs`,
`github_pr_refresh.rs`, `worktree_summary.rs`, `worktree_lifecycle.rs`, and the
timers of `background_pollers.rs`).
- *State*: the rows, one flag per kind of refresh, the selection, the worktree to
  be selected once it is listed, the delete dialog, the cache of pull requests.
- *Operations*: a refresh lists the worktrees in the background and replaces the
  rows; others compute diff summaries and look up pull requests; the user
  selects, creates and deletes.
- *Hard*: every answer is applied to rows that may have been replaced; flags that
  block the next refresh must be cleared on every path; indices go stale.
- *Correct when*: a row shows the pull request that was asked for its own branch;
  refreshes never block for good; the worktree deleted is the one named.

**Agent turns in the window** (`arbor-gui/src/agent_activity.rs`).
- *State*: what the activity feed says of sessions, an epoch per worktree, the
  turns recorded in its row, the worktrees a checkpoint is being made in.
- *Operations*: a message changes the state of a worktree's agent; when it
  finishes, a task inspects the worktree, perhaps commits, and reports back.
- *Hard*: the agent goes on meanwhile; the rows are replaced by refreshes that
  began earlier; two tasks may meet in one worktree.
- *Correct when*: turns are recorded, in order and once; one checkpoint at a time.

**Persistence of the window** (`workspace_layout.rs`, `terminal_session.rs`,
`workspace_navigation.rs`, `settings_ui.rs`, `app_init.rs`).
- *State*: for each store what is held, pending, being written and on disk; the
  notes of the selected worktree and their loads; whether the user asked to quit.
- *Operations*: changes queue a write; a write ends, well or not, and starts the
  next; notes are loaded and typed; a quit waits for what has to be written.
- *Hard*: writes and loads end after the user has gone elsewhere; each field is
  changed over a base that is itself pending, under way or on disk.
- *Correct when*: a quit loses no session and comes; no field reverts another; no
  load overwrites what was typed, or shows another worktree's notes. (The theme is
  saved by a path of its own that a quit does not wait for.)

### Parts that are not modelled

| part | state and hard behaviour | why not |
| --- | --- | --- |
| Workflow configuration (`arbor-symphony/src/workflow.rs`) | `last_modified` of the file is remembered before it is parsed | a tick may load any configuration or fail to; the loader itself is not modelled |
| Authentication (`auth.rs`) | counters per address with windows | one lock, no interleaving; unit tests suffice |
| Managed worktrees (`managed_worktree.rs`) | git commands and scripts with rollback | their results only, in `WorktreeRows` |
| Issue providers, TLS, mDNS, process metrics, repository store | input and output | nothing to interleave |
| Rest of the window (`arbor-gui`, about forty thousand lines) | views, key handling, menus, one request at a time | rendering has no state to check; `daemon_runtime.rs` is a candidate |
| Daemon client, MCP server, command line, SSH, mosh, terminal emulator, web interface, benchmarks | stateless translation, external libraries or rendering | no protocol of their own |

The map of `PROJECT.json` covers about a twelfth of the source lines. The larger
part of the rest draws the window, parses and formats; a model of it would
restate it. `PROJECT.json` lists every part with its status, and the hazards
with their lines and the properties that cover them.

## 2. The modules

| module | what it is |
| --- | --- |
| `Maps` | insertion into and removal from finite maps, used by all the others |
| `Symphony` | the orchestrator: actor, workers, forwarders, removals, tracker, clients |
| `IssueLease` | what the orchestrator promises: leases on issues. Abstract |
| `CodexRunner` | one attempt of a worker, and the app server it talks to |
| `AttemptReport` | what an attempt promises to its worker: turns, one result, no agent left. Abstract |
| `TerminalDaemon` | the daemon's sessions, store and children |
| `ProcessManager` | extends `TerminalDaemon` with the manager, the monitor and the handlers |
| `TerminalActivity` | extends `TerminalDaemon` with what sessions ask for, the events and the hub |
| `AgentChat` | chat sessions, turns, listeners, store |
| `TaskScheduler` | the table of tasks, the loop, executions, the feed |
| `WorktreeRows` | the rows of the window, their refreshes, the delete dialog |
| `AgentTurns` | the agents of the rows, the tasks of their turns, checkpoints |
| `Persistence` | the window's stores, its notes and the quit |
| `MC...` | values of the constants for TLC |
| `...Proofs` | theorems and proofs; `TerminalProofs` has those of `TerminalDaemon`, `TerminalActivity` and `ProcessManager` |

Some operators are never used by the specification: `DropKeepsClaim`,
`StoredFirst`, `KeepsRestarting` and the like stand before the definition they
resemble and are that definition with a plausible mistake. Each property is
known to fail when its mistake is put in (the list is in `PROJECT.json`,
"mutants"), so each is known to depend on the code it is about.

### Symphony

`pc` says where the actor is: `startup`, in its select loop (`loop`), after a
request of a tick whose answer it waits for (`reconcile`, `due`, `dispatch`),
between two parts of a tick (`retries`, `fetch`), or `stopped`. A request puts
the tracker's answer of that moment, or a refusal, into `reply`, and the next
action uses it; in between the tracker, the workers and the clients go on. A
tick is the sequence `WakeUp` or `ReceiveRefresh`, `Reconcile`,
`CollectDueRetries`, one of `DropDueRetry`, `DispatchDueRetry` and
`PostponeDueRetry` for each due retry, `FetchCandidates`, `DispatchCandidate` or
`SkipCandidate` for each candidate, `EndTick`; no message is handled before it
ends, as in the code. `HandleRunnerEvent`, `HandleFinished` and `ReceiveStop`
are the other branches of the select.

A worker is `free`, `starting`, `working` or `ended`. Its generation number is
the model's own: the code has no such number, which is why the properties can
ask whether messages matched by issue id reach the right run. A generation is
used again once nothing refers to it. `CancelWorker` is an abort that takes
effect at some await, after any delay. `buffer` counts the events that the
forwarder has not moved yet.

Time is abstract: a retry falls due at any time, a run goes idle at any time,
and the sleep of the select loop takes at most `Poll` steps of a clock.
Attempts are counted up to `MaxAttempt` and stay there, as the backoff does.
Left out are token counts, rate limits, prompt texts and log lines, which no
decision reads.

### CodexRunner

`pc` is what the runner does: `start`, waiting in `read_response` for the answer to
`initialize`, `thread` or `turn`, `stream` (reading a turn), `refresh` (looking the
issue up), `next` (about to ask for another turn), `stop`, `wait`, `over`.
`Read` takes one line: it is the answer
(`TakeAnswer`), something else while one is awaited (`PassOver`), or part of a turn
(`Hear`). What is left of `read_timeout_ms` and `turn_timeout_ms` is not measured:
silence may be taken for a timeout at any time (`HearNothing`), and `late` says that a
turn has lasted too long, which the code notices when it has handled a line. The
server is modelled from what the runner expects of it, as another program: it answers
each request at most once, rightly, without the names it should give or with a
refusal, talks as much as it likes, asks questions with and without numbers, ends turns,
stops reading, and ends. `server` is what it knows of the conversation; the properties
compare the two sides. `server.deaf` says that it reads no more and the pipe to it is full:
what the runner has to write then, a request or the answer to a question, waits for ever
(`CanWrite`, `Blocked`), as `write_all` and `flush` have no timeout. How much fits into the
pipe before it is full is not modelled. `AttemptReport` is what the worker sees of all this:
turns told, the agent, and
what `run_attempt` returns. It is the worker that `Symphony` models as `working`: events,
then one finish.

### TerminalDaemon

The state is one record, `daemon`: the live sessions with the slot of their
child, the stored records, the phase of each child (`running`; `hungup`, told
to end; `exited`; `ended`, which is when the wait thread has recorded it) and
the sessions a WebSocket is subscribed to. Every operation is an operator from a
daemon record to `[daemon, ok]`, and the parameter `f` names the call that fails
in it, so that `ProcessManager` can call several in one step and go on from the
state a failure leaves. A slot is one child of an id, so two slots let an old
child still end while a new one runs. Ids of the form `daemon-<n>` (`Generated`)
matter because stored records with such ids are left out of the list.

### ProcessManager

`World` is the manager's table and the daemon's record; the operations of
`ProcessManager` (`SyncDefinitions`, `StartDefinition`, `StopProcessById`,
`CheckAndUpdate`) go from world to world. As the code holds both locks for a
whole request, a handler is one step, except that `start_all` and `stop_all`
are modelled one process at a time (`LoopStep`) with the locks held: children
end in between. A handler first reads the definitions (`Discover`) and later
takes the locks with what it has read. `MonitorTick` is the body of the
monitor's loop under the locks; `SpawnRestarts` comes after they are released;
`RestartTask` is a restart task whose sleep is over. Delays are not measured: a
task wakes up at any time. `RestartProgram` loses everything but the store.

A process and its session have one name in the model: the code derives the
session id from the process id by a digest, so they correspond one to one.

### TerminalActivity

`waiting[s][n]` is the flag of the child in slot `n` of session `s`: the code
keeps it in the `LiveSession`, which the threads of an old child still hold
when a new session has its id. Each of `NoteWaiting`, `Write` and `ExitRecorded`
holds the session's lock. `events` is the channel to the forwarder, `hub` the
sessions the hub lists as waiting. Every request of `TerminalDaemon` is a step
of this module too, and leaves the flags alone.

### AgentChat

`sessions` is the manager's table, `turns` the tasks that run a turn, `queue` the
events a session's listener has not seen, at most `Capacity` of them. A text is
a sequence of turn numbers, so that the model can tell whose words went where.
The three transports are one turn that speaks (`Chunk`), may report errors in the
middle (`ReportsError`) and ends (`EndTurn`). `Listen` handles one event under the
lock, with the save that follows. `Restart` keeps the store only.

### TaskScheduler

A clock ticks to `MaxTime`; `Due[t]` are the times of a schedule. `Start` marks
tasks as running and tells the clients, `CollectDueTasks` is one poll of the loop,
`RunTask` a request. An execution is counted in `runs`: its command runs, or has
ended without being recorded yet. `feed[c]` is a client: what it shows, what is
in its channel, and whether it is about to be told that it lost something.
`starts` is the model's own count, for `OneRunPerDueTime`.

### WorktreeRows

Everything happens on the thread of the window, so each handler is an operator
from `ui` to `ui` and handlers compose: `Replaced` (the end of a listing) starts
the diff summaries and the pull request lookups as the code does. `ui.refresh`
is the refresh under way with what it captured; starting another one drops it.
`ui.prTasks` and `ui.diffTasks` are the background tasks with what they still have
to answer. A pull request has two branches: the one that was asked about (`asked`) and the
one it is of (`of`). They differ when a lookup finds no details and falls back on the branch
that is checked out by then (`Findable`). `disk` is what git lists, and others change it.
`ui.store` is the saved state, the cache of pull requests and the selection, with its queue:
a state is pending, being written, or the last that was written. A refresh reads the
cache of the last one (`StartRefresh`) but the selection of the queued one
(`PreviousSelection`). It is the queue of `Persistence` with other contents. Only the
handlers of this module save here; other parts of the window (panes, tabs, outposts) call
`sync_navigation_ui_state_store` too and would queue the state at other moments.

### AgentTurns

A task of a turn goes through the phases `started`, `checked`, `claimed`,
`committing` and `reporting`; each access to the shared epochs and to the set of
checkpoints under way is a step of its own, as each takes a mutex. A turn is named
by its epoch. `ui.refresh` holds the rows as they were when a listing began. Its end advances
the epoch of a worktree whose restored row it corrects, though the agent did nothing: so a
report of that moment is dropped (`RefreshMissed`).

### Persistence

A store holds the newest value, one that is queued, one that is being written and
what is on disk; values are version numbers. Notes are sets of strokes, each with
the worktree it was typed for, so that a text may be asked where its parts come
from. A file that is missing or cannot be read shows as an empty text (`ReadNotes`).
`AppAfter` is the code's check, after every write, whether a quit may be
carried out now. `configs.pending` counts the configuration saves that the code counts
(`begin_background_config_save`), `configs.themes` the saves of the theme, which it does not.

### IssueLease

An issue is free, leased or waiting. A lease is granted when a slot is left and
nobody works on the issue, an agent works only under a lease, and a lease is
given back only when its agent is gone. `Symphony!KeepsLeases` instantiates it:
leased is "in `running`", waiting is "in `retry_attempts`", and an agent is a
worker that has not ended.

## 3. The runs

| run | bounds | what it shows |
| --- | --- | --- |
| `symphony_runs` | 2 issues, one blocked by the other, 4 states, 1 slot, in three environments (below); 0.88M states | a finish is always that of the current run; events of an older run only after an abort; claims match runs and retries; `Symphony` implements `IssueLease` |
| `symphony_settle` | 1 issue, 3 states, no reopening, one command, 2 configurations to reload; 0.2M, with liveness | a workspace in use is not removed; terminal issues are forgotten; workers end after a stop |
| `process_races` | 1 process, 2 handlers, lists, kills and spawns may fail; 48k, with liveness | no lost child; no false crash; announced restarts are pending and come, if `auto_restart` is never switched off; nothing is started unasked; stopped means no session; live sessions are in the store |
| `terminal_activity` | 1 id, 3 slots, 3 events on the way, all calls may fail; 93k, with liveness | ended means no child; no ghost that waits; dead sessions go |
| `reap_watched` | 1 id, 2 slots, subscribed to | the disagreement of section 6 about reaping |
| `worktree_rows` | 2 worktrees, 2 repositories, 2 branches, up to 2 changes, clicks or timers, with a restart, a rate limit or a failed save; 1.66M | a row and the cache show a pull request only as the answer to a question about their branch; no flag stays behind; what was created is selected |
| `worktree_delete` | 3 worktrees | the disagreement of section 6 about the delete dialog |
| `agent_turns` | 1 worktree, 2 sessions, 6 messages, 1 refresh, 2 turns kept; 258k, with liveness | rows show the agents; one checkpoint; turns in order and counted; recorded, if the agent stays waiting and no earlier refresh overlaps the report |
| `task_scheduler` | 3 tasks (one disabled), clock to 3, 2 runs by hand, 1 client with 2 events; with liveness | one execution; one run per due time; the feed leads to the table; a client that lags is repaired |
| `agent_chat` | 2 sessions with 2 and 1 turns, 2 events kept, 1 restart; 117k, with liveness | a working session has an end coming, and comes to it; messages survive |
| `persistence` | 2 worktrees, 2 fields, 5 changes, 1 failure; 518k, with liveness | a quit waits for the saves it counts, and comes; fields are merged; typed notes are kept, at home |
| `codex_runner` | 2 turns, 3 lines in the pipe, questions numbered 0 (none), 3 and 9; 1.2M, with liveness | turns are counted; nothing is missed; an attempt ends, unless a server talks or blanks for ever or a write is blocked |

Where a system may rest for ever, deadlock is not checked: a stopped orchestrator,
a daemon nobody uses, or a model whose bounds are used up.

**Why the bounds are enough.** Whatever concerns the runs of one issue involves
the current run and at most one that is still ending, so two generations and
one issue exercise it; two issues are needed for slots and blockers only. One
event and one removal on the way suffice to have one that is late. `MaxAttempt`
saturates, so it is no bound on behaviour. In the daemon, sessions with
different ids share only the store. Two slots let an old child overlap a new one,
three also the one after that. `MaxTimers` saturates: a count of `MaxTimers` stands for
that many tasks or more. A `MaxBackoff` of 1 makes every restart as early as it can be;
`ProcessFaults.cfg`, which is not among the runs, has one of 2, with both the doubling and
the cap. Two handlers are enough to apply definitions in an order
other than the one they were read in. `ReapEvery` of 2 makes the monitor tick both
with and without a reap. `Requests` and `MaxCommands` bound what is under way at
once; no property speaks of how many there are.

`MCSymphonyRuns` runs three environments beside each other, since one with everything
is out of reach: an issue that comes and goes while its workers send events; two issues
that compete for the slot; and a service that is refreshed and stopped. The
configuration tells them apart, each is a subset of the steps of `Symphony`, and what a
property needs to fail (a finish that is late, a slot that is contended, a stop in the
middle) is in one of them. No issue leaves a terminal state here; for its run and its claim
that is the same as to leave and re-enter the active states, which the first does.

Two turns of an attempt are what it takes to have a request after a turn. The number 3
of a question is that of a request too (the first turn's), 9 is that of none.
What the server says is bounded by the pipe only, never by a count: that it does not go on
for ever where no timeout of the code would notice is a premise of `RunEnds`, not of the model.

Rows of different paths meet in the flags, the selection and the order only, so two
worktrees suffice; `Budgets` are small sets of what others do within one behaviour,
chosen so that each kind of disturbance meets each other kind. They count what others do and
what begins something (checkouts and removals, clicks, timers, restarts, rate limits, failed
saves); whatever follows from it is free. `Undiffable` names the worktree whose summary may
fail, since one is enough for a summary that fails beside one that does not. The two branches
are treated alike everywhere (`Tracked` holds both), so they may be exchanged (`MCBranches`);
the properties of that run are safety properties. Two sessions in one
worktree are what it takes for a worktree's state to be merged from several; six
messages give two complete turns and the start of a third, which overtakes the
task of the second. Channels of two events overflow at once, where those of
the code hold 64 and 256: what matters is that the oldest are lost while an end is
among the newest. Two turns of a session overlap; a third adds nothing, as a turn
knows nothing of the others. One failed write, two fields and five changes let a
field be queued over a base that is pending, under way, or failed.

**`Clients` and `Faults`.** `StoppedHasNoSession` is checked with `Clients =
FALSE` (clients leave the sessions of processes alone; the routes of terminals would
let one create a session under the id of a process, behind the manager's back)
and without failing saves; section 6 shows what a failing save
does. `LiveIsRestorable` has the same second premise. `NoLostChild`,
`EndedMeansNoChild` and `NoFalseCrash` need no such premise: `process_races` checks the
first and the last without clients and failing saves beside the others, `ProcessFaults.cfg`
checks them with both (216k states, passes), and the theorems of section 4 hold for all.

**Premises on the code's surroundings.** Five properties say less than their names, because the
code does not promise more; each premise is part of the property, and section 6 has
a configuration that shows it is needed.
- `RestartingHasTimer` and `RestartSettles` speak of processes whose `auto_restart` is never
  switched off in the files (`AlwaysAuto`). A definition may still be removed and come back.
- `TurnsAreRecorded` gives a turn up when the agent does not stay waiting, when the worktree
  goes, and when a refresh that began before the turn was recorded is still to be applied.
  A turn that such a refresh erases does not count as recorded.
- `RunEnds` speaks of servers that do not talk for ever while they owe an answer, and do not
  send blank lines for ever; and an attempt that waits to write to a running server that reads
  no more has not failed it. The first two are `Chatter`, the last is `Blocked`.
- `PrAnswersBranch` speaks of the question a pull request was the answer to.

**Fairness.**
- `Symphony!FairSpec`: the actor's task is scheduled (weak fairness of `Tick`;
  no other action disables a tick's next step). Messages and stop are handled under
  strong fairness, because `tokio::select!` starts at a random ready branch,
  so a branch that is ready again and again is taken in the end. Timers expire
  and spawned tasks run. Agents, clients and the tracker owe nothing: an agent
  may work for ever, a tracker may move issues for ever.
- `TerminalIsForgotten` has two more premises, written into the property. The
  loop goes on ticking: its sleep is created anew in every turn, so events that
  never stop would put it off for ever. And the tracker answers now and then.
- `TerminalDaemon!FairSpec` and `ActivityFairSpec`: the monitor reaps, and a wait
  thread returns once its child has ended.
- `ProcessManager!ManagerFairSpec`: the monitor's interval and the restart tasks
  get the locks under strong fairness, since the mutex of tokio queues its waiters
  in order; a loop that has the locks goes on; wait threads return. Handlers and
  clients owe nothing.
- `AgentTurns!FairSpec`: the background tasks run on; git ends. `TaskScheduler`:
  a client's handler runs on; that commands end is not assumed. `AgentChat`: the
  listeners run on; that turns end is not assumed. `Persistence`: writes end, well
  or not. `CodexRunner`: the worker's task runs on, time passes, and a process that was
  killed ends; the server owes nothing. Users owe nothing anywhere.

## 4. The proofs

All theorems hold for every value of the constants allowed by the assumptions
next to their declarations.

**SymphonyProofs.** `TypeCorrect` and `ClaimsAlwaysMatch` come from one inductive
invariant, `Inv == TypeOK /\ ClaimsMatch`. `ClaimsMatch` is needed for the types:
`DispatchDueRetry` reads `retries[i]` for an `i` in `due`, which has an entry only
because what is due is pending. It is inductive with its last two conjuncts (what
is due is a retry, and nothing is due outside that part of the tick), and would
not be without them. There is one lemma per action.

`RunAlwaysOwnsItsFinish`, `StaleEventsAlwaysOfAborted` and `OneAgentPerIssue` come from
`OrderInv`, which adds to the three properties what makes them inductive: `InOrder`
(the events of a worker that was not aborted come before its finish, and it
has nothing left to send once it has ended), `NothingAfterStop` (a stop empties the
queue) and `FewRuns` (the running issues are finitely many, so that counting them
against the slots means something). One lemma takes a message off the queue, one sends,
one ends a worker, one spawns, one aborts.

`LeasesAreKept` is the refinement of `IssueLease`. A dispatch is `Grant`, the end of a
worker `Leave`, the handling of its finish `GiveBack`, the dropping of a due retry
`Forget`, a stop `Close`, and every other step stutters. That a lease has one agent, and
that only its own finish gives it back, is `OrderInv`. `SlotsAssumption` bounds the runs.

`WorkspaceStaysIntact` follows the time between a terminal answer and the removal it
causes. `IntactInv` says that an issue whose removal waits is terminal and has no worker
but aborted ones (`RemovedIsOver`), that an answer that calls an issue terminal is true
(`ToldIsTrue`), that what is offered for dispatch has no removal waiting (`OfferedIsOpen`),
that nothing runs before the startup cleanup (`NobodyYet`), and that a worker at work that
was not aborted has its directory (`Kept`). It needs two premises, and says so: no issue
leaves a terminal state, and no configuration calls active what another calls terminal
(`TerminalIsTerminal`).

**TerminalProofs.** Of the daemon, the invariant is `Good(d) == IsDaemon(d) /\ NoLostIn(d)`
and is stated of a daemon record, not of the variable: each operation takes a good
record to a good record whichever call fails. So the activity and the manager can use
the same lemmas for what they compose of several. `NoChildIsLost`
(and `DaemonTypeCorrect`) follow. `ListedEndIsReal` adds that a live
session's recorded state is that of its own child, and that a session that is not
live has no running child. `LiveStaysRestorable` assumes that saving does
not fail.

Of the activity, `ActivityImplementsDaemon` is a refinement: every step of the
composed system is a step of `TerminalDaemon` or leaves it alone, so that its theorems
carry over. `ActivityInv` says, of the hub and of every update on its way, that a
clear comes after it unless an incarnation waits; and that an incarnation waits only
while its child's exit is not recorded, which takes a lemma for every operation of the
daemon (`KeepsAlive`).

Of the managed processes, `ManagerInv` joins a good daemon with the types of the
manager's table, the handlers, the loops and the timers; `NoManagedChildIsLost` and
`ManagerTypeCorrect` follow, and from the same invariant two action
properties: `CrashesAreReal` (no process whose child runs is taken for crashed)
and `StartsAreAskedFor` (a process comes to run only at a request or as a pending
restart). `ManagerUsesDaemon` compares the manager with the daemon's own specification:
an operation of the manager is several calls to the daemon, any of which may fail, and
what all of them do is at most one operation that a client could ask for, or a kill and
a new session of the same process (`UsesDaemon`). It rests on `Drives`, shown of each
compound operation. So what the steps of `TerminalDaemon` keep need only be
shown of that one combination: `ManagedEndIsReal` follows from `ManagerInv`,
`ManagedStayRestorable` (if saving does not fail) from this. `UsesDaemon` is in no
run; added to `ProcessFaults.cfg` or `ProcessRaces.cfg` as a PROPERTY it passes.
Two results need a strengthening of their own:
- `RestartsArePending`, which is of processes whose `auto_restart` is never switched off
  (`AlwaysAuto`, in the property): `WaitInv` says of every such process that is restarting that
  it has a pending restart *and* `auto_restart`. The second half is what keeps a
  restart task from returning without a change.
- `StoppedLeavesNoSession`, if the store can be written and clients leave the
  sessions of processes alone: `Owned` says that every live session of a
  process belongs to a process that is tracked, names the session and is not
  stopped. It is inductive where the property is not, since a crashed
  process that forgot its session could be stopped without a kill.

**TaskSchedulerProofs.** `SchedulerInv` joins the types with the three properties and
`StartsAreKnown`: every start the loop made was for a due time that the recorded last
run has passed, or for the execution that is running. That is what
`OneRunPerDueTime` rests on: a completion moves the last run forward, so a due time
that was seen is not missed again. `FeedIsComplete` follows the channel of a client:
an event that is sent changes what the queue leads to exactly as the table has changed.

**AgentTurnsProofs.** `TurnsInv` says of every row, and of every row a refresh has
captured, that its turns are in order and counted and that they are older than the
worktree's epoch; of the tasks, that there is one for a worktree and an epoch; and of a
checkpoint, that its holder is in the set of worktrees with one. The captured rows are
what makes it inductive: the end of a refresh puts them back.

**AgentChatProofs.** `ChatInv` adds to the two properties that in a channel with no turn
behind it every `started` has an end after it (`StartedHasAnEnd`). Since the channel
drops the oldest events only, and the last event of a turn is an end, what it keeps
always satisfies this (`KeepsLastPart`, `SendEnds`), whatever its capacity.

**PersistenceProofs.** `PersistInv` has a part per store. Of the sessions: what is coming
(pending, being written, on disk) is at least what the last quit promised. Of the
UI state: no field is ahead of the window, and the state a change builds on has every
field that only takes new values as the window has it; this is where toggles are
excluded, as a field that goes back may equal the state being written while another is
pending (section 6). Of the notes: a load is current only if it began after the last
stroke, and strokes that nothing is pending for are being written or on disk; what is in the
editor, in a load or in a write is of the worktree it belongs to.

**CodexRunnerProofs.** `RunnerInv` follows what is in the pipe. A request has one answer,
that is owed, in the pipe or taken (`OneReply`, `Numbered`); a turn has one end, that is to
come, in the pipe or read (`OneEnd`), and until the first turn there is nothing to say of
one (`NoTurnYet`). So the turns the two sides count agree (`TurnsCounted`), which gives
`TurnsAlwaysCounted` and that no attempt makes more than `max_turns`. For
`NothingIsEverMissed` it says where what the runner waits for *is*: if the server confirms
a turn before it speaks of it, the end stands behind the answer (`EndFollows`), so
that it cannot be what `read_response` throws away; and a question without an
answer is in the pipe (`AsksAhead`). `AttemptKeepsReport` is the refinement of
`AttemptReport`: what is said over the pipe stutters, the answer to `turn/start` and the end
of a turn tell, `child.wait()` and an abort return. `ReportInv` remembers for it,
from the end of the conversation to the return, what the result has to agree with. The
refinement (`KeepsReport`) holds on the instance of `codex_runner` as well and can be added
to its configuration.

**WorktreeRowsProofs.** The operators of the module take the record of the window and
give the next one, and so do the lemmas: each says what an operation keeps of a `Good`
window. That is one whose rows, whose saved states (pending, being written and last), and the
rows and cache *a refresh has captured*, show a pull request only as the answer to a question
about the branch they name; whose two flags belong to tasks; whose
refresh selects what waits to be selected (`SelectsPending`); and whose selected
worktree has a row. The captured part is what makes `PullRequestAnswersBranch`
inductive, since the end of a refresh brings old rows back. An operation that leaves
refresh and selection alone is `Apart`, and then only its own part is to be shown. `CreatedGetsSelected`
is an action property from the same invariant. That a first row exists among the listed
ones, which the code gets from the order of its list, is by the least of a set of
numbers (`MinOfNat`).

Types are proved rather than run (`TypeOK` of `Symphony`, `TerminalDaemon`,
`TaskScheduler`, `AgentTurns`, `AgentChat`, `Persistence` and `WorktreeRows`,
`ManagerTypeOK`, `ActivityTypeOK`, `CodexTypeOK`).

**Only model-checked.** Every invariant and action property of the passing runs is
proved, some of them from the premises named above. What is left is everything under
fairness (`TerminalIsForgotten`, `StopEndsWorkers`, `DeadSessionsGo`, `RestartSettles`,
`TurnsAreRecorded`, `EndedTurnIsHeard`, `LagIsRepaired`, `QuitEnds`, `RunEnds`), which is out
of the prover's reach.

## 5. What holds

The message-by-issue-id protocol of Symphony is sound: a run stays in the table
until the single finish of its own worker is handled, so no finish can meet
a later run, even over aborts, stalls, reopened issues and stops. Late events
are harmless but do occur: an event of an aborted worker may count as
activity of the next run. The workspace of a working agent is safe from late
removals as long as an issue does not leave a terminal state; if it is
reopened while the removal waits, a removal can hit the new attempt's directory
(`WorkspaceIntact` is stated for trackers that do not reopen). The daemon loses
no child whatever fails, and neither does the manager on top of it.

The runner drops what it reads while it waits for an answer, and yet misses nothing of
a server that confirms a turn before it speaks of it, because it never waits while a
turn is open otherwise; questions are answered by both readers. The clock that
`stream_turn` looks at after every line is what ends a turn whose server never falls
silent. What has no clock is the wait for an answer, which every line begins anew, and every
write.

The scheduler's table and the chat's listener keep their promises under every
order of requests and ends, and their bounded channels lose nothing that matters.
In the window, matching an answer to a row by path *and* branch is what keeps an answer from
a row that has gone to another branch since the question, over refreshes that put captured
rows back and saves that end late. It does not make the answer right: a lookup that falls back
on what is checked out may bring the pull request of another branch (section 6). The
end of every refresh clears all flags, not
only its own, which is why none stays behind; the epoch of a worktree keeps turns
in order; the generation of the notes keeps a late load off what was typed.

## 6. Where the code and its documents disagree

`worktree_delete` ends in a counterexample: the delete dialog shows the name of
the worktree it was opened for, and remembers its place in the list. A refresh
that adds or removes a row before it is confirmed makes another worktree be
deleted (`arbor-gui/src/worktree_lifecycle.rs:451`).

`reap_watched` ends in one too: `reap_exited_sessions` removes an ended session while a client
is subscribed to it. It looks at the state only (`terminal_daemon.rs:577-585`), and the comment
above it (574-575) says that sessions with active receivers stay.

Eleven more are shown in the same way by configurations that are not among the runs
of `PROJECT.json`; each of them ends in a counterexample.

| configuration | module | property | what happens |
| --- | --- | --- | --- |
| `ProcessUnnoticed.cfg` | `MCProcessManager` | `CrashIsNoticed` | a session that ends just before a tick that reaps is removed before the crash check sees it (`startup.rs:197`); its stored record still says running, and the process is reported as running without a session from then on |
| `ProcessRefused.cfg` | `MCProcessManager` | `RestartSucceeds` | after a reap the stored record keeps the old session in the list; the restart tries to kill it, is refused, and fails, as does every later start (`process_manager.rs:598`) |
| `ProcessSwitched.cfg` | `MCProcessManager` | `SwitchedSettles` | `auto_restart` switched off while a restart is pending leaves the process restarting for ever (`process_manager.rs:158`); for a removed definition the code handles the same case |
| `ProcessUnsaved.cfg` | `MCProcessManager` | `StoppedHasNoSession` | a start whose save fails leaves a session whose process is recorded without it; stopping the process then leaves the child running (`process_manager.rs:551`) |
| `CodexEndless.cfg` | `MCCodexRunner` | `EndsDespiteTalk` | a server that owes an answer and talks for ever keeps the attempt for ever, as `read_timeout_ms` begins anew with every line (`codex.rs:357`). So do blank lines in a turn: they skip the check of the clock (`codex.rs:322-323`) |
| `CodexDeaf.cfg` | `MCCodexRunner` | `EndsUnread` | a server that answers `initialize` and then reads no more blocks the attempt when the pipe is full: `write_all` and `flush` have no timeout (`codex.rs:385-390, 577-578`) |
| `TurnsRefreshed.cfg` | `MCAgentTurns` | `TurnsSurviveRefreshes` | a turn that is recorded while a listing is under way is lost when the end of the listing restores the rows it captured, though the agent stays waiting (`worktree_refresh.rs:315-328, 373`) |
| `PrOfDisk.cfg` | `MCWorktreeRows` | `PrIsOfBranch` | a lookup without details asks GitHub for the branch that is checked out at that moment and answers for the one it was asked about (`github_pr_refresh.rs:275-277`, `github_helpers.rs:101, 123-129`): a row, and the cache, show the pull request of another branch |
| `ThemeLost.cfg` | `MCPersistence` | `ThemeIsSaved` | the save of a theme is not counted (`app_init.rs:1034-1047`), so a quit does not wait for it |
| `UiReverted.cfg` | `MCPersistence` | `ToggleReachesDisk` | a toggle that goes back while its first write is under way is dropped in favour of a change that is queued (`workspace_layout.rs:16-18`): disk and window differ until the next change |
| `NotesLost.cfg` | `MCPersistence` | `NotesArePersisted` | what is typed before the file has been read stands alone in the editor and is written over what the file held (`workspace_navigation.rs:2369, 2380, 2436`). Another way to the same: a save left over from one worktree takes the empty editor of the next and writes it to that one's file (2432-2436), where the stroke it was for is lost as well. `docs/src/workspace-model.md:46` says that notes are persisted |

More were met while reading, and have no configuration:
- `kill` merges the record of the killed session back into the store
  (`terminal_daemon.rs:533-549, 699`); `docs/daemon-contract.md:53` says
  "On kill/exit, `remove` record." The model follows the code.
- `restart_delay_ms` is parsed (`arbor-core/src/repo_config.rs:38`) and read nowhere;
  the first restart comes after a second.
- A chat that was killed is back after a restart: neither `kill` nor its handler
  saves the store (`agent_chat.rs:529`, `routes.rs:2608`).
- A linked review worktree cannot be created: the fetch makes the branch
  (`worktree_lifecycle.rs:2745`), and `worktree::add` then asks for the same branch
  without force (`arbor-core/src/worktree.rs:129`).
- Only a failed setup script is rolled back (`worktree_lifecycle.rs:2573`). When git
  cannot add the worktree its new branch stays, and a retry is refused because of it.
- The window's copy of a terminal loses its exit code when it is resized
  (`types.rs:962`), and when a rebuild that read the code before the Exit event
  stores its snapshot after it (`daemon_runtime.rs:565`).
- Output and exits that fall between the first snapshot of a terminal's WebSocket
  and its subscription reach the client by neither (`routes.rs:1001-1021`).

Hazards that have no property, beyond those of `PROJECT.json`:
- the sleep of Symphony's loop is created anew in every iteration, so events faster
  than the polling interval put every tick off (`service.rs:247`);
- the workflow loader remembers a file's time before it has parsed it
  (`workflow.rs:87`), and a hook's output is cut at byte 240 (`workspace.rs:209`);
- the session store is overwritten in place (`arbor-core/src/daemon.rs:286`), and a
  failed save of chats is only logged (`agent_chat.rs:370`);
- an update of the hub is broadcast after the lock is released (`routes.rs:1314`);
- a question with the number of the request is taken for its answer (`codex.rs:369`);
- a command that hangs keeps its task running for ever (`task_scheduler.rs:439`);
- one delete dialog receives the result of another (`worktree_lifecycle.rs:498`), a
  listing slower than fifteen seconds is always dropped (`background_pollers.rs:146`),
  and a selection made during a listing is undone (`worktree_refresh.rs:379`);
- saving notes creates the directory of a worktree that was deleted
  (`workspace_navigation.rs:2447`); two configuration saves at once lose one
  (`app_config.rs:385`); presets and remote daemons are kept by indices that
  shift (`repo_presets.rs:235`, `background_pollers.rs:342`).

## 7. Abstractions to know of

- A save of the session store or of the chats is one step. A file torn by a crash in
  the middle of the write is not modelled. The saves of the window do take time, and may fail.
- A kill that fails changes nothing in the model, and a child may end at any time
  anyway.
- A message sent to an actor that has stopped is lost, as in the code.
- The tracker's answer is a consistent picture of one moment; pages fetched one
  after another are not told apart. So is what git lists.
- A program restart is atomic. Children are hung up by the closing of their ptys
  and are not followed further.
- Definitions on disk are read atomically.
- The agent that a scheduled task's trigger spawns is part of the end of its command.
- Outposts, ports, issues and processes of a row are left out of `WorktreeRows`; a
  refresh that changes one of them is its `other`. One deletion runs at a time.
- The operations of the daemon are atomic, as its mutex makes them for everybody but a crash:
  the program does not stop between the insertion of a session and the save.
- A save that is under way when the program restarts is on disk or is not; it is never half.
- The issue cache of the window is queued by the same code as the UI state and not
  modelled a second time.

## 8. Plan

1. `daemon_runtime.rs`: a terminal's connection to the daemon over reconnects. Met
   while reading it: a rebuild that is asked for between the failed exchange of the flag
   and the note that one is pending is not made; an exit code is overwritten by a
   rebuild that read it before; output between the snapshot and the subscription is in
   neither. With it the subscribers of the hub, and the gap of `routes.rs:1394`.
2. The workflow loader and a torn session store, worktree rollback.
3. Proofs: an abstract feed for the subscribers of the scheduler.

## 9. Running it

    tlc -workers 2 -config SymphonyRuns.cfg MCSymphonyRuns.tla
    tlapm SymphonyProofs.tla

`PROJECT.json` names the module and the configuration of each run. The longest
takes a few minutes on two cores; the proofs take about fifteen.
