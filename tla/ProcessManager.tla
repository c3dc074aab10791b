--------------------------- MODULE ProcessManager ---------------------------
(***************************************************************************)
(* The managed processes of crates/arbor-httpd: ProcessManager starts each *)
(* of them in a session of the terminal daemon, a monitor loop looks for   *)
(* crashed ones every two seconds and reaps ended sessions every minute,   *)
(* and one spawned task per crash restarts it after a backoff.  Handlers   *)
(* of HTTP requests start, stop and restart processes after they have read *)
(* the definitions from disk; they, the monitor and the restart tasks hold *)
(* the lock of the manager and then that of the daemon throughout, so each *)
(* is one step, but for start-all and stop-all, which take one process per *)
(* step and keep both locks until the last one.                            *)
(*                                                                         *)
(* A process and its session have the same name here: the session id is a  *)
(* digest of the process id.                                               *)
(***************************************************************************)
EXTENDS TerminalDaemon

CONSTANTS
    Procs,         \* processes that arbor.toml or a Procfile may define
    AutoStart,     \* those that start-all starts
    Definitions,   \* what the files may define: processes with auto_restart
    Requests,      \* bound: handlers at work at the same time
    MaxBackoff,    \* MAX_BACKOFF_SECS
    MaxTimers,     \* bound: restart tasks of one process told apart
    ReapEvery,     \* monitor ticks from one reap to the next
    Clients        \* do clients kill and create sessions of processes?

ASSUME ManagerAssumption ==
    /\ Procs \subseteq Ids /\ Procs \cap Generated = {}
    /\ Definitions \subseteq UNION {[P -> BOOLEAN] : P \in SUBSET Procs}
    /\ MaxBackoff \in Nat \ {0}
    /\ MaxTimers \in Nat \ {0} /\ ReapEvery \in Nat \ {0}
    /\ Clients \in BOOLEAN

VARIABLES
    procs,     \* ProcessManager.processes
    defs,      \* the definitions on disk: process -> auto_restart
    request,   \* the handlers at work, with the definitions each has read
    locked,    \* the start-all or stop-all that holds the locks
    schedule,  \* the monitor's restart_schedule, not spawned yet
    timers,    \* restart tasks that sleep, for each process
    ticks      \* ticks_since_reap

vars == <<daemon, procs, defs, request, locked, schedule, timers, ticks>>

-----------------------------------------------------------------------------
(* Data *)

Status == {"stopped", "running", "crashed", "restarting"}

\* session: session_id is set.
Process == [status : Status, session : BOOLEAN, auto : BOOLEAN,
            backoff : 1..MaxBackoff]

FromDefinition(auto) ==
    [status |-> "stopped", session |-> FALSE, auto |-> auto, backoff |-> 1]

\* A stopped process is as if it had just been discovered.
Stopped(proc) == FromDefinition(proc.auto)

-----------------------------------------------------------------------------
(* The operations of ProcessManager.  A world is the manager's processes    *)
(* and the daemon's state; an operation takes one and returns the next.     *)

World == [procs |-> procs, daemon |-> daemon]

Become(w) == procs' = w.procs /\ daemon' = w.daemon

StatusIn(pr, p) == IF p \in DOMAIN pr THEN pr[p].status ELSE "stopped"

KeepsRestarting(pr, ds) ==
    [p \in {q \in DOMAIN pr : q \in DOMAIN ds \/ pr[q].status # "stopped"} |->
        [pr[p] EXCEPT !.auto = p \in DOMAIN ds /\ ds[p]]]

\* A process that is no longer defined is dropped if it is stopped; otherwise it
\* is kept but no longer restarted.
SyncDefinitions(pr, ds) ==
    [p \in {q \in DOMAIN pr : q \in DOMAIN ds \/ pr[q].status # "stopped"} |->
        IF p \in DOMAIN ds THEN [pr[p] EXCEPT !.auto = ds[p]]
        ELSE [pr[p] EXCEPT !.auto = FALSE,
                           !.status = IF @ = "restarting" THEN "crashed" ELSE @]]

\* The tracked process with the definition, or a new one.
Tracked(pr, p, auto) ==
    IF p \in DOMAIN pr THEN [pr[p] EXCEPT !.auto = auto] ELSE FromDefinition(auto)

\* clear_stale_session: the session a process that does not run still names is
\* killed if the daemon lists it.
ClearStaleSession(w, p, f) ==
    IF StatusIn(w.procs, p) = "running"
       \/ ~(p \in DOMAIN w.procs /\ w.procs[p].session) THEN Done(w.daemon)
    ELSE IF f = "list" THEN Refused(w.daemon)
    ELSE IF p \in DOMAIN Merged(w.daemon) THEN Kill(w.daemon, p, f)
    ELSE Done(w.daemon)

\* start_definition: fc is the call that fails while the stale session is
\* cleared, fs the one that fails while the new session is created.
StartDefinition(w, p, auto, manual, fc, fs) ==
    LET cleared == ClearStaleSession(w, p, fc)
        created == CreateOrAttach(cleared.daemon, p, fs)
        tracked == Tracked(w.procs, p, auto)
        started == [status |-> "running", session |-> TRUE,
                    auto |-> tracked.auto,
                    backoff |-> IF manual THEN 1 ELSE tracked.backoff]
        With(proc, d) == [procs |-> Put(w.procs, p, proc), daemon |-> d]
    IN  IF StatusIn(w.procs, p) = "running" THEN w
        ELSE IF ~cleared.ok
             THEN With([tracked EXCEPT !.status = "crashed"], cleared.daemon)
        ELSE IF created.ok THEN With(started, created.daemon)
        ELSE With([tracked EXCEPT !.status = "crashed", !.session = FALSE],
                  created.daemon)

StopsUnkilled(w, p, f) ==
    IF p \notin DOMAIN w.procs THEN Done(w)
    ELSE Done([procs |-> Put(w.procs, p, Stopped(w.procs[p])),
               daemon |-> Kill(w.daemon, p, f).daemon])

\* stop_process_by_id, of a tracked process: an error of kill leaves it as it
\* was.
StopProcessById(w, p, f) ==
    LET killed == Kill(w.daemon, p, f)
        stopped == Put(w.procs, p, Stopped(w.procs[p]))
    IN  IF p \notin DOMAIN w.procs THEN Done(w)
        ELSE IF ~w.procs[p].session THEN Done([w EXCEPT !.procs = stopped])
        ELSE IF killed.ok THEN Done([procs |-> stopped, daemon |-> killed.daemon])
        ELSE Refused([w EXCEPT !.daemon = killed.daemon])

AnyChildEnded(w, p) ==
    /\ w.procs[p].status = "running" /\ w.procs[p].session
    /\ \E n \in Slots : w.daemon.child[p][n] \in {"exited", "ended"}

\* check_and_update: a running process whose session the daemon lists as ended,
\* or does not list, has crashed.  healthy: it ran for a minute.
HasCrashed(w, p) ==
    /\ w.procs[p].status = "running" /\ w.procs[p].session
    /\ p \in DOMAIN Merged(w.daemon) => Merged(w.daemon)[p] = "ended"

Crashed(w) == {p \in DOMAIN w.procs : HasCrashed(w, p)}

Delay(proc, healthy) == IF healthy THEN 1 ELSE proc.backoff

NextBackoff(delay) == IF 2 * delay > MaxBackoff THEN MaxBackoff ELSE 2 * delay

AfterCrash(proc, healthy) ==
    IF proc.auto
    THEN [proc EXCEPT !.status = "restarting",
                      !.backoff = NextBackoff(Delay(proc, healthy))]
    ELSE [proc EXCEPT !.status = "crashed"]

CheckAndUpdate(w, healthy) ==
    [p \in DOMAIN w.procs |-> IF p \in Crashed(w)
                              THEN AfterCrash(w.procs[p], p \in healthy)
                              ELSE w.procs[p]]

RestartSchedule(w, healthy) ==
    {[proc |-> p, delay |-> Delay(w.procs[p], p \in healthy)] :
        p \in {q \in Crashed(w) : w.procs[q].auto}}

-----------------------------------------------------------------------------
(* The handlers of HTTP requests *)

\* A handler reads the definitions before it takes a lock.
Discover(r) ==
    /\ r \notin DOMAIN request
    /\ request' = Put(request, r, defs)
    /\ UNCHANGED <<daemon, procs, defs, locked, schedule, timers, ticks>>

\* It then takes the locks and synchronizes the manager with what it has read.
Synced(r) == [World EXCEPT !.procs = SyncDefinitions(@, request[r])]

\* The locks are free when no loop over processes has any left to do.
Unlocked == locked.todo = {}

NoLoop == [op |-> "none", todo |-> {}, defs |-> EmptyMap]

Takes(r) ==
    /\ Unlocked /\ r \in DOMAIN request
    /\ request' = Drop(request, r)
    /\ UNCHANGED <<defs, schedule, timers, ticks>>

Handled(r) == Takes(r) /\ UNCHANGED locked

ListProcesses(r) == Handled(r) /\ Become(Synced(r))

StartProcess(r, p, fc, fs) ==
    /\ Handled(r) /\ p \in DOMAIN request[r]
    /\ CanSpawn(ClearStaleSession(Synced(r), p, fc).daemon, p)
    /\ Become(StartDefinition(Synced(r), p, request[r][p], TRUE, fc, fs))

StopProcess(r, p, f) ==
    Handled(r) /\ Become(StopProcessById(Synced(r), p, f).daemon)

\* restart_process does not start what it could not stop, and not what is no
\* longer defined.
RestartProcess(r, p, f, fs) ==
    LET stopped == StopProcessById(Synced(r), p, f)
        w == stopped.daemon
    IN  /\ Handled(r)
        /\ \/ /\ stopped.ok /\ p \in DOMAIN request[r]
              /\ CanSpawn(w.daemon, p)
              /\ Become(StartDefinition(w, p, request[r][p], TRUE, "none", fs))
           \/ /\ ~(stopped.ok /\ p \in DOMAIN request[r])
              /\ Become(w)

\* start_all and stop_all take the locks for all of their processes, and go on
\* after one that fails.
Loop(op, todo, ds) ==
    locked' = IF todo = {} THEN NoLoop ELSE [op |-> op, todo |-> todo, defs |-> ds]

StartAll(r) ==
    /\ Takes(r) /\ Become(Synced(r))
    /\ Loop("start", AutoStart \cap DOMAIN request[r], request[r])

StopAll(r) ==
    /\ Takes(r) /\ Become(Synced(r))
    /\ Loop("stop", DOMAIN Synced(r).procs, EmptyMap)

LoopStep(p, f, fs) ==
    /\ p \in locked.todo
    /\ Loop(locked.op, locked.todo \ {p}, locked.defs)
    /\ \/ /\ locked.op = "start"
          /\ CanSpawn(ClearStaleSession(World, p, f).daemon, p)
          /\ Become(StartDefinition(World, p, locked.defs[p], TRUE, f, fs))
       \/ /\ locked.op = "stop"
          /\ Become(StopProcessById(World, p, f).daemon)
    /\ UNCHANGED <<defs, request, schedule, timers, ticks>>

Handler(r) ==
    \/ Discover(r) \/ ListProcesses(r) \/ StartAll(r) \/ StopAll(r)
    \/ \E p \in Procs, f \in Fault : StopProcess(r, p, f)
    \/ \E p \in Procs, f, fs \in Fault : StartProcess(r, p, f, fs)
                                         \/ RestartProcess(r, p, f, fs)

-----------------------------------------------------------------------------
(* The monitor loop and the restart tasks *)

\* One tick, with both locks held.
MonitorTick(f, healthy) ==
    LET reaps == ticks + 1 >= ReapEvery
        w == [World EXCEPT !.daemon =
                 IF reaps THEN ReapExitedSessions(@, f) ELSE @]
    IN  /\ Unlocked /\ schedule = {}
        /\ ticks' = IF reaps THEN 0 ELSE ticks + 1
        /\ daemon' = w.daemon
        /\ IF f = "list" THEN UNCHANGED <<procs, schedule>>
           ELSE /\ procs' = CheckAndUpdate(w, healthy)
                /\ schedule' = RestartSchedule(w, healthy)
        /\ UNCHANGED <<defs, request, locked, timers>>

\* With the locks released, the monitor spawns a task for every restart.
SpawnRestarts ==
    /\ schedule # {}
    /\ timers' = [p \in Procs |->
                    IF (\E s \in schedule : s.proc = p) /\ timers[p] < MaxTimers
                    THEN timers[p] + 1 ELSE timers[p]]
    /\ schedule' = {}
    /\ UNCHANGED <<daemon, procs, defs, request, locked, ticks>>

RestartsAnyTracked(p, fc, fs) ==
    IF p \in DOMAIN procs /\ procs[p].auto
    THEN /\ CanSpawn(ClearStaleSession(World, p, fc).daemon, p)
         /\ Become(StartDefinition(World, p, procs[p].auto, FALSE, fc, fs))
    ELSE UNCHANGED <<daemon, procs>>

\* restart_tracked_process, once the delay is over.
RestartTrackedProcess(p, fc, fs) ==
    IF /\ p \in DOMAIN procs
       /\ procs[p].status = "restarting" /\ procs[p].auto
    THEN /\ CanSpawn(ClearStaleSession(World, p, fc).daemon, p)
         /\ Become(StartDefinition(World, p, procs[p].auto, FALSE, fc, fs))
    ELSE UNCHANGED <<daemon, procs>>

\* A count of MaxTimers stands for any larger one.
RestartTask(p, fc, fs) ==
    /\ Unlocked /\ timers[p] > 0
    /\ \/ timers' = [timers EXCEPT ![p] = @ - 1]
       \/ timers[p] = MaxTimers /\ timers' = timers
    /\ RestartTrackedProcess(p, fc, fs)
    /\ UNCHANGED <<defs, request, locked, schedule, ticks>>

-----------------------------------------------------------------------------
(* The surroundings *)

\* Someone edits arbor.toml or a Procfile, or removes a worktree.
EditDefinitions(ds) ==
    /\ defs # ds /\ defs' = ds
    /\ UNCHANGED <<daemon, procs, request, locked, schedule, timers, ticks>>

\* The other users of the daemon: its children and their wait threads at any
\* time, its clients when the locks are free.
ManagerUnchanged == UNCHANGED <<procs, defs, request, locked, schedule, timers, ticks>>

ChildStep == Children /\ ManagerUnchanged

ClientStep ==
    /\ Unlocked
    /\ \/ \E f \in Fault : Detach(f)
       \/ \E s \in Ids : Subscribe(s) \/ Unsubscribe(s)
       \/ \E s \in Ids, f \in Fault :
             \/ Touch(s, f) \/ Signal(s, f)
             \/ /\ Clients \/ s \notin Procs
                /\ Create(s, f) \/ KillTerminal(s, f)
    /\ ManagerUnchanged

\* The program ends and is started again; only the session store survives.
RestartProgram ==
    /\ Restart
    /\ procs' = EmptyMap /\ schedule' = {} /\ ticks' = 0
    /\ timers' = [p \in Procs |-> 0]
    /\ request' = EmptyMap /\ locked' = NoLoop
    /\ UNCHANGED defs

-----------------------------------------------------------------------------
ManagerInit ==
    /\ Init
    /\ procs = EmptyMap /\ schedule = {} /\ ticks = 0
    /\ defs \in Definitions
    /\ request = EmptyMap /\ locked = NoLoop
    /\ timers = [p \in Procs |-> 0]

Ticks == \E f \in Fault, healthy \in SUBSET Procs : MonitorTick(f, healthy)

RestartTasks(p) == \E fc, fs \in Fault : RestartTask(p, fc, fs)

LoopSteps(p) == \E f, fs \in Fault : LoopStep(p, f, fs)

ManagerNext ==
    \/ \E r \in Requests : Handler(r)
    \/ \E p \in Procs : LoopSteps(p)
    \/ Ticks
    \/ SpawnRestarts
    \/ \E p \in Procs : RestartTasks(p)
    \/ \E ds \in Definitions : EditDefinitions(ds)
    \/ ChildStep \/ ClientStep
    \/ RestartProgram

ManagerSpec == ManagerInit /\ [][ManagerNext]_vars

\* The monitor's interval goes on, a task whose sleep is over takes the locks,
\* a loop that has taken them goes on, and the thread that waits for an ended
\* child returns.
ManagerFairSpec ==
    /\ ManagerSpec
    /\ SF_vars(Ticks) /\ WF_vars(SpawnRestarts)
    /\ \A p \in Procs : SF_vars(RestartTasks(p)) /\ WF_vars(LoopSteps(p))
    /\ \A s \in Ids, n \in Slots : WF_vars(WaitThread(s, n) /\ ManagerUnchanged)

-----------------------------------------------------------------------------
(* Properties *)

ManagerTypeOK ==
    /\ TypeOK
    /\ DOMAIN procs \subseteq Procs /\ procs \in [DOMAIN procs -> Process]
    /\ defs \in Definitions
    /\ DOMAIN request \subseteq Requests /\ request \in [DOMAIN request -> Definitions]
    /\ \/ locked = NoLoop
       \/ /\ locked.op \in {"start", "stop"} /\ locked.todo \subseteq Procs
          /\ locked.defs \in Definitions \cup {EmptyMap}
          /\ locked.op = "start" => locked.todo \subseteq DOMAIN locked.defs
    /\ schedule \subseteq [proc : Procs, delay : 1..MaxBackoff]
    /\ timers \in [Procs -> 0..MaxTimers]
    /\ ticks \in 0..(ReapEvery - 1)

\* Premise: whenever the files define p, they give it auto_restart.
AlwaysAuto(p) == \A ds \in Definitions : p \in DOMAIN ds => ds[p] = TRUE

\* A process reported as restarting will be restarted: a task for it sleeps, or
\* the monitor is about to spawn one, however stops, starts, other crashes and
\* removals of its definition came in between.  Only for a process whose
\* auto_restart is never switched off in the files.
RestartingHasTimer ==
    \A p \in DOMAIN procs : AlwaysAuto(p) /\ procs[p].status = "restarting" =>
        timers[p] > 0 \/ \E s \in schedule : s.proc = p

\* A process comes to run because a request asks for it, or because it waits
\* for its restart: a task left over from an earlier crash does not revive one
\* that was stopped, or that has crashed for good.
NoUnaskedStart ==
    [][\A p \in Procs :
          StatusIn(procs', p) = "running" /\ StatusIn(procs, p) # "running" =>
              \/ request' # request \/ locked' # locked
              \/ /\ p \in DOMAIN procs /\ procs[p].auto
                 /\ procs[p].status = "restarting"]_vars

\* The monitor takes no process for crashed whose child still runs, be the
\* store out of date or the session a new one under an old id.
NoFalseCrash ==
    [][\A p \in DOMAIN procs :
          procs[p].status = "running" /\ ticks' # ticks
          /\ StatusIn(procs', p) \in {"crashed", "restarting"} =>
              \A n \in Slots : daemon.child[p][n] # "running"]_vars

\* A process that is not tracked or is stopped has no session left, unless the
\* store cannot be written or a client made one.
\* docs/http-api-v1.md of /processes/:name/stop: "Stops one named process."
StoppedHasNoSession ==
    \A p \in Procs : StatusIn(procs, p) = "stopped" => p \notin DOMAIN daemon.live

\* A session is killed and made anew with nothing in between.
Replace ==
    \E p \in Procs, f, g \in Fault :
        LET d == Kill(daemon, p, f).daemon
        IN  CanSpawn(d, p) /\ daemon' = CreateOrAttach(d, p, g).daemon

\* The manager only uses the daemon: every step of handlers, loops, the monitor and
\* restart tasks, failing ones too, is at most one operation that a client of
\* TerminalDaemon could ask for, or a kill and a new session of the same process.
UsesDaemon == Init /\ [][Next \/ Replace]_daemon

Settles(p) == StatusIn(procs, p) = "restarting" ~> StatusIn(procs, p) # "restarting"

\* A process does not wait for a restart for ever: it runs again, crashes, is
\* stopped, or is no longer defined.  Only for a process whose auto_restart is
\* never switched off in the files.
RestartSettles == \A p \in Procs : AlwaysAuto(p) => Settles(p)

\* docs/http-api-v1.md of /processes: each process reports its runtime status.
\* The same of every process: none is reported as restarting for ever.
SwitchedSettles == \A p \in Procs : Settles(p)

\* docs/http-api-v1.md of /processes: each process reports its runtime status.
\* One whose session is gone does not report for ever that it runs.
CrashIsNoticed ==
    \A p \in Procs :
        StatusIn(procs, p) = "running" /\ p \notin DOMAIN daemon.live
            ~> StatusIn(procs, p) # "running" \/ p \in DOMAIN daemon.live

\* The test restart_tracked_process_replaces_completed_session: the restart of
\* a process whose session has completed succeeds, if no call fails.
RestartSucceeds ==
    [][\A p \in DOMAIN procs :
          procs[p].status = "restarting" /\ timers' # timers =>
              StatusIn(procs', p) # "crashed"]_vars
=============================================================================
