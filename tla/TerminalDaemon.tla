--------------------------- MODULE TerminalDaemon ---------------------------
(***************************************************************************)
(* LocalTerminalDaemon of crates/arbor-httpd: the table of live terminal   *)
(* sessions, the JSON store that remembers them over a restart, and the    *)
(* child process and wait thread of each session.  Every operation runs    *)
(* under the daemon's lock and is one step; a child ends, and its wait     *)
(* thread notices, at any time between two operations.                     *)
(*                                                                         *)
(* An operation is an operator on the daemon's state that also says        *)
(* whether it succeeded, so that ProcessManager can call several of them   *)
(* in one step of its own.  The argument f names the call that fails in    *)
(* this operation, "none" when none does.                                  *)
(***************************************************************************)
EXTENDS Naturals, Maps

CONSTANTS
    Ids,        \* session ids
    Generated,  \* those of them that have the form daemon-<n>
    Watched,    \* those a WebSocket may attach to
    Slots,      \* bound: children of one id that exist at the same time
    Faults      \* the calls that may fail: "list", "kill", "spawn", "save"

ASSUME DaemonAssumption ==
    /\ Generated \subseteq Ids /\ Watched \subseteq Ids
    /\ Faults \subseteq {"list", "kill", "spawn", "save"}

VARIABLE daemon

Fault == Faults \cup {"none"}

-----------------------------------------------------------------------------
(* Data *)

\* A session's child: it runs, it has been told to end, it has ended, and its
\* wait thread has recorded that in the LiveSession.  A slot whose child has
\* ended and whose LiveSession is forgotten is free again.
Phase == {"free", "running", "hungup", "exited", "ended"}

State == {"running", "ended"}

\* live:  sessions, the id of each live session with the slot of its child
\* store: the records of the session store with the state they were saved in
\* watch: the live sessions with an attached WebSocket
IsDaemon(d) ==
    /\ d = [live |-> d.live, store |-> d.store, child |-> d.child, watch |-> d.watch]
    /\ DOMAIN d.live \subseteq Ids /\ d.live \in [DOMAIN d.live -> Slots]
    /\ DOMAIN d.store \subseteq Ids /\ d.store \in [DOMAIN d.store -> State]
    /\ d.child \in [Ids -> [Slots -> Phase]]
    /\ d.watch \subseteq DOMAIN d.live

NewDaemon(store) == [live |-> EmptyMap, store |-> store, watch |-> {},
                     child |-> [s \in Ids |-> [n \in Slots |-> "free"]]]

Done(d) == [daemon |-> d, ok |-> TRUE]
Refused(d) == [daemon |-> d, ok |-> FALSE]

-----------------------------------------------------------------------------
(* Operations *)

\* The phase of the child of a live session, and its recorded state.
ChildOf(d, s) == d.child[s][d.live[s]]
StateOf(d, s) == IF ChildOf(d, s) = "ended" THEN "ended" ELSE "running"

StoredFirst(d) ==
    [s \in DOMAIN d.live \cup (DOMAIN d.store \ Generated) |->
        IF s \in DOMAIN d.store THEN d.store[s] ELSE StateOf(d, s)]

\* A live session's record, and a stored one that is not live unless its id
\* was generated.
Merged(d) ==
    [s \in DOMAIN d.live \cup (DOMAIN d.store \ Generated) |->
        IF s \in DOMAIN d.live THEN StateOf(d, s) ELSE d.store[s]]

PersistCurrentSessions(d, f) ==
    IF f = "save" THEN Refused(d) ELSE Done([d EXCEPT !.store = Merged(d)])

\* Removal from the table; a wait thread that has not finished stays.
Forget(d, S) ==
    [live |-> Restrict(d.live, DOMAIN d.live \ S),
     watch |-> d.watch \ S,
     store |-> d.store,
     child |-> [s \in Ids |-> [n \in Slots |->
                  IF /\ s \in S \cap DOMAIN d.live
                     /\ n = d.live[s] /\ d.child[s][n] = "ended"
                  THEN "free" ELSE d.child[s][n]]]]

HangUp(d, s) ==
    [d EXCEPT !.child[s][d.live[s]] = IF @ = "running" THEN "hungup" ELSE @]

FreeSlots(d, s) == {n \in Slots : d.child[s][n] = "free"}

CanSpawn(d, s) == s \in DOMAIN d.live \/ FreeSlots(d, s) # {}

Spawn(d, s) ==
    LET n == CHOOSE m \in FreeSlots(d, s) : TRUE
    IN  [live |-> Put(d.live, s, n),
         child |-> [d.child EXCEPT ![s][n] = "running"],
         store |-> d.store, watch |-> d.watch]

PersistsFirst(d, s, f) ==
    IF s \in DOMAIN d.live THEN Done(d)
    ELSE IF f = "spawn" THEN Refused(d)
    ELSE LET saved == PersistCurrentSessions(d, f)
         IN  IF saved.ok THEN Done(Spawn(saved.daemon, s)) ELSE saved

CreateOrAttach(d, s, f) ==
    IF s \in DOMAIN d.live THEN Done(d)
    ELSE IF f = "spawn" THEN Refused(d)
    ELSE PersistCurrentSessions(Spawn(d, s), f)

ForgetsBeforeKill(d, s, f) ==
    IF s \notin DOMAIN d.live THEN Refused(d)
    ELSE IF f = "kill" /\ ChildOf(d, s) # "ended" THEN Refused(Forget(d, {s}))
    ELSE PersistCurrentSessions(Forget(HangUp(d, s), {s}), f)

\* kill: the killer is called first, the session is removed when that worked.
Kill(d, s, f) ==
    IF s \notin DOMAIN d.live THEN Refused(d)
    ELSE IF f = "kill" /\ ChildOf(d, s) # "ended" THEN Refused(d)
    ELSE PersistCurrentSessions(Forget(HangUp(d, s), {s}), f)

\* signal with terminate or kill: the session stays in the table.
Terminate(d, s, f) ==
    IF s \notin DOMAIN d.live THEN Refused(d)
    ELSE IF f = "kill" /\ ChildOf(d, s) # "ended" THEN Refused(d)
    ELSE PersistCurrentSessions(HangUp(d, s), f)

ExitedStored(d) ==
    {s \in DOMAIN d.live \cap DOMAIN d.store : StateOf(d, s) = "ended"}

Exited(d) == {s \in DOMAIN d.live : StateOf(d, s) = "ended"}

ReapExitedSessions(d, f) ==
    IF Exited(d) = {} THEN d
    ELSE PersistCurrentSessions(Forget(d, Exited(d)), f).daemon

-----------------------------------------------------------------------------
(* The requests of clients *)

Create(s, f) ==
    /\ CanSpawn(daemon, s)
    /\ daemon' = CreateOrAttach(daemon, s, f).daemon

\* write, resize, and signal with interrupt.
Touch(s, f) ==
    /\ s \in DOMAIN daemon.live
    /\ daemon' = PersistCurrentSessions(daemon, f).daemon

Detach(f) == daemon' = PersistCurrentSessions(daemon, f).daemon

Signal(s, f) == daemon' = Terminate(daemon, s, f).daemon

KillTerminal(s, f) == daemon' = Kill(daemon, s, f).daemon

\* A WebSocket subscribes to the output of a live session, and leaves.
Subscribe(s) ==
    /\ s \in DOMAIN daemon.live \cap Watched
    /\ daemon' = [daemon EXCEPT !.watch = @ \cup {s}]

Unsubscribe(s) == daemon' = [daemon EXCEPT !.watch = @ \ {s}]

Client ==
    \/ \E f \in Fault : Detach(f)
    \/ \E s \in Ids :
          \/ \E f \in Fault : Create(s, f) \/ Touch(s, f) \/ Signal(s, f)
                                           \/ KillTerminal(s, f)
          \/ Subscribe(s) \/ Unsubscribe(s)

(* The children and their wait threads *)

ChildExits(s, n) ==
    /\ daemon.child[s][n] \in {"running", "hungup"}
    /\ daemon' = [daemon EXCEPT !.child[s][n] = "exited"]

WaitThread(s, n) ==
    /\ daemon.child[s][n] = "exited"
    /\ daemon' = [daemon EXCEPT !.child[s][n] =
                     IF s \in DOMAIN daemon.live /\ daemon.live[s] = n
                     THEN "ended" ELSE "free"]

Children == \E s \in Ids, n \in Slots : ChildExits(s, n) \/ WaitThread(s, n)

Reap(f) == daemon' = ReapExitedSessions(daemon, f)

\* The program ends, which hangs up every child, and is started again.
Restart == daemon' = NewDaemon(daemon.store)

-----------------------------------------------------------------------------
Init == daemon = NewDaemon(EmptyMap)

Next == Client \/ Children \/ Restart \/ \E f \in Fault : Reap(f)

Spec == Init /\ [][Next]_daemon

\* The monitor loop reaps every minute, and a wait thread returns once its
\* child has ended.
FairSpec ==
    /\ Spec
    /\ WF_daemon(\E f \in Fault : Reap(f))
    /\ \A s \in Ids, n \in Slots : WF_daemon(WaitThread(s, n))

-----------------------------------------------------------------------------
(* Properties *)

TypeOK == IsDaemon(daemon)

\* A child that nobody has told to end belongs to a session that clients can
\* still find and kill, whichever call failed before.
NoLostIn(d) ==
    \A s \in Ids, n \in Slots :
        d.child[s][n] = "running" => s \in DOMAIN d.live /\ d.live[s] = n

NoLostChild == NoLostIn(daemon)

\* The list never says of a session that it has ended, by its own record or by
\* an old one in the store, while a child of that id still runs.
EndedMeansNoChild ==
    \A s \in DOMAIN Merged(daemon) : Merged(daemon)[s] = "ended" =>
        \A n \in Slots : daemon.child[s][n] # "running"

\* Without failing calls, every live session is in the store, so that a client
\* can restore it after a restart of the daemon.
LiveIsRestorable == DOMAIN daemon.live \subseteq DOMAIN daemon.store

\* The session of an ended child that no client watches does not stay in memory,
\* though its record, or the saving of it, may fail: reap_exited_sessions finds it.
DeadSessionsGo ==
    \A s \in Ids, n \in Slots :
        daemon.child[s][n] = "ended" ~> daemon.child[s][n] # "ended" \/ s \in daemon.watch

\* The comment of reap_exited_sessions (terminal_daemon.rs:574): "Remove sessions that
\* have exited (completed or failed) and have no active broadcast receivers."
ReapKeepsWatched ==
    [][\A f \in Fault : Reap(f) => daemon.watch \subseteq DOMAIN daemon'.live]_daemon
=============================================================================
