----------------------------- MODULE AgentTurns -----------------------------
(***************************************************************************)
(* The turns of coding agents as the desktop application sees them         *)
(* (crates/arbor-gui, agent_activity.rs): messages of the daemon's         *)
(* activity feed change the sessions, the state of each worktree's agent   *)
(* is derived from them, and an agent that goes from working to waiting    *)
(* has finished a turn.  A background task then inspects the worktree, may *)
(* commit it (the automatic checkpoint), and reports to the window, which  *)
(* records the turn.  An inventory refresh replaces the rows by ones that  *)
(* carry over what was captured when the refresh began.                    *)
(*                                                                         *)
(* A handler of the window is one step on the record ui.  The set of       *)
(* checkpoints under way and the epoch of each worktree are behind mutexes *)
(* that tasks and window share: each time one is locked is a step.         *)
(***************************************************************************)
EXTENDS Naturals, Sequences, FiniteSets, Maps

CONSTANTS
    Paths,        \* worktrees
    Sessions,     \* agent sessions
    Cwd,          \* Cwd[s]: the worktree the session s runs in
    Diffs,        \* what the size of a worktree's changes may be
    KeptTurns,    \* how many turns a row remembers, 5 in the code
    MaxMessages,  \* bound: messages of the feed
    MaxRefreshes, \* bound: inventory refreshes
    None

ASSUME TurnsAssumption ==
    /\ Cwd \in [Sessions -> Paths]
    /\ KeptTurns \in Nat \ {0} /\ {MaxMessages, MaxRefreshes} \subseteq Nat
    /\ None \notin Diffs

VARIABLES
    ui,     \* the window: sessions, rows and the refresh under way
    tasks,  \* the background tasks of finished turns
    epoch,  \* the epoch of each worktree: how often its agent's state changed
    busy,   \* the worktrees with a checkpoint under way
    left    \* what is left of the bounds

vars == <<ui, tasks, epoch, busy, left>>

-----------------------------------------------------------------------------
(* Data *)

AgentState == {"working", "waiting"}

\* A turn is known by the epoch that it ended in.
Row == [agent : AgentState \cup {None}, turns : Seq([epoch : Nat, diff : Diffs]),
        stuck : Nat]

NewRow == [agent |-> None, turns |-> <<>>, stuck |-> 0]

\* A task has started, has found its epoch current, holds the checkpoint of its
\* worktree, is about to commit, or is to report to the window.
Phase == {"started", "checked", "claimed", "committing", "reporting"}

Task == [path : Paths, epoch : Nat, phase : Phase, diff : Diffs, checkpoint : BOOLEAN]

-----------------------------------------------------------------------------
(* The state of a worktree's agent *)

\* Working if any session there is, else waiting if there is one.
Derived(sessions, p) ==
    LET states == {sessions[s] : s \in {x \in DOMAIN sessions : Cwd[x] = p}}
    IN  IF "working" \in states THEN "working"
        ELSE IF states = {} THEN None ELSE "waiting"

Changed(u) == {p \in DOMAIN u.rows : u.rows[p].agent # Derived(u.sessions, p)}

Reconciled(u) ==
    [p \in DOMAIN u.rows |-> [u.rows[p] EXCEPT !.agent = Derived(u.sessions, p)]]

Finished(u) ==
    {p \in Changed(u) : u.rows[p].agent = "working" /\ Derived(u.sessions, p) = "waiting"}

\* Every change of a derived state begins a new epoch.  Only the messages that
\* may end a turn start tasks.
Reconcile(u, allow) ==
    /\ ui' = [u EXCEPT !.rows = Reconciled(u)]
    /\ epoch' = [p \in Paths |-> IF p \in Changed(u) THEN epoch[p] + 1 ELSE epoch[p]]
    /\ \E diff \in [Paths -> Diffs], checkpoint \in [Paths -> BOOLEAN] :
          tasks' = tasks \cup
            {[path |-> p, epoch |-> epoch[p] + 1, phase |-> "started",
              diff |-> diff[p], checkpoint |-> checkpoint[p]] :
                p \in IF allow THEN Finished(u) ELSE {}}

-----------------------------------------------------------------------------
(* Messages of the feed *)

\* What the feed says is left open: it may skip states and repeat itself.
Receive == left.messages > 0 /\ left' = [left EXCEPT !.messages = @ - 1] /\ UNCHANGED busy

Snapshot(sessions) ==
    Receive /\ Reconcile([ui EXCEPT !.sessions = sessions], FALSE)

Update(s, state) ==
    Receive /\ Reconcile([ui EXCEPT !.sessions = Put(@, s, state)], TRUE)

Clear(s) ==
    /\ s \in DOMAIN ui.sessions
    /\ Receive /\ Reconcile([ui EXCEPT !.sessions = Drop(@, s)], FALSE)

-----------------------------------------------------------------------------
(* The task of a finished turn *)

Current(t) == epoch[t.path] = t.epoch

Advance(t, next) == tasks' = (tasks \ {t}) \cup {next} /\ UNCHANGED <<ui, epoch, left>>

To(t, phase) == Advance(t, [t EXCEPT !.phase = phase]) /\ UNCHANGED busy

Check(t) ==
    /\ t.phase = "started"
    /\ To(t, IF t.checkpoint /\ Current(t) THEN "checked" ELSE "reporting")

ClaimAnyway(t) ==
    /\ t.phase = "checked"
    /\ busy' = busy \cup {t.path} /\ Advance(t, [t EXCEPT !.phase = "claimed"])

ClaimOrVanish(t) ==
    /\ t.phase = "checked"
    /\ IF t.path \in busy
       THEN tasks' = tasks \ {t} /\ UNCHANGED <<ui, epoch, busy, left>>
       ELSE busy' = busy \cup {t.path} /\ Advance(t, [t EXCEPT !.phase = "claimed"])

\* A worktree whose last checkpoint has not finished gets no second one.
Claim(t) ==
    /\ t.phase = "checked"
    /\ IF t.path \in busy THEN To(t, "reporting")
       ELSE busy' = busy \cup {t.path} /\ Advance(t, [t EXCEPT !.phase = "claimed"])

Release(t) ==
    busy' = busy \ {t.path} /\ Advance(t, [t EXCEPT !.phase = "reporting"])

\* changed: whether there is anything to commit.
Inspect(t, changed) ==
    /\ t.phase = "claimed"
    /\ IF changed /\ Current(t) THEN To(t, "committing") ELSE Release(t)

Commit(t) == t.phase = "committing" /\ Release(t)

-----------------------------------------------------------------------------
(* The window records the turn *)

FirstN(turns) == SubSeq(turns, 1, IF Len(turns) < KeptTurns THEN Len(turns) ELSE KeptTurns)

Stuck(row, t) ==
    IF row.turns # <<>> /\ row.turns[1].diff = t.diff THEN row.stuck + 1 ELSE 0

Recorded(row, t) ==
    [row EXCEPT !.stuck = Stuck(row, t),
                !.turns = FirstN(<<[epoch |-> t.epoch, diff |-> t.diff]>> \o @)]

AcceptsLate(t) == t.path \in DOMAIN ui.rows /\ ui.rows[t.path].agent = "waiting"

\* A report is dropped when the agent's state has changed since.
Accepts(t) ==
    /\ Current(t)
    /\ t.path \in DOMAIN ui.rows /\ ui.rows[t.path].agent = "waiting"

Report(t) ==
    /\ t.phase = "reporting"
    /\ tasks' = tasks \ {t}
    /\ ui' = IF Accepts(t) THEN [ui EXCEPT !.rows[t.path] = Recorded(@, t)] ELSE ui
    /\ UNCHANGED <<epoch, busy, left>>

-----------------------------------------------------------------------------
(* The inventory refresh *)

StartRefresh ==
    /\ left.refreshes > 0 /\ left' = [left EXCEPT !.refreshes = @ - 1]
    /\ ui' = [ui EXCEPT !.refresh = ui.rows]
    /\ UNCHANGED <<tasks, epoch, busy>>

CarriesCountOnly(p) ==
    IF p \in DOMAIN ui.refresh THEN [ui.refresh[p] EXCEPT !.turns = <<>>] ELSE NewRow

Carried(p) == IF p \in DOMAIN ui.refresh THEN ui.refresh[p] ELSE NewRow

RestoresOnly(listed) ==
    /\ ui.refresh # None
    /\ ui' = [ui EXCEPT !.rows = [p \in listed |-> Carried(p)], !.refresh = None]
    /\ UNCHANGED <<tasks, epoch, busy, left>>

\* listed: the worktrees found on disk.
ApplyRefresh(listed) ==
    /\ ui.refresh # None
    /\ Reconcile([ui EXCEPT !.rows = [p \in listed |-> Carried(p)],
                            !.refresh = None], FALSE)
    /\ UNCHANGED <<busy, left>>

-----------------------------------------------------------------------------
Init ==
    /\ ui = [sessions |-> EmptyMap, rows |-> [p \in Paths |-> NewRow], refresh |-> None]
    /\ tasks = {} /\ epoch = [p \in Paths |-> 0] /\ busy = {}
    /\ left = [messages |-> MaxMessages, refreshes |-> MaxRefreshes]

TaskStep(t) ==
    Check(t) \/ Claim(t) \/ (\E changed \in BOOLEAN : Inspect(t, changed)) \/ Commit(t) \/ Report(t)

Next ==
    \/ \E S \in SUBSET Sessions : \E sessions \in [S -> AgentState] : Snapshot(sessions)
    \/ \E s \in Sessions, state \in AgentState : Update(s, state)
    \/ \E s \in Sessions : Clear(s)
    \/ \E t \in tasks : TaskStep(t)
    \/ StartRefresh
    \/ \E listed \in SUBSET Paths : ApplyRefresh(listed)

Spec == Init /\ [][Next]_vars

\* Background tasks and the window's event loop run on.
FairSpec == Spec /\ WF_vars(\E t \in tasks : TaskStep(t))

-----------------------------------------------------------------------------
(* Properties *)

\* Everything has its type, and no row keeps more turns than it may.
TypeOK ==
    /\ DOMAIN ui.sessions \subseteq Sessions
    /\ \A s \in DOMAIN ui.sessions : ui.sessions[s] \in AgentState
    /\ \A rows \in {ui.rows} \cup ({ui.refresh} \ {None}) :
          /\ DOMAIN rows \subseteq Paths
          /\ \A p \in DOMAIN rows : rows[p] \in Row /\ Len(rows[p].turns) <= KeptTurns
    /\ tasks \subseteq Task /\ busy \subseteq Paths /\ epoch \in [Paths -> Nat]

\* A row always shows the state of the sessions the window knows of, also after
\* a refresh that began when they were in other states.
RowsShowActivity ==
    \A p \in DOMAIN ui.rows : ui.rows[p].agent = Derived(ui.sessions, p)

\* Two checkpoints never work on one worktree at the same time, however fast an
\* agent ends its turns.
OneCheckpoint ==
    \A t, v \in tasks :
        {t.phase, v.phase} \subseteq {"claimed", "committing"} /\ t.path = v.path => t = v

\* The turns of a row are in the order in which they ended, and none is there
\* twice: a report that comes after the one of a later turn is not recorded, and
\* a refresh that puts an older list back does not mix them up.
TurnsInOrder ==
    \A p \in DOMAIN ui.rows :
        \A i, j \in DOMAIN ui.rows[p].turns :
            i < j => ui.rows[p].turns[i].epoch > ui.rows[p].turns[j].epoch

\* The count that tells the user an agent is stuck is the number of turns in a
\* row before the last one that left the same changes.
StuckMatchesTurns ==
    \A p \in DOMAIN ui.rows :
        LET turns == ui.rows[p].turns
            stuck == ui.rows[p].stuck
        IN  /\ stuck > 0 => Len(turns) > 1 \/ KeptTurns = 1
            /\ \A i \in DOMAIN turns : i <= stuck + 1 => turns[i].diff = turns[1].diff
            /\ stuck + 2 \in DOMAIN turns => turns[stuck + 2].diff # turns[1].diff

\* The turn of that epoch is the last thing that happened to the agent, and its task is
\* under way.
Ended(p, e) == epoch[p] = e /\ \E t \in tasks : t.path = p /\ t.epoch = e

HasTurn(row, e) == \E i \in DOMAIN row.turns : row.turns[i].epoch = e

\* A refresh is under way that began before the turn of that epoch was recorded: when it
\* is applied it drops the report, or puts back the row without the turn.
RefreshMissed(p, e) == ui.refresh # None /\ ~HasTurn(Carried(p), e)

\* A finished turn is recorded in the end, and no refresh under way will take it away:
\* a checkpoint that is skipped or fails loses no turn.  It is given up only if the
\* agent does not stay waiting, the worktree goes, or a refresh overlaps the report
\* (worktree_refresh.rs:315-328 restores what was captured when it began).
TurnsAreRecorded ==
    \A p \in Paths, e \in 1..(MaxMessages + MaxRefreshes) :
        Ended(p, e)
        ~> \/ Derived(ui.sessions, p) # "waiting" \/ p \notin DOMAIN ui.rows
           \/ RefreshMissed(p, e)
           \/ HasTurn(ui.rows[p], e)

\* The same without the premise on refreshes, which the code does not keep: a refresh
\* that began earlier loses the turn for good though the agent stays waiting.
TurnsSurviveRefreshes ==
    \A p \in Paths, e \in 1..(MaxMessages + MaxRefreshes) :
        Ended(p, e)
        ~> \/ Derived(ui.sessions, p) # "waiting" \/ p \notin DOMAIN ui.rows
           \/ HasTurn(ui.rows[p], e) /\ ~RefreshMissed(p, e)
=============================================================================
