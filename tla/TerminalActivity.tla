-------------------------- MODULE TerminalActivity --------------------------
(***************************************************************************)
(* Which terminals wait for their user: the activity of every LiveSession  *)
(* of TerminalDaemon, set by its reader thread when the bell rings and     *)
(* cleared by input and by its wait thread, the events these threads send, *)
(* and the task of the daemon that turns the events into the agent         *)
(* sessions clients are shown.                                             *)
(*                                                                         *)
(* An incarnation of a session is a slot of TerminalDaemon: a session that *)
(* was killed keeps its threads, and sends events under the same id as the *)
(* session that replaced it.                                               *)
(***************************************************************************)
EXTENDS TerminalDaemon, Sequences

CONSTANTS
    Ringing,   \* ids whose terminals ring
    MaxEvents  \* bound: events on their way

ASSUME ActivityAssumption == Ringing \subseteq Ids /\ MaxEvents \in Nat

VARIABLES
    waiting,  \* waiting[s][n]: the activity_state of an incarnation is Waiting
    events,   \* what the threads have sent and the task has not received
    hub       \* the ids of the agent sessions with a terminal's key

activity == <<waiting, events, hub>>
all == <<daemon, waiting, events, hub>>

Event == [kind : {"update", "clear"}, id : Ids]

-----------------------------------------------------------------------------
(* The threads of an incarnation *)

\* note_waiting_for_input: the reader thread heard a bell, and the exit of the
\* child is not recorded yet.
NoteWaiting(s, n) ==
    /\ s \in Ringing /\ daemon.child[s][n] \in {"running", "hungup", "exited"} /\ ~waiting[s][n]
    /\ Len(events) < MaxEvents
    /\ waiting' = [waiting EXCEPT ![s][n] = TRUE]
    /\ events' = Append(events, [kind |-> "update", id |-> s])
    /\ UNCHANGED <<daemon, hub>>

ClearsSilently(s, n) ==
    /\ waiting' = [waiting EXCEPT ![s][n] = FALSE]
    /\ UNCHANGED <<events, hub>>

\* clear_waiting_for_input and clear_activity.
ClearActivity(s, n) ==
    /\ waiting' = [waiting EXCEPT ![s][n] = FALSE]
    /\ events' = IF waiting[s][n] THEN Append(events, [kind |-> "clear", id |-> s]) ELSE events
    /\ UNCHANGED hub

\* Input to a terminal, an interrupt included.
Write(s, f) == s \in DOMAIN daemon.live /\ ClearActivity(s, daemon.live[s]) /\ Touch(s, f)

\* The wait thread records the exit and clears the activity.
ExitRecorded(s, n) == WaitThread(s, n) /\ ClearActivity(s, n)

-----------------------------------------------------------------------------
(* The task that forwards *)

\* apply_terminal_activity_event: upsert_agent_session or remove_agent_session.
Forward ==
    /\ events # <<>> /\ events' = Tail(events)
    /\ hub' = IF Head(events).kind = "update" THEN hub \cup {Head(events).id}
              ELSE hub \ {Head(events).id}
    /\ UNCHANGED <<daemon, waiting>>

\* A session that was not updated for five minutes goes with the next update.
Expires(s) == s \in hub /\ hub' = hub \ {s} /\ UNCHANGED <<daemon, waiting, events>>

-----------------------------------------------------------------------------
Silent == [s \in Ids |-> [n \in Slots |-> FALSE]]

ActivityInit == Init /\ waiting = Silent /\ events = <<>> /\ hub = {}

DaemonRequests ==
    \/ \E f \in Fault : Detach(f) \/ Reap(f)
    \/ \E s \in Ids :
          \/ \E f \in Fault : Create(s, f) \/ Signal(s, f) \/ KillTerminal(s, f)
          \/ Subscribe(s) \/ Unsubscribe(s)

ActivityNext ==
    \/ DaemonRequests /\ UNCHANGED activity
    \/ \E s \in Ids, n \in Slots :
          \/ ChildExits(s, n) /\ UNCHANGED activity
          \/ ExitRecorded(s, n) \/ NoteWaiting(s, n)
    \/ \E s \in Ids, f \in Fault : Write(s, f)
    \/ Forward \/ \E s \in Ids : Expires(s)
    \/ Restart /\ waiting' = Silent /\ events' = <<>> /\ hub' = {}

ActivitySpec == ActivityInit /\ [][ActivityNext]_all

\* As FairSpec.
ActivityFairSpec ==
    /\ ActivitySpec
    /\ WF_all((\E f \in Fault : Reap(f)) /\ UNCHANGED activity)
    /\ \A s \in Ids, n \in Slots : WF_all(ExitRecorded(s, n))

-----------------------------------------------------------------------------
(* Properties *)

\* Everything has its type, and an incarnation waits only until its exit is
\* recorded.
ActivityTypeOK ==
    /\ waiting \in [Ids -> [Slots -> BOOLEAN]] /\ events \in Seq(Event) /\ hub \subseteq Ids
    /\ \A s \in Ids, n \in Slots :
          waiting[s][n] => daemon.child[s][n] \in {"running", "hungup", "exited"}

Waits(s) == \E n \in Slots : waiting[s][n]

\* A terminal is shown as waiting only while one of its incarnations waits, or the
\* news that it does not are on their way: neither a bell that rings while the
\* child ends, nor a kill and a new session of the same id, leave it shown.
NoGhostWaiting ==
    \A s \in hub : Waits(s) \/ \E i \in DOMAIN events : events[i] = [kind |-> "clear", id |-> s]
=============================================================================
