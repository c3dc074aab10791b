----------------------------- MODULE AgentChat -----------------------------
(***************************************************************************)
(* The agent chats of the daemon (crates/arbor-httpd, agent_chat.rs and    *)
(* the chat routes): sessions behind the manager's lock, a task per turn   *)
(* that runs the agent and sends what it says into the session's channel,  *)
(* a listener per session that turns these events into messages and into   *)
(* the session's status, and the store that remembers the conversations    *)
(* over a restart.                                                         *)
(*                                                                         *)
(* A turn sends without the lock; the listener and the requests take it.   *)
(* The channel keeps the newest events only: a listener that falls behind  *)
(* goes on with the oldest that is left.                                   *)
(***************************************************************************)
EXTENDS Naturals, Sequences, FiniteSets, SequencesExt, Maps

CONSTANTS
    Ids,          \* sessions; an id is used once
    Capacity,     \* events the channel keeps, 256 in the code
    MaxTurns,     \* bound: MaxTurns[s] turns of session s
    MaxSaid,      \* bound: events of a turn before its last
    MaxRestarts,  \* bound: restarts of the daemon
    None

ASSUME ChatAssumption ==
    /\ {Capacity, MaxSaid, MaxRestarts} \subseteq Nat /\ MaxTurns \in [Ids -> Nat \ {0}]
    /\ Capacity > 0 /\ None \notin Nat

VARIABLES
    sessions,  \* the manager's table
    store,     \* the conversations on disk
    turns,     \* the turns that run
    queue,     \* queue[s]: what the listener of s has not received
    spent      \* turns started per session, restarts

vars == <<sessions, store, turns, queue, spent>>

-----------------------------------------------------------------------------
(* Data *)

\* A text is the sequence of the turns its chunks come from.
Message == [by : {"user", "assistant", "error"}, text : Seq(Nat)]

\* pending: what was received of the answer; cancel: the turn whose cancel
\* handle the session holds.
Session == [status : {"idle", "working"}, messages : Seq(Message),
            pending : Seq(Nat), cancel : Nat \cup {None}]

Turn == [id : Ids, n : Nat, said : 0..MaxSaid, cancelled : BOOLEAN]

Event == [kind : {"started", "chunk", "completed", "error"}, n : Nat]

User(n) == [by |-> "user", text |-> <<n>>]
Answer(text) == [by |-> "assistant", text |-> text]
Failure(n) == [by |-> "error", text |-> <<n>>]

Finals == {"completed", "error"}

-----------------------------------------------------------------------------
(* Events and the store *)

NewestKept(q) == SubSeq(q, Len(q) - Capacity + 1, Len(q))

Keep(q) == IF Len(q) <= Capacity THEN q ELSE NewestKept(q)

Send(s, events) ==
    queue' = IF s \in DOMAIN queue THEN [queue EXCEPT ![s] = Keep(@ \o events)] ELSE queue

\* What is written of a session: an unfinished answer as a message.
Record(session) ==
    session.messages \o (IF session.pending = <<>> THEN <<>> ELSE <<Answer(session.pending)>>)

Persisted(table) == [s \in DOMAIN table |-> Record(table[s])]

-----------------------------------------------------------------------------
(* Requests *)

NewSession == [status |-> "idle", messages |-> <<>>, pending |-> <<>>, cancel |-> None]

Asked(session, n) ==
    [session EXCEPT !.status = "working", !.cancel = n, !.messages = Append(@, User(n))]

NewTurn(s, n) == [id |-> s, n |-> n, said |-> 0, cancelled |-> FALSE]

Count(s) == spent' = [spent EXCEPT !.turns[s] = @ + 1]

\* A session whose creation came with no prompt has no turn yet.
CreateSession(s, prompt) ==
    /\ s \notin spent.used
    /\ sessions' = Put(sessions, s, IF prompt THEN Asked(NewSession, 1) ELSE NewSession)
    /\ turns' = turns \cup (IF prompt THEN {NewTurn(s, 1)} ELSE {})
    /\ queue' = Put(queue, s, IF prompt THEN <<[kind |-> "started", n |-> 1]>> ELSE <<>>)
    /\ spent' = [spent EXCEPT !.used = @ \cup {s}, !.turns[s] = IF prompt THEN 1 ELSE 0]
    /\ store' = Persisted(sessions')

SendMessage(s) ==
    /\ s \in DOMAIN sessions /\ sessions[s].status # "working"
    /\ spent.turns[s] < MaxTurns[s] /\ Count(s)
    /\ LET n == spent.turns[s] + 1
       IN  /\ sessions' = [sessions EXCEPT ![s] = Asked(@, n)]
           /\ turns' = turns \cup {NewTurn(s, n)}
           /\ Send(s, <<[kind |-> "started", n |-> n]>>)
    /\ store' = Persisted(sessions')

Cancelled(s) ==
    {IF t.id = s /\ t.n = sessions[s].cancel THEN [t EXCEPT !.cancelled = TRUE] ELSE t : t \in turns}

Cancel(s) ==
    /\ s \in DOMAIN sessions
    /\ turns' = Cancelled(s)
    /\ sessions' = [sessions EXCEPT ![s].cancel = None]
    /\ UNCHANGED <<store, queue, spent>>

\* kill_agent_chat: the session is removed, the store is not written.
Kill(s) ==
    /\ s \in DOMAIN sessions
    /\ turns' = Cancelled(s)
    /\ sessions' = Drop(sessions, s) /\ queue' = Drop(queue, s)
    /\ UNCHANGED <<store, spent>>

-----------------------------------------------------------------------------
(* A turn *)

Says(t, kind) ==
    /\ t.said < MaxSaid
    /\ turns' = (turns \ {t}) \cup {[t EXCEPT !.said = @ + 1]}
    /\ Send(t.id, <<[kind |-> kind, n |-> t.n]>>)
    /\ UNCHANGED <<sessions, store, spent>>

Chunk(t) == Says(t, "chunk")

\* An error the agent reports does not end its turn.
ReportsError(t) == Says(t, "error")

CancelEndsSilently(t, ok) ==
    /\ turns' = turns \ {t}
    /\ IF t.cancelled THEN UNCHANGED queue
       ELSE Send(t.id, <<[kind |-> IF ok THEN "completed" ELSE "error", n |-> t.n]>>)
    /\ UNCHANGED <<sessions, store, spent>>

\* A turn that ends says so as its last event; one that noticed that it was
\* cancelled ends with an error.
EndTurn(t, ok) ==
    /\ turns' = turns \ {t}
    /\ Send(t.id, <<[kind |-> IF ok THEN "completed" ELSE "error", n |-> t.n]>>)
    /\ UNCHANGED <<sessions, store, spent>>

-----------------------------------------------------------------------------
(* The listener of a session *)

\* The answer received so far becomes a message.
Finalized(session) ==
    [session EXCEPT !.pending = <<>>, !.status = "idle",
        !.messages = @ \o (IF session.pending = <<>> THEN <<>> ELSE <<Answer(session.pending)>>)]

HeardWithoutEnd(session, e) ==
    CASE e.kind = "chunk"     -> [session EXCEPT !.pending = Append(@, e.n)]
      [] e.kind = "started"   -> [session EXCEPT !.pending = <<>>, !.status = "working"]
      [] e.kind = "completed" -> Finalized(session)
      [] e.kind = "error"     -> [session EXCEPT !.messages = Append(@, Failure(e.n))]

\* What the listener makes of an event.
Heard(session, e) ==
    CASE e.kind = "chunk"     -> [session EXCEPT !.pending = Append(@, e.n)]
      [] e.kind = "started"   -> [session EXCEPT !.pending = <<>>, !.status = "working"]
      [] e.kind = "completed" -> Finalized(session)
      [] e.kind = "error"     -> [Finalized(session) EXCEPT !.messages = Append(@, Failure(e.n))]

ListenSavesAnswers(s) ==
    /\ s \in DOMAIN sessions /\ queue[s] # <<>>
    /\ sessions' = [sessions EXCEPT ![s] = Heard(@, Head(queue[s]))]
    /\ queue' = [queue EXCEPT ![s] = Tail(@)]
    /\ store' = IF Head(queue[s]).kind = "completed" THEN Persisted(sessions') ELSE store
    /\ UNCHANGED <<turns, spent>>

\* The end of a turn, good or bad, is written to disk.
Listen(s) ==
    /\ s \in DOMAIN sessions /\ queue[s] # <<>>
    /\ sessions' = [sessions EXCEPT ![s] = Heard(@, Head(queue[s]))]
    /\ queue' = [queue EXCEPT ![s] = Tail(@)]
    /\ store' = IF Head(queue[s]).kind \in Finals THEN Persisted(sessions') ELSE store
    /\ UNCHANGED <<turns, spent>>

-----------------------------------------------------------------------------
\* The daemon ends with its turns; the sessions come back idle.
Restart ==
    /\ spent.restarts < MaxRestarts /\ spent' = [spent EXCEPT !.restarts = @ + 1]
    /\ sessions' = [s \in DOMAIN store |-> [NewSession EXCEPT !.messages = store[s]]]
    /\ queue' = [s \in DOMAIN store |-> <<>>]
    /\ turns' = {} /\ UNCHANGED store

Init ==
    /\ sessions = EmptyMap /\ store = EmptyMap /\ turns = {} /\ queue = EmptyMap
    /\ spent = [used |-> {}, turns |-> [s \in Ids |-> 0], restarts |-> 0]

Next ==
    \/ \E s \in Ids :
          \/ \E prompt \in BOOLEAN : CreateSession(s, prompt)
          \/ SendMessage(s) \/ Cancel(s) \/ Kill(s) \/ Listen(s)
    \/ \E t \in turns :
          \/ Chunk(t) \/ ReportsError(t)
          \/ \E ok \in BOOLEAN : EndTurn(t, ok)
    \/ Restart

Spec == Init /\ [][Next]_vars

\* The listeners run on.  That a turn ends is not assumed.
FairSpec == Spec /\ \A s \in Ids : WF_vars(Listen(s))

-----------------------------------------------------------------------------
(* Properties *)

RunningTurn(s) == \E t \in turns : t.id = s

FinalComing(s) == \E i \in DOMAIN queue[s] : queue[s][i].kind \in Finals

\* Everything has its type, and the channel keeps no more than it may.
TypeOK ==
    /\ DOMAIN sessions \subseteq Ids /\ \A s \in DOMAIN sessions : sessions[s] \in Session
    /\ \A s \in DOMAIN store : \A i \in DOMAIN store[s] : store[s][i] \in Message
    /\ turns \subseteq Turn
    /\ DOMAIN queue = DOMAIN sessions
    /\ \A s \in DOMAIN queue : queue[s] \in Seq(Event) /\ Len(queue[s]) <= Capacity

\* A session that takes no message because it is working has a turn that runs,
\* or the end of one is on its way to the listener: neither events lost to a
\* slow listener, nor turns that overlap after an error, nor a cancellation
\* leave it working for ever.
WorkingHasAnEnd ==
    \A s \in DOMAIN sessions :
        sessions[s].status = "working" => RunningTurn(s) \/ FinalComing(s)

\* What a session shows as said is on disk in the same order, so that a restart
\* at any moment loses no message; what follows there is the start of the
\* answer under way.
MessagesSurvive ==
    \A s \in DOMAIN sessions :
        s \in DOMAIN store /\ IsPrefix(sessions[s].messages, store[s])

\* Once the turns of a session have ended, cancelled or not, it takes messages
\* again.
EndedTurnIsHeard ==
    \A s \in Ids :
        (s \in DOMAIN sessions /\ ~RunningTurn(s))
        ~> (s \notin DOMAIN sessions \/ sessions[s].status = "idle")
=============================================================================
