-------------------------- MODULE AgentChatProofs --------------------------
(***************************************************************************)
(* Theorems about the agent chats, for all sessions, turns, capacities of  *)
(* the channel and bounds.                                                 *)
(***************************************************************************)
EXTENDS AgentChat, TLAPS

-----------------------------------------------------------------------------
(* The invariant *)

Table(f, S) == DOMAIN f \subseteq Ids /\ f \in [DOMAIN f -> S]

\* The events of q, if none but these are to come, end what they start.
EndsWhatStarts(q) ==
    \A k \in DOMAIN q : q[k].kind = "started"
        => \E j \in DOMAIN q : j > k /\ q[j].kind \in Finals

Typed ==
    /\ Table(sessions, Session) /\ Table(store, Seq(Message))
    /\ turns \subseteq Turn
    /\ DOMAIN queue = DOMAIN sessions /\ Table(queue, Seq(Event))
    /\ \A s \in DOMAIN queue : Len(queue[s]) <= Capacity
    /\ spent \in [used : SUBSET Ids, turns : [Ids -> Nat], restarts : Nat]

StartedHasAnEnd ==
    \A s \in DOMAIN queue : RunningTurn(s) \/ EndsWhatStarts(queue[s])

ChatInv == Typed /\ WorkingHasAnEnd /\ StartedHasAnEnd /\ MessagesSurvive

-----------------------------------------------------------------------------
(* Sessions *)

\* Asking adds a message and makes the session work.
LEMMA AskedSession ==
    ASSUME NEW f \in Session, NEW n \in Nat
    PROVE  Asked(f, n) \in Session
<1>1. User(n) \in Message
  BY DEF User, Message
<1>2. Append(f.messages, User(n)) \in Seq(Message)
  BY <1>1 DEF Session
<1> QED
  BY <1>2 DEF Asked, Session

LEMMA NewSessionType == NewSession \in Session
BY DEF NewSession, Session

LEMMA RecordType ==
    ASSUME NEW f \in Session
    PROVE  /\ Record(f) \in Seq(Message) /\ IsPrefix(f.messages, Record(f))
<1> DEFINE tail == IF f.pending = <<>> THEN <<>> ELSE <<Answer(f.pending)>>
<1>1. f.messages \in Seq(Message) /\ f.pending \in Seq(Nat)
  BY DEF Session
<1>2. Answer(f.pending) \in Message
  BY <1>1 DEF Answer, Message
<1>3. tail \in Seq(Message)
  BY <1>2
<1>4. Record(f) = f.messages \o tail
  BY DEF Record
<1> HIDE DEF tail
<1>5. Record(f) \in Seq(Message)
  BY <1>1, <1>3, <1>4
<1>6. IsPrefix(f.messages, f.messages \o tail)
  BY <1>1, <1>3 DEF IsPrefix
<1> QED
  BY <1>4, <1>5, <1>6

LEMMA HeardSession ==
    ASSUME NEW f \in Session, NEW e \in Event
    PROVE  /\ Heard(f, e) \in Session
           /\ e.kind \notin Finals => Heard(f, e).messages = f.messages
           /\ e.kind = "chunk" => Heard(f, e).status = f.status
           /\ e.kind \in Finals => Heard(f, e).status = "idle"
<1>1. /\ f.messages \in Seq(Message) /\ f.pending \in Seq(Nat) /\ e.n \in Nat
      /\ e.kind \in {"started", "chunk", "completed", "error"}
  BY DEF Session, Event
<1>2. CASE e.kind = "chunk"
  <2>1. Append(f.pending, e.n) \in Seq(Nat)
    BY <1>1
  <2>2. Heard(f, e) = [f EXCEPT !.pending = Append(f.pending, e.n)]
    BY <1>2 DEF Heard
  <2> QED
    BY <1>2, <2>1, <2>2 DEF Session, Finals
<1>3. CASE e.kind = "started"
  <2>1. Heard(f, e) = [f EXCEPT !.pending = <<>>, !.status = "working"]
    BY <1>3 DEF Heard
  <2>2. <<>> \in Seq(Nat)
    OBVIOUS
  <2> HIDE DEF Heard
  <2>3. Heard(f, e) \in Session /\ Heard(f, e).messages = f.messages
    BY <2>1, <2>2 DEF Session
  <2> QED
    BY <1>3, <2>3 DEF Finals
<1> DEFINE fin == Finalized(f)
<1>4. /\ fin \in Session /\ fin.status = "idle"
  <2>1. fin = [f EXCEPT !.pending = <<>>, !.status = "idle", !.messages = Record(f)]
    BY DEF Finalized, Record
  <2>2. Record(f) \in Seq(Message) /\ <<>> \in Seq(Nat)
    BY RecordType
  <2> HIDE DEF fin
  <2> QED
    BY <2>1, <2>2 DEF Session
<1>5. CASE e.kind = "completed"
  <2>1. Heard(f, e) = fin
    BY <1>5 DEF Heard
  <2> QED
    BY <1>4, <1>5, <2>1 DEF Finals
<1>6. CASE e.kind = "error"
  <2>1. Heard(f, e) = [fin EXCEPT !.messages = Append(fin.messages, Failure(e.n))]
    BY <1>6 DEF Heard
  <2>2. Failure(e.n) \in Message
    BY <1>1 DEF Failure, Message
  <2> HIDE DEF fin
  <2>3. Append(fin.messages, Failure(e.n)) \in Seq(Message)
    BY <1>4, <2>2 DEF Session
  <2>4. Heard(f, e) \in Session /\ Heard(f, e).status = "idle"
    BY <1>4, <2>1, <2>3 DEF Session
  <2> QED
    BY <1>6, <2>4 DEF Finals
<1> QED
  BY <1>1, <1>2, <1>3, <1>5, <1>6

-----------------------------------------------------------------------------
(* The channel *)

\* The channel keeps a last part of what was sent.
LEMMA KeepsLastPart ==
    ASSUME NEW a \in Seq(Event), Len(a) > 0
    PROVE  /\ Keep(a) \in Seq(Event) /\ Len(Keep(a)) <= Capacity
           /\ Len(Keep(a)) > 0 /\ Len(Keep(a)) <= Len(a)
           /\ \A i \in 1..Len(Keep(a)) : Keep(a)[i] = a[i + (Len(a) - Len(Keep(a)))]
<1>1. Capacity \in Nat /\ Capacity > 0 /\ Len(a) \in Nat
  BY ChatAssumption
<1>2. CASE Len(a) <= Capacity
  <2>1. Keep(a) = a
    BY <1>2 DEF Keep
  <2>2. \A i \in 1..Len(a) : i + (Len(a) - Len(a)) = i
    BY <1>1
  <2> QED
    BY <1>1, <1>2, <2>1, <2>2
<1>3. CASE ~(Len(a) <= Capacity)
  <2>1. Keep(a) = SubSeq(a, Len(a) - Capacity + 1, Len(a))
    BY <1>3 DEF Keep, NewestKept
  <2>2. PICK b \in Nat : b = Len(a) - Capacity
    BY <1>1, <1>3
  <2>3. Len(a) = b + Capacity
    BY <1>1, <2>2
  <2>4. Keep(a) = SubSeq(a, b + 1, b + Capacity)
    BY <2>1, <2>2, <2>3
  <2>5. /\ Keep(a) \in Seq(Event) /\ Len(Keep(a)) = Capacity
        /\ \A i \in 1..Capacity : Keep(a)[i] = a[i + b]
    BY <1>1, <2>3, <2>4
  <2>6. Len(a) - Len(Keep(a)) = b
    BY <1>1, <2>3, <2>5
  <2> QED
    BY <1>1, <2>3, <2>5, <2>6
<1> QED
  BY <1>2, <1>3

\* What the channel keeps ends with what was sent last, and is otherwise a later
\* part of what it held.
LEMMA KeepGood ==
    ASSUME NEW q \in Seq(Event), NEW e \in Event, NEW k, k = Keep(q \o <<e>>)
    PROVE  /\ k \in Seq(Event) /\ Len(k) <= Capacity /\ Len(k) > 0
           /\ k[Len(k)] = e
           /\ \E m \in Nat : \A i \in 1..Len(k) :
                 i < Len(k) => i + m \in 1..Len(q) /\ k[i] = q[i + m]
<1> DEFINE a == q \o <<e>>
<1>1. /\ a \in Seq(Event) /\ Len(a) = Len(q) + 1 /\ a[Len(a)] = e /\ Len(q) \in Nat
      /\ \A i \in 1..Len(q) : a[i] = q[i]
  OBVIOUS
<1>k. k = Keep(a)
  OBVIOUS
<1> HIDE DEF a
<1>2. /\ k \in Seq(Event) /\ Len(k) <= Capacity /\ Len(k) > 0 /\ Len(k) <= Len(a)
      /\ \A i \in 1..Len(k) : k[i] = a[i + (Len(a) - Len(k))]
  <2>1. Len(a) > 0
    BY <1>1
  <2>2. /\ Keep(a) \in Seq(Event) /\ Len(Keep(a)) <= Capacity
        /\ Len(Keep(a)) > 0 /\ Len(Keep(a)) <= Len(a)
        /\ \A i \in 1..Len(Keep(a)) : Keep(a)[i] = a[i + (Len(a) - Len(Keep(a)))]
    BY <1>1, <2>1, KeepsLastPart
  <2> QED
    BY <1>k, <2>2
<1>3. PICK m \in Nat : m = Len(a) - Len(k)
  <2>1. Len(a) \in Nat /\ Len(k) \in Nat
    BY <1>1, <1>2
  <2>2. Len(a) - Len(k) \in Nat
    BY <1>2, <2>1
  <2> QED
    BY <2>2
<1>4. \A i \in 1..Len(k) : k[i] = a[i + m]
  BY <1>2, <1>3
<1>5. Len(k) \in Nat /\ Len(k) + m = Len(q) + 1
  BY <1>1, <1>2, <1>3
<1>6. k[Len(k)] = e
  <2>1. Len(k) \in 1..Len(k) /\ Len(k) + m = Len(a)
    BY <1>1, <1>2, <1>5
  <2> QED
    BY <1>1, <1>4, <2>1
<1>7. ASSUME NEW i \in 1..Len(k), i < Len(k)
      PROVE  i + m \in 1..Len(q) /\ k[i] = q[i + m]
  <2>1. i + m \in 1..Len(q)
    BY <1>1, <1>5, <1>7
  <2> QED
    BY <1>1, <1>4, <2>1
<1> QED
  BY <1>2, <1>6, <1>7

\* Sending keeps the end of what was started, or brings it.
LEMMA SendEnds ==
    ASSUME NEW q \in Seq(Event), NEW e \in Event, NEW k, k = Keep(q \o <<e>>),
           e.kind \in Finals
    PROVE  EndsWhatStarts(k) /\ \E j \in DOMAIN k : k[j].kind \in Finals
<1>1. k \in Seq(Event) /\ Len(k) > 0 /\ k[Len(k)] = e
  BY KeepGood
<1>2. Len(k) \in DOMAIN k /\ DOMAIN k = 1..Len(k) /\ Len(k) \in Nat
  BY <1>1
<1>3. "started" \notin Finals
  BY DEF Finals
<1>4. ASSUME NEW i \in DOMAIN k, k[i].kind = "started"
      PROVE  Len(k) > i
  BY <1>1, <1>2, <1>3, <1>4
<1> QED
  BY <1>1, <1>2, <1>4 DEF EndsWhatStarts

\* Taking the first event from a channel leaves the rest.
LEMMA TailGood ==
    ASSUME NEW q \in Seq(Event), q # <<>>
    PROVE  /\ Tail(q) \in Seq(Event) /\ Len(Tail(q)) <= Len(q) /\ Head(q) \in Event
           /\ Head(q) = q[1]
           /\ \A k \in DOMAIN Tail(q) : k + 1 \in DOMAIN q /\ Tail(q)[k] = q[k + 1]
           /\ \A k \in DOMAIN q : k > 1 => k - 1 \in DOMAIN Tail(q) /\ Tail(q)[k - 1] = q[k]
OBVIOUS

-----------------------------------------------------------------------------
(* The steps *)

\* Every request that writes the store leaves in it what is shown.
LEMMA PersistedGood ==
    ASSUME NEW table, Table(table, Session)
    PROVE  /\ Table(Persisted(table), Seq(Message))
           /\ \A s \in DOMAIN table :
                 s \in DOMAIN Persisted(table) /\ IsPrefix(table[s].messages, Persisted(table)[s])
BY RecordType DEF Persisted, Table

\* Putting a value in a table, and dropping one.
LEMMA PutTable ==
    ASSUME NEW T, NEW f, Table(f, T), NEW s \in Ids, NEW v \in T
    PROVE  /\ Table(Put(f, s, v), T) /\ DOMAIN Put(f, s, v) = DOMAIN f \cup {s}
           /\ Put(f, s, v)[s] = v
           /\ \A x \in DOMAIN f : x # s => Put(f, s, v)[x] = f[x]
BY DEF Put, Table

LEMMA DropTable ==
    ASSUME NEW T, NEW f, Table(f, T), NEW s
    PROVE  /\ Table(Drop(f, s), T) /\ DOMAIN Drop(f, s) = DOMAIN f \ {s}
           /\ \A x \in DOMAIN f : x # s => Drop(f, s)[x] = f[x]
BY DEF Drop, Restrict, Table

LEMMA NewTurnType ==
    ASSUME NEW s \in Ids, NEW n \in Nat
    PROVE  NewTurn(s, n) \in Turn /\ NewTurn(s, n).id = s
BY ChatAssumption DEF NewTurn, Turn

\* Cancelling keeps the turns running.
LEMMA CancelledTurns ==
    ASSUME turns \subseteq Turn, NEW s
    PROVE  /\ Cancelled(s) \subseteq Turn
           /\ \A t \in turns : \E u \in Cancelled(s) : u.id = t.id
<1> DEFINE c(t) == IF t.id = s /\ t.n = sessions[s].cancel
                   THEN [t EXCEPT !.cancelled = TRUE] ELSE t
<1>1. \A t \in turns : c(t) \in Turn /\ c(t).id = t.id
  BY DEF Turn
<1>2. Cancelled(s) = {c(t) : t \in turns}
  BY DEF Cancelled
<1> HIDE DEF c
<1> QED
  BY <1>1, <1>2

LEMMA CreateKeeps ==
    ASSUME ChatInv, NEW s \in Ids, NEW prompt \in BOOLEAN, CreateSession(s, prompt)
    PROVE  ChatInv'
<1> DEFINE f == IF prompt THEN Asked(NewSession, 1) ELSE NewSession
           q == IF prompt THEN <<[kind |-> "started", n |-> 1]>> ELSE <<>>
<1>2. /\ q \in Seq(Event) /\ Len(q) <= Capacity
      /\ ~prompt => DOMAIN q = {}
  <2>1. [kind |-> "started", n |-> 1] \in Event
    BY DEF Event
  <2>2. Capacity \in Nat /\ Capacity > 0
    BY ChatAssumption
  <2> QED
    BY <2>1, <2>2
<1>3. /\ sessions' = Put(sessions, s, f) /\ queue' = Put(queue, s, q)
      /\ store' = Persisted(sessions')
      /\ turns' = turns \cup (IF prompt THEN {NewTurn(s, 1)} ELSE {})
      /\ spent' = [spent EXCEPT !.used = @ \cup {s}, !.turns[s] = IF prompt THEN 1 ELSE 0]
  BY DEF CreateSession
<1> HIDE DEF f, q
<1>0. /\ f \in Session
      /\ ~prompt => f.status = "idle"
  <2>1. Asked(NewSession, 1) \in Session
    BY AskedSession, NewSessionType
  <2> QED
    BY <2>1, NewSessionType DEF f, NewSession
<1>4. /\ Table(sessions', Session) /\ DOMAIN sessions' = DOMAIN sessions \cup {s}
      /\ sessions'[s] = f /\ \A x \in DOMAIN sessions : x # s => sessions'[x] = sessions[x]
  <2>1. Table(sessions, Session)
    BY DEF ChatInv, Typed
  <2>2. /\ Table(Put(sessions, s, f), Session) /\ DOMAIN Put(sessions, s, f) = DOMAIN sessions \cup {s}
        /\ Put(sessions, s, f)[s] = f
        /\ \A x \in DOMAIN sessions : x # s => Put(sessions, s, f)[x] = sessions[x]
    BY <1>0, <2>1, PutTable
  <2> QED
    BY <1>3, <2>2
<1>5. /\ Table(queue', Seq(Event)) /\ DOMAIN queue' = DOMAIN sessions \cup {s}
      /\ queue'[s] = q /\ \A x \in DOMAIN sessions : x # s => queue'[x] = queue[x]
  <2>1. Table(queue, Seq(Event)) /\ DOMAIN queue = DOMAIN sessions
    BY DEF ChatInv, Typed
  <2>2. /\ Table(Put(queue, s, q), Seq(Event)) /\ DOMAIN Put(queue, s, q) = DOMAIN queue \cup {s}
        /\ Put(queue, s, q)[s] = q
        /\ \A x \in DOMAIN queue : x # s => Put(queue, s, q)[x] = queue[x]
    BY <1>2, <2>1 DEF Put, Table
  <2> QED
    BY <1>3, <2>1, <2>2
<1>6. /\ turns' \subseteq Turn /\ turns \subseteq turns'
      /\ prompt => \E t \in turns' : t.id = s
  BY <1>3, NewTurnType DEF ChatInv, Typed
<1>7. spent' \in [used : SUBSET Ids, turns : [Ids -> Nat], restarts : Nat]
  BY <1>3 DEF ChatInv, Typed
<1>8. /\ Table(store', Seq(Message)) /\ MessagesSurvive'
  BY <1>3, <1>4, PersistedGood DEF MessagesSurvive
<1>9. Typed'
  BY <1>2, <1>4, <1>5, <1>6, <1>7, <1>8 DEF ChatInv, Typed
<1>10. WorkingHasAnEnd'
  BY <1>0, <1>4, <1>5, <1>6 DEF ChatInv, WorkingHasAnEnd, RunningTurn, FinalComing
<1>11. StartedHasAnEnd'
  BY <1>2, <1>5, <1>6 DEF ChatInv, Typed, StartedHasAnEnd, RunningTurn, EndsWhatStarts
<1> QED
  BY <1>8, <1>9, <1>10, <1>11 DEF ChatInv

\* Only the channel of the session that something is sent to changes.
LEMMA SentQueue ==
    ASSUME ChatInv, NEW s \in Ids, NEW e \in Event, Send(s, <<e>>)
    PROVE  /\ DOMAIN queue' = DOMAIN sessions /\ Table(queue', Seq(Event))
           /\ \A x \in DOMAIN sessions :
                 /\ Len(queue'[x]) <= Capacity
                 /\ x # s => queue'[x] = queue[x]
                 /\ x = s => queue'[x] = Keep(queue[x] \o <<e>>)
<1>1. /\ DOMAIN queue = DOMAIN sessions /\ DOMAIN queue \subseteq Ids
      /\ queue \in [DOMAIN queue -> Seq(Event)]
      /\ \A x \in DOMAIN sessions : Len(queue[x]) <= Capacity
  BY DEF ChatInv, Typed, Table
<1>2. CASE s \notin DOMAIN queue
  <2>1. queue' = queue
    BY <1>2 DEF Send
  <2> QED
    BY <1>1, <1>2, <2>1 DEF Table
<1>3. CASE s \in DOMAIN queue
  <2> DEFINE k == Keep(queue[s] \o <<e>>)
  <2>1. queue' = [queue EXCEPT ![s] = k]
    BY <1>3 DEF Send
  <2>2. queue[s] \in Seq(Event)
    BY <1>1, <1>3
  <2>3. k \in Seq(Event) /\ Len(k) <= Capacity
    BY <2>2, KeepGood
  <2> HIDE DEF k
  <2>4. /\ DOMAIN queue' = DOMAIN queue /\ queue' \in [DOMAIN queue' -> Seq(Event)]
        /\ queue'[s] = k /\ \A x \in DOMAIN queue : x # s => queue'[x] = queue[x]
    BY <1>1, <1>3, <2>1, <2>3
  <2> QED
    BY <1>1, <1>3, <2>3, <2>4 DEF Table, k
<1> QED
  BY <1>2, <1>3

LEMMA SendMessageKeeps ==
    ASSUME ChatInv, NEW s \in Ids, SendMessage(s)
    PROVE  ChatInv'
<1> DEFINE n == spent.turns[s] + 1
           f == Asked(sessions[s], n)
           e == [kind |-> "started", n |-> n]
<1>1. /\ s \in DOMAIN sessions /\ sessions' = [sessions EXCEPT ![s] = f]
      /\ turns' = turns \cup {NewTurn(s, n)} /\ Send(s, <<e>>)
      /\ store' = Persisted(sessions') /\ spent' = [spent EXCEPT !.turns[s] = @ + 1]
  BY DEF SendMessage, Count
<1>2. /\ Table(sessions, Session) /\ turns \subseteq Turn
      /\ spent \in [used : SUBSET Ids, turns : [Ids -> Nat], restarts : Nat]
  BY DEF ChatInv, Typed
<1>3. n \in Nat /\ sessions[s] \in Session
  BY <1>1, <1>2 DEF Table
<1> HIDE DEF n
<1>4. f \in Session /\ e \in Event
  BY <1>3, AskedSession DEF Event
<1> HIDE DEF f, e
<1>5. /\ Table(sessions', Session) /\ DOMAIN sessions' = DOMAIN sessions
      /\ \A x \in DOMAIN sessions : x # s => sessions'[x] = sessions[x]
  BY <1>1, <1>2, <1>4 DEF Table
<1>6. /\ DOMAIN queue' = DOMAIN sessions /\ Table(queue', Seq(Event))
      /\ \A x \in DOMAIN sessions : /\ Len(queue'[x]) <= Capacity
                                    /\ x # s => queue'[x] = queue[x]
  BY <1>1, <1>4, SentQueue
<1>7. turns' \subseteq Turn /\ turns \subseteq turns' /\ \E t \in turns' : t.id = s
  BY <1>1, <1>2, <1>3, NewTurnType
<1>8. /\ Table(store', Seq(Message)) /\ MessagesSurvive'
  BY <1>1, <1>5, PersistedGood DEF MessagesSurvive
<1>9. spent' \in [used : SUBSET Ids, turns : [Ids -> Nat], restarts : Nat]
  BY <1>1, <1>2
<1>10. Typed'
  BY <1>5, <1>6, <1>7, <1>8, <1>9 DEF Typed
<1>11. WorkingHasAnEnd'
  BY <1>5, <1>6, <1>7 DEF ChatInv, WorkingHasAnEnd, RunningTurn, FinalComing
<1>12. StartedHasAnEnd'
  BY <1>6, <1>7 DEF ChatInv, Typed, StartedHasAnEnd, RunningTurn
<1> QED
  BY <1>8, <1>10, <1>11, <1>12 DEF ChatInv

LEMMA CancelKeeps ==
    ASSUME ChatInv, NEW s \in Ids, Cancel(s)
    PROVE  ChatInv'
<1> DEFINE f == [sessions[s] EXCEPT !.cancel = None]
<1>1. /\ s \in DOMAIN sessions /\ sessions' = [sessions EXCEPT ![s] = f]
      /\ turns' = Cancelled(s) /\ UNCHANGED <<store, queue, spent>>
  BY DEF Cancel
<1>2. Table(sessions, Session) /\ turns \subseteq Turn
  BY DEF ChatInv, Typed
<1>3. sessions[s] \in Session
  BY <1>1, <1>2 DEF Table
<1>4. f \in Session /\ f.status = sessions[s].status /\ f.messages = sessions[s].messages
  BY <1>3 DEF Session
<1> HIDE DEF f
<1>5. /\ Table(sessions', Session) /\ DOMAIN sessions' = DOMAIN sessions
      /\ \A x \in DOMAIN sessions : /\ sessions'[x].status = sessions[x].status
                                    /\ sessions'[x].messages = sessions[x].messages
  BY <1>1, <1>2, <1>4 DEF Table
<1>6. turns' \subseteq Turn /\ \A x : RunningTurn(x) => \E u \in turns' : u.id = x
  BY <1>1, <1>2, CancelledTurns DEF RunningTurn
<1>7. Typed'
  BY <1>1, <1>5, <1>6 DEF ChatInv, Typed
<1>8. WorkingHasAnEnd'
  BY <1>1, <1>5, <1>6 DEF ChatInv, WorkingHasAnEnd, RunningTurn, FinalComing
<1>9. StartedHasAnEnd'
  BY <1>1, <1>6 DEF ChatInv, StartedHasAnEnd, RunningTurn
<1>10. MessagesSurvive'
  BY <1>1, <1>5 DEF ChatInv, MessagesSurvive
<1> QED
  BY <1>7, <1>8, <1>9, <1>10 DEF ChatInv

LEMMA KillKeeps ==
    ASSUME ChatInv, NEW s \in Ids, Kill(s)
    PROVE  ChatInv'
<1>1. /\ sessions' = Drop(sessions, s) /\ queue' = Drop(queue, s)
      /\ turns' = Cancelled(s) /\ UNCHANGED <<store, spent>>
  BY DEF Kill
<1>2. /\ Table(sessions, Session) /\ turns \subseteq Turn /\ DOMAIN queue = DOMAIN sessions
      /\ DOMAIN queue \subseteq Ids /\ queue \in [DOMAIN queue -> Seq(Event)]
  BY DEF ChatInv, Typed, Table
<1>3. /\ Table(sessions', Session) /\ DOMAIN sessions' = DOMAIN sessions \ {s}
      /\ \A x \in DOMAIN sessions' : sessions'[x] = sessions[x]
  BY <1>1, <1>2 DEF Table, Drop, Restrict
<1>4. /\ Table(queue', Seq(Event)) /\ DOMAIN queue' = DOMAIN sessions \ {s}
      /\ \A x \in DOMAIN queue' : queue'[x] = queue[x]
  BY <1>1, <1>2 DEF Table, Drop, Restrict
<1>5. turns' \subseteq Turn /\ \A x : RunningTurn(x) => \E u \in turns' : u.id = x
  BY <1>1, <1>2, CancelledTurns DEF RunningTurn
<1>6. Typed'
  BY <1>1, <1>3, <1>4, <1>5 DEF ChatInv, Typed
<1>7. WorkingHasAnEnd'
  BY <1>3, <1>4, <1>5 DEF ChatInv, WorkingHasAnEnd, RunningTurn, FinalComing
<1>8. StartedHasAnEnd'
  BY <1>2, <1>4, <1>5 DEF ChatInv, StartedHasAnEnd, RunningTurn
<1>9. MessagesSurvive'
  BY <1>1, <1>3 DEF ChatInv, MessagesSurvive
<1> QED
  BY <1>6, <1>7, <1>8, <1>9 DEF ChatInv

\* While a turn runs, what its session waits for need not be on its way yet.
LEMMA SaysKeeps ==
    ASSUME ChatInv, NEW t \in turns, NEW kind \in {"chunk", "error"}, Says(t, kind)
    PROVE  ChatInv'
<1> DEFINE e == [kind |-> kind, n |-> t.n]
           u == [t EXCEPT !.said = @ + 1]
<1>1. /\ t.said < MaxSaid /\ turns' = (turns \ {t}) \cup {u} /\ Send(t.id, <<e>>)
      /\ UNCHANGED <<sessions, store, spent>>
  BY DEF Says
<1>2. turns \subseteq Turn /\ t \in Turn /\ MaxSaid \in Nat
  BY ChatAssumption DEF ChatInv, Typed
<1>3. u \in Turn /\ u.id = t.id /\ e \in Event /\ t.id \in Ids
  BY <1>1, <1>2 DEF Turn, Event
<1> HIDE DEF u, e
<1>4. /\ DOMAIN queue' = DOMAIN sessions /\ Table(queue', Seq(Event))
      /\ \A x \in DOMAIN sessions : /\ Len(queue'[x]) <= Capacity
                                    /\ x # t.id => queue'[x] = queue[x]
  BY <1>1, <1>3, SentQueue
<1>5. turns' \subseteq Turn /\ \A x : RunningTurn(x) => \E v \in turns' : v.id = x
  BY <1>1, <1>2, <1>3 DEF RunningTurn
<1>6. \E v \in turns' : v.id = t.id
  BY <1>1, <1>3
<1>7. Typed'
  BY <1>1, <1>4, <1>5 DEF ChatInv, Typed
<1>8. WorkingHasAnEnd'
  BY <1>1, <1>4, <1>5, <1>6 DEF ChatInv, WorkingHasAnEnd, RunningTurn, FinalComing
<1>9. StartedHasAnEnd'
  BY <1>4, <1>5, <1>6 DEF ChatInv, Typed, StartedHasAnEnd, RunningTurn
<1>10. MessagesSurvive'
  BY <1>1 DEF ChatInv, MessagesSurvive
<1> QED
  BY <1>7, <1>8, <1>9, <1>10 DEF ChatInv

\* A turn that ends leaves its end in the channel, which drops older events first.
LEMMA EndTurnKeeps ==
    ASSUME ChatInv, NEW t \in turns, NEW ok \in BOOLEAN, EndTurn(t, ok)
    PROVE  ChatInv'
<1> DEFINE e == [kind |-> IF ok THEN "completed" ELSE "error", n |-> t.n]
<1>1. /\ turns' = turns \ {t} /\ Send(t.id, <<e>>) /\ UNCHANGED <<sessions, store, spent>>
  BY DEF EndTurn
<1>2. turns \subseteq Turn /\ t.id \in Ids /\ e \in Event /\ e.kind \in Finals
  BY DEF ChatInv, Typed, Turn, Event, Finals
<1> HIDE DEF e
<1>3. /\ DOMAIN queue' = DOMAIN sessions /\ Table(queue', Seq(Event))
      /\ \A x \in DOMAIN sessions : /\ Len(queue'[x]) <= Capacity
                                    /\ x # t.id => queue'[x] = queue[x]
                                    /\ x = t.id => queue'[x] = Keep(queue[x] \o <<e>>)
  BY <1>1, <1>2, SentQueue
<1>4. t.id \in DOMAIN sessions =>
         /\ EndsWhatStarts(queue'[t.id])
         /\ \E j \in DOMAIN queue'[t.id] : queue'[t.id][j].kind \in Finals
  <2> SUFFICES ASSUME t.id \in DOMAIN sessions
               PROVE  /\ EndsWhatStarts(queue'[t.id])
                      /\ \E j \in DOMAIN queue'[t.id] : queue'[t.id][j].kind \in Finals
    OBVIOUS
  <2>1. queue[t.id] \in Seq(Event)
    BY DEF ChatInv, Typed, Table
  <2> QED
    BY <1>2, <1>3, <2>1, SendEnds
<1>5. \A x : x # t.id /\ RunningTurn(x) => \E v \in turns' : v.id = x
  BY <1>1 DEF RunningTurn
<1>6. Typed'
  BY <1>1, <1>2, <1>3 DEF ChatInv, Typed
<1>7. WorkingHasAnEnd'
  BY <1>1, <1>3, <1>4, <1>5 DEF ChatInv, WorkingHasAnEnd, RunningTurn, FinalComing
<1>8. StartedHasAnEnd'
  BY <1>3, <1>4, <1>5 DEF ChatInv, Typed, StartedHasAnEnd, RunningTurn
<1>9. MessagesSurvive'
  BY <1>1 DEF ChatInv, MessagesSurvive
<1> QED
  BY <1>6, <1>7, <1>8, <1>9 DEF ChatInv

\* The listener takes the oldest event: what it starts still has its end behind
\* it, and the end makes the session idle.
LEMMA ListenKeeps ==
    ASSUME ChatInv, NEW s \in Ids, Listen(s)
    PROVE  ChatInv'
<1> DEFINE q == queue[s]
           e == Head(q)
           f == Heard(sessions[s], e)
<1>1. /\ s \in DOMAIN sessions /\ q # <<>>
      /\ sessions' = [sessions EXCEPT ![s] = f] /\ queue' = [queue EXCEPT ![s] = Tail(q)]
      /\ store' = IF e.kind \in Finals THEN Persisted(sessions') ELSE store
      /\ UNCHANGED <<turns, spent>>
  BY DEF Listen
<1>2. /\ Table(sessions, Session) /\ Table(store, Seq(Message)) /\ Table(queue, Seq(Event))
      /\ DOMAIN queue = DOMAIN sessions
      /\ \A x \in DOMAIN queue : Len(queue[x]) <= Capacity
  BY DEF ChatInv, Typed
<1>3. /\ sessions[s] \in Session /\ q \in Seq(Event) /\ Len(q) <= Capacity
      /\ Len(q) \in Nat /\ Capacity \in Nat
  BY <1>1, <1>2, ChatAssumption DEF Table
<1> HIDE DEF q
<1>4. /\ Tail(q) \in Seq(Event) /\ Len(Tail(q)) <= Len(q) /\ e \in Event /\ e = q[1]
      /\ \A k \in DOMAIN Tail(q) : k + 1 \in DOMAIN q /\ Tail(q)[k] = q[k + 1]
      /\ \A k \in DOMAIN q : k > 1 => k - 1 \in DOMAIN Tail(q) /\ Tail(q)[k - 1] = q[k]
  BY <1>1, <1>3, TailGood
<1>5. DOMAIN q = 1..Len(q) /\ DOMAIN Tail(q) = 1..Len(Tail(q)) /\ Len(Tail(q)) \in Nat
      /\ 1 \in DOMAIN q
  BY <1>1, <1>3, <1>4
<1> HIDE DEF e
<1>6. /\ f \in Session
      /\ e.kind \notin Finals => f.messages = sessions[s].messages
      /\ e.kind = "chunk" => f.status = sessions[s].status
      /\ e.kind \in Finals => f.status = "idle"
      /\ e.kind \in {"started", "chunk"} \cup Finals
  <2>1. e.kind \in {"started", "chunk"} \cup Finals
    BY <1>4 DEF Event, Finals
  <2> QED
    BY <1>3, <1>4, <2>1, HeardSession
<1> HIDE DEF f
<1>7. /\ Table(sessions', Session) /\ DOMAIN sessions' = DOMAIN sessions
      /\ sessions'[s] = f /\ \A x \in DOMAIN sessions : x # s => sessions'[x] = sessions[x]
  BY <1>1, <1>2, <1>6 DEF Table
<1>8. /\ DOMAIN queue' = DOMAIN sessions /\ Table(queue', Seq(Event)) /\ queue'[s] = Tail(q)
      /\ \A x \in DOMAIN sessions : x # s => queue'[x] = queue[x]
  <2>1. queue \in [DOMAIN queue -> Seq(Event)] /\ DOMAIN queue \subseteq Ids
    BY <1>2 DEF Table
  <2>2. queue' \in [DOMAIN queue -> Seq(Event)] /\ queue'[s] = Tail(q)
        /\ \A x \in DOMAIN queue : x # s => queue'[x] = queue[x]
    BY <1>1, <1>2, <1>4, <2>1
  <2> QED
    BY <1>2, <2>1, <2>2 DEF Table
<1>9. \A x \in DOMAIN sessions : Len(queue'[x]) <= Capacity
  BY <1>2, <1>3, <1>4, <1>5, <1>8
<1>10. Table(store', Seq(Message)) /\ MessagesSurvive'
  <2>1. CASE e.kind \in Finals
    BY <1>1, <1>7, <2>1, PersistedGood DEF MessagesSurvive
  <2>2. CASE e.kind \notin Finals
    <3>1. store' = store /\ \A x \in DOMAIN sessions : sessions'[x].messages = sessions[x].messages
      BY <1>1, <1>6, <1>7, <2>2
    <3> QED
      BY <1>2, <1>7, <3>1 DEF ChatInv, MessagesSurvive
  <2> QED
    BY <2>1, <2>2
<1>11. Typed'
  BY <1>1, <1>7, <1>8, <1>9, <1>10 DEF ChatInv, Typed
<1>12. ~RunningTurn(s) => EndsWhatStarts(q)
  BY <1>1, <1>2 DEF ChatInv, StartedHasAnEnd, q
<1>13. ASSUME ~RunningTurn(s)
       PROVE  EndsWhatStarts(Tail(q))
  <2> SUFFICES ASSUME NEW k \in DOMAIN Tail(q), Tail(q)[k].kind = "started"
               PROVE  \E j \in DOMAIN Tail(q) : j > k /\ Tail(q)[j].kind \in Finals
    BY DEF EndsWhatStarts
  <2>1. k + 1 \in DOMAIN q /\ q[k + 1].kind = "started" /\ k \in Nat /\ k > 0
    BY <1>4, <1>5
  <2>2. PICK j \in DOMAIN q : j > k + 1 /\ q[j].kind \in Finals
    BY <1>12, <1>13, <2>1 DEF EndsWhatStarts
  <2>3. j \in Nat /\ j > 1 /\ j - 1 > k
    BY <1>5, <2>1, <2>2
  <2>4. j - 1 \in DOMAIN Tail(q) /\ Tail(q)[j - 1].kind \in Finals
    BY <1>4, <2>2, <2>3
  <2> QED
    BY <2>3, <2>4
<1>14. ASSUME f.status = "working", ~RunningTurn(s)
       PROVE  \E i \in DOMAIN Tail(q) : Tail(q)[i].kind \in Finals
  <2>1. e.kind \notin Finals /\ e.kind \in {"started", "chunk"}
    BY <1>6, <1>14
  <2>2. PICK j \in DOMAIN q : q[j].kind \in Finals
    <3>1. CASE e.kind = "started"
      BY <1>4, <1>5, <1>12, <1>14, <3>1 DEF EndsWhatStarts
    <3>2. CASE e.kind = "chunk"
      <4>1. FinalComing(s)
        BY <1>1, <1>6, <1>14, <3>2 DEF ChatInv, WorkingHasAnEnd
      <4> QED
        BY <4>1 DEF FinalComing, q
    <3> QED
      BY <2>1, <3>1, <3>2
  <2>3. j > 1
    BY <1>4, <1>5, <2>1, <2>2
  <2>4. j - 1 \in DOMAIN Tail(q) /\ Tail(q)[j - 1].kind \in Finals
    BY <1>4, <2>2, <2>3
  <2> QED
    BY <2>4
<1>15. WorkingHasAnEnd'
  BY <1>1, <1>7, <1>8, <1>14 DEF ChatInv, WorkingHasAnEnd, RunningTurn, FinalComing
<1>16. StartedHasAnEnd'
  <2>1. \A x : RunningTurn(x)' <=> RunningTurn(x)
    BY <1>1 DEF RunningTurn
  <2>2. ASSUME NEW x \in DOMAIN sessions, ~RunningTurn(x)
        PROVE  EndsWhatStarts(queue'[x])
    <3>1. CASE x = s
      BY <1>8, <1>13, <2>2, <3>1
    <3>2. CASE x # s
      BY <1>2, <1>8, <2>2, <3>2 DEF ChatInv, StartedHasAnEnd
    <3> QED
      BY <3>1, <3>2
  <2> QED
    BY <1>8, <2>1, <2>2 DEF StartedHasAnEnd
<1> QED
  BY <1>10, <1>11, <1>15, <1>16 DEF ChatInv

\* The sessions come back as they are on disk, idle and with nothing to hear.
LEMMA RestartKeeps ==
    ASSUME ChatInv, Restart
    PROVE  ChatInv'
<1> DEFINE f(s) == [NewSession EXCEPT !.messages = store[s]]
<1>1. /\ sessions' = [s \in DOMAIN store |-> f(s)] /\ queue' = [s \in DOMAIN store |-> <<>>]
      /\ turns' = {} /\ store' = store /\ spent' = [spent EXCEPT !.restarts = @ + 1]
  BY DEF Restart
<1>2. /\ DOMAIN store \subseteq Ids /\ \A s \in DOMAIN store : store[s] \in Seq(Message)
      /\ Table(store, Seq(Message))
      /\ spent \in [used : SUBSET Ids, turns : [Ids -> Nat], restarts : Nat]
  BY DEF ChatInv, Typed, Table
<1>3. \A s \in DOMAIN store :
         f(s) \in Session /\ f(s).status = "idle" /\ f(s).messages = store[s]
  BY <1>2, NewSessionType DEF NewSession, Session
<1> HIDE DEF f
<1>4. /\ Table(sessions', Session) /\ DOMAIN sessions' = DOMAIN store
      /\ \A s \in DOMAIN store : sessions'[s].status = "idle" /\ sessions'[s].messages = store[s]
  BY <1>1, <1>2, <1>3 DEF Table
<1>5. /\ Table(queue', Seq(Event)) /\ DOMAIN queue' = DOMAIN store
      /\ \A s \in DOMAIN store : queue'[s] = <<>> /\ Len(queue'[s]) <= Capacity
  <2>1. <<>> \in Seq(Event) /\ Len(<<>>) = 0 /\ 0 <= Capacity
    BY ChatAssumption
  <2> QED
    BY <1>1, <1>2, <2>1 DEF Table
<1>6. spent' \in [used : SUBSET Ids, turns : [Ids -> Nat], restarts : Nat]
  <2>1. spent' = [spent EXCEPT !.restarts = spent.restarts + 1] /\ spent.restarts + 1 \in Nat
    BY <1>1, <1>2
  <2> QED
    BY <1>2, <2>1
<1>7. Typed'
  BY <1>1, <1>2, <1>4, <1>5, <1>6 DEF Typed
<1>8. WorkingHasAnEnd'
  BY <1>4 DEF WorkingHasAnEnd
<1>9. StartedHasAnEnd'
  <2>1. EndsWhatStarts(<<>>)
    BY DEF EndsWhatStarts
  <2> QED
    BY <1>5, <2>1 DEF StartedHasAnEnd
<1>10. MessagesSurvive'
  <2>1. \A s \in DOMAIN store : IsPrefix(store[s], store[s])
    BY <1>2 DEF IsPrefix
  <2> QED
    BY <1>1, <1>4, <2>1 DEF MessagesSurvive
<1> QED
  BY <1>7, <1>8, <1>9, <1>10 DEF ChatInv

-----------------------------------------------------------------------------
(* The theorems *)

LEMMA InitInv == Init => ChatInv
<1> SUFFICES ASSUME Init PROVE ChatInv
  OBVIOUS
<1>1. DOMAIN sessions = {} /\ DOMAIN queue = {} /\ DOMAIN store = {} /\ turns = {}
  BY DEF Init, EmptyMap
<1>2. \A T : Table(sessions, T) /\ Table(queue, T) /\ Table(store, T)
  BY DEF Init, EmptyMap, Table
<1>3. spent \in [used : SUBSET Ids, turns : [Ids -> Nat], restarts : Nat]
  BY DEF Init
<1> QED
  BY <1>1, <1>2, <1>3 DEF ChatInv, Typed, WorkingHasAnEnd, StartedHasAnEnd, MessagesSurvive

LEMMA StepInv == ChatInv /\ [Next]_vars => ChatInv'
<1> SUFFICES ASSUME ChatInv, [Next]_vars PROVE ChatInv'
  OBVIOUS
<1>1. CASE \E s \in Ids, prompt \in BOOLEAN : CreateSession(s, prompt)
  BY <1>1, CreateKeeps
<1>2. CASE \E s \in Ids : SendMessage(s) \/ Cancel(s) \/ Kill(s) \/ Listen(s)
  BY <1>2, SendMessageKeeps, CancelKeeps, KillKeeps, ListenKeeps
<1>3. CASE \E t \in turns : Chunk(t) \/ ReportsError(t)
  BY <1>3, SaysKeeps DEF Chunk, ReportsError
<1>4. CASE \E t \in turns, ok \in BOOLEAN : EndTurn(t, ok)
  BY <1>4, EndTurnKeeps
<1>5. CASE Restart
  BY <1>5, RestartKeeps
<1>6. CASE UNCHANGED vars
  BY <1>6 DEF vars, ChatInv, Typed, WorkingHasAnEnd, StartedHasAnEnd, MessagesSurvive,
      RunningTurn, FinalComing
<1> QED
  BY <1>1, <1>2, <1>3, <1>4, <1>5, <1>6 DEF Next

LEMMA ChatInvariant == Spec => []ChatInv
BY InitInv, StepInv, PTL DEF Spec

\* The daemon's chats have their types and a channel keeps at most what it may.
THEOREM ChatTypeCorrect == Spec => []TypeOK
<1>1. ChatInv => TypeOK
  BY DEF ChatInv, Typed, TypeOK, Table
<1> QED
  BY <1>1, ChatInvariant, PTL

\* A session that works has a turn that runs or the end of one in its channel,
\* whatever the channel dropped: the newest event is always kept, and a turn's
\* last event ends it.
THEOREM WorkIsEnded == Spec => []WorkingHasAnEnd
<1>1. ChatInv => WorkingHasAnEnd
  BY DEF ChatInv
<1> QED
  BY <1>1, ChatInvariant, PTL

\* A restart at any moment brings back every message that was shown.
THEOREM MessagesAreKept == Spec => []MessagesSurvive
<1>1. ChatInv => MessagesSurvive
  BY DEF ChatInv
<1> QED
  BY <1>1, ChatInvariant, PTL
=============================================================================
