-------------------------- MODULE CodexRunnerProofs --------------------------
(***************************************************************************)
(* Theorems about one attempt of the Codex runner, for every number of     *)
(* turns, every numbering of the server's questions and every server that  *)
(* keeps the protocol of CodexRunner.                                      *)
(***************************************************************************)
EXTENDS CodexRunner, TLAPS

-----------------------------------------------------------------------------
(* The invariant *)

Replies == {"answer", "bare", "refusal"}

Talking == Waiting \cup {"stream", "refresh", "next"}

Without(kinds, out) == \A k \in 1..Len(out) : out[k].kind \notin kinds

AtMostOne(kinds, out) ==
    \A j, k \in 1..Len(out) : out[j].kind \in kinds /\ out[k].kind \in kinds => j = k

\* Only questions and answers have numbers, an answer that of the last request.
Numbered ==
    \A k \in 1..Len(output) :
        /\ output[k].kind \in Ends \cup Noise => output[k].id = 0
        /\ pc \in Waiting /\ output[k].kind \in Replies => output[k].id = nextId - 1

\* A request has one answer: it is owed, in the pipe, or taken.
OneReply ==
    pc \in Talking =>
        /\ AtMostOne(Replies, output)
        /\ server.owes => pc \in Waiting
        /\ server.owes \/ pc \notin Waiting => Without(Replies, output)

\* A turn has one end: it is to come, in the pipe, or read.
OneEnd ==
    /\ pc \in {"start", "initialize", "thread", "refresh", "next"} =>
          ~server.open /\ Without(Ends, output)
    /\ pc \in Talking =>
          AtMostOne(Ends, output) /\ (server.open => Without(Ends, output))

\* Until the first turn is asked for the server has nothing to say of turns.
NoTurnYet ==
    pc \in {"start", "initialize", "thread"} =>
        /\ turns = 0 /\ told.completed = 0 /\ server.done = 0
        /\ server.asks = {} /\ Without(Asks, output)

\* The number of the turn that was asked for last.
Asked == IF pc = "turn" THEN turns + 1 ELSE turns

TurnsCounted ==
    /\ pc \in {"turn", "stream"} =>
          /\ told.completed + 1 = Asked /\ Asked <= MaxTurns
          /\ server.open => server.done + 1 = Asked
          /\ ~Without({"completed"}, output) => server.done = Asked
    /\ pc = "next" => turns < MaxTurns
    /\ pc \in Talking \cup {"start"} => outcome = "none"

\* Before the server is started nothing is sent and nothing said.
NothingSaid ==
    /\ pc = "start" => nextId = 1 /\ output = <<>> /\ ~server.owes /\ child = "none"
    /\ pc \in Waiting => nextId # 1

EndBehind(out, j) == \E k \in 1..Len(out) : k > j /\ out[k].kind \in Ends

EndsAfterAnswers(out) ==
    \A j \in 1..Len(out) : out[j].kind \in Replies => EndBehind(out, j)

\* A server that confirms a turn before it speaks of it ends it after the answer.
EndFollows ==
    ~server.eager =>
        /\ pc = "turn" =>
              /\ server.owes => server.open
              /\ server.open \/ EndsAfterAnswers(output)
        /\ pc = "stream" => server.open \/ EndBehind(output, 0)

\* A question that has no answer yet is in the pipe.
AskIn(out, id) == \E k \in 1..Len(out) : out[k].kind \in Asks /\ out[k].id = id

AsksAhead == pc \in Talking => \A id \in server.asks : AskIn(output, id)

RunnerInv ==
    /\ CodexTypeOK /\ TurnsAreCounted
    /\ Numbered /\ OneReply /\ OneEnd /\ NoTurnYet /\ TurnsCounted
    /\ NothingSaid /\ EndFollows /\ AsksAhead

-----------------------------------------------------------------------------
(* The pipe *)

\* The runner reads a line.
LEMMA LineRead ==
    ASSUME NEW out \in Seq(Line), out # <<>>
    PROVE  /\ Len(out) \in Nat /\ 1 \in 1..Len(out) /\ Head(out) = out[1] /\ Head(out) \in Line
           /\ Tail(out) \in Seq(Line) /\ Len(Tail(out)) = Len(out) - 1
           /\ \A k \in 1..Len(Tail(out)) : k + 1 \in 1..Len(out) /\ Tail(out)[k] = out[k + 1]
           /\ \A k \in 1..Len(out) : k = 1 \/ (k - 1 \in 1..Len(Tail(out)) /\ Tail(out)[k - 1] = out[k])
OBVIOUS

LEMMA ReadKinds ==
    ASSUME NEW out \in Seq(Line), out # <<>>, NEW kinds
    PROVE  /\ Without(kinds, out) => Without(kinds, Tail(out)) /\ Head(out).kind \notin kinds
           /\ AtMostOne(kinds, out) =>
                 /\ AtMostOne(kinds, Tail(out))
                 /\ Head(out).kind \in kinds => Without(kinds, Tail(out))
<1> DEFINE rest == Tail(out)
<1>1. /\ 1 \in 1..Len(out) /\ Head(out) = out[1]
      /\ \A k \in 1..Len(rest) : k \in Nat /\ k + 1 \in 1..Len(out) /\ rest[k] = out[k + 1]
  BY LineRead
<1> HIDE DEF rest
<1> QED
  BY <1>1 DEF Without, AtMostOne, rest

LEMMA ReadAhead ==
    ASSUME NEW out \in Seq(Line), out # <<>>
    PROVE  /\ \A id : AskIn(out, id) =>
                 AskIn(Tail(out), id) \/ (Head(out).kind \in Asks /\ Head(out).id = id)
           /\ EndsAfterAnswers(out) =>
                 /\ EndsAfterAnswers(Tail(out))
                 /\ Head(out).kind \in Replies => EndBehind(Tail(out), 0)
           /\ EndBehind(out, 0) => EndBehind(Tail(out), 0) \/ Head(out).kind \in Ends
<1> DEFINE rest == Tail(out)
<1>1. /\ Head(out) = out[1] /\ 1 \in 1..Len(out)
      /\ \A k \in 1..Len(rest) : k + 1 \in 1..Len(out) /\ rest[k] = out[k + 1]
      /\ \A k \in 1..Len(out) : k = 1 \/ (k - 1 \in 1..Len(rest) /\ rest[k - 1] = out[k])
  BY LineRead
<1> HIDE DEF rest
<1>2. \A id : AskIn(out, id) => AskIn(rest, id) \/ (out[1].kind \in Asks /\ out[1].id = id)
  BY <1>1 DEF AskIn
<1>3. \A j \in 0..Len(rest) : EndBehind(out, j + 1) => EndBehind(rest, j)
  <2> SUFFICES ASSUME NEW j \in 0..Len(rest), NEW k \in 1..Len(out), k > j + 1, out[k].kind \in Ends
               PROVE  EndBehind(rest, j)
    BY DEF EndBehind
  <2>1. k # 1 /\ k - 1 \in 1..Len(rest) /\ k - 1 > j /\ rest[k - 1].kind \in Ends
    BY <1>1
  <2> QED
    BY <2>1 DEF EndBehind
<1>4. EndsAfterAnswers(out) => EndsAfterAnswers(rest)
  BY <1>1, <1>3 DEF EndsAfterAnswers
<1>5. 0 \in 0..Len(rest) /\ 0 + 1 = 1
  BY LineRead DEF rest
<1>6. EndsAfterAnswers(out) /\ out[1].kind \in Replies => EndBehind(rest, 0)
  BY <1>1, <1>3, <1>5 DEF EndsAfterAnswers
<1>7. EndBehind(out, 0) => EndBehind(rest, 0) \/ out[1].kind \in Ends
  <2> SUFFICES ASSUME NEW k \in 1..Len(out), out[k].kind \in Ends, k # 1
               PROVE  EndBehind(rest, 0)
    BY DEF EndBehind
  <2>1. k - 1 \in 1..Len(rest) /\ k - 1 > 0 /\ rest[k - 1].kind \in Ends
    BY <1>1
  <2> QED
    BY <2>1 DEF EndBehind
<1> QED
  BY <1>1, <1>2, <1>4, <1>6, <1>7 DEF rest

\* The server says a line.
LEMMA LineSaid ==
    ASSUME NEW out \in Seq(Line), NEW line \in Line
    PROVE  /\ Append(out, line) \in Seq(Line) /\ Len(out) \in Nat
           /\ Len(Append(out, line)) = Len(out) + 1 /\ Append(out, line)[Len(out) + 1] = line
           /\ \A k \in 1..Len(out) : Append(out, line)[k] = out[k]
OBVIOUS

LEMMA SaidKinds ==
    ASSUME NEW out \in Seq(Line), NEW line \in Line, NEW kinds
    PROVE  /\ Without(kinds, out) /\ line.kind \notin kinds => Without(kinds, Append(out, line))
           /\ Without(kinds, Append(out, line)) => Without(kinds, out) /\ line.kind \notin kinds
           /\ Without(kinds, out) => AtMostOne(kinds, Append(out, line))
           /\ AtMostOne(kinds, out) /\ line.kind \notin kinds => AtMostOne(kinds, Append(out, line))
<1> DEFINE more == Append(out, line)
<1>1. /\ Len(out) \in Nat /\ Len(more) = Len(out) + 1 /\ more[Len(out) + 1] = line
      /\ \A k \in 1..Len(out) : more[k] = out[k]
  BY LineSaid
<1> HIDE DEF more
<1>2. \A k \in 1..Len(more) : k \in 1..Len(out) \/ (k = Len(out) + 1 /\ more[k] = line)
  BY <1>1
<1>3. \A k \in 1..Len(out) : k \in 1..Len(more)
  BY <1>1
<1>4. Len(out) + 1 \in 1..Len(more)
  BY <1>1
<1>5. Without(kinds, more) <=> Without(kinds, out) /\ line.kind \notin kinds
  BY <1>1, <1>2, <1>3, <1>4 DEF Without
<1>6. Without(kinds, out) => AtMostOne(kinds, more)
  BY <1>1, <1>2 DEF Without, AtMostOne
<1>7. AtMostOne(kinds, out) /\ line.kind \notin kinds => AtMostOne(kinds, more)
  BY <1>1, <1>2 DEF AtMostOne
<1> QED
  BY <1>5, <1>6, <1>7 DEF more

LEMMA SaidAhead ==
    ASSUME NEW out \in Seq(Line), NEW line \in Line
    PROVE  /\ \A id : AskIn(out, id) => AskIn(Append(out, line), id)
           /\ line.kind \in Asks => AskIn(Append(out, line), line.id)
           /\ EndBehind(out, 0) => EndBehind(Append(out, line), 0)
           /\ EndsAfterAnswers(out) /\ line.kind \notin Replies => EndsAfterAnswers(Append(out, line))
           /\ line.kind \in Ends => EndBehind(Append(out, line), 0) /\ EndsAfterAnswers(Append(out, line))
<1> DEFINE more == Append(out, line)
<1>1. /\ Len(out) \in Nat /\ Len(more) = Len(out) + 1 /\ more[Len(out) + 1] = line
      /\ \A k \in 1..Len(out) : more[k] = out[k]
  BY LineSaid
<1> HIDE DEF more
<1>2. \A k \in 1..Len(more) : k \in 1..Len(out) \/ (k = Len(out) + 1 /\ more[k] = line)
  BY <1>1
<1>3. \A k \in 1..Len(out) : k \in 1..Len(more)
  BY <1>1
<1>4. Len(out) + 1 \in 1..Len(more)
  BY <1>1
<1>5. \A id : AskIn(out, id) => AskIn(more, id)
  BY <1>1, <1>3 DEF AskIn
<1>6. line.kind \in Asks => AskIn(more, line.id)
  BY <1>1, <1>4 DEF AskIn
<1>7. \A j : EndBehind(out, j) => EndBehind(more, j)
  BY <1>1, <1>3 DEF EndBehind
<1>8. line.kind \in Ends => \A j \in 0..Len(out) : EndBehind(more, j)
  BY <1>1, <1>4 DEF EndBehind
<1>9. EndsAfterAnswers(out) /\ line.kind \notin Replies => EndsAfterAnswers(more)
  BY <1>1, <1>2, <1>7 DEF EndsAfterAnswers
<1>10. line.kind \in Ends => line.kind \notin Replies
  BY DEF Ends, Replies
<1>11. line.kind \in Ends => EndsAfterAnswers(more)
  <2> SUFFICES ASSUME line.kind \in Ends, NEW j \in 1..Len(more), more[j].kind \in Replies
               PROVE  EndBehind(more, j)
    BY DEF EndsAfterAnswers
  <2>1. j \in 0..Len(out)
    BY <1>1, <1>2, <1>10
  <2> QED
    BY <1>8, <2>1
<1> QED
  BY <1>1, <1>5, <1>6, <1>7, <1>8, <1>9, <1>11 DEF more

-----------------------------------------------------------------------------
(* The steps *)

\* The parts of the invariant that speak of a conversation that goes on.
Conversation ==
    /\ OneReply /\ OneEnd /\ NoTurnYet /\ TurnsCounted /\ NothingSaid /\ EndFollows /\ AsksAhead

\* What the server knows, after a request and after a line.
LEMMA ServerType ==
    ASSUME NEW s \in Server, NEW t,
           t = [s EXCEPT !.owes = TRUE]
    PROVE  /\ t \in Server /\ t.open = s.open /\ t.owes /\ t.done = s.done /\ t.asks = s.asks
           /\ t.eager = s.eager
BY DEF Server

\* The conversation is over: nothing is claimed any more but what an attempt
\* that ends as completed says of its turns.
LEMMA Stops ==
    ASSUME RunnerInv, CodexTypeOK',
           pc' \in {"stop", "wait", "over"}, UNCHANGED <<turns, told>>,
           UNCHANGED <<server.done, server.open>>,
           output' = output \/ (output # <<>> /\ output' = Tail(output)),
           outcome' = "completed" => outcome = "completed" \/ pc = "refresh"
    PROVE  RunnerInv'
<1> USE DEF RunnerInv
<1>1. TurnsAreCounted'
  BY DEF TurnsAreCounted
<1>2. Numbered'
  <2>1. CASE output' = output
    BY <2>1 DEF Numbered, Waiting
  <2>2. CASE output # <<>> /\ output' = Tail(output)
    <3>1. \A k \in 1..Len(output') : k + 1 \in 1..Len(output) /\ output'[k] = output[k + 1]
      BY <2>2, LineRead DEF CodexTypeOK
    <3> QED
      BY <3>1 DEF Numbered, Waiting
  <2> QED
    BY <2>1, <2>2
<1>3. Conversation'
  BY DEF Conversation, OneReply, OneEnd, NoTurnYet, TurnsCounted, NothingSaid, EndFollows,
         AsksAhead, Talking, Waiting
<1> QED
  BY <1>1, <1>2, <1>3 DEF Conversation

\* An early return.
LEMMA FailKeeps ==
    ASSUME RunnerInv, Fail, UNCHANGED <<late, child, server.done, server.open>>, server' \in Server,
           output' = output \/ (output # <<>> /\ output' = Tail(output))
    PROVE  RunnerInv'
<1>1. CodexTypeOK'
  BY LineRead DEF RunnerInv, CodexTypeOK, Fail, EndWith
<1> QED
  BY <1>1, Stops DEF Fail, EndWith

LEMMA InitKeeps == Init => RunnerInv
<1> SUFFICES ASSUME Init PROVE RunnerInv
  OBVIOUS
<1> USE DEF Init, Waiting, Talking
<1>0. 0 \in 0..MaxTurns /\ 1 \in Nat \ {0}
  BY CodexAssumption
<1>1. CodexTypeOK
  <2>1. server \in Server
    BY <1>0 DEF Server
  <2>2. told \in [started : 0..MaxTurns, completed : 0..MaxTurns]
    BY <1>0
  <2>3. output \in Seq(Line) /\ pc \in {"start"} /\ nextId \in Nat \ {0} /\ turns \in 0..MaxTurns
    BY <1>0
  <2> QED
    BY <2>1, <2>2, <2>3 DEF CodexTypeOK
<1>2. Len(output) = 0
  OBVIOUS
<1>3. TurnsAreCounted /\ Numbered
  BY <1>2 DEF TurnsAreCounted, Numbered
<1>4. Conversation
  BY <1>2 DEF Conversation, OneReply, OneEnd, NoTurnYet, TurnsCounted, NothingSaid, EndFollows,
              AsksAhead, Without
<1> QED
  BY <1>1, <1>3, <1>4 DEF RunnerInv, Conversation

LEMMA StartKeeps == RunnerInv /\ Start => RunnerInv'
<1> SUFFICES ASSUME RunnerInv, Start PROVE RunnerInv'
  OBVIOUS
<1> USE DEF RunnerInv, Start
<1>1. CASE pc' = "over"
  <2>1. CodexTypeOK'
    BY <1>1 DEF CodexTypeOK, Waiting
  <2> QED
    BY <1>1, <2>1, Stops
<1>2. CASE pc' # "over"
  <2>0. /\ pc' = "initialize" /\ nextId' = nextId + 1 /\ child' = "running"
        /\ server' = [server EXCEPT !.owes = TRUE]
        /\ UNCHANGED <<turns, outcome, told, late, output>>
    BY <1>2
  <2>1. /\ server' \in Server /\ server'.open = server.open /\ server'.owes
        /\ server'.done = server.done /\ server'.asks = server.asks
    BY <2>0, ServerType DEF CodexTypeOK
  <2>2. CodexTypeOK'
    BY <2>0, <2>1 DEF CodexTypeOK, Waiting
  <2>3. output' = <<>> /\ Len(output') = 0
    BY <2>0 DEF NothingSaid
  <2>4. TurnsAreCounted' /\ Numbered'
    BY <2>0, <2>1, <2>3 DEF TurnsAreCounted, TurnsCounted, Talking, Numbered
  <2>5. Conversation'
    BY <2>0, <2>1, <2>3 DEF Conversation, OneReply, OneEnd, NoTurnYet, TurnsCounted, NothingSaid,
          EndFollows, AsksAhead, Waiting, Talking, Without, AtMostOne
  <2> QED
    BY <2>2, <2>4, <2>5 DEF Conversation
<1> QED
  BY <1>1, <1>2

\* What the server says fits what it knows: an answer only when it owes one, an
\* end or a question only of a turn that is under way.
Fits(line) ==
    /\ IF line.kind \in Replies
       THEN server.owes /\ ~server'.owes /\ line.id = nextId - 1
       ELSE server'.owes = server.owes
    /\ IF line.kind \in Ends
       THEN /\ server.open /\ ~server'.open /\ (server.owes => server.eager)
            /\ server'.done = IF line.kind = "completed" THEN server.done + 1 ELSE server.done
       ELSE UNCHANGED <<server.open, server.done>>
    /\ IF line.kind \in Asks
       THEN server.open /\ server'.asks \subseteq server.asks \cup {line.id}
       ELSE server'.asks = server.asks
    /\ line.kind \in Ends \cup Noise => line.id = 0
    /\ server' \in Server /\ UNCHANGED server.eager

LEMMA SayKeeps ==
    ASSUME RunnerInv, NEW line \in Line, Say(line), Fits(line)
    PROVE  RunnerInv'
<1> USE DEF RunnerInv
<1>0. /\ output' = Append(output, line) /\ child = "running"
      /\ UNCHANGED <<pc, nextId, turns, outcome, told, late, child>>
  BY DEF Say, runnerVars
<1>1. output \in Seq(Line) /\ server \in Server /\ CodexTypeOK'
  BY <1>0, LineSaid DEF CodexTypeOK, Fits
<1>2. pc # "start"
  BY <1>0 DEF NothingSaid
<1>3. /\ Replies \cap Ends = {} /\ Replies \cap Asks = {} /\ Asks \cap Ends = {}
      /\ "completed" \in Ends
  BY DEF Replies, Ends, Asks
<1>4. TurnsAreCounted'
  <2>1. pc \in {"refresh", "next"} \/ outcome = "completed" => UNCHANGED <<server.open, server.done>>
    BY DEF TurnsAreCounted, Fits
  <2> QED
    BY <1>0, <2>1 DEF TurnsAreCounted
<1>5. Numbered'
  <2>1. \A k \in 1..Len(output') : output'[k] = line \/ (k \in 1..Len(output) /\ output'[k] = output[k])
    BY <1>0, <1>1, LineSaid
  <2> QED
    BY <1>0, <2>1 DEF Numbered, Fits
<1>6. OneReply'
  BY <1>0, <1>1, SaidKinds DEF OneReply, Fits
<1>7. OneEnd'
  BY <1>0, <1>1, SaidKinds DEF OneEnd, Fits
<1>8. NoTurnYet'
  <2> SUFFICES ASSUME pc \in {"initialize", "thread"} PROVE NoTurnYet'
    BY <1>0, <1>2 DEF NoTurnYet
  <2>1. ~server.open
    BY DEF OneEnd
  <2> QED
    BY <1>0, <1>1, <2>1, SaidKinds DEF NoTurnYet, Fits
<1>9. TurnsCounted'
  <2>1. CASE line.kind \in Ends /\ pc \in {"turn", "stream"}
    <3>1. Without({"completed"}, output)
      BY <1>3, <2>1 DEF OneEnd, Fits, Without, Talking, Waiting
    <3> QED
      BY <1>0, <1>1, <2>1, <3>1, SaidKinds DEF TurnsCounted, Fits, Asked
  <2>2. CASE line.kind \notin Ends
    BY <1>0, <1>1, <1>3, <2>2, SaidKinds DEF TurnsCounted, Fits, Asked
  <2>3. CASE pc \notin {"turn", "stream"}
    BY <1>0, <2>3 DEF TurnsCounted
  <2> QED
    BY <2>1, <2>2, <2>3
<1>10. NothingSaid'
  BY <1>0, <1>2 DEF NothingSaid
<1>11. EndFollows'
  BY <1>0, <1>1, <1>3, SaidAhead, SaidKinds DEF EndFollows, Fits, EndsAfterAnswers
<1>12. AsksAhead'
  BY <1>0, <1>1, SaidAhead DEF AsksAhead, Fits
<1> QED
  BY <1>1, <1>4, <1>5, <1>6, <1>7, <1>8, <1>9, <1>10, <1>11, <1>12

LEMMA KindsApart ==
    /\ \A line \in Line : line.kind \in Replies \cup Asks \cup Ends \cup Noise
    /\ Replies \cap Asks = {} /\ Replies \cap Ends = {} /\ Replies \cap Noise = {}
    /\ Asks \cap Ends = {} /\ Asks \cap Noise = {} /\ Ends \cap Noise = {}
<1>1. Noise \subseteq {"note", "fault", "garbage", "blank"}
  BY CodexAssumption
<1> QED
  BY <1>1 DEF Line, Replies, Asks, Ends

LEMMA AnswerKeeps == RunnerInv /\ Answer => RunnerInv'
<1> SUFFICES ASSUME RunnerInv, Answer PROVE RunnerInv'
  OBVIOUS
<1>1. PICK kind \in Replies : Say([kind |-> kind, id |-> nextId - 1])
  BY DEF Answer, Replies
<1> DEFINE line == [kind |-> kind, id |-> nextId - 1]
<1>2. line \in Line
  BY <1>1 DEF Line, Replies, RunnerInv, CodexTypeOK
<1>3. /\ server' \in Server /\ ~server'.owes /\ server.owes
      /\ UNCHANGED <<server.open, server.done, server.asks, server.eager>>
  <2>1. server \in Server
    BY DEF RunnerInv, CodexTypeOK
  <2> QED
    BY <2>1 DEF Answer, Server
<1>4. Fits(line)
  BY <1>1, <1>3, KindsApart DEF Fits
<1> QED
  BY <1>1, <1>2, <1>4, SayKeeps

LEMMA MakeNoiseKeeps == RunnerInv /\ MakeNoise => RunnerInv'
<1> SUFFICES ASSUME RunnerInv, MakeNoise PROVE RunnerInv'
  OBVIOUS
<1>1. PICK kind \in Noise : Say(Said(kind))
  BY DEF MakeNoise
<1>2. Said(kind) \in Line /\ Said(kind).kind = kind /\ Said(kind).id = 0
  BY <1>1 DEF Line, Said
<1>3. /\ server' \in Server
      /\ UNCHANGED <<server.owes, server.open, server.done, server.asks, server.eager>>
  BY DEF MakeNoise, RunnerInv, CodexTypeOK
<1>4. Fits(Said(kind))
  BY <1>1, <1>2, <1>3, KindsApart DEF Fits
<1> QED
  BY <1>1, <1>2, <1>4, SayKeeps

LEMMA AskKeeps ==
    ASSUME RunnerInv, NEW kind \in Asks, NEW id \in AskIds, Ask(kind, id)
    PROVE  RunnerInv'
<1> DEFINE line == [kind |-> kind, id |-> id]
           next == [server EXCEPT !.asks = @ \cup ({id} \ {0})]
<1>1. line \in Line
  BY CodexAssumption DEF Line
<1>2. server \in Server
  BY DEF RunnerInv, CodexTypeOK
<1>3. /\ next \in Server /\ next.asks \subseteq server.asks \cup {id}
      /\ next.owes = server.owes /\ next.open = server.open
      /\ next.done = server.done /\ next.eager = server.eager
  BY <1>2 DEF Server
<1>4. server' = next /\ server.open /\ Say(line)
  BY DEF Ask, MaySpeakOfTurn
<1> HIDE DEF next
<1>5. /\ server' \in Server /\ server'.asks \subseteq server.asks \cup {id}
      /\ UNCHANGED <<server.owes, server.open, server.done, server.eager>>
  BY <1>3, <1>4
<1>6. Fits(line)
  BY <1>4, <1>5, KindsApart DEF Fits
<1> QED
  BY <1>1, <1>4, <1>6, SayKeeps

LEMMA EndTurnKeeps ==
    ASSUME RunnerInv, NEW kind \in Ends, EndTurn(kind)
    PROVE  RunnerInv'
<1> DEFINE next == [server EXCEPT !.open = FALSE, !.done = IF kind = "completed" THEN @ + 1 ELSE @]
<1>1. Said(kind) \in Line /\ Said(kind).kind = kind /\ Said(kind).id = 0
  BY DEF Line, Said
<1>2. server \in Server
  BY DEF RunnerInv, CodexTypeOK
<1>3. /\ next \in Server /\ ~next.open
      /\ next.done = IF kind = "completed" THEN server.done + 1 ELSE server.done
      /\ next.owes = server.owes /\ next.asks = server.asks
      /\ next.eager = server.eager
  <2>1. CASE kind = "completed"
    <3>1. next = [server EXCEPT !.open = FALSE, !.done = server.done + 1]
      BY <1>2, <2>1 DEF Server
    <3>2. server.done + 1 \in Nat
      BY <1>2 DEF Server
    <3> HIDE DEF next
    <3>3. next \in Server
      BY <1>2, <3>1, <3>2 DEF Server
    <3>4. ~next.open /\ next.done = server.done + 1
      BY <1>2, <3>1 DEF Server
    <3>5. /\ next.owes = server.owes
          /\ next.asks = server.asks /\ next.eager = server.eager
      BY <1>2, <3>1 DEF Server
    <3> QED
      BY <2>1, <3>3, <3>4, <3>5
  <2>2. CASE kind # "completed"
    BY <1>2, <2>2 DEF Server
  <2> QED
    BY <2>1, <2>2
<1>4. server' = next /\ server.open /\ (server.owes => server.eager) /\ Say(Said(kind))
  BY DEF EndTurn, MaySpeakOfTurn
<1> HIDE DEF next
<1>5. /\ server' \in Server /\ ~server'.open
      /\ server'.done = IF kind = "completed" THEN server.done + 1 ELSE server.done
      /\ UNCHANGED <<server.owes, server.asks, server.eager>>
  BY <1>3, <1>4
<1>6. Fits(Said(kind))
  BY <1>1, <1>4, <1>5, KindsApart DEF Fits
<1> QED
  BY <1>1, <1>4, <1>6, SayKeeps

\* A server that stops reading still knows what it knew.
LEMMA DeafKeeps == RunnerInv /\ StopReading => RunnerInv'
<1> SUFFICES ASSUME RunnerInv, StopReading PROVE RunnerInv'
  OBVIOUS
<1> USE DEF RunnerInv
<1>1. /\ UNCHANGED <<pc, nextId, turns, outcome, told, late, output, child>>
      /\ server' \in Server
      /\ UNCHANGED <<server.eager, server.owes, server.open, server.done, server.asks>>
  BY DEF StopReading, runnerVars, CodexTypeOK, Server
<1>2. CodexTypeOK' /\ TurnsAreCounted' /\ Numbered'
  BY <1>1 DEF CodexTypeOK, TurnsAreCounted, Numbered
<1>3. OneReply' /\ OneEnd' /\ NoTurnYet' /\ TurnsCounted' /\ NothingSaid'
  BY <1>1 DEF OneReply, OneEnd, NoTurnYet, TurnsCounted, NothingSaid, Asked
<1>4. EndFollows' /\ AsksAhead'
  BY <1>1 DEF EndFollows, AsksAhead
<1> QED
  BY <1>2, <1>3, <1>4

-----------------------------------------------------------------------------
(* The runner reads *)

\* What a line is to the runner while it waits for an answer.
LEMMA WhatIsTaken ==
    ASSUME RunnerInv, pc \in Waiting, output # <<>>
    PROVE  /\ Takes(Head(output)) => Head(output).kind \in Replies \cup Asks
           /\ Takes(Head(output)) /\ pc = "initialize" => Head(output).kind \in Replies
           /\ Head(output).kind \in Replies => Takes(Head(output))
<1> DEFINE line == Head(output)
<1>1. output \in Seq(Line) /\ line \in Line /\ 1 \in 1..Len(output) /\ line = output[1]
  BY LineRead DEF RunnerInv, CodexTypeOK
<1>2. line.kind \in Ends \cup Noise => line.id # nextId - 1
  BY <1>1 DEF RunnerInv, Numbered, NothingSaid, CodexTypeOK
<1>3. line.kind \in Replies => line.id = nextId - 1 /\ line.kind \notin {"blank", "garbage"}
  BY <1>1 DEF RunnerInv, Numbered, Replies
<1>4. pc = "initialize" => line.kind \notin Asks
  BY <1>1 DEF RunnerInv, NoTurnYet, Without
<1> QED
  BY <1>1, <1>2, <1>3, <1>4, KindsApart DEF Takes

LEMMA RespondType ==
    ASSUME server \in Server, NEW line \in Line, Respond(line)
    PROVE  /\ server' \in Server
           /\ UNCHANGED <<server.eager, server.owes, server.open, server.done>>
           /\ server'.asks = IF line.kind \in Asks THEN server.asks \ {line.id} ELSE server.asks
BY DEF Respond, Server

\* Every question but that of the line that was read is still in the pipe.
LEMMA ReadAsks ==
    ASSUME RunnerInv, pc \in Talking, output # <<>>, output' = Tail(output),
           \/ Respond(Head(output))
           \/ UNCHANGED server.asks /\ Head(output).kind \notin Asks
    PROVE  \A id \in server'.asks : AskIn(output', id)
<1>1. output \in Seq(Line) /\ Head(output) \in Line /\ server \in Server
  BY LineRead DEF RunnerInv, CodexTypeOK
<1>2. \A id \in server'.asks : id \in server.asks /\ ~(Head(output).kind \in Asks /\ Head(output).id = id)
  BY <1>1, RespondType
<1> QED
  BY <1>1, <1>2, ReadAhead DEF RunnerInv, AsksAhead

\* A request of another turn or of a thread.
RequestMade(p) ==
    /\ pc' = p /\ nextId' = nextId + 1
    /\ server' = [server EXCEPT !.owes = TRUE, !.open = @ \/ p = "turn"]
    /\ UNCHANGED <<turns, outcome, told, late, child>>

LEMMA RequestServer ==
    ASSUME server \in Server, NEW p, RequestMade(p)
    PROVE  /\ server' \in Server /\ server'.owes /\ (server'.open <=> server.open \/ p = "turn")
           /\ UNCHANGED <<server.eager, server.done, server.asks>>
BY DEF RequestMade, Server

LEMMA RequestKeeps ==
    ASSUME RunnerInv, NEW p, RequestMade(p),
           \/ /\ pc \in {"initialize", "thread"} /\ p = IF pc = "initialize" THEN "thread" ELSE "turn"
              /\ output # <<>> /\ output' = Tail(output) /\ Head(output).kind \in Replies
           \/ pc = "next" /\ p = "turn" /\ turns < MaxTurns /\ UNCHANGED output
    PROVE  RunnerInv'
<1> USE DEF RunnerInv
<1>0. /\ pc' = p /\ nextId' = nextId + 1 /\ UNCHANGED <<turns, outcome, told, late, child>>
      /\ server' \in Server /\ server'.owes /\ (server'.open <=> server.open \/ p = "turn")
      /\ UNCHANGED <<server.eager, server.done, server.asks>>
  BY RequestServer DEF RequestMade, CodexTypeOK
<1>1. /\ pc \in {"initialize", "thread", "next"} /\ pc' \in {"thread", "turn"}
      /\ pc' = "thread" => pc = "initialize"
      /\ pc \in Talking /\ pc' \in Waiting /\ pc' \in Talking
  BY <1>0 DEF Talking, Waiting
<1>2. output \in Seq(Line) /\ nextId \in Nat \ {0} /\ output' \in Seq(Line) /\ CodexTypeOK'
  <2>1. output \in Seq(Line) /\ nextId \in Nat \ {0}
    BY DEF CodexTypeOK
  <2>2. output' \in Seq(Line)
    BY <2>1, LineRead
  <2> QED
    BY <1>0, <1>1, <2>1, <2>2 DEF CodexTypeOK
<1>3. /\ Without(Replies, output') /\ Without(Ends, output')
      /\ pc' = "thread" => Without(Asks, output')
      /\ \A kinds : Without(kinds, output) => Without(kinds, output')
  <2>1. CASE output # <<>> /\ output' = Tail(output) /\ Head(output).kind \in Replies
    BY <1>0, <1>1, <1>2, <2>1, ReadKinds DEF OneReply, OneEnd, NoTurnYet
  <2>2. CASE pc = "next" /\ UNCHANGED output
    BY <1>0, <1>1, <2>2 DEF OneReply, OneEnd, Waiting
  <2> QED
    BY <2>1, <2>2
<1>4. TurnsAreCounted'
  BY <1>0, <1>1 DEF TurnsAreCounted, TurnsCounted, NoTurnYet, CodexTypeOK
<1>5. \A k \in 1..Len(output') : output'[k].kind \in Ends \cup Noise => output'[k].id = 0
  <2>1. \A k \in 1..Len(output') : \E j \in 1..Len(output) : output'[k] = output[j]
    BY <1>2, LineRead
  <2> QED
    BY <2>1 DEF Numbered
<1>6. Numbered'
  BY <1>3, <1>5 DEF Numbered, Without
<1>7. OneReply' /\ OneEnd'
  BY <1>0, <1>1, <1>3 DEF OneReply, OneEnd, Without, AtMostOne
<1>8. NoTurnYet' /\ NothingSaid'
  BY <1>0, <1>1, <1>2, <1>3 DEF NoTurnYet, NothingSaid, Waiting
<1>9. TurnsCounted'
  <2>1. pc' = "turn" => told.completed = turns /\ turns = server.done /\ turns < MaxTurns
    BY <1>0, <1>1, CodexAssumption DEF TurnsAreCounted, NoTurnYet
  <2>2. Without({"completed"}, output')
    BY <1>3 DEF Without, Ends
  <2>3. outcome = "none" /\ turns \in Nat /\ turns <= MaxTurns
    BY <1>1, CodexAssumption DEF TurnsCounted, CodexTypeOK
  <2> QED
    BY <1>0, <1>1, <2>1, <2>2, <2>3, CodexAssumption DEF TurnsCounted, Asked
<1>10. EndFollows'
  BY <1>0, <1>1 DEF EndFollows
<1>11. AsksAhead'
  <2>1. CASE output # <<>> /\ output' = Tail(output) /\ Head(output).kind \in Replies
    BY <1>0, <1>1, <2>1, ReadAsks, KindsApart DEF AsksAhead
  <2>2. CASE UNCHANGED output
    BY <1>0, <1>1, <2>2 DEF AsksAhead
  <2> QED
    BY <2>1, <2>2
<1> QED
  BY <1>2, <1>4, <1>6, <1>7, <1>8, <1>9, <1>10, <1>11

\* What is read leaves the pipe as orderly as it was.
LEMMA TailNumbered ==
    ASSUME Numbered, output \in Seq(Line), output # <<>>, output' = Tail(output),
           pc' \notin Waiting \/ (pc \in Waiting /\ UNCHANGED nextId)
    PROVE  Numbered'
<1>1. \A k \in 1..Len(output') : k + 1 \in 1..Len(output) /\ output'[k] = output[k + 1]
  BY LineRead
<1> QED
  BY <1>1 DEF Numbered

\* A line is read that changes nothing of what the runner is at.
LEMMA ReadsOn ==
    ASSUME RunnerInv, output # <<>>, output' = Tail(output), UNCHANGED <<runnerVars, child>>,
           pc \in Waiting \cup {"stream"}, Respond(Head(output)),
           pc \in Waiting => Head(output).kind \notin Replies,
           pc = "stream" => Head(output).kind \notin Ends
    PROVE  RunnerInv'
<1> USE DEF RunnerInv
<1>0. /\ output \in Seq(Line) /\ output' \in Seq(Line) /\ server' \in Server
      /\ UNCHANGED <<server.eager, server.owes, server.open, server.done>>
      /\ server'.asks \subseteq server.asks
      /\ UNCHANGED <<pc, nextId, turns, outcome, told, late>>
  BY LineRead, RespondType DEF CodexTypeOK, runnerVars
<1>1. CodexTypeOK' /\ TurnsAreCounted' /\ Numbered'
  BY <1>0, TailNumbered DEF CodexTypeOK, TurnsAreCounted
<1>2. OneReply' /\ OneEnd' /\ NoTurnYet' /\ NothingSaid'
  BY <1>0, ReadKinds DEF OneReply, OneEnd, NoTurnYet, NothingSaid, Waiting
<1>3. TurnsCounted'
  BY <1>0, ReadKinds DEF TurnsCounted, Asked
<1>4. EndFollows'
  BY <1>0, ReadAhead DEF EndFollows, Waiting
<1>5. AsksAhead'
  BY <1>0, ReadAsks DEF AsksAhead, Talking
<1> QED
  BY <1>1, <1>2, <1>3, <1>4, <1>5

LEMMA ConfirmKeeps ==
    ASSUME RunnerInv, output # <<>>, output' = Tail(output), Head(output).kind = "answer",
           pc = "turn", pc' = "stream", turns' = turns + 1,
           told' = [told EXCEPT !.started = @ + 1], late' = FALSE,
           UNCHANGED <<nextId, outcome, server, child>>
    PROVE  RunnerInv'
<1> USE DEF RunnerInv
<1>0. /\ output \in Seq(Line) /\ output' \in Seq(Line) /\ Head(output).kind \in Replies
      /\ turns \in Nat /\ turns + 1 <= MaxTurns /\ told.started = turns /\ outcome = "none"
      /\ told.completed = turns
  BY CodexAssumption, LineRead
     DEF CodexTypeOK, Replies, TurnsCounted, Asked, TurnsAreCounted, Talking, Waiting
<1>1. told'.started = turns' /\ told'.completed = told.completed
  BY <1>0 DEF CodexTypeOK
<1>2. CodexTypeOK'
  <2>1. turns + 1 \in 0..MaxTurns /\ told \in [started : 0..MaxTurns, completed : 0..MaxTurns]
    BY <1>0, CodexAssumption DEF CodexTypeOK
  <2>2. told' \in [started : 0..MaxTurns, completed : 0..MaxTurns] /\ turns' \in 0..MaxTurns
    BY <1>0, <2>1
  <2> QED
    BY <1>0, <2>2 DEF CodexTypeOK
<1>3. TurnsAreCounted' /\ Numbered'
  BY <1>0, <1>1, TailNumbered DEF TurnsAreCounted, Waiting
<1>4. OneReply' /\ OneEnd'
  BY <1>0, ReadKinds DEF OneReply, OneEnd, Talking, Waiting
<1>5. NoTurnYet' /\ NothingSaid'
  BY DEF NoTurnYet, NothingSaid, Waiting
<1>6. TurnsCounted'
  BY <1>0, <1>1, ReadKinds DEF TurnsCounted, Asked
<1>7. EndFollows'
  BY <1>0, ReadAhead DEF EndFollows
<1>8. AsksAhead'
  BY <1>0, ReadAsks, KindsApart DEF AsksAhead, Talking, Waiting
<1> QED
  BY <1>2, <1>3, <1>4, <1>5, <1>6, <1>7, <1>8

\* Request is made of a request and an early return.
LEMMA RequestOrFail ==
    ASSUME NEW p, Request(p), UNCHANGED <<late, child>>
    PROVE  RequestMade(p) \/ (Fail /\ UNCHANGED server)
BY DEF Request, RequestMade

LEMMA TakeAnswerKeeps ==
    ASSUME RunnerInv, output # <<>>, output' = Tail(output), UNCHANGED child, TakeAnswer(Head(output))
    PROVE  RunnerInv'
<1> DEFINE line == Head(output)
<1>0. pc \in Waiting /\ Takes(line) /\ server \in Server
  BY DEF TakeAnswer, Takes, RunnerInv, CodexTypeOK
<1>1. CASE Fail /\ UNCHANGED <<late, server>>
  BY <1>0, <1>1, FailKeeps
<1>2. CASE \E p : /\ pc \in {"initialize", "thread"} /\ p = IF pc = "initialize" THEN "thread" ELSE "turn"
                  /\ Request(p) /\ UNCHANGED late /\ line.kind \in Replies
  BY <1>0, <1>1, <1>2, RequestKeeps, RequestOrFail
<1>3. CASE /\ pc = "turn" /\ pc' = "stream" /\ late' = FALSE /\ turns' = turns + 1
           /\ told' = [told EXCEPT !.started = @ + 1] /\ line.kind = "answer"
           /\ UNCHANGED <<nextId, outcome, server>>
  BY <1>3, ConfirmKeeps
<1>4. line.kind \in Replies \/ (line.kind # "answer" /\ pc # "initialize")
  <2>1. pc = "initialize" => line.kind \in Replies
    BY <1>0, WhatIsTaken
  <2> QED
    BY <2>1 DEF Replies
<1>5. CASE pc = "initialize"
  BY <1>1, <1>2, <1>4, <1>5 DEF TakeAnswer, Refused
<1>6. CASE pc = "thread"
  BY <1>1, <1>2, <1>4, <1>6 DEF TakeAnswer, Refused
<1>7. CASE pc = "turn"
  BY <1>1, <1>3, <1>7 DEF TakeAnswer, Refused
<1> QED
  BY <1>0, <1>5, <1>6, <1>7 DEF Waiting

LEMMA PassOverKeeps ==
    ASSUME RunnerInv, output # <<>>, output' = Tail(output), UNCHANGED child, PassOver(Head(output))
    PROVE  RunnerInv'
<1>0. pc \in Waiting /\ ~Takes(Head(output)) /\ UNCHANGED late /\ server \in Server
  BY DEF PassOver, RunnerInv, CodexTypeOK
<1>1. Head(output).kind \notin Replies
  BY <1>0, WhatIsTaken
<1>2. CASE Fail /\ UNCHANGED server
  BY <1>0, <1>2, FailKeeps
<1>3. CASE Respond(Head(output)) /\ UNCHANGED runnerVars
  BY <1>0, <1>1, <1>3, ReadsOn DEF Waiting
<1> QED
  BY <1>2, <1>3 DEF PassOver

\* A turn that was completed: the issue is looked up next.
LEMMA CompletedKeeps ==
    ASSUME RunnerInv, output # <<>>, output' = Tail(output), Head(output).kind = "completed",
           pc = "stream", pc' = "refresh", told' = [told EXCEPT !.completed = @ + 1],
           Respond(Head(output)), UNCHANGED <<nextId, turns, outcome, late, child>>
    PROVE  RunnerInv'
<1> USE DEF RunnerInv
<1>0. /\ output \in Seq(Line) /\ output' \in Seq(Line) /\ server' \in Server
      /\ 1 \in 1..Len(output) /\ output[1].kind = "completed" /\ Head(output).kind \in Ends
      /\ UNCHANGED <<server.eager, server.owes, server.open, server.done>>
  <2>1. output \in Seq(Line) /\ server \in Server
    BY DEF CodexTypeOK
  <2>2. output' \in Seq(Line) /\ 1 \in 1..Len(output) /\ Head(output) = output[1] /\ Head(output) \in Line
    BY <2>1, LineRead
  <2> QED
    BY <2>1, <2>2, RespondType DEF Ends
<1>1. ~server.open /\ server.done = turns /\ told.completed + 1 = turns /\ outcome = "none"
  BY <1>0 DEF OneEnd, TurnsCounted, Asked, Without, Talking, Ends
<1>2. told'.started = told.started /\ told'.completed = turns
  BY <1>1 DEF CodexTypeOK
<1>3. CodexTypeOK'
  <2>1. told' \in [started : 0..MaxTurns, completed : 0..MaxTurns]
    BY <1>1, CodexAssumption DEF CodexTypeOK
  <2> QED
    BY <1>0, <2>1 DEF CodexTypeOK
<1>4. TurnsAreCounted' /\ Numbered'
  BY <1>0, <1>1, <1>2, TailNumbered DEF TurnsAreCounted, Waiting
<1>5. OneReply' /\ OneEnd'
  BY <1>0, <1>1, ReadKinds DEF OneReply, OneEnd, Talking, Waiting
<1>6. NoTurnYet' /\ NothingSaid' /\ EndFollows' /\ TurnsCounted'
  BY <1>1 DEF NoTurnYet, NothingSaid, Waiting, EndFollows, TurnsCounted
<1>7. AsksAhead'
  BY ReadAsks DEF AsksAhead, Talking
<1> QED
  BY <1>3, <1>4, <1>5, <1>6, <1>7

LEMMA HearKeeps ==
    ASSUME RunnerInv, output # <<>>, output' = Tail(output), UNCHANGED child, Hear(Head(output))
    PROVE  RunnerInv'
<1> DEFINE line == Head(output)
<1>0. /\ pc = "stream" /\ UNCHANGED late /\ server \in Server /\ output \in Seq(Line) /\ line \in Line
      /\ output' \in Seq(Line)
  BY LineRead DEF Hear, RunnerInv, CodexTypeOK
<1>1. CASE Fail /\ UNCHANGED server
  BY <1>0, <1>1, FailKeeps
<1>2. CASE Fail /\ Respond(line)
  BY <1>0, <1>2, FailKeeps, RespondType
<1>3. CASE EndsTurn(line) /\ HearEnd(line) /\ Respond(line) /\ line.kind = "completed"
  BY <1>0, <1>3, CompletedKeeps DEF HearEnd, Ends
<1>4. CASE EndsTurn(line) /\ HearEnd(line) /\ Respond(line) /\ line.kind # "completed"
  <2>1. /\ outcome' = line.kind /\ line.kind \in {"failed", "cancelled", "input"} /\ pc' = "stop"
        /\ UNCHANGED <<nextId, turns, told>>
    BY <1>4 DEF HearEnd, EndWith, Ends
  <2>2. CodexTypeOK'
    BY <1>0, <1>4, <2>1, RespondType DEF RunnerInv, CodexTypeOK
  <2> QED
    BY <1>0, <1>4, <2>1, <2>2, RespondType, Stops
<1>5. CASE ~EndsTurn(line) /\ Respond(line) /\ UNCHANGED <<pc, nextId, turns, outcome, told>>
  BY <1>0, <1>5, ReadsOn DEF EndsTurn, runnerVars, Waiting
<1> QED
  BY <1>1, <1>2, <1>3, <1>4, <1>5 DEF Hear, OnTime

LEMMA ReadKeeps == RunnerInv /\ Read => RunnerInv'
BY TakeAnswerKeeps, PassOverKeeps, HearKeeps DEF Read

-----------------------------------------------------------------------------
(* The other steps of the runner *)

LEMMA RefreshKeeps == RunnerInv /\ Refresh => RunnerInv'
<1> SUFFICES ASSUME RunnerInv, Refresh PROVE RunnerInv'
  OBVIOUS
<1>0. pc = "refresh" /\ UNCHANGED <<late, output, child, server>> /\ server \in Server
  BY DEF Refresh, RunnerInv, CodexTypeOK
<1>1. CASE Fail
  BY <1>0, <1>1, FailKeeps
<1>2. CASE turns < MaxTurns /\ pc' = "next" /\ UNCHANGED <<nextId, turns, outcome, told>>
  <2> USE DEF RunnerInv
  <2>1. CodexTypeOK' /\ TurnsAreCounted' /\ Numbered'
    BY <1>0, <1>2 DEF CodexTypeOK, TurnsAreCounted, Numbered, Waiting
  <2>2. OneReply' /\ OneEnd' /\ NoTurnYet' /\ TurnsCounted'
    BY <1>0, <1>2 DEF OneReply, OneEnd, NoTurnYet, TurnsCounted, Talking, Waiting
  <2>3. NothingSaid' /\ EndFollows' /\ AsksAhead'
    BY <1>0, <1>2 DEF NothingSaid, EndFollows, AsksAhead, Talking, Waiting
  <2> QED
    BY <2>1, <2>2, <2>3
<1>3. CASE EndWith("completed") /\ UNCHANGED <<nextId, turns, told>>
  <2>1. CodexTypeOK'
    BY <1>0, <1>3 DEF RunnerInv, CodexTypeOK, EndWith
  <2> QED
    BY <1>0, <1>3, <2>1, Stops DEF EndWith
<1> QED
  BY <1>1, <1>2, <1>3 DEF Refresh

LEMMA NextTurnKeeps == RunnerInv /\ NextTurn => RunnerInv'
<1> SUFFICES ASSUME RunnerInv, NextTurn PROVE RunnerInv'
  OBVIOUS
<1>0. /\ pc = "next" /\ Request("turn") /\ UNCHANGED <<late, output, child>>
      /\ server \in Server /\ turns < MaxTurns
  BY DEF NextTurn, RunnerInv, CodexTypeOK, TurnsCounted
<1>1. CASE Fail /\ UNCHANGED server
  BY <1>0, <1>1, FailKeeps
<1>2. CASE RequestMade("turn")
  BY <1>0, <1>2, RequestKeeps
<1> QED
  BY <1>0, <1>1, <1>2, RequestOrFail

LEMMA EndingKeeps ==
    RunnerInv /\ (HearNothing \/ StopChild \/ WaitForChild \/ Abort) => RunnerInv'
<1> SUFFICES ASSUME RunnerInv, HearNothing \/ StopChild \/ WaitForChild \/ Abort PROVE RunnerInv'
  OBVIOUS
<1>1. CASE HearNothing
  <2>1. server \in Server
    BY DEF RunnerInv, CodexTypeOK
  <2> QED
    BY <1>1, <2>1, FailKeeps DEF HearNothing
<1>2. CASE StopChild \/ WaitForChild
  <2>1. CodexTypeOK'
    BY <1>2 DEF StopChild, WaitForChild, Killed, RunnerInv, CodexTypeOK
  <2> QED
    BY <1>2, <2>1, Stops DEF StopChild, WaitForChild
<1>3. CASE Abort
  <2>1. CodexTypeOK'
    BY <1>3 DEF Abort, Killed, RunnerInv, CodexTypeOK
  <2> QED
    BY <1>3, <2>1, Stops DEF Abort
<1> QED
  BY <1>1, <1>2, <1>3

\* Time, and the end of the process, change nothing of the conversation.
LEMMA AroundKeeps == RunnerInv /\ (GetLate \/ ChildEnds \/ UNCHANGED vars) => RunnerInv'
<1> SUFFICES ASSUME RunnerInv, GetLate \/ ChildEnds \/ UNCHANGED vars PROVE RunnerInv'
  OBVIOUS
<1> USE DEF RunnerInv
<1>1. /\ UNCHANGED <<pc, nextId, turns, outcome, told, output, server>>
      /\ late' \in {late, TRUE} /\ child' \in {child, "ended"}
      /\ pc = "start" => UNCHANGED child
  BY DEF GetLate, ChildEnds, vars, runnerVars, NothingSaid
<1>2. CodexTypeOK' /\ TurnsAreCounted' /\ Numbered'
  BY <1>1 DEF CodexTypeOK, TurnsAreCounted, Numbered
<1>3. OneReply' /\ OneEnd' /\ NoTurnYet' /\ TurnsCounted' /\ NothingSaid'
  BY <1>1 DEF OneReply, OneEnd, NoTurnYet, TurnsCounted, NothingSaid, Asked
<1>4. EndFollows' /\ AsksAhead'
  BY <1>1 DEF EndFollows, AsksAhead
<1> QED
  BY <1>2, <1>3, <1>4

-----------------------------------------------------------------------------
(* The theorems *)

LEMMA RunnerStep == RunnerInv /\ [Next]_vars => RunnerInv'
<1>1. RunnerInv /\ Runner => RunnerInv'
  BY StartKeeps, ReadKeeps, RefreshKeeps, NextTurnKeeps, EndingKeeps DEF Runner
<1>2. RunnerInv /\ ServerNext => RunnerInv'
  BY AnswerKeeps, MakeNoiseKeeps, AskKeeps, EndTurnKeeps, DeafKeeps DEF ServerNext
<1> QED
  BY <1>1, <1>2, EndingKeeps, AroundKeeps DEF Next

LEMMA RunnerInvariant == Spec => []RunnerInv
BY InitKeeps, RunnerStep, PTL DEF Spec

\* Everything keeps its type; so no attempt starts more turns than max_turns, and
\* every request has a number of its own.
THEOREM RunnerTypeCorrect == Spec => []CodexTypeOK
<1>1. RunnerInv => CodexTypeOK
  BY DEF RunnerInv
<1> QED
  BY <1>1, RunnerInvariant, PTL

\* An attempt asks for a turn only when the turns before it were completed, and one
\* that ends as completed has reported as many turns as the server completed
\* (run_attempt), whatever the server says besides and in whatever order.
THEOREM TurnsAlwaysCounted == Spec => []TurnsAreCounted
<1>1. RunnerInv => TurnsAreCounted
  BY DEF RunnerInv
<1> QED
  BY <1>1, RunnerInvariant, PTL

\* What read_response throws away while it waits for an answer is never the end of
\* the turn that is confirmed, nor a question the server still waits for.
THEOREM NothingIsEverMissed == Spec => []NothingIsMissed
<1>1. RunnerInv => NothingIsMissed
  <2> SUFFICES ASSUME RunnerInv PROVE NothingIsMissed
    OBVIOUS
  <2>1. pc = "stream" /\ ~server.open /\ ~server.eager => Ahead(Ends, 0)
    <3>1. EndBehind(output, 0) => Ahead(Ends, 0)
      BY DEF EndBehind, Ahead, RunnerInv, Numbered
    <3> QED
      BY <3>1 DEF RunnerInv, EndFollows
  <2>2. \A id : AskIn(output, id) => Ahead(Asks, id)
    BY DEF AskIn, Ahead
  <2> QED
    BY <2>1, <2>2 DEF RunnerInv, AsksAhead, NothingIsMissed, Talking
<1> QED
  BY <1>1, RunnerInvariant, PTL

-----------------------------------------------------------------------------
(* The report *)

\* What the attempt will return agrees with what it told, and it waits for its
\* agent to end before it returns.
ReportInv ==
    /\ pc \in Talking \cup {"stop", "wait"} => child # "none"
    /\ pc = "wait" => child \in {"killed", "ended"}
    /\ pc = "refresh" => turns > 0
    /\ pc \in {"stop", "wait"} =>
          /\ outcome \in Report!Broken \cup {"completed", "error"}
          /\ outcome = "completed" => told.completed > 0
          /\ outcome \in Report!Broken => told.started = told.completed + 1

\* What every step does: it keeps what the report needs, and is a step of the
\* report or leaves it alone.
Reports == ReportInv' /\ [Report!ReportNext]_(Report!reportVars)

LEMMA FailUntold ==
    ASSUME RunnerInv, ReportInv, pc \in Talking, Fail, UNCHANGED child
    PROVE  Reports
BY DEF Fail, EndWith, Reports, Report!reportVars, ReportInv, Talking, Waiting, Report!Broken

LEMMA RequestUntold ==
    ASSUME RunnerInv, ReportInv, pc \in Talking, NEW p \in Waiting, Request(p), UNCHANGED child
    PROVE  Reports
<1>1. CASE Fail
  BY <1>1, FailUntold
<1>2. CASE pc' = p /\ UNCHANGED told
  BY <1>2 DEF Reports, Report!reportVars, ReportInv, Talking, Waiting
<1> QED
  BY <1>1, <1>2 DEF Request

LEMMA StartReports ==
    ASSUME RunnerInv, Start
    PROVE  Reports
<1>0. pc = "start" /\ child = "none" /\ outcome = "none"
  BY DEF Start, RunnerInv, NothingSaid, TurnsCounted
<1>1. CASE pc' = "over" /\ outcome' = "error" /\ UNCHANGED <<told, child>>
  <2>1. Report!Return("error")
    BY <1>0, <1>1 DEF Report!Return, Report!Broken
  <2>2. ReportInv'
    BY <1>1 DEF ReportInv, Talking, Waiting
  <2> QED
    BY <2>1, <2>2 DEF Reports, Report!ReportNext
<1>2. CASE pc' = "initialize" /\ child' = "running" /\ UNCHANGED <<outcome, told>>
  <2>1. Report!Spawn
    BY <1>0, <1>2 DEF Report!Spawn
  <2>2. ReportInv'
    BY <1>2 DEF ReportInv, Talking, Waiting
  <2> QED
    BY <2>1, <2>2 DEF Reports, Report!ReportNext
<1> QED
  BY <1>1, <1>2 DEF Start

LEMMA AnswerReports ==
    ASSUME RunnerInv, ReportInv, UNCHANGED child, NEW line, TakeAnswer(line)
    PROVE  Reports
<1>0. pc \in Waiting /\ pc \in Talking
  BY DEF TakeAnswer, Takes, Talking
<1>1. CASE Fail
  BY <1>0, <1>1, FailUntold
<1>2. CASE Request("thread") \/ Request("turn")
  BY <1>0, <1>2, RequestUntold DEF Waiting
<1>3. CASE /\ pc = "turn" /\ pc' = "stream" /\ turns' = turns + 1
           /\ told' = [told EXCEPT !.started = @ + 1] /\ UNCHANGED outcome
  <2>1. /\ told \in [started : 0..MaxTurns, completed : 0..MaxTurns]
        /\ turns \in Nat /\ MaxTurns \in Nat
    BY CodexAssumption DEF RunnerInv, CodexTypeOK
  <2>2. told.started = told.completed /\ told.started < MaxTurns /\ child # "none"
    BY <1>3, <2>1 DEF RunnerInv, TurnsAreCounted, TurnsCounted, Asked, ReportInv, Talking, Waiting
  <2>3. Report!TellStarted
    BY <1>3, <2>1, <2>2 DEF Report!TellStarted
  <2>4. ReportInv'
    BY <1>3, <2>2 DEF ReportInv
  <2> QED
    BY <2>3, <2>4 DEF Reports, Report!ReportNext
<1> QED
  BY <1>1, <1>2, <1>3 DEF TakeAnswer

LEMMA HearReports ==
    ASSUME RunnerInv, ReportInv, UNCHANGED child, NEW line, Hear(line)
    PROVE  Reports
<1>0. /\ pc = "stream" /\ pc \in Talking /\ child # "none"
      /\ told \in [started : 0..MaxTurns, completed : 0..MaxTurns]
      /\ turns \in Nat /\ MaxTurns \in Nat
  BY CodexAssumption DEF Hear, Talking, RunnerInv, CodexTypeOK, ReportInv
<1>1. told.started = told.completed + 1 /\ told.started = turns
  BY <1>0 DEF RunnerInv, TurnsAreCounted, TurnsCounted, Asked
<1>2. CASE Fail
  BY <1>0, <1>2, FailUntold
<1>3. CASE UNCHANGED <<pc, nextId, turns, outcome, told>>
  BY <1>0, <1>3 DEF Reports, Report!reportVars, ReportInv
<1>4. CASE HearEnd(line)
  <2>1. CASE line.kind = "completed"
    <3>1. pc' = "refresh" /\ told' = [told EXCEPT !.completed = @ + 1] /\ UNCHANGED <<turns, outcome>>
      BY <1>4, <2>1 DEF HearEnd, Ends
    <3>2. Report!TellCompleted
      BY <1>0, <1>1, <3>1 DEF Report!TellCompleted
    <3>3. ReportInv'
      BY <1>0, <1>1, <3>1 DEF ReportInv
    <3> QED
      BY <3>2, <3>3 DEF Reports, Report!ReportNext
  <2>2. CASE line.kind # "completed"
    <3>1. /\ line.kind \in Report!Broken /\ outcome' = line.kind /\ pc' = "stop"
          /\ UNCHANGED <<turns, told>>
      BY <1>4, <2>2 DEF HearEnd, Ends, EndWith, Report!Broken
    <3> QED
      BY <1>0, <1>1, <3>1 DEF Reports, Report!reportVars, ReportInv, Report!Broken
  <2> QED
    BY <2>1, <2>2
<1> QED
  BY <1>2, <1>3, <1>4 DEF Hear, OnTime

LEMMA ReadReports ==
    ASSUME RunnerInv, ReportInv, Read
    PROVE  Reports
<1>1. UNCHANGED child
  BY DEF Read
<1>2. CASE TakeAnswer(Head(output))
  BY <1>1, <1>2, AnswerReports
<1>3. CASE PassOver(Head(output))
  <2>1. pc \in Talking
    BY <1>3 DEF PassOver, Talking
  <2>2. CASE Fail
    BY <1>1, <2>1, <2>2, FailUntold
  <2>3. CASE UNCHANGED runnerVars
    BY <1>1, <2>3 DEF Reports, Report!reportVars, ReportInv, runnerVars
  <2> QED
    BY <1>3, <2>2, <2>3 DEF PassOver
<1>4. CASE Hear(Head(output))
  BY <1>1, <1>4, HearReports
<1> QED
  BY <1>2, <1>3, <1>4 DEF Read

LEMMA RefreshReports ==
    ASSUME RunnerInv, ReportInv, Refresh \/ NextTurn
    PROVE  Reports
<1>0. pc \in {"refresh", "next"} /\ pc \in Talking /\ UNCHANGED child
  BY DEF Refresh, NextTurn, Talking
<1>1. CASE Fail
  BY <1>0, <1>1, FailUntold
<1>2. CASE Request("turn")
  BY <1>0, <1>2, RequestUntold DEF Waiting
<1>3. CASE pc = "refresh" /\ EndWith("completed") /\ UNCHANGED told
  <2>1. told.completed > 0
    BY <1>3 DEF RunnerInv, TurnsAreCounted, ReportInv
  <2> QED
    BY <1>0, <1>3, <2>1 DEF EndWith, Reports, Report!reportVars, ReportInv, Report!Broken, Talking
<1>4. CASE pc' = "next" /\ UNCHANGED <<outcome, told>>
  BY <1>0, <1>4 DEF Reports, Report!reportVars, ReportInv, Talking, Waiting
<1> QED
  BY <1>1, <1>2, <1>3, <1>4 DEF Refresh, NextTurn

LEMMA EndReports ==
    ASSUME RunnerInv, ReportInv, StopChild \/ WaitForChild \/ Abort
    PROVE  Reports
<1>0. child \in {"none", "running", "killed", "ended"}
  BY DEF RunnerInv, CodexTypeOK
<1>1. CASE StopChild
  <2>1. /\ pc = "stop" /\ pc' = "wait" /\ UNCHANGED <<outcome, told>>
        /\ child' = Killed(child) /\ child # "none"
    BY <1>1 DEF StopChild, ReportInv
  <2>2. Report!Kill \/ UNCHANGED child
    BY <2>1 DEF Killed, Report!Kill
  <2>3. ReportInv'
    BY <1>0, <2>1 DEF ReportInv, Killed, Talking, Waiting
  <2> QED
    BY <2>1, <2>2, <2>3 DEF Reports, Report!ReportNext, Report!reportVars
<1>2. CASE WaitForChild
  <2>1. pc = "wait" /\ child = "ended" /\ pc' = "over" /\ UNCHANGED <<outcome, told, child>>
    BY <1>2 DEF WaitForChild
  <2>2. outcome = "completed" => told.completed = told.started
    BY DEF RunnerInv, TurnsAreCounted
  <2>3. Report!Return(outcome)
    BY <2>1, <2>2 DEF Report!Return, ReportInv
  <2>4. outcome \in Report!Broken \cup {"completed", "error"} /\ ReportInv'
    BY <2>1 DEF ReportInv, Talking, Waiting
  <2> QED
    BY <2>3, <2>4 DEF Reports, Report!ReportNext
<1>3. CASE Abort
  <2>1. /\ pc \in Talking \cup {"stop", "wait"} /\ pc' = "over" /\ outcome' = "aborted"
        /\ child' = Killed(child) /\ UNCHANGED told
    BY <1>3 DEF Abort, RunnerInv, CodexTypeOK, Talking
  <2>2. Report!Aborted
    BY <2>1 DEF Report!Aborted, Killed, ReportInv, Talking, Waiting
  <2>3. ReportInv'
    BY <2>1 DEF ReportInv, Talking, Waiting
  <2> QED
    BY <2>2, <2>3 DEF Reports, Report!ReportNext
<1> QED
  BY <1>1, <1>2, <1>3

LEMMA ReportStep ==
    ASSUME RunnerInv, ReportInv, [Next]_vars
    PROVE  Reports
<1>1. CASE HearNothing
  BY <1>1, FailUntold DEF HearNothing, Talking
<1>2. CASE ChildEnds
  <2>1. child \in {"running", "killed"} /\ child' = "ended" /\ UNCHANGED runnerVars
    BY <1>2 DEF ChildEnds
  <2>2. Report!AgentEnds /\ ReportInv'
    BY <2>1 DEF Report!AgentEnds, ReportInv, runnerVars
  <2> QED
    BY <2>2 DEF Reports, Report!ReportNext
<1>3. CASE GetLate \/ ServerNext \/ UNCHANGED vars
  <2>1. UNCHANGED <<pc, turns, outcome, told, child>>
    BY <1>3 DEF GetLate, ServerNext, Answer, MakeNoise, StopReading, Ask, EndTurn, Say, vars, runnerVars
  <2> QED
    BY <2>1 DEF Reports, Report!reportVars, ReportInv
<1> QED
  BY <1>1, <1>2, <1>3, StartReports, ReadReports, RefreshReports, EndReports DEF Next, Runner

\* The attempt implements AttemptReport: reading the answer to turn/start tells a
\* start, reading the end of a completed turn tells its completion, child.wait() or
\* an abort returns, and everything else, which is all that is said over the pipe,
\* stutters.
THEOREM AttemptKeepsReport == Spec => KeepsReport
<1>1. Init => ReportInv /\ Report!ReportInit
  BY DEF Init, ReportInv, Report!ReportInit, Talking, Waiting
<1>2. RunnerInv /\ ReportInv /\ [Next]_vars => ReportInv' /\ [Report!ReportNext]_(Report!reportVars)
  BY ReportStep DEF Reports
<1> QED
  BY <1>1, <1>2, RunnerInvariant, PTL DEF Spec, KeepsReport, Report!ReportSpec
=============================================================================
