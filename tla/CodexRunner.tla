---------------------------- MODULE CodexRunner ----------------------------
(***************************************************************************)
(* One attempt of a Symphony worker: AppServerRunner::run_attempt of       *)
(* crates/arbor-symphony/src/codex.rs.  The runner starts an app server in *)
(* the workspace and talks to it in lines of JSON over two pipes: it sends *)
(* a request and reads until the answer comes, then reads what the server  *)
(* says of the turn until the turn ends.  Requests have numbers, and so    *)
(* have the questions the server asks.  The server is another program: it  *)
(* answers or does not, talks while it should answer, asks, stops reading, *)
(* ends, and all the runner has against it are two timeouts, both for what *)
(* it reads: what it writes waits as long as the pipe is full.  The texts  *)
(* of messages, the counts of tokens and the rate limits are left out.     *)
(***************************************************************************)
EXTENDS Naturals, Sequences

CONSTANTS
    MaxTurns,    \* AgentConfig.max_turns
    AskIds,      \* the numbers of the server's questions; 0: not a number
    Noise,       \* what else the server may say: see Line
    MaxLines     \* bound: lines in the pipe from the server

ASSUME CodexAssumption ==
    /\ MaxTurns \in Nat \ {0}    \* positive_u32 in workflow.rs
    /\ AskIds \subseteq Nat
    /\ Noise \subseteq {"note", "fault", "garbage", "blank"}
    /\ MaxLines \in Nat \ {0}

VARIABLES
    pc,       \* what the runner does: see CodexTypeOK
    nextId,   \* AppServerProcess.next_request_id
    turns,    \* RunResult.turn_count
    outcome,  \* what the worker returns: an outcome, or that it failed
    told,     \* RunnerEvents sent: sessions started and turns completed
    late,     \* the turn has lasted longer than turn_timeout_ms
    output,   \* the pipe from the server
    child,    \* the process
    server    \* what the server knows of the conversation

runnerVars == <<pc, nextId, turns, outcome, told, late>>
vars       == <<runnerVars, output, child, server>>

-----------------------------------------------------------------------------
(* Data *)

Waiting == {"initialize", "thread", "turn"}       \* in read_response
Asks    == {"approval", "tool", "input"}          \* questions of the server
Ends    == {"completed", "failed", "cancelled"}   \* the ends of a turn

\* answer, bare (an answer that names no thread or turn) and refusal answer a
\* request; note is a notification, fault an error that answers nothing,
\* garbage no JSON, blank nothing but white space.
Line == [kind : {"answer", "bare", "refusal"} \cup Asks \cup Ends \cup Noise, id : Nat]

Said(kind) == [kind |-> kind, id |-> 0]

\* eager: it may speak of a turn before it has confirmed it;
\* owes: the last request has no answer yet; open: a turn is under way; done:
\* turns the server completed; asks: numbered questions without an answer;
\* deaf: it reads no more, and the pipe to it is full.
Server == [eager : BOOLEAN, owes : BOOLEAN, open : BOOLEAN, done : Nat,
           asks : SUBSET (AskIds \ {0}), deaf : BOOLEAN]

CodexTypeOK ==
    /\ pc \in Waiting \cup {"start", "stream", "refresh", "next", "stop", "wait", "over"}
    /\ nextId \in Nat \ {0} /\ turns \in 0..MaxTurns
    /\ outcome \in {"none", "completed", "failed", "cancelled", "input", "error", "aborted"}
    /\ told \in [started : 0..MaxTurns, completed : 0..MaxTurns]
    /\ late \in BOOLEAN
    /\ output \in Seq(Line)
    /\ child \in {"none", "running", "killed", "ended"}
    /\ server \in Server

Init ==
    /\ pc = "start" /\ nextId = 1 /\ turns = 0 /\ outcome = "none"
    /\ told = [started |-> 0, completed |-> 0] /\ late = FALSE
    /\ output = <<>> /\ child = "none"
    /\ \E eager \in BOOLEAN :
          server = [eager |-> eager, owes |-> FALSE, open |-> FALSE, done |-> 0,
                    asks |-> {}, deaf |-> FALSE]

-----------------------------------------------------------------------------
(* The end of an attempt *)

\* The conversation is over with o: stop_child comes next.
EndWith(o) == outcome' = o /\ pc' = "stop"

\* An early return of the inner block.
Fail == EndWith("error") /\ UNCHANGED <<nextId, turns, told>>

\* start_kill.  Killing a child that has ended does nothing.
Killed(c) == IF c = "running" THEN "killed" ELSE c

StopChild ==
    /\ pc = "stop"
    /\ child' = Killed(child)
    /\ pc' = "wait"
    /\ UNCHANGED <<nextId, turns, outcome, told, late, output, server>>

\* child.wait() returns.
WaitForChild ==
    /\ pc = "wait" /\ child = "ended"
    /\ pc' = "over"
    /\ UNCHANGED <<nextId, turns, outcome, told, late, output, child, server>>

\* The worker is aborted at whatever it awaits.  What it holds is dropped, the
\* child with it, which is spawned with kill_on_drop.
Abort ==
    /\ pc \notin {"start", "over"}
    /\ pc' = "over" /\ outcome' = "aborted"
    /\ child' = Killed(child)
    /\ UNCHANGED <<nextId, turns, told, late, output, server>>

-----------------------------------------------------------------------------
(* Requests and answers *)

\* write_all and flush have no timeout: the runner waits until there is room in
\* the pipe, and fails when nobody has its other end any more.
CanWrite == child = "running" /\ ~server.deaf

\* send_message with a request, and on to read_response in p.
Request(p) ==
    \/ /\ CanWrite
       /\ pc' = p /\ nextId' = nextId + 1
       /\ server' = [server EXCEPT !.owes = TRUE, !.open = @ \/ p = "turn"]
       /\ UNCHANGED <<turns, outcome, told>>
    \/ child = "ended" /\ Fail /\ UNCHANGED server

\* The workspace is no directory, or there is no such command; or the process
\* is started and initialize sent.
Start ==
    /\ pc = "start"
    /\ \/ /\ pc' = "over" /\ outcome' = "error"
          /\ UNCHANGED <<nextId, turns, told, child, server>>
       \/ /\ child' = "running"
          /\ pc' = "initialize" /\ nextId' = nextId + 1
          /\ server' = [server EXCEPT !.owes = TRUE]
          /\ UNCHANGED <<turns, outcome, told>>
    /\ UNCHANGED <<late, output>>

Takes(line) == pc \in Waiting /\ line.kind \notin {"blank", "garbage"} /\ line.id = nextId - 1

NeedsReply(line) == line.kind \in Asks /\ line.id # 0

\* The answer cannot be written: the server has gone.
Unwritable(line) == NeedsReply(line) /\ child # "running"

\* respond: a numbered question is answered, one without a number is not.
Respond(line) ==
    /\ NeedsReply(line) => CanWrite
    /\ server' = [server EXCEPT !.asks = IF line.kind \in Asks THEN @ \ {line.id} ELSE @]

\* start_thread and start_turn look for an id in the answer, initialize does not.
Refused(line) == line.kind = "refusal" \/ (pc # "initialize" /\ line.kind # "answer")

\* read_response returns the first message that has the number of the request,
\* whatever it is.  thread/start is sent with the notification "initialized".
TakeAnswer(line) ==
    /\ Takes(line)
    /\ IF Refused(line)
       THEN Fail /\ UNCHANGED <<late, server>>
       ELSE \/ /\ pc = "initialize"
               /\ Request("thread") /\ UNCHANGED late
            \/ /\ pc = "thread"
               /\ Request("turn") /\ UNCHANGED late
            \/ /\ pc = "turn"
               /\ pc' = "stream" /\ late' = FALSE
               /\ turns' = turns + 1
               /\ told' = [told EXCEPT !.started = @ + 1]
               /\ UNCHANGED <<nextId, outcome, server>>

\* What else read_response reads goes to handle_server_method with a result and
\* a channel that are thrown away: questions are answered, ends are forgotten.
PassOver(line) ==
    /\ pc \in Waiting /\ ~Takes(line)
    /\ IF line.kind = "garbage" \/ Unwritable(line)
       THEN Fail /\ UNCHANGED server
       ELSE Respond(line) /\ UNCHANGED runnerVars
    /\ UNCHANGED late

-----------------------------------------------------------------------------
(* Turns *)

TimesOutInSilence(line) == UNCHANGED <<pc, nextId, turns, outcome, told>>

\* stream_turn looks at the clock when it has handled a line, other than a blank.
OnTime(line) ==
    IF late /\ line.kind # "blank" THEN Fail ELSE UNCHANGED <<pc, nextId, turns, outcome, told>>

GoesOnAfterCancel(line) ==
    \/ /\ line.kind \in {"completed", "cancelled"}
       /\ pc' = "refresh"
       /\ told' = [told EXCEPT !.completed = @ + 1]
       /\ UNCHANGED <<nextId, turns, outcome>>
    \/ /\ line.kind \in {"failed", "input"}
       /\ EndWith(line.kind) /\ UNCHANGED <<nextId, turns, told>>

\* handle_server_method ends the turn with an outcome.
HearEnd(line) ==
    \/ /\ line.kind = "completed"
       /\ pc' = "refresh"
       /\ told' = [told EXCEPT !.completed = @ + 1]
       /\ UNCHANGED <<nextId, turns, outcome>>
    \/ /\ line.kind \in (Ends \ {"completed"}) \cup {"input"}
       /\ EndWith(line.kind) /\ UNCHANGED <<nextId, turns, told>>

FailureIsNoEnd(line) == line.kind \in {"completed", "cancelled", "input"}

EndsTurn(line) == line.kind \in Ends \cup {"input"}

\* stream_turn handles a line.
Hear(line) ==
    /\ pc = "stream"
    /\ IF line.kind \in {"garbage", "fault", "refusal"} \/ Unwritable(line)
       THEN Fail /\ UNCHANGED server
       ELSE /\ Respond(line)
            /\ IF EndsTurn(line) THEN HearEnd(line) ELSE OnTime(line)
    /\ UNCHANGED late

\* After a completed turn the issue is looked up; another turn is started while
\* its state is active and there are turns left.
Refresh ==
    /\ pc = "refresh"
    /\ \/ Fail
       \/ /\ turns < MaxTurns
          /\ pc' = "next"
          /\ UNCHANGED <<nextId, turns, outcome, told>>
       \/ EndWith("completed") /\ UNCHANGED <<nextId, turns, told>>
    /\ UNCHANGED <<late, output, child, server>>

NextTurn ==
    /\ pc = "next"
    /\ Request("turn")
    /\ UNCHANGED <<late, output, child>>

Read ==
    /\ output # <<>>
    /\ output' = Tail(output)
    /\ LET line == Head(output)
       IN  TakeAnswer(line) \/ PassOver(line) \/ Hear(line)
    /\ UNCHANGED child

\* Nothing has come for read_timeout_ms or turn_timeout_ms, or nothing can come
\* any more.
HearNothing ==
    /\ pc \in Waiting \cup {"stream"}
    /\ output = <<>>
    /\ Fail
    /\ UNCHANGED <<late, output, child, server>>

\* turn_timeout_ms have passed since the turn was confirmed.
GetLate ==
    /\ pc = "stream" /\ ~late
    /\ late' = TRUE
    /\ UNCHANGED <<pc, nextId, turns, outcome, told, output, child, server>>

-----------------------------------------------------------------------------
(* The app server *)

Say(line) ==
    /\ child = "running"
    /\ Len(output) < MaxLines
    /\ output' = Append(output, line)
    /\ UNCHANGED <<runnerVars, child>>

Answer ==
    /\ server.owes
    /\ server' = [server EXCEPT !.owes = FALSE]
    /\ \E kind \in {"answer", "bare", "refusal"} : Say([kind |-> kind, id |-> nextId - 1])

MakeNoise ==
    /\ \E kind \in Noise : Say(Said(kind))
    /\ UNCHANGED server

MaySpeakOfTurn == server.open /\ (server.owes => server.eager)

Ask(kind, id) ==
    /\ MaySpeakOfTurn
    /\ id \notin server.asks
    /\ server' = [server EXCEPT !.asks = @ \cup ({id} \ {0})]
    /\ Say([kind |-> kind, id |-> id])

EndTurn(kind) ==
    /\ MaySpeakOfTurn
    /\ server' = [server EXCEPT !.open = FALSE,
                                !.done = IF kind = "completed" THEN @ + 1 ELSE @]
    /\ Say(Said(kind))

\* The server reads no more, and what it was sent fills the pipe.
StopReading ==
    /\ child = "running" /\ ~server.deaf
    /\ server' = [server EXCEPT !.deaf = TRUE]
    /\ UNCHANGED <<runnerVars, output, child>>

\* The server ends by itself, or because it was killed.
ChildEnds ==
    /\ child \in {"running", "killed"}
    /\ child' = "ended"
    /\ UNCHANGED <<runnerVars, output, server>>

-----------------------------------------------------------------------------

Runner == Start \/ Read \/ HearNothing \/ Refresh \/ NextTurn \/ StopChild \/ WaitForChild

ServerNext == \/ Answer \/ MakeNoise \/ StopReading
              \/ \E kind \in Asks, id \in AskIds : Ask(kind, id)
              \/ \E kind \in Ends : EndTurn(kind)

Next == Runner \/ GetLate \/ Abort \/ ServerNext \/ ChildEnds

Spec == Init /\ [][Next]_vars

\* The worker's task runs when it can, time passes, and a process that was killed
\* ends.  The server owes nothing, and nobody has to abort the worker.
FairSpec ==
    /\ Spec
    /\ WF_vars(Runner) /\ WF_vars(GetLate)
    /\ WF_vars(child = "killed" /\ ChildEnds)

-----------------------------------------------------------------------------
(* Properties *)

\* What the attempt says it did is what the server did: a turn is asked for only
\* when the turns before it were completed, and an attempt that ends as completed
\* has as many completed turns as it counted and reported.
TurnsAreCounted ==
    /\ told.started = turns
    /\ pc \in {"refresh", "next"} \/ outcome = "completed" =>
          turns = server.done /\ turns = told.completed /\ ~server.open
    /\ pc = "turn" => turns = told.completed

Ahead(kinds, id) == \E k \in 1..Len(output) : output[k].kind \in kinds /\ output[k].id = id

\* Nothing the server waits for, and no end of the turn, is lost between the
\* reader of answers and the reader of turns: while the conversation goes on it is
\* still ahead in the pipe.  The code owes the ends to servers that confirm a turn
\* before they speak of it; a question with the number of the request that is taken
\* for its answer ends the conversation.
NothingIsMissed ==
    /\ pc = "stream" /\ ~server.open /\ ~server.eager => Ahead(Ends, 0)
    /\ pc \in Waiting \cup {"stream", "refresh", "next"} => \A id \in server.asks : Ahead(Asks, id)

\* The worker sees what the attempt tells and, once it is over, what it returns.
Report == INSTANCE AttemptReport WITH
    started   <- told.started,
    completed <- told.completed,
    agent     <- child,
    result    <- IF pc = "over" THEN outcome ELSE "none"

\* The attempt keeps the promise of AttemptReport, whatever the server says, when
\* it ends and where the worker is aborted: turns are told one at a time, none after
\* one that did not complete, and the one result agrees with them and comes
\* when no agent is left at work.
KeepsReport == Report!ReportSpec

\* What the runner wants to write waits for a server that does not read.
Blocked ==
    /\ child = "running" /\ server.deaf
    /\ \/ pc = "next"
       \/ /\ pc \in Waiting \cup {"stream"} /\ output # <<>>
          /\ LET line == Head(output)
             IN  IF Takes(line) THEN pc # "turn" /\ ~Refused(line) ELSE NeedsReply(line)

\* A line no timeout of the runner counts: each line starts the wait for an answer
\* anew, and a blank one does not make it look at the clock of the turn.
Chatter ==
    /\ Len(output') > Len(output)
    /\ server.owes \/ output'[Len(output')].kind = "blank"

Over == pc = "over" /\ child \in {"none", "ended"}

\* Every attempt comes to an end, with no app server left at work in the workspace,
\* if the server does not go on for ever to talk while it owes an answer or to send
\* blank lines, and unless the runner waits for ever to write to a server that runs
\* and has stopped reading.  The code has no timeout for any of the three.
RunEnds == <>[][~Chatter]_vars => <>[](Blocked \/ Over)

\* The same without the premise, and without the exception: the code promises
\* neither (hand configurations).
EndsDespiteTalk == <>[](Blocked \/ Over)
EndsUnread      == <>[][~Chatter]_vars => <>[]Over
=============================================================================
