--------------------------- MODULE SymphonyProofs ---------------------------
(***************************************************************************)
(* Theorems about the orchestrator, for all issues, configurations and     *)
(* bounds.                                                                 *)
(***************************************************************************)
EXTENDS Symphony, FiniteSetTheorems, TLAPS

\* The table of retries stays one when an entry is removed.
LEMMA DropRetryType ==
    ASSUME TypeOK, NEW i \in Issues
    PROVE  /\ DOMAIN Drop(retries, i) = DOMAIN retries \ {i}
           /\ Drop(retries, i) \in [DOMAIN retries \ {i} -> Retry]
<1>1. retries \in [DOMAIN retries -> Retry]
  BY DEF TypeOK
<1> QED
  BY <1>1 DEF Drop, Restrict

\* And when one is inserted.
LEMMA PutRetryType ==
    ASSUME TypeOK, NEW i \in Issues, NEW r \in Retry
    PROVE  /\ DOMAIN Put(retries, i, r) = DOMAIN retries \cup {i}
           /\ Put(retries, i, r) \in [DOMAIN retries \cup {i} -> Retry]
<1>1. retries \in [DOMAIN retries -> Retry]
  BY DEF TypeOK
<1> QED
  BY <1>1 DEF Put

\* The same of the table of runs.
LEMMA DropRunType ==
    ASSUME TypeOK, NEW i \in Issues
    PROVE  /\ DOMAIN Drop(running, i) = DOMAIN running \ {i}
           /\ Drop(running, i) \in [DOMAIN running \ {i} -> Entry]
<1>1. running \in [DOMAIN running -> Entry]
  BY DEF TypeOK
<1> QED
  BY <1>1 DEF Drop, Restrict

LEMMA PutRunType ==
    ASSUME TypeOK, NEW i \in Issues, NEW e \in Entry
    PROVE  /\ DOMAIN Put(running, i, e) = DOMAIN running \cup {i}
           /\ Put(running, i, e) \in [DOMAIN running \cup {i} -> Entry]
<1>1. running \in [DOMAIN running -> Entry]
  BY DEF TypeOK
<1> QED
  BY <1>1 DEF Put

\* abort leaves a table of workers a table of workers.
LEMMA AbortType ==
    ASSUME TypeOK, NEW S \in SUBSET DOMAIN running
    PROVE  Abort(S) \in [Issues -> [Gens -> Worker]]
<1> SUFFICES ASSUME NEW i \in Issues, i \in S
             PROVE  [worker[i] EXCEPT ![running[i].gen].aborted = TRUE]
                       \in [Gens -> Worker]
  BY DEF TypeOK, Abort
<1> DEFINE g == running[i].gen
<1>1. g \in Gens
  BY DEF TypeOK, Entry
<1>2. worker[i] \in [Gens -> Worker]
  BY DEF TypeOK
<1>3. [worker[i][g] EXCEPT !.aborted = TRUE] \in Worker
  BY <1>1, <1>2 DEF Worker
<1> HIDE DEF g
<1>4. [worker[i] EXCEPT ![g].aborted = TRUE] \in [Gens -> Worker]
  BY <1>1, <1>2, <1>3
<1> QED
  BY <1>4 DEF g

\* No map has fewer keys than the empty one, whatever its values are.
LEMMA EmptyMapType ==
    ASSUME NEW V
    PROVE  DOMAIN EmptyMap = {} /\ EmptyMap \in [{} -> V]
BY DEF EmptyMap

\* The answers of the tracker are well formed.
LEMMA AskType ==
    ASSUME NEW cfg \in Configs, NEW S \in SUBSET Issues,
           \A i \in S : tracker[i] \in States,
           Ask(S, cfg)
    PROVE  IsAnswer(reply')
<1>1. IsAnswer(Refused)
  BY EmptyMapType DEF IsAnswer, Refused
<1>2. IsAnswer(Answer(S, cfg))
  <2> DEFINE f == Answer(S, cfg).issues
  <2>1. \A i \in S : f[i] \in Candidate
    BY DEF Answer, Candidate
  <2>2. DOMAIN f = S /\ Answer(S, cfg).ok = TRUE /\ f = [i \in S |-> f[i]]
    BY DEF Answer
  <2> QED
    BY <2>1, <2>2 DEF IsAnswer
<1> QED
  BY <1>1, <1>2 DEF Ask

LEMMA NoAnswerType == IsAnswer(NoAnswer)
BY EmptyMapType DEF IsAnswer, NoAnswer

Inv == TypeOK /\ ClaimsMatch

LEMMA InitInv == Init => Inv
<1> SUFFICES ASSUME Init PROVE Inv
  OBVIOUS
<1>1. worker \in [Issues -> [Gens -> Worker]]
  BY DEF Init, Worker
<1>2. /\ DOMAIN running = {} /\ running \in [{} -> Entry]
      /\ DOMAIN retries = {} /\ retries \in [{} -> Retry]
  BY EmptyMapType DEF Init
<1>3. TypeOK
  <2>1. /\ events \in Seq(RunnerEvent \cup WorkerFinished)
        /\ commands \in Seq({"refresh", "stop"})
    BY DEF Init
  <2>2. timer \in 0..Poll /\ removals \in [Issues -> 0..MaxRemovals]
    BY BoundsAssumption DEF Init
  <2>3. IsAnswer(reply)
    BY NoAnswerType DEF Init
  <2>4. tracker \in [Issues -> States \cup {Gone}]
    BY DEF Init
  <2>5. dir \in [Issues -> BOOLEAN]
    BY DEF Init
  <2>6. snapshot \in [running : SUBSET Issues, retrying : SUBSET Issues,
                      status : {"running", "degraded", "stopped"}]
    BY DEF Init
  <2> QED
    BY <1>1, <1>2, <2>1, <2>2, <2>3, <2>4, <2>5, <2>6 DEF Init, TypeOK
<1>4. ClaimsMatch
  BY <1>2 DEF Init, ClaimsMatch
<1> QED
  BY <1>3, <1>4 DEF Inv

LEMMA SleepType == SleepAgain => timer' \in 0..Poll
BY BoundsAssumption DEF SleepAgain

LEMMA PublishType ==
    ASSUME DOMAIN running' \subseteq Issues, DOMAIN retries' \subseteq Issues, Publish
    PROVE  snapshot' \in [running : SUBSET Issues, retrying : SUBSET Issues,
                          status : {"running", "degraded", "stopped"}]
BY DEF Publish

LEMMA StartupCleanupInv == Inv /\ StartupCleanup => Inv'
<1> SUFFICES ASSUME Inv, StartupCleanup PROVE Inv'
  OBVIOUS
<1>1. dir' \in [Issues -> BOOLEAN]
  BY DEF Inv, TypeOK, StartupCleanup
<1> QED
  BY <1>1, SleepType, PublishType
  DEF Inv, TypeOK, ClaimsMatch, StartupCleanup, tickVars, schedVars, RunsAs, IsAnswer

LEMMA BeginTickInv ==
    ASSUME Inv, pc = "loop", BeginTick, commands' \in Seq({"refresh", "stop"}), timer' = timer
    PROVE  Inv'
<1>1. PICK cfg \in Configs, failed \in BOOLEAN :
         /\ config' = cfg
         /\ tickError' = failed
         /\ LET stalled == {i \in DOMAIN running : cfg.stalls /\ running[i].idle}
            IN /\ running' = [i \in DOMAIN running |->
                                IF i \in stalled
                                THEN [running[i] EXCEPT !.cancel = "retry"]
                                ELSE running[i]]
               /\ worker' = Abort(stalled)
         /\ IF DOMAIN running = {}
            THEN pc' = "retries" /\ reply' = NoAnswer
            ELSE /\ pc' = "reconcile"
                 /\ Ask({i \in DOMAIN running : tracker[i] # Gone}, cfg)
  BY DEF BeginTick
<1> DEFINE stalled == {i \in DOMAIN running : cfg.stalls /\ running[i].idle}
<1>2. worker' \in [Issues -> [Gens -> Worker]]
  <2>1. stalled \in SUBSET DOMAIN running
    OBVIOUS
  <2>2. worker' = Abort(stalled)
    BY <1>1
  <2> QED
    BY <2>1, <2>2, AbortType DEF Inv
<1>3. DOMAIN running' = DOMAIN running /\ running' \in [DOMAIN running -> Entry]
  BY <1>1 DEF Inv, TypeOK, Entry
<1>4. IsAnswer(reply')
  <2>1. CASE DOMAIN running = {}
    BY <2>1, <1>1, NoAnswerType
  <2>2. CASE DOMAIN running # {}
    <3> DEFINE S == {i \in DOMAIN running : tracker[i] # Gone}
    <3>1. S \in SUBSET Issues /\ \A i \in S : tracker[i] \in States
      BY DEF Inv, TypeOK
    <3>2. Ask(S, cfg)
      BY <1>1, <2>2
    <3> QED
      BY <3>1, <3>2, AskType
  <2> QED
    BY <2>1, <2>2
<1>5. pc' \in {"retries", "reconcile"}
  BY <1>1
<1>6. TypeOK'
  BY <1>1, <1>2, <1>3, <1>4, <1>5 DEF Inv, TypeOK, BeginTick, envVars
<1>7. ClaimsMatch'
  BY <1>3, <1>5 DEF Inv, ClaimsMatch, BeginTick
<1> QED
  BY <1>6, <1>7 DEF Inv

LEMMA WakeUpInv == Inv /\ WakeUp => Inv'
<1> SUFFICES ASSUME Inv, WakeUp PROVE Inv'
  OBVIOUS
<1>1. commands' \in Seq({"refresh", "stop"})
  BY DEF Inv, TypeOK, WakeUp
<1> QED
  BY <1>1, BeginTickInv DEF WakeUp

LEMMA ReceiveRefreshInv == Inv /\ ReceiveRefresh => Inv'
<1> SUFFICES ASSUME Inv, ReceiveRefresh PROVE Inv'
  OBVIOUS
<1>1. commands' \in Seq({"refresh", "stop"})
  BY DEF Inv, TypeOK, ReceiveRefresh
<1> QED
  BY <1>1, BeginTickInv DEF ReceiveRefresh

LEMMA ReceiveStopInv == Inv /\ ReceiveStop => Inv'
<1> SUFFICES ASSUME Inv, ReceiveStop PROVE Inv'
  OBVIOUS
<1>1. worker' \in [Issues -> [Gens -> Worker]]
  BY AbortType DEF Inv, ReceiveStop
<1>2. /\ DOMAIN running' = {} /\ running' \in [{} -> Entry]
      /\ DOMAIN retries' = {} /\ retries' \in [{} -> Retry]
  BY EmptyMapType DEF ReceiveStop
<1>3. /\ events' \in Seq(RunnerEvent \cup WorkerFinished)
      /\ commands' \in Seq({"refresh", "stop"})
  BY DEF ReceiveStop
<1>4. ClaimsMatch'
  <2>1. due' = {}
    BY DEF Inv, ClaimsMatch, ReceiveStop, tickVars
  <2> QED
    BY <1>2, <2>1 DEF ClaimsMatch, ReceiveStop
<1> QED
  BY <1>1, <1>2, <1>3, <1>4
  DEF Inv, TypeOK, ReceiveStop, tickVars, envVars, IsAnswer

LEMMA ReconcileInv == Inv /\ Reconcile => Inv'
<1> SUFFICES ASSUME Inv, Reconcile PROVE Inv'
  OBVIOUS
<1> DEFINE known    == DOMAIN reply.issues \cap DOMAIN running
           released == {i \in known : \/ IsTerminal(reply.issues[i].state)
                                      \/ ~IsActive(reply.issues[i].state)}
           removed  == {i \in known : EndsWorkspace(reply.issues[i].state)}
<1>1. worker' \in [Issues -> [Gens -> Worker]]
  <2>1. worker' = Abort(released) /\ released \in SUBSET DOMAIN running
    BY DEF Reconcile
  <2> QED
    BY <2>1, AbortType DEF Inv
<1>2. DOMAIN running' = DOMAIN running /\ running' \in [DOMAIN running -> Entry]
  <2>1. running' = [i \in DOMAIN running |->
                CASE i \in released         -> [running[i] EXCEPT !.cancel = "release"]
                  [] i \in known \ released -> [running[i] EXCEPT !.state = reply.issues[i].state]
                  [] OTHER                  -> running[i]]
    BY DEF Reconcile
  <2>2. \A i \in known : reply.issues[i].state \in States
    BY DEF Inv, TypeOK, IsAnswer, Candidate
  <2>3. \A i \in DOMAIN running : running[i] \in Entry
    BY DEF Inv, TypeOK
  <2>4. \A i \in DOMAIN running : running'[i] \in Entry
    <3> SUFFICES ASSUME NEW i \in DOMAIN running PROVE running'[i] \in Entry
      OBVIOUS
    <3>1. CASE i \in released
      BY <3>1, <2>1, <2>3 DEF Entry
    <3>2. CASE i \in known \ released
      BY <3>2, <2>1, <2>2, <2>3 DEF Entry
    <3>3. CASE i \notin known
      BY <3>3, <2>1, <2>3
    <3> QED
      BY <3>1, <3>2, <3>3
  <2> QED
    BY <2>1, <2>4
<1>3. removals' \in [Issues -> 0..MaxRemovals]
  <2>1. /\ \A i \in removed : removals[i] < MaxRemovals
        /\ removals' = [i \in Issues |->
                          IF i \in removed THEN removals[i] + 1 ELSE removals[i]]
    BY DEF Reconcile
  <2>2. removals \in [Issues -> 0..MaxRemovals]
    BY DEF Inv, TypeOK
  <2> QED
    BY <2>1, <2>2, BoundsAssumption
<1>4. IsAnswer(reply')
  BY NoAnswerType DEF Reconcile
<1>5. ClaimsMatch'
  BY <1>2 DEF Inv, ClaimsMatch, Reconcile
<1>6. TypeOK'
  BY <1>1, <1>2, <1>3, <1>4 DEF Inv, TypeOK, Reconcile, pubVars, IsAnswer
<1> QED
  BY <1>5, <1>6 DEF Inv

LEMMA CandidatesType ==
    ASSUME TypeOK, Ask(Candidates, config)
    PROVE  IsAnswer(reply')
<1>1. config \in Configs
  BY DEF TypeOK
<1>2. Candidates \in SUBSET Issues /\ \A i \in Candidates : tracker[i] \in States
  BY ConfigsAssumption DEF TypeOK, Candidates, Config
<1> QED
  BY <1>1, <1>2, AskType

LEMMA CollectDueRetriesInv == Inv /\ CollectDueRetries => Inv'
<1> SUFFICES ASSUME Inv, CollectDueRetries PROVE Inv'
  OBVIOUS
<1>1. IsAnswer(reply')
  BY CandidatesType DEF Inv, TypeOK, CollectDueRetries
<1>2. TypeOK'
  BY <1>1 DEF Inv, TypeOK, CollectDueRetries, schedVars, pubVars, envVars
<1>3. ClaimsMatch'
  BY DEF Inv, ClaimsMatch, CollectDueRetries, schedVars
<1> QED
  BY <1>2, <1>3 DEF Inv

LEMMA DueRetriesRefusedInv == Inv /\ DueRetriesRefused => Inv'
BY DEF Inv, TypeOK, ClaimsMatch, IsAnswer, DueRetriesRefused, schedVars, pubVars, envVars

\* dispatch_issue, for whatever issue the tracker returned.
LEMMA DispatchType ==
    ASSUME TypeOK, NEW i \in Issues, NEW c \in Candidate,
           NEW attempt \in 0..MaxAttempt, Dispatch(i, c, attempt)
    PROVE  /\ claimed' = claimed \cup {i}
           /\ DOMAIN running' = DOMAIN running \cup {i}
           /\ running' \in [DOMAIN running' -> Entry]
           /\ DOMAIN retries' = DOMAIN retries \ {i}
           /\ retries' \in [DOMAIN retries' -> Retry]
           /\ worker' \in [Issues -> [Gens -> Worker]]
<1>1. PICK g \in Gens :
        /\ claimed' = claimed \cup {i}
        /\ retries' = Drop(retries, i)
        /\ worker' = [worker EXCEPT ![i][g] =
                        [phase |-> "starting", aborted |-> FALSE, buffer |-> 0]]
        /\ running' = Put(running, i,
                        [gen |-> g, state |-> c.state, idle |-> FALSE,
                         attempt |-> attempt, cancel |-> "none"])
  BY DEF Dispatch
<1>2. [gen |-> g, state |-> c.state, idle |-> FALSE, attempt |-> attempt,
       cancel |-> "none"] \in Entry
  BY DEF Entry, Candidate
<1>3. /\ DOMAIN running' = DOMAIN running \cup {i}
      /\ running' \in [DOMAIN running' -> Entry]
  BY <1>1, <1>2, PutRunType
<1>4. /\ DOMAIN retries' = DOMAIN retries \ {i}
      /\ retries' \in [DOMAIN retries' -> Retry]
  BY <1>1, DropRetryType
<1>5. [phase |-> "starting", aborted |-> FALSE, buffer |-> 0] \in Worker
  BY DEF Worker
<1>6. worker' \in [Issues -> [Gens -> Worker]]
  BY <1>1, <1>5 DEF TypeOK
<1> QED
  BY <1>1, <1>3, <1>4, <1>6

\* schedule_retry
LEMMA ScheduleRetryType ==
    ASSUME TypeOK, NEW i \in Issues, NEW attempt \in 1..MaxAttempt,
           ScheduleRetry(i, attempt)
    PROVE  /\ claimed' = claimed \cup {i}
           /\ DOMAIN retries' = DOMAIN retries \cup {i}
           /\ retries' \in [DOMAIN retries' -> Retry]
<1>1. [attempt |-> attempt, due |-> FALSE] \in Retry
  BY DEF Retry
<1> QED
  BY <1>1, PutRetryType DEF ScheduleRetry

LEMMA NextAttemptType == \A n \in 0..MaxAttempt : NextAttempt(n) \in 1..MaxAttempt
BY BoundsAssumption DEF NextAttempt

LEMMA DropDueRetryInv == \A i \in Issues : Inv /\ DropDueRetry(i) => Inv'
<1> SUFFICES ASSUME NEW i \in Issues, Inv, DropDueRetry(i) PROVE Inv'
  OBVIOUS
<1>1. /\ DOMAIN retries' = DOMAIN retries \ {i}
      /\ retries' \in [DOMAIN retries' -> Retry]
  BY DropRetryType DEF Inv, DropDueRetry
<1>2. ClaimsMatch'
  BY <1>1 DEF Inv, ClaimsMatch, DropDueRetry, ProcessDueRetry
<1>3. TypeOK'
  BY <1>1 DEF Inv, TypeOK, DropDueRetry, ProcessDueRetry, pubVars, envVars, IsAnswer
<1> QED
  BY <1>2, <1>3 DEF Inv

LEMMA DispatchDueRetryInv == \A i \in Issues : Inv /\ DispatchDueRetry(i) => Inv'
<1> SUFFICES ASSUME NEW i \in Issues, Inv, DispatchDueRetry(i) PROVE Inv'
  OBVIOUS
<1>1. reply.issues[i] \in Candidate
  BY DEF Inv, TypeOK, IsAnswer, DispatchDueRetry
<1>2. retries[i].attempt \in 0..MaxAttempt /\ i \in DOMAIN retries
  BY DEF Inv, TypeOK, ClaimsMatch, Retry, DispatchDueRetry, ProcessDueRetry
<1>3. Dispatch(i, reply.issues[i], retries[i].attempt)
  BY DEF DispatchDueRetry
<1>4. /\ claimed' = claimed \cup {i}
      /\ DOMAIN running' = DOMAIN running \cup {i}
      /\ running' \in [DOMAIN running' -> Entry]
      /\ DOMAIN retries' = DOMAIN retries \ {i}
      /\ retries' \in [DOMAIN retries' -> Retry]
      /\ worker' \in [Issues -> [Gens -> Worker]]
  BY <1>1, <1>2, <1>3, DispatchType DEF Inv
<1>5. ClaimsMatch'
  BY <1>4 DEF Inv, ClaimsMatch, DispatchDueRetry, ProcessDueRetry
<1>6. TypeOK'
  BY <1>4 DEF Inv, TypeOK, DispatchDueRetry, ProcessDueRetry, pubVars, envVars, IsAnswer
<1> QED
  BY <1>5, <1>6 DEF Inv

LEMMA PostponeDueRetryInv == \A i \in Issues : Inv /\ PostponeDueRetry(i) => Inv'
<1> SUFFICES ASSUME NEW i \in Issues, Inv, PostponeDueRetry(i) PROVE Inv'
  OBVIOUS
<1>1. i \in DOMAIN retries /\ retries[i].attempt \in 0..MaxAttempt
  BY DEF Inv, TypeOK, ClaimsMatch, Retry, PostponeDueRetry, ProcessDueRetry
<1>2. /\ claimed' = claimed \cup {i}
      /\ DOMAIN retries' = DOMAIN retries \cup {i}
      /\ retries' \in [DOMAIN retries' -> Retry]
  BY <1>1, NextAttemptType, ScheduleRetryType DEF Inv, PostponeDueRetry
<1>3. ClaimsMatch'
  BY <1>1, <1>2 DEF Inv, ClaimsMatch, PostponeDueRetry, ProcessDueRetry
<1>4. TypeOK'
  BY <1>2 DEF Inv, TypeOK, PostponeDueRetry, ProcessDueRetry, pubVars, envVars, IsAnswer
<1> QED
  BY <1>3, <1>4 DEF Inv

LEMMA FetchCandidatesInv == Inv /\ FetchCandidates => Inv'
<1> SUFFICES ASSUME Inv, FetchCandidates PROVE Inv'
  OBVIOUS
<1>1. IsAnswer(reply')
  BY CandidatesType DEF Inv, FetchCandidates
<1>2. TypeOK'
  BY <1>1 DEF Inv, TypeOK, FetchCandidates, schedVars, pubVars, envVars
<1>3. ClaimsMatch'
  BY DEF Inv, ClaimsMatch, FetchCandidates, schedVars
<1> QED
  BY <1>2, <1>3 DEF Inv

LEMMA NextCandidateType ==
    ASSUME TypeOK, NEW i \in Issues, NextCandidate(i)
    PROVE  IsAnswer(reply')
<1>1. reply' = [reply EXCEPT !.issues = Drop(reply.issues, i)]
  BY DEF NextCandidate
<1>2. /\ reply'.ok = reply.ok
      /\ reply'.issues = Drop(reply.issues, i)
  BY <1>1
<1> QED
  BY <1>2 DEF TypeOK, IsAnswer, Drop, Restrict

LEMMA DispatchCandidateInv == \A i \in Issues : Inv /\ DispatchCandidate(i) => Inv'
<1> SUFFICES ASSUME NEW i \in Issues, Inv, DispatchCandidate(i) PROVE Inv'
  OBVIOUS
<1>1. reply.issues[i] \in Candidate
  BY DEF Inv, TypeOK, IsAnswer, DispatchCandidate, NextCandidate
<1>2. Dispatch(i, reply.issues[i], 0) /\ 0 \in 0..MaxAttempt
  BY BoundsAssumption DEF DispatchCandidate
<1>3. /\ claimed' = claimed \cup {i}
      /\ DOMAIN running' = DOMAIN running \cup {i}
      /\ running' \in [DOMAIN running' -> Entry]
      /\ DOMAIN retries' = DOMAIN retries \ {i}
      /\ retries' \in [DOMAIN retries' -> Retry]
      /\ worker' \in [Issues -> [Gens -> Worker]]
  BY <1>1, <1>2, DispatchType DEF Inv
<1>4. IsAnswer(reply')
  BY NextCandidateType DEF Inv, DispatchCandidate
<1>5. ClaimsMatch'
  BY <1>3 DEF Inv, ClaimsMatch, DispatchCandidate, NextCandidate
<1>6. TypeOK'
  BY <1>3, <1>4 DEF Inv, TypeOK, DispatchCandidate, NextCandidate, pubVars, envVars
<1> QED
  BY <1>5, <1>6 DEF Inv

LEMMA SkipCandidateInv == \A i \in Issues : Inv /\ SkipCandidate(i) => Inv'
<1> SUFFICES ASSUME NEW i \in Issues, Inv, SkipCandidate(i) PROVE Inv'
  OBVIOUS
<1>1. IsAnswer(reply')
  BY NextCandidateType DEF Inv, SkipCandidate
<1>2. TypeOK'
  BY <1>1 DEF Inv, TypeOK, SkipCandidate, NextCandidate, schedVars, pubVars, envVars
<1>3. ClaimsMatch'
  BY DEF Inv, ClaimsMatch, SkipCandidate, NextCandidate, schedVars
<1> QED
  BY <1>2, <1>3 DEF Inv

LEMMA EndTickInv == Inv /\ EndTick => Inv'
<1> SUFFICES ASSUME Inv, EndTick PROVE Inv'
  OBVIOUS
<1>1. IsAnswer(reply')
  BY NoAnswerType DEF EndTick
<1>2. lastError' \in BOOLEAN
  BY DEF EndTick
<1>3. TypeOK'
  BY <1>1, <1>2, SleepType, PublishType DEF Inv, TypeOK, EndTick, schedVars, envVars
<1>4. ClaimsMatch'
  BY DEF Inv, ClaimsMatch, EndTick, schedVars
<1> QED
  BY <1>3, <1>4 DEF Inv

\* The channel stays one when the loop takes its next event.
LEMMA NextEventType ==
    ASSUME TypeOK, NEW kind, NextEvent(kind)
    PROVE  /\ events' \in Seq(RunnerEvent \cup WorkerFinished)
           /\ Head(events) \in RunnerEvent \cup WorkerFinished
           /\ Head(events).issue \in Issues
BY DEF TypeOK, NextEvent, RunnerEvent, WorkerFinished

LEMMA HandleRunnerEventInv == Inv /\ HandleRunnerEvent => Inv'
<1> SUFFICES ASSUME Inv, HandleRunnerEvent PROVE Inv'
  OBVIOUS
<1>1. events' \in Seq(RunnerEvent \cup WorkerFinished)
  BY NextEventType DEF Inv, HandleRunnerEvent
<1>2. DOMAIN running' = DOMAIN running /\ running' \in [DOMAIN running -> Entry]
  <2> DEFINE i == Head(events).issue
  <2>1. running \in [DOMAIN running -> Entry]
    BY DEF Inv, TypeOK
  <2>2. i \in DOMAIN running => [running[i] EXCEPT !.idle = FALSE] \in Entry
    BY <2>1 DEF Entry
  <2>3. running' = IF i \in DOMAIN running
                   THEN [running EXCEPT ![i].idle = FALSE] ELSE running
    BY DEF HandleRunnerEvent
  <2> HIDE DEF i
  <2> QED
    BY <2>1, <2>2, <2>3
<1>3. TypeOK'
  BY <1>1, <1>2, SleepType, PublishType
  DEF Inv, TypeOK, HandleRunnerEvent, NextEvent, tickVars, envVars, IsAnswer
<1>4. ClaimsMatch'
  BY <1>2 DEF Inv, ClaimsMatch, HandleRunnerEvent, NextEvent, tickVars
<1> QED
  BY <1>3, <1>4 DEF Inv

LEMMA HandleFinishedInv == Inv /\ HandleFinished => Inv'
<1> SUFFICES ASSUME Inv, HandleFinished PROVE Inv'
  OBVIOUS
<1> DEFINE i == Head(events).issue
<1>1. events' \in Seq(RunnerEvent \cup WorkerFinished) /\ i \in Issues
  BY NextEventType DEF Inv, HandleFinished
<1>2. CASE i \notin DOMAIN running
  <2>1. UNCHANGED <<schedVars, lastError, snapshot>>
    BY <1>2 DEF HandleFinished
  <2>2. TypeOK'
    BY <1>1, <2>1, SleepType
    DEF Inv, TypeOK, HandleFinished, NextEvent, schedVars, tickVars, envVars, IsAnswer
  <2>3. ClaimsMatch'
    BY <2>1 DEF Inv, ClaimsMatch, HandleFinished, NextEvent, schedVars, tickVars
  <2> QED
    BY <2>2, <2>3 DEF Inv
<1>3. CASE i \in DOMAIN running
  <2>1. /\ running' = Drop(running, i)
        /\ \/ /\ claimed' = claimed \ {i}
              /\ retries' = Drop(retries, i)
              /\ UNCHANGED lastError
           \/ /\ ScheduleRetry(i, 1)
              /\ UNCHANGED lastError
           \/ /\ ScheduleRetry(i, NextAttempt(running[i].attempt))
              /\ lastError' = TRUE
        /\ Publish
    BY <1>3 DEF HandleFinished
  <2>2. /\ DOMAIN running' = DOMAIN running \ {i}
        /\ running' \in [DOMAIN running' -> Entry]
    BY <1>1, <2>1, DropRunType DEF Inv
  <2>3. NextAttempt(running[i].attempt) \in 1..MaxAttempt /\ 1 \in 1..MaxAttempt
    BY <1>3, NextAttemptType, BoundsAssumption DEF Inv, TypeOK, Entry
  <2>4. /\ retries' \in [DOMAIN retries' -> Retry]
        /\ \/ claimed' = claimed \ {i} /\ DOMAIN retries' = DOMAIN retries \ {i}
           \/ claimed' = claimed \cup {i} /\ DOMAIN retries' = DOMAIN retries \cup {i}
    BY <1>1, <2>1, <2>3, DropRetryType, ScheduleRetryType DEF Inv
  <2>5. lastError' \in BOOLEAN
    BY <2>1 DEF Inv, TypeOK
  <2>6. ClaimsMatch'
    BY <1>3, <2>2, <2>4 DEF Inv, ClaimsMatch, HandleFinished, NextEvent, tickVars
  <2>7. snapshot' \in [running : SUBSET Issues, retrying : SUBSET Issues,
                       status : {"running", "degraded", "stopped"}]
    BY <1>1, <2>1, <2>2, <2>4, PublishType DEF Inv, TypeOK
  <2>8. timer' \in 0..Poll
    BY SleepType DEF HandleFinished
  <2>9. TypeOK'
    BY <1>1, <2>2, <2>4, <2>5, <2>7, <2>8
    DEF Inv, TypeOK, HandleFinished, NextEvent, tickVars, envVars, IsAnswer
  <2> QED
    BY <2>6, <2>9 DEF Inv
<1> QED
  BY <1>2, <1>3

\* What a worker's step may do to its own record.
LEMMA WorkerType ==
    ASSUME TypeOK, NEW i \in Issues, NEW g \in Gens, NEW w \in Worker,
           worker' = [worker EXCEPT ![i][g] = w]
    PROVE  worker' \in [Issues -> [Gens -> Worker]]
BY DEF TypeOK

\* A step of a worker or its forwarder leaves the actor's tables alone.
LEMMA WorkInv == \A i \in Issues, g \in Gens : Inv /\ Work(i, g) => Inv'
<1> SUFFICES ASSUME NEW i \in Issues, NEW g \in Gens, Inv, Work(i, g) PROVE Inv'
  OBVIOUS
<1> DEFINE w == worker[i][g]
<1>1. w \in Worker /\ w.buffer \in Nat
  BY DEF Inv, TypeOK, Worker
<1>2. dir' \in [Issues -> BOOLEAN] /\ UNCHANGED workerFrame
  BY DEF Inv, TypeOK, Work, EnsureWorkspace, FailToStart, Emit, Forward, FinishRun, CancelWorker
<1>3. events' \in Seq(RunnerEvent \cup WorkerFinished)
  <2>1. [kind |-> "runner", issue |-> i, gen |-> g] \in RunnerEvent
    BY DEF RunnerEvent
  <2>2. \A c \in BOOLEAN : [kind |-> "finished", issue |-> i, gen |-> g,
                             completed |-> c] \in WorkerFinished
    BY DEF WorkerFinished
  <2>3. \/ events' = events
        \/ \E m \in RunnerEvent \cup WorkerFinished : events' = Append(events, m)
    BY <2>1, <2>2 DEF Work, EnsureWorkspace, FailToStart, Emit, Forward, FinishRun,
                      CancelWorker, EndWorker, Send
  <2> DEFINE M == RunnerEvent \cup WorkerFinished
  <2>4. events \in Seq(M)
    BY DEF Inv, TypeOK
  <2>5. events' = events \/ \E m \in M : events' = Append(events, m)
    BY <2>3
  <2> HIDE DEF M
  <2>6. events' \in Seq(M)
    BY <2>4, <2>5
  <2> QED
    BY <2>6 DEF M
<1>4. worker' \in [Issues -> [Gens -> Worker]]
  <2>1. \E v \in Worker : worker' = [worker EXCEPT ![i][g] = v]
    <3>1. CASE EnsureWorkspace(i, g)
      <4>1. [w EXCEPT !.phase = "working"] \in Worker
        BY <1>1 DEF Worker
      <4> QED
        BY <3>1, <4>1 DEF EnsureWorkspace
    <3>2. CASE Emit(i, g)
      <4>1. [w EXCEPT !.buffer = w.buffer + 1] \in Worker
        BY <1>1 DEF Worker
      <4> QED
        BY <3>2, <4>1 DEF Emit
    <3>3. CASE Forward(i, g)
      <4>1. [w EXCEPT !.buffer = w.buffer - 1] \in Worker
        BY <1>1, <3>3 DEF Worker, Forward
      <4> QED
        BY <3>3, <4>1 DEF Forward
    <3>4. CASE FailToStart(i, g) \/ FinishRun(i, g) \/ CancelWorker(i, g)
      <4>1. [w EXCEPT !.phase = "ended"] \in Worker
        BY <1>1 DEF Worker
      <4> QED
        BY <3>4, <4>1 DEF FailToStart, FinishRun, CancelWorker, EndWorker
    <3> QED
      BY <3>1, <3>2, <3>3, <3>4 DEF Work
  <2> QED
    BY <2>1, WorkerType DEF Inv
<1>5. TypeOK'
  BY <1>2, <1>3, <1>4
  DEF Inv, TypeOK, workerFrame, tickVars, schedVars, pubVars, IsAnswer
<1>6. ClaimsMatch'
  BY <1>2 DEF Inv, ClaimsMatch, workerFrame, schedVars, tickVars
<1> QED
  BY <1>5, <1>6 DEF Inv

\* A removal of a workspace, the passing of time, a client's command and a
\* move in the tracker.
LEMMA EnvironmentInv == Inv /\ Environment => Inv'
<1> SUFFICES ASSUME Inv, Environment PROVE Inv'
  OBVIOUS
<1>1. CASE Elapse
  <2>1. timer' \in 0..Poll
    BY <1>1, BoundsAssumption DEF Inv, TypeOK, Elapse
  <2> QED
    BY <1>1, <2>1
    DEF Inv, TypeOK, ClaimsMatch, IsAnswer, Elapse, tickVars, schedVars, envVars
<1>2. ASSUME NEW c \in {"refresh", "stop"}, SendCommand(c)
      PROVE  Inv'
  <2>1. commands' \in Seq({"refresh", "stop"})
    BY <1>2 DEF Inv, TypeOK, SendCommand
  <2> QED
    BY <1>2, <2>1
    DEF Inv, TypeOK, ClaimsMatch, IsAnswer, SendCommand, tickVars, schedVars, pubVars, envVars
<1>3. ASSUME NEW i \in Issues, RetryFallsDue(i)
      PROVE  Inv'
  <2>1. DOMAIN retries' = DOMAIN retries /\ retries' \in [DOMAIN retries -> Retry]
    BY <1>3 DEF Inv, TypeOK, Retry, RetryFallsDue
  <2> QED
    BY <1>3, <2>1
    DEF Inv, TypeOK, ClaimsMatch, IsAnswer, RetryFallsDue, tickVars, pubVars, envVars
<1>4. ASSUME NEW i \in Issues, RunGoesIdle(i)
      PROVE  Inv'
  <2>1. DOMAIN running' = DOMAIN running /\ running' \in [DOMAIN running -> Entry]
    <3>1. DOMAIN running \subseteq Issues /\ running \in [DOMAIN running -> Entry]
      BY DEF Inv, TypeOK
    <3>2. i \in DOMAIN running /\ running' = [running EXCEPT ![i].idle = TRUE]
      BY <1>4 DEF RunGoesIdle
    <3>3. [running[i] EXCEPT !.idle = TRUE] \in Entry
      BY <3>1, <3>2 DEF Entry
    <3> QED
      BY <3>1, <3>2, <3>3
  <2> QED
    BY <1>4, <2>1
    DEF Inv, TypeOK, ClaimsMatch, IsAnswer, RunGoesIdle, tickVars, pubVars, envVars
<1>5. ASSUME NEW i \in Issues, RemoveWorkspace(i)
      PROVE  Inv'
  <2>1. removals' \in [Issues -> 0..MaxRemovals] /\ dir' \in [Issues -> BOOLEAN]
    BY <1>5, BoundsAssumption DEF Inv, TypeOK, RemoveWorkspace
  <2> QED
    BY <1>5, <2>1
    DEF Inv, TypeOK, ClaimsMatch, IsAnswer, RemoveWorkspace, tickVars, schedVars, pubVars
<1>6. ASSUME NEW i \in Issues, NEW s \in States \cup {Gone}, MoveIssue(i, s)
      PROVE  Inv'
  <2>1. tracker' \in [Issues -> States \cup {Gone}]
    BY <1>6 DEF Inv, TypeOK, MoveIssue
  <2> QED
    BY <1>6, <2>1
    DEF Inv, TypeOK, ClaimsMatch, IsAnswer, MoveIssue, tickVars, schedVars, pubVars
<1> QED
  BY <1>1, <1>2, <1>3, <1>4, <1>5, <1>6 DEF Environment

LEMMA NextInv == Inv /\ [Next]_vars => Inv'
<1> SUFFICES ASSUME Inv, [Next]_vars PROVE Inv'
  OBVIOUS
<1>1. CASE Tick
  BY <1>1, StartupCleanupInv, WakeUpInv, ReceiveRefreshInv, ReconcileInv,
     CollectDueRetriesInv, DueRetriesRefusedInv, DropDueRetryInv,
     DispatchDueRetryInv, PostponeDueRetryInv, FetchCandidatesInv,
     DispatchCandidateInv, SkipCandidateInv, EndTickInv
  DEF Tick
<1>2. CASE Handle
  BY <1>2, HandleRunnerEventInv, HandleFinishedInv DEF Handle
<1>3. CASE ReceiveStop
  BY <1>3, ReceiveStopInv
<1>4. CASE \E i \in Issues, g \in Gens : Work(i, g)
  BY <1>4, WorkInv
<1>5. CASE Environment
  BY <1>5, EnvironmentInv
<1>6. CASE UNCHANGED vars
  BY <1>6 DEF Inv, TypeOK, ClaimsMatch, IsAnswer, vars, tickVars, schedVars, pubVars, envVars
<1> QED
  BY <1>1, <1>2, <1>3, <1>4, <1>5, <1>6 DEF Next

\* Every reachable state of the orchestrator is well typed.
THEOREM TypeCorrect == Spec => []TypeOK
<1>1. Inv => TypeOK
  BY DEF Inv
<1> QED
  BY InitInv, NextInv, <1>1, PTL DEF Spec

\* The claimed issues are exactly those that run or wait for a retry, and no
\* issue does both: dispatching, finishing, releasing and retrying keep the
\* three collections in step.
THEOREM ClaimsAlwaysMatch == Spec => []ClaimsMatch
<1>1. Inv => ClaimsMatch
  BY DEF Inv
<1> QED
  BY InitInv, NextInv, <1>1, PTL DEF Spec

-----------------------------------------------------------------------------
(* Runs, workers and messages.  Most steps leave the three as they are, but   *)
(* for aborts; the others start a worker, end one, move a message or stop.    *)

\* abort only marks workers.
LEMMA AbortKeeps ==
    ASSUME TypeOK, NEW S \in SUBSET DOMAIN running, worker' = Abort(S),
           NEW i \in Issues, NEW g \in Gens
    PROVE  /\ worker'[i][g].phase = worker[i][g].phase
           /\ worker'[i][g].buffer = worker[i][g].buffer
           /\ worker[i][g].aborted => worker'[i][g].aborted
<1>1. worker[i] \in [Gens -> Worker] /\ worker[i][g] \in Worker
  BY DEF TypeOK
<1>2. worker'[i] = IF i \in S /\ Live(i, running[i].gen)
                   THEN [worker[i] EXCEPT ![running[i].gen].aborted = TRUE]
                   ELSE worker[i]
  BY DEF Abort
<1>3. CASE i \in S /\ Live(i, running[i].gen)
  <2> DEFINE h == running[i].gen
  <2>1. worker'[i][g] = IF g = h THEN [worker[i][g] EXCEPT !.aborted = TRUE]
                        ELSE worker[i][g]
    BY <1>1, <1>2, <1>3
  <2> QED
    BY <1>1, <2>1 DEF Worker
<1> QED
  BY <1>2, <1>3

\* The runs, the workers and their messages stay; workers may be aborted.
Quiet ==
    /\ DOMAIN running' = DOMAIN running
    /\ \A i \in DOMAIN running : running'[i].gen = running[i].gen
    /\ events' = events
    /\ pc' = "stopped" <=> pc = "stopped"
    /\ \A i \in Issues, g \in Gens :
         /\ worker'[i][g].phase = worker[i][g].phase
         /\ worker'[i][g].buffer = worker[i][g].buffer
         /\ worker[i][g].aborted => worker'[i][g].aborted

\* A new run of i, with an unused generation.
Spawned(i) ==
    /\ pc # "stopped" /\ pc' # "stopped"
    /\ i \notin DOMAIN running
    /\ events' = events
    /\ \E g \in Gens :
         /\ Unused(i, g)
         /\ worker' = [worker EXCEPT ![i][g] =
                         [phase |-> "starting", aborted |-> FALSE, buffer |-> 0]]
         /\ DOMAIN running' = DOMAIN running \cup {i}
         /\ running'[i].gen = g
         /\ \A j \in DOMAIN running : running'[j] = running[j]

IsRunner(k, i, g) == /\ events[k].kind = "runner"
                     /\ events[k].issue = i
                     /\ events[k].gen = g

\* Two workers of an issue are never alive together, even after a stop.
OneAgent == \A i \in Issues, g, h \in Gens : Live(i, g) /\ Live(i, h) => g = h

\* What a worker that was not aborted has sent is ahead of its end, and what it
\* has not sent it is still there to send.
InOrder ==
    \A i \in Issues, g \in Gens : ~worker[i][g].aborted =>
        /\ worker[i][g].buffer > 0 => worker[i][g].phase = "working"
        /\ \A k \in FinishedAt(i, g), l \in 1..Len(events) : l > k => ~IsRunner(l, i, g)

NothingAfterStop == pc = "stopped" => events = <<>>

FewRuns == IsFiniteSet(DOMAIN running)

OrderInv == /\ OneAgent /\ RunOwnsItsFinish /\ StaleEventsAreOfAbortedRuns
            /\ InOrder /\ NothingAfterStop /\ FewRuns

\* Messages name issues and generations.
LEMMA EventType ==
    ASSUME TypeOK, NEW k \in 1..Len(events)
    PROVE  /\ events[k] \in RunnerEvent \cup WorkerFinished
           /\ events[k].issue \in Issues /\ events[k].gen \in Gens
<1> DEFINE M == RunnerEvent \cup WorkerFinished
<1>1. events \in Seq(M)
  BY DEF TypeOK
<1> HIDE DEF M
<1>2. events[k] \in M
  BY <1>1
<1> QED
  BY <1>2 DEF M, RunnerEvent, WorkerFinished

LEMMA OrderInit == Init => OrderInv
<1> SUFFICES ASSUME Init PROVE OrderInv
  OBVIOUS
<1>1. \A i \in Issues, g \in Gens : ~Live(i, g) /\ worker[i][g].buffer = 0
  BY DEF Init, Live
<1>2. \A i \in Issues, g \in Gens : FinishedAt(i, g) = {}
  BY DEF Init, FinishedAt
<1>3. DOMAIN running = {} /\ Len(events) = 0
  BY EmptyMapType DEF Init
<1>4. OneAgent /\ RunOwnsItsFinish /\ InOrder
  BY <1>1, <1>2, <1>3 DEF OneAgent, RunOwnsItsFinish, InOrder, RunsAs
<1>5. StaleEventsAreOfAbortedRuns
  BY <1>3 DEF StaleEventsAreOfAbortedRuns
<1>6. NothingAfterStop /\ FewRuns
  BY <1>3, FS_EmptySet DEF Init, NothingAfterStop, FewRuns
<1> QED
  BY <1>4, <1>5, <1>6 DEF OrderInv

LEMMA QuietOrder == Inv /\ OrderInv /\ Quiet => OrderInv'
<1> SUFFICES ASSUME Inv, OrderInv, Quiet PROVE OrderInv'
  OBVIOUS
<1>1. \A i \in Issues, g \in Gens : /\ Live(i, g)' <=> Live(i, g)
                                    /\ RunsAs(i, g)' <=> RunsAs(i, g)
                                    /\ FinishedAt(i, g)' = FinishedAt(i, g)
  BY DEF Quiet, Live, RunsAs, FinishedAt
<1>2. OneAgent' /\ RunOwnsItsFinish'
  BY <1>1 DEF OrderInv, OneAgent, RunOwnsItsFinish, Quiet
<1>3. StaleEventsAreOfAbortedRuns'
  BY <1>1, EventType DEF OrderInv, Inv, StaleEventsAreOfAbortedRuns, Quiet
<1>4. InOrder'
  BY <1>1 DEF OrderInv, InOrder, IsRunner, Quiet
<1>5. NothingAfterStop' /\ FewRuns'
  BY DEF OrderInv, NothingAfterStop, FewRuns, Quiet
<1> QED
  BY <1>2, <1>3, <1>4, <1>5 DEF OrderInv

LEMMA SpawnedOrder == \A i \in Issues : Inv /\ OrderInv /\ Spawned(i) => OrderInv'
<1> SUFFICES ASSUME NEW i \in Issues, Inv, OrderInv, Spawned(i) PROVE OrderInv'
  OBVIOUS
<1>1. PICK g \in Gens :
         /\ Unused(i, g)
         /\ worker' = [worker EXCEPT ![i][g] =
                         [phase |-> "starting", aborted |-> FALSE, buffer |-> 0]]
         /\ DOMAIN running' = DOMAIN running \cup {i}
         /\ running'[i].gen = g
         /\ \A j \in DOMAIN running : running'[j] = running[j]
  BY DEF Spawned
<1>2. pc # "stopped" /\ pc' # "stopped" /\ events' = events /\ i \notin DOMAIN running
  BY DEF Spawned
<1>3. \A j \in Issues, h \in Gens :
         worker'[j][h] = IF j = i /\ h = g
                         THEN [phase |-> "starting", aborted |-> FALSE, buffer |-> 0]
                         ELSE worker[j][h]
  BY <1>1 DEF Inv, TypeOK
<1>4. \A j \in Issues, h \in Gens :
         /\ Live(j, h)' <=> (Live(j, h) \/ (j = i /\ h = g))
         /\ RunsAs(j, h)' <=> (RunsAs(j, h) \/ (j = i /\ h = g))
         /\ FinishedAt(j, h)' = FinishedAt(j, h)
  BY <1>1, <1>2, <1>3 DEF Live, RunsAs, FinishedAt
<1>5. \A h \in Gens : ~Live(i, h) /\ ~RunsAs(i, h) /\ FinishedAt(i, h) = {}
  BY <1>2 DEF OrderInv, RunOwnsItsFinish, RunsAs
<1>6. OneAgent' /\ RunOwnsItsFinish'
  BY <1>2, <1>4, <1>5 DEF OrderInv, OneAgent, RunOwnsItsFinish
<1>7. StaleEventsAreOfAbortedRuns'
  <2> SUFFICES ASSUME NEW k \in 1..Len(events), events[k].kind = "runner"
               PROVE  \/ RunsAs(events[k].issue, events[k].gen)'
                      \/ worker'[events[k].issue][events[k].gen].aborted
    BY <1>2 DEF StaleEventsAreOfAbortedRuns, RunsAs
  <2>1. events[k].issue \in Issues /\ events[k].gen \in Gens
    BY EventType DEF Inv
  <2>2. ~(events[k].issue = i /\ events[k].gen = g)
    BY <1>1 DEF Unused
  <2>3. \/ RunsAs(events[k].issue, events[k].gen)
        \/ worker[events[k].issue][events[k].gen].aborted
    BY DEF OrderInv, StaleEventsAreOfAbortedRuns
  <2> QED
    BY <1>2, <1>3, <1>4, <2>1, <2>2, <2>3
<1>8. InOrder'
  BY <1>2, <1>3, <1>4, <1>5 DEF OrderInv, InOrder, IsRunner
<1>9. NothingAfterStop' /\ FewRuns'
  BY <1>1, <1>2, FS_AddElement DEF OrderInv, NothingAfterStop, FewRuns
<1> QED
  BY <1>6, <1>7, <1>8, <1>9 DEF OrderInv

\* The channel after its first message was taken.
LEMMA TakenEvents ==
    ASSUME Inv, events # <<>>, events' = Tail(events)
    PROVE  /\ Len(events) \in Nat \ {0} /\ Len(events') = Len(events) - 1
           /\ \A k \in 1..Len(events') : k + 1 \in 1..Len(events) /\ events'[k] = events[k + 1]
           /\ \A i \in Issues, g \in Gens, k \in Nat :
                 k \in FinishedAt(i, g)' <=> k # 0 /\ k + 1 \in FinishedAt(i, g)
           /\ 1 \in 1..Len(events) /\ events[1] = Head(events)
<1> DEFINE M == RunnerEvent \cup WorkerFinished
<1>1. events \in Seq(M)
  BY DEF Inv, TypeOK
<1> HIDE DEF M
<1>2. /\ Len(events) \in Nat \ {0} /\ Len(events') = Len(events) - 1
      /\ \A k \in 1..Len(events') : k + 1 \in 1..Len(events) /\ events'[k] = events[k + 1]
      /\ 1 \in 1..Len(events) /\ events[1] = Head(events)
  BY <1>1
<1>3. ASSUME NEW i \in Issues, NEW g \in Gens, NEW k \in Nat
      PROVE  k \in FinishedAt(i, g)' <=> k # 0 /\ k + 1 \in FinishedAt(i, g)
  <2>1. k \in 1..Len(events') <=> k # 0 /\ k + 1 \in 1..Len(events)
    BY <1>2
  <2> QED
    BY <1>2, <2>1 DEF FinishedAt
<1> QED
  BY <1>2, <1>3

\* A finish that is not the message taken moves ahead by one.
LEMMA ShiftedFinish ==
    ASSUME Inv, events # <<>>, events' = Tail(events),
           NEW i \in Issues, NEW g \in Gens, 1 \notin FinishedAt(i, g)
    PROVE  /\ FinishedAt(i, g)' = {} <=> FinishedAt(i, g) = {}
           /\ \A k \in FinishedAt(i, g) : FinishedAt(i, g) = {k} =>
                 k - 1 \in FinishedAt(i, g)' /\ FinishedAt(i, g)' = {k - 1}
<1>1. FinishedAt(i, g) \subseteq Nat \ {0} /\ FinishedAt(i, g)' \subseteq Nat \ {0}
  BY TakenEvents DEF FinishedAt
<1>2. ASSUME NEW k \in FinishedAt(i, g) PROVE k - 1 \in FinishedAt(i, g)'
  <2>1. k - 1 \in Nat /\ k - 1 # 0 /\ (k - 1) + 1 = k
    BY <1>1
  <2> QED
    BY <2>1, TakenEvents
<1>3. ASSUME NEW k \in FinishedAt(i, g)' PROVE k \in Nat /\ k + 1 \in FinishedAt(i, g)
  BY <1>1, TakenEvents
<1>4. ASSUME NEW k \in FinishedAt(i, g), FinishedAt(i, g) = {k},
             NEW l \in FinishedAt(i, g)'
      PROVE  l = k - 1
  <2>1. l \in Nat /\ l + 1 = k
    BY <1>3, <1>4
  <2> QED
    BY <2>1
<1> QED
  BY <1>2, <1>3, <1>4

\* Taking a message keeps the order of the others.
LEMMA TakenOrder ==
    ASSUME Inv, OrderInv, events # <<>>, events' = Tail(events), worker' = worker
    PROVE  InOrder' /\ OneAgent'
<1>1. OneAgent'
  BY DEF OrderInv, OneAgent, Live
<1>2. InOrder'
  <2> SUFFICES ASSUME NEW i \in Issues, NEW g \in Gens, ~worker[i][g].aborted,
                      NEW k \in FinishedAt(i, g)', NEW l \in 1..Len(events'), l > k
               PROVE  ~IsRunner(l, i, g)'
    BY DEF OrderInv, InOrder
  <2>1. k \in Nat /\ k + 1 \in FinishedAt(i, g)
    <3>1. k \in Nat
      BY TakenEvents DEF FinishedAt
    <3> QED
      BY <3>1, TakenEvents
  <2>2. l + 1 \in 1..Len(events) /\ l + 1 > k + 1 /\ events'[l] = events[l + 1]
    BY <2>1, TakenEvents
  <2>3. ~IsRunner(l + 1, i, g)
    BY <2>1, <2>2 DEF OrderInv, InOrder
  <2> QED
    BY <2>2, <2>3 DEF IsRunner
<1> QED
  BY <1>1, <1>2

LEMMA RunnerEventOrder == Inv /\ OrderInv /\ HandleRunnerEvent => OrderInv'
<1> SUFFICES ASSUME Inv, OrderInv, HandleRunnerEvent PROVE OrderInv'
  OBVIOUS
<1>1. /\ pc = "loop" /\ pc' = "loop" /\ events # <<>> /\ events' = Tail(events)
      /\ worker' = worker /\ Head(events).kind = "runner"
  BY DEF HandleRunnerEvent, NextEvent
<1>2. /\ DOMAIN running' = DOMAIN running
      /\ \A i \in DOMAIN running : running'[i].gen = running[i].gen
  <2>1. \A i \in DOMAIN running : running[i] \in Entry
    BY DEF Inv, TypeOK
  <2> QED
    BY <2>1 DEF HandleRunnerEvent, Entry
<1>3. \A i \in Issues, g \in Gens : /\ Live(i, g)' <=> Live(i, g)
                                    /\ RunsAs(i, g)' <=> RunsAs(i, g)
  BY <1>1, <1>2 DEF Live, RunsAs
<1>4. \A i \in Issues, g \in Gens : 1 \notin FinishedAt(i, g)
  BY <1>1, TakenEvents DEF FinishedAt
<1>5. RunOwnsItsFinish'
  <2> SUFFICES ASSUME NEW i \in Issues, NEW g \in Gens
               PROVE  /\ Live(i, g)' \/ FinishedAt(i, g)' # {} => RunsAs(i, g)'
                      /\ RunsAs(i, g)' =>
                            IF Live(i, g)' THEN FinishedAt(i, g)' = {}
                            ELSE \E k \in FinishedAt(i, g)' : FinishedAt(i, g)' = {k}
    BY DEF RunOwnsItsFinish
  <2>1. /\ FinishedAt(i, g)' = {} <=> FinishedAt(i, g) = {}
        /\ \A k \in FinishedAt(i, g) : FinishedAt(i, g) = {k} =>
              k - 1 \in FinishedAt(i, g)' /\ FinishedAt(i, g)' = {k - 1}
    BY <1>1, <1>4, ShiftedFinish
  <2>3. /\ Live(i, g) \/ FinishedAt(i, g) # {} => RunsAs(i, g)
        /\ RunsAs(i, g) =>
              IF Live(i, g) THEN FinishedAt(i, g) = {}
              ELSE \E k \in FinishedAt(i, g) : FinishedAt(i, g) = {k}
    BY <1>1 DEF OrderInv, RunOwnsItsFinish
  <2> QED
    BY <1>3, <2>1, <2>3
<1>6. StaleEventsAreOfAbortedRuns'
  <2> SUFFICES ASSUME NEW k \in 1..Len(events'), NEW e, e = events'[k],
                      e.kind = "runner"
               PROVE  RunsAs(e.issue, e.gen)' \/ worker'[e.issue][e.gen].aborted
    BY DEF StaleEventsAreOfAbortedRuns, RunsAs
  <2>1. k + 1 \in 1..Len(events) /\ events'[k] = events[k + 1]
    BY <1>1, TakenEvents
  <2>2. events[k + 1].issue \in Issues /\ events[k + 1].gen \in Gens
    BY <2>1, EventType DEF Inv
  <2> QED
    BY <1>1, <1>3, <2>1, <2>2 DEF OrderInv, StaleEventsAreOfAbortedRuns
<1>7. InOrder' /\ OneAgent'
  BY <1>1, TakenOrder
<1>8. NothingAfterStop' /\ FewRuns'
  BY <1>1, <1>2 DEF OrderInv, NothingAfterStop, FewRuns
<1> QED
  BY <1>5, <1>6, <1>7, <1>8 DEF OrderInv

\* The run a finish ends is the one that sent it, and nobody works on its issue.
LEMMA FinishedRun ==
    ASSUME Inv, OrderInv, HandleFinished, NEW i, NEW g,
           i = Head(events).issue, g = Head(events).gen
    PROVE  /\ pc = "loop" /\ pc' = "loop" /\ events # <<>> /\ events' = Tail(events)
           /\ worker' = worker
           /\ i \in Issues /\ g \in Gens /\ i \in DOMAIN running
           /\ running[i].gen = g /\ FinishedAt(i, g) = {1}
           /\ \A h \in Gens : ~Live(i, h)
           /\ running' = Drop(running, i)
<1>1. /\ pc = "loop" /\ pc' = "loop" /\ events # <<>> /\ events' = Tail(events)
      /\ worker' = worker /\ Head(events).kind = "finished"
  BY DEF HandleFinished, NextEvent
<1>2. 1 \in 1..Len(events) /\ events[1] = Head(events)
  BY <1>1, TakenEvents
<1>3. i \in Issues /\ g \in Gens /\ 1 \in FinishedAt(i, g)
  BY <1>1, <1>2, EventType DEF Inv, FinishedAt
<1>4. i \in DOMAIN running /\ running[i].gen = g /\ ~Live(i, g) /\ FinishedAt(i, g) = {1}
  BY <1>1, <1>3 DEF OrderInv, RunOwnsItsFinish, RunsAs
<1>5. \A h \in Gens : ~Live(i, h)
  BY <1>1, <1>3, <1>4 DEF OrderInv, RunOwnsItsFinish, RunsAs
<1>6. running' = Drop(running, i)
  BY <1>4 DEF HandleFinished
<1> QED
  BY <1>1, <1>3, <1>4, <1>5, <1>6

LEMMA FinishedOrder == Inv /\ OrderInv /\ HandleFinished => OrderInv'
<1> SUFFICES ASSUME Inv, OrderInv, HandleFinished PROVE OrderInv'
  OBVIOUS
<1> DEFINE i == Head(events).issue
           g == Head(events).gen
<1>1. /\ pc = "loop" /\ pc' = "loop" /\ events # <<>> /\ events' = Tail(events)
      /\ worker' = worker
  BY FinishedRun
<1>2. 1 \in 1..Len(events) /\ events[1] = Head(events)
  BY <1>1, TakenEvents
<1>3. i \in Issues /\ g \in Gens /\ 1 \in FinishedAt(i, g)
  BY FinishedRun
<1>4. i \in DOMAIN running /\ running[i].gen = g /\ ~Live(i, g) /\ FinishedAt(i, g) = {1}
  BY FinishedRun
<1>5. running' = Drop(running, i)
  BY FinishedRun
<1>6. /\ DOMAIN running' = DOMAIN running \ {i}
      /\ \A j \in DOMAIN running' : running'[j] = running[j]
  BY <1>5 DEF Drop, Restrict
<1>7. \A j \in Issues, h \in Gens : /\ Live(j, h)' <=> Live(j, h)
                                    /\ RunsAs(j, h)' <=> (RunsAs(j, h) /\ j # i)
  BY <1>1, <1>6 DEF Live, RunsAs
<1> HIDE DEF i, g
<1>8. RunOwnsItsFinish'
  <2> SUFFICES ASSUME NEW j \in Issues, NEW h \in Gens
               PROVE  /\ Live(j, h)' \/ FinishedAt(j, h)' # {} => RunsAs(j, h)'
                      /\ RunsAs(j, h)' =>
                            IF Live(j, h)' THEN FinishedAt(j, h)' = {}
                            ELSE \E k \in FinishedAt(j, h)' : FinishedAt(j, h)' = {k}
    BY DEF RunOwnsItsFinish
  <2>1. /\ Live(j, h) \/ FinishedAt(j, h) # {} => RunsAs(j, h)
        /\ RunsAs(j, h) =>
              IF Live(j, h) THEN FinishedAt(j, h) = {}
              ELSE \E k \in FinishedAt(j, h) : FinishedAt(j, h) = {k}
    BY <1>1 DEF OrderInv, RunOwnsItsFinish
  <2>2. CASE j = i
    <3>1. ~Live(j, h)
      BY <1>4, <2>1, <2>2 DEF RunsAs
    <3>2. FinishedAt(j, h) \subseteq {1}
      BY <1>4, <2>1, <2>2 DEF RunsAs
    <3>3. FinishedAt(j, h)' = {}
      <4>1. FinishedAt(j, h)' \subseteq Nat
        BY <1>1, TakenEvents DEF FinishedAt
      <4>2. \A k \in FinishedAt(j, h)' : k \in Nat /\ k # 0 /\ k + 1 \in {1}
        BY <1>1, <3>2, <4>1, TakenEvents
      <4> QED
        BY <4>2
    <3> QED
      BY <1>7, <2>2, <3>1, <3>3
  <2>3. CASE j # i
    <3>1. 1 \notin FinishedAt(j, h)
      BY <1>2, <2>3 DEF FinishedAt, i
    <3>2. /\ FinishedAt(j, h)' = {} <=> FinishedAt(j, h) = {}
          /\ \A k \in FinishedAt(j, h) : FinishedAt(j, h) = {k} =>
                k - 1 \in FinishedAt(j, h)' /\ FinishedAt(j, h)' = {k - 1}
      BY <1>1, <3>1, ShiftedFinish
    <3> QED
      BY <1>7, <2>1, <2>3, <3>2
  <2> QED
    BY <2>2, <2>3
<1>9. StaleEventsAreOfAbortedRuns'
  <2> SUFFICES ASSUME NEW k \in 1..Len(events'), NEW e, e = events'[k],
                      e.kind = "runner"
               PROVE  RunsAs(e.issue, e.gen)' \/ worker'[e.issue][e.gen].aborted
    BY DEF StaleEventsAreOfAbortedRuns, RunsAs
  <2>1. k + 1 \in 1..Len(events) /\ events'[k] = events[k + 1] /\ k + 1 > 1
    BY <1>1, TakenEvents
  <2>2. events[k + 1].issue \in Issues /\ events[k + 1].gen \in Gens
    BY <2>1, EventType DEF Inv
  <2>3. \/ RunsAs(events[k + 1].issue, events[k + 1].gen)
        \/ worker[events[k + 1].issue][events[k + 1].gen].aborted
    BY <2>1 DEF OrderInv, StaleEventsAreOfAbortedRuns
  <2>4. CASE events[k + 1].issue = i /\ RunsAs(events[k + 1].issue, events[k + 1].gen)
    <3>1. events[k + 1].gen = g
      BY <1>4, <2>4 DEF RunsAs
    <3>2. IsRunner(k + 1, i, g)
      BY <2>1, <2>4, <3>1 DEF IsRunner
    <3>3. worker[i][g].aborted
      BY <1>3, <2>1, <3>2 DEF OrderInv, InOrder
    <3> QED
      BY <1>1, <2>1, <2>4, <3>1, <3>3
  <2> QED
    BY <1>1, <1>7, <2>1, <2>2, <2>3, <2>4
<1>10. InOrder' /\ OneAgent'
  BY <1>1, TakenOrder
<1>11. NothingAfterStop' /\ FewRuns'
  BY <1>1, <1>6, FS_Subset DEF OrderInv, NothingAfterStop, FewRuns
<1> QED
  BY <1>8, <1>9, <1>10, <1>11 DEF OrderInv

\* The channel after a message was sent.
LEMMA SentEvents ==
    ASSUME Inv, NEW m \in RunnerEvent \cup WorkerFinished, events' = Append(events, m)
    PROVE  /\ Len(events) \in Nat /\ Len(events') = Len(events) + 1
           /\ \A k \in 1..Len(events) : events'[k] = events[k]
           /\ events'[Len(events) + 1] = m
           /\ \A i \in Issues, g \in Gens :
                 FinishedAt(i, g)' = FinishedAt(i, g) \cup
                    IF m.kind = "finished" /\ m.issue = i /\ m.gen = g
                    THEN {Len(events) + 1} ELSE {}
<1> DEFINE M == RunnerEvent \cup WorkerFinished
<1>1. events \in Seq(M) /\ m \in M
  BY DEF Inv, TypeOK
<1> HIDE DEF M
<1>2. /\ Len(events) \in Nat /\ Len(events') = Len(events) + 1
      /\ \A k \in 1..Len(events) : events'[k] = events[k]
      /\ events'[Len(events) + 1] = m
  BY <1>1
<1>3. 1..Len(events') = 1..Len(events) \cup {Len(events) + 1}
  BY <1>2
<1>4. ASSUME NEW i \in Issues, NEW g \in Gens
      PROVE  FinishedAt(i, g)' = FinishedAt(i, g) \cup
                IF m.kind = "finished" /\ m.issue = i /\ m.gen = g
                THEN {Len(events) + 1} ELSE {}
  BY <1>2, <1>3 DEF FinishedAt
<1> QED
  BY <1>2, <1>4

\* A worker goes on: it works, or has something to say.
LEMMA GoesOnOrder ==
    \A i \in Issues, g \in Gens :
        Inv /\ OrderInv /\ (EnsureWorkspace(i, g) \/ Emit(i, g)) => OrderInv'
<1> SUFFICES ASSUME NEW i \in Issues, NEW g \in Gens, Inv, OrderInv,
                    EnsureWorkspace(i, g) \/ Emit(i, g)
             PROVE  OrderInv'
  OBVIOUS
<1>1. /\ events' = events /\ running' = running /\ pc' = pc
      /\ \A j \in Issues, h \in Gens : ~(j = i /\ h = g) => worker'[j][h] = worker[j][h]
      /\ Live(i, g) /\ worker'[i][g].phase = "working"
      /\ worker'[i][g].aborted = worker[i][g].aborted
  <2>1. worker[i][g] \in Worker /\ worker \in [Issues -> [Gens -> Worker]]
    BY DEF Inv, TypeOK
  <2>2. CASE EnsureWorkspace(i, g)
    BY <2>1, <2>2 DEF EnsureWorkspace, Live, Worker, workerFrame, schedVars
  <2>3. CASE Emit(i, g)
    BY <2>1, <2>3 DEF Emit, Live, Worker, workerFrame, schedVars
  <2> QED
    BY <2>2, <2>3
<1>2. \A j \in Issues, h \in Gens : /\ Live(j, h)' <=> Live(j, h)
                                    /\ RunsAs(j, h)' <=> RunsAs(j, h)
                                    /\ FinishedAt(j, h)' = FinishedAt(j, h)
                                    /\ worker'[j][h].aborted = worker[j][h].aborted
  BY <1>1 DEF Live, RunsAs, FinishedAt
<1>3. OneAgent' /\ RunOwnsItsFinish'
  BY <1>1, <1>2 DEF OrderInv, OneAgent, RunOwnsItsFinish
<1>4. StaleEventsAreOfAbortedRuns'
  BY <1>1, <1>2, EventType DEF OrderInv, Inv, StaleEventsAreOfAbortedRuns
<1>5. InOrder'
  <2> SUFFICES ASSUME NEW j \in Issues, NEW h \in Gens, ~worker'[j][h].aborted
               PROVE  /\ worker'[j][h].buffer > 0 => worker'[j][h].phase = "working"
                      /\ \A k \in FinishedAt(j, h)', l \in 1..Len(events') :
                            l > k => ~IsRunner(l, j, h)'
    BY DEF InOrder
  <2> QED
    BY <1>1, <1>2 DEF OrderInv, InOrder, IsRunner
<1>6. NothingAfterStop' /\ FewRuns'
  BY <1>1 DEF OrderInv, NothingAfterStop, FewRuns
<1> QED
  BY <1>3, <1>4, <1>5, <1>6 DEF OrderInv

LEMMA ForwardOrder ==
    \A i \in Issues, g \in Gens : Inv /\ OrderInv /\ Forward(i, g) => OrderInv'
<1> SUFFICES ASSUME NEW i \in Issues, NEW g \in Gens, Inv, OrderInv, Forward(i, g)
             PROVE  OrderInv'
  OBVIOUS
<1> DEFINE m == [kind |-> "runner", issue |-> i, gen |-> g]
<1>1. /\ running' = running /\ pc' = pc
      /\ \A j \in Issues, h \in Gens :
            /\ worker'[j][h].phase = worker[j][h].phase
            /\ worker'[j][h].aborted = worker[j][h].aborted
            /\ worker'[j][h].buffer > 0 => worker[j][h].buffer > 0
      /\ worker[i][g].buffer > 0
      /\ events' = IF pc = "stopped" THEN events ELSE Append(events, m)
  BY DEF Inv, TypeOK, Forward, Send, Worker, workerFrame, schedVars
<1>2. \A j \in Issues, h \in Gens : /\ Live(j, h)' <=> Live(j, h)
                                    /\ RunsAs(j, h)' <=> RunsAs(j, h)
  BY <1>1 DEF Live, RunsAs
<1>3. CASE pc = "stopped"
  <2>1. events' = events /\ Len(events) = 0
    BY <1>1, <1>3 DEF OrderInv, NothingAfterStop
  <2>2. \A j \in Issues, h \in Gens : FinishedAt(j, h)' = FinishedAt(j, h)
    BY <2>1 DEF FinishedAt
  <2>3. InOrder'
    BY <1>1, <2>1, <2>2 DEF OrderInv, InOrder
  <2> QED
    BY <1>1, <1>2, <1>3, <2>1, <2>3
    DEF OrderInv, OneAgent, RunOwnsItsFinish, StaleEventsAreOfAbortedRuns,
        NothingAfterStop, FewRuns
<1>4. CASE pc # "stopped"
  <2>1. /\ m \in RunnerEvent \cup WorkerFinished /\ events' = Append(events, m)
        /\ m.kind = "runner" /\ m.issue = i /\ m.gen = g
    BY <1>1, <1>4 DEF RunnerEvent
  <2> HIDE DEF m
  <2>2. \A j \in Issues, h \in Gens : FinishedAt(j, h)' = FinishedAt(j, h)
    <3>1. ~(m.kind = "finished")
      BY <2>1
    <3>2. \A j \in Issues, h \in Gens :
             FinishedAt(j, h)' = FinishedAt(j, h) \cup
                IF m.kind = "finished" /\ m.issue = j /\ m.gen = h
                THEN {Len(events) + 1} ELSE {}
      BY <2>1, SentEvents
    <3> QED
      BY <3>1, <3>2
  <2>3. /\ Len(events) \in Nat /\ Len(events') = Len(events) + 1
        /\ \A k \in 1..Len(events) : events'[k] = events[k]
        /\ events'[Len(events) + 1] = m
    BY <2>1, SentEvents
  <2>4. worker[i][g].aborted \/ Live(i, g)
    BY <1>1 DEF OrderInv, InOrder, Live
  <2>5. worker[i][g].aborted \/ (RunsAs(i, g) /\ FinishedAt(i, g) = {})
    BY <1>4, <2>4 DEF OrderInv, RunOwnsItsFinish
  <2>6. OneAgent' /\ RunOwnsItsFinish'
    BY <1>1, <1>2, <2>2 DEF OrderInv, OneAgent, RunOwnsItsFinish
  <2>7. StaleEventsAreOfAbortedRuns'
    <3> SUFFICES ASSUME NEW k \in 1..Len(events'), NEW e, e = events'[k],
                        e.kind = "runner"
                 PROVE  RunsAs(e.issue, e.gen)' \/ worker'[e.issue][e.gen].aborted
      BY DEF StaleEventsAreOfAbortedRuns, RunsAs
    <3>1. CASE k \in 1..Len(events)
      BY <1>1, <1>2, <2>3, <3>1, EventType DEF Inv, OrderInv, StaleEventsAreOfAbortedRuns
    <3>2. CASE k = Len(events) + 1
      BY <1>1, <1>2, <2>1, <2>3, <2>5, <3>2
    <3> QED
      BY <2>3, <3>1, <3>2
  <2>8. InOrder'
    <3> SUFFICES ASSUME NEW j \in Issues, NEW h \in Gens, ~worker[j][h].aborted
                 PROVE  /\ worker'[j][h].buffer > 0 => worker'[j][h].phase = "working"
                        /\ \A k \in FinishedAt(j, h), l \in 1..Len(events') :
                              l > k => ~IsRunner(l, j, h)'
      BY <1>1, <2>2 DEF InOrder
    <3>1. worker'[j][h].buffer > 0 => worker'[j][h].phase = "working"
      BY <1>1 DEF OrderInv, InOrder
    <3>2. ASSUME NEW k \in FinishedAt(j, h), NEW l \in 1..Len(events'), l > k
          PROVE  ~IsRunner(l, j, h)'
      <4>1. CASE l \in 1..Len(events)
        BY <2>3, <3>2, <4>1 DEF OrderInv, InOrder, IsRunner
      <4>2. CASE l = Len(events) + 1
        BY <2>1, <2>3, <2>5, <3>2, <4>2 DEF IsRunner
      <4> QED
        BY <2>3, <4>1, <4>2
    <3> QED
      BY <3>1, <3>2
  <2> QED
    BY <1>1, <1>4, <2>6, <2>7, <2>8 DEF OrderInv, NothingAfterStop, FewRuns
<1> QED
  BY <1>3, <1>4

\* A worker that ends has nothing left to send, or was aborted.
Ended(i, g) == FailToStart(i, g) \/ FinishRun(i, g) \/ CancelWorker(i, g)

LEMMA EndedStep ==
    ASSUME NEW i \in Issues, NEW g \in Gens, Inv, OrderInv, Ended(i, g)
    PROVE  /\ running' = running /\ pc' = pc /\ Live(i, g)
           /\ worker'[i][g].phase = "ended"
           /\ worker'[i][g].buffer = worker[i][g].buffer
           /\ worker[i][g].aborted \/ worker[i][g].buffer = 0
           /\ worker'[i][g].aborted = worker[i][g].aborted
           /\ \A j \in Issues, h \in Gens : ~(j = i /\ h = g) => worker'[j][h] = worker[j][h]
           /\ \E c \in BOOLEAN : Send([kind |-> "finished", issue |-> i, gen |-> g,
                                       completed |-> c])
<1>1. PICK c \in BOOLEAN : EndWorker(i, g, c)
  BY DEF Ended, FailToStart, FinishRun, CancelWorker
<1>2. running' = running /\ pc' = pc /\ Live(i, g)
  BY DEF Ended, FailToStart, FinishRun, CancelWorker, Live, workerFrame, schedVars
<1>3. /\ worker'[i][g].phase = "ended"
      /\ worker'[i][g].buffer = worker[i][g].buffer
      /\ worker'[i][g].aborted = worker[i][g].aborted
      /\ \A j \in Issues, h \in Gens : ~(j = i /\ h = g) => worker'[j][h] = worker[j][h]
  BY <1>1 DEF EndWorker, Inv, TypeOK, Worker
<1>4. worker[i][g].aborted \/ worker[i][g].buffer = 0
  <2>1. worker[i][g].buffer \in Nat
    BY DEF Inv, TypeOK, Worker
  <2>2. CASE FailToStart(i, g)
    <3>1. worker[i][g].aborted \/ ~(worker[i][g].buffer > 0)
      BY <2>2 DEF FailToStart, OrderInv, InOrder
    <3> QED
      BY <2>1, <3>1
  <2>3. CASE FinishRun(i, g) \/ CancelWorker(i, g)
    BY <2>3 DEF FinishRun, CancelWorker
  <2> QED
    BY <2>2, <2>3 DEF Ended
<1> QED
  BY <1>1, <1>2, <1>3, <1>4 DEF EndWorker

LEMMA EndedOrder ==
    \A i \in Issues, g \in Gens : Inv /\ OrderInv /\ Ended(i, g) => OrderInv'
<1> SUFFICES ASSUME NEW i \in Issues, NEW g \in Gens, Inv, OrderInv, Ended(i, g)
             PROVE  OrderInv'
  OBVIOUS
<1>1. /\ running' = running /\ pc' = pc /\ Live(i, g)
      /\ worker'[i][g].phase = "ended"
      /\ worker'[i][g].buffer = worker[i][g].buffer
      /\ worker[i][g].aborted \/ worker[i][g].buffer = 0
      /\ worker'[i][g].aborted = worker[i][g].aborted
      /\ \A j \in Issues, h \in Gens : ~(j = i /\ h = g) => worker'[j][h] = worker[j][h]
  BY EndedStep
<1>2. PICK c \in BOOLEAN : Send([kind |-> "finished", issue |-> i, gen |-> g, completed |-> c])
  BY EndedStep
<1> DEFINE m == [kind |-> "finished", issue |-> i, gen |-> g, completed |-> c]
<1>3. \A j \in Issues, h \in Gens :
         /\ Live(j, h)' <=> (Live(j, h) /\ ~(j = i /\ h = g))
         /\ RunsAs(j, h)' <=> RunsAs(j, h)
         /\ worker'[j][h].aborted = worker[j][h].aborted
  BY <1>1 DEF Live, RunsAs
<1>4. OneAgent'
  BY <1>3 DEF OrderInv, OneAgent
<1>5. CASE pc = "stopped"
  <2>1. events' = events /\ Len(events) = 0
    BY <1>2, <1>5 DEF OrderInv, NothingAfterStop, Send
  <2>2. InOrder'
    <3> SUFFICES ASSUME NEW j \in Issues, NEW h \in Gens, ~worker'[j][h].aborted
                 PROVE  worker'[j][h].buffer > 0 => worker'[j][h].phase = "working"
      BY <2>1 DEF InOrder
    <3> QED
      BY <1>1, <1>3 DEF OrderInv, InOrder
  <2> QED
    BY <1>1, <1>4, <1>5, <2>1, <2>2
    DEF OrderInv, RunOwnsItsFinish, StaleEventsAreOfAbortedRuns, NothingAfterStop, FewRuns
<1>6. CASE pc # "stopped"
  <2>1. m \in RunnerEvent \cup WorkerFinished /\ events' = Append(events, m)
    BY <1>2, <1>6 DEF WorkerFinished, Send
  <2>2. \A j \in Issues, h \in Gens :
           FinishedAt(j, h)' = FinishedAt(j, h) \cup
              IF j = i /\ h = g THEN {Len(events) + 1} ELSE {}
    BY <2>1, SentEvents
  <2>3. /\ Len(events) \in Nat /\ Len(events') = Len(events) + 1
        /\ \A k \in 1..Len(events) : events'[k] = events[k]
        /\ events'[Len(events) + 1] = m
    BY <2>1, SentEvents
  <2>4. RunsAs(i, g) /\ FinishedAt(i, g) = {}
    BY <1>1, <1>6 DEF OrderInv, RunOwnsItsFinish
  <2>5. RunOwnsItsFinish'
    BY <1>3, <1>6, <2>2, <2>4 DEF OrderInv, RunOwnsItsFinish
  <2>6. StaleEventsAreOfAbortedRuns'
    <3> SUFFICES ASSUME NEW k \in 1..Len(events'), NEW e, e = events'[k],
                        e.kind = "runner"
                 PROVE  RunsAs(e.issue, e.gen)' \/ worker'[e.issue][e.gen].aborted
      BY DEF StaleEventsAreOfAbortedRuns, RunsAs
    <3>1. k \in 1..Len(events)
      BY <2>3
    <3> QED
      BY <1>3, <2>3, <3>1, EventType DEF Inv, OrderInv, StaleEventsAreOfAbortedRuns
  <2>7. InOrder'
    <3> SUFFICES ASSUME NEW j \in Issues, NEW h \in Gens, ~worker[j][h].aborted
                 PROVE  /\ worker'[j][h].buffer > 0 => worker'[j][h].phase = "working"
                        /\ \A k \in FinishedAt(j, h)', l \in 1..Len(events') :
                              l > k => ~IsRunner(l, j, h)'
      BY <1>3 DEF InOrder
    <3>1. worker'[j][h].buffer > 0 => worker'[j][h].phase = "working"
      BY <1>1 DEF OrderInv, InOrder
    <3>2. ASSUME NEW k \in FinishedAt(j, h)', NEW l \in 1..Len(events'), l > k
          PROVE  ~IsRunner(l, j, h)'
      <4>1. CASE l = Len(events) + 1
        BY <2>3, <4>1 DEF IsRunner
      <4>2. CASE l \in 1..Len(events)
        <5>1. k \in FinishedAt(j, h)
          BY <2>2, <2>3, <3>2, <4>2
        <5> QED
          BY <2>3, <3>2, <4>2, <5>1 DEF OrderInv, InOrder, IsRunner
      <4> QED
        BY <2>3, <4>1, <4>2
    <3> QED
      BY <3>1, <3>2
  <2> QED
    BY <1>1, <1>4, <1>6, <2>5, <2>6, <2>7 DEF OrderInv, NothingAfterStop, FewRuns
<1> QED
  BY <1>5, <1>6

LEMMA StopOrder == Inv /\ OrderInv /\ ReceiveStop => OrderInv'
<1> SUFFICES ASSUME Inv, OrderInv, ReceiveStop PROVE OrderInv'
  OBVIOUS
<1>1. /\ pc' = "stopped" /\ events' = <<>> /\ DOMAIN running' = {} /\ Len(events') = 0
  BY EmptyMapType DEF ReceiveStop
<1>2. \A i \in Issues, g \in Gens :
         /\ worker'[i][g].phase = worker[i][g].phase
         /\ worker'[i][g].buffer = worker[i][g].buffer
         /\ worker[i][g].aborted => worker'[i][g].aborted
  BY AbortKeeps DEF Inv, ReceiveStop
<1>3. OneAgent'
  BY <1>2 DEF OrderInv, OneAgent, Live
<1>4. InOrder'
  <2> SUFFICES ASSUME NEW i \in Issues, NEW g \in Gens, ~worker'[i][g].aborted
               PROVE  worker'[i][g].buffer > 0 => worker'[i][g].phase = "working"
    BY <1>1 DEF InOrder
  <2> QED
    BY <1>2 DEF OrderInv, InOrder
<1>5. FewRuns'
  BY <1>1, FS_EmptySet DEF FewRuns
<1> QED
  BY <1>1, <1>3, <1>4, <1>5
  DEF OrderInv, RunOwnsItsFinish, StaleEventsAreOfAbortedRuns, NothingAfterStop

\* The head of a tick at most aborts runs.
LEMMA BeginTickQuiet == ASSUME Inv, pc = "loop", BeginTick PROVE Quiet
<1>1. PICK cfg \in Configs, failed \in BOOLEAN :
         /\ LET stalled == {i \in DOMAIN running : cfg.stalls /\ running[i].idle}
            IN /\ running' = [i \in DOMAIN running |->
                                IF i \in stalled
                                THEN [running[i] EXCEPT !.cancel = "retry"]
                                ELSE running[i]]
               /\ worker' = Abort(stalled)
         /\ pc' \in {"retries", "reconcile"}
  BY DEF BeginTick
<1> DEFINE stalled == {i \in DOMAIN running : cfg.stalls /\ running[i].idle}
<1>2. \A i \in Issues, g \in Gens :
         /\ worker'[i][g].phase = worker[i][g].phase
         /\ worker'[i][g].buffer = worker[i][g].buffer
         /\ worker[i][g].aborted => worker'[i][g].aborted
  <2>1. worker' = Abort(stalled) /\ stalled \in SUBSET DOMAIN running
    BY <1>1
  <2> QED
    BY <2>1, AbortKeeps DEF Inv
<1>3. /\ DOMAIN running' = DOMAIN running
      /\ \A i \in DOMAIN running : running'[i].gen = running[i].gen
  <2>1. \A i \in DOMAIN running : running[i] \in Entry
    BY DEF Inv, TypeOK
  <2> QED
    BY <1>1, <2>1 DEF Entry
<1>4. events' = events
  BY DEF BeginTick
<1> QED
  BY <1>1, <1>2, <1>3, <1>4 DEF Quiet

LEMMA ReconcileQuiet == ASSUME Inv, Reconcile PROVE Quiet
<1> DEFINE known    == DOMAIN reply.issues \cap DOMAIN running
           released == {i \in known : \/ IsTerminal(reply.issues[i].state)
                                      \/ ~IsActive(reply.issues[i].state)}
<1>1. /\ running' = [i \in DOMAIN running |->
                CASE i \in released         -> [running[i] EXCEPT !.cancel = "release"]
                  [] i \in known \ released -> [running[i] EXCEPT !.state = reply.issues[i].state]
                  [] OTHER                  -> running[i]]
      /\ worker' = Abort(released) /\ events' = events
      /\ pc = "reconcile" /\ pc' = "retries"
  BY DEF Reconcile
<1>2. \A i \in Issues, g \in Gens :
         /\ worker'[i][g].phase = worker[i][g].phase
         /\ worker'[i][g].buffer = worker[i][g].buffer
         /\ worker[i][g].aborted => worker'[i][g].aborted
  BY <1>1, AbortKeeps DEF Inv
<1>3. DOMAIN running' = DOMAIN running
  BY <1>1
<1>4. ASSUME NEW i \in DOMAIN running PROVE running'[i].gen = running[i].gen
  <2>1. running[i] \in Entry
    BY DEF Inv, TypeOK
  <2>2. CASE i \in released
    BY <1>1, <2>1, <2>2 DEF Entry
  <2>3. CASE i \in known \ released
    BY <1>1, <2>1, <2>3 DEF Entry
  <2>4. CASE i \notin known
    BY <1>1, <2>4
  <2> QED
    BY <2>2, <2>3, <2>4
<1> QED
  BY <1>1, <1>2, <1>3, <1>4 DEF Quiet

\* The other steps of a tick and of the environment, but for a dispatch, touch
\* neither the workers nor their messages, and of a run its idleness at most.
LEMMA TickQuiet ==
    ASSUME Inv,
           \/ StartupCleanup \/ WakeUp \/ ReceiveRefresh \/ Reconcile
           \/ CollectDueRetries \/ DueRetriesRefused \/ FetchCandidates \/ EndTick
           \/ \E i \in Issues : DropDueRetry(i) \/ PostponeDueRetry(i) \/ SkipCandidate(i)
    PROVE  Quiet
<1>1. CASE WakeUp \/ ReceiveRefresh
  BY <1>1, BeginTickQuiet DEF WakeUp, ReceiveRefresh
<1>2. CASE Reconcile
  BY <1>2, ReconcileQuiet
<1>3. CASE StartupCleanup
  BY <1>3 DEF Quiet, StartupCleanup, schedVars
<1>4. CASE CollectDueRetries
  BY <1>4 DEF Quiet, CollectDueRetries, schedVars
<1>5. CASE DueRetriesRefused
  BY <1>5 DEF Quiet, DueRetriesRefused, schedVars
<1>6. CASE FetchCandidates
  BY <1>6 DEF Quiet, FetchCandidates, schedVars
<1>7. CASE EndTick
  BY <1>7 DEF Quiet, EndTick, schedVars
<1>8. ASSUME NEW i \in Issues, DropDueRetry(i) \/ PostponeDueRetry(i) PROVE Quiet
  BY <1>8 DEF Quiet, DropDueRetry, PostponeDueRetry, ProcessDueRetry
<1>9. ASSUME NEW i \in Issues, SkipCandidate(i) PROVE Quiet
  BY <1>9 DEF Quiet, SkipCandidate, NextCandidate, schedVars
<1> QED
  BY <1>1, <1>2, <1>3, <1>4, <1>5, <1>6, <1>7, <1>8, <1>9

LEMMA EnvironmentQuiet == ASSUME Inv, Environment \/ UNCHANGED vars PROVE Quiet
<1>1. ASSUME NEW i \in Issues, RunGoesIdle(i) PROVE Quiet
  <2>1. /\ DOMAIN running' = DOMAIN running
        /\ \A j \in DOMAIN running : running'[j].gen = running[j].gen
    <3>1. \A j \in DOMAIN running : running[j] \in Entry
      BY DEF Inv, TypeOK
    <3> QED
      BY <1>1, <3>1 DEF RunGoesIdle, Entry
  <2> QED
    BY <1>1, <2>1 DEF Quiet, RunGoesIdle
<1>2. CASE Elapse
  BY <1>2 DEF Quiet, Elapse, schedVars
<1>3. ASSUME NEW c \in {"refresh", "stop"}, SendCommand(c) PROVE Quiet
  BY <1>3 DEF Quiet, SendCommand, schedVars
<1>4. ASSUME NEW i \in Issues, RetryFallsDue(i) PROVE Quiet
  BY <1>4 DEF Quiet, RetryFallsDue
<1>5. ASSUME NEW i \in Issues, RemoveWorkspace(i) PROVE Quiet
  BY <1>5 DEF Quiet, RemoveWorkspace, schedVars
<1>6. ASSUME NEW i \in Issues, NEW s \in States \cup {Gone}, MoveIssue(i, s) PROVE Quiet
  BY <1>6 DEF Quiet, MoveIssue, schedVars
<1>7. CASE UNCHANGED vars
  BY <1>7 DEF Quiet, vars, schedVars
<1> QED
  BY <1>1, <1>2, <1>3, <1>4, <1>5, <1>6, <1>7 DEF Environment

LEMMA DispatchSpawns ==
    ASSUME Inv, NEW i \in Issues, NEW c, NEW attempt, Dispatch(i, c, attempt),
           pc # "stopped", pc' # "stopped", events' = events, i \notin DOMAIN running
    PROVE  Spawned(i)
<1>1. PICK g \in Gens :
        /\ Unused(i, g)
        /\ worker' = [worker EXCEPT ![i][g] =
                        [phase |-> "starting", aborted |-> FALSE, buffer |-> 0]]
        /\ running' = Put(running, i,
                        [gen |-> g, state |-> c.state, idle |-> FALSE,
                         attempt |-> attempt, cancel |-> "none"])
  BY DEF Dispatch
<1>2. /\ DOMAIN running' = DOMAIN running \cup {i}
      /\ running'[i].gen = g
      /\ \A j \in DOMAIN running : running'[j] = running[j]
  BY <1>1 DEF Put
<1> QED
  BY <1>1, <1>2 DEF Spawned

LEMMA CandidateSpawns ==
    \A i \in Issues : Inv /\ (DispatchDueRetry(i) \/ DispatchCandidate(i)) => Spawned(i)
<1> SUFFICES ASSUME NEW i \in Issues, Inv, DispatchDueRetry(i) \/ DispatchCandidate(i)
             PROVE  Spawned(i)
  OBVIOUS
<1>1. CASE DispatchDueRetry(i)
  <2>1. /\ pc # "stopped" /\ pc' # "stopped" /\ events' = events
        /\ i \notin DOMAIN running
        /\ Dispatch(i, reply.issues[i], retries[i].attempt)
    BY <1>1 DEF DispatchDueRetry, ProcessDueRetry, CanDispatch
  <2> QED
    BY <2>1, DispatchSpawns
<1>2. CASE DispatchCandidate(i)
  <2>1. /\ pc # "stopped" /\ pc' # "stopped" /\ events' = events
        /\ i \notin DOMAIN running
        /\ Dispatch(i, reply.issues[i], 0)
    BY <1>2 DEF DispatchCandidate, NextCandidate, CanDispatch
  <2> QED
    BY <2>1, DispatchSpawns
<1> QED
  BY <1>1, <1>2

LEMMA OrderNext == Inv /\ OrderInv /\ [Next]_vars => OrderInv'
<1> SUFFICES ASSUME Inv, OrderInv, [Next]_vars PROVE OrderInv'
  OBVIOUS
<1>1. CASE Tick
  BY <1>1, TickQuiet, QuietOrder, CandidateSpawns, SpawnedOrder DEF Tick
<1>2. CASE Handle
  BY <1>2, RunnerEventOrder, FinishedOrder DEF Handle
<1>3. CASE ReceiveStop
  BY <1>3, StopOrder
<1>4. CASE \E i \in Issues, g \in Gens : Work(i, g)
  BY <1>4, GoesOnOrder, ForwardOrder, EndedOrder DEF Work, Ended
<1>5. CASE Environment \/ UNCHANGED vars
  BY <1>5, EnvironmentQuiet, QuietOrder
<1> QED
  BY <1>1, <1>2, <1>3, <1>4, <1>5 DEF Next

LEMMA OrderAlways == Spec => [](Inv /\ OrderInv)
BY InitInv, NextInv, OrderInit, OrderNext, PTL DEF Spec

\* While the service is open, a worker lives or its one finish waits exactly
\* for the run its issue has: a finish, which names its issue only, is never
\* taken for that of another run.
THEOREM RunAlwaysOwnsItsFinish == Spec => []RunOwnsItsFinish
<1>1. OrderInv => RunOwnsItsFinish
  BY DEF OrderInv
<1> QED
  BY OrderAlways, <1>1, PTL

\* An event of a run that is no longer there comes from a worker that was
\* aborted: one that ends by itself has sent everything before its finish.
THEOREM StaleEventsAlwaysOfAborted == Spec => []StaleEventsAreOfAbortedRuns
<1>1. OrderInv => StaleEventsAreOfAbortedRuns
  BY DEF OrderInv
<1> QED
  BY OrderAlways, <1>1, PTL

\* No two workers of an issue are ever alive together: its workspace has one
\* agent at most, after a stop too.
THEOREM OneAgentPerIssue == Spec => []OneAgent
<1>1. OrderInv => OneAgent
  BY DEF OrderInv
<1> QED
  BY OrderAlways, <1>1, PTL

-----------------------------------------------------------------------------
(* The leases *)

\* What IssueLease sees of the orchestrator.
leaseOf == [i \in Issues |-> IF i \in DOMAIN running THEN "leased"
                             ELSE IF i \in DOMAIN retries THEN "waiting"
                             ELSE "free"]

agentsOf == [i \in Issues |-> Cardinality({g \in Gens : Live(i, g)})]

isOpen == (pc # "stopped")

\* The steps of IssueLease in those terms.
LEMMA GrantStep ==
    ASSUME NEW i \in Issues, isOpen, isOpen', leaseOf[i] # "leased", agentsOf[i] = 0,
           Cardinality({j \in Issues : leaseOf[j] = "leased"}) < MaxSlots,
           leaseOf' = [leaseOf EXCEPT ![i] = "leased"],
           agentsOf' = [agentsOf EXCEPT ![i] = 1]
    PROVE  Lease!LeaseNext
<1>1. Lease!Leased = {j \in Issues : leaseOf[j] = "leased"}
  BY DEF leaseOf, Lease!Leased
<1>2. Lease!Cardinality(Lease!Leased) < MaxSlots
  BY <1>1 DEF Lease!Cardinality, Cardinality
<1>3. Lease!Grant(i)
  BY <1>2 DEF leaseOf, agentsOf, isOpen, Lease!Grant
<1> QED
  BY <1>3 DEF Lease!LeaseNext

LEMMA LeaveStep ==
    ASSUME NEW i \in Issues, agentsOf[i] = 1, agentsOf' = [agentsOf EXCEPT ![i] = 0],
           leaseOf' = leaseOf, isOpen' = isOpen
    PROVE  Lease!LeaseNext
<1>1. Lease!Leave(i)
  BY DEF leaseOf, agentsOf, isOpen, Lease!Leave
<1> QED
  BY <1>1 DEF Lease!LeaseNext

LEMMA GiveBackStep ==
    ASSUME NEW i \in Issues, isOpen, isOpen', leaseOf[i] = "leased", agentsOf[i] = 0,
           NEW next \in {"free", "waiting"}, leaseOf' = [leaseOf EXCEPT ![i] = next],
           agentsOf' = agentsOf
    PROVE  Lease!LeaseNext
<1>1. Lease!GiveBack(i)
  BY DEF leaseOf, agentsOf, isOpen, Lease!GiveBack
<1> QED
  BY <1>1 DEF Lease!LeaseNext

LEMMA ForgetStep ==
    ASSUME NEW i \in Issues, isOpen, isOpen', leaseOf[i] = "waiting",
           leaseOf' = [leaseOf EXCEPT ![i] = "free"], agentsOf' = agentsOf
    PROVE  Lease!LeaseNext
<1>1. Lease!Forget(i)
  BY DEF leaseOf, agentsOf, isOpen, Lease!Forget
<1> QED
  BY <1>1 DEF Lease!LeaseNext

LEMMA CloseStep ==
    ASSUME isOpen, ~isOpen', leaseOf' = [i \in Issues |-> "free"], agentsOf' = agentsOf
    PROVE  Lease!LeaseNext
<1>1. Lease!Close
  BY DEF leaseOf, agentsOf, isOpen, Lease!Close
<1> QED
  BY <1>1 DEF Lease!LeaseNext

LEMMA StutterStep ==
    ASSUME leaseOf' = leaseOf, agentsOf' = agentsOf, isOpen' = isOpen
    PROVE  UNCHANGED Lease!leaseVars
BY DEF leaseOf, agentsOf, isOpen, Lease!leaseVars

\* An issue has the agent that is alive, or none.
LEMMA AgentsCount ==
    ASSUME OneAgent, NEW i \in Issues
    PROVE  /\ (\A g \in Gens : ~Live(i, g)) => agentsOf[i] = 0
           /\ (\E g \in Gens : Live(i, g)) => agentsOf[i] = 1
<1> DEFINE S == {g \in Gens : Live(i, g)}
<1>1. agentsOf[i] = Cardinality(S)
  BY DEF agentsOf
<1>2. ASSUME \A g \in Gens : ~Live(i, g) PROVE agentsOf[i] = 0
  <2>1. S = {}
    BY <1>2
  <2> QED
    BY <1>1, <2>1, FS_EmptySet
<1>3. ASSUME NEW g \in Gens, Live(i, g) PROVE agentsOf[i] = 1
  <2>1. S = {g}
    BY <1>3 DEF OneAgent
  <2> QED
    BY <1>1, <2>1, FS_Singleton
<1> QED
  BY <1>2, <1>3

\* Where the same workers live there are as many agents.
LEMMA SameAgents ==
    ASSUME \A i \in Issues, g \in Gens : Live(i, g)' <=> Live(i, g)
    PROVE  agentsOf' = agentsOf
<1>1. \A i \in Issues : {g \in Gens : Live(i, g)'} = {g \in Gens : Live(i, g)}
  OBVIOUS
<1> QED
  BY <1>1 DEF agentsOf

LEMMA OtherAgents ==
    ASSUME NEW i \in Issues, NEW n, agentsOf'[i] = n,
           \A j \in Issues \ {i}, g \in Gens : Live(j, g)' <=> Live(j, g)
    PROVE  agentsOf' = [agentsOf EXCEPT ![i] = n]
<1>1. \A j \in Issues \ {i} : {g \in Gens : Live(j, g)'} = {g \in Gens : Live(j, g)}
  OBVIOUS
<1>2. \A j \in Issues \ {i} : agentsOf'[j] = agentsOf[j]
  BY <1>1 DEF agentsOf
<1>3. /\ agentsOf' = [j \in Issues |-> agentsOf'[j]]
      /\ agentsOf = [j \in Issues |-> agentsOf[j]]
  BY DEF agentsOf
<1> QED
  BY <1>2, <1>3

LEMMA QuietLease ==
    ASSUME Quiet, DOMAIN retries' = DOMAIN retries
    PROVE  UNCHANGED Lease!leaseVars
<1>1. \A i \in Issues, g \in Gens : Live(i, g)' <=> Live(i, g)
  BY DEF Quiet, Live
<1>2. leaseOf' = leaseOf /\ isOpen' = isOpen
  BY DEF Quiet, leaseOf, isOpen
<1> QED
  BY <1>1, <1>2, SameAgents, StutterStep

\* A step of a tick that dispatches nothing and drops no retry keeps the
\* retries.
LEMMA TickRetries ==
    ASSUME Inv,
           \/ StartupCleanup \/ WakeUp \/ ReceiveRefresh \/ Reconcile
           \/ CollectDueRetries \/ DueRetriesRefused \/ FetchCandidates \/ EndTick
           \/ \E i \in Issues : PostponeDueRetry(i) \/ SkipCandidate(i)
    PROVE  DOMAIN retries' = DOMAIN retries
<1>1. ASSUME NEW i \in Issues, PostponeDueRetry(i) PROVE DOMAIN retries' = DOMAIN retries
  <2>1. i \in DOMAIN retries
    BY <1>1 DEF Inv, ClaimsMatch, PostponeDueRetry, ProcessDueRetry
  <2> QED
    BY <1>1, <2>1 DEF PostponeDueRetry, ScheduleRetry, Put
<1> QED
  BY <1>1 DEF StartupCleanup, WakeUp, ReceiveRefresh, BeginTick, Reconcile,
              CollectDueRetries, DueRetriesRefused, FetchCandidates, EndTick,
              SkipCandidate, NextCandidate, schedVars

LEMMA EnvironmentRetries ==
    ASSUME Environment \/ UNCHANGED vars PROVE DOMAIN retries' = DOMAIN retries
BY DEF Environment, Elapse, SendCommand, RetryFallsDue, RunGoesIdle, RemoveWorkspace,
       MoveIssue, vars, schedVars

\* The slots of a configuration are no more than the most any has.
LEMMA SlotsBound == Inv => config.slots \in Nat /\ MaxSlots \in Nat /\ config.slots <= MaxSlots
<1> SUFFICES ASSUME Inv
             PROVE  config.slots \in Nat /\ MaxSlots \in Nat /\ config.slots <= MaxSlots
  OBVIOUS
<1> DEFINE N == {cfg.slots : cfg \in Configs}
           P(n) == \A cfg \in Configs : cfg.slots <= n
<1>1. \E n \in N : P(n)
  BY SlotsAssumption
<1>2. MaxSlots = CHOOSE n \in N : P(n)
  BY DEF MaxSlots
<1> HIDE DEF P
<1>3. MaxSlots \in N /\ P(MaxSlots)
  BY <1>1, <1>2
<1>4. config \in Configs /\ \A cfg \in Configs : cfg.slots \in Nat
  BY ConfigsAssumption DEF Inv, TypeOK, Config
<1> QED
  BY <1>3, <1>4 DEF P

\* A dispatch grants a lease.
LEMMA DispatchGrants ==
    \A i \in Issues : Inv /\ OrderInv /\ (DispatchDueRetry(i) \/ DispatchCandidate(i))
                         => Lease!LeaseNext
<1> SUFFICES ASSUME NEW i \in Issues, Inv, OrderInv, DispatchDueRetry(i) \/ DispatchCandidate(i)
             PROVE  Lease!LeaseNext
  OBVIOUS
<1>1. Spawned(i) /\ OrderInv'
  BY CandidateSpawns, SpawnedOrder
<1>2. HasAvailableSlots /\ DOMAIN retries' = DOMAIN retries \ {i}
  BY DEF DispatchDueRetry, DispatchCandidate, Dispatch, CanDispatch, Drop, Restrict
<1>3. isOpen /\ isOpen' /\ i \notin DOMAIN running /\ DOMAIN running' = DOMAIN running \cup {i}
  BY <1>1 DEF Spawned, isOpen
<1>4. PICK g \in Gens :
         worker' = [worker EXCEPT ![i][g] =
                      [phase |-> "starting", aborted |-> FALSE, buffer |-> 0]]
  BY <1>1 DEF Spawned
<1>5. /\ \A j \in Issues \ {i}, h \in Gens : worker'[j][h] = worker[j][h]
      /\ worker'[i][g].phase = "starting"
  BY <1>4 DEF Inv, TypeOK
<1>6. \A j \in Issues \ {i}, h \in Gens : Live(j, h)' <=> Live(j, h)
  BY <1>5 DEF Live
<1>7. Live(i, g)'
  BY <1>5 DEF Live
<1>8. OneAgent /\ OneAgent'
  BY <1>1 DEF OrderInv
<1>9. agentsOf'[i] = 1
  <2>1. \E h \in Gens : Live(i, h)'
    BY <1>7
  <2> DEFINE S == {h \in Gens : Live(i, h)'}
  <2>2. S = {g}
    BY <1>7, <1>8 DEF OneAgent
  <2> QED
    BY <2>2, FS_Singleton DEF agentsOf
<1>10. agentsOf[i] = 0
  <2>1. \A h \in Gens : ~Live(i, h)
    BY <1>3 DEF OrderInv, RunOwnsItsFinish, RunsAs, isOpen
  <2> QED
    BY <1>8, <2>1, AgentsCount
<1>11. agentsOf' = [agentsOf EXCEPT ![i] = 1]
  BY <1>6, <1>9, OtherAgents
<1>12. leaseOf' = [leaseOf EXCEPT ![i] = "leased"] /\ leaseOf[i] # "leased"
  BY <1>2, <1>3 DEF leaseOf
<1>13. Cardinality({j \in Issues : leaseOf[j] = "leased"}) < MaxSlots
  <2>1. {j \in Issues : leaseOf[j] = "leased"} = DOMAIN running
    BY DEF leaseOf, Inv, TypeOK
  <2>2. Cardinality(DOMAIN running) < config.slots /\ Cardinality(DOMAIN running) \in Nat
    BY <1>2, FS_CardinalityType DEF HasAvailableSlots, OrderInv, FewRuns
  <2> QED
    BY <2>1, <2>2, SlotsBound
<1> QED
  BY <1>3, <1>10, <1>11, <1>12, <1>13, GrantStep

\* The end of a worker leaves its issue without an agent.
LEMMA EndedLeaves ==
    \A i \in Issues, g \in Gens : Inv /\ OrderInv /\ Ended(i, g) => Lease!LeaseNext
<1> SUFFICES ASSUME NEW i \in Issues, NEW g \in Gens, Inv, OrderInv, Ended(i, g)
             PROVE  Lease!LeaseNext
  OBVIOUS
<1>1. /\ running' = running /\ pc' = pc /\ Live(i, g)
      /\ worker'[i][g].phase = "ended"
      /\ \A j \in Issues, h \in Gens : ~(j = i /\ h = g) => worker'[j][h] = worker[j][h]
  BY EndedStep
<1>2. OneAgent
  BY DEF OrderInv
<1>3. \A j \in Issues, h \in Gens : Live(j, h)' <=> (Live(j, h) /\ ~(j = i /\ h = g))
  BY <1>1 DEF Live
<1>4. agentsOf[i] = 1
  BY <1>1, <1>2, AgentsCount
<1>5. agentsOf'[i] = 0
  <2>1. {h \in Gens : Live(i, h)'} = {}
    BY <1>1, <1>2, <1>3 DEF OneAgent
  <2> QED
    BY <2>1, FS_EmptySet DEF agentsOf
<1>6. agentsOf' = [agentsOf EXCEPT ![i] = 0]
  BY <1>3, <1>5, OtherAgents
<1>7. retries' = retries
  BY DEF Ended, FailToStart, FinishRun, CancelWorker, workerFrame, schedVars
<1>8. leaseOf' = leaseOf /\ isOpen' = isOpen
  BY <1>1, <1>7 DEF leaseOf, isOpen
<1> QED
  BY <1>4, <1>6, <1>8, LeaveStep

\* A finish that is handled gives the lease back, and a retry that is dropped
\* forgets its issue.
LEMMA FinishedGivesBack == Inv /\ OrderInv /\ HandleFinished => Lease!LeaseNext
<1> SUFFICES ASSUME Inv, OrderInv, HandleFinished PROVE Lease!LeaseNext
  OBVIOUS
<1> DEFINE i == Head(events).issue
<1>1. /\ pc = "loop" /\ pc' = "loop" /\ worker' = worker
      /\ i \in Issues /\ i \in DOMAIN running /\ \A h \in Gens : ~Live(i, h)
      /\ running' = Drop(running, i)
  BY FinishedRun
<1>2. \/ DOMAIN retries' = DOMAIN retries \ {i}
      \/ DOMAIN retries' = DOMAIN retries \cup {i}
  BY <1>1 DEF HandleFinished, ScheduleRetry, Drop, Restrict, Put
<1>3. DOMAIN running' = DOMAIN running \ {i}
  BY <1>1 DEF Drop, Restrict
<1>4. isOpen /\ isOpen' /\ agentsOf' = agentsOf
  BY <1>1, SameAgents DEF isOpen, Live
<1>5. agentsOf[i] = 0
  BY <1>1, AgentsCount DEF OrderInv
<1>6. leaseOf[i] = "leased"
  BY <1>1 DEF leaseOf
<1> HIDE DEF i
<1>7. \E next \in {"free", "waiting"} : leaseOf' = [leaseOf EXCEPT ![i] = next]
  <2>1. CASE DOMAIN retries' = DOMAIN retries \ {i}
    <3>1. leaseOf' = [leaseOf EXCEPT ![i] = "free"]
      BY <1>1, <1>3, <2>1 DEF leaseOf
    <3> QED
      BY <3>1
  <2>2. CASE DOMAIN retries' = DOMAIN retries \cup {i}
    <3>1. leaseOf' = [leaseOf EXCEPT ![i] = "waiting"]
      BY <1>1, <1>3, <2>2 DEF leaseOf
    <3> QED
      BY <3>1
  <2> QED
    BY <1>2, <2>1, <2>2
<1> QED
  BY <1>1, <1>4, <1>5, <1>6, <1>7, GiveBackStep

LEMMA DropForgets == \A i \in Issues : Inv /\ DropDueRetry(i) => Lease!LeaseNext
<1> SUFFICES ASSUME NEW i \in Issues, Inv, DropDueRetry(i) PROVE Lease!LeaseNext
  OBVIOUS
<1>1. /\ running' = running /\ worker' = worker /\ pc = "due" /\ pc' \in {"due", "fetch"}
      /\ DOMAIN retries' = DOMAIN retries \ {i}
  BY DEF DropDueRetry, ProcessDueRetry, Drop, Restrict
<1>2. i \in DOMAIN retries /\ i \notin DOMAIN running
  BY DEF Inv, ClaimsMatch, DropDueRetry, ProcessDueRetry
<1>3. isOpen /\ isOpen' /\ agentsOf' = agentsOf
  BY <1>1, SameAgents DEF isOpen, Live
<1>4. leaseOf[i] = "waiting" /\ leaseOf' = [leaseOf EXCEPT ![i] = "free"]
  BY <1>1, <1>2 DEF leaseOf
<1> QED
  BY <1>3, <1>4, ForgetStep

LEMMA StopCloses == Inv /\ ReceiveStop => Lease!LeaseNext
<1> SUFFICES ASSUME Inv, ReceiveStop PROVE Lease!LeaseNext
  OBVIOUS
<1>1. \A i \in Issues, g \in Gens : worker'[i][g].phase = worker[i][g].phase
  BY AbortKeeps DEF Inv, ReceiveStop
<1>2. agentsOf' = agentsOf
  BY <1>1, SameAgents DEF Live
<1>3. DOMAIN running' = {} /\ DOMAIN retries' = {}
  BY EmptyMapType DEF ReceiveStop
<1>4. leaseOf' = [i \in Issues |-> "free"]
  BY <1>3 DEF leaseOf
<1>5. isOpen /\ ~isOpen'
  BY DEF ReceiveStop, isOpen
<1> QED
  BY <1>2, <1>4, <1>5, CloseStep

LEMMA LeaseInitially == Init => Lease!LeaseInit
<1> SUFFICES ASSUME Init PROVE Lease!LeaseInit
  OBVIOUS
<1>1. \A i \in Issues : {g \in Gens : Live(i, g)} = {}
  BY DEF Init, Live
<1>2. agentsOf = [i \in Issues |-> 0]
  BY <1>1, FS_EmptySet DEF agentsOf
<1>3. DOMAIN running = {} /\ DOMAIN retries = {}
  BY EmptyMapType DEF Init
<1>4. leaseOf = [i \in Issues |-> "free"] /\ isOpen
  BY <1>3 DEF Init, leaseOf, isOpen
<1> QED
  BY <1>2, <1>4 DEF leaseOf, agentsOf, isOpen, Lease!LeaseInit

LEMMA LeaseSteps ==
    Inv /\ OrderInv /\ [Next]_vars => [Lease!LeaseNext]_Lease!leaseVars
<1> SUFFICES ASSUME Inv, OrderInv, [Next]_vars
             PROVE  Lease!LeaseNext \/ UNCHANGED Lease!leaseVars
  OBVIOUS
<1>1. CASE Tick
  BY <1>1, TickQuiet, TickRetries, QuietLease, DispatchGrants, DropForgets DEF Tick
<1>2. CASE HandleRunnerEvent
  <2>1. /\ DOMAIN running' = DOMAIN running /\ retries' = retries
        /\ worker' = worker /\ pc' = pc
    BY <1>2 DEF HandleRunnerEvent, NextEvent
  <2>2. agentsOf' = agentsOf
    BY <2>1, SameAgents DEF Live
  <2>3. leaseOf' = leaseOf /\ isOpen' = isOpen
    BY <2>1 DEF leaseOf, isOpen
  <2> QED
    BY <2>2, <2>3, StutterStep
<1>3. CASE HandleFinished
  BY <1>3, FinishedGivesBack
<1>4. CASE ReceiveStop
  BY <1>4, StopCloses
<1>5. ASSUME NEW i \in Issues, NEW g \in Gens, Work(i, g)
      PROVE  Lease!LeaseNext \/ UNCHANGED Lease!leaseVars
  <2>1. CASE Ended(i, g)
    BY <2>1, EndedLeaves
  <2>2. CASE EnsureWorkspace(i, g) \/ Emit(i, g) \/ Forward(i, g)
    <3>1. \A j \in Issues, h \in Gens : Live(j, h)' <=> Live(j, h)
      <4>1. worker \in [Issues -> [Gens -> Worker]]
        BY DEF Inv, TypeOK
      <4>2. CASE EnsureWorkspace(i, g)
        BY <4>1, <4>2 DEF Worker, EnsureWorkspace, Live
      <4>3. CASE Emit(i, g)
        BY <4>1, <4>3 DEF Worker, Emit, Live
      <4>4. CASE Forward(i, g)
        BY <4>1, <4>4 DEF Worker, Forward, Live
      <4> QED
        BY <2>2, <4>2, <4>3, <4>4
    <3>2. running' = running /\ retries' = retries /\ pc' = pc
      BY <2>2 DEF EnsureWorkspace, Emit, Forward, workerFrame, schedVars
    <3>3. leaseOf' = leaseOf /\ isOpen' = isOpen
      BY <3>2 DEF leaseOf, isOpen
    <3> QED
      BY <3>1, <3>3, SameAgents, StutterStep
  <2> QED
    BY <1>5, <2>1, <2>2 DEF Work, Ended
<1>6. CASE Environment \/ UNCHANGED vars
  BY <1>6, EnvironmentQuiet, EnvironmentRetries, QuietLease
<1> QED
  BY <1>1, <1>2, <1>3, <1>4, <1>5, <1>6 DEF Next, Handle

\* The orchestrator implements the leases of IssueLease: a dispatch grants one,
\* the end of a worker frees the agent, and only the finish it sends gives the
\* lease back.
THEOREM LeasesAreKept == Spec => KeepsLeases
BY LeaseInitially, LeaseSteps, OrderAlways, PTL DEF Spec, KeepsLeases, Lease!LeaseSpec

-----------------------------------------------------------------------------
(* The workspaces *)

AllTerminal == UNION {cfg.terminal : cfg \in Configs}

\* No configuration takes up work on what another one calls terminal, unless
\* it calls it terminal as well.
TerminalIsTerminal == \A c, d \in Configs : c.active \cap d.terminal \subseteq c.terminal

\* A removal is under way for an issue that is over only, with no worker but
\* such as have been told to stop.
RemovedIsOver ==
    \A i \in Issues : removals[i] > 0 =>
        /\ tracker[i] \in AllTerminal
        /\ \A g \in Gens : Live(i, g) => worker[i][g].aborted

\* What a tick may dispatch has no removal under way.
OfferedIsOpen ==
    pc \in {"due", "dispatch"} =>
        \A i \in DOMAIN reply.issues :
            reply.issues[i].state \in config.active \ config.terminal => ~(removals[i] > 0)

\* What the tracker reports as over stays over.
ToldIsTrue ==
    pc = "reconcile" =>
        \A i \in DOMAIN reply.issues :
            reply.issues[i].state \in AllTerminal => tracker[i] \in AllTerminal

NobodyYet == pc = "startup" => DOMAIN running = {}

Kept == \A i \in Issues, g \in Gens :
           worker[i][g].phase = "working" /\ ~worker[i][g].aborted => dir[i]

IntactInv == RemovedIsOver /\ OfferedIsOpen /\ ToldIsTrue /\ NobodyYet /\ Kept

\* No removal and no worker is new, no directory disappears, no issue comes
\* back, and a worker starts to work in a directory only.
Calm ==
    /\ \A i \in Issues :
         /\ removals'[i] > 0 => removals[i] > 0
         /\ tracker[i] \in AllTerminal => tracker'[i] \in AllTerminal
         /\ dir[i] => dir'[i]
    /\ \A i \in Issues, g \in Gens :
         /\ Live(i, g)' => Live(i, g) /\ (worker[i][g].aborted => worker'[i][g].aborted)
         /\ worker'[i][g].phase = "working" => worker[i][g].phase = "working" \/ dir'[i]

LEMMA CalmKeeps ==
    ASSUME RemovedIsOver, Kept, Calm PROVE RemovedIsOver' /\ Kept'
<1>1. RemovedIsOver'
  BY DEF RemovedIsOver, Calm
<1>2. Kept'
  <2> SUFFICES ASSUME NEW i \in Issues, NEW g \in Gens,
                      worker'[i][g].phase = "working", ~worker'[i][g].aborted
               PROVE  dir'[i]
    BY DEF Kept
  <2>1. Live(i, g)'
    BY DEF Live
  <2> QED
    BY <2>1 DEF Kept, Calm
<1> QED
  BY <1>1, <1>2

\* A quiet step that leaves the workspaces and the tracker alone is calm.
LEMMA QuietCalm ==
    ASSUME Quiet, removals' = removals, tracker' = tracker, dir' = dir PROVE Calm
BY DEF Quiet, Calm, Live

LEMMA IntactInit == Init => IntactInv
<1> SUFFICES ASSUME Init PROVE IntactInv
  OBVIOUS
<1>1. RemovedIsOver /\ Kept
  BY DEF Init, RemovedIsOver, Kept
<1>2. OfferedIsOpen /\ ToldIsTrue /\ NobodyYet
  BY EmptyMapType DEF Init, OfferedIsOpen, ToldIsTrue, NobodyYet
<1> QED
  BY <1>1, <1>2 DEF IntactInv

LEMMA StartupIntact == Inv /\ OrderInv /\ IntactInv /\ StartupCleanup => IntactInv'
<1> SUFFICES ASSUME Inv, OrderInv, IntactInv, StartupCleanup PROVE IntactInv'
  OBVIOUS
<1>1. /\ pc = "startup" /\ pc' = "loop"
      /\ worker' = worker /\ removals' = removals /\ tracker' = tracker
  BY DEF StartupCleanup
<1>2. \A i \in Issues, g \in Gens : ~Live(i, g)
  BY <1>1 DEF IntactInv, NobodyYet, OrderInv, RunOwnsItsFinish, RunsAs
<1>3. RemovedIsOver' /\ Kept'
  BY <1>1, <1>2 DEF IntactInv, RemovedIsOver, Kept, Live
<1> QED
  BY <1>1, <1>3 DEF IntactInv, OfferedIsOpen, ToldIsTrue, NobodyYet

LEMMA BeginTickIntact ==
    ASSUME Inv, IntactInv, pc = "loop", BeginTick PROVE IntactInv'
<1>1. /\ pc' \in {"retries", "reconcile"}
      /\ removals' = removals /\ tracker' = tracker /\ dir' = dir
  BY DEF BeginTick, envVars
<1>2. RemovedIsOver' /\ Kept'
  BY <1>1, BeginTickQuiet, QuietCalm, CalmKeeps DEF IntactInv
<1>3. ToldIsTrue'
  <2> SUFFICES ASSUME pc' = "reconcile", NEW i \in DOMAIN reply'.issues
               PROVE  reply'.issues[i].state = tracker[i]
    BY <1>1 DEF ToldIsTrue
  <2>1. \E cfg \in Configs : Ask({j \in DOMAIN running : tracker[j] # Gone}, cfg)
    BY DEF BeginTick
  <2>2. PICK cfg \in Configs : reply' \in {Answer({j \in DOMAIN running : tracker[j] # Gone}, cfg),
                                           Refused}
    BY <2>1 DEF Ask
  <2>3. reply' = Answer({j \in DOMAIN running : tracker[j] # Gone}, cfg)
    BY <2>2, EmptyMapType DEF Refused
  <2> QED
    BY <2>3 DEF Answer
<1> QED
  BY <1>1, <1>2, <1>3 DEF IntactInv, OfferedIsOpen, NobodyYet

LEMMA ReconcileIntact == Inv /\ OrderInv /\ IntactInv /\ Reconcile => IntactInv'
<1> SUFFICES ASSUME Inv, OrderInv, IntactInv, Reconcile PROVE IntactInv'
  OBVIOUS
<1> DEFINE known    == DOMAIN reply.issues \cap DOMAIN running
           released == {i \in known : \/ IsTerminal(reply.issues[i].state)
                                      \/ ~IsActive(reply.issues[i].state)}
           removed  == {i \in known : EndsWorkspace(reply.issues[i].state)}
<1>1. /\ pc = "reconcile" /\ pc' = "retries" /\ worker' = Abort(released)
      /\ removals' = [i \in Issues |->
                        IF i \in removed THEN removals[i] + 1 ELSE removals[i]]
      /\ dir' = dir /\ tracker' = tracker
  BY DEF Reconcile
<1>2. \A i \in Issues, g \in Gens :
         /\ worker'[i][g].phase = worker[i][g].phase
         /\ worker[i][g].aborted => worker'[i][g].aborted
  BY <1>1, AbortKeeps DEF Inv
<1>3. Kept'
  BY <1>1, <1>2 DEF IntactInv, Kept
<1>4. RemovedIsOver'
  <2> SUFFICES ASSUME NEW i \in Issues, removals'[i] > 0
               PROVE  /\ tracker[i] \in AllTerminal
                      /\ \A g \in Gens : Live(i, g) => worker'[i][g].aborted
    BY <1>1, <1>2 DEF RemovedIsOver, Live
  <2>1. CASE i \notin removed
    <3>1. removals[i] > 0
      BY <1>1, <2>1
    <3> QED
      BY <1>2, <3>1 DEF IntactInv, RemovedIsOver
  <2>2. CASE i \in removed
    <3>1. reply.issues[i].state \in config.terminal /\ i \in released
      BY <2>2 DEF EndsWorkspace, IsTerminal
    <3>2. config.terminal \subseteq AllTerminal
      BY DEF Inv, TypeOK, AllTerminal
    <3>3. tracker[i] \in AllTerminal
      BY <1>1, <2>2, <3>1, <3>2 DEF IntactInv, ToldIsTrue
    <3>4. ASSUME NEW g \in Gens, Live(i, g) PROVE worker'[i][g].aborted
      <4>1. i \in DOMAIN running /\ running[i].gen = g
        BY <1>1, <3>4 DEF OrderInv, RunOwnsItsFinish, RunsAs
      <4>2. worker'[i] = [worker[i] EXCEPT ![g].aborted = TRUE]
        BY <1>1, <3>1, <3>4, <4>1 DEF Abort
      <4>3. worker[i] \in [Gens -> Worker]
        BY DEF Inv, TypeOK
      <4> QED
        BY <4>2, <4>3 DEF Worker
    <3> QED
      BY <3>3, <3>4
  <2> QED
    BY <2>1, <2>2
<1> QED
  BY <1>1, <1>3, <1>4 DEF IntactInv, OfferedIsOpen, ToldIsTrue, NobodyYet

\* The candidates of the tracker are not over.
LEMMA CandidatesOpen ==
    ASSUME TerminalIsTerminal, Inv, IntactInv, Ask(Candidates, config),
           config' = config, removals' = removals
    PROVE  OfferedIsOpen'
<1> SUFFICES ASSUME NEW i \in DOMAIN reply'.issues,
                    reply'.issues[i].state \in config.active \ config.terminal
             PROVE  ~(removals[i] > 0)
  BY DEF OfferedIsOpen
<1>1. reply' = Answer(Candidates, config)
  BY EmptyMapType DEF Ask, Refused
<1>2. i \in Issues /\ reply'.issues[i].state = tracker[i]
  BY <1>1 DEF Answer, Candidates
<1>3. tracker[i] \notin AllTerminal
  BY <1>2 DEF TerminalIsTerminal, AllTerminal, Inv, TypeOK
<1> QED
  BY <1>2, <1>3 DEF IntactInv, RemovedIsOver

\* A candidate less is on offer.
LEMMA FewerOffered ==
    ASSUME OfferedIsOpen, NEW i \in Issues, NextCandidate(i) PROVE OfferedIsOpen'
<1>1. /\ pc = "dispatch" /\ config' = config /\ removals' = removals
      /\ reply' = [reply EXCEPT !.issues = Drop(reply.issues, i)]
  BY DEF NextCandidate, envVars
<1>2. reply'.issues = Drop(reply.issues, i)
  BY <1>1
<1>3. /\ DOMAIN reply'.issues \subseteq DOMAIN reply.issues
      /\ \A j \in DOMAIN reply'.issues : reply'.issues[j] = reply.issues[j]
  BY <1>2 DEF Drop, Restrict
<1> QED
  BY <1>1, <1>3 DEF OfferedIsOpen

\* The steps of a tick that ask for candidates or go through them.
LEMMA TickIntact ==
    ASSUME TerminalIsTerminal, Inv, IntactInv,
           \/ CollectDueRetries \/ DueRetriesRefused \/ FetchCandidates \/ EndTick
           \/ \E i \in Issues : DropDueRetry(i) \/ PostponeDueRetry(i) \/ SkipCandidate(i)
    PROVE  IntactInv'
<1>1. Quiet
  BY TickQuiet
<1>2. removals' = removals /\ tracker' = tracker /\ dir' = dir /\ config' = config
  BY DEF CollectDueRetries, DueRetriesRefused, FetchCandidates, EndTick, DropDueRetry,
         PostponeDueRetry, ProcessDueRetry, SkipCandidate, NextCandidate, envVars
<1>3. RemovedIsOver' /\ Kept'
  BY <1>1, <1>2, QuietCalm, CalmKeeps DEF IntactInv
<1>4. pc' \notin {"startup", "reconcile"}
  BY DEF CollectDueRetries, DueRetriesRefused, FetchCandidates, EndTick, DropDueRetry,
         PostponeDueRetry, ProcessDueRetry, SkipCandidate, NextCandidate
<1>5. OfferedIsOpen'
  <2>1. CASE CollectDueRetries \/ FetchCandidates
    <3>1. pc' \notin {"due", "dispatch"} \/ Ask(Candidates, config)
      BY <2>1 DEF CollectDueRetries, FetchCandidates
    <3> QED
      BY <1>2, <3>1, CandidatesOpen DEF OfferedIsOpen
  <2>2. CASE DueRetriesRefused \/ EndTick
    BY <2>2 DEF DueRetriesRefused, EndTick, OfferedIsOpen
  <2>3. ASSUME NEW i \in Issues, DropDueRetry(i) \/ PostponeDueRetry(i)
        PROVE  OfferedIsOpen'
    <3>1. pc = "due" /\ reply' = reply
      BY <2>3 DEF DropDueRetry, PostponeDueRetry, ProcessDueRetry
    <3> QED
      BY <1>2, <3>1 DEF OfferedIsOpen, IntactInv
  <2>4. ASSUME NEW i \in Issues, SkipCandidate(i)
        PROVE  OfferedIsOpen'
    BY <1>2, <2>4, FewerOffered DEF SkipCandidate, IntactInv
  <2> QED
    BY <2>1, <2>2, <2>3, <2>4
<1> QED
  BY <1>3, <1>4, <1>5 DEF IntactInv, ToldIsTrue, NobodyYet

\* A dispatch starts a worker on an issue that has no removal under way.
LEMMA DispatchIntact ==
    ASSUME Inv, OrderInv, IntactInv, NEW i \in Issues,
           DispatchDueRetry(i) \/ DispatchCandidate(i)
    PROVE  IntactInv'
<1>1. /\ removals' = removals /\ tracker' = tracker /\ dir' = dir /\ config' = config
      /\ pc \in {"due", "dispatch"} /\ pc' \notin {"startup", "reconcile"}
      /\ i \in DOMAIN reply.issues
      /\ reply.issues[i].state \in config.active \ config.terminal
  BY DEF DispatchDueRetry, ProcessDueRetry, DispatchCandidate, NextCandidate,
         CanDispatch, IsActive, IsTerminal, envVars
<1>2. ~(removals[i] > 0)
  BY <1>1 DEF IntactInv, OfferedIsOpen
<1>3. PICK g \in Gens :
         worker' = [worker EXCEPT ![i][g] =
                      [phase |-> "starting", aborted |-> FALSE, buffer |-> 0]]
  BY DEF DispatchDueRetry, DispatchCandidate, Dispatch
<1>4. \A j \in Issues, h \in Gens :
         worker'[j][h] = IF j = i /\ h = g
                         THEN [phase |-> "starting", aborted |-> FALSE, buffer |-> 0]
                         ELSE worker[j][h]
  BY <1>3 DEF Inv, TypeOK
<1>5. RemovedIsOver'
  BY <1>1, <1>2, <1>4 DEF IntactInv, RemovedIsOver, Live
<1>6. Kept'
  BY <1>1, <1>4 DEF IntactInv, Kept
<1>7. OfferedIsOpen'
  <2>1. CASE DispatchDueRetry(i)
    <3>1. reply' = reply
      BY <2>1 DEF DispatchDueRetry, ProcessDueRetry
    <3> QED
      BY <1>1, <3>1 DEF IntactInv, OfferedIsOpen
  <2>2. CASE DispatchCandidate(i)
    BY <1>1, <2>2, FewerOffered DEF DispatchCandidate, IntactInv
  <2> QED
    BY <2>1, <2>2
<1> QED
  BY <1>1, <1>5, <1>6, <1>7 DEF IntactInv, ToldIsTrue, NobodyYet

\* The select loop's handlers leave the workspaces alone.
LEMMA HandlersIntact ==
    ASSUME Inv, OrderInv, IntactInv, Handle \/ ReceiveStop PROVE IntactInv'
<1>1. CASE Handle
  <2>1. /\ pc' = "loop" /\ worker' = worker
        /\ removals' = removals /\ tracker' = tracker /\ dir' = dir
    BY <1>1 DEF Handle, HandleRunnerEvent, HandleFinished, NextEvent, envVars
  <2>2. Calm
    BY <2>1 DEF Calm, Live
  <2> QED
    BY <2>1, <2>2, CalmKeeps DEF IntactInv, OfferedIsOpen, ToldIsTrue, NobodyYet
<1>2. CASE ReceiveStop
  <2>1. pc' = "stopped" /\ removals' = removals /\ tracker' = tracker /\ dir' = dir
    BY <1>2 DEF ReceiveStop, envVars
  <2>2. \A i \in Issues, g \in Gens :
           /\ worker'[i][g].phase = worker[i][g].phase
           /\ worker[i][g].aborted => worker'[i][g].aborted
    BY <1>2, AbortKeeps DEF Inv, ReceiveStop
  <2>3. Calm
    BY <2>1, <2>2 DEF Calm, Live
  <2> QED
    BY <2>1, <2>3, CalmKeeps DEF IntactInv, OfferedIsOpen, ToldIsTrue, NobodyYet
<1> QED
  BY <1>1, <1>2

\* Nor do the workers, who create theirs.
LEMMA WorkIntact ==
    ASSUME Inv, OrderInv, IntactInv, NEW i \in Issues, NEW g \in Gens, Work(i, g)
    PROVE  IntactInv'
<1>1. /\ pc' = pc /\ config' = config /\ reply' = reply /\ running' = running
      /\ removals' = removals /\ tracker' = tracker
  BY DEF Work, EnsureWorkspace, FailToStart, Emit, Forward, FinishRun, CancelWorker,
         workerFrame, tickVars, schedVars
<1>2. \A j \in Issues : dir[j] => dir'[j]
  BY DEF Work, EnsureWorkspace, FailToStart, Emit, Forward, FinishRun, CancelWorker,
         Inv, TypeOK
<1>3. \A j \in Issues, h \in Gens :
         /\ Live(j, h)' => Live(j, h) /\ (worker[j][h].aborted => worker'[j][h].aborted)
         /\ worker'[j][h].phase = "working" => worker[j][h].phase = "working" \/ dir'[j]
  <2>1. worker \in [Issues -> [Gens -> Worker]] /\ dir \in [Issues -> BOOLEAN]
    BY DEF Inv, TypeOK
  <2>2. CASE EnsureWorkspace(i, g)
    BY <2>1, <2>2 DEF EnsureWorkspace, Worker, Live
  <2>3. CASE Emit(i, g)
    BY <2>1, <2>3 DEF Emit, Worker, Live
  <2>4. CASE Forward(i, g)
    BY <2>1, <2>4 DEF Forward, Worker, Live
  <2>5. CASE Ended(i, g)
    <3>1. /\ worker'[i][g].phase = "ended"
          /\ \A j \in Issues, h \in Gens :
                ~(j = i /\ h = g) => worker'[j][h] = worker[j][h]
      BY <2>5, EndedStep
    <3> QED
      BY <3>1 DEF Live
  <2> QED
    BY <2>2, <2>3, <2>4, <2>5 DEF Work, Ended
<1>4. RemovedIsOver' /\ Kept'
  BY <1>1, <1>2, <1>3, CalmKeeps DEF Calm, IntactInv
<1> QED
  BY <1>1, <1>4 DEF IntactInv, OfferedIsOpen, ToldIsTrue, NobodyYet

\* A removal deletes the directory of nobody that is left to work; an issue
\* that is over is not moved.
LEMMA EnvironmentIntact ==
    ASSUME ~Reopen, Inv, OrderInv, IntactInv, Environment \/ UNCHANGED vars
    PROVE  IntactInv'
<1>1. /\ pc' = pc /\ config' = config /\ reply' = reply /\ worker' = worker
      /\ DOMAIN running' = DOMAIN running
  BY DEF Environment, Elapse, SendCommand, RetryFallsDue, RunGoesIdle, RemoveWorkspace,
         MoveIssue, vars, tickVars, schedVars
<1>2. \A i \in Issues : tracker[i] \in AllTerminal => tracker'[i] = tracker[i]
  <2>1. ASSUME NEW i \in Issues, NEW s \in States \cup {Gone}, MoveIssue(i, s)
        PROVE  \A j \in Issues : tracker[j] \in AllTerminal => tracker'[j] = tracker[j]
    BY <2>1 DEF MoveIssue, AllTerminal, Inv, TypeOK
  <2> QED
    BY <2>1 DEF Environment, Elapse, SendCommand, RetryFallsDue, RunGoesIdle,
                RemoveWorkspace, vars, envVars
<1>3. \A i \in Issues : removals'[i] > 0 => removals[i] > 0
  <2>1. ASSUME NEW i \in Issues, RemoveWorkspace(i)
        PROVE  \A j \in Issues : removals'[j] > 0 => removals[j] > 0
    BY <2>1 DEF RemoveWorkspace, Inv, TypeOK
  <2> QED
    BY <2>1 DEF Environment, Elapse, SendCommand, RetryFallsDue, RunGoesIdle,
                MoveIssue, vars, envVars
<1>4. RemovedIsOver'
  BY <1>1, <1>2, <1>3 DEF IntactInv, RemovedIsOver, Live
<1>5. Kept'
  <2>1. ASSUME NEW i \in Issues, RemoveWorkspace(i) PROVE Kept'
    <3> SUFFICES ASSUME NEW j \in Issues, NEW g \in Gens,
                        worker[j][g].phase = "working", ~worker[j][g].aborted
                 PROVE  dir'[j]
      BY <1>1 DEF Kept
    <3>1. j # i
      BY <2>1 DEF RemoveWorkspace, IntactInv, RemovedIsOver, Live
    <3>2. dir'[j] = dir[j]
      BY <2>1, <3>1 DEF RemoveWorkspace, Inv, TypeOK
    <3> QED
      BY <3>2 DEF IntactInv, Kept
  <2>2. CASE dir' = dir
    BY <1>1, <2>2 DEF IntactInv, Kept
  <2> QED
    BY <2>1, <2>2 DEF Environment, Elapse, SendCommand, RetryFallsDue, RunGoesIdle,
                      MoveIssue, vars, envVars
<1>6. OfferedIsOpen' /\ ToldIsTrue' /\ NobodyYet'
  <2>1. ToldIsTrue'
    <3>1. \A i \in DOMAIN reply.issues : i \in Issues
      BY DEF Inv, TypeOK, IsAnswer
    <3> QED
      BY <1>1, <1>2, <3>1 DEF IntactInv, ToldIsTrue
  <2>2. OfferedIsOpen'
    <3>1. \A i \in DOMAIN reply.issues : i \in Issues
      BY DEF Inv, TypeOK, IsAnswer
    <3> QED
      BY <1>1, <1>3, <3>1 DEF IntactInv, OfferedIsOpen
  <2> QED
    BY <1>1, <2>1, <2>2 DEF IntactInv, NobodyYet
<1> QED
  BY <1>4, <1>5, <1>6 DEF IntactInv

LEMMA IntactNext ==
    ASSUME ~Reopen, TerminalIsTerminal
    PROVE  Inv /\ OrderInv /\ IntactInv /\ [Next]_vars => IntactInv'
<1> SUFFICES ASSUME Inv, OrderInv, IntactInv, [Next]_vars PROVE IntactInv'
  OBVIOUS
<1>1. CASE Tick
  <2>1. CASE WakeUp \/ ReceiveRefresh
    BY <2>1, BeginTickIntact DEF WakeUp, ReceiveRefresh
  <2> QED
    BY <1>1, <2>1, StartupIntact, ReconcileIntact, TickIntact, DispatchIntact DEF Tick
<1>2. CASE Handle \/ ReceiveStop
  BY <1>2, HandlersIntact
<1>3. CASE \E i \in Issues, g \in Gens : Work(i, g)
  BY <1>3, WorkIntact
<1>4. CASE Environment \/ UNCHANGED vars
  BY <1>4, EnvironmentIntact
<1> QED
  BY <1>1, <1>2, <1>3, <1>4 DEF Next

\* If no issue leaves a terminal state and the configurations agree on what is
\* terminal, a late remove_workspace never deletes the directory in which a
\* worker that was not told to stop is at work.
THEOREM WorkspaceStaysIntact ==
    ASSUME TerminalIsTerminal PROVE Spec => []WorkspaceIntact
<1>1. CASE Reopen
  <2>1. WorkspaceIntact
    BY <1>1 DEF WorkspaceIntact
  <2> QED
    BY <2>1, PTL
<1>2. CASE ~Reopen
  <2>1. Inv /\ OrderInv /\ IntactInv /\ [Next]_vars => IntactInv'
    BY <1>2, IntactNext
  <2>2. IntactInv => WorkspaceIntact
    BY DEF IntactInv, Kept, WorkspaceIntact
  <2> QED
    BY <2>1, <2>2, IntactInit, OrderAlways, PTL DEF Spec
<1> QED
  BY <1>1, <1>2
=============================================================================
