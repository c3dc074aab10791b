------------------------ MODULE TaskSchedulerProofs ------------------------
(***************************************************************************)
(* Theorems about the task scheduler, for all tasks, schedules, clients,   *)
(* capacities and bounds.                                                  *)
(***************************************************************************)
EXTENDS TaskScheduler, FiniteSetTheorems, TLAPS

\* What was started for a due time is under way, or has ended since that time.
StartsAreKnown ==
    \A t \in Tasks, d \in Times :
        starts[t][d] > 0 =>
            /\ starts[t][d] = 1 /\ d <= now
            /\ \/ tasks[t].info.status = "running"
               \/ tasks[t].info.lastRun >= d

\* What TypeOK says of the feed, and that nothing is kept for a client that is gone.
FeedTyped(f) ==
    /\ f \in [Clients -> Feed]
    /\ \A c \in Clients :
          /\ f[c].open => f[c].view \in [Tasks -> Info]
          /\ ~f[c].open => f[c] = Unsubscribed
          /\ f[c].lagged => f[c].queue = <<>>
          /\ Len(f[c].queue) <= Capacity

\* FeedLeadsToTable, of any feed and table.
FeedShows(f, table) ==
    \A c \in Clients, t \in Tasks :
        f[c].open /\ ~f[c].lagged => WillShow(f[c], t, table[t].info)

SchedulerInv ==
    /\ TypeOK /\ FeedTyped(feed)
    /\ RunningIsOneExecution /\ StartsAreKnown /\ FeedLeadsToTable

-----------------------------------------------------------------------------
(* The feed *)

\* A client that has not lost anything has got what was sent; the others keep
\* what they have, or learn that they have lost something.
LEMMA SentReaches ==
    ASSUME TypeOK, FeedTyped(feed), NEW events \in Seq(Event), NEW c \in Clients
    PROVE  /\ Sent(events)[c] \in Feed
           /\ Sent(events)[c].open = feed[c].open
           /\ Sent(events)[c].view = feed[c].view
           /\ ~feed[c].open => Sent(events)[c] = feed[c]
           /\ Sent(events)[c].lagged => Sent(events)[c].queue = <<>>
           /\ Len(Sent(events)[c].queue) <= Capacity
           /\ Sent(events)[c].open /\ ~Sent(events)[c].lagged =>
                 ~feed[c].lagged /\ Sent(events)[c].queue = feed[c].queue \o events
<1> DEFINE q == feed[c].queue \o events
<1>1. feed[c] \in Feed /\ Len(feed[c].queue) <= Capacity
  BY DEF TypeOK
<1>2. q \in Seq(Event) /\ Len(q) \in Nat /\ Capacity \in Nat
  BY <1>1, SchedulerAssumption DEF Feed
<1>3. Sent(events)[c] =
        IF ~feed[c].open \/ feed[c].lagged THEN feed[c]
        ELSE IF Len(q) > Capacity THEN [feed[c] EXCEPT !.lagged = TRUE, !.queue = <<>>]
        ELSE [feed[c] EXCEPT !.queue = q]
  BY DEF Sent
<1> DEFINE f == feed[c]
           g == Sent(events)[c]
<1>r. /\ f = [open |-> f.open, view |-> f.view, queue |-> f.queue, lagged |-> f.lagged]
      /\ f.open \in BOOLEAN /\ f.view \in [Tasks -> Info] \cup {<<>>}
      /\ f.queue \in Seq(Event) /\ f.lagged \in BOOLEAN
  BY <1>1 DEF Feed
<1>s. <<>> \in Seq(Event) /\ Len(<<>>) = 0
  OBVIOUS
<1> HIDE DEF q
<1>4. CASE f.open /\ ~f.lagged /\ Len(q) > Capacity
  <2>1. g = [open |-> f.open, view |-> f.view, queue |-> <<>>, lagged |-> TRUE]
    BY <1>3, <1>r, <1>4
  <2>2. g \in Feed /\ g.open = f.open /\ g.view = f.view /\ g.queue = <<>> /\ g.lagged
    BY <1>r, <1>s, <2>1 DEF Feed
  <2> QED
    BY <1>2, <1>4, <1>s, <2>2
<1>5. CASE f.open /\ ~f.lagged /\ ~(Len(q) > Capacity)
  <2>1. g = [open |-> f.open, view |-> f.view, queue |-> q, lagged |-> f.lagged]
    BY <1>3, <1>r, <1>5
  <2>2. /\ g \in Feed /\ g.open = f.open /\ g.view = f.view /\ g.queue = q
        /\ ~g.lagged
    BY <1>2, <1>5, <1>r, <2>1 DEF Feed
  <2> QED
    BY <1>2, <1>5, <2>2 DEF q
<1>6. CASE ~f.open \/ f.lagged
  BY <1>1, <1>3, <1>6 DEF FeedTyped
<1> QED
  BY <1>4, <1>5, <1>6

\* Events that do not update t leave what a client will show of it.
LEMMA OthersKeepShown ==
    ASSUME NEW f \in Feed, NEW g \in Feed, NEW events \in Seq(Event), NEW t \in Tasks, NEW info,
           g.queue = f.queue \o events, g.view = f.view,
           \A k \in DOMAIN events : ~Updates(events[k], t),
           WillShow(f, t, info)
    PROVE  WillShow(g, t, info)
<1>1. /\ f.queue \in Seq(Event)
      /\ \A k \in DOMAIN f.queue : k \in DOMAIN g.queue /\ g.queue[k] = f.queue[k]
      /\ \A k \in DOMAIN g.queue :
            \/ k \in DOMAIN f.queue
            \/ k - Len(f.queue) \in DOMAIN events /\ g.queue[k] = events[k - Len(f.queue)]
  BY DEF Feed
<1>2. \A k \in DOMAIN g.queue : k \notin DOMAIN f.queue => ~Updates(g.queue[k], t)
  BY <1>1
<1> QED
  BY <1>1, <1>2 DEF WillShow

\* The last update of t among new events is what a client will show.
LEMMA LastUpdateIsShown ==
    ASSUME NEW f \in Feed, NEW g \in Feed, NEW events \in Seq(Event), NEW t \in Tasks,
           g.queue = f.queue \o events,
           NEW k \in DOMAIN events, Updates(events[k], t),
           \A j \in DOMAIN events : j > k => ~Updates(events[j], t)
    PROVE  WillShow(g, t, events[k].info)
<1>1. f.queue \in Seq(Event) /\ g.queue \in Seq(Event) /\ Len(f.queue) \in Nat
  BY DEF Feed
<1> DEFINE n == Len(f.queue) + k
<1>2. n \in DOMAIN g.queue /\ g.queue[n] = events[k]
  BY <1>1
<1>3. \A j \in DOMAIN g.queue : j > n =>
          j - Len(f.queue) \in DOMAIN events /\ j - Len(f.queue) > k
            /\ g.queue[j] = events[j - Len(f.queue)]
  BY <1>1
<1>4. \A j \in DOMAIN g.queue : j > n => ~Updates(g.queue[j], t)
  BY <1>3
<1> HIDE DEF n
<1> QED
  BY <1>2, <1>4 DEF WillShow

\* After the events of a step, clients come to show the new table, if these
\* events end with an update of each task that has changed.
LEMMA SentShows ==
    ASSUME TypeOK, FeedTyped(feed), FeedLeadsToTable, NEW events \in Seq(Event), NEW table,
           \A t \in Tasks :
              \/ /\ \A k \in DOMAIN events : ~Updates(events[k], t)
                 /\ table[t].info = tasks[t].info
              \/ \E k \in DOMAIN events :
                    /\ Updates(events[k], t) /\ events[k].info = table[t].info
                    /\ \A j \in DOMAIN events : j > k => ~Updates(events[j], t)
    PROVE  FeedTyped(Sent(events)) /\ FeedShows(Sent(events), table)
<1>1. DOMAIN Sent(events) = Clients /\ Sent(events) = [c \in Clients |-> Sent(events)[c]]
  BY DEF Sent
<1>2. FeedTyped(Sent(events))
  <2>1. Sent(events) \in [Clients -> Feed]
    BY <1>1, SentReaches
  <2> QED
    BY <2>1, SentReaches DEF FeedTyped, TypeOK
<1>3. ASSUME NEW c \in Clients, NEW t \in Tasks,
             Sent(events)[c].open, ~Sent(events)[c].lagged
      PROVE  WillShow(Sent(events)[c], t, table[t].info)
  <2> DEFINE f == feed[c]
             g == Sent(events)[c]
  <2>1. /\ f \in Feed /\ g \in Feed /\ f.open /\ ~f.lagged
        /\ g.view = f.view /\ g.queue = f.queue \o events
    BY <1>3, SentReaches DEF TypeOK
  <2>2. WillShow(f, t, tasks[t].info)
    BY <2>1 DEF FeedLeadsToTable
  <2> HIDE DEF f, g
  <2>3. CASE /\ \A k \in DOMAIN events : ~Updates(events[k], t)
             /\ table[t].info = tasks[t].info
    <3>1. WillShow(g, t, tasks[t].info)
      BY <2>1, <2>2, <2>3, OthersKeepShown
    <3> QED
      BY <2>3, <3>1 DEF g
  <2>4. ASSUME NEW k \in DOMAIN events,
               Updates(events[k], t) /\ events[k].info = table[t].info,
               \A j \in DOMAIN events : j > k => ~Updates(events[j], t)
        PROVE  WillShow(g, t, table[t].info)
    BY <2>1, <2>4, LastUpdateIsShown
  <2> QED
    BY <2>3, <2>4 DEF g
<1> QED
  BY <1>2, <1>3 DEF FeedShows

-----------------------------------------------------------------------------
(* The steps *)

\* An order of a finite set names each of its elements once.
LEMMA OrderIsBijection ==
    ASSUME NEW S \in SUBSET Tasks, NEW order \in SetToSeqs(S)
    PROVE  /\ order \in Seq(S)
           /\ \A t \in S : \E k \in DOMAIN order : order[k] = t
           /\ \A j, k \in DOMAIN order : order[j] = order[k] => j = k
<1> DEFINE n == Cardinality(S)
<1>1. IsFiniteSet(S) /\ n \in Nat
  BY SchedulerAssumption, FS_Subset, FS_CardinalityType
<1>2. /\ order \in [1..n -> S]
      /\ \A j, k \in 1..n : j # k => order[j] # order[k]
  BY DEF SetToSeqs
<1>3. order \in Injection(1..n, S)
  BY <1>2 DEF Injection, IsInjective
<1>4. IsFiniteSet(1..n) /\ Cardinality(1..n) = n
  BY <1>1, FS_Interval
<1> HIDE DEF n
<1>5. order \in Surjection(1..n, S)
  BY <1>1, <1>3, <1>4, FS_Injection DEF n
<1> QED
  BY <1>1, <1>2, <1>5 DEF Surjection

\* Starting tasks that do not run keeps the invariant, starts aside.
LEMMA StartKeeps ==
    ASSUME SchedulerInv, NEW S \in SUBSET Tasks, Start(S),
           \A t \in S : tasks[t].info.status # "running"
    PROVE  /\ tasks' \in [Tasks -> Task]
           /\ runs' \in [Tasks -> [running : Nat, ended : Nat]]
           /\ FeedTyped(feed') /\ RunningIsOneExecution' /\ FeedLeadsToTable'
           /\ \A t \in Tasks :
                /\ tasks'[t].info.lastRun = tasks[t].info.lastRun
                /\ t \in S => tasks'[t].info.status = "running"
                /\ t \notin S => tasks'[t] = tasks[t]
<1>1. tasks \in [Tasks -> Task] /\ runs \in [Tasks -> [running : Nat, ended : Nat]]
  BY DEF SchedulerInv, TypeOK
<1>2. tasks' = Started(S)
  BY DEF Start
<1>3. ASSUME NEW t \in S
      PROVE  /\ tasks'[t] = [info |-> [status |-> "running",
                                       lastRun |-> tasks[t].info.lastRun,
                                       runCount |-> tasks[t].info.runCount],
                             kept |-> tasks[t].kept]
             /\ tasks'[t].info.status = "running"
             /\ tasks'[t].info.lastRun = tasks[t].info.lastRun
             /\ tasks[t].info.lastRun \in Times /\ tasks[t].info.runCount \in Nat
             /\ tasks[t].kept \in 0..MaxHistory
  BY <1>1, <1>2 DEF Started, Task, Info
<1>4. \A t \in Tasks \ S : tasks'[t] = tasks[t]
  BY <1>2 DEF Started
<1>5. tasks' \in [Tasks -> Task]
  <2>1. \A t \in S : tasks'[t] \in Task
    <3> SUFFICES ASSUME NEW t \in S PROVE tasks'[t] \in Task
      OBVIOUS
    <3> DEFINE info == [status |-> "running", lastRun |-> tasks[t].info.lastRun,
                        runCount |-> tasks[t].info.runCount]
    <3>1. info \in Info
      BY <1>3 DEF Info, Status
    <3> HIDE DEF info
    <3>2. [info |-> info, kept |-> tasks[t].kept] \in Task
      BY <1>3, <3>1 DEF Task
    <3> QED
      BY <1>3, <3>2 DEF info
  <2> QED
    BY <1>1, <1>2, <1>4, <2>1 DEF Started
<1>6. \A t \in Tasks :
        /\ tasks'[t].info.lastRun = tasks[t].info.lastRun
        /\ t \in S => tasks'[t].info.status = "running"
  <2> SUFFICES ASSUME NEW t \in Tasks
               PROVE  /\ tasks'[t].info.lastRun = tasks[t].info.lastRun
                      /\ t \in S => tasks'[t].info.status = "running"
    OBVIOUS
  <2>1. CASE t \in S
    BY <1>3, <2>1
  <2>2. CASE t \notin S
    BY <1>4, <2>2
  <2> QED
    BY <2>1, <2>2
<1>7. /\ runs' \in [Tasks -> [running : Nat, ended : Nat]]
      /\ \A t \in Tasks : /\ runs'[t].ended = runs[t].ended
                          /\ t \in S => runs'[t].running = runs[t].running + 1
                          /\ t \notin S => runs'[t].running = runs[t].running
  BY <1>1 DEF Start
<1>8. RunningIsOneExecution'
  BY <1>1, <1>4, <1>6, <1>7 DEF SchedulerInv, RunningIsOneExecution
<1>9. PICK order \in SetToSeqs(S) :
        feed' = Sent([i \in DOMAIN order |->
                         UpdateEvent(order[i], Started(S)[order[i]].info)])
  BY DEF Start
<1> DEFINE events == [i \in DOMAIN order |-> UpdateEvent(order[i], tasks'[order[i]].info)]
<1>10. feed' = Sent(events)
  BY <1>2, <1>9
<1>11. /\ order \in Seq(S)
       /\ \A t \in S : \E k \in DOMAIN order : order[k] = t
       /\ \A j, k \in DOMAIN order : order[j] = order[k] => j = k
  BY OrderIsBijection
<1>12. events \in Seq(Event) /\ DOMAIN events = DOMAIN order
  <2>1. \A i \in DOMAIN order : order[i] \in S
    BY <1>11
  <2>2. \A i \in DOMAIN order : events[i] \in Event
    BY <1>5, <2>1 DEF UpdateEvent, Event, Task
  <2>3. DOMAIN order = 1..Len(order) /\ Len(order) \in Nat
    BY <1>11
  <2> QED
    BY <2>2, <2>3
<1>13. \A k \in DOMAIN events, t \in Tasks :
         /\ Updates(events[k], t) <=> order[k] = t
         /\ Updates(events[k], t) => events[k].info = tasks'[t].info
  BY DEF Updates, UpdateEvent
<1>14. \A t \in Tasks :
         \/ /\ \A k \in DOMAIN events : ~Updates(events[k], t)
            /\ tasks'[t].info = tasks[t].info
         \/ \E k \in DOMAIN events :
               /\ Updates(events[k], t) /\ events[k].info = tasks'[t].info
               /\ \A j \in DOMAIN events : j > k => ~Updates(events[j], t)
  <2> SUFFICES ASSUME NEW t \in Tasks PROVE
         \/ /\ \A k \in DOMAIN events : ~Updates(events[k], t)
            /\ tasks'[t].info = tasks[t].info
         \/ \E k \in DOMAIN events :
               /\ Updates(events[k], t) /\ events[k].info = tasks'[t].info
               /\ \A j \in DOMAIN events : j > k => ~Updates(events[j], t)
    OBVIOUS
  <2> HIDE DEF events
  <2>1. CASE t \in S
    <3>1. PICK k \in DOMAIN events : order[k] = t
      BY <1>11, <1>12, <2>1
    <3>2. \A j \in DOMAIN events : Updates(events[j], t) => j = k
      BY <1>11, <1>12, <1>13, <3>1
    <3>3. k \in Nat
      BY <1>12
    <3> QED
      BY <1>13, <3>1, <3>2, <3>3
  <2>2. CASE t \notin S
    <3>1. \A k \in DOMAIN events : order[k] \in S
      BY <1>11, <1>12
    <3> QED
      BY <1>4, <1>13, <2>2, <3>1
  <2> QED
    BY <2>1, <2>2
<1> HIDE DEF events
<1>15. FeedTyped(Sent(events)) /\ FeedShows(Sent(events), tasks')
  BY <1>12, <1>14, SentShows DEF SchedulerInv
<1>16. FeedTyped(feed') /\ FeedLeadsToTable'
  BY <1>10, <1>15 DEF FeedShows, FeedLeadsToTable
<1> QED
  BY <1>4, <1>5, <1>6, <1>7, <1>8, <1>16

\* A tick of the loop starts what has not been started for the same due time.
LEMMA CollectKeeps == SchedulerInv /\ CollectDueTasks => SchedulerInv'
<1> SUFFICES ASSUME SchedulerInv, CollectDueTasks PROVE SchedulerInv'
  OBVIOUS
<1> DEFINE S == {t \in Tasks : IsDue(t)}
<1>1. Start(S) /\ UNCHANGED <<now, manual>>
  BY DEF CollectDueTasks
<1>2. \A t \in S : tasks[t].info.status = "idle"
  BY DEF IsDue
<1>3. /\ starts' \in [Tasks -> [Times -> Nat]]
      /\ \A t \in Tasks, d \in Times :
            starts'[t][d] = IF t \in S /\ d \in Missed(t) THEN starts[t][d] + 1
                            ELSE starts[t][d]
  BY DEF CollectDueTasks, SchedulerInv, TypeOK
<1> HIDE DEF S
<1>4. S \subseteq Tasks
  BY DEF S
<1>5. /\ tasks' \in [Tasks -> Task] /\ runs' \in [Tasks -> [running : Nat, ended : Nat]]
      /\ FeedTyped(feed') /\ RunningIsOneExecution' /\ FeedLeadsToTable'
      /\ \A t \in Tasks :
           /\ tasks'[t].info.lastRun = tasks[t].info.lastRun
           /\ t \in S => tasks'[t].info.status = "running"
           /\ t \notin S => tasks'[t] = tasks[t]
  BY <1>1, <1>2, <1>4, StartKeeps
<1>6. StartsAreKnown'
  <2> SUFFICES ASSUME NEW t \in Tasks, NEW d \in Times, starts'[t][d] > 0
               PROVE  /\ starts'[t][d] = 1 /\ d <= now'
                      /\ \/ tasks'[t].info.status = "running"
                         \/ tasks'[t].info.lastRun >= d
    BY DEF StartsAreKnown
  <2>1. CASE t \in S /\ d \in Missed(t)
    <3>1. d <= now /\ tasks[t].info.lastRun < d
      BY <2>1 DEF Missed
    <3>2. tasks[t].info.lastRun \in Nat /\ d \in Nat /\ starts[t][d] \in Nat
      BY SchedulerAssumption DEF SchedulerInv, TypeOK, Task, Info, Times
    <3>3. ~(starts[t][d] > 0)
      BY <1>2, <2>1, <3>1, <3>2 DEF SchedulerInv, StartsAreKnown
    <3> QED
      BY <1>1, <1>3, <1>5, <2>1, <3>1, <3>2, <3>3
  <2>2. CASE ~(t \in S /\ d \in Missed(t))
    BY <1>1, <1>3, <1>5, <2>2 DEF SchedulerInv, StartsAreKnown
  <2> QED
    BY <2>1, <2>2
<1>7. TypeOK'
  BY <1>1, <1>3, <1>5 DEF SchedulerInv, TypeOK, FeedTyped
<1> QED
  BY <1>5, <1>6, <1>7 DEF SchedulerInv

\* A request starts no second execution.
LEMMA RunTaskKeeps ==
    ASSUME SchedulerInv, NEW t \in Tasks, RunTask(t)
    PROVE  SchedulerInv'
<1>1. /\ tasks[t].info.status # "running" /\ Start({t})
      /\ manual < MaxManual /\ manual' = manual + 1 /\ UNCHANGED <<now, starts>>
  BY DEF RunTask
<1>2. /\ tasks' \in [Tasks -> Task] /\ runs' \in [Tasks -> [running : Nat, ended : Nat]]
      /\ FeedTyped(feed') /\ RunningIsOneExecution' /\ FeedLeadsToTable'
      /\ \A u \in Tasks :
           /\ tasks'[u].info.lastRun = tasks[u].info.lastRun
           /\ u \in {t} => tasks'[u].info.status = "running"
           /\ u \notin {t} => tasks'[u] = tasks[u]
  BY <1>1, StartKeeps
<1>3. StartsAreKnown'
  BY <1>1, <1>2 DEF SchedulerInv, StartsAreKnown
<1>4. TypeOK'
  BY <1>1, <1>2, SchedulerAssumption DEF SchedulerInv, TypeOK, FeedTyped
<1> QED
  BY <1>2, <1>3, <1>4 DEF SchedulerInv

\* The end of a command is not seen before it is recorded.
LEMMA CommandEndsKeeps ==
    ASSUME SchedulerInv, NEW t \in Tasks, CommandEnds(t)
    PROVE  SchedulerInv'
<1>1. /\ runs \in [Tasks -> [running : Nat, ended : Nat]] /\ runs[t].running > 0
      /\ runs' = [runs EXCEPT ![t] = [running |-> runs[t].running - 1,
                                      ended |-> runs[t].ended + 1]]
      /\ UNCHANGED <<tasks, feed, now, manual, starts>>
  BY DEF CommandEnds, SchedulerInv, TypeOK
<1>2. /\ runs' \in [Tasks -> [running : Nat, ended : Nat]]
      /\ \A u \in Tasks : runs'[u].running + runs'[u].ended = runs[u].running + runs[u].ended
  BY <1>1
<1>3. TypeOK' /\ RunningIsOneExecution'
  BY <1>1, <1>2 DEF SchedulerInv, TypeOK, RunningIsOneExecution
<1> QED
  BY <1>1, <1>3 DEF SchedulerInv, StartsAreKnown, FeedLeadsToTable

\* A completion notes a time not before any due time it was started for.
LEMMA RecordKeeps ==
    ASSUME SchedulerInv, NEW t \in Tasks, RecordCompletion(t)
    PROVE  SchedulerInv'
<1> DEFINE info == [status |-> Rest(t), lastRun |-> now,
                    runCount |-> tasks[t].info.runCount + 1]
           kept == Min({tasks[t].kept + 1, MaxHistory})
           events == <<UpdateEvent(t, info), ExecutionEvent(t, info)>>
<1>1. /\ tasks \in [Tasks -> Task] /\ runs \in [Tasks -> [running : Nat, ended : Nat]]
      /\ now \in Times /\ runs[t].ended > 0
      /\ runs' = [runs EXCEPT ![t].ended = @ - 1]
      /\ UNCHANGED <<now, manual, starts>>
  BY DEF RecordCompletion, SchedulerInv, TypeOK
<1>2. tasks' = [tasks EXCEPT ![t] = [info |-> info, kept |-> kept]] /\ feed' = Sent(events)
  BY DEF RecordCompletion, Completed
<1>3. tasks[t].info.runCount \in Nat /\ tasks[t].kept \in 0..MaxHistory
  BY <1>1 DEF Task, Info
<1>4. kept \in 0..MaxHistory
  <2>1. MaxHistory \in Nat /\ tasks[t].kept + 1 \in Nat
    BY <1>3, SchedulerAssumption
  <2>2. \E x \in {tasks[t].kept + 1, MaxHistory} :
            \A y \in {tasks[t].kept + 1, MaxHistory} : x <= y
    BY <2>1
  <2>3. /\ kept \in {tasks[t].kept + 1, MaxHistory}
        /\ \A y \in {tasks[t].kept + 1, MaxHistory} : kept <= y
    BY <2>2 DEF Min
  <2> HIDE DEF kept
  <2> QED
    BY <2>1, <2>3
<1>5. info \in Info /\ info.status # "running"
  BY <1>1, <1>3 DEF Info, Rest, Status
<1>6. info.lastRun = now
  OBVIOUS
<1> HIDE DEF info, kept
<1>7. [info |-> info, kept |-> kept] \in Task
  BY <1>4, <1>5 DEF Task
<1>8. /\ tasks' \in [Tasks -> Task] /\ tasks'[t].info = info
      /\ \A u \in Tasks : u # t => tasks'[u] = tasks[u]
  BY <1>1, <1>2, <1>7
<1>9. tasks[t].info.status = "running" /\ runs[t].running = 0 /\ runs[t].ended = 1
  <2>1. runs[t].running \in Nat /\ runs[t].ended \in Nat
    BY <1>1
  <2>2. runs[t].running + runs[t].ended = IF tasks[t].info.status = "running" THEN 1 ELSE 0
    BY DEF SchedulerInv, RunningIsOneExecution
  <2> QED
    BY <1>1, <2>1, <2>2
<1>10. /\ runs' \in [Tasks -> [running : Nat, ended : Nat]]
       /\ runs'[t].running = 0 /\ runs'[t].ended = 0
       /\ \A u \in Tasks : u # t => runs'[u] = runs[u]
  BY <1>1, <1>9
<1>11. RunningIsOneExecution'
  BY <1>5, <1>8, <1>10 DEF SchedulerInv, RunningIsOneExecution
<1>12. StartsAreKnown'
  <2> SUFFICES ASSUME NEW u \in Tasks, NEW d \in Times, starts[u][d] > 0
               PROVE  /\ starts[u][d] = 1 /\ d <= now
                      /\ \/ tasks'[u].info.status = "running"
                         \/ tasks'[u].info.lastRun >= d
    BY <1>1 DEF StartsAreKnown
  <2>1. starts[u][d] = 1 /\ d <= now /\ now >= d
    BY <1>1, SchedulerAssumption DEF SchedulerInv, StartsAreKnown, Times
  <2> QED
    BY <1>6, <1>8, <2>1 DEF SchedulerInv, StartsAreKnown
<1>13. FeedTyped(feed') /\ FeedShows(feed', tasks')
  <2>1. events \in Seq(Event) /\ DOMAIN events = {1, 2}
    BY <1>5 DEF Event, UpdateEvent, ExecutionEvent
  <2>2. /\ \A u \in Tasks : u # t => ~Updates(events[1], u)
        /\ \A u \in Tasks : ~Updates(events[2], u)
        /\ Updates(events[1], t) /\ events[1].info = tasks'[t].info
    BY <1>8 DEF Updates, UpdateEvent, ExecutionEvent
  <2> HIDE DEF events
  <2>3. ASSUME NEW u \in Tasks
        PROVE  \/ /\ \A k \in DOMAIN events : ~Updates(events[k], u)
                  /\ tasks'[u].info = tasks[u].info
               \/ \E k \in DOMAIN events :
                     /\ Updates(events[k], u) /\ events[k].info = tasks'[u].info
                     /\ \A j \in DOMAIN events : j > k => ~Updates(events[j], u)
    <3>1. CASE u # t
      BY <1>8, <2>1, <2>2, <3>1
    <3>2. CASE u = t
      BY <2>1, <2>2, <3>2
    <3> QED
      BY <3>1, <3>2
  <2> QED
    BY <1>2, <2>1, <2>3, SentShows DEF SchedulerInv
<1>14. TypeOK' /\ FeedLeadsToTable'
  BY <1>1, <1>8, <1>10, <1>13
  DEF SchedulerInv, TypeOK, FeedTyped, FeedShows, FeedLeadsToTable
<1> QED
  BY <1>11, <1>12, <1>13, <1>14 DEF SchedulerInv

-----------------------------------------------------------------------------
(* The clients *)

\* A client's own step, if it leaves that client with what it will show.
LEMMA ToFeedKeeps ==
    ASSUME SchedulerInv, NEW c \in Clients, NEW f \in Feed, ToFeed(c, f),
           f.open => f.view \in [Tasks -> Info],
           ~f.open => f = Unsubscribed,
           f.lagged => f.queue = <<>>,
           Len(f.queue) <= Capacity,
           \A t \in Tasks : f.open /\ ~f.lagged => WillShow(f, t, tasks[t].info)
    PROVE  SchedulerInv'
<1>1. feed' = [feed EXCEPT ![c] = f] /\ UNCHANGED <<tasks, runs, now, manual, starts>>
  BY DEF ToFeed
<1>2. FeedTyped(feed')
  BY <1>1 DEF SchedulerInv, FeedTyped
<1>3. TypeOK' /\ RunningIsOneExecution' /\ StartsAreKnown'
  BY <1>1, <1>2
  DEF SchedulerInv, TypeOK, FeedTyped, RunningIsOneExecution, StartsAreKnown
<1>4. FeedLeadsToTable'
  <2> SUFFICES ASSUME NEW d \in Clients, NEW t \in Tasks, feed'[d].open, ~feed'[d].lagged
               PROVE  WillShow(feed'[d], t, tasks[t].info)
    BY <1>1 DEF FeedLeadsToTable
  <2>1. feed \in [Clients -> Feed]
    BY DEF SchedulerInv, TypeOK
  <2>2. CASE d = c
    BY <1>1, <2>1, <2>2
  <2>3. CASE d # c
    BY <1>1, <2>1, <2>3 DEF SchedulerInv, FeedLeadsToTable
  <2> QED
    BY <2>2, <2>3
<1> QED
  BY <1>2, <1>3, <1>4 DEF SchedulerInv

\* The snapshot of a new subscription shows the table.
LEMMA FreshKeeps ==
    ASSUME SchedulerInv, NEW c \in Clients, ToFeed(c, Fresh)
    PROVE  SchedulerInv'
<1>1. InfoOf \in [Tasks -> Info]
  BY DEF SchedulerInv, TypeOK, InfoOf, Task
<1>2. <<>> \in Seq(Event) /\ Len(<<>>) = 0 /\ DOMAIN <<>> = {}
  OBVIOUS
<1>3. /\ Fresh \in Feed /\ Fresh.open /\ ~Fresh.lagged /\ Fresh.view = InfoOf /\ Fresh.queue = <<>>
      /\ Len(Fresh.queue) <= Capacity
  BY <1>1, <1>2, SchedulerAssumption DEF Fresh, Following, Feed
<1>4. \A t \in Tasks : WillShow(Fresh, t, tasks[t].info)
  BY <1>2, <1>3 DEF WillShow, InfoOf
<1> QED
  BY <1>1, <1>3, <1>4, ToFeedKeeps

LEMMA DisconnectKeeps ==
    ASSUME SchedulerInv, NEW c \in Clients, ToFeed(c, Unsubscribed)
    PROVE  SchedulerInv'
<1>1. <<>> \in Seq(Event) /\ Len(<<>>) = 0
  OBVIOUS
<1>2. Unsubscribed \in Feed /\ ~Unsubscribed.open /\ ~Unsubscribed.lagged /\ Len(Unsubscribed.queue) <= Capacity
  BY <1>1, SchedulerAssumption DEF Unsubscribed, Feed
<1> QED
  BY <1>2, ToFeedKeeps

\* Receiving an event brings what the client shows one step nearer.
LEMMA ReceiveKeeps ==
    ASSUME SchedulerInv, NEW c \in Clients, Receive(c)
    PROVE  SchedulerInv'
<1> DEFINE f == feed[c]
           e == Head(f.queue)
           view == Seen(f.view, e)
           g == Following(view, Tail(f.queue))
<1>1. /\ f \in Feed /\ f.queue # <<>> /\ Len(f.queue) <= Capacity /\ Capacity \in Nat
      /\ f.open => f.view \in [Tasks -> Info]
      /\ ~f.open => f = Unsubscribed
      /\ f.lagged => f.queue = <<>>
  BY SchedulerAssumption DEF Receive, SchedulerInv, TypeOK, FeedTyped, Feed
<1>2. f.open /\ ~f.lagged
  BY <1>1 DEF Unsubscribed, Feed
<1>3. /\ f.queue \in Seq(Event) /\ e \in Event /\ Tail(f.queue) \in Seq(Event)
      /\ e = f.queue[1] /\ Len(Tail(f.queue)) = Len(f.queue) - 1 /\ Len(f.queue) \in Nat \ {0}
      /\ \A k \in DOMAIN Tail(f.queue) :
            k + 1 \in DOMAIN f.queue /\ Tail(f.queue)[k] = f.queue[k + 1]
      /\ \A k \in DOMAIN f.queue : k = 1 \/ k - 1 \in DOMAIN Tail(f.queue)
  BY <1>1 DEF Feed
<1>4. /\ view \in [Tasks -> Info]
      /\ \A t \in Tasks : view[t] = IF Updates(e, t) THEN e.info ELSE f.view[t]
  BY <1>1, <1>2, <1>3 DEF Seen, Event, Updates
<1>5. ToFeed(c, g)
  BY DEF Receive
<1> HIDE DEF view, e
<1>6. /\ g.open /\ g.view = view /\ g.queue = Tail(f.queue) /\ ~g.lagged /\ g \in Feed
  BY <1>3, <1>4 DEF Following, Feed
<1> HIDE DEF g
<1>7. Len(g.queue) <= Capacity
  BY <1>1, <1>3, <1>6
<1>8. ASSUME NEW t \in Tasks
      PROVE  WillShow(g, t, tasks[t].info)
  <2>1. WillShow(f, t, tasks[t].info)
    BY <1>2 DEF SchedulerInv, FeedLeadsToTable
  <2>2. CASE \A k \in DOMAIN f.queue : ~Updates(f.queue[k], t)
    <3>1. f.view[t] = tasks[t].info
      BY <2>1, <2>2 DEF WillShow
    <3>2. 1 \in DOMAIN f.queue
      BY <1>3
    <3>3. ~Updates(e, t) /\ \A k \in DOMAIN g.queue : ~Updates(g.queue[k], t)
      BY <1>3, <1>6, <2>2, <3>2
    <3> QED
      BY <1>4, <1>6, <3>1, <3>3 DEF WillShow
  <2>3. ASSUME NEW k \in DOMAIN f.queue,
               Updates(f.queue[k], t) /\ f.queue[k].info = tasks[t].info,
               \A j \in DOMAIN f.queue : j > k => ~Updates(f.queue[j], t)
        PROVE  WillShow(g, t, tasks[t].info)
    <3>1. k \in 1..Len(f.queue)
      BY <1>3
    <3>2. \A j \in DOMAIN g.queue : j + 1 > k => ~Updates(g.queue[j], t)
      BY <1>3, <1>6, <2>3
    <3>3. DOMAIN g.queue \subseteq Nat \ {0}
      BY <1>3, <1>6
    <3>4. CASE k = 1
      <4>1. \A j \in DOMAIN g.queue : ~Updates(g.queue[j], t)
        BY <3>2, <3>3, <3>4
      <4>2. g.view[t] = tasks[t].info
        BY <1>3, <1>4, <1>6, <2>3, <3>4
      <4> QED
        BY <4>1, <4>2 DEF WillShow
    <3>5. CASE k # 1
      <4>1. k - 1 \in DOMAIN g.queue /\ g.queue[k - 1] = f.queue[k]
        BY <1>3, <1>6, <3>1, <3>5
      <4>2. \A j \in DOMAIN g.queue : j > k - 1 => ~Updates(g.queue[j], t)
        BY <3>1, <3>2, <3>3
      <4> QED
        BY <2>3, <4>1, <4>2 DEF WillShow
    <3> QED
      BY <3>4, <3>5
  <2> QED
    BY <2>1, <2>2, <2>3 DEF WillShow
<1> QED
  BY <1>4, <1>5, <1>6, <1>7, <1>8, ToFeedKeeps

-----------------------------------------------------------------------------
(* The theorems *)

LEMMA InitInv == Init => SchedulerInv
<1> SUFFICES ASSUME Init PROVE SchedulerInv
  OBVIOUS
<1>1. <<>> \in Seq(Event) /\ Len(<<>>) = 0
  OBVIOUS
<1>2. Unsubscribed \in Feed /\ ~Unsubscribed.open /\ ~Unsubscribed.lagged /\ Len(Unsubscribed.queue) <= Capacity
  BY <1>1, SchedulerAssumption DEF Unsubscribed, Feed
<1>3. FeedTyped(feed)
  BY <1>2 DEF Init, FeedTyped
<1>4. 0 \in Times /\ 0 \in 0..MaxManual /\ 0 \in 0..MaxHistory
  BY SchedulerAssumption DEF Times
<1>5. ASSUME NEW t \in Tasks
      PROVE  /\ tasks[t] \in Task /\ tasks[t].info.status # "running"
             /\ runs[t] = [running |-> 0, ended |-> 0]
  <2>1. [status |-> Rest(t), lastRun |-> 0, runCount |-> 0] \in Info
    BY <1>4 DEF Info, Rest, Status
  <2> QED
    BY <1>4, <2>1 DEF Init, Task, Rest
<1>6. tasks \in [Tasks -> Task] /\ runs \in [Tasks -> [running : Nat, ended : Nat]]
  BY <1>5 DEF Init
<1>7. TypeOK
  BY <1>3, <1>4, <1>6 DEF Init, TypeOK, FeedTyped
<1>8. RunningIsOneExecution
  BY <1>5 DEF RunningIsOneExecution
<1>9. StartsAreKnown
  BY DEF Init, StartsAreKnown
<1>10. FeedLeadsToTable
  BY <1>2 DEF Init, FeedLeadsToTable
<1> QED
  BY <1>3, <1>7, <1>8, <1>9, <1>10 DEF SchedulerInv

LEMMA StepInv == SchedulerInv /\ [Next]_vars => SchedulerInv'
<1> SUFFICES ASSUME SchedulerInv, [Next]_vars PROVE SchedulerInv'
  OBVIOUS
<1>1. CASE CollectDueTasks
  BY <1>1, CollectKeeps
<1>2. ASSUME NEW t \in Tasks, RunTask(t) \/ CommandEnds(t) \/ RecordCompletion(t)
      PROVE  SchedulerInv'
  BY <1>2, RunTaskKeeps, CommandEndsKeeps, RecordKeeps
<1>3. ASSUME NEW c \in Clients, Subscribe(c) \/ Receive(c) \/ Resync(c) \/ Disconnect(c)
      PROVE  SchedulerInv'
  BY <1>3, FreshKeeps, ReceiveKeeps, DisconnectKeeps DEF Subscribe, Resync, Disconnect
<1>4. CASE Tick
  <2>1. now' \in Times /\ now <= now' /\ now \in Nat /\ now' \in Nat
        /\ UNCHANGED <<tasks, runs, feed, manual, starts>>
    BY <1>4, SchedulerAssumption DEF Tick, SchedulerInv, TypeOK, Times
  <2>2. StartsAreKnown'
    <3>1. \A d \in Times : d \in Nat
      BY SchedulerAssumption DEF Times
    <3>2. \A d \in Times : d <= now => d <= now'
      BY <2>1, <3>1
    <3> QED
      BY <2>1, <3>2 DEF SchedulerInv, StartsAreKnown
  <2>3. TypeOK' /\ RunningIsOneExecution' /\ FeedLeadsToTable' /\ FeedTyped(feed')
    BY <2>1 DEF SchedulerInv, TypeOK, FeedTyped, RunningIsOneExecution, FeedLeadsToTable
  <2> QED
    BY <2>2, <2>3 DEF SchedulerInv
<1>5. CASE UNCHANGED vars
  BY <1>5 DEF vars, SchedulerInv, TypeOK, FeedTyped, RunningIsOneExecution,
              StartsAreKnown, FeedLeadsToTable
<1> QED
  BY <1>1, <1>2, <1>3, <1>4, <1>5 DEF Next

LEMMA SchedulerInvariant == Spec => []SchedulerInv
BY InitInv, StepInv, PTL DEF Spec

\* TypeOK of TaskScheduler: a history, and what is kept for a client, stay bounded.
THEOREM SchedulerTypeCorrect == Spec => []TypeOK
<1>1. SchedulerInv => TypeOK
  BY DEF SchedulerInv
<1> QED
  BY <1>1, SchedulerInvariant, PTL

\* RunningIsOneExecution: a task that is shown as running has one execution, and
\* no other task has any.
THEOREM OneExecutionAtATime == Spec => []RunningIsOneExecution
<1>1. SchedulerInv => RunningIsOneExecution
  BY DEF SchedulerInv
<1> QED
  BY <1>1, SchedulerInvariant, PTL

\* OneRunPerDueTime: the loop starts no task twice for one due time.
THEOREM DueTimesRunOnce == Spec => []OneRunPerDueTime
<1>1. SchedulerInv => OneRunPerDueTime
  BY DEF SchedulerInv, TypeOK, StartsAreKnown, OneRunPerDueTime
<1> QED
  BY <1>1, SchedulerInvariant, PTL

\* FeedLeadsToTable: what a client shows and what is under way to it amount to
\* the table, whatever was lost before.
THEOREM FeedIsComplete == Spec => []FeedLeadsToTable
<1>1. SchedulerInv => FeedLeadsToTable
  BY DEF SchedulerInv
<1> QED
  BY <1>1, SchedulerInvariant, PTL
=============================================================================
