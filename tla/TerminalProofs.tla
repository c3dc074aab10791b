--------------------------- MODULE TerminalProofs ---------------------------
(***************************************************************************)
(* Theorems about the terminals: the daemon, the activity that watches it  *)
(* and the managed processes that run on it, for all ids, slots, processes,*)
(* definitions, requests, faults and numbers of events.                    *)
(*                                                                         *)
(* The activity only watches the daemon, so what is proved of              *)
(* TerminalDaemon holds there too.  The operations of ProcessManager       *)
(* compose those of the daemon, so the lemmas about the daemon give their  *)
(* effect on it.                                                           *)
(***************************************************************************)
EXTENDS ProcessManager, TerminalActivity, TLAPS

-----------------------------------------------------------------------------
(* The daemon *)

\* The invariant: each operation keeps it of the daemon's state it is given.
Good(d) == IsDaemon(d) /\ NoLostIn(d)

\* A fresh daemon has no children, so none is lost.
LEMMA NewDaemonGood ==
    ASSUME NEW store, DOMAIN store \subseteq Ids, store \in [DOMAIN store -> State]
    PROVE  Good(NewDaemon(store))
<1> DEFINE d == NewDaemon(store)
<1>1. /\ d.live = EmptyMap /\ d.store = store /\ d.watch = {}
      /\ d.child = [s \in Ids |-> [n \in Slots |-> "free"]]
      /\ d = [live |-> d.live, store |-> d.store, child |-> d.child, watch |-> d.watch]
  BY DEF NewDaemon
<1>2. DOMAIN EmptyMap = {} /\ EmptyMap \in [{} -> Slots]
  BY DEF EmptyMap
<1>3. d.child \in [Ids -> [Slots -> Phase]]
  BY <1>1 DEF Phase
<1> HIDE DEF d
<1>4. IsDaemon(d)
  BY <1>1, <1>2, <1>3 DEF IsDaemon
<1>5. NoLostIn(d)
  BY <1>1 DEF NoLostIn
<1> QED
  BY <1>4, <1>5 DEF Good, d

\* The merged records are a store again.
LEMMA MergedType ==
    ASSUME NEW d, IsDaemon(d)
    PROVE  DOMAIN Merged(d) \subseteq Ids /\ Merged(d) \in [DOMAIN Merged(d) -> State]
<1>1. \A s : StateOf(d, s) \in State
  BY DEF StateOf, State
<1> QED
  BY <1>1 DEF Merged, IsDaemon

LEMMA PersistGood ==
    ASSUME NEW d, Good(d), NEW f
    PROVE  Good(PersistCurrentSessions(d, f).daemon)
<1> DEFINE e == [d EXCEPT !.store = Merged(d)]
<1>1. /\ e.live = d.live /\ e.store = Merged(d) /\ e.child = d.child
      /\ e.watch = d.watch
      /\ e = [live |-> e.live, store |-> e.store, child |-> e.child, watch |-> e.watch]
  BY DEF Good, IsDaemon
<1>2. DOMAIN Merged(d) \subseteq Ids /\ Merged(d) \in [DOMAIN Merged(d) -> State]
  BY MergedType DEF Good
<1> HIDE DEF e
<1>3. Good(e)
  BY <1>1, <1>2 DEF Good, IsDaemon, NoLostIn
<1>4. PersistCurrentSessions(d, f).daemon \in {d, e}
  BY DEF PersistCurrentSessions, Done, Refused, e
<1> QED
  BY <1>3, <1>4

\* Sessions may be removed if none of them has a child that nobody told to end.
LEMMA ForgetGood ==
    ASSUME NEW d, IsDaemon(d), NEW S,
           \A s \in Ids, n \in Slots : d.child[s][n] = "running" =>
               s \in DOMAIN d.live \ S /\ d.live[s] = n
    PROVE  Good(Forget(d, S))
<1> DEFINE e == Forget(d, S)
<1>1. /\ e.live = Restrict(d.live, DOMAIN d.live \ S) /\ e.store = d.store
      /\ e.watch = d.watch \ S
  BY DEF Forget
<1>r. e = [live |-> e.live, store |-> e.store, child |-> e.child, watch |-> e.watch]
  BY DEF Forget
<1>2. e.child = [s \in Ids |-> [n \in Slots |->
                    IF /\ s \in S \cap DOMAIN d.live
                       /\ n = d.live[s] /\ d.child[s][n] = "ended"
                    THEN "free" ELSE d.child[s][n]]]
  BY DEF Forget
<1> HIDE DEF e
<1>3. e.child \in [Ids -> [Slots -> Phase]]
  <2>1. ASSUME NEW s \in Ids, NEW n \in Slots PROVE e.child[s][n] \in Phase
    <3>1. d.child[s][n] \in Phase
      BY DEF IsDaemon
    <3> QED
      BY <1>2, <3>1 DEF Phase
  <2> QED
    BY <1>2, <2>1
<1>4. /\ DOMAIN e.live = DOMAIN d.live \ S
      /\ \A s \in DOMAIN e.live : e.live[s] = d.live[s]
      /\ e.live \in [DOMAIN e.live -> Slots]
  BY <1>1 DEF IsDaemon, Restrict
<1>5. IsDaemon(e)
  <2>1. /\ DOMAIN e.live \subseteq Ids
        /\ DOMAIN e.store \subseteq Ids /\ e.store \in [DOMAIN e.store -> State]
        /\ e.watch \subseteq DOMAIN e.live
    BY <1>1, <1>4 DEF IsDaemon
  <2> QED
    BY <1>r, <1>3, <1>4, <2>1 DEF IsDaemon
<1>6. NoLostIn(e)
  <2> SUFFICES ASSUME NEW s \in Ids, NEW n \in Slots, e.child[s][n] = "running"
               PROVE  s \in DOMAIN e.live /\ e.live[s] = n
    BY DEF NoLostIn
  <2>1. d.child[s][n] = "running"
    BY <1>2
  <2> QED
    BY <1>4, <2>1
<1> QED
  BY <1>5, <1>6 DEF Good, e

\* Changing one child's phase to one that is not running keeps the invariant.
LEMMA PhaseGood ==
    ASSUME NEW d, Good(d), NEW s \in Ids, NEW n \in Slots,
           NEW phase \in Phase \ {"running"}
    PROVE  Good([d EXCEPT !.child[s][n] = phase])
<1> DEFINE e == [d EXCEPT !.child[s][n] = phase]
<1>0. d = [live |-> d.live, store |-> d.store, child |-> d.child, watch |-> d.watch]
  BY DEF Good, IsDaemon
<1>1. /\ e.live = d.live /\ e.store = d.store /\ e.watch = d.watch
      /\ e.child = [d.child EXCEPT ![s][n] = phase]
  BY <1>0
<1>r. e = [live |-> e.live, store |-> e.store, child |-> e.child, watch |-> e.watch]
  BY <1>0
<1> HIDE DEF e
<1>2. /\ e.child \in [Ids -> [Slots -> Phase]]
      /\ \A t \in Ids, m \in Slots :
            e.child[t][m] = "running" => d.child[t][m] = "running"
  BY <1>1 DEF Good, IsDaemon
<1> QED
  BY <1>r, <1>1, <1>2 DEF Good, IsDaemon, NoLostIn, e

LEMMA HangUpGood ==
    ASSUME NEW d, Good(d), NEW s \in DOMAIN d.live
    PROVE  /\ Good(HangUp(d, s)) /\ HangUp(d, s).live = d.live
           /\ \A n \in Slots : HangUp(d, s).child[s][n] # "running"
<1> DEFINE n == d.live[s]
           phase == IF d.child[s][n] = "running" THEN "hungup" ELSE d.child[s][n]
<1>1. s \in Ids /\ n \in Slots /\ d.child[s][n] \in Phase
  BY DEF Good, IsDaemon
<1>2. HangUp(d, s) = [d EXCEPT !.child[s][n] = phase]
  BY DEF HangUp, Good, IsDaemon
<1>3. phase \in Phase \ {"running"}
  BY <1>1 DEF Phase
<1>4. HangUp(d, s).child = [d.child EXCEPT ![s][n] = phase]
  BY <1>2 DEF Good, IsDaemon
<1> HIDE DEF n, phase
<1>5. Good(HangUp(d, s))
  BY <1>1, <1>2, <1>3, PhaseGood
<1>6. HangUp(d, s).live = d.live
  BY <1>2 DEF Good, IsDaemon
<1>7. ASSUME NEW m \in Slots PROVE HangUp(d, s).child[s][m] # "running"
  <2>1. HangUp(d, s).child[s][n] = phase
    BY <1>1, <1>4 DEF Good, IsDaemon
  <2>2. CASE m = n
    BY <1>3, <2>1, <2>2
  <2>3. CASE m # n
    BY <1>1, <1>4, <2>3 DEF Good, IsDaemon, NoLostIn, n
  <2> QED
    BY <2>2, <2>3
<1> QED
  BY <1>5, <1>6, <1>7

LEMMA KillGood ==
    ASSUME NEW d, Good(d), NEW s, NEW f
    PROVE  Good(Kill(d, s, f).daemon)
<1>1. CASE s \in DOMAIN d.live
  <2> DEFINE h == HangUp(d, s)
  <2>1. Good(h) /\ h.live = d.live /\ \A n \in Slots : h.child[s][n] # "running"
    BY <1>1, HangUpGood
  <2>2. Good(Forget(h, {s}))
    <3>1. \A t \in Ids, n \in Slots : h.child[t][n] = "running" =>
             t \in DOMAIN h.live \ {s} /\ h.live[t] = n
      BY <2>1 DEF Good, NoLostIn
    <3> QED
      BY <2>1, <3>1, ForgetGood DEF Good
  <2>3. Good(PersistCurrentSessions(Forget(h, {s}), f).daemon)
    BY <2>2, PersistGood
  <2> QED
    BY <2>3 DEF Kill, Refused
<1> QED
  BY <1>1 DEF Kill, Refused

LEMMA TerminateGood ==
    ASSUME NEW d, Good(d), NEW s, NEW f
    PROVE  Good(Terminate(d, s, f).daemon)
<1>1. CASE s \in DOMAIN d.live
  BY <1>1, HangUpGood, PersistGood DEF Terminate, Refused
<1> QED
  BY <1>1 DEF Terminate, Refused

\* The child of a new session belongs to it, and no child of the id was lost.
LEMMA SpawnGood ==
    ASSUME NEW d, Good(d), NEW s \in Ids, s \notin DOMAIN d.live,
           FreeSlots(d, s) # {}
    PROVE  Good(Spawn(d, s))
<1> DEFINE n == CHOOSE m \in FreeSlots(d, s) : TRUE
           e == Spawn(d, s)
<1>1. n \in Slots
  BY DEF FreeSlots
<1>2. /\ e.live = Put(d.live, s, n) /\ e.store = d.store /\ e.watch = d.watch
      /\ e.child = [d.child EXCEPT ![s][n] = "running"]
  BY DEF Spawn
<1>r. e = [live |-> e.live, store |-> e.store, child |-> e.child, watch |-> e.watch]
  BY DEF Spawn
<1> HIDE DEF n, e
<1>3. /\ DOMAIN e.live = DOMAIN d.live \cup {s} /\ e.live[s] = n
      /\ \A t \in DOMAIN d.live : e.live[t] = d.live[t]
      /\ e.live \in [DOMAIN e.live -> Slots]
  BY <1>1, <1>2 DEF Put, Good, IsDaemon
<1>4. IsDaemon(e)
  <2>1. e.child \in [Ids -> [Slots -> Phase]]
    BY <1>1, <1>2 DEF Good, IsDaemon, Phase
  <2> QED
    BY <1>r, <1>2, <1>3, <2>1 DEF Good, IsDaemon
<1>5. NoLostIn(e)
  <2> SUFFICES ASSUME NEW t \in Ids, NEW m \in Slots, e.child[t][m] = "running"
               PROVE  t \in DOMAIN e.live /\ e.live[t] = m
    BY DEF NoLostIn
  <2>1. CASE t = s /\ m = n
    BY <1>3, <2>1
  <2>2. CASE ~(t = s /\ m = n)
    <3>1. d.child[t][m] = "running"
      BY <1>1, <1>2, <2>2 DEF Good, IsDaemon
    <3> QED
      BY <1>3, <3>1 DEF Good, NoLostIn
  <2> QED
    BY <2>1, <2>2
<1> QED
  BY <1>4, <1>5 DEF Good, e

LEMMA CreateGood ==
    ASSUME NEW d, Good(d), NEW s \in Ids, NEW f, CanSpawn(d, s)
    PROVE  Good(CreateOrAttach(d, s, f).daemon)
<1>1. CASE s \in DOMAIN d.live
  BY <1>1 DEF CreateOrAttach, Done
<1>2. CASE s \notin DOMAIN d.live
  <2>1. Good(PersistCurrentSessions(Spawn(d, s), f).daemon)
    BY <1>2, SpawnGood, PersistGood DEF CanSpawn
  <2> QED
    BY <1>2, <2>1 DEF CreateOrAttach, Refused
<1> QED
  BY <1>1, <1>2

\* Reaping takes only sessions whose wait thread has seen their child end.
LEMMA ReapGood ==
    ASSUME NEW d, Good(d), NEW f
    PROVE  Good(ReapExitedSessions(d, f))
<1>1. \A s \in Ids, n \in Slots : d.child[s][n] = "running" =>
         s \in DOMAIN d.live \ Exited(d) /\ d.live[s] = n
  BY DEF Good, NoLostIn, Exited, StateOf, ChildOf
<1>2. Good(Forget(d, Exited(d)))
  BY <1>1, ForgetGood DEF Good
<1> QED
  BY <1>2, PersistGood DEF ReapExitedSessions

LEMMA ChildGood ==
    ASSUME Good(daemon), Children
    PROVE  Good(daemon')
<1> PICK s \in Ids, n \in Slots : ChildExits(s, n) \/ WaitThread(s, n)
  BY DEF Children
<1>1. CASE ChildExits(s, n)
  BY <1>1, PhaseGood DEF ChildExits, Phase
<1>2. CASE WaitThread(s, n)
  BY <1>2, PhaseGood DEF WaitThread, Phase
<1> QED
  BY <1>1, <1>2

LEMMA SubscribeGood ==
    ASSUME Good(daemon), NEW s \in Ids, Subscribe(s) \/ Unsubscribe(s)
    PROVE  Good(daemon')
<1> PICK W \in SUBSET DOMAIN daemon.live : daemon' = [daemon EXCEPT !.watch = W]
  <2>1. CASE Subscribe(s)
    BY <2>1 DEF Subscribe, Good, IsDaemon
  <2>2. CASE Unsubscribe(s)
    BY <2>2 DEF Unsubscribe, Good, IsDaemon
  <2> QED
    BY <2>1, <2>2
<1> DEFINE e == [daemon EXCEPT !.watch = W]
<1>1. /\ e.live = daemon.live /\ e.store = daemon.store /\ e.watch = W
      /\ e.child = daemon.child
  BY DEF Good, IsDaemon
<1>2. e = [live |-> e.live, store |-> e.store, child |-> e.child, watch |-> e.watch]
  BY DEF Good, IsDaemon
<1> HIDE DEF e
<1>3. Good(e)
  BY <1>1, <1>2 DEF Good, IsDaemon, NoLostIn
<1> QED
  BY <1>3 DEF e

LEMMA RestartGood ==
    ASSUME Good(daemon), Restart
    PROVE  Good(daemon')
BY NewDaemonGood DEF Restart, Good, IsDaemon

DaemonInv == Good(daemon)

LEMMA StepGood == DaemonInv /\ [Next]_daemon => DaemonInv'
<1> SUFFICES ASSUME Good(daemon), [Next]_daemon PROVE Good(daemon')
  BY DEF DaemonInv
<1>1. ASSUME NEW f \in Fault, Detach(f) PROVE Good(daemon')
  BY <1>1, PersistGood DEF Detach
<1>2. ASSUME NEW s \in Ids, NEW f \in Fault,
             Create(s, f) \/ Touch(s, f) \/ Signal(s, f) \/ KillTerminal(s, f)
      PROVE  Good(daemon')
  <2>1. CASE Create(s, f)
    BY <2>1, CreateGood DEF Create
  <2>2. CASE Touch(s, f)
    BY <2>2, PersistGood DEF Touch
  <2>3. CASE Signal(s, f)
    BY <2>3, TerminateGood DEF Signal
  <2>4. CASE KillTerminal(s, f)
    BY <2>4, KillGood DEF KillTerminal
  <2> QED
    BY <1>2, <2>1, <2>2, <2>3, <2>4
<1>3. ASSUME NEW f \in Fault, Reap(f) PROVE Good(daemon')
  BY <1>3, ReapGood DEF Reap
<1> QED
  BY <1>1, <1>2, <1>3, ChildGood, SubscribeGood, RestartGood DEF Next, Client

THEOREM DaemonInvariant == Spec => []DaemonInv
<1>1. Init => DaemonInv
  <2>1. DOMAIN EmptyMap = {} /\ EmptyMap \in [{} -> State]
    BY DEF EmptyMap
  <2> QED
    BY <2>1, NewDaemonGood DEF Init, DaemonInv
<1> QED
  BY <1>1, StepGood, PTL DEF Spec

\* TypeOK of TerminalDaemon.
THEOREM DaemonTypeCorrect == Spec => []TypeOK
<1>1. DaemonInv => TypeOK
  BY DEF DaemonInv, Good, TypeOK
<1> QED
  BY <1>1, DaemonInvariant, PTL

\* NoLostChild of TerminalDaemon: whatever calls fail, a child that nobody has
\* told to end stays within the reach of list and kill.
THEOREM NoChildIsLost == Spec => []NoLostChild
<1>1. DaemonInv => NoLostChild
  BY DEF DaemonInv, Good, NoLostChild
<1> QED
  BY <1>1, DaemonInvariant, PTL

LEMMA GoodListsEnds == DaemonInv => EndedMeansNoChild
<1> SUFFICES ASSUME Good(daemon), NEW s \in DOMAIN Merged(daemon),
                    Merged(daemon)[s] = "ended", NEW n \in Slots
             PROVE  daemon.child[s][n] # "running"
  BY DEF DaemonInv, EndedMeansNoChild
<1>1. s \in Ids
  BY MergedType DEF Good
<1>2. CASE s \in DOMAIN daemon.live
  <2>1. ChildOf(daemon, s) = "ended"
    BY <1>2 DEF Merged, StateOf
  <2> QED
    BY <1>1, <2>1 DEF Good, NoLostIn, ChildOf
<1>3. CASE s \notin DOMAIN daemon.live
  BY <1>1, <1>3 DEF Good, NoLostIn
<1> QED
  BY <1>2, <1>3

\* EndedMeansNoChild of TerminalDaemon follows: the list takes the state of a
\* live session from the session itself, and only live ones have a child.
THEOREM ListedEndIsReal == Spec => []EndedMeansNoChild
BY GoodListsEnds, DaemonInvariant, PTL

-----------------------------------------------------------------------------
(* What a restarted program finds in the store *)

Restorable(d) == DOMAIN d.live \subseteq DOMAIN d.store

\* Persisting brings every live session into the store.
LEMMA PersistRestores ==
    ASSUME NEW d, Good(d), NEW f \in Fault, "save" \notin Faults
    PROVE  Restorable(PersistCurrentSessions(d, f).daemon)
<1> DEFINE e == [d EXCEPT !.store = Merged(d)]
<1>1. f # "save"
  BY DEF Fault
<1>2. PersistCurrentSessions(d, f).daemon = e
  BY <1>1 DEF PersistCurrentSessions, Done
<1>3. e.live = d.live /\ e.store = Merged(d)
  BY DEF Good, IsDaemon
<1> QED
  BY <1>2, <1>3 DEF Restorable, Merged

LEMMA KillRestores ==
    ASSUME NEW d, Good(d), Restorable(d), NEW s, NEW f \in Fault,
           "save" \notin Faults
    PROVE  Restorable(Kill(d, s, f).daemon)
<1>1. CASE s \in DOMAIN d.live
  <2> DEFINE h == Forget(HangUp(d, s), {s})
  <2>1. Good(h)
    <3>1. /\ Good(HangUp(d, s)) /\ HangUp(d, s).live = d.live
          /\ \A n \in Slots : HangUp(d, s).child[s][n] # "running"
      BY <1>1, HangUpGood
    <3>2. \A t \in Ids, n \in Slots : HangUp(d, s).child[t][n] = "running" =>
             t \in DOMAIN HangUp(d, s).live \ {s} /\ HangUp(d, s).live[t] = n
      BY <3>1 DEF Good, NoLostIn
    <3> QED
      BY <3>1, <3>2, ForgetGood DEF Good
  <2>2. Restorable(PersistCurrentSessions(h, f).daemon)
    BY <2>1, PersistRestores
  <2> QED
    BY <2>2 DEF Kill, Refused
<1> QED
  BY <1>1 DEF Kill, Refused

LEMMA CreateRestores ==
    ASSUME NEW d, Good(d), Restorable(d), NEW s \in Ids, NEW f \in Fault,
           CanSpawn(d, s), "save" \notin Faults
    PROVE  Restorable(CreateOrAttach(d, s, f).daemon)
<1>1. CASE s \in DOMAIN d.live
  BY <1>1 DEF CreateOrAttach, Done
<1>2. CASE s \notin DOMAIN d.live
  <2>1. Restorable(PersistCurrentSessions(Spawn(d, s), f).daemon)
    BY <1>2, SpawnGood, PersistRestores DEF CanSpawn
  <2> QED
    BY <1>2, <2>1 DEF CreateOrAttach, Refused
<1> QED
  BY <1>1, <1>2

LEMMA StepRestores ==
    ASSUME "save" \notin Faults, DaemonInv, LiveIsRestorable, [Next]_daemon
    PROVE  LiveIsRestorable'
<1> USE DEF DaemonInv
<1>r. Restorable(daemon)
  BY DEF LiveIsRestorable, Restorable
<1> SUFFICES Restorable(daemon')
  BY DEF LiveIsRestorable, Restorable
<1>1. ASSUME NEW f \in Fault, Detach(f) PROVE Restorable(daemon')
  BY <1>1, PersistRestores DEF Detach
<1>2. ASSUME NEW s \in Ids, NEW f \in Fault,
             Create(s, f) \/ Touch(s, f) \/ Signal(s, f) \/ KillTerminal(s, f)
      PROVE  Restorable(daemon')
  <2>1. CASE Create(s, f)
    BY <2>1, <1>r, CreateRestores DEF Create
  <2>2. CASE Touch(s, f)
    BY <2>2, PersistRestores DEF Touch
  <2>3. CASE Signal(s, f)
    <3>1. s \in DOMAIN daemon.live =>
             Restorable(PersistCurrentSessions(HangUp(daemon, s), f).daemon)
      BY HangUpGood, PersistRestores
    <3> QED
      BY <1>r, <2>3, <3>1 DEF Signal, Terminate, Refused
  <2>4. CASE KillTerminal(s, f)
    BY <2>4, <1>r, KillRestores DEF KillTerminal
  <2> QED
    BY <1>2, <2>1, <2>2, <2>3, <2>4
<1>3. ASSUME NEW f \in Fault, Reap(f) PROVE Restorable(daemon')
  <2>1. \A s \in Ids, n \in Slots : daemon.child[s][n] = "running" =>
           s \in DOMAIN daemon.live \ Exited(daemon) /\ daemon.live[s] = n
    BY DEF Good, NoLostIn, Exited, StateOf, ChildOf
  <2>2. Good(Forget(daemon, Exited(daemon)))
    BY <2>1, ForgetGood DEF Good
  <2> QED
    BY <1>3, <1>r, <2>2, PersistRestores DEF Reap, ReapExitedSessions
<1>4. ASSUME NEW s \in Ids, Subscribe(s) \/ Unsubscribe(s) PROVE Restorable(daemon')
  BY <1>4, <1>r DEF Subscribe, Unsubscribe, Restorable, Good, IsDaemon
<1>5. CASE Children
  BY <1>5, <1>r DEF Children, ChildExits, WaitThread, Restorable, Good, IsDaemon
<1>6. CASE Restart
  BY <1>6 DEF Restart, NewDaemon, EmptyMap, Restorable
<1> QED
  BY <1>1, <1>2, <1>3, <1>4, <1>5, <1>6, <1>r DEF Next, Client

\* LiveIsRestorable of TerminalDaemon: as long as the store can be written, it
\* knows every live session after each request.
THEOREM LiveStaysRestorable ==
    ASSUME "save" \notin Faults
    PROVE  Spec => []LiveIsRestorable
<1>1. Init => LiveIsRestorable
  BY DEF Init, NewDaemon, LiveIsRestorable
<1>2. DaemonInv /\ LiveIsRestorable /\ [Next]_daemon => LiveIsRestorable'
  BY StepRestores
<1> QED
  BY <1>1, <1>2, DaemonInvariant, PTL DEF Spec

-----------------------------------------------------------------------------
(* The activity watches the daemon *)

LEMMA InitWatches == ActivityInit => Init
BY DEF ActivityInit

LEMMA StepWatches == [ActivityNext]_all => [Next]_daemon
<1> SUFFICES ASSUME [ActivityNext]_all PROVE [Next]_daemon
  OBVIOUS
<1>1. CASE DaemonRequests
  BY <1>1 DEF DaemonRequests, Next, Client
<1>2. CASE \E s \in Ids, n \in Slots : ChildExits(s, n) \/ ExitRecorded(s, n)
  BY <1>2 DEF ExitRecorded, Next, Children
<1>3. CASE \E s \in Ids, n \in Slots : NoteWaiting(s, n)
  BY <1>3 DEF NoteWaiting
<1>4. CASE \E s \in Ids, f \in Fault : Write(s, f)
  BY <1>4 DEF Write, Next, Client
<1>5. CASE Forward \/ (\E s \in Ids : Expires(s))
  BY <1>5 DEF Forward, Expires
<1>6. CASE Restart
  BY <1>6 DEF Next
<1>7. CASE UNCHANGED all
  BY <1>7 DEF all
<1> QED
  BY <1>1, <1>2, <1>3, <1>4, <1>5, <1>6, <1>7 DEF ActivityNext

\* With the bells, the input and the forwarded events the daemon still behaves
\* as TerminalDaemon says: every step is one of its steps, or changes nothing of it.
THEOREM ActivityImplementsDaemon == ActivitySpec => Spec
BY InitWatches, StepWatches, PTL DEF ActivitySpec, Spec

\* So a session that the list says has ended has no child that runs, whatever
\* rings, is typed or is forwarded.
THEOREM ActivityListsNoRunningChild == ActivitySpec => []EndedMeansNoChild
BY ActivityImplementsDaemon, ListedEndIsReal, PTL

LEMMA ActivityKeepsDaemonInv == ActivitySpec => []DaemonInv
BY ActivityImplementsDaemon, DaemonInvariant, PTL

-----------------------------------------------------------------------------
(* The invariant *)

Clear(s) == [kind |-> "clear", id |-> s]

Update(s) == [kind |-> "update", id |-> s]

\* After the i-th event of q comes one that says that s does not wait.
ClearedAfter(q, i, s) == \E j \in DOMAIN q : j > i /\ q[j] = Clear(s)

\* If s waits no more, the events to come take it out of the hub for good.
WillGo(q, h, s) ==
    /\ s \in h => ClearedAfter(q, 0, s)
    /\ \A i \in DOMAIN q : q[i] = Update(s) => ClearedAfter(q, i, s)

Alive == {"running", "hungup", "exited"}

WaitsWhileAlive == \A s \in Ids, n \in Slots : waiting[s][n] => daemon.child[s][n] \in Alive

ActivityTyped ==
    waiting \in [Ids -> [Slots -> BOOLEAN]] /\ events \in Seq(Event) /\ hub \subseteq Ids

NewsComes == \A s \in Ids : Waits(s) \/ WillGo(events, hub, s)

ActivityInv == ActivityTyped /\ WaitsWhileAlive /\ NewsComes

-----------------------------------------------------------------------------
(* The events *)

\* An event that is added to the queue behind the others.
LEMMA AddedEvent ==
    ASSUME NEW q \in Seq(Event), NEW e \in Event
    PROVE  /\ Append(q, e) \in Seq(Event) /\ DOMAIN q = 1..Len(q) /\ Len(q) \in Nat
           /\ DOMAIN Append(q, e) = 1..(Len(q) + 1)
           /\ Append(q, e)[Len(q) + 1] = e
           /\ \A i \in DOMAIN q : Append(q, e)[i] = q[i]
OBVIOUS

\* News of another session, and news that another one waits, disturb nothing.
LEMMA AddedUpdate ==
    ASSUME NEW q \in Seq(Event), NEW e \in Event, NEW h, NEW s \in Ids,
           WillGo(q, h, s), e # Update(s)
    PROVE  WillGo(Append(q, e), h, s)
<1> DEFINE a == Append(q, e)
<1>1. /\ DOMAIN q = 1..Len(q) /\ Len(q) \in Nat /\ DOMAIN a = 1..(Len(q) + 1)
      /\ a[Len(q) + 1] = e /\ \A i \in DOMAIN q : a[i] = q[i]
  BY AddedEvent
<1> HIDE DEF a
<1>2. \A i : ClearedAfter(q, i, s) => ClearedAfter(a, i, s)
  BY <1>1 DEF ClearedAfter
<1>3. \A i \in DOMAIN a : a[i] = Update(s) => i \in DOMAIN q
  BY <1>1
<1> QED
  BY <1>1, <1>2, <1>3 DEF WillGo, a

\* News that a session does not wait come after all others.
LEMMA AddedClear ==
    ASSUME NEW q \in Seq(Event), NEW h, NEW s \in Ids
    PROVE  WillGo(Append(q, Clear(s)), h, s)
<1> DEFINE a == Append(q, Clear(s))
<1>0. Clear(s) \in Event /\ Clear(s) # Update(s)
  BY DEF Clear, Update, Event
<1>1. /\ DOMAIN q = 1..Len(q) /\ Len(q) \in Nat /\ DOMAIN a = 1..(Len(q) + 1)
      /\ a[Len(q) + 1] = Clear(s)
  BY <1>0, AddedEvent
<1> HIDE DEF a
<1>2. \A i \in 0..Len(q) : ClearedAfter(a, i, s)
  <2>1. Len(q) + 1 \in DOMAIN a
    BY <1>1
  <2> QED
    BY <1>1, <2>1 DEF ClearedAfter
<1>3. \A i \in DOMAIN a : a[i] = Update(s) => i \in 0..Len(q)
  BY <1>0, <1>1
<1> QED
  BY <1>1, <1>2, <1>3 DEF WillGo, a

\* The task takes the first event.
LEMMA TakenEvent ==
    ASSUME NEW q \in Seq(Event), q # <<>>, NEW h \in SUBSET Ids, NEW s \in Ids,
           WillGo(q, h, s), NEW k,
           k = IF Head(q).kind = "update" THEN h \cup {Head(q).id} ELSE h \ {Head(q).id}
    PROVE  WillGo(Tail(q), k, s)
<1>1. /\ DOMAIN q = 1..Len(q) /\ Len(q) \in Nat /\ 1 \in DOMAIN q
      /\ Tail(q) \in Seq(Event) /\ DOMAIN Tail(q) = 1..(Len(q) - 1)
      /\ \A i \in DOMAIN Tail(q) : Tail(q)[i] = q[i + 1]
      /\ Head(q) = q[1] /\ q[1] \in Event
  OBVIOUS
<1>2. ASSUME NEW i \in Nat, ClearedAfter(q, i + 1, s)
      PROVE  ClearedAfter(Tail(q), i, s)
  <2>1. PICK j \in DOMAIN q : j > i + 1 /\ q[j] = Clear(s)
    BY <1>2 DEF ClearedAfter
  <2>2. j - 1 \in DOMAIN Tail(q) /\ j - 1 > i /\ (j - 1) + 1 = j
    BY <1>1, <2>1
  <2> QED
    BY <1>1, <2>1, <2>2 DEF ClearedAfter
<1>3. ASSUME NEW i \in DOMAIN Tail(q), Tail(q)[i] = Update(s)
      PROVE  ClearedAfter(Tail(q), i, s)
  <2>1. i + 1 \in DOMAIN q /\ q[i + 1] = Update(s) /\ i \in Nat
    BY <1>1, <1>3
  <2> QED
    BY <1>2, <2>1 DEF WillGo
<1>4. ASSUME s \in k
      PROVE  ClearedAfter(Tail(q), 0, s)
  <2>1. CASE q[1] = Update(s)
    BY <1>1, <1>2, <2>1 DEF WillGo
  <2>2. CASE q[1] # Update(s)
    <3>1. s \in h /\ q[1] # Clear(s)
      BY <1>1, <1>4, <2>2 DEF Update, Clear, Event
    <3>2. PICK j \in DOMAIN q : j > 0 /\ q[j] = Clear(s)
      BY <3>1 DEF WillGo, ClearedAfter
    <3>3. j > 0 + 1
      BY <1>1, <3>1, <3>2
    <3> QED
      BY <1>2, <3>2, <3>3 DEF ClearedAfter
  <2> QED
    BY <2>1, <2>2
<1> QED
  BY <1>3, <1>4 DEF WillGo

-----------------------------------------------------------------------------
(* The threads *)

LEMMA NoteKeeps ==
    ASSUME ActivityInv, NEW s \in Ids, NEW n \in Slots, NoteWaiting(s, n)
    PROVE  ActivityInv'
<1>1. /\ daemon.child[s][n] \in Alive /\ waiting' = [waiting EXCEPT ![s][n] = TRUE]
      /\ events' = Append(events, Update(s)) /\ UNCHANGED <<daemon, hub>>
  BY DEF NoteWaiting, Update, Alive
<1>2. /\ waiting \in [Ids -> [Slots -> BOOLEAN]] /\ events \in Seq(Event) /\ hub \subseteq Ids
      /\ Update(s) \in Event
  BY DEF ActivityInv, ActivityTyped, Update, Event
<1>3. ActivityTyped'
  BY <1>1, <1>2, AddedEvent DEF ActivityTyped
<1>4. WaitsWhileAlive'
  BY <1>1, <1>2 DEF ActivityInv, WaitsWhileAlive
<1>5. Waits(s)'
  BY <1>1, <1>2 DEF Waits
<1>6. ASSUME NEW x \in Ids, x # s
      PROVE  Waits(x)' \/ WillGo(events', hub', x)
  <2>1. Waits(x) => Waits(x)'
    BY <1>1, <1>2, <1>6 DEF Waits
  <2>2. Update(s) # Update(x)
    BY <1>6 DEF Update
  <2>3. WillGo(events, hub, x) => WillGo(events', hub', x)
    BY <1>1, <1>2, <2>2, AddedUpdate
  <2> QED
    BY <2>1, <2>3 DEF ActivityInv, NewsComes
<1> QED
  BY <1>3, <1>4, <1>5, <1>6 DEF ActivityInv, NewsComes

\* An incarnation that stops waiting says so after all that was said before.
LEMMA ClearKeeps ==
    ASSUME ActivityTyped, NewsComes, NEW s \in Ids, NEW n \in Slots, ClearActivity(s, n)
    PROVE  /\ ActivityTyped' /\ NewsComes' /\ ~waiting'[s][n]
           /\ \A x \in Ids, m \in Slots : waiting'[x][m] => waiting[x][m]
<1>1. /\ waiting' = [waiting EXCEPT ![s][n] = FALSE] /\ hub' = hub
      /\ events' = IF waiting[s][n] THEN Append(events, Clear(s)) ELSE events
  BY DEF ClearActivity, Clear
<1>2. /\ waiting \in [Ids -> [Slots -> BOOLEAN]] /\ events \in Seq(Event) /\ hub \subseteq Ids
      /\ Clear(s) \in Event
  BY DEF ActivityTyped, Clear, Event
<1>3. ActivityTyped'
  BY <1>1, <1>2, AddedEvent DEF ActivityTyped
<1>4. ~waiting'[s][n] /\ \A x \in Ids, m \in Slots : waiting'[x][m] => waiting[x][m]
  BY <1>1, <1>2
<1>5. CASE ~waiting[s][n]
  <2>1. \A x \in Ids : Waits(x) => Waits(x)'
    BY <1>1, <1>2, <1>5 DEF Waits
  <2> QED
    BY <1>1, <1>3, <1>4, <1>5, <2>1 DEF NewsComes
<1>6. CASE waiting[s][n]
  <2>1. events' = Append(events, Clear(s))
    BY <1>1, <1>6
  <2>2. WillGo(events', hub', s)
    BY <1>2, <2>1, AddedClear
  <2>3. ASSUME NEW x \in Ids, x # s
        PROVE  Waits(x)' \/ WillGo(events', hub', x)
    <3>1. Waits(x) => Waits(x)'
      BY <1>1, <1>2, <2>3 DEF Waits
    <3>2. Clear(s) # Update(x)
      BY DEF Clear, Update
    <3>3. WillGo(events, hub, x) => WillGo(events', hub', x)
      BY <1>1, <1>2, <2>1, <3>2, AddedUpdate
    <3> QED
      BY <3>1, <3>3 DEF NewsComes
  <2> QED
    BY <1>3, <1>4, <2>2, <2>3 DEF NewsComes
<1> QED
  BY <1>5, <1>6

LEMMA ForwardKeeps ==
    ASSUME ActivityInv, Forward
    PROVE  ActivityInv'
<1>1. /\ events # <<>> /\ events' = Tail(events) /\ UNCHANGED <<daemon, waiting>>
      /\ hub' = IF Head(events).kind = "update" THEN hub \cup {Head(events).id}
                ELSE hub \ {Head(events).id}
  BY DEF Forward
<1>2. events \in Seq(Event) /\ hub \in SUBSET Ids
  BY DEF ActivityInv, ActivityTyped
<1>3. ActivityTyped'
  <2>1. Head(events) \in Event /\ Tail(events) \in Seq(Event)
    BY <1>1, <1>2
  <2> QED
    BY <1>1, <1>2, <2>1 DEF ActivityInv, ActivityTyped, Event
<1>4. WaitsWhileAlive'
  BY <1>1 DEF ActivityInv, WaitsWhileAlive
<1>5. \A s \in Ids : WillGo(events, hub, s) => WillGo(events', hub', s)
  BY <1>1, <1>2, TakenEvent
<1>6. \A s \in Ids : Waits(s) => Waits(s)'
  BY <1>1 DEF Waits
<1> QED
  BY <1>3, <1>4, <1>5, <1>6 DEF ActivityInv, NewsComes

LEMMA ExpiresKeeps ==
    ASSUME ActivityInv, NEW s \in Ids, Expires(s)
    PROVE  ActivityInv'
BY DEF Expires, ActivityInv, ActivityTyped, WaitsWhileAlive, NewsComes, Waits, WillGo

-----------------------------------------------------------------------------
(* The daemon *)

\* No operation forgets a child whose wait thread has not recorded its exit.
KeepsAlive(d, e) ==
    \A s \in Ids, n \in Slots : d.child[s][n] \in Alive => e.child[s][n] \in Alive

LEMMA PersistAlive ==
    ASSUME NEW d, NEW f, IsDaemon(d)
    PROVE  PersistCurrentSessions(d, f).daemon.child = d.child
BY DEF PersistCurrentSessions, Refused, Done, IsDaemon

LEMMA ForgetAlive ==
    ASSUME NEW d, NEW S, IsDaemon(d)
    PROVE  KeepsAlive(d, Forget(d, S))
BY DEF KeepsAlive, Forget, Alive, IsDaemon

LEMMA HangUpAlive ==
    ASSUME NEW d, NEW s \in DOMAIN d.live, Good(d)
    PROVE  KeepsAlive(d, HangUp(d, s)) /\ IsDaemon(HangUp(d, s))
<1>1. Good(HangUp(d, s))
  BY HangUpGood
<1>2. d.child \in [Ids -> [Slots -> Phase]] /\ IsDaemon(d)
  BY DEF Good, IsDaemon
<1>3. HangUp(d, s).child =
        [d.child EXCEPT ![s][d.live[s]] = IF @ = "running" THEN "hungup" ELSE @]
  BY <1>2 DEF HangUp, IsDaemon
<1> QED
  BY <1>1, <1>2, <1>3 DEF KeepsAlive, Alive, Good

LEMMA KillAlive ==
    ASSUME NEW d, NEW s, NEW f, Good(d)
    PROVE  KeepsAlive(d, Kill(d, s, f).daemon)
<1>1. IsDaemon(d) /\ KeepsAlive(d, d)
  BY DEF Good, KeepsAlive
<1>2. CASE s \in DOMAIN d.live
  <2> DEFINE h == HangUp(d, s)
             g == Forget(h, {s})
  <2>1. KeepsAlive(d, h) /\ IsDaemon(h)
    BY <1>2, HangUpAlive
  <2> HIDE DEF h
  <2>2. KeepsAlive(h, g)
    BY <2>1, ForgetAlive
  <2>3. PersistCurrentSessions(g, f).daemon.child = g.child
    BY DEF PersistCurrentSessions, Refused, Done, g, Forget
  <2>4. Kill(d, s, f).daemon \in {d, PersistCurrentSessions(g, f).daemon}
    BY <1>2 DEF Kill, Refused, h
  <2> QED
    BY <1>1, <2>1, <2>2, <2>3, <2>4 DEF KeepsAlive
<1>3. CASE s \notin DOMAIN d.live
  BY <1>1, <1>3 DEF Kill, Refused
<1> QED
  BY <1>2, <1>3

LEMMA TerminateAlive ==
    ASSUME NEW d, NEW s, NEW f, Good(d)
    PROVE  KeepsAlive(d, Terminate(d, s, f).daemon)
<1>1. IsDaemon(d) /\ KeepsAlive(d, d)
  BY DEF Good, KeepsAlive
<1>2. CASE s \in DOMAIN d.live
  <2> DEFINE h == HangUp(d, s)
  <2>1. KeepsAlive(d, h) /\ IsDaemon(h)
    BY <1>2, HangUpAlive
  <2> HIDE DEF h
  <2>2. PersistCurrentSessions(h, f).daemon.child = h.child
    BY <2>1, PersistAlive
  <2>3. Terminate(d, s, f).daemon \in {d, PersistCurrentSessions(h, f).daemon}
    BY <1>2 DEF Terminate, Refused, h
  <2> QED
    BY <1>1, <2>1, <2>2, <2>3 DEF KeepsAlive
<1>3. CASE s \notin DOMAIN d.live
  BY <1>1, <1>3 DEF Terminate, Refused
<1> QED
  BY <1>2, <1>3

LEMMA CreateAlive ==
    ASSUME NEW d, NEW s \in Ids, NEW f, Good(d), CanSpawn(d, s)
    PROVE  KeepsAlive(d, CreateOrAttach(d, s, f).daemon)
<1>1. IsDaemon(d) /\ KeepsAlive(d, d)
  BY DEF Good, KeepsAlive
<1>2. CASE s \in DOMAIN d.live \/ f = "spawn"
  BY <1>1, <1>2 DEF CreateOrAttach, Done, Refused
<1>3. CASE s \notin DOMAIN d.live /\ f # "spawn"
  <2> DEFINE e == Spawn(d, s)
  <2>1. FreeSlots(d, s) # {}
    BY <1>3 DEF CanSpawn
  <2>2. Good(e)
    BY <1>3, <2>1, SpawnGood
  <2>3. PICK n \in FreeSlots(d, s) : e.child = [d.child EXCEPT ![s][n] = "running"]
    BY <2>1 DEF Spawn
  <2>4. d.child \in [Ids -> [Slots -> Phase]]
    BY <1>1 DEF IsDaemon
  <2> HIDE DEF e
  <2>5. KeepsAlive(d, e)
    BY <2>3, <2>4 DEF KeepsAlive, Alive, FreeSlots
  <2>6. PersistCurrentSessions(e, f).daemon.child = e.child
    BY <2>2, PersistAlive DEF Good
  <2>7. CreateOrAttach(d, s, f).daemon = PersistCurrentSessions(e, f).daemon
    BY <1>3 DEF CreateOrAttach, e
  <2> QED
    BY <2>5, <2>6, <2>7 DEF KeepsAlive
<1> QED
  BY <1>2, <1>3

LEMMA ReapAlive ==
    ASSUME NEW d, NEW f, Good(d)
    PROVE  KeepsAlive(d, ReapExitedSessions(d, f))
<1>1. IsDaemon(d) /\ KeepsAlive(d, d)
  BY DEF Good, KeepsAlive
<1> DEFINE g == Forget(d, Exited(d))
<1>2. KeepsAlive(d, g)
  BY <1>1, ForgetAlive
<1>3. PersistCurrentSessions(g, f).daemon.child = g.child
  BY DEF PersistCurrentSessions, Refused, Done, g, Forget
<1>4. ReapExitedSessions(d, f) \in {d, PersistCurrentSessions(g, f).daemon}
  BY DEF ReapExitedSessions
<1> QED
  BY <1>1, <1>2, <1>3, <1>4 DEF KeepsAlive

LEMMA RequestsAlive ==
    ASSUME Good(daemon), DaemonRequests
    PROVE  KeepsAlive(daemon, daemon')
<1>0. IsDaemon(daemon)
  BY DEF Good
<1>1. CASE \E f \in Fault : Detach(f) \/ Reap(f)
  BY <1>0, <1>1, PersistAlive, ReapAlive DEF Detach, Reap, KeepsAlive
<1>2. CASE \E s \in Ids, f \in Fault : Create(s, f) \/ Signal(s, f) \/ KillTerminal(s, f)
  BY <1>2, CreateAlive, TerminateAlive, KillAlive DEF Create, Signal, KillTerminal
<1>3. CASE \E s \in Ids : Subscribe(s) \/ Unsubscribe(s)
  <2>1. daemon'.child = daemon.child
    BY <1>0, <1>3 DEF Subscribe, Unsubscribe, IsDaemon
  <2> QED
    BY <2>1 DEF KeepsAlive
<1> QED
  BY <1>1, <1>2, <1>3 DEF DaemonRequests

-----------------------------------------------------------------------------
(* The theorems *)

LEMMA WriteKeeps ==
    ASSUME ActivityInv, Good(daemon), NEW s \in Ids, NEW f \in Fault, Write(s, f)
    PROVE  ActivityInv'
<1>1. /\ s \in DOMAIN daemon.live /\ ClearActivity(s, daemon.live[s])
      /\ daemon' = PersistCurrentSessions(daemon, f).daemon
  BY DEF Write, Touch
<1>2. daemon.live[s] \in Slots /\ IsDaemon(daemon)
  BY <1>1 DEF Good, IsDaemon
<1>3. daemon'.child = daemon.child
  BY <1>1, <1>2, PersistAlive
<1>4. /\ ActivityTyped' /\ NewsComes'
      /\ \A x \in Ids, m \in Slots : waiting'[x][m] => waiting[x][m]
  BY <1>1, <1>2, ClearKeeps DEF ActivityInv
<1> QED
  BY <1>3, <1>4 DEF ActivityInv, WaitsWhileAlive

LEMMA ExitKeeps ==
    ASSUME ActivityInv, Good(daemon), NEW s \in Ids, NEW n \in Slots, ExitRecorded(s, n)
    PROVE  ActivityInv'
<1>1. WaitThread(s, n) /\ ClearActivity(s, n)
  BY DEF ExitRecorded
<1>2. /\ ActivityTyped' /\ NewsComes' /\ ~waiting'[s][n]
      /\ \A x \in Ids, m \in Slots : waiting'[x][m] => waiting[x][m]
  BY <1>1, ClearKeeps DEF ActivityInv
<1>3. \A x \in Ids, m \in Slots :
         x # s \/ m # n => daemon'.child[x][m] = daemon.child[x][m]
  BY <1>1 DEF WaitThread, Good, IsDaemon
<1> QED
  BY <1>2, <1>3 DEF ActivityInv, WaitsWhileAlive

LEMMA QuietStepKeeps ==
    ASSUME ActivityInv, KeepsAlive(daemon, daemon'), UNCHANGED activity
    PROVE  ActivityInv'
BY DEF activity, ActivityInv, ActivityTyped, WaitsWhileAlive, KeepsAlive, NewsComes, Waits

LEMMA ActivityStep ==
    ActivityInv /\ DaemonInv /\ [ActivityNext]_all => ActivityInv'
<1> SUFFICES ASSUME ActivityInv, Good(daemon), [ActivityNext]_all PROVE ActivityInv'
  BY DEF DaemonInv
<1>1. CASE DaemonRequests /\ UNCHANGED activity
  BY <1>1, RequestsAlive, QuietStepKeeps
<1>2. CASE \E s \in Ids, n \in Slots : ChildExits(s, n) /\ UNCHANGED activity
  <2>1. KeepsAlive(daemon, daemon')
    BY <1>2 DEF ChildExits, KeepsAlive, Alive, Good, IsDaemon
  <2> QED
    BY <1>2, <2>1, QuietStepKeeps
<1>3. CASE \E s \in Ids, n \in Slots : ExitRecorded(s, n)
  BY <1>3, ExitKeeps
<1>4. CASE \E s \in Ids, n \in Slots : NoteWaiting(s, n)
  BY <1>4, NoteKeeps
<1>5. CASE \E s \in Ids, f \in Fault : Write(s, f)
  BY <1>5, WriteKeeps
<1>6. CASE Forward \/ \E s \in Ids : Expires(s)
  BY <1>6, ForwardKeeps, ExpiresKeeps
<1>7. CASE waiting' = Silent /\ events' = <<>> /\ hub' = {}
  BY <1>7 DEF Silent, ActivityInv, ActivityTyped, WaitsWhileAlive, NewsComes, WillGo
<1>8. CASE UNCHANGED all
  BY <1>8 DEF all, ActivityInv, ActivityTyped, WaitsWhileAlive, NewsComes, Waits
<1> QED
  BY <1>1, <1>2, <1>3, <1>4, <1>5, <1>6, <1>7, <1>8 DEF ActivityNext

LEMMA ActivityInvariant == ActivitySpec => []ActivityInv
<1>1. ActivityInit => ActivityInv
  BY DEF ActivityInit, Silent, ActivityInv, ActivityTyped, WaitsWhileAlive, NewsComes, WillGo
<1> QED
  BY <1>1, ActivityStep, ActivityKeepsDaemonInv, PTL DEF ActivitySpec

\* The activity has its type, and no incarnation waits once its exit is recorded.
THEOREM ActivityTypeCorrect == ActivitySpec => []ActivityTypeOK
<1>1. ActivityInv => ActivityTypeOK
  BY DEF ActivityInv, ActivityTyped, WaitsWhileAlive, Alive, ActivityTypeOK
<1> QED
  BY <1>1, ActivityInvariant, PTL

\* Whatever rings, ends, is killed and is created again in between, an agent
\* session is shown only while its terminal waits or the news that it does not
\* are on their way.
THEOREM GhostsAreCleared == ActivitySpec => []NoGhostWaiting
<1>1. ActivityInv => NoGhostWaiting
  BY DEF ActivityInv, ActivityTyped, NewsComes, WillGo, ClearedAfter, Clear, NoGhostWaiting
<1> QED
  BY <1>1, ActivityInvariant, PTL

-----------------------------------------------------------------------------
(* The managed processes *)

\* The table of processes and a world are well-typed.
ProcsOK(pr) == DOMAIN pr \subseteq Procs /\ pr \in [DOMAIN pr -> Process]

WorldOK(w) == Good(w.daemon) /\ ProcsOK(w.procs)

-----------------------------------------------------------------------------
(* The table of processes *)

LEMMA DefinitionType ==
    ASSUME NEW ds \in Definitions
    PROVE  DOMAIN ds \subseteq Procs /\ ds \in [DOMAIN ds -> BOOLEAN]
BY ManagerAssumption

LEMMA PutType ==
    ASSUME NEW pr, ProcsOK(pr), NEW p \in Procs, NEW proc \in Process
    PROVE  ProcsOK(Put(pr, p, proc))
BY DEF ProcsOK, Put

LEMMA TrackedType ==
    ASSUME NEW pr, ProcsOK(pr), NEW p, NEW auto \in BOOLEAN
    PROVE  Tracked(pr, p, auto) \in Process
BY ManagerAssumption DEF Tracked, FromDefinition, ProcsOK, Process, Status

LEMMA StoppedType ==
    ASSUME NEW proc \in Process
    PROVE  Stopped(proc) \in Process /\ Stopped(proc).status = "stopped"
BY ManagerAssumption DEF Stopped, FromDefinition, Process, Status

LEMMA SyncType ==
    ASSUME NEW pr, ProcsOK(pr), NEW ds \in Definitions
    PROVE  ProcsOK(SyncDefinitions(pr, ds))
<1> DEFINE new == SyncDefinitions(pr, ds)
<1>1. DOMAIN new \subseteq DOMAIN pr
  BY DEF SyncDefinitions
<1>2. ASSUME NEW p \in DOMAIN new PROVE new[p] \in Process
  <2>1. pr[p] \in Process
    BY <1>1, <1>2 DEF ProcsOK
  <2>2. CASE p \in DOMAIN ds
    <3>1. new[p] = [pr[p] EXCEPT !.auto = ds[p]]
      BY <1>2, <2>2 DEF SyncDefinitions
    <3> QED
      BY <2>1, <2>2, <3>1, DefinitionType DEF Process
  <2>3. CASE p \notin DOMAIN ds
    <3>1. new[p] = [pr[p] EXCEPT !.auto = FALSE,
                       !.status = IF @ = "restarting" THEN "crashed" ELSE @]
      BY <1>2, <2>3 DEF SyncDefinitions
    <3> QED
      BY <2>1, <3>1 DEF Process, Status
  <2> QED
    BY <2>2, <2>3
<1> QED
  BY <1>1, <1>2 DEF ProcsOK, SyncDefinitions

\* The backoff doubles up to its maximum, and a delay is never longer.
LEMMA BackoffType ==
    ASSUME NEW proc \in Process, NEW p, NEW healthy
    PROVE  /\ Delay(proc, p \in healthy) \in 1..MaxBackoff
           /\ AfterCrash(proc, p \in healthy) \in Process
<1>1. proc.backoff \in 1..MaxBackoff /\ MaxBackoff \in Nat \ {0}
  BY ManagerAssumption DEF Process
<1>2. Delay(proc, p \in healthy) \in 1..MaxBackoff
  BY <1>1 DEF Delay
<1>3. NextBackoff(Delay(proc, p \in healthy)) \in 1..MaxBackoff
  BY <1>1, <1>2 DEF NextBackoff
<1> QED
  BY <1>2, <1>3 DEF AfterCrash, Process, Status

-----------------------------------------------------------------------------
(* The operations keep a world well-typed *)

LEMMA ClearOK ==
    ASSUME NEW w, WorldOK(w), NEW p, NEW f
    PROVE  Good(ClearStaleSession(w, p, f).daemon)
BY KillGood DEF ClearStaleSession, WorldOK, Done, Refused

LEMMA StopOK ==
    ASSUME NEW w, WorldOK(w), NEW p, NEW f
    PROVE  WorldOK(StopProcessById(w, p, f).daemon)
<1> DEFINE killed == Kill(w.daemon, p, f)
           stopped == Put(w.procs, p, Stopped(w.procs[p]))
<1>1. CASE p \notin DOMAIN w.procs
  BY <1>1 DEF StopProcessById, Done
<1>2. CASE p \in DOMAIN w.procs
  <2>1. ProcsOK(stopped)
    BY <1>2, PutType, StoppedType DEF WorldOK, ProcsOK
  <2>2. Good(killed.daemon)
    BY KillGood DEF WorldOK
  <2> QED
    BY <1>2, <2>1, <2>2 DEF StopProcessById, Done, Refused, WorldOK
<1> QED
  BY <1>1, <1>2

\* A process that was stopped names no session, so there is none to clear.
LEMMA StopClears ==
    ASSUME NEW w, NEW p, NEW f, NEW g, StopProcessById(w, p, f).ok
    PROVE  ClearStaleSession(StopProcessById(w, p, f).daemon, p, g) =
               Done(StopProcessById(w, p, f).daemon.daemon)
<1> DEFINE v == StopProcessById(w, p, f).daemon
<1>1. CASE p \notin DOMAIN w.procs
  BY <1>1 DEF StopProcessById, ClearStaleSession, Done
<1>2. CASE p \in DOMAIN w.procs
  <2>1. v.procs = Put(w.procs, p, Stopped(w.procs[p]))
    BY <1>2 DEF StopProcessById, Done, Refused
  <2>2. ~v.procs[p].session
    BY <2>1 DEF Put, Stopped, FromDefinition
  <2> QED
    BY <2>2 DEF ClearStaleSession
<1> QED
  BY <1>1, <1>2

LEMMA StartOK ==
    ASSUME NEW w, WorldOK(w), NEW p \in Procs, NEW auto \in BOOLEAN,
           NEW manual \in BOOLEAN, NEW fc, NEW fs,
           CanSpawn(ClearStaleSession(w, p, fc).daemon, p)
    PROVE  WorldOK(StartDefinition(w, p, auto, manual, fc, fs))
<1> DEFINE cleared == ClearStaleSession(w, p, fc)
           created == CreateOrAttach(cleared.daemon, p, fs)
           tracked == Tracked(w.procs, p, auto)
           started == [status |-> "running", session |-> TRUE,
                       auto |-> tracked.auto,
                       backoff |-> IF manual THEN 1 ELSE tracked.backoff]
           unset == [tracked EXCEPT !.status = "crashed"]
           failed == [tracked EXCEPT !.status = "crashed", !.session = FALSE]
<1>1. tracked \in Process
  BY TrackedType DEF WorldOK
<1>2. started \in Process /\ unset \in Process /\ failed \in Process
  <2>1. started \in Process
    BY <1>1, ManagerAssumption DEF Process, Status
  <2>2. unset \in Process /\ failed \in Process
    BY <1>1 DEF Process, Status
  <2> QED
    BY <2>1, <2>2
<1>3. Good(cleared.daemon)
  BY ClearOK
<1>4. Good(created.daemon)
  BY <1>3, CreateGood, ManagerAssumption
<1> HIDE DEF cleared, created, tracked, started, unset, failed
<1>5. \A proc \in Process : ProcsOK(Put(w.procs, p, proc))
  BY PutType DEF WorldOK
<1>6. StartDefinition(w, p, auto, manual, fc, fs) \in
         {w, [procs |-> Put(w.procs, p, unset), daemon |-> cleared.daemon],
          [procs |-> Put(w.procs, p, started), daemon |-> created.daemon],
          [procs |-> Put(w.procs, p, failed), daemon |-> created.daemon]}
  BY DEF StartDefinition, cleared, created, tracked, started, unset, failed
<1> QED
  BY <1>2, <1>3, <1>4, <1>5, <1>6 DEF WorldOK

LEMMA CheckOK ==
    ASSUME NEW w, WorldOK(w), NEW healthy \in SUBSET Procs
    PROVE  /\ ProcsOK(CheckAndUpdate(w, healthy))
           /\ RestartSchedule(w, healthy) \subseteq [proc : Procs, delay : 1..MaxBackoff]
<1>1. \A p \in DOMAIN w.procs : p \in Procs /\ w.procs[p] \in Process
  BY DEF WorldOK, ProcsOK
<1>2. \A p \in DOMAIN w.procs :
         /\ AfterCrash(w.procs[p], p \in healthy) \in Process
         /\ Delay(w.procs[p], p \in healthy) \in 1..MaxBackoff
  <2> TAKE p \in DOMAIN w.procs
  <2> DEFINE proc == w.procs[p]
  <2>1. proc \in Process
    BY <1>1
  <2> HIDE DEF proc
  <2>2. AfterCrash(proc, p \in healthy) \in Process
    BY <2>1, BackoffType
  <2>3. Delay(proc, p \in healthy) \in 1..MaxBackoff
    BY <2>1, BackoffType
  <2> QED
    BY <2>2, <2>3 DEF proc
<1>3. ProcsOK(CheckAndUpdate(w, healthy))
  BY <1>1, <1>2 DEF CheckAndUpdate, ProcsOK
<1>4. RestartSchedule(w, healthy) \subseteq [proc : Procs, delay : 1..MaxBackoff]
  BY <1>1, <1>2 DEF RestartSchedule, Crashed
<1> QED
  BY <1>3, <1>4

-----------------------------------------------------------------------------
(* The invariant *)

RequestsOK == DOMAIN request \subseteq Requests
              /\ request \in [DOMAIN request -> Definitions]

LockedOK ==
    \/ locked = NoLoop
    \/ /\ locked.op \in {"start", "stop"} /\ locked.todo \subseteq Procs
       /\ locked.defs \in Definitions \cup {EmptyMap}
       /\ locked.op = "start" => locked.todo \subseteq DOMAIN locked.defs

TimersOK ==
    /\ defs \in Definitions
    /\ schedule \subseteq [proc : Procs, delay : 1..MaxBackoff]
    /\ timers \in [Procs -> 0..MaxTimers]
    /\ ticks \in 0..(ReapEvery - 1)

ManagerInv == WorldOK(World) /\ RequestsOK /\ LockedOK /\ TimersOK

LEMMA BecomeOK ==
    ASSUME NEW w, WorldOK(w), Become(w)
    PROVE  WorldOK(World)'
BY DEF WorldOK, Become, World, ProcsOK, Good, IsDaemon, NoLostIn

LEMMA SyncedOK ==
    ASSUME ManagerInv, NEW r \in DOMAIN request
    PROVE  /\ request[r] \in Definitions /\ WorldOK(Synced(r))
           /\ \A p \in DOMAIN request[r] : p \in Procs /\ request[r][p] \in BOOLEAN
<1>1. request[r] \in Definitions
  BY DEF ManagerInv, RequestsOK
<1>2. WorldOK(Synced(r))
  BY <1>1, SyncType DEF ManagerInv, WorldOK, World, Synced
<1> QED
  BY <1>1, <1>2, DefinitionType

LEMMA LoopOK ==
    ASSUME NEW op \in {"start", "stop"}, NEW todo \in SUBSET Procs,
           NEW ds \in Definitions \cup {EmptyMap},
           op = "start" => todo \subseteq DOMAIN ds, Loop(op, todo, ds)
    PROVE  LockedOK'
BY DEF LockedOK, Loop, NoLoop

\* The handlers: each ends in a well-typed world.
LEMMA HandlerOK ==
    ASSUME ManagerInv, NEW r \in Requests, Handler(r)
    PROVE  ManagerInv'
<1> USE DEF ManagerInv
<1>1. CASE Discover(r)
  BY <1>1 DEF Discover, RequestsOK, LockedOK, TimersOK, Put, World, WorldOK, Good,
              IsDaemon, NoLostIn, ProcsOK
<1>2. ASSUME Takes(r)
      PROVE  r \in DOMAIN request /\ RequestsOK' /\ TimersOK'
  BY <1>2 DEF Takes, RequestsOK, TimersOK, Drop, Restrict
<1>3. ASSUME Handled(r), NEW w, WorldOK(w), Become(w)
      PROVE  ManagerInv'
  BY <1>2, <1>3, BecomeOK DEF Handled, LockedOK
<1>4. CASE ListProcesses(r)
  BY <1>2, <1>3, <1>4, SyncedOK DEF ListProcesses, Handled
<1>5. ASSUME NEW p \in Procs, NEW f \in Fault, StopProcess(r, p, f)
      PROVE  ManagerInv'
  BY <1>2, <1>3, <1>5, SyncedOK, StopOK DEF StopProcess, Handled
<1>6. ASSUME NEW p \in Procs, NEW fc \in Fault, NEW fs \in Fault,
             StartProcess(r, p, fc, fs)
      PROVE  ManagerInv'
  <2>1. WorldOK(Synced(r)) /\ request[r][p] \in BOOLEAN /\ Handled(r)
    BY <1>2, <1>6, SyncedOK DEF StartProcess, Handled
  <2>2. WorldOK(StartDefinition(Synced(r), p, request[r][p], TRUE, fc, fs))
    BY <1>6, <2>1, StartOK DEF StartProcess
  <2> QED
    BY <1>3, <1>6, <2>1, <2>2 DEF StartProcess
<1>7. ASSUME NEW p \in Procs, NEW f \in Fault, NEW fs \in Fault,
             RestartProcess(r, p, f, fs)
      PROVE  ManagerInv'
  <2> DEFINE w == StopProcessById(Synced(r), p, f).daemon
  <2>1. WorldOK(w) /\ Handled(r)
    BY <1>2, <1>7, SyncedOK, StopOK DEF RestartProcess, Handled
  <2>2. CASE Become(w)
    BY <1>3, <2>1, <2>2
  <2>3. CASE /\ p \in DOMAIN request[r] /\ CanSpawn(w.daemon, p)
             /\ Become(StartDefinition(w, p, request[r][p], TRUE, "none", fs))
             /\ StopProcessById(Synced(r), p, f).ok
    <3>1. request[r][p] \in BOOLEAN
      BY <1>2, <2>1, <2>3, SyncedOK DEF Handled
    <3>2. CanSpawn(ClearStaleSession(w, p, "none").daemon, p)
      <4>1. ClearStaleSession(w, p, "none") = Done(w.daemon)
        BY <2>3, StopClears
      <4> QED
        BY <2>3, <4>1 DEF Done
    <3>3. WorldOK(StartDefinition(w, p, request[r][p], TRUE, "none", fs))
      BY <2>1, <3>1, <3>2, StartOK
    <3> QED
      BY <1>3, <2>1, <2>3, <3>3
  <2> QED
    BY <1>7, <2>2, <2>3 DEF RestartProcess
<1>8. CASE StartAll(r)
  <2> DEFINE todo == AutoStart \cap DOMAIN request[r]
  <2>1. /\ todo \in SUBSET Procs /\ request[r] \in Definitions
        /\ WorldOK(Synced(r))
    BY <1>2, <1>8, SyncedOK DEF StartAll
  <2> QED
    BY <1>2, <1>8, <2>1, BecomeOK, LoopOK DEF StartAll
<1>9. CASE StopAll(r)
  <2> DEFINE todo == DOMAIN Synced(r).procs
  <2>1. todo \in SUBSET Procs /\ WorldOK(Synced(r))
    BY <1>2, <1>9, SyncedOK DEF StopAll, WorldOK, ProcsOK
  <2> QED
    BY <1>2, <1>9, <2>1, BecomeOK, LoopOK DEF StopAll
<1> QED
  BY <1>1, <1>4, <1>5, <1>6, <1>7, <1>8, <1>9 DEF Handler

LEMMA LoopStepOK ==
    ASSUME ManagerInv, NEW p \in Procs, NEW f \in Fault, NEW fs \in Fault,
           LoopStep(p, f, fs)
    PROVE  ManagerInv'
<1> USE DEF ManagerInv
<1>1. /\ locked.op \in {"start", "stop"} /\ locked.todo \subseteq Procs
      /\ locked.defs \in Definitions \cup {EmptyMap}
      /\ locked.op = "start" => locked.todo \subseteq DOMAIN locked.defs
      /\ p \in locked.todo
  BY DEF LoopStep, LockedOK, NoLoop
<1>2. LockedOK'
  BY <1>1, LoopOK DEF LoopStep
<1>3. RequestsOK' /\ TimersOK'
  BY DEF LoopStep, RequestsOK, TimersOK
<1>4. CASE /\ locked.op = "start"
           /\ CanSpawn(ClearStaleSession(World, p, f).daemon, p)
           /\ Become(StartDefinition(World, p, locked.defs[p], TRUE, f, fs))
  <2>1. locked.defs[p] \in BOOLEAN
    BY <1>1, <1>4, DefinitionType DEF EmptyMap
  <2>2. WorldOK(StartDefinition(World, p, locked.defs[p], TRUE, f, fs))
    BY <1>4, <2>1, StartOK
  <2> QED
    BY <1>2, <1>3, <1>4, <2>2, BecomeOK
<1>5. CASE Become(StopProcessById(World, p, f).daemon)
  BY <1>2, <1>3, <1>5, StopOK, BecomeOK
<1> QED
  BY <1>4, <1>5 DEF LoopStep

LEMMA MonitorOK ==
    ASSUME ManagerInv, NEW f \in Fault, NEW healthy \in SUBSET Procs,
           MonitorTick(f, healthy)
    PROVE  ManagerInv'
<1> USE DEF ManagerInv
<1> DEFINE reaps == ticks + 1 >= ReapEvery
           w == [World EXCEPT !.daemon =
                    IF reaps THEN ReapExitedSessions(@, f) ELSE @]
<1>1. WorldOK(w) /\ w.procs = procs
  BY ReapGood DEF WorldOK, World
<1>2. RequestsOK' /\ LockedOK'
  BY DEF MonitorTick, RequestsOK, LockedOK
<1>3. ticks' \in 0..(ReapEvery - 1)
  BY ManagerAssumption DEF MonitorTick, TimersOK
<1> HIDE DEF w
<1>4. daemon' = w.daemon /\ UNCHANGED <<defs, timers>>
      /\ IF f = "list" THEN UNCHANGED <<procs, schedule>>
         ELSE /\ procs' = CheckAndUpdate(w, healthy)
              /\ schedule' = RestartSchedule(w, healthy)
  BY DEF MonitorTick, w
<1>5. ProcsOK(procs') /\ schedule' \subseteq [proc : Procs, delay : 1..MaxBackoff]
  BY <1>1, <1>4, CheckOK DEF WorldOK, TimersOK
<1>6. WorldOK(World)'
  BY <1>1, <1>4, <1>5 DEF WorldOK, World, ProcsOK, Good, IsDaemon, NoLostIn
<1> QED
  BY <1>2, <1>3, <1>4, <1>5, <1>6 DEF TimersOK

LEMMA TaskOK ==
    ASSUME ManagerInv, NEW p \in Procs, NEW fc \in Fault, NEW fs \in Fault,
           RestartTask(p, fc, fs)
    PROVE  ManagerInv'
<1> USE DEF ManagerInv
<1>1. RequestsOK' /\ LockedOK'
  BY DEF RestartTask, RequestsOK, LockedOK
<1>2. TimersOK'
  BY ManagerAssumption DEF RestartTask, TimersOK
<1>3. CASE /\ p \in DOMAIN procs
           /\ CanSpawn(ClearStaleSession(World, p, fc).daemon, p)
           /\ Become(StartDefinition(World, p, procs[p].auto, FALSE, fc, fs))
  <2>1. procs[p].auto \in BOOLEAN
    BY <1>3 DEF WorldOK, World, ProcsOK, Process
  <2> QED
    BY <1>1, <1>2, <1>3, <2>1, StartOK, BecomeOK
<1>4. CASE UNCHANGED <<daemon, procs>>
  BY <1>1, <1>2, <1>4 DEF WorldOK, World, ProcsOK, Good, IsDaemon, NoLostIn
<1> QED
  BY <1>3, <1>4 DEF RestartTask, RestartTrackedProcess

LEMMA SurroundingsOK ==
    ASSUME ManagerInv,
           \/ SpawnRestarts \/ ChildStep \/ ClientStep \/ RestartProgram
           \/ \E ds \in Definitions : EditDefinitions(ds)
           \/ UNCHANGED vars
    PROVE  ManagerInv'
<1> USE DEF ManagerInv
<1>1. ASSUME DaemonInv', UNCHANGED <<procs, defs, request, locked, schedule, ticks>>,
             timers' \in [Procs -> 0..MaxTimers]
      PROVE  ManagerInv'
  BY <1>1 DEF DaemonInv, WorldOK, World, ProcsOK, RequestsOK, LockedOK, TimersOK
<1>2. ASSUME [Next]_daemon PROVE DaemonInv'
  BY <1>2, StepGood DEF DaemonInv, WorldOK, World
<1>3. CASE SpawnRestarts
  <2>1. timers' \in [Procs -> 0..MaxTimers]
    BY <1>3, ManagerAssumption DEF SpawnRestarts, TimersOK
  <2>2. WorldOK(World)' /\ RequestsOK' /\ LockedOK'
    BY <1>2, <1>3 DEF SpawnRestarts, DaemonInv, WorldOK, World, ProcsOK, RequestsOK,
                      LockedOK
  <2> QED
    BY <1>3, <2>1, <2>2 DEF SpawnRestarts, TimersOK
<1>4. CASE ChildStep
  BY <1>1, <1>2, <1>4 DEF ChildStep, ManagerUnchanged, Next, TimersOK
<1>5. CASE ClientStep
  <2>1. Client
    BY <1>5 DEF ClientStep, Client
  <2> QED
    BY <1>1, <1>2, <1>5, <2>1 DEF ClientStep, ManagerUnchanged, Next, TimersOK
<1>6. CASE RestartProgram
  <2>1. DaemonInv'
    BY <1>2, <1>6 DEF RestartProgram, Next
  <2>2. ProcsOK(procs') /\ RequestsOK' /\ LockedOK' /\ TimersOK'
    BY <1>6, ManagerAssumption DEF RestartProgram, ProcsOK, RequestsOK, LockedOK,
                                   TimersOK, EmptyMap
  <2> QED
    BY <2>1, <2>2 DEF DaemonInv, WorldOK, World, ProcsOK
<1>7. CASE \E ds \in Definitions : EditDefinitions(ds)
  <2>1. WorldOK(World)' /\ RequestsOK' /\ LockedOK'
    BY <1>2, <1>7 DEF EditDefinitions, DaemonInv, WorldOK, World, ProcsOK, RequestsOK,
                      LockedOK
  <2> QED
    BY <1>7, <2>1 DEF EditDefinitions, TimersOK
<1>8. CASE UNCHANGED vars
  BY <1>1, <1>2, <1>8 DEF vars, TimersOK
<1> QED
  BY <1>3, <1>4, <1>5, <1>6, <1>7, <1>8

LEMMA ManagerStep == ManagerInv /\ [ManagerNext]_vars => ManagerInv'
<1> SUFFICES ASSUME ManagerInv, [ManagerNext]_vars PROVE ManagerInv'
  OBVIOUS
<1> QED
  BY HandlerOK, LoopStepOK, MonitorOK, TaskOK, SurroundingsOK
     DEF ManagerNext, LoopSteps, Ticks, RestartTasks

\* The invariant of ManagerSpec.
THEOREM ManagerInvariant == ManagerSpec => []ManagerInv
<1>1. ManagerInit => ManagerInv
  <2> SUFFICES ASSUME ManagerInit PROVE ManagerInv
    OBVIOUS
  <2>1. DaemonInv
    <3>1. DOMAIN EmptyMap = {} /\ EmptyMap \in [{} -> State]
      BY DEF EmptyMap
    <3> QED
      BY <3>1, NewDaemonGood DEF ManagerInit, Init, DaemonInv
  <2>2. ProcsOK(procs) /\ RequestsOK /\ LockedOK /\ TimersOK
    BY ManagerAssumption DEF ManagerInit, ProcsOK, RequestsOK, LockedOK, TimersOK,
                             EmptyMap
  <2> QED
    BY <2>1, <2>2 DEF DaemonInv, ManagerInv, WorldOK, World
<1> QED
  BY <1>1, ManagerStep, PTL DEF ManagerSpec

\* ManagerTypeOK of ProcessManager: among other things, a loop that starts all
\* processes finds each of them in the definitions it has read, and no backoff
\* exceeds its maximum.
THEOREM ManagerTypeCorrect == ManagerSpec => []ManagerTypeOK
<1>1. ManagerInv => ManagerTypeOK
  BY DEF ManagerInv, ManagerTypeOK, WorldOK, World, Good, TypeOK, ProcsOK, RequestsOK,
         LockedOK, TimersOK
<1> QED
  BY <1>1, ManagerInvariant, PTL

\* NoLostChild under the process manager: whichever call of whichever compound
\* operation fails, a child that nobody has told to end can still be found.
THEOREM NoManagedChildIsLost == ManagerSpec => []NoLostChild
<1>1. ManagerInv => NoLostChild
  BY DEF ManagerInv, WorldOK, World, Good, NoLostChild
<1> QED
  BY <1>1, ManagerInvariant, PTL

-----------------------------------------------------------------------------
(* The manager uses the daemon *)

\* What an operation of the manager makes of the daemon.
Drives(d, e) ==
    \/ e = d
    \/ \E p \in Procs, f \in Fault : e = Kill(d, p, f).daemon
    \/ \E p \in Procs, f \in Fault : CanSpawn(d, p) /\ e = CreateOrAttach(d, p, f).daemon
    \/ \E p \in Procs, f, g \in Fault :
          /\ CanSpawn(Kill(d, p, f).daemon, p)
          /\ e = CreateOrAttach(Kill(d, p, f).daemon, p, g).daemon

LEMMA StopDrives ==
    ASSUME NEW w, NEW p \in Procs, NEW f \in Fault,
           w = [procs |-> w.procs, daemon |-> w.daemon]
    PROVE  StopProcessById(w, p, f).daemon.daemon \in {w.daemon, Kill(w.daemon, p, f).daemon}
<1> DEFINE killed == Kill(w.daemon, p, f)
           stopped == Put(w.procs, p, Stopped(w.procs[p]))
<1>1. StopProcessById(w, p, f).daemon \in
         {w, [w EXCEPT !.procs = stopped], [procs |-> stopped, daemon |-> killed.daemon],
          [w EXCEPT !.daemon = killed.daemon]}
  BY DEF StopProcessById, Done, Refused
<1> HIDE DEF killed, stopped
<1> QED
  BY <1>1 DEF killed

LEMMA StartDrives ==
    ASSUME NEW w, NEW p \in Procs, NEW auto, NEW manual, NEW fc \in Fault, NEW fs \in Fault,
           CanSpawn(ClearStaleSession(w, p, fc).daemon, p)
    PROVE  Drives(w.daemon, StartDefinition(w, p, auto, manual, fc, fs).daemon)
<1> DEFINE cleared == ClearStaleSession(w, p, fc)
           created == CreateOrAttach(cleared.daemon, p, fs)
           v == StartDefinition(w, p, auto, manual, fc, fs)
<1>1. cleared.daemon \in {w.daemon, Kill(w.daemon, p, fc).daemon}
  BY DEF ClearStaleSession, Done, Refused
<1>2. v.daemon \in {w.daemon, cleared.daemon, created.daemon}
  BY DEF StartDefinition
<1> HIDE DEF v
<1>3. CASE v.daemon \in {w.daemon, cleared.daemon}
  <2> HIDE DEF cleared
  <2> QED
    BY <1>1, <1>3 DEF Drives, v
<1>4. CASE v.daemon = created.daemon
  <2>1. CanSpawn(cleared.daemon, p)
    OBVIOUS
  <2> HIDE DEF cleared
  <2> QED
    BY <1>1, <1>4, <2>1 DEF Drives, v
<1> QED
  BY <1>2, <1>3, <1>4

LEMMA HandlerDrives ==
    ASSUME NEW r \in Requests, Handler(r)
    PROVE  Drives(daemon, daemon')
<1>0. Synced(r).daemon = daemon
      /\ Synced(r) = [procs |-> Synced(r).procs, daemon |-> Synced(r).daemon]
  BY DEF Synced, World
<1>1. CASE Discover(r) \/ ListProcesses(r) \/ StartAll(r) \/ StopAll(r)
  BY <1>0, <1>1 DEF Discover, ListProcesses, StartAll, StopAll, Become, Drives
<1>2. ASSUME NEW p \in Procs, NEW f \in Fault, StopProcess(r, p, f)
      PROVE  Drives(daemon, daemon')
  BY <1>0, <1>2, StopDrives DEF StopProcess, Become, Drives
<1>3. ASSUME NEW p \in Procs, NEW f \in Fault, NEW fs \in Fault, StartProcess(r, p, f, fs)
      PROVE  Drives(daemon, daemon')
  BY <1>0, <1>3, StartDrives DEF StartProcess, Become
<1>4. ASSUME NEW p \in Procs, NEW f \in Fault, NEW fs \in Fault, RestartProcess(r, p, f, fs)
      PROVE  Drives(daemon, daemon')
  <2> DEFINE stopped == StopProcessById(Synced(r), p, f)
             w == stopped.daemon
  <2>1. w.daemon \in {daemon, Kill(daemon, p, f).daemon}
    BY <1>0, StopDrives
  <2>2. CASE Become(w)
    BY <2>1, <2>2 DEF Become, Drives
  <2>3. CASE /\ stopped.ok /\ CanSpawn(w.daemon, p)
             /\ Become(StartDefinition(w, p, request[r][p], TRUE, "none", fs))
    <3> DEFINE cleared == ClearStaleSession(w, p, "none")
    <3>1. cleared = Done(w.daemon)
      BY <2>3, StopClears
    <3>2. cleared.daemon = w.daemon
      BY <3>1 DEF Done
    <3>3. StartDefinition(w, p, request[r][p], TRUE, "none", fs).daemon \in
             {w.daemon, cleared.daemon, CreateOrAttach(cleared.daemon, p, fs).daemon}
      BY DEF StartDefinition
    <3>4. daemon' \in {w.daemon, CreateOrAttach(w.daemon, p, fs).daemon}
      BY <2>3, <3>2, <3>3 DEF Become
    <3>5. CanSpawn(w.daemon, p)
      BY <2>3
    <3> HIDE DEF w, cleared
    <3> QED
      BY <2>1, <3>4, <3>5 DEF Drives
  <2> QED
    BY <1>4, <2>2, <2>3 DEF RestartProcess
<1> QED
  BY <1>1, <1>2, <1>3, <1>4 DEF Handler

LEMMA LoopDrives ==
    ASSUME NEW p \in Procs, NEW f \in Fault, NEW fs \in Fault, LoopStep(p, f, fs)
    PROVE  Drives(daemon, daemon')
<1>0. World.daemon = daemon
      /\ World = [procs |-> World.procs, daemon |-> World.daemon]
  BY DEF World
<1>1. CASE /\ CanSpawn(ClearStaleSession(World, p, f).daemon, p)
           /\ Become(StartDefinition(World, p, locked.defs[p], TRUE, f, fs))
  BY <1>0, <1>1, StartDrives DEF Become
<1>2. CASE Become(StopProcessById(World, p, f).daemon)
  BY <1>0, <1>2, StopDrives DEF Become, Drives
<1> QED
  BY <1>1, <1>2 DEF LoopStep

LEMMA TaskDrives ==
    ASSUME NEW p \in Procs, NEW fc \in Fault, NEW fs \in Fault, RestartTask(p, fc, fs)
    PROVE  Drives(daemon, daemon')
<1>0. World.daemon = daemon
  BY DEF World
<1>1. CASE UNCHANGED daemon
  BY <1>1 DEF Drives
<1>2. CASE /\ CanSpawn(ClearStaleSession(World, p, fc).daemon, p)
           /\ Become(StartDefinition(World, p, procs[p].auto, FALSE, fc, fs))
  BY <1>0, <1>2, StartDrives DEF Become
<1> QED
  BY <1>1, <1>2 DEF RestartTask, RestartTrackedProcess

LEMMA UsesStep ==
    ASSUME [ManagerNext]_vars
    PROVE  [Next \/ Replace]_daemon
<1>0. ASSUME Drives(daemon, daemon') PROVE [Next \/ Replace]_daemon
  <2>1. CASE \E p \in Procs, f \in Fault : daemon' = Kill(daemon, p, f).daemon
    BY <2>1, ManagerAssumption DEF Next, Client, KillTerminal
  <2>2. CASE \E p \in Procs, f \in Fault :
               CanSpawn(daemon, p) /\ daemon' = CreateOrAttach(daemon, p, f).daemon
    BY <2>2, ManagerAssumption DEF Next, Client, Create
  <2>3. CASE \E p \in Procs, f, g \in Fault :
               /\ CanSpawn(Kill(daemon, p, f).daemon, p)
               /\ daemon' = CreateOrAttach(Kill(daemon, p, f).daemon, p, g).daemon
    BY <2>3 DEF Replace
  <2> QED
    BY <1>0, <2>1, <2>2, <2>3 DEF Drives
<1>1. CASE \E r \in Requests : Handler(r)
  BY <1>0, <1>1, HandlerDrives
<1>2. CASE \E p \in Procs : LoopSteps(p) \/ RestartTasks(p)
  BY <1>0, <1>2, LoopDrives, TaskDrives DEF LoopSteps, RestartTasks
<1>3. CASE Ticks
  <2>1. PICK f \in Fault, healthy \in SUBSET Procs : MonitorTick(f, healthy)
    BY <1>3 DEF Ticks
  <2>2. daemon' \in {daemon, ReapExitedSessions(daemon, f)}
    BY <2>1 DEF MonitorTick, World
  <2> QED
    BY <2>2 DEF Next, Reap
<1>4. CASE ClientStep \/ ChildStep \/ RestartProgram
  BY <1>4 DEF ClientStep, ChildStep, RestartProgram, Next, Client
<1>5. CASE SpawnRestarts \/ (\E ds \in Definitions : EditDefinitions(ds)) \/ UNCHANGED vars
  BY <1>5 DEF SpawnRestarts, EditDefinitions, vars
<1> QED
  BY <1>1, <1>2, <1>3, <1>4, <1>5 DEF ManagerNext

\* UsesDaemon of ProcessManager: whichever call fails in it, a handler, a loop over all
\* processes, a tick of the monitor or a restart task does to the daemon what a
\* client could have done, or kills a session and makes it anew.
THEOREM ManagerUsesDaemon == ManagerSpec => UsesDaemon
BY UsesStep, PTL DEF ManagerSpec, ManagerInit, UsesDaemon

\* EndedMeansNoChild under the process manager, which takes for crashed what the
\* list says has ended.
THEOREM ManagedEndIsReal == ManagerSpec => []EndedMeansNoChild
<1>1. ManagerInv => EndedMeansNoChild
  BY GoodListsEnds DEF ManagerInv, WorldOK, World, DaemonInv
<1> QED
  BY <1>1, ManagerInvariant, PTL

\* LiveIsRestorable under the process manager: if the store can be written, no
\* compound operation leaves a live session that a restarted program could not find.
THEOREM ManagedStayRestorable ==
    ASSUME "save" \notin Faults
    PROVE  ManagerSpec => []LiveIsRestorable
<1>1. ManagerInit => LiveIsRestorable
  BY DEF ManagerInit, Init, NewDaemon, LiveIsRestorable
<1>2. ManagerInv /\ LiveIsRestorable /\ [ManagerNext]_vars => LiveIsRestorable'
  <2> SUFFICES ASSUME ManagerInv, LiveIsRestorable, [ManagerNext]_vars
               PROVE  LiveIsRestorable'
    OBVIOUS
  <2>1. DaemonInv /\ Good(daemon) /\ Restorable(daemon)
    BY DEF ManagerInv, WorldOK, World, DaemonInv, LiveIsRestorable, Restorable
  <2>2. CASE [Next]_daemon
    BY <2>1, <2>2, StepRestores
  <2>3. CASE Replace
    <3>1. PICK p \in Procs, f \in Fault, g \in Fault :
             /\ CanSpawn(Kill(daemon, p, f).daemon, p)
             /\ daemon' = CreateOrAttach(Kill(daemon, p, f).daemon, p, g).daemon
      BY <2>3 DEF Replace
    <3>2. Good(Kill(daemon, p, f).daemon) /\ Restorable(Kill(daemon, p, f).daemon)
      BY <2>1, KillGood, KillRestores
    <3>3. Restorable(daemon')
      BY <3>1, <3>2, CreateRestores, ManagerAssumption
    <3> QED
      BY <3>3 DEF Restorable, LiveIsRestorable
  <2> QED
    BY <2>2, <2>3, UsesStep
<1> QED
  BY <1>1, <1>2, ManagerInvariant, PTL DEF ManagerSpec

-----------------------------------------------------------------------------
(* Crashes are real *)

\* NoFalseCrash of ProcessManager: the list a tick looks at takes a live
\* session's state from the session, and whatever is not live has no child.
THEOREM CrashesAreReal == ManagerSpec => NoFalseCrash
<1> DEFINE A == \A p \in DOMAIN procs :
          procs[p].status = "running" /\ ticks' # ticks
          /\ StatusIn(procs', p) \in {"crashed", "restarting"} =>
              \A n \in Slots : daemon.child[p][n] # "running"
<1>1. ASSUME ManagerInv, NEW f \in Fault, NEW healthy \in SUBSET Procs,
             MonitorTick(f, healthy)
      PROVE  A
  <2> DEFINE reaps == ticks + 1 >= ReapEvery
             w == [World EXCEPT !.daemon =
                      IF reaps THEN ReapExitedSessions(@, f) ELSE @]
  <2>1. w.procs = procs /\ Good(w.daemon)
    BY <1>1, ReapGood DEF ManagerInv, WorldOK, World
  <2>2. \A s \in Ids, n \in Slots :
           daemon.child[s][n] = "running" => w.daemon.child[s][n] = "running"
    BY <1>1 DEF World, ReapExitedSessions, Forget, PersistCurrentSessions, Done, Refused
  <2> HIDE DEF w
  <2>3. f = "list" => procs' = procs
    BY <1>1 DEF MonitorTick
  <2>4. f # "list" => procs' = CheckAndUpdate(w, healthy)
    BY <1>1 DEF MonitorTick, w
  <2> SUFFICES ASSUME NEW p \in DOMAIN procs, procs[p].status = "running",
                      StatusIn(procs', p) \in {"crashed", "restarting"},
                      NEW n \in Slots, daemon.child[p][n] = "running"
               PROVE  FALSE
    OBVIOUS
  <2>5. p \in Crashed(w)
    BY <2>1, <2>3, <2>4 DEF StatusIn, CheckAndUpdate
  <2>6. p \in Ids
    BY <1>1, ManagerAssumption DEF ManagerInv, WorldOK, World, ProcsOK
  <2>7. p \in DOMAIN w.daemon.live /\ w.daemon.live[p] = n
        /\ w.daemon.child[p][n] = "running"
    BY <2>1, <2>2, <2>6 DEF Good, NoLostIn
  <2>8. p \in DOMAIN Merged(w.daemon) /\ Merged(w.daemon)[p] = "running"
    BY <2>7 DEF Merged, StateOf, ChildOf
  <2> QED
    BY <2>5, <2>8 DEF Crashed, HasCrashed
<1>2. ManagerInv /\ [ManagerNext]_vars => A
  <2> SUFFICES ASSUME ManagerInv, [ManagerNext]_vars, ticks' # ticks PROVE A
    OBVIOUS
  <2>1. CASE RestartProgram
    BY <2>1 DEF RestartProgram, StatusIn, EmptyMap
  <2>2. CASE Ticks
    BY <1>1, <2>2 DEF Ticks
  <2>3. \A r \in Requests : ~Handler(r)
    <3> SUFFICES ASSUME NEW r \in Requests PROVE ~Handler(r)
      OBVIOUS
    <3>1. ~Takes(r)
      BY DEF Takes
    <3> QED
      BY <3>1 DEF Handler, Discover, ListProcesses, StartProcess, StopProcess,
                  RestartProcess, StartAll, StopAll, Handled
  <2>4. \A p \in Procs : ~LoopSteps(p) /\ ~RestartTasks(p)
    BY DEF LoopSteps, LoopStep, RestartTasks, RestartTask
  <2>5. ~SpawnRestarts /\ (\A ds \in Definitions : ~EditDefinitions(ds))
        /\ ~ChildStep /\ ~ClientStep
    BY DEF SpawnRestarts, EditDefinitions, ChildStep, ClientStep, ManagerUnchanged
  <2> QED
    BY <2>1, <2>2, <2>3, <2>4, <2>5 DEF ManagerNext, vars
<1>3. ManagerInv /\ [ManagerNext]_vars => [A]_vars
  BY <1>2
<1> HIDE DEF A
<1>4. ManagerSpec => [][A]_vars
  BY <1>3, ManagerInvariant, PTL DEF ManagerSpec
<1> QED
  BY <1>4 DEF NoFalseCrash, A

-----------------------------------------------------------------------------
(* Starts are asked for *)

Starts(new, old, p) ==
    /\ DOMAIN new = DOMAIN old \cup {p}
    /\ \A q \in DOMAIN old \ {p} : new[q] = old[q]
    /\ new[p].status \in {"running", "crashed"}

\* A start leaves the other processes alone, and its own runs or has crashed.
LEMMA StartTouches ==
    ASSUME NEW w, WorldOK(w), NEW p \in Procs, NEW auto \in BOOLEAN, NEW manual,
           NEW fc, NEW fs
    PROVE  Starts(StartDefinition(w, p, auto, manual, fc, fs).procs, w.procs, p)
<1> DEFINE tracked == Tracked(w.procs, p, auto)
           v == StartDefinition(w, p, auto, manual, fc, fs)
<1>1. tracked \in Process
  BY TrackedType DEF WorldOK
<1>2. CASE StatusIn(w.procs, p) = "running"
  BY <1>2 DEF StartDefinition, StatusIn, Starts
<1>3. CASE StatusIn(w.procs, p) # "running"
  <2>1. PICK proc : /\ v.procs = Put(w.procs, p, proc)
                    /\ proc.status \in {"running", "crashed"}
    <3> DEFINE unset == [tracked EXCEPT !.status = "crashed"]
               failed == [tracked EXCEPT !.status = "crashed", !.session = FALSE]
    <3>1. unset.status = "crashed" /\ failed.status = "crashed"
      BY <1>1 DEF Process
    <3> HIDE DEF tracked
    <3> QED
      BY <1>3, <3>1 DEF StartDefinition, tracked
  <2> HIDE DEF v
  <2> QED
    BY <2>1 DEF Put, v, Starts
<1> QED
  BY <1>2, <1>3

LEMMA RequestTaken ==
    ASSUME NEW r, Takes(r) \/ Discover(r)
    PROVE  request' # request
<1>1. CASE Takes(r)
  <2>1. DOMAIN request' = DOMAIN request \ {r} /\ r \in DOMAIN request
    BY <1>1 DEF Takes, Drop, Restrict
  <2> QED
    BY <2>1
<1>2. CASE Discover(r)
  <2>1. DOMAIN request' = DOMAIN request \cup {r} /\ r \notin DOMAIN request
    BY <1>2 DEF Discover, Put
  <2> QED
    BY <2>1
<1> QED
  BY <1>1, <1>2

LEMMA LoopMoves ==
    ASSUME NEW p, NEW f, NEW fs, LoopStep(p, f, fs)
    PROVE  locked' # locked
<1>1. p \in locked.todo /\ p \notin locked'.todo
  BY DEF LoopStep, Loop, NoLoop
<1> QED
  BY <1>1

\* NoUnaskedStart of ProcessManager: the status is checked under the lock when
\* the sleep is over, and a tick starts nothing.
THEOREM StartsAreAskedFor == ManagerSpec => NoUnaskedStart
<1> DEFINE A == \A p \in Procs :
          StatusIn(procs', p) = "running" /\ StatusIn(procs, p) # "running" =>
              \/ request' # request \/ locked' # locked
              \/ /\ p \in DOMAIN procs /\ procs[p].auto
                 /\ procs[p].status = "restarting"
<1>1. ASSUME ManagerInv, NEW f \in Fault, NEW healthy \in SUBSET Procs,
             MonitorTick(f, healthy)
      PROVE  A
  <2>1. PICK w : w.procs = procs
                 /\ (procs' = procs \/ procs' = CheckAndUpdate(w, healthy))
    BY <1>1 DEF MonitorTick, World
  <2>2. \A p \in DOMAIN procs : procs[p] \in Process
    BY <1>1 DEF ManagerInv, WorldOK, World, ProcsOK
  <2>3. \A p \in DOMAIN procs :
           AfterCrash(procs[p], p \in healthy).status \in {"restarting", "crashed"}
    BY <2>2 DEF AfterCrash, Process
  <2> QED
    BY <2>1, <2>3 DEF CheckAndUpdate, StatusIn
<1>2. ASSUME ManagerInv, NEW q \in Procs, NEW fc \in Fault, NEW fs \in Fault,
             RestartTask(q, fc, fs)
      PROVE  A
  <2>1. CASE /\ q \in DOMAIN procs /\ procs[q].status = "restarting"
             /\ procs[q].auto
             /\ Become(StartDefinition(World, q, procs[q].auto, FALSE, fc, fs))
    <3>1. procs[q].auto \in BOOLEAN /\ WorldOK(World)
      BY <1>2, <2>1 DEF ManagerInv, WorldOK, World, ProcsOK, Process
    <3>2. /\ DOMAIN procs' = DOMAIN procs \cup {q}
          /\ \A p \in DOMAIN procs \ {q} : procs'[p] = procs[p]
      <4> DEFINE v == StartDefinition(World, q, procs[q].auto, FALSE, fc, fs)
      <4>1. Starts(v.procs, World.procs, q)
        BY <3>1, StartTouches
      <4>2. procs' = v.procs
        BY <2>1 DEF Become
      <4> HIDE DEF v
      <4> QED
        BY <4>1, <4>2 DEF World, Starts
    <3> QED
      BY <2>1, <3>2 DEF StatusIn
  <2>2. CASE procs' = procs
    BY <2>2
  <2> QED
    BY <1>2, <2>1, <2>2 DEF RestartTask, RestartTrackedProcess
<1>3. ManagerInv /\ [ManagerNext]_vars => A
  <2> SUFFICES ASSUME ManagerInv, [ManagerNext]_vars PROVE A
    OBVIOUS
  <2>1. ASSUME NEW r \in Requests, Handler(r) PROVE A
    BY <2>1, RequestTaken DEF Handler, ListProcesses, StartProcess, StopProcess,
                              RestartProcess, StartAll, StopAll, Handled
  <2>2. ASSUME NEW p \in Procs, LoopSteps(p) PROVE A
    BY <2>2, LoopMoves DEF LoopSteps
  <2>3. CASE procs' = procs \/ procs' = EmptyMap
    BY <2>3 DEF StatusIn, EmptyMap
  <2> QED
    BY <1>1, <1>2, <2>1, <2>2, <2>3
       DEF ManagerNext, Ticks, RestartTasks, SpawnRestarts, EditDefinitions, ChildStep,
           ClientStep, ManagerUnchanged, RestartProgram, vars
<1>4. ManagerInv /\ [ManagerNext]_vars => [A]_vars
  BY <1>3
<1> HIDE DEF A
<1>5. ManagerSpec => [][A]_vars
  BY <1>4, ManagerInvariant, PTL DEF ManagerSpec
<1> QED
  BY <1>5 DEF NoUnaskedStart, A

-----------------------------------------------------------------------------
(* Restarts are pending, of a process whose auto_restart is not switched off *)

Pending == {p \in Procs : timers[p] > 0 \/ \E s \in schedule : s.proc = p}

\* Of these, only processes of P wait for a restart, with auto_restart.
WaitIn(pr, P) ==
    \A p \in DOMAIN pr : AlwaysAuto(p) /\ pr[p].status = "restarting" =>
        p \in P /\ pr[p].auto = TRUE

WaitInv == WaitIn(procs, Pending)

LEMMA SyncWaits ==
    ASSUME NEW pr, ProcsOK(pr), NEW P, WaitIn(pr, P),
           NEW ds \in Definitions
    PROVE  WaitIn(SyncDefinitions(pr, ds), P)
<1> DEFINE new == SyncDefinitions(pr, ds)
<1> SUFFICES ASSUME NEW p \in DOMAIN new, AlwaysAuto(p), new[p].status = "restarting"
             PROVE  p \in P /\ new[p].auto = TRUE
  BY DEF WaitIn
<1>1. p \in DOMAIN pr /\ pr[p] \in Process
  BY DEF SyncDefinitions, ProcsOK
<1>2. CASE p \in DOMAIN ds
  <2>1. new[p] = [pr[p] EXCEPT !.auto = ds[p]] /\ ds[p] = TRUE
    BY <1>2 DEF SyncDefinitions, AlwaysAuto
  <2>2. new[p].status = pr[p].status /\ new[p].auto = TRUE
    BY <1>1, <2>1 DEF Process
  <2> QED
    BY <1>1, <2>2 DEF WaitIn
<1>3. CASE p \notin DOMAIN ds
  <2>1. new[p] = [pr[p] EXCEPT !.auto = FALSE,
                     !.status = IF @ = "restarting" THEN "crashed" ELSE @]
    BY <1>3 DEF SyncDefinitions
  <2>2. new[p].status # "restarting"
    BY <1>1, <2>1 DEF Process
  <2> QED
    BY <2>2
<1> QED
  BY <1>2, <1>3

LEMMA StartWaits ==
    ASSUME NEW new, NEW old, NEW p, NEW P, Starts(new, old, p), WaitIn(old, P)
    PROVE  WaitIn(new, P \ {p})
BY DEF Starts, WaitIn

LEMMA StopWaits ==
    ASSUME NEW w, NEW p, NEW f, NEW P, WaitIn(w.procs, P)
    PROVE  WaitIn(StopProcessById(w, p, f).daemon.procs, P)
<1> DEFINE v == StopProcessById(w, p, f).daemon
           stopped == Put(w.procs, p, Stopped(w.procs[p]))
<1>1. v.procs = w.procs \/ (p \in DOMAIN w.procs /\ v.procs = stopped)
  BY DEF StopProcessById, Done, Refused
<1>2. ASSUME p \in DOMAIN w.procs PROVE WaitIn(stopped, P)
  <2>1. Stopped(w.procs[p]).status = "stopped"
    BY DEF Stopped, FromDefinition
  <2> QED
    BY <1>2, <2>1 DEF Put, WaitIn
<1> QED
  BY <1>1, <1>2

LEMMA HandlerWaits ==
    ASSUME ManagerInv, WaitInv, NEW r \in Requests, Handler(r)
    PROVE  WaitInv'
<1>1. Pending' = Pending
  BY DEF Handler, Discover, ListProcesses, StartProcess, StopProcess, RestartProcess,
         StartAll, StopAll, Handled, Takes, Pending
<1>2. ASSUME NEW v, WaitIn(v.procs, Pending), Become(v)
      PROVE  WaitInv'
  BY <1>1, <1>2 DEF Become, WaitInv
<1>3. CASE Discover(r)
  BY <1>1, <1>3 DEF Discover, WaitInv
<1>4. ASSUME Takes(r)
      PROVE  /\ r \in DOMAIN request /\ WaitIn(Synced(r).procs, Pending)
             /\ WorldOK(Synced(r))
             /\ \A p \in DOMAIN request[r] : request[r][p] \in BOOLEAN
  <2>1. r \in DOMAIN request /\ request[r] \in Definitions /\ WorldOK(Synced(r))
        /\ \A p \in DOMAIN request[r] : request[r][p] \in BOOLEAN
    BY <1>4, SyncedOK DEF Takes
  <2>2. Synced(r).procs = SyncDefinitions(procs, request[r])
    BY DEF Synced, World
  <2> QED
    BY <2>1, <2>2, SyncWaits DEF WaitInv, ManagerInv, WorldOK, World
<1>5. ASSUME NEW w, WorldOK(w), WaitIn(w.procs, Pending), NEW p \in Procs,
             NEW auto \in BOOLEAN, NEW fc, NEW fs,
             Become(StartDefinition(w, p, auto, TRUE, fc, fs))
      PROVE  WaitInv'
  <2> DEFINE v == StartDefinition(w, p, auto, TRUE, fc, fs)
  <2>1. WaitIn(v.procs, Pending \ {p})
    BY <1>5, StartTouches, StartWaits
  <2> QED
    BY <1>2, <1>5, <2>1 DEF WaitIn
<1>6. CASE ListProcesses(r) \/ StartAll(r) \/ StopAll(r)
  BY <1>2, <1>4, <1>6 DEF ListProcesses, StartAll, StopAll, Handled
<1>7. ASSUME NEW p \in Procs, NEW f \in Fault, StopProcess(r, p, f)
      PROVE  WaitInv'
  BY <1>2, <1>4, <1>7, StopWaits DEF StopProcess, Handled
<1>8. ASSUME NEW p \in Procs, NEW fc \in Fault, NEW fs \in Fault,
             StartProcess(r, p, fc, fs)
      PROVE  WaitInv'
  BY <1>4, <1>5, <1>8 DEF StartProcess, Handled
<1>9. ASSUME NEW p \in Procs, NEW f \in Fault, NEW fs \in Fault,
             RestartProcess(r, p, f, fs)
      PROVE  WaitInv'
  <2> DEFINE w == StopProcessById(Synced(r), p, f).daemon
  <2>1. WorldOK(w) /\ WaitIn(w.procs, Pending)
        /\ \A q \in DOMAIN request[r] : request[r][q] \in BOOLEAN
    BY <1>4, <1>9, StopOK, StopWaits DEF RestartProcess, Handled
  <2> HIDE DEF w
  <2>2. CASE Become(w)
    BY <1>2, <2>1, <2>2
  <2>3. CASE /\ p \in DOMAIN request[r]
             /\ Become(StartDefinition(w, p, request[r][p], TRUE, "none", fs))
    BY <1>5, <2>1, <2>3
  <2> QED
    BY <1>9, <2>2, <2>3 DEF RestartProcess, w
<1> QED
  BY <1>3, <1>6, <1>7, <1>8, <1>9 DEF Handler

LEMMA LoopWaits ==
    ASSUME ManagerInv, WaitInv, NEW p \in Procs, NEW f \in Fault, NEW fs \in Fault,
           LoopStep(p, f, fs)
    PROVE  WaitInv'
<1>1. Pending' = Pending
  BY DEF LoopStep, Pending
<1>2. WorldOK(World) /\ WaitIn(World.procs, Pending)
  BY DEF ManagerInv, WaitInv, World
<1>3. CASE /\ locked.op = "start"
           /\ Become(StartDefinition(World, p, locked.defs[p], TRUE, f, fs))
  <2> DEFINE v == StartDefinition(World, p, locked.defs[p], TRUE, f, fs)
  <2>1. locked.defs[p] \in BOOLEAN
    <3>1. p \in DOMAIN locked.defs /\ locked.defs \in Definitions \cup {EmptyMap}
      BY <1>3 DEF LoopStep, ManagerInv, LockedOK, NoLoop
    <3> QED
      BY <3>1, DefinitionType DEF EmptyMap
  <2>2. WaitIn(v.procs, Pending \ {p})
    BY <1>2, <2>1, StartTouches, StartWaits
  <2> QED
    BY <1>1, <1>3, <2>2 DEF Become, WaitInv, WaitIn
<1>4. CASE Become(StopProcessById(World, p, f).daemon)
  BY <1>1, <1>2, <1>4, StopWaits DEF Become, WaitInv
<1> QED
  BY <1>3, <1>4 DEF LoopStep

\* A tick schedules a restart for each process that it makes wait for one.
LEMMA MonitorWaits ==
    ASSUME ManagerInv, WaitInv, NEW f \in Fault, NEW healthy \in SUBSET Procs,
           MonitorTick(f, healthy)
    PROVE  WaitInv'
<1>1. timers' = timers /\ schedule = {}
  BY DEF MonitorTick
<1>2. CASE f = "list"
  BY <1>1, <1>2 DEF MonitorTick, WaitInv, Pending
<1>3. CASE f # "list"
  <2>1. PICK w : /\ w.procs = procs /\ procs' = CheckAndUpdate(w, healthy)
                 /\ schedule' = RestartSchedule(w, healthy)
    BY <1>3 DEF MonitorTick, World
  <2> SUFFICES ASSUME NEW p \in DOMAIN procs', AlwaysAuto(p), procs'[p].status = "restarting"
               PROVE  p \in Pending' /\ procs'[p].auto = TRUE
    BY DEF WaitInv, WaitIn
  <2>2. p \in DOMAIN procs /\ p \in Procs /\ procs[p] \in Process
    BY <2>1 DEF CheckAndUpdate, ManagerInv, WorldOK, World, ProcsOK
  <2>3. CASE p \in Crashed(w)
    <3>1. procs'[p] = AfterCrash(procs[p], p \in healthy)
      BY <2>1, <2>2, <2>3 DEF CheckAndUpdate
    <3>2. procs[p].auto = TRUE /\ procs'[p].auto = TRUE
      BY <2>2, <3>1 DEF AfterCrash, Process
    <3>3. [proc |-> p, delay |-> Delay(w.procs[p], p \in healthy)] \in schedule'
      BY <2>1, <2>3, <3>2 DEF RestartSchedule
    <3> QED
      BY <2>2, <3>2, <3>3 DEF Pending
  <2>4. CASE p \notin Crashed(w)
    <3>1. procs'[p] = procs[p]
      BY <2>1, <2>2, <2>4 DEF CheckAndUpdate
    <3> QED
      BY <1>1, <2>2, <3>1 DEF WaitInv, WaitIn, Pending
  <2> QED
    BY <2>3, <2>4
<1> QED
  BY <1>2, <1>3

LEMMA TaskWaits ==
    ASSUME ManagerInv, WaitInv, NEW p \in Procs, NEW fc \in Fault, NEW fs \in Fault,
           RestartTask(p, fc, fs)
    PROVE  WaitInv'
<1>1. Pending \ {p} \subseteq Pending'
  BY DEF RestartTask, Pending, ManagerInv, TimersOK
<1>2. WorldOK(World) /\ WaitIn(World.procs, Pending)
  BY DEF ManagerInv, WaitInv, World
<1>3. CASE /\ p \in DOMAIN procs /\ procs[p].status = "restarting" /\ procs[p].auto
           /\ Become(StartDefinition(World, p, procs[p].auto, FALSE, fc, fs))
  <2> DEFINE v == StartDefinition(World, p, procs[p].auto, FALSE, fc, fs)
  <2>1. procs[p].auto \in BOOLEAN
    BY <1>2, <1>3 DEF WorldOK, World, ProcsOK, Process
  <2>2. WaitIn(v.procs, Pending \ {p})
    BY <1>2, <2>1, StartTouches, StartWaits
  <2> QED
    BY <1>1, <1>3, <2>2 DEF Become, WaitInv, WaitIn
<1>4. CASE /\ procs' = procs
           /\ ~(p \in DOMAIN procs /\ procs[p].status = "restarting" /\ procs[p].auto)
  BY <1>1, <1>4 DEF WaitInv, WaitIn
<1> QED
  BY <1>3, <1>4 DEF RestartTask, RestartTrackedProcess

LEMMA WaitStep ==
    ASSUME ManagerInv, WaitInv, [ManagerNext]_vars
    PROVE  WaitInv'
<1>1. CASE SpawnRestarts
  <2>1. \A p \in Pending : p \in Procs /\ timers'[p] > 0
    BY <1>1, ManagerAssumption DEF SpawnRestarts, Pending, ManagerInv, TimersOK
  <2> QED
    BY <1>1, <2>1 DEF SpawnRestarts, WaitInv, WaitIn, Pending
<1>2. CASE procs' = EmptyMap
  BY <1>2 DEF WaitInv, WaitIn, EmptyMap
<1>3. CASE UNCHANGED <<procs, schedule, timers>>
  BY <1>3 DEF WaitInv, Pending
<1> QED
  BY <1>1, <1>2, <1>3, HandlerWaits, LoopWaits, MonitorWaits, TaskWaits
     DEF ManagerNext, LoopSteps, Ticks, RestartTasks, EditDefinitions, ChildStep,
         ClientStep, ManagerUnchanged, RestartProgram, vars

\* RestartingHasTimer of ProcessManager: a process whose auto_restart is never
\* switched off in the files, though others may be, is not reported as restarting
\* without a task that will restart it, whatever requests, crashes and faults come
\* in between.
THEOREM RestartsArePending == ManagerSpec => []RestartingHasTimer
<1>1. ManagerInit => WaitInv
  BY DEF ManagerInit, WaitInv, WaitIn, EmptyMap
<1>2. ManagerInv /\ WaitInv /\ [ManagerNext]_vars => WaitInv'
  BY WaitStep
<1>3. WaitInv => RestartingHasTimer
  BY DEF WaitInv, WaitIn, Pending, RestartingHasTimer
<1> QED
  BY <1>1, <1>2, <1>3, ManagerInvariant, PTL DEF ManagerSpec

-----------------------------------------------------------------------------
(* Sessions belong to processes, if the store can be written and clients    *)
(* neither kill nor create sessions of processes                            *)

\* A live session of a process is named by the process, which is not stopped.
OwnedIn(pr, d) ==
    \A p \in Procs : p \in DOMAIN d.live =>
        p \in DOMAIN pr /\ pr[p].session = TRUE /\ pr[p].status # "stopped"

OwnedWorld(w) == OwnedIn(w.procs, w.daemon)

Owned == OwnedWorld(World)

LEMMA PersistKeepsLive ==
    ASSUME NEW d, Good(d), NEW f
    PROVE  PersistCurrentSessions(d, f).daemon.live = d.live
BY DEF PersistCurrentSessions, Done, Refused, Good, IsDaemon

\* kill removes at most its session, and removes it when it succeeds.
LEMMA KillLive ==
    ASSUME NEW d, Good(d), NEW s, NEW f
    PROVE  LET k == Kill(d, s, f)
           IN  DOMAIN k.daemon.live \subseteq DOMAIN d.live
               /\ (k.ok = TRUE => s \notin DOMAIN k.daemon.live)
<1> DEFINE k == Kill(d, s, f)
           h == Forget(HangUp(d, s), {s})
<1>1. ASSUME s \in DOMAIN d.live
      PROVE  DOMAIN PersistCurrentSessions(h, f).daemon.live = DOMAIN d.live \ {s}
  <2>1. /\ Good(HangUp(d, s)) /\ HangUp(d, s).live = d.live
        /\ \A n \in Slots : HangUp(d, s).child[s][n] # "running"
    BY <1>1, HangUpGood
  <2>2. Good(h)
    BY <2>1, ForgetGood DEF Good, NoLostIn
  <2>3. DOMAIN h.live = DOMAIN d.live \ {s}
    BY <2>1 DEF Forget, Restrict
  <2> HIDE DEF h
  <2> QED
    BY <2>2, <2>3, PersistKeepsLive
<1>2. CASE s \notin DOMAIN d.live
  BY <1>2 DEF Kill, Refused
<1>3. CASE s \in DOMAIN d.live /\ k = Refused(d)
  BY <1>3 DEF Refused
<1>4. CASE s \in DOMAIN d.live /\ k = PersistCurrentSessions(h, f)
  BY <1>1, <1>4
<1> QED
  BY <1>2, <1>3, <1>4 DEF Kill

\* create adds at most its session, which is live before or after it succeeds
\* and, if the store can be written, not live when it does not.
LEMMA CreateLive ==
    ASSUME NEW d, Good(d), NEW s \in Ids, NEW f \in Fault, CanSpawn(d, s),
           "save" \notin Faults
    PROVE  LET c == CreateOrAttach(d, s, f)
           IN  DOMAIN c.daemon.live \subseteq DOMAIN d.live \cup {s}
               /\ (c.ok = FALSE => s \notin DOMAIN c.daemon.live)
               /\ c.ok \in BOOLEAN
<1> DEFINE c == CreateOrAttach(d, s, f)
<1>1. CASE s \in DOMAIN d.live \/ f = "spawn"
  BY <1>1 DEF CreateOrAttach, Done, Refused
<1>2. CASE s \notin DOMAIN d.live /\ f # "spawn"
  <2>1. c = PersistCurrentSessions(Spawn(d, s), f) /\ f # "save"
    BY <1>2 DEF CreateOrAttach, Fault
  <2>2. c.ok = TRUE
    BY <2>1 DEF PersistCurrentSessions, Done
  <2>3. Good(Spawn(d, s))
    BY <1>2, SpawnGood DEF CanSpawn
  <2>4. DOMAIN Spawn(d, s).live = DOMAIN d.live \cup {s}
    BY DEF Spawn, Put
  <2>5. DOMAIN c.daemon.live = DOMAIN d.live \cup {s}
    BY <2>1, <2>3, <2>4, PersistKeepsLive
  <2> QED
    BY <2>2, <2>5
<1> QED
  BY <1>1, <1>2

LEMMA ClearLive ==
    ASSUME NEW w, WorldOK(w), NEW p, NEW f
    PROVE  LET c == ClearStaleSession(w, p, f)
           IN  DOMAIN c.daemon.live \subseteq DOMAIN w.daemon.live
<1>1. DOMAIN Kill(w.daemon, p, f).daemon.live \subseteq DOMAIN w.daemon.live
  BY KillLive DEF WorldOK
<1> QED
  BY <1>1 DEF ClearStaleSession, Done, Refused

LEMMA StopOwned ==
    ASSUME NEW w, WorldOK(w), OwnedWorld(w), NEW p, NEW f
    PROVE  OwnedWorld(StopProcessById(w, p, f).daemon)
<1> DEFINE v == StopProcessById(w, p, f).daemon
           killed == Kill(w.daemon, p, f)
           stopped == Put(w.procs, p, Stopped(w.procs[p]))
<1> SUFFICES OwnedIn(v.procs, v.daemon)
  BY DEF OwnedWorld
<1>1. DOMAIN killed.daemon.live \subseteq DOMAIN w.daemon.live
      /\ (killed.ok = TRUE => p \notin DOMAIN killed.daemon.live)
  BY KillLive DEF WorldOK
<1>2. CASE v = w
  BY <1>2 DEF OwnedWorld
<1>3. CASE v.procs = w.procs /\ v.daemon = killed.daemon
  BY <1>1, <1>3 DEF OwnedWorld, OwnedIn
<1>4. ASSUME p \in DOMAIN w.procs, NEW d, DOMAIN d.live \subseteq DOMAIN w.daemon.live,
             p \notin DOMAIN d.live
      PROVE  OwnedIn(stopped, d)
  BY <1>4 DEF OwnedWorld, OwnedIn, Put
<1>5. CASE /\ p \in DOMAIN w.procs /\ w.procs[p].session = FALSE
           /\ v.procs = stopped /\ v.daemon = w.daemon
  <2>1. p \in Procs /\ p \notin DOMAIN w.daemon.live
    BY <1>5 DEF WorldOK, ProcsOK, OwnedWorld, OwnedIn
  <2> QED
    BY <1>4, <1>5, <2>1
<1>6. CASE /\ p \in DOMAIN w.procs /\ killed.ok = TRUE
           /\ v.procs = stopped /\ v.daemon = killed.daemon
  BY <1>1, <1>4, <1>6
<1>7. p \in DOMAIN w.procs => w.procs[p].session \in BOOLEAN
  BY DEF WorldOK, ProcsOK, Process
<1>8. killed.ok \in BOOLEAN
  BY DEF Kill, PersistCurrentSessions, Done, Refused
<1> HIDE DEF killed, stopped
<1>9. \/ v = w
      \/ v.procs = w.procs /\ v.daemon = killed.daemon
      \/ /\ p \in DOMAIN w.procs /\ w.procs[p].session = FALSE
         /\ v.procs = stopped /\ v.daemon = w.daemon
      \/ /\ p \in DOMAIN w.procs /\ killed.ok = TRUE
         /\ v.procs = stopped /\ v.daemon = killed.daemon
  BY <1>7, <1>8 DEF StopProcessById, Done, Refused, killed, stopped
<1> QED
  BY <1>2, <1>3, <1>5, <1>6, <1>9

LEMMA PutOwned ==
    ASSUME NEW w, OwnedWorld(w), NEW v, NEW p, NEW proc,
           v.procs = Put(w.procs, p, proc),
           DOMAIN v.daemon.live \subseteq DOMAIN w.daemon.live \cup {p},
           p \in DOMAIN v.daemon.live => proc.session = TRUE /\ proc.status # "stopped"
    PROVE  OwnedIn(v.procs, v.daemon)
BY DEF OwnedWorld, OwnedIn, Put

LEMMA StartOwned ==
    ASSUME "save" \notin Faults, NEW w, WorldOK(w), OwnedWorld(w),
           NEW p \in Procs, NEW auto \in BOOLEAN, NEW manual \in BOOLEAN,
           NEW fc, NEW fs \in Fault, CanSpawn(ClearStaleSession(w, p, fc).daemon, p)
    PROVE  OwnedWorld(StartDefinition(w, p, auto, manual, fc, fs))
<1> DEFINE v == StartDefinition(w, p, auto, manual, fc, fs)
           cleared == ClearStaleSession(w, p, fc)
           created == CreateOrAttach(cleared.daemon, p, fs)
           tracked == Tracked(w.procs, p, auto)
           unset == [tracked EXCEPT !.status = "crashed"]
<1> SUFFICES OwnedIn(v.procs, v.daemon)
  BY DEF OwnedWorld
<1>1. /\ Good(cleared.daemon) /\ DOMAIN cleared.daemon.live \subseteq DOMAIN w.daemon.live
  BY ClearOK, ClearLive
<1>2. /\ DOMAIN created.daemon.live \subseteq DOMAIN w.daemon.live \cup {p}
      /\ created.ok = FALSE => p \notin DOMAIN created.daemon.live
      /\ created.ok \in BOOLEAN
  <2>1. p \in Ids
    BY ManagerAssumption
  <2> HIDE DEF cleared
  <2> QED
    BY <1>1, <2>1, CreateLive DEF cleared
<1>3. /\ tracked \in Process
      /\ p \in DOMAIN w.daemon.live => tracked.session = TRUE
  <2>1. tracked \in Process
    BY TrackedType DEF WorldOK
  <2>2. ASSUME p \in DOMAIN w.daemon.live PROVE tracked.session = TRUE
    <3>1. p \in DOMAIN w.procs /\ w.procs[p] \in Process /\ w.procs[p].session = TRUE
      BY <2>2 DEF OwnedWorld, OwnedIn, WorldOK, ProcsOK
    <3> QED
      BY <3>1 DEF Tracked, Process
  <2> QED
    BY <2>1, <2>2
<1>4. CASE v = w
  BY <1>4 DEF OwnedWorld
<1>5. CASE v = [procs |-> Put(w.procs, p, unset), daemon |-> cleared.daemon]
  <2>1. unset.session = tracked.session /\ unset.status = "crashed"
    BY <1>3 DEF Process
  <2>2. v.procs = Put(w.procs, p, unset) /\ v.daemon = cleared.daemon
    BY <1>5
  <2> HIDE DEF v, cleared, unset, tracked
  <2> QED
    BY <1>1, <1>3, <2>1, <2>2, PutOwned
<1>6. CASE created.ok = FALSE /\ v.daemon = created.daemon
           /\ \E proc : v.procs = Put(w.procs, p, proc)
  <2> PICK proc : v.procs = Put(w.procs, p, proc)
    BY <1>6
  <2> HIDE DEF v, created
  <2> QED
    BY <1>2, <1>6, PutOwned
<1>7. CASE v.daemon = created.daemon
           /\ \E proc : /\ v.procs = Put(w.procs, p, proc)
                        /\ proc.session = TRUE /\ proc.status = "running"
  <2> PICK proc : /\ v.procs = Put(w.procs, p, proc)
                  /\ proc.session = TRUE /\ proc.status = "running"
    BY <1>7
  <2> HIDE DEF v, created
  <2> QED
    BY <1>2, <1>7, PutOwned
<1> HIDE DEF cleared, created, tracked, unset
<1>8. \/ v = w
      \/ v = [procs |-> Put(w.procs, p, unset), daemon |-> cleared.daemon]
      \/ created.ok = FALSE /\ v.daemon = created.daemon
         /\ \E proc : v.procs = Put(w.procs, p, proc)
      \/ v.daemon = created.daemon
         /\ \E proc : /\ v.procs = Put(w.procs, p, proc)
                      /\ proc.session = TRUE /\ proc.status = "running"
  BY <1>2 DEF StartDefinition, cleared, created, tracked, unset
<1> QED
  BY <1>4, <1>5, <1>6, <1>7, <1>8

LEMMA SyncOwned ==
    ASSUME NEW pr, ProcsOK(pr), NEW d, OwnedIn(pr, d), NEW ds \in Definitions
    PROVE  OwnedIn(SyncDefinitions(pr, ds), d)
<1> DEFINE new == SyncDefinitions(pr, ds)
<1> SUFFICES ASSUME NEW p \in Procs, p \in DOMAIN d.live
             PROVE  p \in DOMAIN new /\ new[p].session = TRUE /\ new[p].status # "stopped"
  BY DEF OwnedIn
<1>1. /\ p \in DOMAIN pr /\ pr[p] \in Process /\ pr[p].session = TRUE
      /\ pr[p].status # "stopped"
  BY DEF OwnedIn, ProcsOK
<1>2. p \in DOMAIN new
  BY <1>1 DEF SyncDefinitions
<1>3. CASE p \in DOMAIN ds
  <2>1. new[p] = [pr[p] EXCEPT !.auto = ds[p]]
    BY <1>2, <1>3 DEF SyncDefinitions
  <2> QED
    BY <1>1, <1>2, <2>1 DEF Process
<1>4. CASE p \notin DOMAIN ds
  <2>1. new[p] = [pr[p] EXCEPT !.auto = FALSE,
                     !.status = IF @ = "restarting" THEN "crashed" ELSE @]
    BY <1>2, <1>4 DEF SyncDefinitions
  <2> QED
    BY <1>1, <1>2, <2>1 DEF Process
<1> QED
  BY <1>3, <1>4

LEMMA HandlerOwned ==
    ASSUME "save" \notin Faults, ManagerInv, Owned, NEW r \in Requests, Handler(r)
    PROVE  Owned'
<1>1. ASSUME NEW w, OwnedWorld(w), Become(w) PROVE Owned'
  BY <1>1 DEF Become, Owned, OwnedWorld, OwnedIn, World
<1>2. CASE Discover(r)
  BY <1>2 DEF Discover, Owned, OwnedWorld, OwnedIn, World
<1>3. ASSUME Takes(r)
      PROVE  /\ OwnedWorld(Synced(r)) /\ WorldOK(Synced(r))
             /\ \A p \in DOMAIN request[r] : request[r][p] \in BOOLEAN
  <2>1. request[r] \in Definitions /\ WorldOK(Synced(r))
        /\ \A p \in DOMAIN request[r] : request[r][p] \in BOOLEAN
    BY <1>3, SyncedOK DEF Takes
  <2>2. Synced(r).procs = SyncDefinitions(procs, request[r])
        /\ Synced(r).daemon = daemon
    BY DEF Synced, World
  <2>3. OwnedIn(SyncDefinitions(procs, request[r]), daemon)
    BY <2>1, SyncOwned DEF Owned, OwnedWorld, World, ManagerInv, WorldOK
  <2> QED
    BY <2>1, <2>2, <2>3 DEF OwnedWorld
<1>4. CASE ListProcesses(r) \/ StartAll(r) \/ StopAll(r)
  BY <1>1, <1>3, <1>4 DEF ListProcesses, StartAll, StopAll, Handled
<1>5. ASSUME NEW p \in Procs, NEW f \in Fault, StopProcess(r, p, f)
      PROVE  Owned'
  BY <1>1, <1>3, <1>5, StopOwned DEF StopProcess, Handled
<1>6. ASSUME NEW p \in Procs, NEW fc \in Fault, NEW fs \in Fault,
             StartProcess(r, p, fc, fs)
      PROVE  Owned'
  <2>1. OwnedWorld(StartDefinition(Synced(r), p, request[r][p], TRUE, fc, fs))
    BY <1>3, <1>6, StartOwned DEF StartProcess, Handled
  <2> QED
    BY <1>1, <1>6, <2>1 DEF StartProcess
<1>7. ASSUME NEW p \in Procs, NEW f \in Fault, NEW fs \in Fault,
             RestartProcess(r, p, f, fs)
      PROVE  Owned'
  <2> DEFINE w == StopProcessById(Synced(r), p, f).daemon
  <2>1. /\ WorldOK(w) /\ OwnedWorld(w)
        /\ \A q \in DOMAIN request[r] : request[r][q] \in BOOLEAN
    BY <1>3, <1>7, StopOK, StopOwned DEF RestartProcess, Handled
  <2>2. CASE Become(w)
    BY <1>1, <2>1, <2>2
  <2>3. CASE /\ StopProcessById(Synced(r), p, f).ok
             /\ p \in DOMAIN request[r] /\ CanSpawn(w.daemon, p)
             /\ Become(StartDefinition(w, p, request[r][p], TRUE, "none", fs))
    <3>1. ClearStaleSession(w, p, "none") = Done(w.daemon)
      BY <2>3, StopClears
    <3>2. CanSpawn(ClearStaleSession(w, p, "none").daemon, p)
      BY <2>3, <3>1 DEF Done
    <3>3. OwnedWorld(StartDefinition(w, p, request[r][p], TRUE, "none", fs))
      BY <2>1, <2>3, <3>2, StartOwned
    <3> QED
      BY <1>1, <2>3, <3>3
  <2> QED
    BY <1>7, <2>2, <2>3 DEF RestartProcess
<1> QED
  BY <1>2, <1>4, <1>5, <1>6, <1>7 DEF Handler

LEMMA LoopOwned ==
    ASSUME "save" \notin Faults, ManagerInv, Owned, NEW p \in Procs, NEW f \in Fault,
           NEW fs \in Fault, LoopStep(p, f, fs)
    PROVE  Owned'
<1>1. ASSUME NEW w, OwnedWorld(w), Become(w) PROVE Owned'
  BY <1>1 DEF Become, Owned, OwnedWorld, OwnedIn, World
<1>2. WorldOK(World) /\ OwnedWorld(World)
  BY DEF ManagerInv, Owned
<1>3. CASE /\ locked.op = "start"
           /\ CanSpawn(ClearStaleSession(World, p, f).daemon, p)
           /\ Become(StartDefinition(World, p, locked.defs[p], TRUE, f, fs))
  <2>1. locked.defs[p] \in BOOLEAN
    <3>1. p \in DOMAIN locked.defs /\ locked.defs \in Definitions \cup {EmptyMap}
      BY <1>3 DEF LoopStep, ManagerInv, LockedOK, NoLoop
    <3> QED
      BY <3>1, DefinitionType DEF EmptyMap
  <2>2. OwnedWorld(StartDefinition(World, p, locked.defs[p], TRUE, f, fs))
    BY <1>2, <1>3, <2>1, StartOwned
  <2> QED
    BY <1>1, <1>3, <2>2
<1>4. CASE Become(StopProcessById(World, p, f).daemon)
  BY <1>1, <1>2, <1>4, StopOwned
<1> QED
  BY <1>3, <1>4 DEF LoopStep

LEMMA MonitorOwned ==
    ASSUME ManagerInv, Owned, NEW f \in Fault, NEW healthy \in SUBSET Procs,
           MonitorTick(f, healthy)
    PROVE  Owned'
<1> DEFINE reaps == ticks + 1 >= ReapEvery
           w == [World EXCEPT !.daemon =
                    IF reaps THEN ReapExitedSessions(@, f) ELSE @]
<1>1. DOMAIN ReapExitedSessions(daemon, f).live \subseteq DOMAIN daemon.live
  <2> DEFINE h == Forget(daemon, Exited(daemon))
  <2>1. Good(h)
    BY ForgetGood DEF ManagerInv, WorldOK, World, Good, NoLostIn, Exited, StateOf, ChildOf
  <2>2. DOMAIN h.live \subseteq DOMAIN daemon.live
    BY DEF Forget, Restrict
  <2> HIDE DEF h
  <2>3. PersistCurrentSessions(h, f).daemon.live = h.live
    BY <2>1, PersistKeepsLive
  <2> QED
    BY <2>2, <2>3 DEF ReapExitedSessions, h
<1>2. w.procs = procs /\ DOMAIN w.daemon.live \subseteq DOMAIN daemon.live
  BY <1>1 DEF World
<1> HIDE DEF w
<1>3. /\ daemon' = w.daemon
      /\ procs' = procs \/ procs' = CheckAndUpdate(w, healthy)
  BY DEF MonitorTick, w
<1>4. ASSUME NEW p \in DOMAIN procs
      PROVE  LET proc == AfterCrash(procs[p], p \in healthy)
             IN  proc.session = procs[p].session /\ proc.status # "stopped"
  <2>1. procs[p] \in Process
    BY <1>4 DEF ManagerInv, WorldOK, World, ProcsOK
  <2> QED
    BY <2>1 DEF AfterCrash, Process
<1>5. \A p \in Procs : p \in DOMAIN daemon.live =>
         p \in DOMAIN procs /\ procs[p].session = TRUE /\ procs[p].status # "stopped"
  BY DEF Owned, OwnedWorld, OwnedIn, World
<1>6. \A p \in Procs : p \in DOMAIN daemon.live =>
         p \in DOMAIN procs' /\ procs'[p].session = TRUE /\ procs'[p].status # "stopped"
  BY <1>2, <1>3, <1>4, <1>5 DEF CheckAndUpdate
<1> QED
  BY <1>2, <1>3, <1>6 DEF Owned, OwnedWorld, OwnedIn, World

LEMMA TaskOwned ==
    ASSUME "save" \notin Faults, ManagerInv, Owned, NEW p \in Procs, NEW fc \in Fault,
           NEW fs \in Fault, RestartTask(p, fc, fs)
    PROVE  Owned'
<1>1. WorldOK(World) /\ OwnedWorld(World)
  BY DEF ManagerInv, Owned
<1>2. CASE /\ p \in DOMAIN procs
           /\ CanSpawn(ClearStaleSession(World, p, fc).daemon, p)
           /\ Become(StartDefinition(World, p, procs[p].auto, FALSE, fc, fs))
  <2>1. procs[p].auto \in BOOLEAN
    BY <1>1, <1>2 DEF WorldOK, World, ProcsOK, Process
  <2>2. OwnedWorld(StartDefinition(World, p, procs[p].auto, FALSE, fc, fs))
    BY <1>1, <1>2, <2>1, StartOwned
  <2> QED
    BY <1>2, <2>2 DEF Become, Owned, OwnedWorld, OwnedIn, World
<1>3. CASE UNCHANGED <<daemon, procs>>
  BY <1>3 DEF Owned, OwnedWorld, OwnedIn, World
<1> QED
  BY <1>2, <1>3 DEF RestartTask, RestartTrackedProcess

\* Clients bring no session of a process to life, and children none at all.
LEMMA ClientOwned ==
    ASSUME "save" \notin Faults, Clients = FALSE, ManagerInv, ClientStep \/ ChildStep
    PROVE  \A p \in Procs : p \in DOMAIN daemon'.live => p \in DOMAIN daemon.live
<1>1. Good(daemon)
  BY DEF ManagerInv, WorldOK, World
<1>2. CASE daemon'.live = daemon.live
  BY <1>2
<1>3. ASSUME NEW f \in Fault, Detach(f) PROVE daemon'.live = daemon.live
  BY <1>1, <1>3, PersistKeepsLive DEF Detach
<1>4. ASSUME NEW s \in Ids, Subscribe(s) \/ Unsubscribe(s)
      PROVE  daemon'.live = daemon.live
  BY <1>1, <1>4 DEF Subscribe, Unsubscribe, Good, IsDaemon
<1>5. ASSUME NEW s \in Ids, NEW f \in Fault, Touch(s, f) PROVE daemon'.live = daemon.live
  BY <1>1, <1>5, PersistKeepsLive DEF Touch
<1>6. ASSUME NEW s \in Ids, NEW f \in Fault, Signal(s, f)
      PROVE  daemon'.live = daemon.live
  <2>1. CASE s \in DOMAIN daemon.live
    <3>1. Good(HangUp(daemon, s)) /\ HangUp(daemon, s).live = daemon.live
      BY <1>1, <2>1, HangUpGood
    <3>2. PersistCurrentSessions(HangUp(daemon, s), f).daemon.live = daemon.live
      BY <3>1, PersistKeepsLive
    <3> QED
      BY <1>6, <2>1, <3>2 DEF Signal, Terminate, Refused
  <2> QED
    BY <1>6, <2>1 DEF Signal, Terminate, Refused
<1>7. ASSUME NEW s \in Ids \ Procs, NEW f \in Fault, Create(s, f)
      PROVE  DOMAIN daemon'.live \subseteq DOMAIN daemon.live \cup {s}
  BY <1>1, <1>7, CreateLive DEF Create
<1>8. ASSUME NEW s \in Ids, NEW f \in Fault, KillTerminal(s, f)
      PROVE  DOMAIN daemon'.live \subseteq DOMAIN daemon.live
  BY <1>1, <1>8, KillLive DEF KillTerminal
<1>9. ASSUME Children PROVE daemon'.live = daemon.live
  BY <1>1, <1>9 DEF Children, ChildExits, WaitThread, Good, IsDaemon
<1> QED
  BY <1>2, <1>3, <1>4, <1>5, <1>6, <1>7, <1>8, <1>9 DEF ClientStep, ChildStep

LEMMA OwnedStep ==
    ASSUME "save" \notin Faults, Clients = FALSE, ManagerInv, Owned, [ManagerNext]_vars
    PROVE  Owned'
<1>1. CASE ClientStep \/ ChildStep
  <2>1. procs' = procs
    BY <1>1 DEF ClientStep, ChildStep, ManagerUnchanged
  <2>2. \A p \in Procs : p \in DOMAIN daemon'.live => p \in DOMAIN daemon.live
    BY <1>1, ClientOwned
  <2> QED
    BY <2>1, <2>2 DEF Owned, OwnedWorld, OwnedIn, World
<1>2. CASE RestartProgram
  BY <1>2 DEF RestartProgram, Restart, NewDaemon, EmptyMap, Owned, OwnedWorld, OwnedIn,
              World
<1>3. CASE UNCHANGED <<daemon, procs>>
  BY <1>3 DEF Owned, OwnedWorld, OwnedIn, World
<1> QED
  BY <1>1, <1>2, <1>3, HandlerOwned, LoopOwned, MonitorOwned, TaskOwned
     DEF ManagerNext, LoopSteps, Ticks, RestartTasks, SpawnRestarts, EditDefinitions, vars

\* StoppedHasNoSession of ProcessManager: however requests, restart tasks, edits
\* of the files and failing calls interleave, a stopped process leaves no
\* session behind, as long as the store can be written and no client kills or
\* creates the session of a process.
THEOREM StoppedLeavesNoSession ==
    ASSUME "save" \notin Faults, Clients = FALSE
    PROVE  ManagerSpec => []StoppedHasNoSession
<1>1. ManagerInit => Owned
  BY DEF ManagerInit, Init, NewDaemon, EmptyMap, Owned, OwnedWorld, OwnedIn, World
<1>2. ManagerInv /\ Owned /\ [ManagerNext]_vars => Owned'
  BY OwnedStep
<1>3. Owned => StoppedHasNoSession
  BY DEF Owned, OwnedWorld, OwnedIn, World, StoppedHasNoSession, StatusIn
<1> QED
  BY <1>1, <1>2, <1>3, ManagerInvariant, PTL DEF ManagerSpec
=============================================================================
