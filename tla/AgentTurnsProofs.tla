-------------------------- MODULE AgentTurnsProofs --------------------------
(***************************************************************************)
(* Theorems about the turns of agents, for all worktrees, sessions, sizes  *)
(* of changes and bounds.                                                  *)
(***************************************************************************)
EXTENDS AgentTurns, TLAPS

-----------------------------------------------------------------------------
(* The invariant *)

\* The turns of a row are in order, as TurnsInOrder says.
Ordered(row) ==
    \A i, j \in DOMAIN row.turns : i < j => row.turns[i].epoch > row.turns[j].epoch

\* The count of a row is that of its turns, as StuckMatchesTurns says.
Counted(row) ==
    /\ row.stuck > 0 => Len(row.turns) > 1 \/ KeptTurns = 1
    /\ \A i \in DOMAIN row.turns : i <= row.stuck + 1 => row.turns[i].diff = row.turns[1].diff
    /\ row.stuck + 2 \in DOMAIN row.turns => row.turns[row.stuck + 2].diff # row.turns[1].diff

\* No turn is of an epoch to come, or of one whose report is still to come.
Past(p, row, ep, ts) ==
    \A i \in DOMAIN row.turns :
        /\ row.turns[i].epoch <= ep[p]
        /\ \A t \in ts : t.path = p => t.epoch # row.turns[i].epoch

RowGood(p, row, ep, ts) ==
    /\ row \in Row /\ Len(row.turns) <= KeptTurns
    /\ Ordered(row) /\ Counted(row) /\ Past(p, row, ep, ts)

RowsGood(rows, ep, ts) ==
    /\ DOMAIN rows \subseteq Paths /\ rows = [p \in DOMAIN rows |-> rows[p]]
    /\ \A p \in DOMAIN rows : RowGood(p, rows[p], ep, ts)

UiGood(u, ep, ts) ==
    /\ u = [sessions |-> u.sessions, rows |-> u.rows, refresh |-> u.refresh]
    /\ DOMAIN u.sessions \subseteq Sessions
    /\ u.sessions \in [DOMAIN u.sessions -> AgentState]
    /\ RowsGood(u.rows, ep, ts)
    /\ u.refresh = None \/ RowsGood(u.refresh, ep, ts)

\* A turn has at most one task, and each began in an epoch there was.
TasksGood(ep, ts) ==
    /\ ts \subseteq Task /\ ep \in [Paths -> Nat]
    /\ \A t \in ts : t.epoch <= ep[t.path]
    /\ \A t, v \in ts : t.path = v.path /\ t.epoch = v.epoch => t = v

Holds(t) == t.phase \in {"claimed", "committing"}

\* A checkpoint under way is marked as busy, and is the only one of its worktree.
BusyGood ==
    /\ busy \subseteq Paths
    /\ \A t \in tasks : Holds(t) => t.path \in busy
    /\ \A t, v \in tasks : Holds(t) /\ Holds(v) /\ t.path = v.path => t = v

TurnsInv ==
    /\ UiGood(ui, epoch, tasks) /\ TasksGood(epoch, tasks) /\ BusyGood
    /\ RowsShowActivity

-----------------------------------------------------------------------------
(* Rows *)

\* A new row has no turns.
LEMMA NewRowGood ==
    ASSUME NEW p, NEW ep, NEW ts
    PROVE  RowGood(p, NewRow, ep, ts)
<1>1. /\ NewRow.turns = <<>> /\ NewRow.stuck = 0 /\ NewRow.agent = None
      /\ DOMAIN <<>> = {} /\ Len(<<>>) = 0
  BY DEF NewRow
<1>2. NewRow \in Row
  BY DEF NewRow, Row
<1> QED
  BY <1>1, <1>2, TurnsAssumption DEF RowGood, Ordered, Counted, Past

\* What a row tells of its agent does not concern its turns.
LEMMA AgentChangeGood ==
    ASSUME NEW p, NEW row, NEW ep, NEW ts, RowGood(p, row, ep, ts),
           NEW a \in AgentState \cup {None}
    PROVE  /\ RowGood(p, [row EXCEPT !.agent = a], ep, ts)
           /\ [row EXCEPT !.agent = a].agent = a
<1> DEFINE g == [row EXCEPT !.agent = a]
<1>1. row \in Row
  BY DEF RowGood
<1>2. g \in Row /\ g.turns = row.turns /\ g.stuck = row.stuck /\ g.agent = a
  BY <1>1 DEF Row
<1> HIDE DEF g
<1>3. RowGood(p, g, ep, ts)
  BY <1>2 DEF RowGood, Ordered, Counted, Past
<1> QED
  BY <1>2, <1>3 DEF g

LEMMA EpochsAreNaturals ==
    ASSUME NEW row \in Row
    PROVE  \A i \in DOMAIN row.turns : row.turns[i].epoch \in Nat
<1> DEFINE T == [epoch : Nat, diff : Diffs]
<1>1. row.turns \in Seq(T)
  BY DEF Row
<1>2. \A x \in T : x.epoch \in Nat
  OBVIOUS
<1> HIDE DEF T
<1> QED
  BY <1>1, <1>2

\* A row stays good when epochs go on and the new tasks are of new epochs.
LEMMA RowLater ==
    ASSUME NEW p \in Paths, NEW row, NEW ep \in [Paths -> Nat], NEW ts,
           RowGood(p, row, ep, ts),
           NEW eq \in [Paths -> Nat], NEW us, ep[p] <= eq[p],
           \A t \in us : t.path = p => t.epoch > ep[p] \/ \E v \in ts : v.path = p /\ v.epoch = t.epoch,
           us \subseteq Task
    PROVE  RowGood(p, row, eq, us)
<1>1. \A i \in DOMAIN row.turns : row.turns[i].epoch \in Nat
  BY EpochsAreNaturals DEF RowGood
<1>2. ep[p] \in Nat /\ eq[p] \in Nat /\ \A t \in us : t.epoch \in Nat
  BY DEF Task
<1> QED
  BY <1>1, <1>2 DEF RowGood, Past

\* A turn of the current epoch that has not been recorded goes in front.
LEMMA RecordedGood ==
    ASSUME NEW p \in Paths, NEW row, NEW ep \in [Paths -> Nat], NEW ts,
           NEW t \in Task, t \in ts, t.path = p, t.epoch = ep[p],
           \A v \in ts : v.path = p /\ v.epoch = t.epoch => v = t,
           RowGood(p, row, ep, ts)
    PROVE  /\ RowGood(p, Recorded(row, t), ep, ts \ {t})
           /\ Recorded(row, t).agent = row.agent
<1> DEFINE x == [epoch |-> t.epoch, diff |-> t.diff]
           turns == FirstN(<<x>> \o row.turns)
           stuck == Stuck(row, t)
           g == Recorded(row, t)
           T == [epoch : Nat, diff : Diffs]
<1>1. /\ row \in Row /\ row.turns \in Seq(T) /\ row.stuck \in Nat /\ t.diff \in Diffs
      /\ t.epoch \in Nat /\ KeptTurns \in Nat \ {0} /\ Len(row.turns) <= KeptTurns
      /\ Len(row.turns) \in Nat /\ DOMAIN row.turns = 1..Len(row.turns)
  BY TurnsAssumption DEF RowGood, Row, Task
<1>2. x \in T /\ x.epoch = t.epoch /\ x.diff = t.diff
  BY <1>1
<1> HIDE DEF x
<1> DEFINE all == <<x>> \o row.turns
           n == IF Len(all) < KeptTurns THEN Len(all) ELSE KeptTurns
<1>3. /\ all \in Seq(T) /\ Len(all) = Len(row.turns) + 1 /\ all[1] = x
      /\ \A i \in 2..Len(all) : i - 1 \in DOMAIN row.turns /\ all[i] = row.turns[i - 1]
  BY <1>1, <1>2
<1> HIDE DEF all
<1>4. n \in Nat \ {0} /\ n <= Len(all) /\ n <= KeptTurns /\ turns = SubSeq(all, 1, n)
  BY <1>1, <1>3 DEF FirstN, all
<1> HIDE DEF n, turns, T
<1>5. /\ turns \in Seq(T) /\ Len(turns) = n /\ DOMAIN turns = 1..n
      /\ \A i \in 1..n : turns[i] = all[i]
  <2>1. /\ SubSeq(all, 1, n) \in Seq(T) /\ Len(SubSeq(all, 1, n)) = n
        /\ \A i \in 1..n : SubSeq(all, 1, n)[i] = all[i]
    BY <1>3, <1>4
  <2> QED
    BY <1>4, <2>1
<1>6. /\ turns[1] = x
      /\ \A i \in 2..n : i - 1 \in DOMAIN row.turns /\ turns[i] = row.turns[i - 1]
  BY <1>3, <1>4, <1>5
<1>7. stuck \in Nat
  BY <1>1 DEF Stuck
<1>8. g = [row EXCEPT !.stuck = stuck, !.turns = turns]
  BY DEF Recorded, turns, x
<1> HIDE DEF stuck, g
<1>9. g \in Row /\ g.turns = turns /\ g.stuck = stuck /\ g.agent = row.agent
  <2>1. row \in Row /\ turns \in Seq([epoch : Nat, diff : Diffs]) /\ stuck \in Nat
    BY <1>1, <1>5, <1>7 DEF T
  <2> QED
    BY <1>8, <2>1 DEF Row
<1>10. Ordered(g)
  <2>1. \A i \in DOMAIN row.turns : row.turns[i].epoch < t.epoch
    <3>1. \A i \in DOMAIN row.turns : row.turns[i].epoch \in Nat
      BY EpochsAreNaturals DEF RowGood
    <3> QED
      BY <1>1, <3>1 DEF RowGood, Past
  <2> SUFFICES ASSUME NEW i \in 1..n, NEW j \in 1..n, i < j
               PROVE  turns[i].epoch > turns[j].epoch
    BY <1>5, <1>9 DEF Ordered
  <2>2. j - 1 \in DOMAIN row.turns /\ turns[j] = row.turns[j - 1]
    BY <1>6
  <2>3. CASE i = 1
    BY <1>2, <1>6, <2>1, <2>2, <2>3
  <2>4. CASE i # 1
    <3>1. i - 1 \in DOMAIN row.turns /\ turns[i] = row.turns[i - 1] /\ i - 1 < j - 1
      BY <1>6, <2>4
    <3> QED
      BY <2>2, <3>1 DEF RowGood, Ordered
  <2> QED
    BY <2>3, <2>4
<1>11. Counted(g)
  <2>1. CASE row.turns # <<>> /\ row.turns[1].diff = t.diff
    <3>1. stuck = row.stuck + 1
      BY <2>1 DEF stuck, Stuck
    <3>2. Len(row.turns) > 0
      BY <1>1, <2>1
    <3>3. Len(turns) > 1 \/ KeptTurns = 1
      BY <1>1, <1>3, <1>5, <3>2 DEF n
    <3>4. ASSUME NEW i \in 1..n, i <= stuck + 1
          PROVE  turns[i].diff = turns[1].diff
      <4>1. CASE i = 1
        BY <4>1
      <4>2. CASE i # 1
        <5>1. i - 1 \in DOMAIN row.turns /\ turns[i] = row.turns[i - 1] /\ i - 1 <= row.stuck + 1
          BY <1>1, <1>6, <3>1, <3>4, <4>2
        <5>2. row.turns[i - 1].diff = row.turns[1].diff
          BY <5>1 DEF RowGood, Counted
        <5> QED
          BY <1>2, <1>6, <2>1, <5>1, <5>2
      <4> QED
        BY <4>1, <4>2
    <3>5. ASSUME stuck + 2 \in 1..n
          PROVE  turns[stuck + 2].diff # turns[1].diff
      <4>1. /\ row.stuck + 2 \in DOMAIN row.turns
            /\ turns[stuck + 2] = row.turns[row.stuck + 2]
        <5> DEFINE k == stuck + 2
        <5>2. k \in 2..n /\ k - 1 = row.stuck + 2
          BY <1>1, <1>4, <1>7, <3>1, <3>5
        <5> HIDE DEF k
        <5>3. k - 1 \in DOMAIN row.turns /\ turns[k] = row.turns[k - 1]
          BY <1>6, <5>2
        <5> QED
          BY <5>2, <5>3 DEF k
      <4>2. row.turns[row.stuck + 2].diff # row.turns[1].diff
        BY <4>1 DEF RowGood, Counted
      <4> QED
        BY <1>2, <1>6, <2>1, <4>1, <4>2
    <3> QED
      BY <1>5, <1>9, <3>3, <3>4, <3>5 DEF Counted
  <2>2. CASE ~(row.turns # <<>> /\ row.turns[1].diff = t.diff)
    <3>1. stuck = 0
      BY <2>2 DEF stuck, Stuck
    <3>2. ASSUME 2 \in 1..n
          PROVE  turns[2].diff # turns[1].diff
      <4>1. 1 \in DOMAIN row.turns /\ turns[2] = row.turns[1] /\ row.turns # <<>>
        BY <1>1, <1>6, <3>2
      <4> QED
        BY <1>2, <1>6, <2>2, <4>1
    <3>3. \A i \in 1..n : i <= 1 => i = 1
      BY <1>4
    <3> QED
      BY <1>5, <1>9, <3>1, <3>2, <3>3 DEF Counted
  <2> QED
    BY <2>1, <2>2
<1>12. Past(p, g, ep, ts \ {t})
  <2> SUFFICES ASSUME NEW i \in 1..n
               PROVE  /\ turns[i].epoch <= ep[p]
                      /\ \A v \in ts \ {t} : v.path = p => v.epoch # turns[i].epoch
    BY <1>5, <1>9 DEF Past
  <2>1. CASE i = 1
    BY <1>1, <1>2, <1>6, <2>1
  <2>2. CASE i # 1
    <3>1. i - 1 \in DOMAIN row.turns /\ turns[i] = row.turns[i - 1]
      BY <1>6, <2>2
    <3> QED
      BY <3>1 DEF RowGood, Past
  <2> QED
    BY <2>1, <2>2
<1>13. Len(turns) <= KeptTurns
  BY <1>4, <1>5
<1>14. RowGood(p, g, ep, ts \ {t})
  BY <1>9, <1>10, <1>11, <1>12, <1>13 DEF RowGood
<1> QED
  BY <1>9, <1>14 DEF g

-----------------------------------------------------------------------------
(* The steps *)

LEMMA DerivedState ==
    ASSUME NEW sessions, NEW p
    PROVE  Derived(sessions, p) \in AgentState \cup {None}
BY DEF Derived, AgentState

\* Later epochs and tasks of new epochs leave all rows good.
LEMMA RowsLater ==
    ASSUME NEW rows, NEW ep \in [Paths -> Nat], NEW ts, RowsGood(rows, ep, ts),
           NEW eq \in [Paths -> Nat], NEW us, us \subseteq Task,
           \A p \in Paths : ep[p] <= eq[p],
           \A t \in us : \/ t.epoch > ep[t.path]
                        \/ \E v \in ts : v.path = t.path /\ v.epoch = t.epoch
    PROVE  RowsGood(rows, eq, us)
<1>1. ASSUME NEW p \in DOMAIN rows PROVE RowGood(p, rows[p], eq, us)
  <2>1. p \in Paths /\ RowGood(p, rows[p], ep, ts)
    BY DEF RowsGood
  <2> QED
    BY <2>1, RowLater
<1> QED
  BY <1>1 DEF RowsGood

\* A reconciliation derives the state of every row and keeps the turns.
LEMMA ReconcileKeeps ==
    ASSUME TurnsInv, NEW u, UiGood(u, epoch, tasks), NEW allow \in BOOLEAN,
           Reconcile(u, allow), UNCHANGED busy
    PROVE  TurnsInv'
<1>1. ui' = [u EXCEPT !.rows = Reconciled(u)]
  BY DEF Reconcile
<1>2. u = [sessions |-> u.sessions, rows |-> u.rows, refresh |-> u.refresh]
  BY DEF UiGood
<1>3. /\ ui'.sessions = u.sessions /\ ui'.rows = Reconciled(u) /\ ui'.refresh = u.refresh
      /\ ui' = [sessions |-> ui'.sessions, rows |-> ui'.rows, refresh |-> ui'.refresh]
  BY <1>1, <1>2
<1>4. epoch \in [Paths -> Nat] /\ tasks \subseteq Task
  BY DEF TurnsInv, TasksGood
<1>5. /\ epoch' \in [Paths -> Nat]
      /\ \A p \in Paths : epoch'[p] = IF p \in Changed(u) THEN epoch[p] + 1 ELSE epoch[p]
  BY <1>4 DEF Reconcile
<1>6. PICK diff \in [Paths -> Diffs], checkpoint \in [Paths -> BOOLEAN] :
          tasks' = tasks \cup
            {[path |-> p, epoch |-> epoch[p] + 1, phase |-> "started",
              diff |-> diff[p], checkpoint |-> checkpoint[p]] :
                p \in IF allow THEN Finished(u) ELSE {}}
  BY DEF Reconcile
<1> DEFINE new == {[path |-> p, epoch |-> epoch[p] + 1, phase |-> "started",
                    diff |-> diff[p], checkpoint |-> checkpoint[p]] :
                      p \in IF allow THEN Finished(u) ELSE {}}
<1>7. Finished(u) \subseteq Changed(u) /\ Changed(u) \subseteq Paths
  BY DEF Finished, Changed, UiGood, RowsGood
<1>8. /\ tasks' = tasks \cup new /\ new \subseteq Task
      /\ \A t \in new : /\ t.path \in Changed(u) /\ t.epoch = epoch[t.path] + 1
                        /\ t.phase = "started"
      /\ \A t, v \in new : t.path = v.path => t = v
  <2>1. ASSUME NEW t \in new
        PROVE  /\ t.path \in Changed(u) /\ t.epoch = epoch[t.path] + 1 /\ t.phase = "started"
               /\ t = [path |-> t.path, epoch |-> epoch[t.path] + 1, phase |-> "started",
                       diff |-> diff[t.path], checkpoint |-> checkpoint[t.path]]
    BY <1>7
  <2>2. ASSUME NEW t \in new PROVE t \in Task
    <3>1. t.path \in Paths
      BY <1>7, <2>1
    <3>2. epoch[t.path] + 1 \in Nat
      BY <1>4, <3>1
    <3> HIDE DEF new
    <3> QED
      BY <2>1, <3>1, <3>2 DEF Task, Phase
  <2> HIDE DEF new
  <2>3. \A t, v \in new : t.path = v.path => t = v
    BY <2>1
  <2> QED
    BY <1>6, <2>1, <2>2, <2>3 DEF new
<1> HIDE DEF new
<1>9. TasksGood(epoch', tasks')
  <2>1. \A t \in tasks : t.path \in Paths /\ t.epoch \in Nat
    BY <1>4 DEF Task
  <2>2. \A t \in new : t.epoch = epoch[t.path] + 1 /\ t.path \in Paths
                        /\ t.epoch = epoch'[t.path]
    BY <1>5, <1>7, <1>8
  <2>3. \A t \in tasks : t.epoch <= epoch[t.path] /\ t.epoch <= epoch'[t.path]
    BY <1>4, <1>5, <2>1 DEF TurnsInv, TasksGood
  <2>4. \A t \in tasks' : t.epoch <= epoch'[t.path]
    BY <1>4, <1>5, <1>8, <2>2, <2>3
  <2>5. ASSUME NEW t \in tasks', NEW v \in tasks', t.path = v.path, t.epoch = v.epoch
        PROVE  t = v
    BY <1>4, <1>8, <2>1, <2>2, <2>3, <2>5 DEF TurnsInv, TasksGood
  <2> QED
    BY <1>4, <1>5, <1>8, <2>4, <2>5 DEF TasksGood
<1>10. ASSUME NEW rows, RowsGood(rows, epoch, tasks)
       PROVE  RowsGood(rows, epoch', tasks')
  <2>1. \A p \in Paths : epoch[p] <= epoch'[p]
    BY <1>4, <1>5
  <2>2. \A t \in tasks' : \/ t.epoch > epoch[t.path]
                         \/ \E v \in tasks : v.path = t.path /\ v.epoch = t.epoch
    BY <1>4, <1>7, <1>8
  <2>3. tasks' \subseteq Task
    BY <1>4, <1>8
  <2> QED
    BY <1>4, <1>5, <1>10, <2>1, <2>2, <2>3, RowsLater
<1>11. /\ RowsGood(Reconciled(u), epoch, tasks)
       /\ \A p \in DOMAIN Reconciled(u) :
             Reconciled(u)[p].agent = Derived(u.sessions, p)
  <2>1. RowsGood(u.rows, epoch, tasks)
    BY DEF UiGood
  <2>2. ASSUME NEW p \in DOMAIN u.rows
        PROVE  /\ RowGood(p, [u.rows[p] EXCEPT !.agent = Derived(u.sessions, p)], epoch, tasks)
               /\ [u.rows[p] EXCEPT !.agent = Derived(u.sessions, p)].agent
                     = Derived(u.sessions, p)
    BY <2>1, DerivedState, AgentChangeGood DEF RowsGood
  <2> QED
    BY <2>1, <2>2 DEF Reconciled, RowsGood
<1>12. UiGood(ui', epoch', tasks')
  <2>1. RowsGood(ui'.rows, epoch', tasks')
    BY <1>3, <1>10, <1>11
  <2>2. ui'.refresh = None \/ RowsGood(ui'.refresh, epoch', tasks')
    BY <1>3, <1>10 DEF UiGood
  <2> QED
    BY <1>3, <2>1, <2>2 DEF UiGood
<1>13. RowsShowActivity'
  BY <1>3, <1>11 DEF RowsShowActivity
<1>14. BusyGood'
  BY <1>8 DEF TurnsInv, BusyGood, Holds
<1> QED
  BY <1>9, <1>12, <1>13, <1>14 DEF TurnsInv

\* A message of the feed changes the sessions, and with them the rows.
LEMMA MessageKeeps ==
    ASSUME TurnsInv, NEW sessions, DOMAIN sessions \subseteq Sessions,
           sessions \in [DOMAIN sessions -> AgentState], NEW allow \in BOOLEAN,
           Receive, Reconcile([ui EXCEPT !.sessions = sessions], allow)
    PROVE  TurnsInv'
<1> DEFINE u == [ui EXCEPT !.sessions = sessions]
<1>1. /\ u.sessions = sessions /\ u.rows = ui.rows /\ u.refresh = ui.refresh
      /\ u = [sessions |-> u.sessions, rows |-> u.rows, refresh |-> u.refresh]
  BY DEF TurnsInv, UiGood
<1> HIDE DEF u
<1>2. UiGood(u, epoch, tasks)
  BY <1>1 DEF TurnsInv, UiGood
<1>3. Reconcile(u, allow) /\ UNCHANGED busy
  BY DEF Receive, u
<1> QED
  BY <1>2, <1>3, ReconcileKeeps

LEMMA RowsReplaced ==
    ASSUME NEW f, f = [sessions |-> f.sessions, rows |-> f.rows, refresh |-> f.refresh],
           NEW rows, NEW g, g = [f EXCEPT !.rows = rows, !.refresh = None]
    PROVE  g = [sessions |-> f.sessions, rows |-> rows, refresh |-> None]
OBVIOUS

\* The rows of a refresh carry over what there was when it began.
LEMMA ApplyRefreshKeeps ==
    ASSUME TurnsInv, NEW listed \in SUBSET Paths, ApplyRefresh(listed)
    PROVE  TurnsInv'
<1> DEFINE rows == [p \in listed |-> Carried(p)]
           u == [ui EXCEPT !.rows = rows, !.refresh = None]
<1>1. ui = [sessions |-> ui.sessions, rows |-> ui.rows, refresh |-> ui.refresh]
  BY DEF TurnsInv, UiGood
<1>2. RowsGood(ui.refresh, epoch, tasks)
  BY DEF ApplyRefresh, TurnsInv, UiGood
<1>3. RowsGood(rows, epoch, tasks)
  <2>1. ASSUME NEW p \in listed PROVE RowGood(p, Carried(p), epoch, tasks)
    BY <1>2, NewRowGood DEF Carried, RowsGood
  <2> QED
    BY <2>1 DEF RowsGood
<1> HIDE DEF rows
<1>4. Reconcile(u, FALSE) /\ UNCHANGED busy
  BY DEF ApplyRefresh, rows
<1> HIDE DEF u
<1>5. u = [sessions |-> ui.sessions, rows |-> rows, refresh |-> None]
  <2>1. u = [ui EXCEPT !.rows = rows, !.refresh = None]
    BY DEF u
  <2> QED
    BY <1>1, <2>1, RowsReplaced
<1>6. UiGood(u, epoch, tasks)
  BY <1>3, <1>5 DEF TurnsInv, UiGood
<1> QED
  BY <1>4, <1>6, ReconcileKeeps

\* A task that goes on to its next phase stays the only one of its turn.
LEMMA AdvanceKeeps ==
    ASSUME TurnsInv, NEW t \in tasks, NEW phase \in Phase, NEW busier \in SUBSET Paths,
           Advance(t, [t EXCEPT !.phase = phase]), busy' = busier,
           \A v \in tasks : Holds(v) /\ v # t => v.path \in busier,
           phase \in {"claimed", "committing"} =>
              /\ t.path \in busier
              /\ \A v \in tasks : Holds(v) /\ v # t => v.path # t.path
    PROVE  TurnsInv'
<1> DEFINE next == [t EXCEPT !.phase = phase]
<1>1. tasks' = (tasks \ {t}) \cup {next} /\ UNCHANGED <<ui, epoch>>
  BY DEF Advance
<1>2. t \in Task /\ tasks \subseteq Task /\ epoch \in [Paths -> Nat]
  BY DEF TurnsInv, TasksGood
<1>3. /\ next \in Task /\ next.path = t.path /\ next.epoch = t.epoch /\ next.phase = phase
  BY <1>2 DEF Task
<1> HIDE DEF next
<1>4. TasksGood(epoch', tasks')
  BY <1>1, <1>2, <1>3 DEF TurnsInv, TasksGood
<1>5. ASSUME NEW rows, RowsGood(rows, epoch, tasks)
      PROVE  RowsGood(rows, epoch', tasks')
  <2>1. \A p \in Paths : epoch[p] <= epoch[p]
    BY <1>2
  <2>2. \A v \in tasks' : \E w \in tasks : w.path = v.path /\ w.epoch = v.epoch
    BY <1>1, <1>3
  <2>3. tasks' \subseteq Task
    BY <1>1, <1>2, <1>3
  <2> QED
    BY <1>1, <1>2, <1>5, <2>1, <2>2, <2>3, RowsLater
<1>6. UiGood(ui', epoch', tasks')
  BY <1>1, <1>5 DEF TurnsInv, UiGood
<1>7. BusyGood'
  BY <1>1, <1>3 DEF TurnsInv, BusyGood, Holds
<1>8. RowsShowActivity'
  BY <1>1 DEF TurnsInv, RowsShowActivity
<1> QED
  BY <1>4, <1>6, <1>7, <1>8 DEF TurnsInv

LEMMA TaskKeeps ==
    ASSUME TurnsInv, NEW t \in tasks,
           Check(t) \/ Claim(t) \/ (\E changed \in BOOLEAN : Inspect(t, changed)) \/ Commit(t)
    PROVE  TurnsInv'
<1>1. t \in Task /\ t.path \in Paths /\ busy \subseteq Paths
  BY DEF TurnsInv, TasksGood, BusyGood, Task
<1>2. \A v \in tasks : Holds(v) => v.path \in busy
  BY DEF TurnsInv, BusyGood
<1>3. \A v \in tasks : Holds(t) /\ Holds(v) /\ v # t => v.path # t.path
  BY DEF TurnsInv, BusyGood
<1>4. ASSUME NEW phase \in {"checked", "reporting"}, To(t, phase)
      PROVE  TurnsInv'
  BY <1>1, <1>2, <1>4, AdvanceKeeps DEF To, Phase
<1>5. CASE Release(t) /\ Holds(t)
  <2>1. \A v \in tasks : Holds(v) /\ v # t => v.path \in busy \ {t.path}
    BY <1>2, <1>3, <1>5
  <2> QED
    BY <1>1, <1>5, <2>1, AdvanceKeeps DEF Release, Phase
<1>6. CASE Check(t)
  BY <1>4, <1>6 DEF Check
<1>7. CASE Claim(t)
  <2>1. CASE t.path \in busy
    BY <1>4, <1>7, <2>1 DEF Claim
  <2>2. CASE t.path \notin busy
    <3>1. /\ busy' = busy \cup {t.path}
          /\ Advance(t, [t EXCEPT !.phase = "claimed"])
      BY <1>7, <2>2 DEF Claim
    <3>2. \A v \in tasks : Holds(v) /\ v # t => v.path \in busy \cup {t.path} /\ v.path # t.path
      BY <1>2, <2>2
    <3> QED
      BY <1>1, <3>1, <3>2, AdvanceKeeps DEF Phase
  <2> QED
    BY <2>1, <2>2
<1>8. ASSUME NEW changed \in BOOLEAN, Inspect(t, changed) PROVE TurnsInv'
  <2>1. Holds(t)
    BY <1>8 DEF Inspect, Holds
  <2>2. CASE changed /\ Current(t)
    <3>1. Advance(t, [t EXCEPT !.phase = "committing"]) /\ busy' = busy
      BY <1>8, <2>2 DEF Inspect, To
    <3> QED
      BY <1>1, <1>2, <1>3, <2>1, <3>1, AdvanceKeeps DEF Phase
  <2>3. CASE ~(changed /\ Current(t))
    BY <1>5, <1>8, <2>1, <2>3 DEF Inspect
  <2> QED
    BY <2>2, <2>3
<1>9. CASE Commit(t)
  BY <1>5, <1>9 DEF Commit, Holds
<1> QED
  BY <1>6, <1>7, <1>8, <1>9

\* A report that is accepted is of a turn later than all that are recorded.
LEMMA ReportKeeps ==
    ASSUME TurnsInv, NEW t \in tasks, Report(t)
    PROVE  TurnsInv'
<1>1. tasks' = tasks \ {t} /\ UNCHANGED <<epoch, busy>>
  BY DEF Report
<1>2. /\ t \in Task /\ tasks \subseteq Task /\ epoch \in [Paths -> Nat]
      /\ \A v \in tasks : v.path = t.path /\ v.epoch = t.epoch => v = t
      /\ ui = [sessions |-> ui.sessions, rows |-> ui.rows, refresh |-> ui.refresh]
  BY DEF TurnsInv, TasksGood, UiGood
<1>3. TasksGood(epoch', tasks') /\ BusyGood'
  BY <1>1 DEF TurnsInv, TasksGood, BusyGood
<1>4. ASSUME NEW rows, RowsGood(rows, epoch, tasks)
      PROVE  RowsGood(rows, epoch', tasks')
  <2>1. \A p \in Paths : epoch[p] <= epoch[p]
    BY <1>2
  <2>2. \A v \in tasks' : \E w \in tasks : w.path = v.path /\ w.epoch = v.epoch
    BY <1>1
  <2> QED
    BY <1>1, <1>2, <1>4, <2>1, <2>2, RowsLater
<1>5. CASE ~Accepts(t)
  <2>1. ui' = ui
    BY <1>5 DEF Report
  <2>2. UiGood(ui', epoch', tasks')
    BY <1>4, <2>1 DEF TurnsInv, UiGood
  <2> QED
    BY <1>3, <2>1, <2>2 DEF TurnsInv, RowsShowActivity
<1>6. CASE Accepts(t)
  <2> DEFINE p == t.path
             row == Recorded(ui.rows[p], t)
             rows == [ui.rows EXCEPT ![p] = row]
  <2>1. p \in DOMAIN ui.rows /\ p \in Paths /\ t.epoch = epoch[p]
    BY <1>2, <1>6 DEF Accepts, Current, Task
  <2>2. RowsGood(ui.rows, epoch, tasks) /\ RowGood(p, ui.rows[p], epoch, tasks)
    BY <2>1 DEF TurnsInv, UiGood, RowsGood
  <2>3. RowGood(p, row, epoch', tasks') /\ row.agent = ui.rows[p].agent
    BY <1>1, <1>2, <2>1, <2>2, RecordedGood
  <2>4. ui' = [ui EXCEPT !.rows = rows]
    BY <1>6 DEF Report
  <2> HIDE DEF row
  <2>5. RowsGood(rows, epoch', tasks')
    <3>1. RowsGood(ui.rows, epoch', tasks')
      BY <1>4, <2>2
    <3> QED
      BY <2>1, <2>3, <3>1 DEF RowsGood
  <2>6. \A q \in DOMAIN rows : q \in DOMAIN ui.rows /\ rows[q].agent = ui.rows[q].agent
    BY <2>1, <2>3
  <2> HIDE DEF rows
  <2>7. ui' = [sessions |-> ui.sessions, rows |-> rows, refresh |-> ui.refresh]
    BY <1>2, <2>4
  <2>8. UiGood(ui', epoch', tasks')
    BY <1>4, <2>5, <2>7 DEF TurnsInv, UiGood
  <2>9. RowsShowActivity'
    BY <2>6, <2>7 DEF TurnsInv, RowsShowActivity
  <2> QED
    BY <1>3, <2>8, <2>9 DEF TurnsInv
<1> QED
  BY <1>5, <1>6

LEMMA StartRefreshKeeps == TurnsInv /\ StartRefresh => TurnsInv'
<1> SUFFICES ASSUME TurnsInv, StartRefresh PROVE TurnsInv'
  OBVIOUS
<1>1. ui' = [sessions |-> ui.sessions, rows |-> ui.rows, refresh |-> ui.rows]
  BY DEF TurnsInv, UiGood, StartRefresh
<1>2. UNCHANGED <<tasks, epoch, busy>>
  BY DEF StartRefresh
<1>3. UiGood(ui', epoch', tasks')
  BY <1>1, <1>2 DEF TurnsInv, UiGood
<1> QED
  BY <1>1, <1>2, <1>3 DEF TurnsInv, TasksGood, BusyGood, RowsShowActivity

-----------------------------------------------------------------------------
(* The theorems *)

LEMMA InitInv == Init => TurnsInv
<1> SUFFICES ASSUME Init PROVE TurnsInv
  OBVIOUS
<1>1. /\ ui = [sessions |-> EmptyMap, rows |-> [p \in Paths |-> NewRow], refresh |-> None]
      /\ tasks = {} /\ epoch = [p \in Paths |-> 0] /\ busy = {}
  BY DEF Init
<1>2. DOMAIN EmptyMap = {} /\ EmptyMap \in [{} -> AgentState]
  BY DEF EmptyMap
<1>3. RowsGood(ui.rows, epoch, tasks)
  BY <1>1, NewRowGood DEF RowsGood
<1>4. UiGood(ui, epoch, tasks)
  BY <1>1, <1>2, <1>3 DEF UiGood
<1>5. TasksGood(epoch, tasks) /\ BusyGood
  BY <1>1 DEF TasksGood, BusyGood
<1>6. RowsShowActivity
  BY <1>1, <1>2 DEF RowsShowActivity, NewRow, Derived
<1> QED
  BY <1>4, <1>5, <1>6 DEF TurnsInv

LEMMA StepInv == TurnsInv /\ [Next]_vars => TurnsInv'
<1> SUFFICES ASSUME TurnsInv, [Next]_vars PROVE TurnsInv'
  OBVIOUS
<1>1. /\ DOMAIN ui.sessions \subseteq Sessions
      /\ ui.sessions \in [DOMAIN ui.sessions -> AgentState]
  BY DEF TurnsInv, UiGood
<1>2. ASSUME NEW S \in SUBSET Sessions, NEW sessions \in [S -> AgentState], Snapshot(sessions)
      PROVE  TurnsInv'
  BY <1>2, MessageKeeps DEF Snapshot
<1>3. ASSUME NEW s \in Sessions, NEW state \in AgentState, Update(s, state)
      PROVE  TurnsInv'
  <2> DEFINE sessions == Put(ui.sessions, s, state)
  <2>1. DOMAIN sessions \subseteq Sessions /\ sessions \in [DOMAIN sessions -> AgentState]
    BY <1>1 DEF Put
  <2>2. Receive /\ Reconcile([ui EXCEPT !.sessions = sessions], TRUE)
    BY <1>3 DEF Update
  <2> HIDE DEF sessions
  <2> QED
    BY <2>1, <2>2, MessageKeeps
<1>4. ASSUME NEW s \in Sessions, Clear(s)
      PROVE  TurnsInv'
  <2> DEFINE sessions == Drop(ui.sessions, s)
  <2>1. DOMAIN sessions \subseteq Sessions /\ sessions \in [DOMAIN sessions -> AgentState]
    BY <1>1 DEF Drop, Restrict
  <2>2. Receive /\ Reconcile([ui EXCEPT !.sessions = sessions], FALSE)
    BY <1>4 DEF Clear
  <2> HIDE DEF sessions
  <2> QED
    BY <2>1, <2>2, MessageKeeps
<1>5. ASSUME NEW t \in tasks, TaskStep(t) PROVE TurnsInv'
  BY <1>5, TaskKeeps, ReportKeeps DEF TaskStep
<1>6. CASE StartRefresh
  BY <1>6, StartRefreshKeeps
<1>7. ASSUME NEW listed \in SUBSET Paths, ApplyRefresh(listed) PROVE TurnsInv'
  BY <1>7, ApplyRefreshKeeps
<1>8. CASE UNCHANGED vars
  <2>1. /\ ui' = ui /\ tasks' = tasks /\ epoch' = epoch /\ busy' = busy
    BY <1>8 DEF vars
  <2> QED
    BY <2>1 DEF TurnsInv, BusyGood, RowsShowActivity
<1> QED
  BY <1>2, <1>3, <1>4, <1>5, <1>6, <1>7, <1>8 DEF Next

LEMMA TurnsInvariant == Spec => []TurnsInv
BY InitInv, StepInv, PTL DEF Spec

\* TypeOK of AgentTurns: a row keeps no more turns than it may.
THEOREM TurnsTypeCorrect == Spec => []TypeOK
<1>1. TurnsInv => TypeOK
  BY DEF TurnsInv, UiGood, RowsGood, RowGood, TasksGood, BusyGood, TypeOK
<1> QED
  BY <1>1, TurnsInvariant, PTL

\* RowsShowActivity: no handler leaves a row behind the sessions.
THEOREM RowsAreCurrent == Spec => []RowsShowActivity
<1>1. TurnsInv => RowsShowActivity
  BY DEF TurnsInv
<1> QED
  BY <1>1, TurnsInvariant, PTL

\* OneCheckpoint: the set of busy worktrees admits one checkpoint to each.
THEOREM CheckpointsAreExclusive == Spec => []OneCheckpoint
<1>1. TurnsInv => OneCheckpoint
  BY DEF TurnsInv, BusyGood, Holds, OneCheckpoint
<1> QED
  BY <1>1, TurnsInvariant, PTL

\* TurnsInOrder: what a row records is in the order of the epochs.
THEOREM TurnsStayInOrder == Spec => []TurnsInOrder
<1>1. TurnsInv => TurnsInOrder
  BY DEF TurnsInv, UiGood, RowsGood, RowGood, Ordered, TurnsInOrder
<1> QED
  BY <1>1, TurnsInvariant, PTL

\* StuckMatchesTurns: the count of turns without change is that of the list.
THEOREM StuckIsCounted == Spec => []StuckMatchesTurns
<1>1. TurnsInv => StuckMatchesTurns
  BY DEF TurnsInv, UiGood, RowsGood, RowGood, Counted, StuckMatchesTurns
<1> QED
  BY <1>1, TurnsInvariant, PTL
=============================================================================
