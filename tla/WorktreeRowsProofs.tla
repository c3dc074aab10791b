------------------------- MODULE WorktreeRowsProofs -------------------------
(***************************************************************************)
(* Theorems about the worktree rows of the window, for every set of        *)
(* worktrees, repositories and branches and every budget.  The operators   *)
(* of WorktreeRows take a record u and give the next one, and so do the    *)
(* lemmas: each says what an operation keeps of a window that is in order. *)
(***************************************************************************)
EXTENDS WorktreeRows, FiniteSetTheorems, WellFoundedInduction, TLAPS

-----------------------------------------------------------------------------
(* Data *)

\* The maps of rows and of the cache: some paths, each with a member of T.
MapsTo(T) == UNION {[S -> T] : S \in SUBSET Paths}

LEMMA MapElements ==
    ASSUME NEW T, NEW f \in MapsTo(T)
    PROVE  DOMAIN f \subseteq Paths /\ (\A p \in DOMAIN f : f[p] \in T) /\ f \in [DOMAIN f -> T]
BY DEF MapsTo

LEMMA MapMade ==
    ASSUME NEW T, NEW S \in SUBSET Paths, NEW f \in [S -> T]
    PROVE  f \in MapsTo(T)
BY DEF MapsTo

\* Rows, what is remembered of them and answers that hold no pull request but one
\* found for the branch they name.
GoodRow == {r \in Row : r.pr = None \/ r.pr.asked = r.branch}

GoodMemory ==
    {c \in [branch : Branches, pr : PullRequest \cup {None}] :
        c.pr = None \/ c.pr.asked = c.branch}

GoodAnswer == {a \in PrAnswer : a.pr = None \/ a.pr.asked = a.asked}

Saved == [cache : MapsTo(GoodMemory), selection : Paths \cup Repos \cup {None}]

Store == [pending : Saved \cup {None}, inFlight : Saved \cup {None}, last : Saved]

Captured ==
    [rows : MapsTo(GoodRow), cache : MapsTo(GoodMemory), repo : Repos, select : Paths \cup {None}]

PrTask == [todo : SUBSET (Paths \X Tracked), answers : Seq(GoodAnswer)]

Rates == {"free", "limited", "expired"}

UI == [rows : MapsTo(GoodRow), statsLoading : BOOLEAN, prsLoading : BOOLEAN, rate : Rates,
       repo : Repos, selected : Paths \cup {None}, restoring : BOOLEAN,
       pending : Paths \cup {None}, refresh : Captured \cup {None}, prTasks : Seq(PrTask),
       diffTasks : Seq((SUBSET Paths) \ {{}}), store : Store,
       modal : Modal \cup {None}, deletion : [path : Paths, label : Paths] \cup {None}]

\* The two flags that keep refreshes from starting belong to tasks.
PrsUnderWay(u) == u.prsLoading => u.prTasks # <<>>

StatsUnderWay(u) == u.statsLoading => u.diffTasks # <<>>

\* A refresh that is under way selects the worktree the user created.
SelectsPending(u) == u.refresh # None /\ u.pending # None => u.refresh.select = u.pending

SelectedIsListed(u) == u.selected # None => u.selected \in DOMAIN u.rows

Good(u) ==
    u \in UI /\ PrsUnderWay(u) /\ StatsUnderWay(u) /\ SelectsPending(u) /\ SelectedIsListed(u)

Budget ==
    [changes : Nat, restarts : Nat, clicks : Nat, limits : Nat, failures : Nat, ticks : Nat]

RowsInv == disk \in MapsTo(Branches) /\ left \in Budget /\ Good(ui)

-----------------------------------------------------------------------------
(* The order of the rows *)

LEMMA MinOfNat ==
    ASSUME NEW S \in SUBSET Nat, S # {}
    PROVE  \E m \in S : \A n \in S : m <= n
<1>1. PICK m \in S : \A n \in S : ~(<<n, m>> \in OpToRel(<, Nat))
  BY WFMin, NatLessThanWellFounded, Zenon
<1>2. \A n \in S : ~(n < m)
  BY <1>1 DEF OpToRel
<1> QED
  BY <1>2

LEMMA IndexType ==
    ASSUME NEW rows, NEW p
    PROVE  /\ IndexOf(rows, p) \in Nat
           /\ p \in DOMAIN rows \cap Paths => IndexOf(rows, p) \in DOMAIN Order
<1> DEFINE before == {n \in DOMAIN Order : Order[n] \in DOMAIN rows
                         /\ \E m \in DOMAIN Order : n <= m /\ Order[m] = p}
<1>1. DOMAIN Order = 1..Len(Order) /\ Len(Order) \in Nat
  BY RowsAssumption
<1>2. IsFiniteSet(1..Len(Order)) /\ Cardinality(1..Len(Order)) = Len(Order)
  <2>1. /\ IsFiniteSet(1..Len(Order))
        /\ Cardinality(1..Len(Order)) = IF 1 > Len(Order) THEN 0 ELSE Len(Order) - 1 + 1
    BY <1>1, FS_Interval
  <2> QED
    BY <1>1, <2>1
<1>3. /\ IsFiniteSet(before) /\ Cardinality(before) \in Nat
      /\ Cardinality(before) <= Len(Order)
  BY <1>1, <1>2, FS_Subset, FS_CardinalityType
<1>4. ASSUME p \in DOMAIN rows \cap Paths PROVE Cardinality(before) # 0
  <2>1. PICK n \in DOMAIN Order : Order[n] = p
    BY <1>4 DEF Paths
  <2>2. n \in before
    BY <1>1, <1>4, <2>1
  <2> QED
    BY <1>3, <2>2, FS_EmptySet
<1> HIDE DEF before
<1>5. Cardinality(before) \in Nat /\ (p \in DOMAIN rows \cap Paths => Cardinality(before) \in DOMAIN Order)
  BY <1>1, <1>3, <1>4
<1> QED
  BY <1>5 DEF IndexOf, before

LEMMA FirstIsListed ==
    ASSUME NEW rows, NEW S
    PROVE  FirstOf(rows, S) = None \/ FirstOf(rows, S) \in DOMAIN rows \cap S
<1> DEFINE listed == DOMAIN rows \cap S
<1>1. CASE listed = {}
  BY <1>1 DEF FirstOf
<1>2. CASE listed # {}
  <2> DEFINE indices == {IndexOf(rows, q) : q \in listed}
  <2>0. indices \in SUBSET Nat /\ indices # {}
    BY <1>2, IndexType
  <2>1. PICK m \in indices : \A n \in indices : m <= n
    BY <2>0, MinOfNat
  <2>2. PICK p \in listed : \A q \in listed : IndexOf(rows, p) <= IndexOf(rows, q)
    BY <2>1
  <2> QED
    BY <1>2, <2>2 DEF FirstOf
<1> QED
  BY <1>1, <1>2

LEMMA PathAtType ==
    ASSUME NEW rows, NEW n
    PROVE  PathAt(rows, n) = None \/ PathAt(rows, n) \in DOMAIN rows
BY DEF PathAt

-----------------------------------------------------------------------------
(* The saved state *)

LEMMA SnapshotType ==
    ASSUME NEW rows \in MapsTo(GoodRow)
    PROVE  Snapshot(rows) \in MapsTo(GoodMemory)
<1> DEFINE S == {p \in DOMAIN rows : rows[p].loaded}
<1>1. S \in SUBSET Paths /\ \A p \in S : rows[p] \in GoodRow
  BY MapElements
<1>2. \A p \in S : [branch |-> rows[p].branch, pr |-> rows[p].pr] \in GoodMemory
  BY <1>1 DEF GoodRow, GoodMemory, Row
<1>3. Snapshot(rows) \in [S -> GoodMemory]
  BY <1>2 DEF Snapshot
<1> QED
  BY <1>1, <1>3, MapMade

\* The state that is queued next is one that may be saved.
LEMMA BaseType ==
    ASSUME NEW u, u.store \in Store
    PROVE  QueuedBase(u) \in Saved
BY DEF QueuedBase, Store

LEMMA BeginNextType ==
    ASSUME NEW s \in Store
    PROVE  BeginNext(s) \in Store
BY DEF BeginNext, Store

\* What saving the state leaves alone: everything but the store.
LEMMA QueuedOK ==
    ASSUME NEW u \in UI, NEW next \in Saved
    PROVE  /\ Queued(u, next) \in UI
           /\ Queued(u, next).rows = u.rows /\ Queued(u, next).statsLoading = u.statsLoading
           /\ Queued(u, next).prsLoading = u.prsLoading
           /\ Queued(u, next).selected = u.selected
           /\ Queued(u, next).pending = u.pending /\ Queued(u, next).refresh = u.refresh
           /\ Queued(u, next).prTasks = u.prTasks /\ Queued(u, next).diffTasks = u.diffTasks
<1> DEFINE store == BeginNext([u.store EXCEPT !.pending = NextPending(u.store, next)])
<1>1. u.store \in Store
  BY DEF UI
<1>2. NextPending(u.store, next) \in Saved \cup {None}
  BY <1>1 DEF NextPending, Store
<1>3. store \in Store
  BY <1>1, <1>2, BeginNextType DEF Store
<1>4. Queued(u, next) = [u EXCEPT !.store = store]
  BY DEF Queued
<1> HIDE DEF store
<1> QED
  BY <1>3, <1>4 DEF UI

\* What SyncCache and SyncNavigation leave alone.
OnlySaved(u, v) ==
    /\ v \in UI
    /\ v.rows = u.rows /\ v.statsLoading = u.statsLoading /\ v.prsLoading = u.prsLoading
    /\ v.selected = u.selected /\ v.pending = u.pending /\ v.refresh = u.refresh
    /\ v.prTasks = u.prTasks /\ v.diffTasks = u.diffTasks

LEMMA SyncOK ==
    ASSUME NEW u \in UI
    PROVE  OnlySaved(u, SyncCache(u))
<1>1. Snapshot(u.rows) \in MapsTo(GoodMemory) /\ QueuedBase(u) \in Saved
  BY SnapshotType, BaseType DEF UI
<1>2. [QueuedBase(u) EXCEPT !.cache = Snapshot(u.rows)] \in Saved
  BY <1>1 DEF Saved
<1> QED
  BY <1>2, QueuedOK DEF SyncCache, OnlySaved

LEMMA SyncNavigationOK ==
    ASSUME NEW u \in UI
    PROVE  OnlySaved(u, SyncNavigation(u))
<1>1. QueuedBase(u) \in Saved
  BY BaseType DEF UI
<1>2. SelectionToSave(u) \in Paths \cup Repos \cup {None}
  BY <1>1 DEF SelectionToSave, Saved, UI
<1>3. [QueuedBase(u) EXCEPT !.selection = SelectionToSave(u)] \in Saved
  BY <1>1, <1>2 DEF Saved
<1> QED
  BY <1>3, QueuedOK DEF SyncNavigation, OnlySaved

LEMMA SyncIfChangedOK ==
    ASSUME NEW u, NEW v \in UI
    PROVE  OnlySaved(v, SyncIfChanged(u, v))
BY SyncOK DEF SyncIfChanged, OnlySaved

\* What a step that leaves the refresh and the selection alone keeps.
Apart(u, v) ==
    /\ v \in UI /\ DOMAIN v.rows = DOMAIN u.rows
    /\ v.pending = u.pending /\ v.refresh = u.refresh /\ v.selected = u.selected

LEMMA ApartKeeps ==
    ASSUME NEW u, NEW v, Apart(u, v), SelectsPending(u), SelectedIsListed(u)
    PROVE  SelectsPending(v) /\ SelectedIsListed(v)
BY DEF Apart, SelectsPending, SelectedIsListed

-----------------------------------------------------------------------------
(* The pull request refresh *)

LEMMA WorkType ==
    ASSUME NEW rows \in MapsTo(GoodRow), NEW work \in SUBSET LookedUp(rows)
    PROVE  {<<p, rows[p].branch>> : p \in work} \in SUBSET (Paths \X Tracked)
BY MapElements DEF LookedUp

LEMMA InSet == ASSUME NEW x, NEW S PROVE (x \in S) \in BOOLEAN
OBVIOUS

LEMMA StartedType ==
    ASSUME NEW row \in GoodRow, NEW looked \in BOOLEAN, NEW now \in BOOLEAN
    PROVE  Started(row, looked, now) \in GoodRow
BY DEF Started, GoodRow, Row

LEMMA RefreshPullRequestsOK ==
    ASSUME NEW u \in UI, PrsUnderWay(u)
    PROVE  /\ Apart(u, RefreshPullRequests(u)) /\ PrsUnderWay(RefreshPullRequests(u))
           /\ RefreshPullRequests(u).statsLoading = u.statsLoading
           /\ RefreshPullRequests(u).diffTasks = u.diffTasks
<1>1. CASE u.prsLoading
  BY <1>1 DEF RefreshPullRequests, Apart
<1>2. CASE ~u.prsLoading
  <2> DEFINE work == IF u.rate = "limited" THEN {} ELSE LookedUp(u.rows)
             items == {<<p, u.rows[p].branch>> : p \in work}
             rate == IF u.rate = "expired" THEN "free" ELSE u.rate
             rows == [p \in DOMAIN u.rows |->
                        Started(u.rows[p], p \in LookedUp(u.rows), p \in work)]
             tasks == IF work = {} THEN u.prTasks
                      ELSE Append(u.prTasks, [todo |-> items, answers |-> <<>>])
             v == [u EXCEPT !.rate = rate, !.rows = rows, !.prsLoading = work # {}, !.prTasks = tasks]
  <2>1. /\ u.rows \in MapsTo(GoodRow) /\ u.prTasks \in Seq(PrTask)
        /\ u.rate \in Rates /\ rate \in Rates
    BY DEF UI, Rates
  <2>2. rows \in MapsTo(GoodRow) /\ DOMAIN rows = DOMAIN u.rows
    <3>1. \A p \in DOMAIN u.rows : u.rows[p] \in GoodRow
      BY <2>1, MapElements
    <3>2. \A p \in DOMAIN u.rows : rows[p] \in GoodRow
      BY <3>1, StartedType, InSet
    <3> QED
      BY <2>1, <3>2, MapElements, MapMade
  <2>3. work \in SUBSET LookedUp(u.rows)
    OBVIOUS
  <2>4. tasks \in Seq(PrTask) /\ (work # {} => tasks # <<>>)
    <3>1. items \in SUBSET (Paths \X Tracked)
      BY <2>1, <2>3, WorkType
    <3>2. [todo |-> items, answers |-> <<>>] \in PrTask
      BY <3>1 DEF PrTask
    <3> QED
      BY <2>1, <3>2
  <2>5. RefreshPullRequests(u) = SyncIfChanged(u, v)
    BY <1>2 DEF RefreshPullRequests
  <2> HIDE DEF rows, tasks, work, rate
  <2>6. v \in UI /\ v.rows = rows /\ v.prTasks = tasks /\ v.prsLoading = (work # {})
        /\ v.pending = u.pending /\ v.refresh = u.refresh /\ v.selected = u.selected
        /\ v.statsLoading = u.statsLoading /\ v.diffTasks = u.diffTasks
    BY <2>1, <2>2, <2>4 DEF UI
  <2> HIDE DEF v
  <2>7. OnlySaved(v, RefreshPullRequests(u))
    BY <2>5, <2>6, SyncIfChangedOK
  <2>8. Apart(u, RefreshPullRequests(u))
    BY <2>2, <2>6, <2>7 DEF OnlySaved, Apart
  <2> QED
    BY <2>4, <2>6, <2>7, <2>8 DEF OnlySaved, PrsUnderWay
<1> QED
  BY <1>1, <1>2

LEMMA WithAnswerType ==
    ASSUME NEW row \in GoodRow, NEW a \in GoodAnswer, a.asked = row.branch
    PROVE  WithAnswer(row, a.pr, a.limited) \in GoodRow
BY DEF WithAnswer, GoodRow, GoodAnswer, Row, PrAnswer

\* An answer is shown on a row of the branch that was asked about, while its task is there.
LEMMA AnsweredOK ==
    ASSUME NEW u \in UI, NEW a \in GoodAnswer, u.prTasks # <<>>
    PROVE  /\ Apart(u, Answered(u, a)) /\ PrsUnderWay(Answered(u, a))
           /\ Answered(u, a).statsLoading = u.statsLoading
           /\ Answered(u, a).diffTasks = u.diffTasks
<1> DEFINE p == a.path
<1>1. CASE p \notin DOMAIN u.rows \/ u.rows[p].branch # a.asked
  BY <1>1 DEF Answered, Apart, PrsUnderWay
<1>2. CASE p \in DOMAIN u.rows /\ u.rows[p].branch = a.asked
  <2> DEFINE rows == [u.rows EXCEPT ![p] = WithAnswer(@, a.pr, a.limited)]
             loading == Loading([u EXCEPT !.rows = rows])
             rate == IF a.limited THEN "limited" ELSE u.rate
             v == [u EXCEPT !.rows = rows, !.rate = rate, !.prsLoading = loading]
  <2>1. u.rows \in MapsTo(GoodRow)
    BY DEF UI
  <2>2. /\ DOMAIN u.rows \in SUBSET Paths /\ u.rows \in [DOMAIN u.rows -> GoodRow]
        /\ u.rows[p] \in GoodRow
    BY <1>2, <2>1, MapElements
  <2>3. WithAnswer(u.rows[p], a.pr, a.limited) \in GoodRow
    BY <1>2, <2>2, WithAnswerType
  <2>4. rows \in [DOMAIN u.rows -> GoodRow]
    BY <2>2, <2>3
  <2>5. rows \in MapsTo(GoodRow) /\ DOMAIN rows = DOMAIN u.rows
    BY <2>2, <2>4, MapMade
  <2>6. loading \in BOOLEAN /\ rate \in Rates
    BY DEF Loading, UI, Rates
  <2>7. Answered(u, a) \in {SyncCache(v), SyncIfChanged(u, v)}
    BY <1>2 DEF Answered, Shown
  <2> HIDE DEF rows, loading, rate
  <2>8. /\ v \in UI /\ v.rows = rows /\ v.prTasks = u.prTasks
        /\ v.pending = u.pending /\ v.refresh = u.refresh /\ v.selected = u.selected
        /\ v.statsLoading = u.statsLoading /\ v.diffTasks = u.diffTasks
    BY <2>5, <2>6 DEF UI
  <2> HIDE DEF v
  <2>9. OnlySaved(v, Answered(u, a))
    BY <2>7, <2>8, SyncOK, SyncIfChangedOK
  <2> QED
    BY <2>5, <2>8, <2>9 DEF OnlySaved, Apart, PrsUnderWay
<1> QED
  BY <1>1, <1>2

\* No row is being loaded any more.
StillRows(rows) == [p \in DOMAIN rows |-> [rows[p] EXCEPT !.loading = FALSE]]

LEMMA StillRowsType ==
    ASSUME NEW rows \in MapsTo(GoodRow)
    PROVE  StillRows(rows) \in MapsTo(GoodRow) /\ DOMAIN StillRows(rows) = DOMAIN rows
<1>1. DOMAIN rows \in SUBSET Paths /\ \A p \in DOMAIN rows : rows[p] \in GoodRow
  BY MapElements
<1>2. \A p \in DOMAIN rows : [rows[p] EXCEPT !.loading = FALSE] \in GoodRow
  BY <1>1 DEF GoodRow, Row
<1> QED
  BY <1>1, <1>2, MapMade DEF StillRows

LEMMA AllAnsweredOK ==
    ASSUME NEW u \in UI
    PROVE  /\ Apart(u, AllAnswered(u)) /\ PrsUnderWay(AllAnswered(u))
           /\ AllAnswered(u).statsLoading = u.statsLoading
           /\ AllAnswered(u).diffTasks = u.diffTasks
<1> DEFINE v == [u EXCEPT !.prsLoading = FALSE, !.rows = StillRows(u.rows)]
<1>1. AllAnswered(u) = SyncIfChanged(u, v)
  BY DEF AllAnswered, StillRows
<1>2. StillRows(u.rows) \in MapsTo(GoodRow) /\ DOMAIN StillRows(u.rows) = DOMAIN u.rows
  BY StillRowsType DEF UI
<1>3. /\ v \in UI /\ v.rows = StillRows(u.rows) /\ ~v.prsLoading
      /\ v.pending = u.pending /\ v.refresh = u.refresh /\ v.selected = u.selected
      /\ v.statsLoading = u.statsLoading /\ v.diffTasks = u.diffTasks
  BY <1>2 DEF UI
<1> HIDE DEF v
<1> QED
  BY <1>1, <1>2, <1>3, SyncIfChangedOK DEF OnlySaved, Apart, PrsUnderWay

-----------------------------------------------------------------------------
(* The diff refresh *)

LEMMA RefreshDiffSummariesOK ==
    ASSUME NEW u \in UI
    PROVE  /\ Apart(u, RefreshDiffSummaries(u))
           /\ RefreshDiffSummaries(u).rows = u.rows
           /\ RefreshDiffSummaries(u).prsLoading = u.prsLoading
           /\ RefreshDiffSummaries(u).prTasks = u.prTasks
           /\ StatsUnderWay(RefreshDiffSummaries(u))
<1>1. u.rows \in MapsTo(GoodRow) /\ u.diffTasks \in Seq((SUBSET Paths) \ {{}})
  BY DEF UI
<1>2. CASE u.rows = EmptyMap
  BY <1>2 DEF RefreshDiffSummaries, Apart, StatsUnderWay, UI
<1>3. CASE u.rows # EmptyMap
  <2>1. DOMAIN u.rows \in (SUBSET Paths) \ {{}}
    BY <1>1, <1>3, MapElements DEF EmptyMap
  <2>2. /\ Append(u.diffTasks, DOMAIN u.rows) \in Seq((SUBSET Paths) \ {{}})
        /\ Append(u.diffTasks, DOMAIN u.rows) # <<>>
    BY <1>1, <2>1
  <2> QED
    BY <1>3, <2>2 DEF RefreshDiffSummaries, Apart, StatsUnderWay, UI
<1> QED
  BY <1>2, <1>3

LEMMA DiffsDoneOK ==
    ASSUME NEW u \in UI, NEW paths, NEW ok
    PROVE  /\ Apart(u, DiffsDone(u, paths, ok)) /\ StatsUnderWay(DiffsDone(u, paths, ok))
           /\ DiffsDone(u, paths, ok).prsLoading = u.prsLoading
           /\ DiffsDone(u, paths, ok).prTasks = u.prTasks
<1> DEFINE rows == [p \in DOMAIN u.rows |->
                        IF p \in paths THEN Counted(u.rows[p], p \in ok) ELSE u.rows[p]]
<1>1. DOMAIN u.rows \in SUBSET Paths /\ \A p \in DOMAIN u.rows : u.rows[p] \in GoodRow
  BY MapElements DEF UI
<1>2. \A row \in GoodRow, b \in BOOLEAN : Counted(row, b) \in GoodRow
  BY DEF Counted, GoodRow, Row
<1>3. \A p \in DOMAIN u.rows : rows[p] \in GoodRow
  BY <1>1, <1>2, InSet
<1>4. rows \in MapsTo(GoodRow) /\ DOMAIN rows = DOMAIN u.rows
  BY <1>1, <1>3, MapMade
<1>5. DiffsDone(u, paths, ok) = [u EXCEPT !.statsLoading = FALSE, !.rows = rows]
  BY DEF DiffsDone
<1> HIDE DEF rows
<1> QED
  BY <1>4, <1>5 DEF Apart, StatsUnderWay, UI

-----------------------------------------------------------------------------
(* The inventory refresh *)

\* A refresh selects what waits to be selected.
LEMMA StartRefreshOK ==
    ASSUME NEW u \in UI
    PROVE  /\ StartRefresh(u) \in UI /\ SelectsPending(StartRefresh(u))
           /\ StartRefresh(u).rows = u.rows /\ StartRefresh(u).selected = u.selected
           /\ StartRefresh(u).pending = u.pending
           /\ StartRefresh(u).prsLoading = u.prsLoading /\ StartRefresh(u).prTasks = u.prTasks
           /\ StartRefresh(u).statsLoading = u.statsLoading
           /\ StartRefresh(u).diffTasks = u.diffTasks
<1> DEFINE r == [rows |-> u.rows, cache |-> u.store.last.cache, repo |-> u.repo,
                 select |-> PreviousSelection(u)]
<1>1. r \in Captured /\ (u.pending # None => r.select = u.pending)
  <2>1. u.store.last.cache \in MapsTo(GoodMemory)
    BY DEF UI, Store, Saved
  <2>2. PreviousSelection(u) \in Paths \cup {None}
    BY DEF UI, PreviousSelection
  <2>3. u.pending # None => PreviousSelection(u) = u.pending
    BY DEF PreviousSelection
  <2> QED
    BY <2>1, <2>2, <2>3 DEF UI, Captured
<1>2. StartRefresh(u) = [u EXCEPT !.refresh = r]
  BY DEF StartRefresh
<1> HIDE DEF r
<1> QED
  BY <1>1, <1>2 DEF UI, SelectsPending

LEMMA StartGood ==
    ASSUME NEW u \in UI, PrsUnderWay(u), StatsUnderWay(u), SelectedIsListed(u)
    PROVE  Good(StartRefresh(u))
BY StartRefreshOK DEF Good, PrsUnderWay, StatsUnderWay, SelectedIsListed

\* Only what was known of the same branch is carried over, but for the diff.
LEMMA CarriedType ==
    ASSUME NEW r \in Captured, NEW p, NEW b \in Branches
    PROVE  Carried(r, p, b) \in GoodRow
<1>1. r.rows \in MapsTo(GoodRow) /\ r.cache \in MapsTo(GoodMemory)
  BY DEF Captured
<1>2. /\ p \in DOMAIN r.rows => r.rows[p] \in GoodRow
      /\ p \in DOMAIN r.cache => r.cache[p] \in GoodMemory
  BY <1>1, MapElements
<1> DEFINE diff == p \in DOMAIN r.rows /\ r.rows[p].diff
<1>3. diff \in BOOLEAN
  BY <1>2 DEF GoodRow, Row
<1>4. CASE p \in DOMAIN r.rows /\ r.rows[p].branch = b
  BY <1>2, <1>4 DEF Carried
<1>5. CASE /\ ~(p \in DOMAIN r.rows /\ r.rows[p].branch = b)
           /\ p \in DOMAIN r.cache /\ r.cache[p].branch = b
  <2>1. Carried(r, p, b) = [NewRow(b) EXCEPT !.pr = r.cache[p].pr, !.loaded = TRUE, !.diff = diff]
    BY <1>5 DEF Carried
  <2> HIDE DEF diff
  <2>2. r.cache[p].pr \in PullRequest \cup {None} /\ (r.cache[p].pr = None \/ r.cache[p].pr.asked = b)
    BY <1>2, <1>5 DEF GoodMemory
  <2> QED
    BY <1>3, <2>1, <2>2 DEF GoodRow, Row, NewRow
<1>6. CASE /\ ~(p \in DOMAIN r.rows /\ r.rows[p].branch = b)
           /\ ~(p \in DOMAIN r.cache /\ r.cache[p].branch = b)
  <2>1. Carried(r, p, b) = [NewRow(b) EXCEPT !.diff = diff]
    BY <1>6 DEF Carried
  <2> HIDE DEF diff
  <2> QED
    BY <1>3, <2>1 DEF GoodRow, Row, NewRow
<1> QED
  BY <1>4, <1>5, <1>6

LEMMA NextSelectedType ==
    ASSUME NEW r, NEW rows
    PROVE  /\ NextSelected(r, rows) = None \/ NextSelected(r, rows) \in DOMAIN rows
           /\ r.select \in DOMAIN rows => NextSelected(r, rows) = r.select
BY FirstIsListed DEF NextSelected

\* A refresh ends: what it made of the rows is in order, and what waited to be
\* selected is selected or waits on.
LEMMA ReplacedOK ==
    ASSUME NEW u, Good(u), u.refresh # None,
           NEW found \in MapsTo(Branches), NEW failed \in BOOLEAN, NEW other \in BOOLEAN,
           NEW v, v = Replaced(u, found, failed, other)
    PROVE  /\ Good(v)
           /\ v.pending = u.pending \/ (v.pending = None /\ v.selected = u.pending)
<1> DEFINE r == u.refresh
           rows == [p \in DOMAIN found |-> Carried(r, p, found[p])]
           full == other \/ BranchOf(rows) # BranchOf(u.rows)
           selected == NextSelected(r, rows)
           pending == IF u.pending \in DOMAIN rows THEN None ELSE u.pending
           repo == IF selected = None THEN u.repo ELSE Repo[selected]
           stats == ~failed /\ \E p \in DOMAIN rows : ~rows[p].diff
           restoring == u.restoring /\ selected = None /\ failed
           w == [u EXCEPT !.rows = rows, !.refresh = None, !.selected = selected,
                          !.pending = pending, !.restoring = restoring, !.repo = repo,
                          !.statsLoading = stats]
           shown == SyncNavigation(SyncCache(w))
           counted == IF full \/ shown.statsLoading THEN RefreshDiffSummaries(shown) ELSE shown
<1>1. v = IF ShouldRefreshPullRequests(u.rows, rows) THEN RefreshPullRequests(counted) ELSE counted
  BY DEF Replaced
<1>2. /\ u \in UI /\ r \in Captured
      /\ DOMAIN found \in SUBSET Paths /\ \A p \in DOMAIN found : found[p] \in Branches
  BY MapElements DEF Good, UI
<1>3. rows \in MapsTo(GoodRow) /\ DOMAIN rows \in SUBSET Paths
  <2>1. \A p \in DOMAIN found : rows[p] \in GoodRow
    BY <1>2, CarriedType
  <2> QED
    BY <1>2, <2>1, MapMade
<1>4. /\ selected = None \/ selected \in DOMAIN rows
      /\ pending \in Paths \cup {None} /\ repo \in Repos /\ stats \in BOOLEAN
      /\ restoring \in BOOLEAN
  <2>1. selected = None \/ selected \in DOMAIN rows
    BY NextSelectedType
  <2>2. pending \in Paths \cup {None} /\ u.repo \in Repos
    BY <1>2 DEF UI
  <2> QED
    BY <1>3, <2>1, <2>2, RowsAssumption
<1>5. pending = u.pending \/ (pending = None /\ selected = u.pending)
  <2>1. u.pending \in DOMAIN rows => u.pending # None
    BY <1>3, RowsAssumption
  <2> QED
    BY <2>1, NextSelectedType DEF Good, SelectsPending
<1> HIDE DEF rows, selected, pending, repo, stats, restoring, full
<1>6. /\ w \in UI /\ w.rows = rows /\ w.selected = selected /\ w.pending = pending /\ w.refresh = None
      /\ w.prsLoading = u.prsLoading /\ w.prTasks = u.prTasks
  BY <1>2, <1>3, <1>4 DEF UI
<1> HIDE DEF w
<1>7. /\ shown \in UI /\ shown.rows = rows /\ shown.selected = selected
      /\ shown.pending = pending /\ shown.refresh = None
      /\ PrsUnderWay(shown)
  <2>1. OnlySaved(w, SyncCache(w)) /\ OnlySaved(SyncCache(w), shown)
    BY <1>6, SyncOK, SyncNavigationOK DEF OnlySaved
  <2> QED
    BY <1>6, <2>1 DEF OnlySaved, Good, PrsUnderWay
<1> HIDE DEF shown
<1>8. /\ counted \in UI /\ DOMAIN counted.rows = DOMAIN rows /\ counted.selected = selected
      /\ counted.pending = pending /\ counted.refresh = None
      /\ PrsUnderWay(counted) /\ StatsUnderWay(counted)
  <2>1. CASE full \/ shown.statsLoading
    BY <1>7, <2>1, RefreshDiffSummariesOK DEF Apart, PrsUnderWay
  <2>2. CASE ~(full \/ shown.statsLoading)
    BY <1>7, <2>2 DEF StatsUnderWay
  <2> QED
    BY <2>1, <2>2
<1> HIDE DEF counted
<1>9. /\ v \in UI /\ DOMAIN v.rows = DOMAIN rows /\ v.selected = selected
      /\ v.pending = pending /\ v.refresh = None
      /\ PrsUnderWay(v) /\ StatsUnderWay(v)
  <2>1. CASE ShouldRefreshPullRequests(u.rows, rows)
    BY <1>1, <1>8, <2>1, RefreshPullRequestsOK DEF Apart, StatsUnderWay
  <2>2. CASE ~ShouldRefreshPullRequests(u.rows, rows)
    BY <1>1, <1>8, <2>2
  <2> QED
    BY <2>1, <2>2
<1> QED
  BY <1>4, <1>5, <1>9 DEF Good, SelectsPending, SelectedIsListed

-----------------------------------------------------------------------------
(* The steps *)

\* What every step does: the window stays in order, and what waits to be selected
\* waits until it is selected or the application restarts.
StaysGood ==
    /\ disk' \in MapsTo(Branches) /\ left' \in Budget /\ Good(ui')
    /\ \/ ui'.pending = ui.pending \/ ui'.pending # None
       \/ ui'.selected = ui.pending
       \/ left'.restarts # left.restarts

LEMMA PayType ==
    ASSUME left \in Budget, NEW kind \in {"changes", "restarts", "clicks", "limits", "failures", "ticks"},
           Pay(kind)
    PROVE  left' \in Budget /\ (kind = "restarts" => left'.restarts # left.restarts)
<1>1. left[kind] \in Nat /\ left[kind] - 1 \in Nat
  BY DEF Pay, Budget
<1>2. left' = [left EXCEPT ![kind] = left[kind] - 1]
  BY DEF Pay
<1> QED
  BY <1>1, <1>2 DEF Budget

\* A step that leaves the refresh and the selection alone.
LEMMA ApartGood ==
    ASSUME NEW u, NEW v, Good(u), Apart(u, v), PrsUnderWay(v), StatsUnderWay(v)
    PROVE  Good(v) /\ v.pending = u.pending
BY DEF Good, Apart, SelectsPending, SelectedIsListed

\* Saving keeps a window in order.
LEMMA OnlySavedGood ==
    ASSUME NEW u, NEW v, Good(u), OnlySaved(u, v)
    PROVE  Good(v) /\ v.pending = u.pending
BY DEF Good, OnlySaved, PrsUnderWay, StatsUnderWay, SelectsPending, SelectedIsListed

LEMMA TimersGood ==
    ASSUME RowsInv, AutoRefresh \/ RefreshWorktrees \/ PullRequestTimer \/ GitActionDone \/ RateLimitEnds
    PROVE  StaysGood
<1> USE DEF RowsInv
<1>0. ui \in UI /\ PrsUnderWay(ui) /\ StatsUnderWay(ui) /\ SelectedIsListed(ui)
  BY DEF Good
<1>1. CASE AutoRefresh \/ RefreshWorktrees
  <2>1. ui' = StartRefresh(ui) /\ UNCHANGED disk /\ left' \in Budget
    BY <1>1, PayType DEF AutoRefresh, RefreshWorktrees, Step, Becomes
  <2> QED
    BY <1>0, <2>1, StartGood, StartRefreshOK DEF StaysGood
<1>2. CASE PullRequestTimer
  <2>1. ui' = RefreshPullRequests(ui) /\ UNCHANGED disk /\ left' \in Budget
    BY <1>2, PayType DEF PullRequestTimer, Becomes
  <2> QED
    BY <1>0, <2>1, RefreshPullRequestsOK, ApartGood DEF StaysGood, StatsUnderWay
<1>3. CASE GitActionDone
  <2> DEFINE u == RefreshDiffSummaries(ui)
  <2>1. ui' = RefreshPullRequests(u) /\ UNCHANGED disk /\ left' \in Budget
    BY <1>3, PayType DEF GitActionDone, Becomes
  <2>2. u \in UI /\ PrsUnderWay(u) /\ Good(u) /\ u.pending = ui.pending
    BY <1>0, RefreshDiffSummariesOK, ApartGood DEF Apart, PrsUnderWay
  <2> HIDE DEF u
  <2> QED
    BY <2>1, <2>2, RefreshPullRequestsOK, ApartGood DEF StaysGood, StatsUnderWay, Good
<1>4. CASE RateLimitEnds
  <2>1. ui' = [ui EXCEPT !.rate = "expired"] /\ UNCHANGED <<disk, left>>
    BY <1>4 DEF RateLimitEnds, Step, Becomes
  <2>2. Apart(ui, ui') /\ PrsUnderWay(ui') /\ StatsUnderWay(ui')
    BY <1>0, <2>1 DEF Apart, PrsUnderWay, StatsUnderWay, UI, Rates, Good
  <2> QED
    BY <2>1, <2>2, ApartGood DEF StaysGood
<1> QED
  BY <1>1, <1>2, <1>3, <1>4

LEMMA ApplyGood ==
    ASSUME RowsInv, NEW bad \in SUBSET Repos, NEW other \in BOOLEAN, Apply(bad, other)
    PROVE  StaysGood
<1> USE DEF RowsInv
<1> DEFINE found == [p \in {q \in DOMAIN disk : Repo[q] \notin bad} |-> disk[p]]
           failed == bad # {}
<1>1. found \in MapsTo(Branches)
  BY MapElements, MapMade
<1>2. failed \in BOOLEAN
  OBVIOUS
<1>3. /\ ui.refresh # None /\ ui' = Replaced(ui, found, failed, other)
      /\ UNCHANGED <<disk, left>>
  BY DEF Apply, Step, Becomes
<1> HIDE DEF found, failed
<1> QED
  BY <1>1, <1>2, <1>3, ReplacedOK DEF StaysGood

\* A task that is over leaves the list.
LEMMA TaskRemoved ==
    ASSUME NEW T, NEW q \in Seq(T), NEW n \in DOMAIN q
    PROVE  SubSeq(q, 1, n - 1) \o SubSeq(q, n + 1, Len(q)) \in Seq(T)
OBVIOUS

LEMMA FinishDiffsGood ==
    ASSUME RowsInv, NEW n \in DOMAIN ui.diffTasks, NEW ok, FinishDiffs(n, ok)
    PROVE  StaysGood
<1> USE DEF RowsInv
<1> DEFINE tasks == SubSeq(ui.diffTasks, 1, n - 1) \o SubSeq(ui.diffTasks, n + 1, Len(ui.diffTasks))
           u == [ui EXCEPT !.diffTasks = tasks]
           paths == ui.diffTasks[n]
<1>1. ui \in UI /\ ui.diffTasks \in Seq((SUBSET Paths) \ {{}})
  BY DEF Good, UI
<1>2. tasks \in Seq((SUBSET Paths) \ {{}})
  BY <1>1, TaskRemoved
<1>3. ui' = DiffsDone(u, paths, ok) /\ UNCHANGED <<disk, left>>
  BY DEF FinishDiffs, Step, Becomes
<1> HIDE DEF tasks
<1>4. /\ u \in UI /\ u.rows = ui.rows /\ u.pending = ui.pending /\ u.refresh = ui.refresh
      /\ u.selected = ui.selected /\ u.prsLoading = ui.prsLoading /\ u.prTasks = ui.prTasks
  BY <1>1, <1>2 DEF UI
<1> HIDE DEF u, paths
<1>5. Apart(ui, ui') /\ PrsUnderWay(ui') /\ StatsUnderWay(ui')
  BY <1>3, <1>4, DiffsDoneOK DEF Apart, PrsUnderWay, Good
<1> QED
  BY <1>3, <1>5, ApartGood DEF StaysGood

\* A step that changes nothing but a task, whose list stays not empty, and then the rows.
LEMMA TaskChanged ==
    ASSUME Good(ui), NEW n \in DOMAIN ui.prTasks, NEW task \in PrTask,
           NEW u, u = [ui EXCEPT !.prTasks[n] = task]
    PROVE  /\ u \in UI /\ u.prTasks # <<>> /\ Apart(ui, u)
           /\ u.rows = ui.rows /\ u.statsLoading = ui.statsLoading
           /\ u.diffTasks = ui.diffTasks
<1>1. ui \in UI /\ ui.prTasks \in Seq(PrTask)
  BY DEF Good, UI
<1>2. /\ [ui.prTasks EXCEPT ![n] = task] \in Seq(PrTask)
      /\ [ui.prTasks EXCEPT ![n] = task] # <<>>
  BY <1>1
<1>3. u = [ui EXCEPT !.prTasks = [ui.prTasks EXCEPT ![n] = task]]
  BY <1>1 DEF UI
<1> QED
  BY <1>1, <1>2, <1>3 DEF UI, Apart

LEMMA LookUpGood ==
    ASSUME RowsInv, NEW n \in DOMAIN ui.prTasks, NEW item \in ui.prTasks[n].todo,
           NEW limited \in BOOLEAN, NEW rest \in SUBSET ui.prTasks[n].todo,
           LookUp(n, item, limited, rest)
    PROVE  StaysGood
<1> USE DEF RowsInv
<1>1. PICK pr \in Findable(item[1], item[2], limited) :
          ui' = [ui EXCEPT !.prTasks[n] =
              [todo |-> rest,
               answers |-> Append(@.answers, [path |-> item[1], asked |-> item[2], pr |-> pr,
                                              limited |-> limited])]]
  BY DEF LookUp, Becomes
<1>2. UNCHANGED disk /\ left' \in Budget
  BY PayType DEF LookUp, Becomes
<1>3. /\ ui \in UI /\ ui.prTasks[n] \in PrTask
      /\ item[1] \in Paths /\ item[2] \in Tracked /\ item[2] \in Branches
  <2>1. ui \in UI /\ ui.prTasks \in Seq(PrTask)
    BY DEF Good, UI
  <2>2. ui.prTasks[n] \in PrTask
    BY <2>1
  <2>3. item \in Paths \X Tracked
    BY <2>2 DEF PrTask
  <2> QED
    BY <2>1, <2>2, <2>3, RowsAssumption
<1>4. pr = None \/ pr \in {p \in PullRequest : p.asked = item[2]}
  <2>1. \A q \in DOMAIN disk : disk[q] \in Branches
    BY MapElements
  <2> QED
    BY <1>3, <2>1 DEF Findable, PullRequest
<1>5. [path |-> item[1], asked |-> item[2], pr |-> pr, limited |-> limited] \in GoodAnswer
  BY <1>3, <1>4 DEF GoodAnswer, PrAnswer
<1> DEFINE a == [path |-> item[1], asked |-> item[2], pr |-> pr, limited |-> limited]
           task == [todo |-> rest, answers |-> Append(ui.prTasks[n].answers, a)]
<1>6. task \in PrTask
  <2> HIDE DEF a
  <2>1. Append(ui.prTasks[n].answers, a) \in Seq(GoodAnswer)
    BY <1>3, <1>5 DEF PrTask, a
  <2> QED
    BY <1>3, <2>1 DEF PrTask
<1>7. ui' = [ui EXCEPT !.prTasks[n] = task]
  BY <1>1, <1>3 DEF UI
<1> HIDE DEF task
<1>8. Apart(ui, ui') /\ PrsUnderWay(ui') /\ StatsUnderWay(ui')
  BY <1>6, <1>7, TaskChanged DEF Good, PrsUnderWay, StatsUnderWay
<1> QED
  BY <1>2, <1>8, ApartGood DEF StaysGood

LEMMA AnswerGood ==
    ASSUME RowsInv, NEW n \in DOMAIN ui.prTasks, Answer(n)
    PROVE  StaysGood
<1> USE DEF RowsInv
<1> DEFINE answers == ui.prTasks[n].answers
           task == [ui.prTasks[n] EXCEPT !.answers = Tail(answers)]
           u == [ui EXCEPT !.prTasks[n] = task]
           a == Head(answers)
<1>1. ui \in UI /\ ui.prTasks[n] \in PrTask /\ answers # <<>>
  BY DEF Answer, Good, UI
<1>2. a \in GoodAnswer /\ task \in PrTask
  <2>1. answers \in Seq(GoodAnswer)
    BY <1>1 DEF PrTask
  <2>2. a \in GoodAnswer /\ Tail(answers) \in Seq(GoodAnswer)
    BY <1>1, <2>1
  <2> QED
    BY <1>1, <2>2 DEF PrTask
<1>3. ui' = Answered(u, a) /\ UNCHANGED <<disk, left>>
  BY <1>1 DEF Answer, Step, Becomes, UI
<1> HIDE DEF a, task
<1>4. /\ u \in UI /\ u.prTasks # <<>> /\ Apart(ui, u) /\ u.rows = ui.rows
      /\ u.statsLoading = ui.statsLoading /\ u.diffTasks = ui.diffTasks
  BY <1>2, TaskChanged
<1> HIDE DEF u
<1>5. Apart(ui, ui') /\ PrsUnderWay(ui') /\ StatsUnderWay(ui')
  BY <1>2, <1>3, <1>4, AnsweredOK DEF Apart, StatsUnderWay, Good
<1> QED
  BY <1>3, <1>5, ApartGood DEF StaysGood

LEMMA SaveEndsGood ==
    ASSUME RowsInv, NEW ok \in BOOLEAN, SaveEnds(ok)
    PROVE  StaysGood
<1> USE DEF RowsInv
<1> DEFINE ended == [ui.store EXCEPT !.inFlight = None,
                                     !.last = IF ok THEN ui.store.inFlight
                                             ELSE ui.store.last]
<1>1. ui \in UI /\ ui.store \in Store /\ ui.store.inFlight # None
  BY DEF SaveEnds, Good, UI
<1>2. ended \in Store
  BY <1>1 DEF Store
<1>3. UNCHANGED disk /\ left' \in Budget
  BY PayType DEF SaveEnds, Becomes
<1>4. ui' = [ui EXCEPT !.store = BeginNext(ended)]
  BY DEF SaveEnds, Becomes
<1> HIDE DEF ended
<1>5. Apart(ui, ui') /\ PrsUnderWay(ui') /\ StatsUnderWay(ui')
  BY <1>1, <1>2, <1>4, BeginNextType DEF Good, Apart, PrsUnderWay, StatsUnderWay, UI
<1> QED
  BY <1>3, <1>5, ApartGood DEF StaysGood

LEMMA FinishPullRequestsGood ==
    ASSUME RowsInv, NEW n \in DOMAIN ui.prTasks, FinishPullRequests(n)
    PROVE  StaysGood
<1> USE DEF RowsInv
<1> DEFINE tasks == SubSeq(ui.prTasks, 1, n - 1) \o SubSeq(ui.prTasks, n + 1, Len(ui.prTasks))
           u == [ui EXCEPT !.prTasks = tasks]
<1>1. ui \in UI /\ ui.prTasks \in Seq(PrTask)
  BY DEF Good, UI
<1>2. tasks \in Seq(PrTask)
  BY <1>1, TaskRemoved
<1>3. ui' = AllAnswered(u) /\ UNCHANGED <<disk, left>>
  BY DEF FinishPullRequests, Step, Becomes
<1> HIDE DEF tasks
<1>4. /\ u \in UI /\ u.rows = ui.rows /\ u.pending = ui.pending /\ u.refresh = ui.refresh
      /\ u.selected = ui.selected /\ u.statsLoading = ui.statsLoading /\ u.diffTasks = ui.diffTasks
  BY <1>1, <1>2 DEF UI
<1> HIDE DEF u
<1>5. Apart(ui, ui') /\ PrsUnderWay(ui') /\ StatsUnderWay(ui')
  BY <1>3, <1>4, AllAnsweredOK DEF Apart, StatsUnderWay, Good
<1> QED
  BY <1>3, <1>5, ApartGood DEF StaysGood

LEMMA SelectRepositoryGood ==
    ASSUME RowsInv, NEW r \in Repos, SelectRepository(r)
    PROVE  StaysGood
<1> USE DEF RowsInv
<1> DEFINE first == FirstOf(ui.rows, {p \in Paths : Repo[p] = r})
           u == [ui EXCEPT !.repo = r, !.statsLoading = FALSE, !.prsLoading = FALSE,
                           !.rows = StillRows(ui.rows), !.selected = first]
           v == StartRefresh(u)
<1>1. ui \in UI /\ ui.rows \in MapsTo(GoodRow)
  BY DEF Good, UI
<1>2. StillRows(ui.rows) \in MapsTo(GoodRow) /\ DOMAIN StillRows(ui.rows) = DOMAIN ui.rows
  BY <1>1, StillRowsType
<1>3. first \in Paths \cup {None} /\ (first # None => first \in DOMAIN ui.rows)
  BY FirstIsListed
<1>4. ui' = SyncNavigation(v) /\ UNCHANGED disk /\ left' \in Budget
  BY PayType DEF SelectRepository, Becomes, StillRows
<1> HIDE DEF first
<1>5. /\ u \in UI /\ u.rows = StillRows(ui.rows) /\ u.pending = ui.pending
      /\ u.selected = first /\ ~u.prsLoading /\ ~u.statsLoading
  BY <1>1, <1>2, <1>3 DEF UI
<1> HIDE DEF u
<1>6. Good(v) /\ v.pending = ui.pending
  BY <1>2, <1>3, <1>5, StartGood, StartRefreshOK DEF PrsUnderWay, StatsUnderWay, SelectedIsListed
<1> HIDE DEF v
<1>7. OnlySaved(v, ui')
  BY <1>4, <1>6, SyncNavigationOK DEF Good
<1>8. Good(ui') /\ ui'.pending = ui.pending
  BY <1>6, <1>7, OnlySavedGood
<1> QED
  BY <1>4, <1>8 DEF StaysGood

LEMMA SelectWorktreeGood ==
    ASSUME RowsInv, NEW p \in Paths, SelectWorktree(p)
    PROVE  StaysGood
<1> USE DEF RowsInv
<1> DEFINE u == [ui EXCEPT !.selected = p, !.repo = Repo[p]]
<1>1. /\ p \in DOMAIN ui.rows /\ ui' = SyncNavigation(u)
      /\ UNCHANGED disk /\ left' \in Budget
  BY PayType DEF SelectWorktree, Becomes
<1>2. Repo[p] \in Repos /\ ui \in UI
  BY RowsAssumption DEF Good
<1>3. /\ u \in UI /\ u.rows = ui.rows /\ u.pending = ui.pending
      /\ u.refresh = ui.refresh /\ u.selected = p
      /\ u.prsLoading = ui.prsLoading /\ u.prTasks = ui.prTasks
      /\ u.statsLoading = ui.statsLoading /\ u.diffTasks = ui.diffTasks
  BY <1>2 DEF UI
<1> HIDE DEF u
<1>4. Good(u)
  BY <1>1, <1>3 DEF Good, PrsUnderWay, StatsUnderWay, SelectsPending, SelectedIsListed
<1>5. OnlySaved(u, ui')
  BY <1>1, <1>3, SyncNavigationOK
<1>6. Good(ui') /\ ui'.pending = ui.pending
  BY <1>3, <1>4, <1>5, OnlySavedGood
<1> QED
  BY <1>1, <1>6 DEF StaysGood

LEMMA CreatedGood ==
    ASSUME RowsInv, NEW p \in Paths, Created(p)
    PROVE  StaysGood
<1> USE DEF RowsInv
<1> DEFINE u == [ui EXCEPT !.pending = p]
<1>1. ui' = StartRefresh(u) /\ UNCHANGED disk /\ left' \in Budget
  BY PayType DEF Created, Becomes
<1>2. /\ u \in UI /\ u.rows = ui.rows /\ u.pending = p /\ u.selected = ui.selected
      /\ u.prsLoading = ui.prsLoading /\ u.prTasks = ui.prTasks
      /\ u.statsLoading = ui.statsLoading /\ u.diffTasks = ui.diffTasks
  BY DEF Good, UI
<1>3. p # None
  BY RowsAssumption
<1> HIDE DEF u
<1>4. PrsUnderWay(u) /\ StatsUnderWay(u) /\ SelectedIsListed(u)
  BY <1>2 DEF Good, PrsUnderWay, StatsUnderWay, SelectedIsListed
<1>5. Good(ui') /\ ui'.pending = p
  BY <1>1, <1>2, <1>4, StartGood, StartRefreshOK
<1> QED
  BY <1>1, <1>3, <1>5 DEF StaysGood

\* The dialog and its deletion are apart from everything else of the window.
LEMMA DialogGood ==
    ASSUME RowsInv,
           \/ \E p \in Paths : OpenDeleteModal(p)
           \/ CloseDeleteModal \/ ExecuteDelete \/ DeleteFails
    PROVE  StaysGood
<1> USE DEF RowsInv
<1>0. /\ ui \in UI /\ PrsUnderWay(ui) /\ StatsUnderWay(ui)
      /\ ui.rows \in MapsTo(GoodRow) /\ DOMAIN ui.rows \subseteq Paths
  BY MapElements DEF Good, UI
<1>1. PICK modal \in Modal \cup {None}, deletion \in [path : Paths, label : Paths] \cup {None} :
          ui' = [ui EXCEPT !.modal = modal, !.deletion = deletion]
  <2>0. ui = [ui EXCEPT !.modal = ui.modal, !.deletion = ui.deletion]
        /\ ui.modal \in Modal \cup {None} /\ ui.deletion \in [path : Paths, label : Paths] \cup {None}
    BY <1>0 DEF UI
  <2>1. ASSUME NEW p \in Paths, OpenDeleteModal(p)
        PROVE  \E modal \in Modal : ui' = [ui EXCEPT !.modal = modal]
    <3>1. p \in DOMAIN ui.rows /\ IndexOf(ui.rows, p) \in DOMAIN Order
      BY <2>1, IndexType DEF OpenDeleteModal
    <3>2. [index |-> IndexOf(ui.rows, p), label |-> p, deleting |-> FALSE] \in Modal
      BY <3>1 DEF Modal
    <3> QED
      BY <2>1, <3>2 DEF OpenDeleteModal, Becomes
  <2>2. ASSUME CloseDeleteModal
        PROVE  ui' = [ui EXCEPT !.modal = None]
    BY <2>2 DEF CloseDeleteModal, Step, Becomes
  <2>3. ASSUME ExecuteDelete
        PROVE  \/ ui' = [ui EXCEPT !.modal = None]
               \/ \E modal \in Modal, deletion \in [path : Paths, label : Paths] :
                     ui' = [ui EXCEPT !.modal = modal, !.deletion = deletion]
    <3> DEFINE p == PathAt(ui.rows, ui.modal.index)
    <3>1. CASE p = None
      BY <2>3, <3>1 DEF ExecuteDelete, Step, Becomes
    <3>2. CASE p # None
      <4>1. p \in Paths
        BY <1>0, <3>2, PathAtType
      <4>2. ui.modal \in Modal
        BY <1>0, <2>3 DEF ExecuteDelete, UI
      <4>3. ui' = [ui EXCEPT !.modal.deleting = TRUE,
                             !.deletion = [path |-> p, label |-> ui.modal.label]]
        BY <2>3, <3>2 DEF ExecuteDelete, Step, Becomes
      <4> HIDE DEF p
      <4>4. ui' = [ui EXCEPT !.modal = [ui.modal EXCEPT !.deleting = TRUE],
                             !.deletion = [path |-> p, label |-> ui.modal.label]]
        BY <1>0, <4>3 DEF UI
      <4>5. /\ [ui.modal EXCEPT !.deleting = TRUE] \in Modal
            /\ [path |-> p, label |-> ui.modal.label] \in [path : Paths, label : Paths]
        BY <4>1, <4>2 DEF Modal
      <4> QED
        BY <4>4, <4>5
    <3> QED
      BY <3>1, <3>2
  <2>4. ASSUME DeleteFails
        PROVE  \E modal \in Modal \cup {None} :
                   ui' = [ui EXCEPT !.deletion = None, !.modal = modal]
    <3> DEFINE modal == IF ui.modal = None THEN ui.modal ELSE [ui.modal EXCEPT !.deleting = FALSE]
    <3>1. ui' = [ui EXCEPT !.deletion = None, !.modal = modal]
      BY <1>0, <2>4 DEF DeleteFails, Step, Becomes, UI
    <3>2. modal \in Modal \cup {None}
      BY <2>0 DEF Modal
    <3> QED
      BY <3>1, <3>2
  <2>5. CASE \E p \in Paths : OpenDeleteModal(p)
    <3>1. PICK modal \in Modal : ui' = [ui EXCEPT !.modal = modal]
      BY <2>1, <2>5
    <3>2. ui' = [ui EXCEPT !.modal = modal, !.deletion = ui.deletion]
      BY <1>0, <3>1 DEF UI
    <3> QED
      BY <2>0, <3>2
  <2>6. CASE ui' = [ui EXCEPT !.modal = None]
    <3>1. ui' = [ui EXCEPT !.modal = None, !.deletion = ui.deletion]
      BY <1>0, <2>6 DEF UI
    <3> QED
      BY <2>0, <3>1
  <2>7. CASE \E modal \in Modal \cup {None} : ui' = [ui EXCEPT !.deletion = None, !.modal = modal]
    <3>1. PICK modal \in Modal \cup {None} : ui' = [ui EXCEPT !.deletion = None, !.modal = modal]
      BY <2>7
    <3>2. ui' = [ui EXCEPT !.modal = modal, !.deletion = None]
      BY <1>0, <3>1 DEF UI
    <3> QED
      BY <3>2
  <2> QED
    BY <2>2, <2>3, <2>4, <2>5, <2>6, <2>7
<1>2. UNCHANGED disk /\ left' \in Budget
  BY PayType DEF OpenDeleteModal, CloseDeleteModal, ExecuteDelete, DeleteFails, Step, Becomes
<1>3. Apart(ui, ui') /\ PrsUnderWay(ui') /\ StatsUnderWay(ui')
  BY <1>0, <1>1 DEF Apart, PrsUnderWay, StatsUnderWay, UI
<1> QED
  BY <1>2, <1>3, ApartGood DEF StaysGood

LEMMA MapChanged ==
    ASSUME NEW T, NEW f \in MapsTo(T), NEW p \in Paths, NEW x \in T
    PROVE  Put(f, p, x) \in MapsTo(T) /\ Drop(f, p) \in MapsTo(T)
<1>1. DOMAIN f \in SUBSET Paths /\ \A q \in DOMAIN f : f[q] \in T
  BY MapElements
<1>2. Put(f, p, x) \in [DOMAIN f \cup {p} -> T] /\ DOMAIN f \cup {p} \in SUBSET Paths
  BY <1>1 DEF Put
<1>3. Drop(f, p) \in [DOMAIN f \ {p} -> T] /\ DOMAIN f \ {p} \in SUBSET Paths
  BY <1>1 DEF Drop, Restrict
<1> QED
  BY <1>2, <1>3, MapMade

LEMMA DeletedGood ==
    ASSUME RowsInv, Deleted
    PROVE  StaysGood
<1> USE DEF RowsInv
<1> DEFINE u == [ui EXCEPT !.modal = None, !.deletion = None]
           p == ui.deletion.path
<1>1. /\ p \in DOMAIN disk /\ disk' = Drop(disk, p)
      /\ ui' = StartRefresh(u) /\ UNCHANGED left
  BY DEF Deleted
<1>2. p \in Paths /\ disk[p] \in Branches
  BY <1>1, MapElements
<1>3. disk' \in MapsTo(Branches)
  BY <1>1, <1>2, MapChanged
<1>4. /\ u \in UI /\ u.rows = ui.rows /\ u.pending = ui.pending /\ u.selected = ui.selected
      /\ u.prsLoading = ui.prsLoading /\ u.prTasks = ui.prTasks
      /\ u.statsLoading = ui.statsLoading /\ u.diffTasks = ui.diffTasks
  BY DEF Good, UI
<1> HIDE DEF u, p
<1>5. PrsUnderWay(u) /\ StatsUnderWay(u) /\ SelectedIsListed(u)
  BY <1>4 DEF Good, PrsUnderWay, StatsUnderWay, SelectedIsListed
<1>6. Good(ui') /\ ui'.pending = ui.pending
  BY <1>1, <1>4, <1>5, StartGood, StartRefreshOK
<1> QED
  BY <1>1, <1>3, <1>6 DEF StaysGood

LEMMA DiskGood ==
    ASSUME RowsInv,
           \/ \E p \in Paths, b \in Branches : CheckOut(p, b)
           \/ \E p \in Paths : RemoveOnDisk(p)
    PROVE  StaysGood
<1> USE DEF RowsInv
<1>1. left' \in Budget /\ UNCHANGED ui
  BY PayType DEF CheckOut, RemoveOnDisk
<1>2. disk' \in MapsTo(Branches)
  <2>1. ASSUME NEW p \in Paths, NEW b \in Branches, CheckOut(p, b)
        PROVE  disk' \in MapsTo(Branches)
    BY <2>1, MapChanged DEF CheckOut
  <2>2. ASSUME NEW p \in Paths, RemoveOnDisk(p)
        PROVE  disk' \in MapsTo(Branches)
    <3>1. disk[p] \in Branches /\ disk' = Drop(disk, p)
      BY <2>2, MapElements DEF RemoveOnDisk
    <3> QED
      BY <3>1, MapChanged
  <2> QED
    BY <2>1, <2>2
<1> QED
  BY <1>1, <1>2 DEF StaysGood

\* A window that opens has what was saved, and no task yet.
LEMMA OpenedOK ==
    ASSUME NEW saved \in Saved
    PROVE  Good(Opened(saved))
<1> DEFINE repo == IF saved.selection \in Paths THEN Repo[saved.selection]
                   ELSE IF saved.selection \in Repos THEN saved.selection ELSE Repo[Order[1]]
           restoring == saved.selection \in Paths
           u == [rows |-> EmptyMap, statsLoading |-> FALSE, prsLoading |-> FALSE,
                 rate |-> "free", repo |-> repo, selected |-> None,
                 restoring |-> restoring,
                 pending |-> None, refresh |-> None, prTasks |-> <<>>,
                 diffTasks |-> <<>>,
                 store |-> [pending |-> None, inFlight |-> None, last |-> saved],
                 modal |-> None, deletion |-> None]
<1>1. repo \in Repos
  <2>1. 1 \in DOMAIN Order
    BY RowsAssumption
  <2> QED
    BY <2>1, RowsAssumption DEF Paths
<1>2. EmptyMap \in MapsTo(GoodRow)
  <2>1. EmptyMap \in [{} -> GoodRow]
    BY DEF EmptyMap
  <2> QED
    BY <2>1, MapMade
<1>3. [pending |-> None, inFlight |-> None, last |-> saved] \in Store
  BY DEF Store
<1>4. Opened(saved) = StartRefresh(u)
  BY DEF Opened
<1>5. restoring \in BOOLEAN
  BY InSet
<1> HIDE DEF repo, restoring
<1>6. u \in UI /\ PrsUnderWay(u) /\ StatsUnderWay(u) /\ SelectedIsListed(u)
  BY <1>1, <1>2, <1>3, <1>5 DEF UI, PrsUnderWay, StatsUnderWay, SelectedIsListed, Rates
<1> HIDE DEF u
<1> QED
  BY <1>4, <1>6, StartGood

LEMMA RestartGood ==
    ASSUME RowsInv, Restart
    PROVE  StaysGood
<1>1. PICK saved \in {ui.store.last, ui.store.inFlight} \ {None} : ui' = Opened(saved)
  BY DEF Restart
<1>3. saved \in Saved /\ UNCHANGED disk
  BY DEF RowsInv, Good, UI, Store, Restart
<1>2. left' \in Budget /\ left'.restarts # left.restarts
  BY PayType DEF RowsInv, Restart
<1> QED
  BY <1>1, <1>2, <1>3, OpenedOK DEF RowsInv, StaysGood

-----------------------------------------------------------------------------
(* The theorems *)

LEMMA RowsStart == Init => RowsInv
<1> SUFFICES ASSUME Init PROVE RowsInv
  OBVIOUS
<1>1. disk \in MapsTo(Branches)
  <2>1. PICK S \in SUBSET Paths, b \in Branches : disk = [p \in S \cup Primary |-> b]
    BY DEF Init
  <2>2. S \cup Primary \in SUBSET Paths /\ disk \in [S \cup Primary -> Branches]
    BY <2>1, RowsAssumption
  <2> QED
    BY <2>2, MapMade
<1>2. EmptyMap \in MapsTo(GoodMemory)
  <2>1. EmptyMap \in [{} -> GoodMemory]
    BY DEF EmptyMap
  <2> QED
    BY <2>1, MapMade
<1>3. [cache |-> EmptyMap, selection |-> None] \in Saved
  BY <1>2 DEF Saved
<1>4. Good(ui) /\ left \in Budget
  BY <1>3, OpenedOK, RowsAssumption DEF Init, Budget
<1> QED
  BY <1>1, <1>4 DEF RowsInv

LEMMA RowsStep == RowsInv /\ [Next]_vars => StaysGood
<1> SUFFICES ASSUME RowsInv, [Next]_vars PROVE StaysGood
  OBVIOUS
<1>1. CASE AutoRefresh \/ RefreshWorktrees \/ PullRequestTimer \/ GitActionDone \/ RateLimitEnds
  BY <1>1, TimersGood
<1>2. CASE \E bad \in SUBSET Repos, other \in BOOLEAN : Apply(bad, other)
  BY <1>2, ApplyGood
<1>3. CASE \E n \in DOMAIN ui.diffTasks : \E failed \in SUBSET (ui.diffTasks[n] \cap Undiffable) :
             FinishDiffs(n, ui.diffTasks[n] \ failed)
  BY <1>3, FinishDiffsGood
<1>4. CASE \E n \in DOMAIN ui.prTasks : FinishPullRequests(n)
  BY <1>4, FinishPullRequestsGood
<1>5. CASE \E n \in DOMAIN ui.prTasks :
             \/ Answer(n)
             \/ \E item \in ui.prTasks[n].todo, limited \in BOOLEAN :
                   \E rest \in SUBSET ui.prTasks[n].todo : LookUp(n, item, limited, rest)
  BY <1>5, AnswerGood, LookUpGood
<1>6. CASE \E r \in Repos : SelectRepository(r)
  BY <1>6, SelectRepositoryGood
<1>7. CASE \E p \in Paths : SelectWorktree(p) \/ Created(p)
  BY <1>7, SelectWorktreeGood, CreatedGood
<1>8. CASE \/ \E p \in Paths : OpenDeleteModal(p)
           \/ CloseDeleteModal \/ ExecuteDelete \/ DeleteFails
  BY <1>8, DialogGood
<1>9. CASE Deleted
  BY <1>9, DeletedGood
<1>10. CASE \/ \E p \in Paths, b \in Branches : CheckOut(p, b)
            \/ \E p \in Paths : RemoveOnDisk(p)
  BY <1>10, DiskGood
<1>11. CASE Restart
  BY <1>11, RestartGood
<1>12. CASE \E ok \in BOOLEAN : SaveEnds(ok)
  BY <1>12, SaveEndsGood
<1>13. CASE UNCHANGED vars
  BY <1>13 DEF RowsInv, StaysGood, vars
<1> QED
  BY <1>1, <1>2, <1>3, <1>4, <1>5, <1>6, <1>7, <1>8, <1>9, <1>10, <1>11, <1>12, <1>13 DEF Next

LEMMA RowsInvariant == Spec => []RowsInv
<1>1. RowsInv /\ [Next]_vars => RowsInv'
  BY RowsStep DEF StaysGood, RowsInv
<1> QED
  BY <1>1, RowsStart, PTL DEF Spec

\* The rows, the cache and every task hold what they are for, and the worktree
\* that is selected has a row: the worktree list of the window (worktree_refresh.rs,
\* worktree_summary.rs) after any sequence of refreshes, answers, clicks and restarts.
THEOREM RowsTypeCorrect == Spec => []TypeOK
<1>1. RowsInv => TypeOK
  <2> SUFFICES ASSUME RowsInv PROVE TypeOK
    OBVIOUS
  <2>1. ui \in UI /\ SelectedIsListed(ui) /\ disk \in MapsTo(Branches)
    BY DEF RowsInv, Good
  <2>2. DOMAIN ui.rows \subseteq Paths /\ \A p \in DOMAIN ui.rows : ui.rows[p] \in Row
    <3>1. ui.rows \in MapsTo(GoodRow)
      BY <2>1 DEF UI
    <3> QED
      BY <3>1, MapElements DEF GoodRow
  <2>3. /\ \A n \in DOMAIN ui.prTasks :
              /\ ui.prTasks[n].todo \subseteq Paths \X Tracked
              /\ ui.prTasks[n].answers \in Seq(PrAnswer)
        /\ \A n \in DOMAIN ui.diffTasks : ui.diffTasks[n] \in (SUBSET Paths) \ {{}}
    <3>1. ui.prTasks \in Seq(PrTask) /\ ui.diffTasks \in Seq((SUBSET Paths) \ {{}})
      BY <2>1 DEF UI
    <3>2. \A n \in DOMAIN ui.prTasks : ui.prTasks[n] \in PrTask
      BY <3>1
    <3>3. \A q \in Seq(GoodAnswer) : q \in Seq(PrAnswer)
      BY DEF GoodAnswer
    <3> QED
      BY <3>1, <3>2, <3>3 DEF PrTask
  <2>4. /\ {ui.statsLoading, ui.prsLoading, ui.restoring} \subseteq BOOLEAN
        /\ ui.rate \in {"free", "limited", "expired"}
        /\ ui.repo \in Repos /\ {ui.selected, ui.pending} \subseteq Paths \cup {None}
        /\ ui.modal \in Modal \cup {None}
    BY <2>1 DEF UI, Rates
  <2>5. /\ SavedOK(ui.store.last)
        /\ \A s \in {ui.store.pending, ui.store.inFlight} \ {None} : SavedOK(s)
    <3>1. ASSUME NEW s \in Saved PROVE SavedOK(s)
      <4>1. s.cache \in MapsTo(GoodMemory) /\ s.selection \in Paths \cup Repos \cup {None}
        BY DEF Saved
      <4> QED
        BY <4>1, MapElements DEF SavedOK, GoodMemory
    <3> QED
      BY <2>1, <3>1 DEF UI, Store
  <2> QED
    BY <2>1, <2>2, <2>3, <2>4, <2>5 DEF TypeOK, MapsTo, SelectedIsListed
<1> QED
  BY <1>1, RowsInvariant, PTL

\* However lookups, answers, refreshes, checkouts, saves and restarts interleave, no row
\* and nothing in the cache on disk holds a pull request that was found for a question
\* about another branch than the one it names (github_pr_refresh.rs drops the answer to a
\* question about a branch the row is no longer on, and the cache goes by branch).
THEOREM PullRequestAnswersBranch == Spec => []PrAnswersBranch
<1>1. RowsInv => PrAnswersBranch
  <2> SUFFICES ASSUME RowsInv PROVE PrAnswersBranch
    OBVIOUS
  <2>1. ui.rows \in MapsTo(GoodRow) /\ ui.store.last.cache \in MapsTo(GoodMemory)
    BY DEF RowsInv, Good, UI, Store, Saved
  <2>2. /\ \A p \in DOMAIN ui.rows : ui.rows[p] \in GoodRow
        /\ \A p \in DOMAIN ui.store.last.cache : ui.store.last.cache[p] \in GoodMemory
    BY <2>1, MapElements
  <2> QED
    BY <2>2 DEF PrAnswersBranch, GoodRow, GoodMemory
<1> QED
  BY <1>1, RowsInvariant, PTL

\* The flag that holds back the next pull request refresh, and the one that makes the
\* periodic refresh skip its turn, are never set with no task left to clear them.
THEOREM RefreshAlwaysUnderWay == Spec => []RefreshIsUnderWay
<1>1. RowsInv => RefreshIsUnderWay
  BY DEF RowsInv, Good, PrsUnderWay, StatsUnderWay, RefreshIsUnderWay
<1> QED
  BY <1>1, RowsInvariant, PTL

\* What waits to be selected waits through every refresh that is cancelled or does not
\* list it, and stops to wait only when it is selected (or the application restarts).
THEOREM CreatedGetsSelected == Spec => CreatedIsSelected
<1>1. RowsInv /\ [Next]_vars =>
        [ui.pending # None /\ ui'.pending = None /\ left'.restarts = left.restarts
            => ui'.selected = ui.pending]_vars
  BY RowsStep DEF StaysGood
<1> QED
  BY <1>1, RowsInvariant, PTL DEF Spec, CreatedIsSelected
=============================================================================
