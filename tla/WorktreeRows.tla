---------------------------- MODULE WorktreeRows ----------------------------
(***************************************************************************)
(* The worktree rows of the desktop application (crates/arbor-gui): the    *)
(* inventory refresh that lists the worktrees, the diff and pull request   *)
(* refreshes that fill them in, the saved state (pull request cache and    *)
(* selection) that outlives the application, and the dialog that deletes a *)
(* worktree.                                                               *)
(*                                                                         *)
(* The window's state changes only on the UI thread: every handler is one  *)
(* step, an operator on the record ui.  What a task does in the background *)
(* happens between two such steps, on the state the task captured when it  *)
(* was started.  The worktrees on disk change under the application.       *)
(***************************************************************************)
EXTENDS Naturals, Sequences, FiniteSets, Maps

CONSTANTS
    Order,        \* the paths of worktrees, in the order git lists them
    Repos,
    Repo,         \* Repo[p]: the repository of the path p
    Branches,
    Tracked,      \* the branches for which pull requests are looked up
    Primary,      \* the paths that are primary checkouts
    Budgets,      \* bound: how often, in a behaviour, others change the disk, the
                  \* application restarts, the user acts, GitHub limits the rate,
                  \* a save fails, the timers and git actions refresh something
    Undiffable,   \* bound: the paths whose diff summary can fail
    MaxPrTasks,   \* bound: pull request refreshes at a time
    MaxDiffTasks, \* bound: diff tasks at a time
    None

Paths == {Order[n] : n \in DOMAIN Order}

ASSUME RowsAssumption ==
    /\ Order \in Seq(Paths) \ {<<>>}
    /\ \A m, n \in DOMAIN Order : Order[m] = Order[n] => m = n
    /\ Repo \in [Paths -> Repos] /\ Tracked \subseteq Branches /\ {Primary, Undiffable} \subseteq SUBSET Paths
    /\ Budgets \subseteq [changes : Nat, restarts : Nat, clicks : Nat, limits : Nat,
                   failures : Nat, ticks : Nat]
    /\ None \notin Paths \cup Branches \cup Repos

VARIABLES
    disk,   \* the worktrees that exist, each with the branch it is on
    ui,     \* the window
    left    \* what is left of the budget

vars == <<disk, ui, left>>

-----------------------------------------------------------------------------
(* Data *)

\* A pull request, and the branch that was asked about when it was found: a lookup that
\* falls back on what is checked out can find one of another branch.
PullRequest == [asked : Branches, of : Branches]

Row == [branch : Branches, pr : PullRequest \cup {None},
        loaded : BOOLEAN, loading : BOOLEAN, diff : BOOLEAN]

\* What a lookup made for a path and a branch sends back.
PrAnswer == [path : Paths, asked : Tracked, pr : PullRequest \cup {None}, limited : BOOLEAN]

Modal == [index : DOMAIN Order, label : Paths, deleting : BOOLEAN]

NewRow(b) ==
    [branch |-> b, pr |-> None, loaded |-> FALSE, loading |-> FALSE, diff |-> FALSE]

\* The index of the row of p: rows are in the order of the listing.
IndexOf(rows, p) ==
    Cardinality({n \in DOMAIN Order : Order[n] \in DOMAIN rows /\ \E m \in DOMAIN Order : n <= m /\ Order[m] = p})

\* The path of the row at an index, None behind the last row.
PathAt(rows, n) ==
    IF \E p \in DOMAIN rows : IndexOf(rows, p) = n
    THEN CHOOSE p \in DOMAIN rows : IndexOf(rows, p) = n ELSE None

\* The first row that is in S.
FirstOf(rows, S) ==
    LET listed == DOMAIN rows \cap S
    IN  IF listed = {} THEN None
        ELSE CHOOSE p \in listed : \A q \in listed : IndexOf(rows, p) <= IndexOf(rows, q)

LookedUp(rows) == {p \in DOMAIN rows \ Primary : rows[p].branch \in Tracked}

\* What the cache remembers: the rows that have been looked up.
Snapshot(rows) ==
    [p \in {q \in DOMAIN rows : rows[q].loaded} |->
        [branch |-> rows[p].branch, pr |-> rows[p].pr]]

-----------------------------------------------------------------------------
(* The saved state *)

\* queued_ui_state_base: what a change builds on.
QueuedBase(u) ==
    IF u.store.pending # None THEN u.store.pending
    ELSE IF u.store.inFlight # None THEN u.store.inFlight ELSE u.store.last

\* next_pending_ui_state_save: what is pending once next has been queued.
NextPending(s, next) ==
    IF next \in {s.pending, s.inFlight} THEN s.pending
    ELSE IF next = s.last /\ s.inFlight = None THEN None
    ELSE next

BeginNext(s) ==
    IF s.inFlight # None \/ s.pending = None THEN s
    ELSE [s EXCEPT !.pending = None, !.inFlight = s.pending]

Queued(u, next) ==
    [u EXCEPT !.store = BeginNext([u.store EXCEPT !.pending = NextPending(u.store, next)])]

SyncCache(u) == Queued(u, [QueuedBase(u) EXCEPT !.cache = Snapshot(u.rows)])

\* The selected worktree, or the repository.  Until the worktree of the last time has
\* been looked for, it is kept in the place of its repository.
SelectionToSave(u) ==
    LET saved == QueuedBase(u).selection
    IN  IF u.selected # None THEN u.selected
        ELSE IF u.restoring /\ saved \in Paths /\ Repo[saved] = u.repo THEN saved
        ELSE u.repo

SyncNavigation(u) == Queued(u, [QueuedBase(u) EXCEPT !.selection = SelectionToSave(u)])

\* The handlers of pull requests save the cache when they changed something.
SyncIfChanged(u, v) ==
    IF v.rows = u.rows /\ v.prsLoading = u.prsLoading /\ v.rate = u.rate THEN v ELSE SyncCache(v)

-----------------------------------------------------------------------------
(* The pull request refresh *)

\* A row when a refresh starts: is it looked up, and is it looked up now?
Started(row, looked, now) ==
    [row EXCEPT !.loading = now, !.pr = IF looked THEN @ ELSE None]

Loading(u) == \E p \in DOMAIN u.rows : u.rows[p].loading

RefreshPullRequests(u) ==
    LET work == IF u.rate = "limited" THEN {} ELSE LookedUp(u.rows)
        items == {<<p, u.rows[p].branch>> : p \in work}
    IN  IF u.prsLoading THEN u
        ELSE SyncIfChanged(u, [u EXCEPT
            !.rate = IF @ = "expired" THEN "free" ELSE @,
            !.rows = [p \in DOMAIN @ |-> Started(@[p], p \in LookedUp(u.rows), p \in work)],
            !.prsLoading = work # {},
            !.prTasks = IF work = {} THEN @
                        ELSE Append(@, [todo |-> items, answers |-> <<>>])])

\* What a lookup for b can find while the disk is as it is.  When the branch has no
\* details, and the rate is not limited, the branch that is checked out is tried first.
Findable(p, b, limited) ==
    LET tried == {b} \cup {disk[q] : q \in {q \in DOMAIN disk : q = p /\ ~limited}}
    IN  {None} \cup {[asked |-> b, of |-> c] : c \in tried}

\* An answer that is only a rate limit leaves what the row shows.
WithAnswer(row, pr, limited) ==
    IF limited /\ pr = None THEN [row EXCEPT !.loading = FALSE]
    ELSE [row EXCEPT !.loading = FALSE, !.loaded = TRUE, !.pr = pr]

\* A limit that is told again is a later one.
Shown(u, a) ==
    LET rows == [u.rows EXCEPT ![a.path] = WithAnswer(@, a.pr, a.limited)]
        shown == [u EXCEPT !.rows = rows, !.rate = IF a.limited THEN "limited" ELSE @,
                           !.prsLoading = Loading([u EXCEPT !.rows = rows])]
    IN  IF a.limited THEN SyncCache(shown) ELSE SyncIfChanged(u, shown)

AnsweredForPath(u, a) == IF a.path \notin DOMAIN u.rows THEN u ELSE Shown(u, a)

\* An answer for a path that has no row any more, or is on another branch than the
\* one asked about, is dropped.
Answered(u, a) ==
    IF a.path \notin DOMAIN u.rows \/ u.rows[a.path].branch # a.asked THEN u ELSE Shown(u, a)

EndsSilently(u) == u

AllAnswered(u) ==
    SyncIfChanged(u, [u EXCEPT !.prsLoading = FALSE,
                               !.rows = [p \in DOMAIN @ |-> [@[p] EXCEPT !.loading = FALSE]]])

-----------------------------------------------------------------------------
(* The diff refresh *)

RefreshDiffSummaries(u) ==
    IF u.rows = EmptyMap THEN [u EXCEPT !.statsLoading = FALSE]
    ELSE [u EXCEPT !.diffTasks = Append(@, DOMAIN u.rows)]

Counted(row, ok) == [row EXCEPT !.diff = ok]

\* ok: the paths whose summary could be computed.
DiffsDone(u, paths, ok) ==
    [u EXCEPT !.statsLoading = FALSE,
              !.rows = [p \in DOMAIN @ |-> IF p \in paths THEN Counted(@[p], p \in ok) ELSE @[p]]]

-----------------------------------------------------------------------------
(* The inventory refresh *)

ForgetsPending(u) ==
    IF u.selected # None THEN u.selected
    ELSE IF QueuedBase(u).selection \in Paths THEN QueuedBase(u).selection ELSE None

\* What a refresh selects again: what waits to be selected, what is selected, or
\* the worktree that was saved last.
PreviousSelection(u) ==
    IF u.pending # None THEN u.pending
    ELSE IF u.selected # None THEN u.selected
    ELSE IF QueuedBase(u).selection \in Paths THEN QueuedBase(u).selection ELSE None

\* A refresh captures the rows, the cache on disk and the selection at its start, and
\* starting one cancels the one that is under way.
StartRefresh(u) ==
    [u EXCEPT !.refresh = [rows |-> u.rows, cache |-> u.store.last.cache, repo |-> u.repo,
                           select |-> PreviousSelection(u)]]

\* The new row of a path listed on a branch: what the old row knew when the refresh began
\* if the branch is still the same, else what the cache knows of the branch.
Carried(r, p, b) ==
    LET old == p \in DOMAIN r.rows
        diff == old /\ r.rows[p].diff
    IN  IF old /\ r.rows[p].branch = b THEN r.rows[p]
        ELSE IF p \in DOMAIN r.cache /\ r.cache[p].branch = b
        THEN [NewRow(b) EXCEPT !.pr = r.cache[p].pr, !.loaded = TRUE, !.diff = diff]
        ELSE [NewRow(b) EXCEPT !.diff = diff]

BranchOf(rows) == [p \in DOMAIN rows |-> rows[p].branch]

ShouldRefreshPullRequests(old, new) ==
    \/ \E p \in LookedUp(new) :
          \/ ~new[p].loaded
          \/ p \notin DOMAIN old \/ old[p].branch # new[p].branch
    \/ Cardinality(LookedUp(new)) # Cardinality(LookedUp(old))

\* The selected path if it is listed, else the first of its repository.
NextSelected(r, rows) ==
    IF r.select \in DOMAIN rows THEN r.select
    ELSE LET mine == FirstOf(rows, {p \in Paths : Repo[p] = r.repo})
         IN  IF mine # None THEN mine ELSE FirstOf(rows, Paths)

\* found: the worktrees listed; failed: some repository could not be listed;
\* other: the user asked for the refresh, or another column of the rows changed.
Replaced(u, found, failed, other) ==
    LET r == u.refresh
        rows == [p \in DOMAIN found |-> Carried(r, p, found[p])]
        full == other \/ BranchOf(rows) # BranchOf(u.rows)
        selected == NextSelected(r, rows)
        shown == SyncNavigation(SyncCache([u EXCEPT
            !.rows = rows, !.refresh = None, !.selected = selected,
            !.pending = IF @ \in DOMAIN rows THEN None ELSE @,
            !.restoring = @ /\ selected = None /\ failed,
            !.repo = IF selected = None THEN @ ELSE Repo[selected],
            !.statsLoading = ~failed /\ \E p \in DOMAIN rows : ~rows[p].diff]))
        counted == IF full \/ shown.statsLoading
                   THEN RefreshDiffSummaries(shown) ELSE shown
    IN  IF ShouldRefreshPullRequests(u.rows, rows)
        THEN RefreshPullRequests(counted) ELSE counted

-----------------------------------------------------------------------------
(* The timers and the user *)

Fits(u) == Len(u.prTasks) <= MaxPrTasks /\ Len(u.diffTasks) <= MaxDiffTasks

Becomes(u) == Fits(u) /\ ui' = u /\ UNCHANGED disk

Step(u) == Becomes(u) /\ UNCHANGED left

\* A step that uses up some of the budget.
Pay(kind) == left[kind] > 0 /\ left' = [left EXCEPT ![kind] = @ - 1]

AutoRefresh == ~ui.statsLoading /\ Pay("ticks") /\ Becomes(StartRefresh(ui))

RefreshWorktrees == Pay("clicks") /\ Becomes(StartRefresh(ui))

\* The listing is what is on disk when it is applied: what others do there
\* between the two commutes with every step of the window.  The repositories in
\* bad cannot be listed.
Apply(bad, other) ==
    /\ ui.refresh # None
    /\ LET found == [p \in {q \in DOMAIN disk : Repo[q] \notin bad} |-> disk[p]]
       IN  Step(Replaced(ui, found, bad # {}, other))

FinishDiffs(n, ok) ==
    Step(DiffsDone([ui EXCEPT !.diffTasks = SubSeq(@, 1, n - 1) \o SubSeq(@, n + 1, Len(@))],
                  ui.diffTasks[n], ok))

PullRequestTimer == Pay("ticks") /\ Becomes(RefreshPullRequests(ui))

GitActionDone == Pay("ticks") /\ Becomes(RefreshPullRequests(RefreshDiffSummaries(ui)))

\* A worker's lookup ends, and its answer is on the way.  Once one is told of a rate
\* limit the workers take no more work; rest: the lookups that still answer.
LookUp(n, item, limited, rest) ==
    /\ item \notin rest
    /\ IF limited THEN Pay("limits") ELSE rest = ui.prTasks[n].todo \ {item} /\ UNCHANGED left
    /\ \E pr \in Findable(item[1], item[2], limited) :
          Becomes([ui EXCEPT !.prTasks[n] =
              [todo |-> rest,
               answers |-> Append(@.answers, [path |-> item[1], asked |-> item[2], pr |-> pr,
                                              limited |-> limited])]])

Answer(n) ==
    /\ ui.prTasks[n].answers # <<>>
    /\ Step(Answered([ui EXCEPT !.prTasks[n].answers = Tail(@)], Head(ui.prTasks[n].answers)))

FinishPullRequests(n) ==
    /\ ui.prTasks[n].todo = {} /\ ui.prTasks[n].answers = <<>>
    /\ Step(AllAnswered([ui EXCEPT
            !.prTasks = SubSeq(@, 1, n - 1) \o SubSeq(@, n + 1, Len(@))]))

RateLimitEnds == ui.rate = "limited" /\ Step([ui EXCEPT !.rate = "expired"])

\* A save that fails is not tried again.
SaveEnds(ok) ==
    LET s == ui.store
    IN  /\ s.inFlight # None
        /\ IF ok THEN UNCHANGED left ELSE Pay("failures")
        /\ Becomes([ui EXCEPT !.store =
               BeginNext([s EXCEPT !.inFlight = None, !.last = IF ok THEN s.inFlight ELSE s.last])])

\* The refresh begins before the selection is saved.
SelectRepository(r) ==
    /\ ui.repo # r /\ Pay("clicks")
    /\ Becomes(SyncNavigation(StartRefresh([ui EXCEPT
            !.repo = r, !.statsLoading = FALSE, !.prsLoading = FALSE,
            !.rows = [p \in DOMAIN @ |-> [@[p] EXCEPT !.loading = FALSE]],
            !.selected = FirstOf(ui.rows, {p \in Paths : Repo[p] = r})])))

SelectWorktree(p) ==
    /\ p \in DOMAIN ui.rows /\ Pay("clicks")
    /\ Becomes(SyncNavigation([ui EXCEPT !.selected = p, !.repo = Repo[p]]))

\* The application has created the worktree: select it once it is listed.
Created(p) ==
    /\ p \in DOMAIN disk /\ Pay("clicks")
    /\ Becomes(StartRefresh([ui EXCEPT !.pending = p]))

-----------------------------------------------------------------------------
(* The delete dialog *)

OpenDeleteModal(p) ==
    /\ p \in DOMAIN ui.rows \ Primary /\ Pay("clicks")
    /\ Becomes([ui EXCEPT !.modal = [index |-> IndexOf(ui.rows, p), label |-> p,
                                  deleting |-> FALSE]])

CloseDeleteModal == ui.modal # None /\ Step([ui EXCEPT !.modal = None])

\* The dialog's index is looked up in the rows of now.  One deletion at a time
\* is a bound: the dialog can be closed and another one confirmed.
ExecuteDelete ==
    /\ ui.modal # None /\ ~ui.modal.deleting /\ ui.deletion = None
    /\ LET p == PathAt(ui.rows, ui.modal.index)
       IN  Step(IF p = None THEN [ui EXCEPT !.modal = None]
                ELSE [ui EXCEPT !.modal.deleting = TRUE,
                                !.deletion = [path |-> p, label |-> ui.modal.label]])

Deleted ==
    /\ ui.deletion # None /\ ui.deletion.path \in DOMAIN disk
    /\ disk' = Drop(disk, ui.deletion.path)
    /\ ui' = StartRefresh([ui EXCEPT !.modal = None, !.deletion = None])
    /\ UNCHANGED left

DeleteFails ==
    /\ ui.deletion # None
    /\ Step([ui EXCEPT !.deletion = None,
                       !.modal = IF @ = None THEN @ ELSE [@ EXCEPT !.deleting = FALSE]])

-----------------------------------------------------------------------------
(* The disk and restarts *)

CheckOut(p, b) ==
    /\ p \in DOMAIN disk => disk[p] # b
    /\ Pay("changes") /\ disk' = Put(disk, p, b) /\ UNCHANGED ui

RemoveOnDisk(p) ==
    /\ p \in DOMAIN disk \ Primary
    /\ Pay("changes") /\ disk' = Drop(disk, p) /\ UNCHANGED ui

\* A window that has just been opened starts a refresh, in the repository and for the
\* worktree that were selected when the state was saved.
Opened(saved) ==
    LET repo == IF saved.selection \in Paths THEN Repo[saved.selection]
                ELSE IF saved.selection \in Repos THEN saved.selection ELSE Repo[Order[1]]
    IN  StartRefresh([rows |-> EmptyMap, statsLoading |-> FALSE, prsLoading |-> FALSE,
                      rate |-> "free", repo |-> repo, selected |-> None,
                      restoring |-> saved.selection \in Paths,
                      pending |-> None, refresh |-> None, prTasks |-> <<>>,
                      diffTasks |-> <<>>,
                      store |-> [pending |-> None, inFlight |-> None, last |-> saved],
                      modal |-> None, deletion |-> None])

\* A save that was under way is on disk, or is not.
Restart ==
    /\ Pay("restarts") /\ UNCHANGED disk
    /\ \E saved \in {ui.store.last, ui.store.inFlight} \ {None} : ui' = Opened(saved)

Init ==
    /\ \E S \in SUBSET Paths, b \in Branches : disk = [p \in S \cup Primary |-> b]
    /\ ui = Opened([cache |-> EmptyMap, selection |-> None])
    /\ left \in Budgets

Next ==
    \/ AutoRefresh \/ RefreshWorktrees
    \/ \E bad \in SUBSET Repos, other \in BOOLEAN : Apply(bad, other)
    \/ \E n \in DOMAIN ui.diffTasks : \E failed \in SUBSET (ui.diffTasks[n] \cap Undiffable) :
          FinishDiffs(n, ui.diffTasks[n] \ failed)
    \/ PullRequestTimer \/ GitActionDone
    \/ \E n \in DOMAIN ui.prTasks :
          \/ Answer(n) \/ FinishPullRequests(n)
          \/ \E item \in ui.prTasks[n].todo, limited \in BOOLEAN :
                \E rest \in SUBSET ui.prTasks[n].todo : LookUp(n, item, limited, rest)
    \/ RateLimitEnds
    \/ \E ok \in BOOLEAN : SaveEnds(ok)
    \/ \E r \in Repos : SelectRepository(r)
    \/ \E p \in Paths : SelectWorktree(p) \/ Created(p) \/ OpenDeleteModal(p)
    \/ CloseDeleteModal \/ ExecuteDelete \/ Deleted \/ DeleteFails
    \/ \E p \in Paths, b \in Branches : CheckOut(p, b)
    \/ \E p \in Paths : RemoveOnDisk(p)
    \/ Restart

Spec == Init /\ [][Next]_vars

-----------------------------------------------------------------------------
(* Properties *)

\* A saved state: for some paths a branch and its pull request, and what is selected.
SavedOK(s) ==
    /\ DOMAIN s.cache \subseteq Paths
    /\ \A p \in DOMAIN s.cache :
          s.cache[p] \in [branch : Branches, pr : PullRequest \cup {None}]
    /\ s.selection \in Paths \cup Repos \cup {None}

\* Everything has its type; what is saved and what a task remembers is of its own kind.
TypeOK ==
    /\ disk \in UNION {[S -> Branches] : S \in SUBSET Paths}
    /\ DOMAIN ui.rows \subseteq Paths /\ \A p \in DOMAIN ui.rows : ui.rows[p] \in Row
    /\ {ui.statsLoading, ui.prsLoading, ui.restoring} \subseteq BOOLEAN
    /\ ui.rate \in {"free", "limited", "expired"}
    /\ ui.repo \in Repos /\ {ui.selected, ui.pending} \subseteq Paths \cup {None}
    /\ SavedOK(ui.store.last)
    /\ \A s \in {ui.store.pending, ui.store.inFlight} \ {None} : SavedOK(s)
    /\ \A n \in DOMAIN ui.prTasks :
          /\ ui.prTasks[n].todo \subseteq Paths \X Tracked
          /\ ui.prTasks[n].answers \in Seq(PrAnswer)
    /\ \A n \in DOMAIN ui.diffTasks : ui.diffTasks[n] \in (SUBSET Paths) \ {{}}
    /\ ui.modal \in Modal \cup {None}
    /\ ui.selected # None => ui.selected \in DOMAIN ui.rows

\* A row, and the cache on disk, show a pull request only as the answer to a question
\* about the branch they name: an answer, a refresh, a save and a restart that meet a
\* worktree on another branch never put there what was found for the branch before.
\* That the answer is of that branch is another matter: see PrIsOfBranch.
PrAnswersBranch ==
    /\ \A p \in DOMAIN ui.rows :
          ui.rows[p].pr = None \/ ui.rows[p].pr.asked = ui.rows[p].branch
    /\ LET cache == ui.store.last.cache
       IN  \A p \in DOMAIN cache : cache[p].pr = None \/ cache[p].pr.asked = cache[p].branch

\* The pull request a row shows is of the branch the row names.  The code does not see
\* to it: a lookup without details tries the branch that is checked out by then
\* (github_helpers.rs:101) and answers for the branch it was asked about.
PrIsOfBranch ==
    \A p \in DOMAIN ui.rows : ui.rows[p].pr = None \/ ui.rows[p].pr.of = ui.rows[p].branch

\* While the flag that keeps a new pull request refresh from starting is set, or
\* the one that makes the periodic refresh skip its turn, something is under way
\* that will clear it.
RefreshIsUnderWay ==
    /\ ui.prsLoading => ui.prTasks # <<>>
    /\ ui.statsLoading => ui.diffTasks # <<>>

\* A worktree the user created stays to be selected, over any number of
\* refreshes that are cancelled or do not list it yet, until a refresh selects it.
CreatedIsSelected ==
    [][ui.pending # None /\ ui'.pending = None /\ left'.restarts = left.restarts
        => ui'.selected = ui.pending]_vars

\* The worktree being deleted is the one whose name the dialog showed.
DeletesWhatItNames == ui.deletion # None => ui.deletion.path = ui.deletion.label
=============================================================================
