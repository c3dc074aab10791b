------------------------- MODULE PersistenceProofs -------------------------
(***************************************************************************)
(* Theorems about what the window saves, for all worktrees, fields,        *)
(* changes and failures.                                                   *)
(***************************************************************************)
EXTENDS Persistence, TLAPS

-----------------------------------------------------------------------------
(* The invariant *)

Count == Nat \cup {None}

Sessions == [held : Nat, dirty : BOOLEAN, timer : BOOLEAN,
             pending : Count, inFlight : Count, disk : Nat]

UiState == [held : Ui, last : Ui, pending : Ui \cup {None}, inFlight : Ui \cup {None}, disk : Ui]

Text == SUBSET Stroke

LoadRecord == [file : Worktrees, gen : Nat, text : Text \cup {None}]

Notes == [shown : Worktrees \cup {None}, text : Text, typed : Text, gen : Nat,
          pending : BOOLEAN, saving : NotesWrite \cup {None},
          loads : SUBSET LoadRecord,
          disk : [Worktrees -> Text]]

Configs == [pending : Nat, themes : Nat]

App == [quit : BOOLEAN, ended : BOOLEAN, promised : Nat]

Left == [changes : Nat, failures : 0..MaxFailures]

\* The newest of the sessions that is written or will be.
Coming(s) == IF s.pending # None THEN s.pending
             ELSE IF s.inFlight # None THEN s.inFlight ELSE s.disk

\* What is pending has a write to wait for, nothing written is newer than what
\* is held, and what comes is at least what was held at the last quit.
SessionsGood ==
    /\ sessions \in Sessions
    /\ sessions.inFlight = None => sessions.pending = None
    /\ sessions.pending # None => sessions.pending <= sessions.held
    /\ sessions.inFlight # None => sessions.inFlight <= sessions.held
    /\ sessions.disk <= sessions.held
    /\ NoFailure => app.promised <= Coming(sessions)

\* Fields other than toggles are never ahead of the window, and the state that a
\* change builds on has them as the window does.
UiGood ==
    /\ ui \in UiState
    /\ ui.inFlight = None => ui.pending = None
    /\ \A f \in Toggles : ui.held[f] \in {0, 1}
    /\ \A f \in Fields \ Toggles :
          /\ ui.pending # None => ui.pending[f] <= ui.held[f]
          /\ ui.inFlight # None => ui.inFlight[f] <= ui.held[f]
          /\ ui.last[f] <= ui.held[f]
          /\ NoFailure => QueuedBase[f] = ui.held[f] /\ ui.disk[f] = ui.last[f]

Of(text, w) == \A stroke \in text : stroke[1] = w

\* What is shown, read, written and on disk for a worktree is of that worktree.
NotesHome ==
    /\ \A w \in Worktrees : Of(notes.disk[w], w)
    /\ IF notes.shown = None THEN notes.text = {} ELSE Of(notes.text, notes.shown)
    /\ notes.saving # None => Of(notes.saving.text, notes.saving.file)
    /\ \A l \in notes.loads : l.text # None => Of(l.text, l.file)

\* A load that is current began after the last stroke, and the strokes typed that
\* nothing is pending for are being written or are in the file.
NotesKept ==
    /\ notes.typed \subseteq notes.text
    /\ \A l \in notes.loads :
          l.gen <= notes.gen /\ (l.gen = notes.gen /\ l.file = notes.shown => notes.typed = {})
    /\ NoFailure /\ notes.shown # None /\ ~notes.pending =>
          IF notes.saving = None THEN notes.typed \subseteq notes.disk[notes.shown]
          ELSE notes.typed = {} \/ /\ notes.saving.file = notes.shown
                                   /\ notes.typed \subseteq notes.saving.text

NotesGood == notes \in Notes /\ NotesHome /\ NotesKept

Nothing == ~HasWork(sessions) /\ ~HasWork(ui) /\ ~NotesHaveWork(notes) /\ configs.pending = 0

AppGood ==
    app \in App /\ configs \in Configs /\ left \in Left /\ (app.ended => Nothing)

PersistInv == SessionsGood /\ UiGood /\ NotesGood /\ AppGood

-----------------------------------------------------------------------------
(* The application and the bounds *)

\* A write that fails is counted.
LEMMA WriteEndsGood ==
    ASSUME left \in Left, NEW ok, WriteEnds(ok)
    PROVE  left' \in Left /\ (NoFailure' => NoFailure /\ ok)
<1>1. MaxFailures \in Nat
  BY PersistenceAssumption
<1> QED
  BY <1>1 DEF WriteEnds, Left, NoFailure

LEMMA PayGood ==
    ASSUME left \in Left, Pay
    PROVE  left' \in Left /\ ~app.ended /\ (NoFailure' <=> NoFailure)
BY DEF Pay, Left, NoFailure

\* The application ends only with nothing under way, and a quit promises nothing
\* before it is asked for.
LEMMA AppAfterGood ==
    ASSUME app \in App, NEW s, NEW u, NEW n, NEW c, NEW q \in BOOLEAN
    PROVE  /\ AppAfter(s, u, n, c, q) \in App
           /\ AppAfter(s, u, n, c, q).promised = app.promised
           /\ AppAfter(s, u, n, c, q).ended =>
                 app.ended \/ (~HasWork(s) /\ ~HasWork(u) /\ ~NotesHaveWork(n) /\ c.pending = 0)
BY DEF AppAfter, App

\* What a step does to the part of the state that is not a store.
LEMMA FailuresFall ==
    ASSUME PersistInv, [Next]_vars
    PROVE  left' \in Left /\ (NoFailure' => NoFailure)
<1>0. left \in Left
  BY DEF PersistInv, AppGood
<1>1. CASE UNCHANGED left
  BY <1>0, <1>1 DEF NoFailure
<1>2. CASE Pay
  BY <1>0, <1>2, PayGood
<1>3. CASE \E ok \in BOOLEAN : WriteEnds(ok)
  BY <1>0, <1>3, WriteEndsGood
<1>4. CASE UNCHANGED vars
  BY <1>1, <1>4 DEF vars
<1> QED
  BY <1>1, <1>2, <1>3, <1>4 DEF Next, TerminalChanges, TerminalOpens, TimerFires,
      SessionsWritten, UiWritten, NotesWritten, FieldChanges, WindowChanges, SelectNotes,
      ReadNotes, LoadNotes, TypeNotes, ConfigChanges, SwitchTheme, ThemeWritten, ConfigWritten,
      RequestQuit, DismissQuit

-----------------------------------------------------------------------------
(* The sessions *)

\* Saving puts what is held at the end of what comes.
LEMMA SyncedGood ==
    ASSUME NEW s \in Sessions
    PROVE  /\ Synced(s) \in Sessions /\ Synced(s).held = s.held /\ Synced(s).disk = s.disk
           /\ Coming(Synced(s)) = s.held /\ Synced(s).inFlight # None
           /\ Synced(s).inFlight \in {s.inFlight, s.held}
           /\ Synced(s).pending \in {None, s.held}
<1> DEFINE t == [s EXCEPT !.dirty = FALSE, !.pending = s.held]
<1>0. None \notin Nat
  BY PersistenceAssumption
<1>1. t \in Sessions /\ t.held = s.held /\ t.pending = s.held /\ t.inFlight = s.inFlight
      /\ t.disk = s.disk /\ s.held \in Nat /\ s.held # None
  BY <1>0 DEF Sessions, Count
<1> HIDE DEF t
<1>2. CASE s.inFlight # None
  <2>1. Synced(s) = t
    BY <1>1, <1>2 DEF Synced, BeginNext, t
  <2> QED
    BY <1>1, <1>2, <2>1 DEF Coming
<1>3. CASE s.inFlight = None
  <2>1. Synced(s) = [t EXCEPT !.pending = None, !.inFlight = t.pending]
    BY <1>1, <1>3 DEF Synced, BeginNext, t
  <2> DEFINE v == Synced(s)
  <2>2. v = [t EXCEPT !.pending = None, !.inFlight = s.held]
    BY <1>1, <2>1
  <2> HIDE DEF v
  <2>3. v \in Sessions /\ v.held = s.held /\ v.disk = s.disk /\ v.inFlight = s.held
        /\ v.pending = None
    BY <1>1, <2>2 DEF Sessions, Count
  <2> QED
    BY <1>1, <2>3 DEF Coming, v
<1> QED
  BY <1>2, <1>3

\* The end of a write takes nothing away from what comes, unless it failed.
LEMMA WrittenGood ==
    ASSUME NEW s \in Sessions, s.inFlight # None, NEW ok \in BOOLEAN
    PROVE  /\ Written(s, ok) \in Sessions /\ Written(s, ok).held = s.held
           /\ Written(s, ok).pending = None /\ Written(s, ok).inFlight = s.pending
           /\ Written(s, ok).disk = IF ok THEN s.inFlight ELSE s.disk
           /\ ok => Coming(Written(s, ok)) = Coming(s)
<1> DEFINE d == IF ok THEN s.inFlight ELSE s.disk
           t == [s EXCEPT !.disk = d, !.inFlight = None]
<1>1. d \in Nat
  BY DEF Sessions, Count
<1>2. Written(s, ok) = BeginNext(t)
  BY DEF Written
<1> HIDE DEF d
<1>3. t \in Sessions /\ t.held = s.held /\ t.pending = s.pending /\ t.inFlight = None /\ t.disk = d
  BY <1>1 DEF Sessions, Count
<1> HIDE DEF t
<1> DEFINE v == BeginNext(t)
<1>4. /\ v \in Sessions /\ v.held = s.held /\ v.pending = None /\ v.inFlight = s.pending
      /\ v.disk = d
  <2>1. CASE t.pending = None
    BY <1>3, <2>1 DEF BeginNext
  <2>2. CASE t.pending # None
    <3>1. v = [t EXCEPT !.pending = None, !.inFlight = t.pending]
      BY <1>3, <2>2 DEF BeginNext
    <3> HIDE DEF v
    <3> QED
      BY <1>3, <3>1 DEF Sessions, Count
  <2> QED
    BY <2>1, <2>2
<1> HIDE DEF v
<1>5. ok => Coming(v) = Coming(s)
  BY <1>4 DEF Coming, d
<1> QED
  BY <1>2, <1>4, <1>5 DEF v, d

LEMMA SessionsKeep ==
    ASSUME PersistInv, [Next]_vars
    PROVE  SessionsGood'
<1>0. /\ sessions \in Sessions /\ app \in App /\ left \in Left
      /\ sessions.inFlight = None => sessions.pending = None
      /\ sessions.pending # None => sessions.pending <= sessions.held
      /\ sessions.inFlight # None => sessions.inFlight <= sessions.held
      /\ sessions.disk <= sessions.held
      /\ NoFailure => app.promised <= Coming(sessions)
      /\ NoFailure' => NoFailure
  BY FailuresFall DEF PersistInv, SessionsGood, AppGood
<1>t. /\ sessions.held \in Nat /\ sessions.disk \in Nat /\ app.promised \in Nat
      /\ Coming(sessions) \in Nat /\ Coming(sessions) <= sessions.held
      /\ sessions.pending \in Nat \cup {None} /\ sessions.inFlight \in Nat \cup {None}
  BY <1>0 DEF Sessions, Count, App, Coming
<1>1. CASE UNCHANGED sessions /\ app'.promised = app.promised
  BY <1>0, <1>1 DEF SessionsGood
<1>2. CASE TerminalChanges
  <2> DEFINE n == sessions.held + 1
  <2>1. /\ sessions' = [sessions EXCEPT !.held = n, !.dirty = TRUE, !.timer = TRUE]
        /\ app' = app
    BY <1>2 DEF TerminalChanges
  <2>2. n \in Nat /\ sessions.held <= n
    BY <1>t
  <2> HIDE DEF n
  <2>3. /\ sessions' \in Sessions /\ sessions'.held = n
        /\ sessions'.pending = sessions.pending /\ sessions'.inFlight = sessions.inFlight
        /\ sessions'.disk = sessions.disk
    BY <1>0, <2>1, <2>2 DEF Sessions
  <2> QED
    BY <1>0, <1>t, <2>1, <2>2, <2>3 DEF SessionsGood, Coming
<1>3. ASSUME NEW s \in Sessions, s.held \in {sessions.held, sessions.held + 1},
             s.inFlight = sessions.inFlight, s.disk = sessions.disk,
             sessions' = Synced(s), app'.promised \in {app.promised, sessions.held}
      PROVE  SessionsGood'
  <2>1. /\ Synced(s) \in Sessions /\ Synced(s).held = s.held /\ Synced(s).disk = s.disk
        /\ Coming(Synced(s)) = s.held /\ Synced(s).inFlight # None
        /\ Synced(s).inFlight \in {s.inFlight, s.held}
        /\ Synced(s).pending \in {None, s.held}
    BY SyncedGood
  <2> QED
    BY <1>0, <1>t, <1>3, <2>1 DEF SessionsGood
<1>4. CASE TerminalOpens
  <2> DEFINE s == [sessions EXCEPT !.held = sessions.held + 1]
  <2>1. sessions' = Synced(s) /\ app' = app
    BY <1>4 DEF TerminalOpens
  <2>2. /\ s \in Sessions /\ s.held = sessions.held + 1 /\ s.inFlight = sessions.inFlight
        /\ s.disk = sessions.disk
    BY <1>0, <1>t DEF Sessions
  <2> HIDE DEF s
  <2> QED
    BY <1>3, <2>1, <2>2
<1>5. CASE TimerFires
  <2>1. CASE sessions.dirty
    BY <1>0, <1>3, <1>5, <2>1 DEF TimerFires
  <2>2. CASE ~sessions.dirty
    <3>1. sessions' = [sessions EXCEPT !.timer = FALSE] /\ app' = app
      BY <1>5, <2>2 DEF TimerFires
    <3>2. /\ sessions' \in Sessions /\ sessions'.held = sessions.held
          /\ sessions'.pending = sessions.pending /\ sessions'.inFlight = sessions.inFlight
          /\ sessions'.disk = sessions.disk
      BY <1>0, <3>1 DEF Sessions
    <3> QED
      BY <1>0, <1>t, <3>1, <3>2 DEF SessionsGood, Coming
  <2> QED
    BY <2>1, <2>2
<1>6. ASSUME NEW ok \in BOOLEAN, SessionsWritten(ok)
      PROVE  SessionsGood'
  <2>1. /\ sessions.inFlight # None /\ WriteEnds(ok) /\ sessions' = Written(sessions, ok)
        /\ app' = AppAfter(sessions', ui, notes, configs, app.quit)
    BY <1>6 DEF SessionsWritten
  <2>2. app'.promised = app.promised
    BY <1>0, <2>1, AppAfterGood DEF App
  <2>3. /\ sessions' \in Sessions /\ sessions'.held = sessions.held
        /\ sessions'.pending = None /\ sessions'.inFlight = sessions.pending
        /\ sessions'.disk = IF ok THEN sessions.inFlight ELSE sessions.disk
        /\ ok => Coming(sessions') = Coming(sessions)
    BY <1>0, <2>1, WrittenGood
  <2>4. NoFailure' => ok
    BY <1>0, <2>1, WriteEndsGood
  <2> QED
    BY <1>0, <1>t, <2>1, <2>2, <2>3, <2>4 DEF SessionsGood
<1>7. CASE RequestQuit
  <2>1. app'.promised = sessions.held
    <3> DEFINE a == AppAfter(sessions', ui, notes, configs, TRUE)
    <3>1. a \in App
      BY <1>0, AppAfterGood
    <3>2. app' = [a EXCEPT !.promised = sessions.held]
      BY <1>7 DEF RequestQuit
    <3> QED
      BY <3>1, <3>2 DEF App
  <2> QED
    BY <1>0, <1>3, <1>7, <2>1 DEF RequestQuit
<1>8. CASE \E ok \in BOOLEAN : UiWritten(ok) \/ NotesWritten(ok)
  <2>1. UNCHANGED sessions /\ app'.promised = app.promised
    BY <1>0, <1>8, AppAfterGood DEF UiWritten, NotesWritten, App
  <2> QED
    BY <1>1, <2>1
<1>9. CASE ConfigWritten \/ DismissQuit
  <2>1. UNCHANGED sessions /\ app'.promised = app.promised
    BY <1>0, <1>9, AppAfterGood DEF ConfigWritten, DismissQuit, App
  <2> QED
    BY <1>1, <2>1
<1>10. CASE \/ \E f \in Fields : FieldChanges(f) \/ WindowChanges(f)
            \/ \E w \in Worktrees \cup {None} : SelectNotes(w)
            \/ \E l \in notes.loads : ReadNotes(l) \/ LoadNotes(l)
            \/ TypeNotes \/ ConfigChanges \/ SwitchTheme \/ ThemeWritten \/ UNCHANGED vars
  BY <1>1, <1>10 DEF FieldChanges, WindowChanges, SelectNotes, ReadNotes, LoadNotes,
      TypeNotes, ConfigChanges, SwitchTheme, ThemeWritten, vars
<1> QED
  BY <1>2, <1>4, <1>5, <1>6, <1>7, <1>8, <1>9, <1>10 DEF Next

-----------------------------------------------------------------------------
(* The UI state *)

\* What is pending is written, unless a write is under way.
LEMMA BeginUi ==
    ASSUME NEW u \in UiState
    PROVE  /\ BeginNext(u) \in UiState /\ BeginNext(u).held = u.held
           /\ BeginNext(u).last = u.last /\ BeginNext(u).disk = u.disk
           /\ u.inFlight # None => BeginNext(u) = u
           /\ u.inFlight = None => /\ BeginNext(u).pending = None
                                   /\ BeginNext(u).inFlight = u.pending
<1> DEFINE v == BeginNext(u)
<1>1. CASE u.inFlight # None \/ u.pending = None
  BY <1>1 DEF BeginNext
<1>2. CASE u.inFlight = None /\ u.pending # None
  <2>1. v = [u EXCEPT !.pending = None, !.inFlight = u.pending]
    BY <1>2 DEF BeginNext
  <2> HIDE DEF v
  <2>2. /\ v \in UiState /\ v.held = u.held /\ v.last = u.last /\ v.disk = u.disk
        /\ v.pending = None /\ v.inFlight = u.pending
    BY <2>1 DEF UiState
  <2> QED
    BY <1>2, <2>2 DEF v
<1> QED
  BY <1>1, <1>2

\* A new state is queued whose fields, toggles apart, are what the window holds.
LEMMA QueuedKeeps ==
    ASSUME UiGood, NEW held \in Ui, NEW next \in Ui, ui' = Queued(held, next),
           NoFailure' => NoFailure,
           \A f \in Toggles : held[f] \in {0, 1},
           \A f \in Fields \ Toggles :
               /\ ui.held[f] <= held[f] /\ next[f] <= held[f]
               /\ NoFailure => next[f] = held[f]
    PROVE  UiGood'
<1> DEFINE p == NextPending(next)
           u == [ui EXCEPT !.held = held, !.pending = p]
<1>0. ui \in UiState /\ None \notin Ui
  BY PersistenceAssumption DEF UiGood
<1>1. p \in Ui \cup {None} /\ ui' = BeginNext(u)
  BY <1>0 DEF NextPending, Queued, UiState
<1>2. \/ p = next
      \/ p = ui.pending /\ next = ui.pending
      \/ p = ui.pending /\ next = ui.inFlight
      \/ p = None /\ next = ui.last /\ ui.inFlight = None
  BY DEF NextPending
<1> HIDE DEF p
<1>3. /\ u \in UiState /\ u.held = held /\ u.pending = p /\ u.inFlight = ui.inFlight
      /\ u.last = ui.last /\ u.disk = ui.disk
  BY <1>0, <1>1 DEF UiState
<1> HIDE DEF u
<1>4. /\ ui' \in UiState /\ ui'.held = held /\ ui'.last = ui.last /\ ui'.disk = ui.disk
      /\ ui.inFlight # None => ui'.pending = p /\ ui'.inFlight = ui.inFlight
      /\ ui.inFlight = None => ui'.pending = None /\ ui'.inFlight = p
  BY <1>1, <1>3, BeginUi
<1>5. ASSUME NEW f \in Fields \ Toggles
      PROVE  /\ ui'.pending # None => ui'.pending[f] <= held[f]
             /\ ui'.inFlight # None => ui'.inFlight[f] <= held[f]
             /\ ui'.last[f] <= held[f]
             /\ NoFailure' => QueuedBase'[f] = held[f] /\ ui'.disk[f] = ui'.last[f]
  <2>1. /\ ui.pending # None => ui.pending[f] \in Nat /\ ui.pending[f] <= ui.held[f]
        /\ ui.inFlight # None => ui.inFlight[f] \in Nat /\ ui.inFlight[f] <= ui.held[f]
        /\ ui.last[f] \in Nat /\ ui.last[f] <= ui.held[f]
        /\ ui.inFlight = None => ui.pending = None
        /\ NoFailure => QueuedBase[f] = ui.held[f] /\ ui.disk[f] = ui.last[f]
        /\ ui.held[f] \in Nat /\ held[f] \in Nat /\ next[f] \in Nat
    BY <1>0 DEF UiGood, UiState, Ui
  <2>2. p # None => p[f] <= held[f]
    BY <1>2, <2>1
  <2>3. /\ ui'.pending # None => ui'.pending[f] <= held[f]
        /\ ui'.inFlight # None => ui'.inFlight[f] <= held[f]
        /\ ui'.last[f] <= held[f]
    BY <1>4, <2>1, <2>2
  <2>4. ASSUME NoFailure
        PROVE  QueuedBase'[f] = held[f]
    <3>0. /\ next[f] = held[f] /\ QueuedBase[f] = ui.held[f]
          /\ QueuedBase' = IF ui'.pending # None THEN ui'.pending
                           ELSE IF ui'.inFlight # None THEN ui'.inFlight ELSE ui'.last
          /\ QueuedBase = IF ui.pending # None THEN ui.pending
                          ELSE IF ui.inFlight # None THEN ui.inFlight ELSE ui.last
      BY <2>1, <2>4 DEF QueuedBase
    <3>1. CASE p = next
      BY <1>0, <1>4, <3>0, <3>1
    <3>2. CASE p = ui.pending /\ next = ui.inFlight
      BY <1>0, <1>4, <2>1, <3>0, <3>2
    <3>3. CASE p = None /\ next = ui.last /\ ui.inFlight = None
      BY <1>4, <3>0, <3>3
    <3> QED
      BY <1>2, <3>1, <3>2, <3>3
  <2> QED
    BY <1>4, <2>1, <2>3, <2>4
<1>6. ui'.inFlight = None => ui'.pending = None
  BY <1>4
<1> QED
  BY <1>4, <1>5, <1>6 DEF UiGood

\* One field changes, in the window and in a state that is queued.
LEMMA FieldValue ==
    ASSUME UiGood, NEW f \in Fields, NEW base \in Ui,
           \A g \in Fields \ Toggles : base[g] <= ui.held[g]
    PROVE  LET held == [ui.held EXCEPT ![f] = NewValue(f)]
               next == [base EXCEPT ![f] = held[f]]
           IN  /\ held \in Ui /\ next \in Ui
               /\ \A g \in Toggles : held[g] \in {0, 1}
               /\ \A g \in Fields \ Toggles :
                     /\ ui.held[g] <= held[g] /\ next[g] <= held[g]
                     /\ base[g] = ui.held[g] => next[g] = held[g]
<1> DEFINE v == NewValue(f)
           held == [ui.held EXCEPT ![f] = v]
           next == [base EXCEPT ![f] = held[f]]
<1>0. ui.held \in [Fields -> Nat] /\ base \in [Fields -> Nat] /\ Toggles \subseteq Fields
  BY PersistenceAssumption DEF UiGood, UiState, Ui
<1>1. /\ v \in Nat
      /\ f \in Toggles => v \in {0, 1}
      /\ f \notin Toggles => ui.held[f] <= v
  BY <1>0 DEF UiGood, NewValue
<1> HIDE DEF v
<1>2. /\ held \in [Fields -> Nat] /\ held[f] = v
      /\ \A g \in Fields : g # f => held[g] = ui.held[g]
  BY <1>0, <1>1
<1>3. /\ next \in [Fields -> Nat] /\ next[f] = v
      /\ \A g \in Fields : g # f => next[g] = base[g]
  BY <1>0, <1>1, <1>2
<1> HIDE DEF held, next
<1>4. /\ \A g \in Toggles : held[g] \in {0, 1}
      /\ \A g \in Fields \ Toggles :
            /\ ui.held[g] <= held[g] /\ next[g] <= held[g]
            /\ base[g] = ui.held[g] => next[g] = held[g]
  BY <1>0, <1>1, <1>2, <1>3 DEF UiGood
<1> QED
  BY <1>2, <1>3, <1>4 DEF Ui, held, next, v

LEMMA UiKeeps ==
    ASSUME PersistInv, [Next]_vars
    PROVE  UiGood'
<1>0. /\ UiGood /\ ui \in UiState /\ left \in Left /\ (NoFailure' => NoFailure)
      /\ None \notin Ui
  BY FailuresFall, PersistenceAssumption DEF PersistInv, UiGood, AppGood
<1>1. CASE UNCHANGED ui
  BY <1>0, <1>1 DEF UiGood, QueuedBase
<1>2. ASSUME NEW f \in Fields, FieldChanges(f)
      PROVE  UiGood'
  <2> DEFINE base == QueuedBase
             held == [ui.held EXCEPT ![f] = NewValue(f)]
             next == [base EXCEPT ![f] = held[f]]
  <2>1. ui' = Queued(held, next)
    BY <1>2 DEF FieldChanges
  <2>2. /\ base \in Ui /\ \A g \in Fields \ Toggles : base[g] <= ui.held[g]
        /\ NoFailure => \A g \in Fields \ Toggles : base[g] = ui.held[g]
    BY <1>0 DEF QueuedBase, UiGood, UiState
  <2> HIDE DEF base
  <2>3. /\ held \in Ui /\ next \in Ui
        /\ \A g \in Toggles : held[g] \in {0, 1}
        /\ \A g \in Fields \ Toggles :
              /\ ui.held[g] <= held[g] /\ next[g] <= held[g]
              /\ base[g] = ui.held[g] => next[g] = held[g]
    BY <1>0, <2>2, FieldValue
  <2> HIDE DEF held, next
  <2> QED
    BY <1>0, <2>1, <2>2, <2>3, QueuedKeeps
<1>3. ASSUME NEW f \in Fields, WindowChanges(f)
      PROVE  UiGood'
  <2> DEFINE held == [ui.held EXCEPT ![f] = NewValue(f)]
  <2>1. ui' = Queued(held, held)
    BY <1>3 DEF WindowChanges
  <2>2. ui.held \in Ui /\ \A g \in Fields \ Toggles : ui.held[g] <= ui.held[g]
    BY <1>0 DEF UiState, Ui
  <2>3. /\ held \in Ui /\ \A g \in Toggles : held[g] \in {0, 1}
        /\ \A g \in Fields \ Toggles : ui.held[g] <= held[g]
    BY <1>0, <2>2, FieldValue
  <2> HIDE DEF held
  <2>4. \A g \in Fields \ Toggles : held[g] <= held[g]
    BY <2>3 DEF Ui
  <2> QED
    BY <1>0, <2>1, <2>3, <2>4, QueuedKeeps
<1>4. ASSUME NEW ok \in BOOLEAN, UiWritten(ok)
      PROVE  UiGood'
  <2> DEFINE d == IF ok THEN ui.inFlight ELSE ui.disk
             l == IF ok THEN ui.inFlight ELSE ui.last
             u == [ui EXCEPT !.disk = d, !.last = l, !.inFlight = None]
  <2>1. ui.inFlight # None /\ WriteEnds(ok) /\ ui' = BeginNext(u)
    BY <1>4 DEF UiWritten, UiAfter
  <2>2. NoFailure' => ok
    BY <1>0, <2>1, WriteEndsGood
  <2>3. d \in Ui /\ l \in Ui
    BY <1>0, <2>1 DEF UiState
  <2> HIDE DEF d, l
  <2>4. /\ u \in UiState /\ u.held = ui.held /\ u.pending = ui.pending /\ u.inFlight = None
        /\ u.last = l /\ u.disk = d
    BY <1>0, <2>3 DEF UiState
  <2> HIDE DEF u
  <2>5. /\ ui' \in UiState /\ ui'.held = ui.held /\ ui'.last = l /\ ui'.disk = d
        /\ ui'.pending = None /\ ui'.inFlight = ui.pending
    BY <2>1, <2>4, BeginUi
  <2>6. /\ ok => d = ui.inFlight /\ l = ui.inFlight
        /\ ~ok => l = ui.last
    BY DEF d, l
  <2>7. \A f \in Fields \ Toggles :
           /\ ui'.inFlight # None => ui'.inFlight[f] <= ui'.held[f]
           /\ ui'.last[f] <= ui'.held[f]
    BY <1>0, <2>1, <2>5, <2>6 DEF UiGood
  <2>8. ok => QueuedBase' = QueuedBase
    BY <2>1, <2>5, <2>6 DEF QueuedBase
  <2>9. \A f \in Toggles : ui'.held[f] \in {0, 1}
    BY <1>0, <2>5 DEF UiGood
  <2>10. ASSUME NoFailure', NEW f \in Fields \ Toggles
         PROVE  QueuedBase'[f] = ui'.held[f] /\ ui'.disk[f] = ui'.last[f]
    BY <1>0, <2>2, <2>5, <2>6, <2>8, <2>10 DEF UiGood
  <2> QED
    BY <2>5, <2>7, <2>9, <2>10 DEF UiGood
<1>5. CASE \/ TerminalChanges \/ TerminalOpens \/ TimerFires
           \/ \E ok \in BOOLEAN : SessionsWritten(ok) \/ NotesWritten(ok)
           \/ \E w \in Worktrees \cup {None} : SelectNotes(w)
           \/ \E l \in notes.loads : ReadNotes(l) \/ LoadNotes(l)
           \/ TypeNotes \/ ConfigChanges \/ SwitchTheme \/ ThemeWritten \/ ConfigWritten
           \/ RequestQuit \/ DismissQuit
           \/ UNCHANGED vars
  BY <1>1, <1>5 DEF TerminalChanges, TerminalOpens, TimerFires, SessionsWritten, NotesWritten,
      SelectNotes, ReadNotes, LoadNotes, TypeNotes, ConfigChanges, SwitchTheme, ThemeWritten,
      ConfigWritten, RequestQuit, DismissQuit, vars
<1> QED
  BY <1>2, <1>3, <1>4, <1>5 DEF Next

-----------------------------------------------------------------------------
(* The notes *)

\* A write that starts is of what is shown, to the file of what is shown.
LEMMA StartGood ==
    ASSUME NEW n \in Notes,
           IF n.shown = None THEN n.text = {} ELSE Of(n.text, n.shown),
           n.saving # None => Of(n.saving.text, n.saving.file)
    PROVE  LET m == StartNotes(n)
           IN  /\ m \in Notes /\ m.shown = n.shown /\ m.text = n.text /\ m.typed = n.typed
               /\ m.gen = n.gen /\ m.loads = n.loads /\ m.disk = n.disk
               /\ m.saving # None => Of(m.saving.text, m.saving.file)
               /\ n.saving # None => m = n
               /\ n.saving = None /\ n.pending /\ n.shown # None =>
                     m.saving # None /\ m.saving.file = n.shown /\ m.saving.text = n.text
               /\ ~n.pending => m = n
<1> DEFINE m == StartNotes(n)
           w == IF n.shown = None THEN None ELSE [file |-> n.shown, text |-> n.text]
<1>1. CASE n.saving # None \/ ~n.pending
  BY <1>1 DEF StartNotes
<1>2. CASE n.saving = None /\ n.pending
  <2>1. m = [n EXCEPT !.pending = FALSE, !.saving = w]
    BY <1>2 DEF StartNotes
  <2>2. /\ w \in NotesWrite \cup {None}
        /\ n.shown # None => /\ w # None /\ w.file = n.shown /\ w.text = n.text
        /\ w # None => Of(w.text, w.file)
    BY PersistenceAssumption DEF Notes, NotesWrite, Text
  <2> HIDE DEF w, m
  <2>3. /\ m \in Notes /\ m.shown = n.shown /\ m.text = n.text /\ m.typed = n.typed
        /\ m.gen = n.gen /\ m.loads = n.loads /\ m.disk = n.disk /\ m.saving = w
    BY <2>1, <2>2 DEF Notes
  <2> QED
    BY <1>2, <2>2, <2>3 DEF m
<1> QED
  BY <1>1, <1>2

LEMMA SelectKeeps ==
    ASSUME NotesGood, NoFailure' => NoFailure, NEW w \in Worktrees \cup {None}, SelectNotes(w)
    PROVE  NotesGood'
<1>0. notes \in Notes /\ None \notin Worktrees
  BY PersistenceAssumption DEF NotesGood
<1>1. CASE w = None
  <2>1. notes' = [notes EXCEPT !.shown = None, !.text = {}, !.typed = {}]
    BY <1>1 DEF SelectNotes
  <2>2. /\ notes' \in Notes /\ notes'.shown = None /\ notes'.text = {} /\ notes'.typed = {}
        /\ notes'.gen = notes.gen /\ notes'.saving = notes.saving
        /\ notes'.loads = notes.loads /\ notes'.disk = notes.disk
    BY <1>0, <2>1 DEF Notes, Text
  <2>3. NotesHome'
    BY <2>2 DEF NotesGood, NotesHome
  <2>4. NotesKept'
    BY <2>2 DEF NotesGood, NotesKept
  <2> QED
    BY <2>2, <2>3, <2>4 DEF NotesGood
<1>2. CASE w # None
  <2> DEFINE g == notes.gen + 1
             l == [file |-> w, gen |-> g, text |-> None]
             loads == notes.loads \cup {l}
  <2>1. notes' = [notes EXCEPT !.shown = w, !.text = {}, !.typed = {}, !.gen = g,
                               !.loads = loads]
    BY <1>2 DEF SelectNotes
  <2>2. g \in Nat /\ notes.gen \in Nat /\ notes.gen < g /\ w \in Worktrees
    BY <1>0, <1>2 DEF Notes
  <2> HIDE DEF g
  <2>3. l \in LoadRecord /\ notes.loads \subseteq LoadRecord
    BY <1>0, <2>2 DEF Notes, LoadRecord
  <2> HIDE DEF l
  <2>4. loads \subseteq LoadRecord
    BY <2>3
  <2> HIDE DEF loads
  <2>5. /\ notes' \in Notes /\ notes'.shown = w /\ notes'.text = {} /\ notes'.typed = {}
        /\ notes'.gen = g /\ notes'.saving = notes.saving
        /\ notes'.loads = loads /\ notes'.disk = notes.disk
    BY <1>0, <2>1, <2>2, <2>4 DEF Notes, Text, LoadRecord
  <2>6. NotesHome'
    BY <1>2, <2>5 DEF NotesGood, NotesHome, Of, loads, l
  <2>7. \A k \in loads : k.gen <= g
    BY <1>0, <2>2, <2>3 DEF NotesGood, NotesKept, loads, l, LoadRecord
  <2>8. NotesKept'
    BY <2>5, <2>7 DEF NotesKept
  <2> QED
    BY <2>5, <2>6, <2>8 DEF NotesGood
<1> QED
  BY <1>1, <1>2

LEMMA ReadKeeps ==
    ASSUME NotesGood, NoFailure' => NoFailure, NEW l \in notes.loads, ReadNotes(l)
    PROVE  NotesGood'
<1>a. PICK text \in {notes.disk[l.file], {}} :
         notes' = [notes EXCEPT !.loads = (@ \ {l}) \cup {[l EXCEPT !.text = text]}]
  BY DEF ReadNotes
<1> DEFINE k == [l EXCEPT !.text = text]
           loads == (notes.loads \ {l}) \cup {k}
<1>0. notes \in Notes /\ l \in LoadRecord /\ notes.loads \subseteq LoadRecord
  BY DEF NotesGood, Notes, LoadRecord
<1>1. notes' = [notes EXCEPT !.loads = loads]
  BY <1>a
<1>2. /\ k \in LoadRecord /\ k.file = l.file /\ k.gen = l.gen /\ k.text \in {notes.disk[l.file], {}}
      /\ l.file \in Worktrees
  <2>1. text \in Text
    BY <1>0, <1>a DEF Notes, LoadRecord, Text
  <2> QED
    BY <1>0, <1>a, <2>1 DEF LoadRecord
<1> HIDE DEF k
<1>3. loads \subseteq LoadRecord
  BY <1>0, <1>2
<1> HIDE DEF loads
<1>4. /\ notes' \in Notes /\ notes'.shown = notes.shown /\ notes'.text = notes.text
      /\ notes'.typed = notes.typed /\ notes'.gen = notes.gen /\ notes'.saving = notes.saving
      /\ notes'.pending = notes.pending /\ notes'.loads = loads /\ notes'.disk = notes.disk
  BY <1>0, <1>1, <1>3 DEF Notes, LoadRecord
<1>5. NotesHome'
  BY <1>2, <1>4 DEF NotesGood, NotesHome, Of, loads
<1>6. NotesKept'
  BY <1>2, <1>4 DEF NotesGood, NotesKept, loads
<1> QED
  BY <1>4, <1>5, <1>6 DEF NotesGood

\* A text that is loaded replaces what is shown only before the first stroke.
LEMMA LoadKeeps ==
    ASSUME NotesGood, NoFailure' => NoFailure, NEW l \in notes.loads, LoadNotes(l)
    PROVE  NotesGood'
<1> DEFINE text == IF IsCurrent(l) THEN l.text ELSE notes.text
           loads == notes.loads \ {l}
<1>0. notes \in Notes /\ l \in LoadRecord /\ None \notin Worktrees
  BY PersistenceAssumption DEF NotesGood, Notes, LoadRecord
<1>1. l.text # None /\ notes' = [notes EXCEPT !.loads = loads, !.text = text]
  BY DEF LoadNotes
<1>2. /\ text \in Text /\ loads \subseteq notes.loads
      /\ notes.typed \subseteq text
      /\ IF notes.shown = None THEN text = {} ELSE Of(text, notes.shown)
  <2>1. CASE IsCurrent(l)
    <3>1. text = l.text /\ l.gen = notes.gen /\ l.file = notes.shown
      BY <2>1 DEF IsCurrent
    <3>2. notes.typed = {} /\ Of(l.text, notes.shown) /\ notes.shown # None
      BY <1>0, <1>1, <3>1 DEF NotesGood, NotesKept, NotesHome, LoadRecord
    <3> QED
      BY <1>0, <1>1, <3>1, <3>2 DEF LoadRecord
  <2>2. CASE ~IsCurrent(l)
    BY <1>0, <2>2 DEF NotesGood, NotesKept, NotesHome, Notes
  <2> QED
    BY <2>1, <2>2
<1> HIDE DEF text, loads
<1>3. loads \in SUBSET LoadRecord
  BY <1>0, <1>2 DEF Notes, LoadRecord
<1>4. /\ notes' \in Notes /\ notes'.shown = notes.shown /\ notes'.text = text
      /\ notes'.typed = notes.typed /\ notes'.gen = notes.gen /\ notes'.saving = notes.saving
      /\ notes'.pending = notes.pending /\ notes'.loads = loads /\ notes'.disk = notes.disk
  BY <1>0, <1>1, <1>2, <1>3 DEF Notes, LoadRecord
<1>5. NotesHome'
  BY <1>2, <1>4 DEF NotesGood, NotesHome
<1>6. NotesKept'
  BY <1>2, <1>4 DEF NotesGood, NotesKept
<1> QED
  BY <1>4, <1>5, <1>6 DEF NotesGood

\* A stroke is the newest generation, and waits to be written.
LEMMA TypeKeeps ==
    ASSUME NotesGood, NoFailure' => NoFailure, TypeNotes
    PROVE  NotesGood'
<1> DEFINE g == notes.gen + 1
           stroke == <<notes.shown, g>>
           text == notes.text \cup {stroke}
           typed == notes.typed \cup {stroke}
           n == [notes EXCEPT !.text = text, !.typed = typed, !.gen = g, !.pending = TRUE]
           m == StartNotes(n)
<1>0. notes \in Notes
  BY DEF NotesGood
<1>1. notes.shown # None /\ notes' = m
  BY DEF TypeNotes
<1>2. g \in Nat /\ notes.gen \in Nat /\ notes.gen < g /\ notes.shown \in Worktrees
  BY <1>0, <1>1 DEF Notes
<1> HIDE DEF g
<1>3. stroke \in Stroke /\ stroke[1] = notes.shown
  BY <1>2 DEF Stroke
<1> HIDE DEF stroke
<1>4. /\ text \in Text /\ typed \in Text /\ typed \subseteq text /\ Of(text, notes.shown)
  BY <1>0, <1>1, <1>3 DEF Notes, Text, NotesGood, NotesKept, NotesHome, Of
<1> HIDE DEF text, typed
<1>5. /\ n \in Notes /\ n.shown = notes.shown /\ n.text = text /\ n.typed = typed /\ n.gen = g
      /\ n.pending /\ n.saving = notes.saving /\ n.loads = notes.loads /\ n.disk = notes.disk
  BY <1>0, <1>2, <1>4 DEF Notes
<1> HIDE DEF n
<1>6. /\ m \in Notes /\ m.shown = notes.shown /\ m.text = text /\ m.typed = typed /\ m.gen = g
      /\ m.loads = notes.loads /\ m.disk = notes.disk
      /\ m.saving # None => Of(m.saving.text, m.saving.file)
      /\ notes.saving # None => m.pending
      /\ notes.saving = None => m.saving # None /\ m.saving.file = notes.shown
                                /\ m.saving.text = text
  <2>1. n.saving # None => Of(n.saving.text, n.saving.file)
    BY <1>5 DEF NotesGood, NotesHome
  <2>2. IF n.shown = None THEN n.text = {} ELSE Of(n.text, n.shown)
    BY <1>1, <1>4, <1>5
  <2> QED
    BY <1>1, <1>5, <2>1, <2>2, StartGood
<1> HIDE DEF m
<1>7. NotesHome'
  BY <1>1, <1>4, <1>6 DEF NotesGood, NotesHome
<1>8. \A l \in notes.loads : l.gen <= g /\ l.gen # g
  <2>1. \A l \in notes.loads : l.gen \in Nat /\ l.gen <= notes.gen
    BY <1>0 DEF NotesGood, NotesKept, Notes, LoadRecord
  <2> QED
    BY <1>2, <2>1
<1>9. NotesKept'
  BY <1>1, <1>4, <1>6, <1>8 DEF NotesKept
<1> QED
  BY <1>1, <1>6, <1>7, <1>9 DEF NotesGood

\* A write that ends leaves its text in the file it was started for.
LEMMA StoredKeeps ==
    ASSUME NotesGood, left \in Left, NEW ok \in BOOLEAN, NotesWritten(ok)
    PROVE  NotesGood'
<1> DEFINE d == IF ok THEN [notes.disk EXCEPT ![notes.saving.file] = notes.saving.text]
                ELSE notes.disk
           n == [notes EXCEPT !.disk = d, !.saving = None]
           m == StartNotes(n)
<1>0. notes \in Notes
  BY DEF NotesGood
<1>1. notes.saving # None /\ WriteEnds(ok) /\ notes' = StartNotes(Stored(notes, ok))
  BY DEF NotesWritten
<1>2. notes' = m
  BY <1>1 DEF Stored
<1>3. NoFailure' => NoFailure /\ ok
  BY <1>1, WriteEndsGood
<1>4. notes.saving \in NotesWrite /\ Of(notes.saving.text, notes.saving.file)
  BY <1>0, <1>1 DEF Notes, NotesGood, NotesHome
<1>5. /\ notes.disk \in [Worktrees -> Text]
      /\ notes.saving.file \in Worktrees /\ notes.saving.text \in Text
      /\ \A w \in Worktrees : Of(notes.disk[w], w)
  BY <1>0, <1>4 DEF Notes, NotesWrite, Text, NotesGood, NotesHome
<1>6. /\ d \in [Worktrees -> Text] /\ \A w \in Worktrees : Of(d[w], w)
      /\ ok => d[notes.saving.file] = notes.saving.text
  BY <1>4, <1>5
<1> HIDE DEF d
<1>7. /\ n \in Notes /\ n.shown = notes.shown /\ n.text = notes.text /\ n.typed = notes.typed
      /\ n.gen = notes.gen /\ n.pending = notes.pending /\ n.saving = None
      /\ n.loads = notes.loads /\ n.disk = d
  BY <1>0, <1>6 DEF Notes
<1> HIDE DEF n
<1>8. /\ m \in Notes /\ m.shown = notes.shown /\ m.text = notes.text /\ m.typed = notes.typed
      /\ m.gen = notes.gen /\ m.loads = notes.loads /\ m.disk = d
      /\ m.saving # None => Of(m.saving.text, m.saving.file)
      /\ notes.pending /\ notes.shown # None =>
            m.saving # None /\ m.saving.file = notes.shown /\ m.saving.text = notes.text
      /\ ~notes.pending => m.saving = None /\ ~m.pending
  <2>1. IF n.shown = None THEN n.text = {} ELSE Of(n.text, n.shown)
    BY <1>7 DEF NotesGood, NotesHome
  <2> QED
    BY <1>7, <2>1, StartGood
<1> HIDE DEF m
<1>9. NotesHome'
  BY <1>2, <1>6, <1>8 DEF NotesGood, NotesHome
<1>10. NotesKept'
  <2>1. ASSUME NoFailure, ok, notes.shown # None, ~notes.pending
        PROVE  notes.typed \subseteq d[notes.shown]
    BY <1>1, <1>6, <2>1 DEF NotesGood, NotesKept
  <2>2. notes.typed \subseteq notes.text
    BY DEF NotesGood, NotesKept
  <2>3. \A l \in notes.loads :
           l.gen <= notes.gen /\ (l.gen = notes.gen /\ l.file = notes.shown => notes.typed = {})
    BY DEF NotesGood, NotesKept
  <2> QED
    BY <1>2, <1>3, <1>8, <2>1, <2>2, <2>3 DEF NotesKept
<1> QED
  BY <1>2, <1>8, <1>9, <1>10 DEF NotesGood

LEMMA NotesKeep ==
    ASSUME PersistInv, [Next]_vars
    PROVE  NotesGood'
<1>0. NotesGood /\ left \in Left /\ (NoFailure' => NoFailure)
  BY FailuresFall DEF PersistInv, AppGood
<1>1. CASE UNCHANGED notes
  BY <1>0, <1>1 DEF NotesGood, NotesHome, NotesKept
<1>2. CASE \/ \E w \in Worktrees \cup {None} : SelectNotes(w)
           \/ \E l \in notes.loads : ReadNotes(l) \/ LoadNotes(l)
           \/ TypeNotes \/ \E ok \in BOOLEAN : NotesWritten(ok)
  BY <1>0, <1>2, SelectKeeps, ReadKeeps, LoadKeeps, TypeKeeps, StoredKeeps
<1>3. CASE \/ TerminalChanges \/ TerminalOpens \/ TimerFires
           \/ \E ok \in BOOLEAN : SessionsWritten(ok) \/ UiWritten(ok)
           \/ \E f \in Fields : FieldChanges(f) \/ WindowChanges(f)
           \/ ConfigChanges \/ SwitchTheme \/ ThemeWritten \/ ConfigWritten \/ RequestQuit \/ DismissQuit
           \/ UNCHANGED vars
  BY <1>1, <1>3 DEF TerminalChanges, TerminalOpens, TimerFires, SessionsWritten, UiWritten,
      FieldChanges, WindowChanges, ConfigChanges, SwitchTheme, ThemeWritten,
      ConfigWritten, RequestQuit, DismissQuit, vars
<1> QED
  BY <1>2, <1>3 DEF Next

-----------------------------------------------------------------------------
(* The theorems *)

\* The application ends only with nothing under way, and then nothing begins.
LEMMA AppKeeps ==
    ASSUME PersistInv, [Next]_vars
    PROVE  AppGood'
<1>0. /\ app \in App /\ configs \in Configs /\ left \in Left /\ (app.ended => Nothing)
      /\ app.quit \in BOOLEAN /\ sessions \in Sessions
  BY DEF PersistInv, AppGood, App, SessionsGood
<1>1. left' \in Left
  BY FailuresFall
<1>2. CASE UNCHANGED vars
  BY <1>0, <1>1, <1>2 DEF vars, AppGood, Nothing
<1>3. ASSUME UNCHANGED app, ~app.ended, configs' \in Configs
      PROVE  AppGood'
  BY <1>0, <1>1, <1>3 DEF AppGood
<1>4. CASE \/ TerminalChanges \/ TerminalOpens \/ TimerFires
           \/ \E f \in Fields : FieldChanges(f) \/ WindowChanges(f)
           \/ \E w \in Worktrees \cup {None} : SelectNotes(w)
           \/ \E l \in notes.loads : ReadNotes(l) \/ LoadNotes(l)
           \/ TypeNotes
  <2>1. UNCHANGED <<app, configs>> /\ ~app.ended
    BY <1>4 DEF TerminalChanges, TerminalOpens, TimerFires, FieldChanges,
        WindowChanges, SelectNotes, ReadNotes, LoadNotes, TypeNotes, Pay
  <2> QED
    BY <1>0, <1>3, <2>1
<1>4a. CASE ConfigChanges \/ SwitchTheme \/ ThemeWritten
  <2>1. UNCHANGED app /\ ~app.ended
    BY <1>4a DEF ConfigChanges, SwitchTheme, ThemeWritten, Pay
  <2>2. configs' \in Configs
    BY <1>0, <1>4a DEF ConfigChanges, SwitchTheme, ThemeWritten, Configs
  <2> QED
    BY <1>0, <1>3, <2>1, <2>2
<1>5. ASSUME NEW q \in BOOLEAN, app' = AppAfter(sessions', ui', notes', configs', q),
             ~app.ended, configs' \in Configs
      PROVE  AppGood'
  BY <1>0, <1>1, <1>5, AppAfterGood DEF AppGood, Nothing
<1>6. CASE \E ok \in BOOLEAN : SessionsWritten(ok) \/ UiWritten(ok) \/ NotesWritten(ok)
  BY <1>0, <1>5, <1>6 DEF SessionsWritten, UiWritten, NotesWritten, Nothing, HasWork,
      NotesHaveWork
<1>7. CASE ConfigWritten
  <2>1. configs' \in Configs
    BY <1>0, <1>7 DEF ConfigWritten, Configs
  <2> QED
    BY <1>0, <1>5, <1>7, <2>1 DEF ConfigWritten, Nothing
<1>8. CASE RequestQuit
  <2> DEFINE a == AppAfter(sessions', ui, notes, configs, TRUE)
  <2>1. /\ app' = [a EXCEPT !.promised = sessions.held] /\ ~app.ended
        /\ UNCHANGED <<ui, notes, configs>>
    BY <1>8 DEF RequestQuit, Pay
  <2>2. a \in App /\ (a.ended => Nothing')
    <3>1. /\ a \in App
          /\ a.ended => app.ended \/ (~HasWork(sessions') /\ ~HasWork(ui)
                                      /\ ~NotesHaveWork(notes) /\ configs.pending = 0)
      BY <1>0 DEF AppAfter, App
    <3> QED
      BY <2>1, <3>1 DEF Nothing
  <2> HIDE DEF a
  <2>3. app' \in App /\ app'.ended = a.ended
    BY <1>0, <2>1, <2>2 DEF App, Sessions
  <2> QED
    BY <1>0, <1>1, <2>1, <2>2, <2>3 DEF AppGood
<1>9. CASE DismissQuit
  <2>1. app' \in App /\ app'.ended = app.ended
    BY <1>0, <1>9 DEF DismissQuit, App
  <2> QED
    BY <1>0, <1>1, <1>9, <2>1 DEF DismissQuit, AppGood, Nothing
<1> QED
  BY <1>2, <1>4, <1>4a, <1>6, <1>7, <1>8, <1>9 DEF Next

LEMMA InitPersist == Init => PersistInv
<1> SUFFICES ASSUME Init PROVE PersistInv
  OBVIOUS
<1>0. /\ None \notin Nat /\ MaxFailures \in Nat /\ MaxChanges \in Nat
      /\ None \notin Ui /\ Toggles \subseteq Fields
  BY PersistenceAssumption
<1>1. Zeros \in Ui /\ \A f \in Fields : Zeros[f] = 0
  BY DEF Zeros, Ui
<1>2. SessionsGood
  BY <1>0 DEF Init, SessionsGood, Sessions, Count, Coming
<1>3. UiGood
  BY <1>0, <1>1 DEF Init, UiGood, UiState, QueuedBase
<1>4. NotesGood
  <2> DEFINE d == [w \in Worktrees |-> {<<w, 0>>}]
  <2>1. d \in [Worktrees -> Text] /\ \A w \in Worktrees : Of(d[w], w)
    BY DEF Text, Stroke, Of
  <2>2. /\ notes.disk = d /\ notes.shown = None /\ notes.text = {} /\ notes.typed = {}
        /\ notes.saving = None /\ notes.loads = {} /\ notes.gen = 0
    BY DEF Init
  <2>3. notes \in Notes
    BY <2>1 DEF Init, Notes, Text
  <2> HIDE DEF d
  <2> QED
    BY <2>1, <2>2, <2>3 DEF NotesGood, NotesHome, NotesKept
<1>5. AppGood
  BY <1>0 DEF Init, AppGood, App, Left, Configs
<1> QED
  BY <1>2, <1>3, <1>4, <1>5 DEF PersistInv

LEMMA PersistInvariant == Spec => []PersistInv
<1>1. PersistInv /\ [Next]_vars => PersistInv'
  BY SessionsKeep, UiKeeps, NotesKeep, AppKeeps DEF PersistInv
<1> QED
  BY <1>1, InitPersist, PTL DEF Spec

\* What the window holds and saves has its type.
THEOREM PersistTypeCorrect == Spec => []TypeOK
<1>1. PersistInv => TypeOK
  <2> SUFFICES ASSUME PersistInv PROVE TypeOK
    OBVIOUS
  <2>1. /\ sessions \in Sessions /\ ui \in UiState /\ notes \in Notes
        /\ app \in App /\ configs \in Configs
    BY DEF PersistInv, SessionsGood, UiGood, NotesGood, AppGood
  <2>2. {[file |-> l.file, gen |-> l.gen] : l \in notes.loads} \subseteq Load
    BY <2>1 DEF Notes, LoadRecord, Load
  <2> QED
    BY <2>1, <2>2 DEF Sessions, Count, UiState, Notes, Text, App, Configs, TypeOK
<1> QED
  BY <1>1, PersistInvariant, PTL

\* The window's notes go to the file of their worktree and are shown only while it is
\* selected, however selections, reads, failed reads and writes overlap.
THEOREM NotesGoHome == Spec => []NotesStayHome
<1>1. PersistInv => NotesStayHome
  BY DEF PersistInv, NotesGood, NotesHome, Of, NotesStayHome
<1> QED
  BY <1>1, PersistInvariant, PTL

\* What was typed is never overwritten in the editor by a late read, and is in the
\* file once nothing is under way.
THEOREM TypingIsKept == Spec => []TypedIsKept
<1>1. PersistInv => TypedIsKept
  BY DEF PersistInv, NotesGood, NotesKept, NotesHaveWork, TypedIsKept
<1> QED
  BY <1>1, PersistInvariant, PTL

\* Changes of fields that only take new values reach the disk, whatever is written
\* while they are made.
THEOREM FieldsReachDisk == Spec => []FieldsAreMerged
<1>1. PersistInv => FieldsAreMerged
  BY DEF PersistInv, UiGood, QueuedBase, HasWork, FieldsAreMerged
<1> QED
  BY <1>1, PersistInvariant, PTL

\* An application that was told to quit has written what it held then.
THEOREM QuittingSaves == Spec => []QuitKeepsSessions
<1>1. PersistInv => QuitKeepsSessions
  BY DEF PersistInv, SessionsGood, AppGood, Nothing, Coming, HasWork, QuitKeepsSessions
<1> QED
  BY <1>1, PersistInvariant, PTL
=============================================================================
