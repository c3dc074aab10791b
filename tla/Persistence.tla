---------------------------- MODULE Persistence ----------------------------
(***************************************************************************)
(* How the window (crates/arbor-gui) saves what it holds: the store of     *)
(* terminal sessions and its debounced timer, the UI state with its        *)
(* fields, the notes of the selected worktree, the count of configuration  *)
(* saves, and a quit that waits for all of them.                           *)
(*                                                                         *)
(* Every store has at most one write under way and remembers what to write *)
(* next.  Handlers run one at a time; a write runs in the background and   *)
(* ends with a handler.  Values are version numbers: sessions and most     *)
(* fields only ever take new values, a toggle goes back and forth.         *)
(***************************************************************************)
EXTENDS Naturals, FiniteSets

CONSTANTS
    Worktrees,    \* the worktrees with notes
    Fields,       \* fields of the UI state
    Toggles,      \* those that go back and forth
    MaxChanges,   \* bound: changes of sessions, of the UI state, strokes, selections, quits
    MaxFailures,  \* bound: writes that fail
    None

Ui == [Fields -> Nat]

\* A stroke is known by its worktree and a number; a text is a set of strokes.
Stroke == Worktrees \X Nat

\* saving: the file and the text of the write under way.
NotesWrite == [file : Worktrees, text : SUBSET Stroke]

ASSUME PersistenceAssumption ==
    /\ Toggles \subseteq Fields /\ {MaxChanges, MaxFailures} \subseteq Nat
    /\ None \notin Nat \cup Worktrees \cup Ui \cup NotesWrite

VARIABLES
    sessions,  \* the terminals, their saving and the debounce timer
    ui,        \* the UI state and its saving
    notes,     \* the notes editor, its loads, its saving and the files
    configs,   \* pending_app_config_save_count, and the saves of the theme
    app,       \* the quit, and whether the application has ended
    left       \* what is left of the bounds

vars == <<sessions, ui, notes, configs, app, left>>

-----------------------------------------------------------------------------
(* Data *)

\* A load that began when the editor was at a generation.
Load == [file : Worktrees, gen : Nat]

HasWork(s) == s.inFlight # None \/ s.pending # None

NotesHaveWork(n) == n.pending \/ n.saving # None

-----------------------------------------------------------------------------
(* Quitting *)

\* maybe_finish_quit_after_persistence_flush, at the end of a handler that leaves
\* the stores as given and the flag as q.
AppAfter(s, u, n, c, q) ==
    IF q /\ ~HasWork(s) /\ ~HasWork(u) /\ ~NotesHaveWork(n) /\ c.pending = 0
    THEN [app EXCEPT !.quit = FALSE, !.ended = TRUE]
    ELSE [app EXCEPT !.quit = q]

\* Changes and quits draw on the same bound.
Pay == ~app.ended /\ left.changes > 0 /\ left' = [left EXCEPT !.changes = @ - 1]

\* A write ends, well or not.
WriteEnds(ok) ==
    IF ok THEN UNCHANGED left
    ELSE left.failures > 0 /\ left' = [left EXCEPT !.failures = @ - 1]

-----------------------------------------------------------------------------
(* The store of sessions: PendingSave *)

\* begin_next: what is pending is written, unless a write is under way.
BeginNext(s) ==
    IF s.inFlight # None \/ s.pending = None THEN s
    ELSE [s EXCEPT !.pending = None, !.inFlight = s.pending]

\* sync_daemon_session_store: what the window holds is queued.
Synced(s) == BeginNext([s EXCEPT !.dirty = FALSE, !.pending = s.held])

\* Output or a state change of a terminal: saved when the timer fires.
TerminalChanges ==
    /\ Pay
    /\ sessions' = [sessions EXCEPT !.held = @ + 1, !.dirty = TRUE, !.timer = TRUE]
    /\ UNCHANGED <<ui, notes, configs, app>>

\* A terminal is opened, selected or closed: saved at once.
TerminalOpens ==
    /\ Pay
    /\ sessions' = Synced([sessions EXCEPT !.held = @ + 1])
    /\ UNCHANGED <<ui, notes, configs, app>>

TimerFires ==
    /\ ~app.ended /\ sessions.timer
    /\ sessions' = IF sessions.dirty THEN Synced(sessions) ELSE [sessions EXCEPT !.timer = FALSE]
    /\ UNCHANGED <<ui, notes, configs, app, left>>

\* A write that failed is not tried again.
Written(s, ok) ==
    BeginNext([s EXCEPT !.disk = IF ok THEN s.inFlight ELSE @, !.inFlight = None])

SessionsWritten(ok) ==
    /\ sessions.inFlight # None /\ WriteEnds(ok)
    /\ sessions' = Written(sessions, ok)
    /\ app' = AppAfter(sessions', ui, notes, configs, app.quit)
    /\ UNCHANGED <<ui, notes, configs>>

-----------------------------------------------------------------------------
(* The UI state *)

QueuedBasePersisted == ui.last

\* queued_ui_state_base: the state a change of one field builds on.
QueuedBase ==
    IF ui.pending # None THEN ui.pending
    ELSE IF ui.inFlight # None THEN ui.inFlight ELSE ui.last

\* next_pending_ui_state_save: what is pending once next has been queued.
NextPending(next) ==
    IF next \in {ui.pending, ui.inFlight} THEN ui.pending
    ELSE IF next = ui.last /\ ui.inFlight = None THEN None
    ELSE next

\* queue_ui_state_save.
Queued(held, next) == BeginNext([ui EXCEPT !.held = held, !.pending = NextPending(next)])

NewValue(f) == IF f \in Toggles THEN 1 - ui.held[f] ELSE ui.held[f] + 1

\* A sidebar tab, an order, a collapsed group, the selection: one field.
FieldChanges(f) ==
    /\ Pay
    /\ LET held == [ui.held EXCEPT ![f] = NewValue(f)]
       IN  ui' = Queued(held, [QueuedBase EXCEPT ![f] = held[f]])
    /\ UNCHANGED <<sessions, notes, configs, app>>

\* A pane or the window is resized: the whole state is queued.
WindowChanges(f) ==
    /\ Pay
    /\ LET held == [ui.held EXCEPT ![f] = NewValue(f)]
       IN  ui' = Queued(held, held)
    /\ UNCHANGED <<sessions, notes, configs, app>>

UiAfter(ok) ==
    BeginNext([ui EXCEPT !.disk = IF ok THEN ui.inFlight ELSE @,
                         !.last = IF ok THEN ui.inFlight ELSE @,
                         !.inFlight = None])

UiWritten(ok) ==
    /\ ui.inFlight # None /\ WriteEnds(ok)
    /\ ui' = UiAfter(ok)
    /\ app' = AppAfter(sessions, ui', notes, configs, app.quit)
    /\ UNCHANGED <<sessions, notes, configs>>

-----------------------------------------------------------------------------
(* The notes *)

\* sync_selected_worktree_notes: the editor shows w, or nothing (an outpost), and
\* is empty until the file has been read.
SelectNotes(w) ==
    /\ w # notes.shown /\ Pay
    /\ notes' = IF w = None
                THEN [notes EXCEPT !.shown = None, !.text = {}, !.typed = {}]
                ELSE [notes EXCEPT !.shown = w, !.text = {}, !.typed = {}, !.gen = @ + 1,
                         !.loads = @ \cup {[file |-> w, gen |-> notes.gen + 1, text |-> None]}]
    /\ UNCHANGED <<sessions, ui, configs, app>>

\* A file that does not exist holds no stroke; one that cannot be read is shown as
\* an empty text, with an error beside it.
ReadNotes(l) ==
    /\ ~app.ended /\ l.text = None
    /\ \E text \in {notes.disk[l.file], {}} :
          notes' = [notes EXCEPT !.loads = (@ \ {l}) \cup {[l EXCEPT !.text = text]}]
    /\ UNCHANGED <<sessions, ui, configs, app, left>>

IsCurrentAlways(l) == notes.shown # None

IsCurrentForFile(l) == l.file = notes.shown

\* worktree_notes_load_is_current.
IsCurrent(l) == l.gen = notes.gen /\ l.file = notes.shown

LoadNotes(l) ==
    /\ ~app.ended /\ l.text # None
    /\ notes' = [notes EXCEPT !.loads = @ \ {l}, !.text = IF IsCurrent(l) THEN l.text ELSE @]
    /\ UNCHANGED <<sessions, ui, configs, app, left>>

\* start_pending_worktree_notes_save: what is written is what the editor shows
\* now, to the file of the worktree that is selected now, though the save may have
\* been asked for when another one was: the editor is then empty until its file has
\* been read, and that is what the file becomes (see NotesArePersisted).
StartNotes(n) ==
    IF n.saving # None \/ ~n.pending THEN n
    ELSE [n EXCEPT !.pending = FALSE,
                   !.saving = IF n.shown = None THEN None ELSE [file |-> n.shown, text |-> n.text]]

\* A key: the number of a stroke is the generation it makes.
TypeNotes ==
    /\ notes.shown # None /\ Pay
    /\ LET stroke == <<notes.shown, notes.gen + 1>>
       IN  notes' = StartNotes([notes EXCEPT !.text = @ \cup {stroke}, !.typed = @ \cup {stroke},
                                             !.gen = @ + 1, !.pending = TRUE])
    /\ UNCHANGED <<sessions, ui, configs, app>>

Stored(n, ok) ==
    [n EXCEPT !.disk = IF ok THEN [@ EXCEPT ![n.saving.file] = n.saving.text] ELSE @,
              !.saving = None]

NotesStuck(ok) ==
    /\ notes.saving # None /\ WriteEnds(ok)
    /\ notes' = StartNotes(Stored(notes, ok))
    /\ UNCHANGED <<sessions, ui, configs, app>>

NotesWritten(ok) ==
    /\ notes.saving # None /\ WriteEnds(ok)
    /\ notes' = StartNotes(Stored(notes, ok))
    /\ app' = AppAfter(sessions, ui, notes', configs, app.quit)
    /\ UNCHANGED <<sessions, ui, configs>>

-----------------------------------------------------------------------------
(* The configuration, and the application *)

\* Settings, hosts and presets are written each by its own task, which is counted.
ConfigChanges ==
    /\ Pay /\ configs' = [configs EXCEPT !.pending = @ + 1]
    /\ UNCHANGED <<sessions, ui, notes, app>>

ConfigWritten ==
    /\ configs.pending > 0 /\ configs' = [configs EXCEPT !.pending = @ - 1]
    /\ app' = AppAfter(sessions, ui, notes, configs', app.quit)
    /\ UNCHANGED <<sessions, ui, notes, left>>

\* The theme is written by a task that is not counted: a quit does not wait for it.
SwitchTheme ==
    /\ Pay /\ configs' = [configs EXCEPT !.themes = @ + 1]
    /\ UNCHANGED <<sessions, ui, notes, app>>

ThemeWritten ==
    /\ ~app.ended /\ configs.themes > 0 /\ configs' = [configs EXCEPT !.themes = @ - 1]
    /\ UNCHANGED <<sessions, ui, notes, app, left>>

QuitsUnsynced ==
    /\ Pay
    /\ app' = [AppAfter(sessions, ui, notes, configs, TRUE) EXCEPT !.promised = sessions.held]
    /\ UNCHANGED <<sessions, ui, notes, configs>>

\* request_quit_after_persistence_flush; the sessions are synced with the flag
\* already set.
RequestQuit ==
    /\ Pay
    /\ sessions' = Synced(sessions)
    /\ app' = [AppAfter(sessions', ui, notes, configs, TRUE) EXCEPT !.promised = sessions.held]
    /\ UNCHANGED <<ui, notes, configs>>

DismissQuit ==
    /\ app.quit /\ app' = [app EXCEPT !.quit = FALSE]
    /\ UNCHANGED <<sessions, ui, notes, configs, left>>

-----------------------------------------------------------------------------
Zeros == [f \in Fields |-> 0]

\* Every notes file holds a stroke of its worktree.
Init ==
    /\ sessions = [held |-> 0, dirty |-> FALSE, timer |-> FALSE,
                   pending |-> None, inFlight |-> None, disk |-> 0]
    /\ ui = [held |-> Zeros, last |-> Zeros, pending |-> None, inFlight |-> None, disk |-> Zeros]
    /\ notes = [shown |-> None, text |-> {}, typed |-> {}, gen |-> 0, pending |-> FALSE,
                saving |-> None, loads |-> {}, disk |-> [w \in Worktrees |-> {<<w, 0>>}]]
    /\ configs = [pending |-> 0, themes |-> 0]
    /\ app = [quit |-> FALSE, ended |-> FALSE, promised |-> 0]
    /\ left = [changes |-> MaxChanges, failures |-> MaxFailures]

Next ==
    \/ TerminalChanges \/ TerminalOpens \/ TimerFires
    \/ \E ok \in BOOLEAN : SessionsWritten(ok) \/ UiWritten(ok) \/ NotesWritten(ok)
    \/ \E f \in Fields : FieldChanges(f) \/ WindowChanges(f)
    \/ \E w \in Worktrees \cup {None} : SelectNotes(w)
    \/ \E l \in notes.loads : ReadNotes(l) \/ LoadNotes(l)
    \/ TypeNotes
    \/ ConfigChanges \/ ConfigWritten \/ SwitchTheme \/ ThemeWritten
    \/ RequestQuit \/ DismissQuit

Spec == Init /\ [][Next]_vars

\* Writes end, well or not.  Nobody has to quit or to change anything.
FairSpec ==
    /\ Spec
    /\ WF_vars(\E ok \in BOOLEAN : SessionsWritten(ok))
    /\ WF_vars(\E ok \in BOOLEAN : UiWritten(ok))
    /\ WF_vars(\E ok \in BOOLEAN : NotesWritten(ok))
    /\ WF_vars(ConfigWritten)

-----------------------------------------------------------------------------
(* Properties *)

\* Everything has its type; a write under way is of one of the texts and files there are.
TypeOK ==
    /\ sessions.held \in Nat /\ {sessions.dirty, sessions.timer} \subseteq BOOLEAN
    /\ {sessions.pending, sessions.inFlight} \subseteq Nat \cup {None} /\ sessions.disk \in Nat
    /\ {ui.held, ui.last, ui.disk} \subseteq Ui
    /\ {ui.pending, ui.inFlight} \subseteq Ui \cup {None}
    /\ notes.shown \in Worktrees \cup {None} /\ notes.gen \in Nat
    /\ notes.text \subseteq Stroke /\ notes.pending \in BOOLEAN
    /\ notes.saving = None \/ notes.saving \in NotesWrite
    /\ {[file |-> l.file, gen |-> l.gen] : l \in notes.loads} \subseteq Load
    /\ notes.disk \in [Worktrees -> SUBSET Stroke]
    /\ configs \in [pending : Nat, themes : Nat]
    /\ {app.quit, app.ended} \subseteq BOOLEAN /\ app.promised \in Nat

NoFailure == left.failures = MaxFailures

\* When an application that was told to quit has ended, none of the saves it keeps
\* account of (sessions, UI state, notes and the counted saves of the configuration;
\* not the theme) was queued or under way, and unless a write failed the sessions
\* are on disk as they were when it was told to quit, or as they were later.
QuitKeepsSessions ==
    app.ended =>
        /\ ~HasWork(sessions) /\ ~HasWork(ui) /\ ~NotesHaveWork(notes) /\ configs.pending = 0
        /\ NoFailure => sessions.disk >= app.promised

\* A new value of a field reaches the disk whatever is changed while a write is
\* under way: a change of one field builds on what is queued, not on what was
\* written.  (A toggle may lose a change: see ToggleReachesDisk.)
FieldsAreMerged ==
    ~HasWork(ui) /\ NoFailure => \A f \in Fields \ Toggles : ui.disk[f] = ui.held[f]

\* What the user typed since the worktree was selected stays in the editor, however
\* late its file is read, and once nothing is under way it is in the file.
TypedIsKept ==
    /\ notes.typed \subseteq notes.text
    /\ notes.shown # None /\ ~NotesHaveWork(notes) /\ NoFailure
           => notes.typed \subseteq notes.disk[notes.shown]

\* No notes end up in the file of another worktree or in the editor while another
\* one is selected, though the selection may change during every read and write.
\* (It does not promise that the notes are kept: see NotesArePersisted.)
NotesStayHome ==
    /\ \A w \in Worktrees : \A stroke \in notes.disk[w] : stroke[1] = w
    /\ \A stroke \in notes.text : stroke[1] = notes.shown

\* An application that was told to quit ends, unless the user thinks better of it.
QuitEnds == app.quit ~> (app.ended \/ ~app.quit)

\* docs/src/workspace-model.md: Arbor persists its UI state, selection and
\* visibility.  Once nothing is under way the toggles are as the window shows them.
ToggleReachesDisk ==
    ~HasWork(ui) /\ NoFailure => \A f \in Toggles : ui.disk[f] = ui.held[f]

\* The theme that was chosen last is written before the application ends: the code
\* does not wait for it (hand configuration).
ThemeIsSaved == app.ended => configs.themes = 0

\* The same page: Arbor persists notes.  No write takes from a file a stroke it had.
\* The code does not keep this (hand configuration): what is typed before the file
\* has been read replaces what it holds, and so does the empty editor when a save
\* left over from another worktree starts.
NotesArePersisted ==
    [][\A w \in Worktrees : notes.disk[w] \subseteq notes'.disk[w]]_notes
=============================================================================
