# A TLA+ verification of Quillium

Quillium is a writing application: a Svelte and CodeMirror editor in a Tauri
shell, with SQLite behind Rust commands, tabs and drafts, live sessions through
a WebSocket relay, and AI panels. This directory holds TLA+ models of the parts
in which order, failure and concurrency matter, the TLC runs that check them,
and proofs checked by TLAPS. Paths below are relative to `src/packages/desktop`
unless they begin with `relay`, `share` or `docs`.

## Inventory

For each part: its state, its operations, how it interacts, what is hard about
it, and what makes it correct. `PROJECT.json` lists the same parts with their
files and status, and the hazards at their lines.

**Editor save path** (`src/lib/editor/listeners.ts`). State: the promise chain
`persistQueue`, the current `PersistenceBookkeeping` (last event id, pending
checkpoint, failure, idle timer), `closeFlush`. Operations: append an event for
an update, snapshot before or after a change, named versions, idle checkpoint,
`flushPersistence`, `flushPersistenceForClose`. It is called by the editor
synchronously and calls SQLite asynchronously. Hard: the editor goes on while
jobs wait, a job captures its bookkeeping when it is queued, a load replaces
that object, appends may fail after having inserted their row, recovery
snapshots are not awaited. Correct when the log replays, each snapshot agrees
with the log at its event, a flush that resolves has saved what it covers, and a
failure is never papered over.

**Event log, snapshots, load** (`src-tauri/src/db/events.rs`, `load.rs`). State:
two tables. One connection behind a mutex, so every command is atomic. A draft
is its latest snapshot and the events after it.

**Replay** (`src/lib/editor/replay.ts`). Applies each event to the text so far
and skips the ones that fail.

**Document loader** (`src/lib/editor/documentLoader.ts`). State: a generation
counter, the committed document, tab and generation, a chain of active-draft
pointer writes. Operations: load (flush, read, write the pointer, commit),
`switchToDraft`, named-version targets. Hard: loads overlap, supersede each
other and fail; edits go on until the commit.

**Persistence lifecycle** (`src/lib/editor/persistenceLifecycle.ts`). Flushes on
blur and hiding, holds the window's close until the close flush settles.

**Tabs and drafts** (`src-tauri/src/db/tabs.rs`). State: tabs, drafts with
parent links (`branched_from` unset: the next iteration of the same run), locks,
soft deletion, active pointers. Operations: create, rename, delete, restore and
reorder tabs; iterate, branch, lock, delete, cascade, orphan, restore, re-parent
drafts. Correct when each live tab keeps a live draft, the runs stay linear with
one unlocked tip, and undoing a deletion brings back what it removed.

**Tab and draft controller, session undo** (`tabDrafts.svelte.ts`,
`structureHistory.ts`). Asynchronous selection, creation and deletion around
loads; undo and redo stacks of deletions.

**Structural restore** (`tabs.rs`): rebuilds the tab tree of an earlier moment
from the `doc_events` log.

**Library: documents and snapshot retention** (`documents.rs`, `events.rs`,
`lib.rs`, `src/lib/library`). State: documents with their trash, snapshots with
and without labels. Operations: create, duplicate (drafts read one by one, the
copy written in one transaction), trash, restore, purge, prune by count, by age
and at start-up. Hard: the user goes on editing while a copy is prepared, and a
draft's first text may exist in a snapshot only. Correct when a copy is current
and pruning never changes what a draft loads.

**Relay** (`relay/src`). State: rooms with slots (opening, ready, cleaning), one
owner and its joiners, debounced batches of Yjs updates, snapshot and update log
in storage, a cleanup timer of 45 s. Hard: connections close while updates are
in flight, cleanup races reconnection, batches fail and are retried, the process
stops or crashes. Correct when nobody's room is taken away, and no accepted edit
is dropped.

**Live session** (`src/lib/collab`). State: per client the editor's text, a
Y.Doc, a provider that reconnects; a joiner's own draft is set aside. Hard: the
relay learns late that a socket is gone, the owner seeds the room, sessions end
in five ways. Correct when connected editors agree and a joiner gets its own
draft back.

**AI conversations** (`src/lib/ai/conversationController.svelte.ts`). State: the
panel's messages, the list, the rows in SQLite. Hard: sends, saves, loads,
deletions and draft switches overlap, each with several awaits. Correct when
rows keep their own messages and only grow.

**AutoAI** (`src/lib/autoai/engine.ts`). State: two nested timers, the review
under way with its abort controller, the generation of the text. Hard: the
answer comes long after its request. Correct when notes fit the text they land
in and a due review comes.

**Annotations and version groups** (`share/src/core/annotationField.ts`,
`versionGroupField.ts`, the desktop's annotation plugins). State: ranges with
revisions and versions, links between versions, inverse effects in the undo
history. Hard: text changes, effects, cleanups and undos each move the same
ranges along different paths. Correct when the text under a revision is its
active version, and undo and redo restore everything exactly.

Sharing, migrations, search, provenance, MCP, college applications, accounts,
settings, updater and the landing site: see Not modelled and `PROJECT.json`.

## Plan

1. `EventStore`, `Persistence`, `WriteBehind`: the save path over the store, its
   promise as an abstract specification; proofs of type correctness and of
   honest flushes in `PersistenceProofs`. *Done.*
2. `DraftTree`, `DraftHistory`, `DraftSessions`, `DraftRewind`: tabs, runs,
   branches, deletions, session undo, structural restore. *Done.*
3. `Library`: documents, duplication, pruning, labels, seeds. *Done.*
4. `RelayRooms` with `DurableRoom`, the promise it implements. *Done.*
5. `DocumentLoader`: overlapping loads and the controller's selections. *Done.*
6. `LiveRoom`, `Conversations` with `ConversationSessions`, `AutoAI`,
   `Annotations`. *Done.*
7. Proofs: all safety properties of the save path and its refinement of
   `WriteBehind` (`PersistenceProofs`); those of the relay and its refinement of
   `DurableRoom` (`RelayRoomsProofs`); those of `AutoAI` (`AutoAIProofs`), of
   `Library` (`LibraryProofs`), of `LiveRoom` (`LiveRoomProofs`), of
   `Conversations` (`ConversationsProofs`) and of `DocumentLoader`
   (`DocumentLoaderProofs`). *Done.*
8. Proofs: the tree, undo and redo of `DraftHistory` (`DraftHistoryProofs`).
   *Done.*

`Persistence` uses `EventStore`; `DraftHistory` uses `DraftTree` and
`DraftSessions` and `DraftRewind` extend it, as `ConversationSessions` extends
`Conversations`; `Persistence` implements `WriteBehind` and `RelayRooms`
implements `DurableRoom`. The other modules stand alone: what they share with a
neighbour is one of its promises (a load reads what the log holds, a room keeps
what it accepted), stated in their headers.

## The save path

### Modules

`EventStore` has the two tables and the commands that write and read them. Text
is abstracted to the set of edits in it: an event names its edit and the text
the edit was made against (a ChangeSet only applies to the document it was built
from), a snapshot holds a set of edits and the id of the event it follows.
Events have global ids, as the `AUTOINCREMENT` column gives them; the code's -1
(no event) is 0. Replaying a tail that fits gives all its edits; a tail that
does not fit may lose any of them, because `replayEvents` skips what fails.

`Persistence` is the save path of one window. The correspondence:

| Model | Code |
|---|---|
| `queue`, `step` | the jobs chained on `persistQueue`, and how far the running `doAppend` has got between its awaits |
| `books`, `current` | every `PersistenceBookkeeping` made since the app started; `persistence` is the last |
| `view` | the root editor's draft and text |
| `inflight` | `createNamedSnapshot` calls of `snapshotAndWarn`, not awaited |
| `load` | the `load()` under way: flushing, reading, about to commit |
| `closing` | the close handler; `barrier` is true while nothing has been queued since the close flush |
| `lost`, `promised`, `mine`, `booted` | history variables: appends that failed without a row, edits a flush answered for, edits accepted under the current bookkeeping, edits of earlier processes |

One action per await-free stretch of code: `AcceptEdit` is `persistTransaction`;
`SnapshotBeforeChange`, `AppendSucceeds` or `AppendFails`, and
`SnapshotAfterChange` are the parts of `doAppend` around its native calls;
`NameVersion`, `IdleCheckpoint`, `FlushPersistence`, `StartLoad`, `RequestClose`
and `CloseAgain` queue jobs; `CheckpointSucceeds`, `CheckpointFails`,
`NamedVersionSaved` and `NamedVersionRefused` settle them and resume or stop
whoever waits. `ReadDraft`, `AbandonLoad` and `CommitLoad` are the rest of
`load()`. `Crash` and `CloseWindow` end the process; only the tables survive.

`WriteBehind` is what the save path promises with none of its machinery: each
draft's edits are saved in the order they were accepted, only an edit on its way
can be lost, and an edit a caller was told is saved stays saved. `Persistence`
implements it with `text` mapped to the log and the queued appends, `saved` to
the log and `answered` to `promised`.

### Simplifications

- Snapshot triggers (thresholds, deletion sizes, annotation counts) are choices:
  any append may snapshot before, after, both or neither.
- Loads do not overlap and never reopen the draft on screen. Those that do are
  `DocumentLoader`'s.
- Snapshots are not pruned here (`Library` has pruning).
- A window close is one step from the last barrier check to the end of the
  process; in the code only microtasks and one IPC message lie between.
- Encoding, metadata, status indicators and banners are left out.

### Runs

| Run | Bounds | What it shows |
|---|---|---|
| `persistence` | 2 drafts (interchangeable), 2 edits, 3 queued jobs, 3 loads, 1 failed append | `TypeOK`, five safety properties and `WritesBehind`, the refinement of `WriteBehind` |
| `persistence_live` | 2 drafts, 2 edits, 2 queued jobs, 2 loads, 1 failed append | `WorkSettles` under fairness: every edit is logged, fails or dies with the process, and every load ends |
| `persistence_close` | 2 drafts, 1 edit, 2 loads, 1 failed append | `ClosingLosesNothing` is violated: see Findings |

`MaxSessions` counts bookkeepings, the first of which precedes any load: it is
one more than the loads above.

`LogIsChain`: each event was made against exactly the text of the events before
it. `SnapshotsHonest` joins `SnapshotsFaithful`, each snapshot, early, late or
named, holds the text of the log at the event it names (both except a draft in
which an append that failed tore the chain), and `NoSnapshotOverLostEdit`,
nothing is ever checkpointed over a loss. `ViewMatchesLog`: the screen shows the log and the
queued appends, also after any reload. `FlushedIsDurable` and
`FlushedIsCheckpointed`: what a resolved flush covers is in the log and in a
snapshot.

The bounds are enough for the cases that matter: two drafts exchange the
bookkeeping while the first one's jobs are queued; two edits make a chain with a
predecessor to lose; three jobs let an append, a named version and a checkpoint
queue up; three loads return to the first draft with its late recovery
snapshots; one failure separates the failed bookkeeping from the others. Every
bound is a guard on an action that the user or the environment starts (`Room`,
`MaxEdits`, `MaxSessions`, `MaxFaults`), never on a step that completes one.

The runs check deadlock too: a crash is always possible, so none is found, and
progress is the matter of `persistence_live`. Its
fairness is weak fairness of the steps of the queue and of the loader. The code justifies it: every job is a
promise whose native call settles, and the chain catches every rejection before
it runs the next. Nothing is assumed of the writer, the timer or the window.

### Findings

`persistence_close`: an edit accepted in a draft while `load()` of another draft
is past its own flush is appended against the outgoing bookkeeping. If that
append fails, the failure is recorded there, `seedPersistenceBookkeeping`
(`listeners.ts:942`) installs a bookkeeping without it, and a close that follows
flushes the new one, succeeds and closes the window: the edit is lost with no
error. `docs/persistence.md:134` says that closing waits for persistence and
remains open if saving fails.

### Proofs

`PersistenceProofs` proves seven theorems for any set of drafts and any bounds.

`TypeCorrect == Spec => []TypeOK`. `TypeOK` is not inductive: a running job
needs a bookkeeping (`JobsOK`), a resolved load must be one that waits
(`LoadWaits`), and the largest of a draft's event ids must exist (`LastEvents`).
The last is an induction over behaviours that stands in for one over finite
sets, which is out of the prover's reach.

`FlushedDurable == Spec => []FlushedIsDurable`: whoever was told that a flush
succeeded, and whoever saw the window close, has every edit accepted under that
bookkeeping in the log. The inductive invariant `DurableInv` says why. An edit a
queued checkpoint answers for is in the log, or its bookkeeping has a failure
that makes the checkpoint fail, or its append is ahead of the checkpoint in the
queue (`CheckpointsCovered`); the same holds of every edit of the current
bookkeeping at the end of the queue (`MineCovered`). `CloseWaits` is the close
handler's barrier: while nothing was queued after the close flush, that flush is
the last job and covers every edit, so when it resolves they are all in the log
and the window may go. The proof rests on what no step takes back (`Monotone`:
logged edits and failures) and has one lemma per action.

It also proves what the log, the snapshots and the screen are
worth, from one invariant, `LogInv`.

- `LogReplays == Spec => []LogIsChain`: every event was recorded against exactly
  the text the events before it lead to, unless text of a failed append is in it.
- `SnapshotsTellTruth == Spec => []SnapshotsHonest`.
- `ScreenTellsTruth == Spec => []ViewMatchesLog`.
- `SavePathWritesBehind == Spec => WritesBehind`: the save path implements
  `WriteBehind`: its `text` is the log and the queue, its `saved` the log, its
  `answered` what flushes have promised.

None of the first three is inductive: that an event fits the log when its append
runs must be known of the job while it waits, and of the screen from which the
job was made. `Sound(b, d, c, e)` says it of a text `c` that edit `e` of draft
`d` is made against under bookkeeping `b`. Its edits are earlier than `e`, and
logged, lost or queued (`Traced`). If nothing of it is lost and the log is not
torn, it is *all* of the draft's earlier edits (`Complete`), so that when the
queue has come to `e` it is the log. If something of it is lost, the bookkeeping
has failed (`Blamed`), so no snapshot of it is taken. Unless it failed, the
bookkeeping's event id is behind no event of the draft (`UpToDate`), so the
snapshot names the right event. `WritesSound` and `ViewSound` are this for
queued jobs and for the screen, `LoadRead` for what a load has read. Around it:
edits are queued, logged and lost in the order they were accepted (`Ordered`);
one draft's writes are under one bookkeeping, that of the screen if it is shown
(`OneBook`); the jobs of a draft being loaded are ahead of the load's own flush
and gone once it answers (`LoadOrder`), which is why what a load reads is
complete; snapshots that are stored, in flight or pending are honest
(`StoredHonest`, `AfterHonest`). The refinement maps every action to one of
`WriteBehind`'s or to a stutter: settled appends save or lose the oldest edit of
the text, a resolved flush answers.

Last, it proves `FlushedCheckpointed == Spec =>
[]FlushedIsCheckpointed`. Its invariant `SnapshotInv` follows a logged edit until
it is in a snapshot: it is in one already, or its bookkeeping has failed, or it
is in the pending checkpoint (`Secured`); this holds of all that queued flushes
and the current bookkeeping answer for (`FlushKept`, `MineKept`). It is kept
because under one bookkeeping texts only grow (`TextsGrow`): whatever replaces
the pending checkpoint, the next append or a named version that drops it,
contains it. `CloseKept` carries it over to the closing window. The steps are
proved over `DurableInv` and `LogInv`: a logged edit that a flush covers was
logged under the flush's own bookkeeping (`OwnBook`).

The only assumption is `NoDraftAssumption`. TLC checks `LogInv` and
`SnapshotInv`, too, on the bounds of `MCPersistence` (883,436 states). Liveness
(`WorkSettles`) and the close handler's `ClosingLosesNothing`, which the code
does not keep, stay with TLC.

## Tabs and drafts

### Modules

`DraftTree` has the structure of one document and the commands of `tabs.rs`,
each an operator from the state before to the state its transaction commits. It
declares no variables. `DraftHistory` is one editor on that structure: what the
panel offers, and the undo and redo of deletions. `DraftSessions` remembers
beside it whether an undo has failed midway, for its properties only.
`DraftRewind` extends it with the restores of the version history page. The
correspondence:

| Model | Code |
|---|---|
| `db.tabs`, `db.drafts` | the rows of `tabs` and `drafts`, in the order of their creation; `parent` and `branchedFrom` are `parent_draft_id` and `branched_from_draft_id` |
| `db.told` | the replay of the whole `doc_events`, as `reconstruct_structure` folds it |
| `done`, `undone` | the entries of `StructureHistory`; `before` is a history field |
| `operation` | the undo or redo under the mutex: `restore` and `relink` are the calls it has left |
| `toggled` | history: drafts whose lock the user set by hand |
| `settled`, `present` | the coordinates the timeline offers: those of milliseconds that are over, each a replay of a prefix of the log and the number of rows there were when its millisecond ended; and the replays after the entries of the millisecond that is not over |

`CreateTab`, `IterateDraft`, `BranchDraft`, `DeleteTab`, `DeleteDraft`,
`CascadeDelete`, `OrphanAndDelete`, `RestoreTab`, `RestoreDraft` and
`ReparentDraft` are the commands of the same names, with the relocking and the
log entry each of them ends in; `CanDeleteTab` and `CanDelete` are the guards
that make them return an error. `Handle...` are the handlers of
`tabDrafts.svelte.ts` with the conditions the panel puts on them. A deletion is
one transaction. Its undo is not: `StartUndo`, one `UndoRestoresDraft` or
`UndoRelinksDraft` per call, `FinishUndo`, and `OperationFails` wherever a call
may be rejected. `LeaveDocument` and `Crash` fall between any two of them.

`RestoreStructureTo` is the three steps of `restore_structure_to_inner` as folds
over the rows in id order: bring back what was live, delete the tabs that were
not with their drafts, cascade over the other drafts that were not. It keeps the
replay after each entry it logs, because each of them can be restored to.

What was live is told as the code tells it. Entries precede a coordinate by
millisecond and id; rows exist at it when their `created_at` is not after its
millisecond; and a row of that millisecond that the replay does not know counts
as live (`TabsAt`, `DraftsAt`). Clock ticks are choices: the entries of a
command may fall into the millisecond of those before (`InThisMs`) or end it
(`NextMs`), and a tick may separate a row from its own entry.

### Simplifications

- Labels, tab order and the active pointers are left out. The editor's moves off
  a tab or draft about to be deleted belong to `DocumentLoader`.
- Prose is one action, `EditProse`, that clears redo as
  `structureHistory` does; a rename has the same effect and no action.
  The boundary between structural and prose undo only delays an undo and is left
  out.
- The panel's list is taken to be fresh. The mutex makes commands wait while an
  undo is under way, also after another document was opened. A remounted editor
  has a new mutex; the calls an undo has left are then assumed to finish before
  the user's next command.
- Where the commands compare creation times (the newest draft of a run, the
  first iteration of a draft), these order the rows as their ids do: that two
  may be equal is only told apart in restores.
- The entries of one restore are taken to fall into one millisecond. It makes
  no row between them, so that when the millisecond ends right after it, their
  coordinates are those that several milliseconds would give.
- A cascade is restored parents first. The code's order is breadth-first, one of
  the orders the model allows.
- The tabs and drafts of steps 2 and 3 of a restore are taken in id order; the
  code iterates over a hash set and over rows.
- A refused restore changes nothing, as its transaction is rolled back, and has
  no action.

### Runs

| Run | Bounds | What it shows |
|---|---|---|
| `drafts` | 2 tabs, 4 drafts, 1 lock set by hand, 4 undoable deletions; failing calls and redo | `SessionTypeOK` and the four properties below |
| `rewind` | 2 tabs, 3 drafts, 1 undoable deletion, 5 coordinates | the log stays true and restores add nothing |

`TreeHolds`: a live draft hangs off an older live draft of its tab, each tab has
one live root, and some tab is live. `LocksHold`: in a run that did not fork
and that nobody locked by hand, exactly the newest draft is unlocked.
`UndoIsExact`: a finished undo gives every tab and draft the deletion found its
liveness and its links back, whatever happened since. `RedoRemovesExactly`: a
redo deletes what its undo restored and nothing else. All four are promised
until a redo is begun in a session in which a call of an undo had failed
(`strayed`). `CoordinatesTell`: replaying the audit log gives the live tabs and
drafts (`LogTells`), and every coordinate speaks of rows that exist.
`RestoreAddsNothing`: after a restore the live tabs are the coordinate's, and so
are the live drafts that are left, the planted tip apart; rows made later in the
coordinate's millisecond are the exception, and the only one. That there is one
is `RestoreIsExact`'s violation (Further disagreements).

Four drafts make the smallest trees in which an orphaning deletion splices an
iteration and a branch at once, and in which a deleted draft's anchor is itself
deleted by a later command; two tabs are needed for `CanDeleteTab` to allow
anything. Four entries let every deletion of such a document be on the stack.
Five coordinates hold a document with a branch, its deletion, a tie between two
entries and a restore whose own entries are coordinates again; the undo of a
deletion leads back to a coordinate that exists. Three drafts are a root, a draft
and one under it, or a second tab beside them. With a fourth draft the run takes
four minutes and passes as well (253,036 states).

Why only until then: an undo that failed midway leaves its entry on the stack.
If the user creates drafts under the restored part, retries, and then redoes a
cascade, the redo computes the subtree afresh and deletes the new drafts too; a
later undo of an older deletion may then attach to one that is gone. It takes
five drafts to see `RedoRemovesExactly` or `TreeHangs` fail this way. Failing
calls and redo do meet in the run and in the theorems: `failed` is set by a call
that fails after another of the same undo went through, a redo before that may
fail itself, and leaving the document starts afresh, because its stacks go with
it. `MCDraftHistory` does not follow a behaviour beyond that redo (`Promised`),
where nothing is promised any more.

No fairness is stated: an undo may be abandoned at any call.

### Proofs

`DraftHistoryProofs` proves four theorems for any bounds, from
`BoundsAssumption` alone, with redo, failing calls, both or neither.

`DraftTypeCorrect == SessionSpec => []SessionTypeOK`. It is not inductive because an entry's target is a tab or a draft by its kind: `TypeInv`
adds that entries have a real kind and that an orphaning deletion's target is a
draft that exists.

`TreeKept == SessionSpec => []TreeHolds`. The tree being sound now does not say that a
draft restored later will find what it hangs off, so the invariant `TreeInv` has
three parts. `Sound(db)`: links go to older drafts of the same tab, those of
dead drafts included, every live draft hangs off a live one, and roots never
die. `StackOK`: a draft doomed by an entry of `done` hangs off a live draft or
one that the same entry or a later one dooms. Undo goes from the last entry
back, so whatever a draft needs has been restored before it. `OperationOK`:
while an undo is under way, what it has brought back is live, and what it has
not hangs off something live or still to come. Every command either leaves the
anchors of dead drafts alone or dooms what they hang off by an entry pushed
above theirs; the lemmas about `Follows` say so, one per command.

`UndosAreExact == SessionSpec => UndoIsExact`. When an undo begins, the document is not
what its deletion left: later deletions were undone, some of them in part and
again. `UndoInv` says what survives this. What the i-th entry found can be told
from the tree and the entries from the i-th up (`Recovers`): a tab or draft was
live if it is now or one of these entries took it, and its links were those that
the lowest of these entries to rewrite them remembers, or else its own. Undoing
part of the last entry keeps that (`Regains`), a deletion on top keeps it
(`Loses`), and for an undo that has made its last call it says that what the
entry found is there.

`RedosAreExact == SessionSpec => RedoRemovesExactly`. A redo computes its deletion
afresh, so the tree it meets has to be one that the deletion fits: its target
alive, its subtree and children what they were. Nothing in the tree says so; its
history does. `RedoInv` says that there are trees, one per entry of `done`, each
of which its deletion fits and leads to the next one and at last to this tree
(`HasPast`), and trees that the entries of `undone` will lead to (`HasFuture`).
A deletion or redo appends to the past, an undo moves the last tree of the past
to the future, a lock changes nothing that counts (`Alike`), and drafts created
meanwhile are added to every tree of the past: they hang off live drafts, so no
recorded subtree grows (`RegrownSubtree`). A failed call would leave a tree
between two of these. A redo that fits is a deletion like any other, which is
also how `TreeInv` and `UndoInv` survive it: the invariant of all three theorems
is `HistoryInv`. It has `RedoInv` only until an undo fails midway; from then on
it says that no redo is under way, which is so until one is begun. TLC checked `RedoInv`
with the trees of past and future as history variables before it was proved.

`LocksHold` is about walks along chains of iterations, so a proof needs
inductions over data. It and the properties of `DraftRewind`, whose restores are
folds over the rows, are model-checked only.


## Documents and snapshot retention

`Library` keeps documents, their drafts (each alone in its tab), events and
snapshots with and without labels. A text is the set of things written: event
ids, and 0 for what a draft was created with. `CreateDocument` and `CreateTab`
choose among the origins a draft has in the code (`Seed`: blank, sample, branch,
college prompt). `StartCopy`, one `ReadForCopy` per draft and `FinishCopy` are
`duplicateLibraryDocument` and the transaction of `duplicate_document` with its
checks (`Accepted`). Several windows have library pages, each with lists it read
when it was opened or after a command of its own: `stale` are the documents that
one of them still shows in the trash though another has restored them.
`DeleteForGood` is what a page does to a document it shows there; as
`delete_document`, it does not ask where the document is. `PruneOlderThan`, `PruneKeepLast` and `Startup` are the
three prunes; `Cutoff` computes with overflow (`MaxInt`, `DayLength`), as
the checked arithmetic of `prune_snapshots_older_than` does.

Run `library`: 2 documents, 3 drafts, 1 edit, 2 ticks, the last snapshots kept 0
or 1. `SeedsHold`: a draft whose seed is labeled loads everything written in it,
whatever was pruned. `CopyIsCurrent`: a copy holds what its sources hold when it
is written. `NothingNamedGoes`: labels go only with their document, and a
document goes only out of the trash, or because a stale page deletes it: no start,
prune or duplication takes it away. One edit suffices to separate a source from what was read of it;
a second document is the copy; the third draft appears while the first is read.
No liveness: a duplication that is refused is simply reported. Left out: titles,
tags, embeddings, event pruning (the code has none), trashing what is in the
trash already (it renews the date), `restore_to_snapshot`, the old destructive
restore that nothing in the front end calls, and `retry.ts`, which has no
caller.

`LibraryProofs` proves the three for every value of the constants, from
`LibraryAssumption` alone. `SeedsHold` is not inductive: a prune can make a
snapshot the base that was not one before. `LibraryInv` therefore says of a draft
with a labeled seed that *every* snapshot covers it (`Covers`: its text and the
events after it are what was written) and that a labeled one is left, or the
events alone are the text. A prune takes only snapshots, none of them labeled; a
new one is the whole text; an edit is later than every snapshot. The base of a
load exists because event ids are bounded (`LargestExists`, from the
well-foundedness of strict inclusion). For `CopyIsCurrent` it says of a state read
for a copy that it is the draft's text unless an event came since (`CopyHonest`),
which is what the comparison of event ids in `Accepted` rests on; that each source
has its copy is that a finite set of numbers has an element of every rank
(`RankIsTaken`).

## Loading and selecting

`DocumentLoader` runs several operations at once, each an asynchronous function
of `documentLoader.ts` or `tabDrafts.svelte.ts` with a program counter (`op`):
the opened document's load, draft selections, tab selections, and deletions of a
draft or a tab with the move off it before them. Every await is a step boundary.
`generation` and `context` are the counters a continuation compares; the pointer
writes queue in `draftQueue` and `tabQueue`; `barredTab` and `barred` are
`#deletionTarget`, its tab and its drafts, none of which stand for the whole tab.
`settle` is the pair `settleSelection` has captured for its write.

Run `loader`: 2 tabs, 3 drafts, 4 operations and edits together, every call able
to fail, deletions included. `OneSelection`: at rest, the stores, the draft menu
and both persisted pointers name what is on screen. `LatestWins`: whatever
overtook what, the last selection is on screen. `EditorOffDeleted`: the editor
never shows a draft that is deleted, unless a call failed and some operation
changes tabs: `EditorNeverOnDeleted`, without that condition, is violated
(Further disagreements). `OperationsEnd`: every operation ends, the
two queues and the deletions that wait for loads included. Four operations are
the opening and three that overlap: a selection, one that overtakes it and one
that fails or deletes. `OneSelection` excepts the overlaps of a failed or a
cancelled tab selection, which break it (Further disagreements). Fairness: a
call is answered and a continuation runs; nothing makes the writer click. Left
out: the creation of the first document, naming, renaming, reordering; the reads
of one await are one step; an append is logged at once, its delay being
`Persistence`'s. A click on the tab already shown still writes its pointer
(`hereTurn`, `hereWrite`), because an overtaken selection may have left another.

`DocumentLoaderProofs` proves the three safety properties of the run for any
tabs, drafts and operations (`LoaderConstants`: they are numbered, finitely many,
and every tab has a draft), whatever fails and whatever is deleted. The
invariants stand on each other. `Shape` has the facts about program counters
that hold unconditionally: what an operation of each kind has taken from the
stores at each step (`OpOK`); the two queues hold exactly the operations whose
step says so, each once, and only the head writes (`QueuesOK`); generations tell
loads apart (`GensOK`); one deletion runs at a time and bars what it deletes
(`BarsOK`); the opened document commits only if nothing has loaded or been
deleted (`OpenOK`); a tab that is still to be shown is live and not about to be
deleted (`TabsOK`).

- `EditorStaysOff == Spec => []EditorOffDeleted`. `OffDeleted` adds that the draft
  menu is that of the tab shown, that this tab is live, and that a deletion about
  to delete has the editor off its target (`OffDraft`, `OffTab`). What the editor
  may move to in the meantime is neither barred nor deleted, since the bars are
  those of the one deletion that runs.
- `OneSelectionAlways == Spec => []OneSelection`. At rest is not inductive:
  `ScreenOK` says that the screen and its tab's pointer agree or some load is
  still to show a draft of the tab shown (`Pends`), `ChoiceOK` that the pointer of
  the tabs is that of the tab shown or the selection that will show another is
  under way (`Chooses`) and the last in the queue to write.
- `LatestAlwaysWins == Spec => []LatestWins`. `Latest` follows the last tab and the
  last draft selected: the tab is still to be shown or is shown; the draft, if of the
  tab shown, is being loaded under the current generation, is the last in the
  queue of pointer writes, or is on screen with nothing that could replace it.

`OperationsEnd` is left to TLC.

## The relay

`RelayRooms` is one process and one document. A Y.Doc is the set of operations
in it; merging is union, deleting adds an operation, and an edit inside migrated
content needs its migration. The correspondence:

| Model | Code |
|---|---|
| `slot`, `stage` | the entry in `rooms` (opening, ready, cleaning) and the await it is in |
| `sock` | a connection from its upgrade to its close event |
| `queue`, `batch`, `draining`, `debounce` | the batch of `debouncedUpdates.ts`, its insert in flight and its timer |
| `snapshot`, `log` | `yjs_documents`, `yjs_updates` |

`Upgrade` admits, `OpenLoad`, `OpenSnapshot` and `OpenClear` open a room and
migrate, `Message` accepts an edit, `Leave` is the close event (the owner's
clears the room and closes everyone), `CleanupTimer`, `CleanupSnapshot` and
`CleanupClear` release it, `BatchStored` settles an insert, `Stop` and `Stopped`
are SIGTERM and `Crash` anything worse. Each storage call has an action in which
it fails, and a failed call may have taken effect.

Run `relay`: 2 sockets of the owner and 1 joiner, 2 edits, 2 failures, stop and
crash. `RoomsServe`: no room is cleaned or reopened under a member, an empty
room has its timer, a joiner has an owner. `AcceptedIsKept`: an accepted edit is
in storage, in flight or queued, and a stop without an error has stored it.
`KeepsPromise`: the relay implements `DurableRoom`, which says that while a
process runs neither the document nor what is stored of it shrinks, that what is
not stored is lost only in the step that ends the process (`running`, here the
`phase`), and that the next process starts from what is stored. `RoomsSettle`: whoever waits for a room is
answered and an empty room is released. Two owner sockets make the reconnection
that precedes the old socket's close; two edits make a batch behind a batch in
flight; two failures make a retry fail. Fairness: storage calls settle, timers
fire, close events come; nothing connects, edits or fails by obligation. The
admission is one step because the code checks again after its authentication;
awareness messages are left out; waiters of one room are settled in one step,
each as still open or as closed meanwhile. The cleanup timer may fire during a
shutdown too, and a snapshot that reports an error may have been written.

`RelayRoomsProofs` proves, for any connections and bounds and from
`RelayAssumption`, the run's three safety properties: `RoomsServeTheirMembers ==
Spec => []RoomsServe`, `AcceptedEditsAreKept == Spec => AcceptedIsKept` and
`RelayKeepsPromise == Spec => KeepsPromise`, the refinement of `DurableRoom`.
Their invariant `RoomInv` ties the room's slot to who may be in it (`SlotsOK`:
members, timer and owner belong to a ready room only, waiters are owners), the
owner's flag to a connection (`OwnersOK`), and memory to storage. `WriterOK`: a
room is opened, and its cleanup's snapshot taken, only when nothing is queued or
in flight. `ContentOK`: memory contains all that is stored or on its way, and
when the log is cleared, the snapshot is all of memory; this is what makes
clearing safe, and what a crash between the two leaves. `KnownOK` tells edits
apart by their ids. The refinement's steps are `DurableRoom`'s openings, stores
and endings; all else stutters. `RoomsSettle` is TLC's.

## Live sessions

`LiveRoom` has the owner's and the joiner's editors, Y.Docs and providers and
the relay's room, with messages in order per connection. An item of a text is an
edit and the seeding that copied it; positions are left to Yjs. `Start` and
`Stop` are the session commands, `OwnerSeeds` and `JoinerEnters` the ends of
`enableCollab` after the first sync, `Timeout`, `Failed` and `OwnerLeft` the
other ends, `Dial`, `Drop` and `Resync` the provider's reconnection, `Relays`
and `Closed` the relay's handlers.

Run `live`: 1 joiner, 1 edit, 3 connections, 2 attempts, connections that drop.
`TextsAgree`: editor and Y.Doc agree always, and editor and room once nothing is
on its way. `JoinersKeepTheirs`: back on its own draft, a joiner's editor shows
what its log says, and no one else's text was logged there. `SessionEnds`: the
joiners' session ends once the owner has stopped for good. Three connections are
an owner's, a joiner's and one that comes back. Fairness: messages arrive, the
relay notices closed sockets, providers dial, timers fire; nothing makes a user
act or a connection break. Only items typed live are erased; the owner types
while the session opens only where a cfg says so (`CanTypeEarly`).

`LiveRoomProofs` proves both safety properties for any joiners and bounds
(`LiveConstants`): `TextsAlwaysAgree == Spec => []TextsAgree` and
`JoinersAlwaysKeepTheirs == Spec => JoinersKeepTheirs`. `TextsAgree` says little
of a state in which something is on its way, so `LiveInv` says what client,
connection and room know of each other then (`InStep`): what the client sent it
has, what it has is in the room or queued, what the room sent the room has, and
what the room has is with the client or queued, unless the last message queued
ends the session. Each kind of step has a lemma about `InStep` alone
(`WriteInStep`, `PassedInStep`, `ToldInStep` and so on). `Known` says which items
there can be: an item copied by a seeding exists only once its connection has had
its first sync, so that an owner's seed is in no document yet (`SeedIsNew`) and
the editor shows all of it. `NoTrace` relates a joiner's text, the one put aside,
and its log. `SessionEnds` is TLC's.

## AI conversations

`Conversations` is the controller over its rows. A task is an asynchronous
function under way (`pc` its await, `msgs`, `conv` and `p` what it captured);
`calls` are those that wait for SQLite, which answers in order. A panel that was
taken down keeps its tasks. `Switch`, `Refresh`, `New`, `Send`, `Open`,
`Archive`, `Discard`, `Derive` and `Remount` are what the writer does; `Loads`,
`Opens`, `Creates...`, `PromptSaved`, `FinalSaved` and the others are the
continuations of each call; `Refused` is the failure of any.

Run `conversations`: 2 drafts, 3 conversations, 2 prompts, 5 operations, 2
refused calls, 2 mountings, and a writer who may do everything the panel offers.
`PanelSettles`: loading and answers end, always. The other three are promised
until the writer clicks History, a conversation or Open origin while the panel
loads, or mounts it anew with something unsaved, which `ConversationSessions`
remembers (`hurried`): the code keeps them no longer
(`MCConversationsHurried` breaks `RowsOnlyGrow` in two ways, see Further
disagreements). `TheirsUntilHurried` (`RowsAreTheirs`): no save writes
the messages of another conversation. `GrowsUntilHurried` (`RowsOnlyGrow`): a row
is never shortened, replaced or revived. `ShownUntilHurried` (`ShownIsStored`):
inference runs on a stored prompt in the conversation shown, and at rest the
panel shows the row. Fairness: SQLite answers, continuations run, a stream ends.
A rename has an archiving's steps, the card it merges into is the one found
before the call (`Found`); titles, modes, parse errors and other documents are
left out; a continuation runs before the next click or answer, as microtasks do.

`ConversationsProofs` proves those three for any drafts and bounds and without
an assumption: `RowsTheirs == SessionSpec => []TheirsUntilHurried`, `ShownStored
== SessionSpec => []ShownUntilHurried` and `RowsGrowing == SessionSpec =>
GrowsUntilHurried`. `RowsOnlyGrow` is a matter of what a save that is still to
be answered carries, so the invariant, `UntilHurried`, says that `ConvInv` holds
until then, and `ConvInv` follows messages from the panel to the row. `PanelOK`:
what is shown is a row's, or a row's and what is to be saved (`Extends`), or
what the send under way has added to it, and the send has captured just that
(`SendGood`). `ResaveOK`: a save made once more is of what is still to be saved,
or has been saved in the meantime. `CleanOK`: what an operation found saved when
it went on is so until its answer. These need the order of the operations
(`OrderOK`). One send runs and operations wait for it (`SendsWait`); the latest
operation is the one the panel loads for (`LoadingOK`, `OneLatest`); all that an
overtaken one can still change, it changes before the latest is answered, since
SQLite answers in order (`WaitsOK`, `StaleOK`, `AloneOK`); a panel that was
taken down leaves nothing to save, and what it queued is answered before the new
one lists (`OldOK`). Last, `TasksOK` says what a task has captured, and that two
creations under way make different conversations; `RowsOK` is the property.
`PanelSettles` is left to TLC.

## AutoAI

`AutoAI` has the world the engine watches (the drafts' texts, the one on screen,
the stores' ids, locks, settings) and its own variables under their names. A
text is its place on a line, so that `Distance` is the number of characters
changed. `ContentEmitted` is the subscriber of `documentContent`; `Emission`
calls it only when the string changed. `WaitingEnds` and `WarningEnds` are the
two timers, `RunReview`, `KeyLoaded`, `Answered` and `Failed` the stretches of
`runReview` between its awaits, `CancelPendingReview` and `StopAllAi` its aborts.

Run `autoai`: 3 drafts in 2 tabs, two of them with equal text, texts 0 to 3,
`MIN_DIFF_CHARS` 2, 3 steps of the writer and all timers, loads and answers they
cause. `NotesFit`: notes land in the text and the draft the model was shown.
`PhaseTells`: one review at most is not aborted, and phase, timer and indicator
tell what it does. `ReviewComes`: a due review comes, unless something but typing
intervened (`excused`: a stop, a setting, a lock, a failure, a switch nobody was
told of). Three steps are a text, a change under a review, and a switch with the
review still out. Fairness: loads end, timers fire, calls settle. A request
that was aborted does not answer: the code relies on the library for this, and
with an answering one notes could land after AutoAI was turned off. Documents
are other pages; only tabs and drafts change.

`AutoAIProofs` proves both safety properties of the run for any drafts, texts
and steps (`AutoAIAssumption`: the bounds are numbers): `PhaseTellsTruth == Spec
=> []PhaseTells` and `NotesFitTheirText == Spec => []NotesFit`. The invariant
`EngineInv` says why a late answer fits: ids tell reviews apart (`IdsOK`), so
the controller is that of the only live one, and a review that is not aborted
was given the text on screen (`WatchOK`), because every change that reaches the
engine aborts it. What aborting, starting and returning do to the set of reviews
are lemmas (`AbortLeavesNoneLive` and its neighbours).

## Annotations and linked versions

`Annotations` is one document: text as a sequence of letters, annotations as
ranges with versions, groups of linked versions, and the undo history of
CodeMirror with the inverse effects that `invertedEffects` stores. A transaction
goes through `Annotated` (the three phases of `annotationField.update`: map
ranges, apply effects, pull the text into the active versions), then `Grouped`,
then `Cleanup`, the microtask that removes collapsed revisions outside the
history. `InvertedAnnotations` and `InvertedGroups` compute what undoes it. The
commands are sets of transactions (`Typing`, `NestedTyping`, `SwitchingVersions`,
`DeletingVersions`, `Linking` and so on), `Command` runs one of `Transactions`,
`Undo` and `Redo` replay events.

Run `annotations`: two loaded documents (a revision; two linked ones), 3
commands, 2 undos and redos, 4 letters. `AnnotationsOK`: the document shows, in
each revision's range, its active version, and revisions do not overlap.
`GroupsOK`: links join different revisions and no version is in two groups.
`HistoryIsExact`: undo and redo restore text and annotations exactly.
`LinksFollow`: they restore links as well, unless the command erased a linked
revision's text. Three commands are a link, a switch and a deletion of what was
linked; four letters hold two revisions and a gap. Revisions are not touched at
their edges by `SwitchingVersions` and not overlapped by `BranchingSuggestions`
(`Careless`; see below). Left out: labels, later messages of a thread,
provenance, annotations inside versions, multiple selections, live sessions'
edits, the search of a suggestion's text, restores without an expectation, group
renaming and deletion, and the joining of adjacent typing, so that each command
is one event. No liveness: nothing is asynchronous but the microtask.

## Further disagreements

Where the code does not do what a comment, a test or a document says, the
property that quotes it is stated in its module, and a cfg of its own shows it
violated: `tlc -config X.cfg M`, with the module in the first column (add
`-continue` where a cfg shows several properties violated). These are
not among the listed runs; the listed properties are stated for what remains.

| Module, cfg | Property | What happens |
|---|---|---|
| `DraftHistory`, `MCDraftForks` | `RunsAreLinear` | Iterate, delete the tip, iterate, undo: one draft has two live iterations, both unlocked (`tabDrafts.svelte.ts:609`), against "a run is linear by construction" (`tabs.rs:423`). |
| `DraftRewind`, `MCDraftRestores` | `RestoreBringsBack` | A restore to a moment when C had been re-attached above the deleted B cascades over B with its present subtree, to which an undo had returned C (`tabs.rs:1431`), against `tabs.rs:1279`. |
| `DraftRewind`, `MCDraftRestores` | `TabsKeepDrafts` | A restore logs a tab's root as deleted before the tab; a restore to the entry in between brings back a tab without drafts (`tabs.rs:1411`), against `docs/tabs-and-drafts.md:176`. |
| `DraftRewind`, `MCDraftTies` | `RestoreIsExact` | A draft made after the coordinate's entry but in its millisecond is in no replayed entry and not younger than the coordinate: it counts as live and stays, or comes back (`tabs.rs:1342`), against "soft-deleting ones that hadn't been created yet" (`tabs.rs:1279`). |
| `DraftRewind`, `MCDraftRestores` | `RestoreIsPossible` | A deleted tab's drafts stay live, so a restore to before the tab was created cascades over its root, which is refused (`tabs.rs:1430`), against the comment at `tabs.rs:1423`. |
| `Library`, `MCLibrarySeeds` | `SeedsStay` | Copies and the sample have an unlabeled seed that no event repeats; retention deletes it (`documents.rs:313`), against `tabs.rs:471`. |
| `Library`, `MCLibrarySeeds` | `OlderPrunesLess` | An age too large to compute prunes everything: on overflow the cutoff becomes now (`events.rs:281`), against the comment at `events.rs:275`. |
| `Library`, `MCCopyOfPrompt` | `CopyIsPossible` | A college prompt is stored as covering event 0, which the copy's check compares with -1 and refuses (`college.rs:210`), against `docs/college-applications.md:162`. |
| `Library`, `MCCopyAfterTab` | `CopyIsPossible` | A document with a deleted tab cannot be duplicated: its drafts stay live and name a tab that is not copied (`documents.rs:268`). |
| `MCDocumentLoader`, `MCLoaderOverlaps` | `TextMatchesLog` | A load of the draft on screen commits what it read before later edits were logged (`documentLoader.ts:251`), against "Stale reads cannot commit" (`docs/tabs-and-drafts.md:226`). |
| `MCDocumentLoader`, `MCLoaderRefused` | `RefusedSelectionRestores` | A flush that fails sets the stores back but not the controller's list and the active tab, if it overtook a tab selection (`documentLoader.ts:199`), against `docs/tabs-and-drafts.md:222`. |
| `MCDocumentLoader`, `MCLoaderOverlaps` | `CancelledSelectionRestores` | A deletion cancels the load of a tab that is already current: nothing sets the current tab back (`documentLoader.ts:53`), against the comment at line 55. |
| `MCDocumentLoader`, `MCLoaderRejected` | `EditorNeverOnDeleted` | While the tab on screen is being deleted, the other tab is selected and one of its drafts clicked; the overtaken load rejects late and sets the current tab back to the one that goes, where the next click is committed after the move off it was checked (`tabDrafts.svelte.ts:289`), against "so the editor never points at a hidden one" (`tabDrafts.svelte.ts:556`). |
| `RelayRooms`, `MCRelayStale` | `NoStaleContent` | A joiner's update sent before the owner left is applied after the clearing, so the next owner finds it (`rooms.ts:136`), against "This prevents stale content" (`sync.ts:221`). |
| `RelayRooms`, `MCRelayReload` | `StoredEditsReload` | A migration whose snapshot failed is in memory only; updates on top of it are logged and, after a crash, refer to structs nobody has (`rooms.ts:46`), against `yjsUpdates.ts:120`. |
| `LiveRoom`, `MCLiveReturns` | `OwnerTextSurvives` | The relay clears the room when the owner's socket closes; the provider reconnects with the same Y.Doc, the editor is emptied and the loss is logged (`sync.ts:223`), against `sync.ts:220`. |
| `LiveRoom`, `MCLiveTwice` | `SeededOnce` | The old socket's last message arrives after the new seed: the text is there twice (`collab/index.ts:182`), against the comment at line 180. |
| `LiveRoom`, `MCLiveEarly` | `SeedKeepsText` | What the owner types while the session opens is overwritten by the text read before (`collab/index.ts:147`), against line 179. |
| `Conversations`, `MCConversationsHurried` | `RowsOnlyGrow` | A panel mounted anew does not wait for the old one's send, whose last save replaces the row (`conversationController.svelte.ts:1004`), against `docs/ai-sidebar.md:240`. |
| `Conversations`, `MCConversationsHurried` with `MaxPanels = 1` | `RowsOnlyGrow` | Open origin while the conversation shown is being deleted: the panel is cleared without asking whether it is still current, and the send that began meanwhile saves the cleared messages. |
| `MCAutoAI`, `MCAutoAISwitch` | `FreshAfterSwitch` | A switch to a draft with the same text schedules no review (`engine.ts:440`), against `docs/autoai.md:96`. |
| `Annotations`, `MCAnnotationsLinks` | `UndoLinks` | Erasing a linked revision's text lets the cleanup, outside the history, prune its links; undo restores the revision without them, against `docs/annotations.md:117`. |
| `Annotations`, `MCAnnotationsLinks` | `MembersExist` | Replacing text across a linked revision drops it in the first phase and leaves its link dangling until its id is used again, against the check in `historyFuzz.test.ts`. |
| `Annotations`, `MCAnnotationsTouch` | `RevisionsOK` | Switching linked versions where an empty revision touches the other maps the partner's start before the other's text, against `historyFuzz.test.ts:777`. |
| `Annotations`, `MCAnnotationsOverlap` | `RevisionsOK` | Branching a suggestion does not ask `canCreateRevision`: revisions overlap, against "Revisions must not overlap" (`utils.ts`). |

The comment at `annotationField.ts:1153`, that deletion through text is not
tracked in the history, is out of date: `HistoryIsExact` holds.

## What holds by model checking only

Proved for every value of the constants are all safety properties of the save
path, the relay, `LiveRoom`, AutoAI, `Library`, `Conversations` and the document
loader, both refinements, and those of `DraftSessions` except `LocksHold`. By
model checking only, on the bounds above:

- the safety properties of `DraftRewind` and `Annotations`, whose transactions are
  folds over rows and over sequences of changes, and `LocksHold` of
  `DraftSessions`, which is about walks along a run: what they compute needs
  inductions over data that no installed prover does;
- liveness (`WorkSettles`, `OperationsEnd`, `RoomsSettle`, `SessionEnds`,
  `PanelSettles`, `ReviewComes`) and the fairness it rests on: `ENABLED` is out
  of the prover's reach.

## Not modelled

- **Schema migrations**: each is one SQLite transaction keyed on `user_version`;
  the content is data conversion.
- **Search and embeddings**: an index derived from the text.
- **Read-only sharing**: publishing timers against Supabase. It has state of its
  own (pending publication, retries) and would be the next module.
- **Persisted undo history, provenance, word counts, exports**: encodings and
  pure functions of the log.
- **College applications, accounts, settings, updater, sprints, tutorial, MCP,
  landing site, scripts**: forms, views, transports and pages with no protocol
  of their own.
- **Error guard**: its emergency snapshot is a named version; the backup in
  localStorage is one write.

Most of the repository's lines are these: views, the landing site, scripts,
generated bindings and content. The definitions here map the parts above, which
is where order and failure decide; a mapping of most lines would be a list of
views.
