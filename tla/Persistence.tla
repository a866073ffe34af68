------------------------------ MODULE Persistence ------------------------------
(***************************************************************************)
(* The editor's save path: lib/editor/listeners.ts over the event store,   *)
(* for one editor window, with the part of documentLoader.ts that swaps    *)
(* the draft under it.                                                     *)
(*                                                                         *)
(* Accepting an edit never waits.  The update listener chains a job on     *)
(* `persistQueue`, a promise chain that runs one job at a time in order:   *)
(* appends, checkpoints (idle timer, flushes) and named versions.  Each    *)
(* job keeps the bookkeeping object of the draft that was loaded when it   *)
(* was queued; loading a draft installs a new object, and the jobs of the  *)
(* previous one finish against theirs.  A job awaits SQLite between its    *)
(* steps, and edits, timers, loads, window closing and crashes fall in     *)
(* between.                                                                *)
(*                                                                         *)
(* Here loads do not overlap and never reopen the draft on screen; module  *)
(* DocumentLoader is about the ones that do.                               *)
(***************************************************************************)
EXTENDS EventStore, FiniteSets

CONSTANTS
    NoDraft,      \* no draft is on screen yet
    MaxEdits,     \* bound: edits accepted in a behaviour
    MaxQueue,     \* bound: jobs waiting on the chain
    MaxSessions,  \* bound: drafts loaded between two starts of the app
    MaxFaults     \* bound: appends that report an error

ASSUME NoDraftAssumption == NoDraft \notin Drafts

VARIABLES
    view,       \* the root EditorView: its draft and text
    books,      \* every PersistenceBookkeeping since the app started
    queue,      \* persistQueue: the running job first
    step,       \* how far the running append has got
    inflight,   \* recovery snapshots sent and not awaited
    load,       \* the loader's current load()
    closing,    \* the window's close request
    \* History variables: what was accepted and what became of it.
    nextEdit,   \* the number of the next edit
    booted,     \* nextEdit when the app started
    mine,       \* the edits accepted under the current bookkeeping
    lost,       \* the edits whose append failed without inserting a row
    faults,     \* how many appends have reported an error
    promised    \* the edits a successful flush has answered for

dbVars == <<events, snapshots>>
editVars == <<nextEdit, booted, mine>>
historyVars == <<lost, faults, promised>>
vars == <<events, snapshots, view, books, queue, step, inflight, load, closing,
          nextEdit, booted, mine, lost, faults, promised>>

-------------------------------------------------------------------------------
(* Bookkeeping objects. *)

\* pendingCheckpoint is at most one snapshot not yet written.
Book(lastEventId, pendingCheckpoint) ==
    [lastEventId |-> lastEventId, pendingCheckpoint |-> pendingCheckpoint,
     failure |-> FALSE, idleTimer |-> FALSE]

BookType == [lastEventId : Nat, pendingCheckpoint : SUBSET SnapshotType,
             failure : BOOLEAN, idleTimer : BOOLEAN]

\* `persistence`: the bookkeeping of the draft on screen.
current == Len(books)

-------------------------------------------------------------------------------
(* Jobs.  An append's content is the text its edit was made against; a     *)
(* named version's is the text captured when it was asked for; a           *)
(* checkpoint's is the set of edits its caller has been promised.          *)

Callers == {"idle", "flush", "load", "close"}

JobType == [kind : {"append", "named", "checkpoint"}, book : Nat \ {0},
            draft : Drafts \union {NoDraft}, edit : Nat,
            content : SUBSET Nat, caller : Callers]

AppendJob ==
    [kind |-> "append", book |-> current, draft |-> view.draft,
     edit |-> nextEdit, content |-> view.content, caller |-> "idle"]

NamedJob ==
    [kind |-> "named", book |-> current, draft |-> view.draft,
     edit |-> nextEdit, content |-> view.content, caller |-> "idle"]

CheckpointJob(caller, book, need) ==
    [kind |-> "checkpoint", book |-> book, draft |-> NoDraft,
     edit |-> nextEdit, content |-> need, caller |-> caller]

Room == Len(queue) < MaxQueue

\* Mutant: a job that does not wait for the ones queued before it.
EnqueueUnordered(job, close) ==
    /\ queue' = IF queue = <<>> THEN <<job>>
                ELSE <<Head(queue), job>> \o Tail(queue)
    /\ closing' = [close EXCEPT !.barrier = (job.caller = "close")]

\* persistQueue = persistQueue.then(job).  A job queued after the close
\* flush's barrier makes the close loop go round again.
Enqueue(job, close) ==
    /\ queue' = Append(queue, job)
    /\ closing' = [close EXCEPT !.barrier = (job.caller = "close")]

running == Head(queue)
book == books[running.book]

Running(kind) == queue # <<>> /\ running.kind = kind

Finish == queue' = Tail(queue) /\ step' = "start"

-------------------------------------------------------------------------------
(* The editor and its queue of writes. *)

NoView == [draft |-> NoDraft, content |-> {}]
NoLoad == [phase |-> "none", draft |-> NoDraft, content |-> {},
           latestEventId |-> 0, recovered |-> FALSE]
NotClosing == [phase |-> "no", barrier |-> FALSE]

Init ==
    /\ events = <<>> /\ snapshots = {}
    /\ view = NoView /\ books = <<Book(0, {})>>
    /\ queue = <<>> /\ step = "start" /\ inflight = {}
    /\ load = NoLoad /\ closing = NotClosing
    /\ nextEdit = 1 /\ booted = 1 /\ mine = {}
    /\ lost = {} /\ faults = 0 /\ promised = {}

\* persistTransaction: the editor has accepted an edit.
AcceptEdit ==
    /\ view.draft # NoDraft
    /\ nextEdit <= MaxEdits /\ Room
    /\ Enqueue(AppendJob, closing)
    /\ view' = [view EXCEPT !.content = @ \union {nextEdit}]
    /\ books' = [books EXCEPT ![current].idleTimer = TRUE]
    /\ nextEdit' = nextEdit + 1
    /\ mine' = mine \union {nextEdit}
    /\ UNCHANGED <<dbVars, step, inflight, load, booted, historyVars>>

\* snapshotBeforeChange and guardRecovery: the text before the change is
\* stored and awaited (kept), or sent without waiting for it (guarded), or
\* both.  An attempt that fails leaves nothing behind.
SnapshotBeforeChange(kept, guarded) ==
    LET before == {SnapshotOf(running.draft, book.lastEventId, running.content)}
    IN
    /\ Running("append") /\ step = "start"
    /\ ~book.failure
    /\ kept \/ guarded
    /\ InsertSnapshots(IF kept THEN before ELSE {})
    /\ inflight' = IF guarded THEN inflight \union before ELSE inflight
    /\ step' = "append"
    /\ UNCHANGED <<events, view, books, queue, load, closing, editVars, historyVars>>

\* The text the running append leads to, as a snapshot at event n.
AfterChange(n) ==
    SnapshotOf(running.draft, n, running.content \union {running.edit})

\* doAppend, the native call succeeded.  Under a failure the event id still
\* advances but nothing may be checkpointed.
AppendSucceeds ==
    LET n == Len(events) + 1 IN
    /\ Running("append") /\ step \in {"start", "append"}
    /\ InsertEvent(running.draft, running.edit, running.content)
    /\ IF book.failure
       THEN /\ books' = [books EXCEPT ![running.book].lastEventId = n]
            /\ Finish
       ELSE /\ books' = [books EXCEPT ![running.book].lastEventId = n,
                                      ![running.book].pendingCheckpoint = {AfterChange(n)}]
            /\ step' = "after"
            /\ UNCHANGED queue
    /\ UNCHANGED <<snapshots, view, inflight, load, closing, editVars, historyVars>>

\* Mutant: no .catch on the chain, so a failure stops it.
AppendFailsForGood(inserted) ==
    /\ Running("append") /\ step \in {"start", "append"}
    /\ faults < MaxFaults
    /\ lost' = IF inserted THEN lost ELSE lost \union {running.edit}
    /\ IF inserted
       THEN InsertEvent(running.draft, running.edit, running.content)
       ELSE UNCHANGED events
    /\ books' = [books EXCEPT ![running.book].failure = TRUE]
    /\ faults' = faults + 1
    /\ step' = "stuck"
    /\ UNCHANGED <<snapshots, view, queue, inflight, load, closing, editVars, promised>>

\* doAppend, the native call failed.  The row may be in the table all the
\* same: the error can come from a statement after the INSERT.
AppendFails(inserted) ==
    /\ Running("append") /\ step \in {"start", "append"}
    /\ faults < MaxFaults
    /\ IF inserted
       THEN /\ InsertEvent(running.draft, running.edit, running.content)
            /\ UNCHANGED lost
       ELSE /\ lost' = lost \union {running.edit}
            /\ UNCHANGED events
    /\ books' = [books EXCEPT ![running.book].failure = TRUE]
    /\ faults' = faults + 1
    /\ Finish
    /\ UNCHANGED <<snapshots, view, inflight, load, closing, editVars, promised>>

\* clearPendingCheckpoint: only the checkpoint of that very event.
Uncleared(pending, d, n) == {c \in pending : ~(c.draft = d /\ c.upTo = n)}

\* Mutant: the pending checkpoint is dropped before its snapshot is written.
SnapshotAfterChangeDropped(saved) ==
    LET n == book.lastEventId IN
    /\ Running("append") /\ step = "after"
    /\ InsertSnapshots(IF saved THEN {AfterChange(n)} ELSE {})
    /\ books' = [books EXCEPT ![running.book].pendingCheckpoint = {}]
    /\ Finish
    /\ UNCHANGED <<events, view, inflight, load, closing, editVars, historyVars>>

\* snapshotAfterChange: a comment's snapshot, or the one append_event asked
\* for.  When none is due, or the write fails, the checkpoint stays pending.
SnapshotAfterChange(saved) ==
    LET n == book.lastEventId IN
    /\ Running("append") /\ step = "after"
    /\ InsertSnapshots(IF saved THEN {AfterChange(n)} ELSE {})
    /\ books' = IF saved
                THEN [books EXCEPT ![running.book].pendingCheckpoint =
                                       Uncleared(@, running.draft, n)]
                ELSE books
    /\ Finish
    /\ UNCHANGED <<events, view, inflight, load, closing, editVars, historyVars>>

\* The promise of a snapshotAndWarn call settles, long after its job.
RecoverySnapshotSettles(s, saved) ==
    /\ s \in inflight
    /\ inflight' = inflight \ {s}
    /\ InsertSnapshots(IF saved THEN {s} ELSE {})
    /\ UNCHANGED <<events, view, books, queue, step, load, closing, editVars, historyVars>>

-------------------------------------------------------------------------------
(* Named versions. *)

\* Mutant: the snapshot is written at once, ahead of the queued appends.
NameVersionAtOnce ==
    /\ view.draft # NoDraft /\ Room
    /\ ~books[current].failure
    /\ InsertSnapshots({SnapshotOf(view.draft, books[current].lastEventId, view.content)})
    /\ UNCHANGED <<events, view, books, queue, step, inflight, load, closing, editVars, historyVars>>

\* persistNamedVersion: the text is captured now, the event id when it runs.
NameVersion ==
    /\ view.draft # NoDraft /\ Room
    /\ Enqueue(NamedJob, closing)
    /\ UNCHANGED <<dbVars, view, books, step, inflight, load, editVars, historyVars>>

\* isCurrent fails (the draft has changed or, for the name prompt, a load has
\* begun), the history is not durable, or the write fails.
NamedVersionRefused ==
    /\ Running("named")
    /\ Finish
    /\ UNCHANGED <<dbVars, view, books, inflight, load, closing, editVars, historyVars>>

NamedVersionSaved ==
    LET n == book.lastEventId IN
    /\ Running("named")
    /\ view.draft = running.draft
    /\ ~book.failure
    /\ InsertSnapshots({SnapshotOf(running.draft, n, running.content)})
    /\ books' = [books EXCEPT ![running.book].pendingCheckpoint =
                                  Uncleared(@, running.draft, n)]
    /\ Finish
    /\ UNCHANGED <<events, view, inflight, load, closing, editVars, historyVars>>

-------------------------------------------------------------------------------
(* Checkpoints. *)

\* The idle timer of scheduleIdleCheckpoint fires.
IdleCheckpoint ==
    /\ books[current].idleTimer /\ Room
    /\ Enqueue(CheckpointJob("idle", current, {}), closing)
    /\ books' = [books EXCEPT ![current].idleTimer = FALSE]
    /\ UNCHANGED <<dbVars, view, step, inflight, load, editVars, historyVars>>

\* The synchronous part of flushPersistence, common to its callers.
Flush(caller, close) ==
    /\ Enqueue(CheckpointJob(caller, current, mine), close)
    /\ books' = [books EXCEPT ![current].idleTimer = FALSE]

\* flushPersistence on losing focus, hiding the page or leaving the editor.
FlushPersistence ==
    /\ Room
    /\ Flush("flush", closing)
    /\ UNCHANGED <<dbVars, view, step, inflight, load, editVars, historyVars>>

\* Mutant: every checkpoint answers the loader.
ResolveAnyone(caller) ==
    /\ promised' = promised \union running.content
    /\ load' = [load EXCEPT !.phase = "read"]
    /\ closing' = IF caller = "close"
                  THEN [closing EXCEPT !.phase = "check"] ELSE closing

\* A checkpoint settles.  Its caller goes on, or is stopped.
Resolve(caller) ==
    /\ promised' = promised \union running.content
    /\ load' = IF caller = "load" THEN [load EXCEPT !.phase = "read"] ELSE load
    /\ closing' = IF caller = "close"
                  THEN [closing EXCEPT !.phase = "check"] ELSE closing

Reject(caller) ==
    /\ load' = IF caller = "load" THEN NoLoad ELSE load
    /\ closing' = IF caller = "close" THEN NotClosing ELSE closing
    /\ UNCHANGED promised

\* Mutant: no requireDurableHistory.
CheckpointSucceedsAnyway ==
    /\ Running("checkpoint")
    /\ InsertSnapshots(book.pendingCheckpoint)
    /\ books' = [books EXCEPT ![running.book].pendingCheckpoint = {}]
    /\ Resolve(running.caller)
    /\ Finish
    /\ UNCHANGED <<events, view, inflight, editVars, lost, faults>>

\* persistPendingCheckpoint: writes the pending checkpoint, if there is one.
CheckpointSucceeds ==
    /\ Running("checkpoint")
    /\ ~book.failure
    /\ InsertSnapshots(book.pendingCheckpoint)
    /\ books' = [books EXCEPT ![running.book].pendingCheckpoint = {}]
    /\ Resolve(running.caller)
    /\ Finish
    /\ UNCHANGED <<events, view, inflight, editVars, lost, faults>>

\* The history is uncertain, or the snapshot could not be written; in that
\* case it stays pending.
CheckpointFails ==
    /\ Running("checkpoint")
    /\ book.failure \/ book.pendingCheckpoint # {}
    /\ Reject(running.caller)
    /\ Finish
    /\ UNCHANGED <<dbVars, view, books, inflight, editVars, lost, faults>>

-------------------------------------------------------------------------------
(* Loading a draft: DocumentLoader.load. *)

StartLoad(d) ==
    /\ load.phase = "none"
    /\ d # view.draft
    /\ Len(books) < MaxSessions /\ Room
    /\ Flush("load", closing)
    /\ load' = [NoLoad EXCEPT !.phase = "flush", !.draft = d]
    /\ UNCHANGED <<dbVars, view, step, inflight, editVars, historyVars>>

\* Mutant: the events since the snapshot are not replayed.
ReadSnapshotOnly(s, replayed) ==
    /\ load.phase = "read"
    /\ s \in LatestSnapshots(load.draft)
    /\ replayed \in Replays(s)
    /\ load' = [load EXCEPT !.phase = "commit", !.content = s.content,
                            !.latestEventId = LatestEventId(s)]
    /\ UNCHANGED <<dbVars, view, books, queue, step, inflight, closing, editVars, historyVars>>

\* loadDocumentState and reconstructStateWithStatus.
ReadDraft(s, replayed) ==
    /\ load.phase = "read"
    /\ s \in LatestSnapshots(load.draft)
    /\ replayed \in Replays(s)
    /\ load' = [load EXCEPT
                    !.phase = "commit",
                    !.content = s.content \union EditsOf(replayed),
                    !.latestEventId = LatestEventId(s),
                    !.recovered = replayed = EventsSince(s) /\ replayed # {}]
    /\ UNCHANGED <<dbVars, view, books, queue, step, inflight, closing, editVars, historyVars>>

\* #commit: new bookkeeping and new editor state in one go, then a checkpoint
\* of what was replayed.
CommitLoad ==
    LET recovered == IF load.recovered
                     THEN {SnapshotOf(load.draft, load.latestEventId, load.content)}
                     ELSE {}
    IN
    /\ load.phase = "commit"
    /\ view' = [draft |-> load.draft, content |-> load.content]
    /\ books' = Append([books EXCEPT ![current].idleTimer = FALSE],
                       Book(load.latestEventId, recovered))
    /\ IF load.recovered
       THEN Enqueue(CheckpointJob("flush", current + 1, {}), closing)
       ELSE UNCHANGED <<queue, closing>>
    /\ load' = NoLoad
    /\ mine' = {}
    /\ UNCHANGED <<dbVars, step, inflight, nextEdit, booted, historyVars>>

\* The native read fails, or the draft may no longer be selected: load()
\* returns without touching the editor.
AbandonLoad ==
    /\ load.phase \in {"read", "commit"}
    /\ load' = NoLoad
    /\ UNCHANGED <<dbVars, view, books, queue, step, inflight, closing, editVars, historyVars>>

-------------------------------------------------------------------------------
(* Closing the window, and everything that ends the process without it. *)

\* onCloseRequested and flushPersistenceForClose.
RequestClose ==
    /\ closing.phase = "no" /\ Room
    /\ Flush("close", [closing EXCEPT !.phase = "flush"])
    /\ UNCHANGED <<dbVars, view, step, inflight, load, editVars, historyVars>>

\* while (persistQueue !== barrier): something was queued since the flush.
CloseAgain ==
    /\ closing.phase = "check" /\ ~closing.barrier
    /\ Flush("close", [closing EXCEPT !.phase = "flush"])
    /\ UNCHANGED <<dbVars, view, step, inflight, load, editVars, historyVars>>

\* The process ends and another one starts: only the database survives.
Restart ==
    /\ view' = NoView /\ books' = <<Book(0, {})>>
    /\ queue' = <<>> /\ step' = "start" /\ inflight' = {}
    /\ load' = NoLoad /\ closing' = NotClosing
    /\ booted' = nextEdit /\ mine' = {}
    /\ UNCHANGED <<dbVars, nextEdit, lost, faults>>

CloseWindow ==
    /\ closing.phase = "check" /\ closing.barrier
    /\ promised' = promised \union mine
    /\ Restart

\* A crash, a forced quit or the native Quit menu.
Crash == Restart /\ UNCHANGED promised

-------------------------------------------------------------------------------

QueueStep ==
    \/ \E kept, guarded \in BOOLEAN : SnapshotBeforeChange(kept, guarded)
    \/ AppendSucceeds
    \/ \E inserted \in BOOLEAN : AppendFails(inserted)
    \/ \E saved \in BOOLEAN : SnapshotAfterChange(saved)
    \/ NamedVersionRefused
    \/ NamedVersionSaved
    \/ CheckpointSucceeds
    \/ CheckpointFails

LoaderStep ==
    \/ \E s \in LatestSnapshots(load.draft) :
           \E replayed \in Replays(s) : ReadDraft(s, replayed)
    \/ CommitLoad
    \/ AbandonLoad

Next ==
    \/ AcceptEdit
    \/ QueueStep
    \/ \E s \in inflight, saved \in BOOLEAN : RecoverySnapshotSettles(s, saved)
    \/ NameVersion
    \/ IdleCheckpoint
    \/ FlushPersistence
    \/ \E d \in Drafts : StartLoad(d)
    \/ LoaderStep
    \/ RequestClose
    \/ CloseAgain
    \/ CloseWindow
    \/ Crash

Spec == Init /\ [][Next]_vars

\* Promise jobs and native calls always settle, so the chain and a load under
\* way always go on.  Nothing obliges the writer, the timer or the window.
FairSpec == Spec /\ WF_vars(QueueStep) /\ WF_vars(LoaderStep)

-------------------------------------------------------------------------------
(* Properties. *)

TypeOK ==
    /\ events \in Seq(EventType)
    /\ snapshots \subseteq SnapshotType
    /\ view \in [draft : Drafts \union {NoDraft}, content : SUBSET Nat]
    /\ books \in Seq(BookType) /\ books # <<>>
    /\ queue \in Seq(JobType)
    /\ step \in {"start", "append", "after"}
    /\ inflight \subseteq SnapshotType
    /\ load \in [phase : {"none", "flush", "read", "commit"},
                 draft : Drafts \union {NoDraft}, content : SUBSET Nat,
                 latestEventId : Nat, recovered : BOOLEAN]
    /\ load.phase # "none" => load.draft \in Drafts
    /\ closing \in [phase : {"no", "flush", "check"}, barrier : BOOLEAN]
    /\ nextEdit \in Nat /\ booted \in Nat /\ faults \in Nat
    /\ mine \subseteq Nat /\ lost \subseteq Nat /\ promised \subseteq Nat

QueuedEdits(d) ==
    {queue[i].edit : i \in {j \in 1..Len(queue) :
                               queue[j].kind = "append" /\ queue[j].draft = d}}

\* Some event of d up to the n-th was made against text the log never got.
TornBefore(d, n) ==
    \E i \in IdsOf(d) : i <= n /\ events[i].start \intersect lost # {}

Torn(d) == TornBefore(d, Len(events))

\* The log of a draft can be replayed: each event was made against exactly the
\* text the events before it lead to, whatever was queued, loaded, flushed or
\* crashed in between.  Only an append that failed can break the chain.
LogIsChain ==
    \A i \in 1..Len(events) :
        \/ TornBefore(events[i].draft, i)
        \/ events[i].start = LogUpTo(events[i].draft, i - 1)

\* Every snapshot, of whichever kind and however late it was written, holds
\* the text of the log up to the event it names: reopening from it neither
\* repeats nor drops an edit.
SnapshotsFaithful ==
    \A s \in snapshots :
        \/ TornBefore(s.draft, s.upTo)
        \/ s.content = LogUpTo(s.draft, s.upTo)

\* A failed append stays attached to the loaded draft: nothing it may have
\* lost is ever checkpointed as if the log had it (requireDurableHistory).
NoSnapshotOverLostEdit == \A s \in snapshots : s.content \intersect lost = {}

\* A snapshot never misleads: it is faithful and holds no lost edit
\* (SnapshotsFaithful, NoSnapshotOverLostEdit).
SnapshotsHonest == SnapshotsFaithful /\ NoSnapshotOverLostEdit

\* What the writer sees is what the log holds and the queue will still add.
\* After a reload, in particular, no accepted edit is missing from the screen.
ViewMatchesLog ==
    view.draft # NoDraft /\ ~books[current].failure /\ ~Torn(view.draft)
        => view.content = Log(view.draft) \union QueuedEdits(view.draft)

\* A flush that resolves, and a window that closes, leave in the log every edit
\* accepted under that bookkeeping before the call (before the window closed).
FlushedIsDurable == promised \subseteq Logged

\* They also leave each of them in a snapshot: the next start does not depend
\* on replaying them.
FlushedIsCheckpointed == promised \subseteq UNION {s.content : s \in snapshots}

\* A window that closes on request has saved every edit accepted since the app
\* started.
ClosingLosesNothing == [][CloseWindow => booted..(nextEdit - 1) \subseteq Logged]_vars

\* The save path keeps the promises of WriteBehind: edits are saved in the order
\* they were accepted, only edits on their way are lost, and a resolved flush is
\* never taken back.
WB == INSTANCE WriteBehind WITH
          Edits <- 1..MaxEdits,
          text <- [d \in Drafts |-> Log(d) \union QueuedEdits(d)],
          saved <- [d \in Drafts |-> Log(d)],
          answered <- promised

WritesBehind == WB!Spec

\* Every accepted edit reaches the log, or its append fails, or the process
\* ends first: no failure stalls the chain.
EditsSettle ==
    \A e \in 1..MaxEdits :
        e < nextEdit ~> (e \in Logged \union lost \/ e < booted)

\* A load under way is committed or given up.
LoadsSettle == load.phase # "none" ~> load.phase = "none"

\* What the queue and the loader have begun ends (EditsSettle, LoadsSettle).
WorkSettles == EditsSettle /\ LoadsSettle

===============================================================================
