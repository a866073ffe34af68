---------------------------- MODULE DraftHistory ----------------------------
(***************************************************************************)
(* The structure commands of the editor (tabDrafts.svelte.ts) and the      *)
(* session's undo and redo of deletions (structureHistory.ts) over the     *)
(* tree of drafts.                                                         *)
(*                                                                         *)
(* Only deletions are recorded; a creation, a lock or an edit of the prose *)
(* makes what was undone unreachable but leaves what was done.  A deletion *)
(* is one transaction; its undo is a series of them, each a call that can  *)
(* fail, with the document left or the process dead in between.  perform   *)
(* and run share one mutex, so no command starts while an undo or a redo   *)
(* is under way; after the document is left the remaining calls of an undo *)
(* still go out (they finish before the next command of the user).         *)
(***************************************************************************)
EXTENDS DraftTree, SequencesExt

CONSTANTS MaxTabs,      \* tabs ever created
          MaxDrafts,    \* drafts ever created
          MaxToggled,   \* drafts whose lock is toggled by hand
          MaxHistory,   \* deletions that can be undone at once
          CallsFail,    \* may a call of an undo fail?
          CanRedo       \* does the user redo what was undone?

ASSUME BoundsAssumption ==
  /\ MaxTabs \in Nat \ {0} /\ MaxDrafts \in Nat \ {0} /\ MaxToggled \in Nat
  /\ MaxHistory \in Nat
  /\ CallsFail \in BOOLEAN /\ CanRedo \in BOOLEAN

VARIABLES
  db,        \* the database, as in DraftTree
  done,      \* entries that undo takes back, the last one first
  undone,    \* entries that redo repeats, the last one first
  operation, \* the undo or redo under way
  toggled    \* drafts whose lock the user has set

vars == <<db, done, undone, operation, toggled>>

-----------------------------------------------------------------------------
DraftIds == 1..MaxDrafts
TabIds == 1..MaxTabs

Rewrite == [draft : DraftIds, parent : {None} \union DraftIds,
            branchedFrom : {None} \union DraftIds]

\* What a deletion may change: liveness and links, not locks.
Shape(s) ==
  [tabs |-> s.tabs,
   drafts |-> [d \in Drafts(s) |->
                 [live |-> s.drafts[d].live, parent |-> s.drafts[d].parent,
                  branchedFrom |-> s.drafts[d].branchedFrom]]]

\* A recorded deletion.  The field before is not the program's: it remembers
\* the shape of the document that the deletion found.
Entry(kind, target, doomed, rewrites) ==
  [kind |-> kind, target |-> target, doomed |-> doomed, rewrites |-> rewrites,
   before |-> Shape(db)]

NoEntry == [kind |-> "none", target |-> None, doomed |-> {}, rewrites |-> {},
            before |-> Shape(NewDocument)]

\* restore and relink are the calls an undo has left; attached fails once the
\* document is left, redoable once something else clears the redo stack.
NoOperation == [kind |-> "none", entry |-> NoEntry, restore |-> {}, relink |-> {},
                attached |-> FALSE, redoable |-> FALSE]

Idle == operation.kind = "none"

Init ==
  /\ db = NewDocument
  /\ done = <<>> /\ undone = <<>>
  /\ operation = NoOperation
  /\ toggled = {}

-----------------------------------------------------------------------------
(* Creations, locks and prose.                                             *)

HandleTabCreate ==
  /\ Idle
  /\ Len(db.tabs) < MaxTabs /\ Len(db.drafts) < MaxDrafts
  /\ db' = CreateTab(db)
  /\ undone' = <<>>
  /\ UNCHANGED <<done, operation, toggled>>

\* The panel offers this on the tip of a run only.
HandleDraftIterate(d) ==
  /\ Idle /\ Len(db.drafts) < MaxDrafts
  /\ d \in Shown(db) /\ Iterations(db, d) = {}
  /\ db' = IterateDraft(db, d)
  /\ undone' = <<>>
  /\ UNCHANGED <<done, operation, toggled>>

\* Mutant: a new branch leaves the redo stack alone.
HandleDraftBranchKeepsRedo(d) ==
  /\ Idle /\ Len(db.drafts) < MaxDrafts
  /\ d \in Shown(db)
  /\ db' = BranchDraft(db, d)
  /\ UNCHANGED <<done, undone, operation, toggled>>

HandleDraftBranch(d) ==
  /\ Idle /\ Len(db.drafts) < MaxDrafts
  /\ d \in Shown(db)
  /\ db' = BranchDraft(db, d)
  /\ undone' = <<>>
  /\ UNCHANGED <<done, operation, toggled>>

HandleDraftToggleLock(d) ==
  /\ Idle /\ Cardinality(toggled \union {d}) <= MaxToggled
  /\ d \in Shown(db)
  /\ db' = SetDraftLocked(db, d, ~db.drafts[d].locked)
  /\ toggled' = toggled \union {d}
  /\ undone' = <<>>
  /\ UNCHANGED <<done, operation>>

\* The user types, also while an undo is under way.
EditProse ==
  /\ undone # <<>> \/ operation.redoable
  /\ undone' = <<>>
  /\ operation' = [operation EXCEPT !.redoable = FALSE]
  /\ UNCHANGED <<db, done, toggled>>

-----------------------------------------------------------------------------
(* Deletions.  A document that is left before the call returns keeps the   *)
(* deletion and loses the history.                                         *)

Record(entry) ==
  \/ Len(done) < MaxHistory /\ done' = Append(done, entry) /\ undone' = <<>>
  \/ done' = <<>> /\ undone' = <<>>

HandleTabDelete(t) ==
  /\ Idle
  /\ t \in LiveTabs(db) /\ CanDeleteTab(db)
  /\ db' = DeleteTab(db, t)
  /\ Record(Entry("tab", t, {}, {}))
  /\ UNCHANGED <<operation, toggled>>

\* Mutant: delete_draft before guard_draft_has_no_live_children.
HandleDraftDeleteUnguarded(d) ==
  /\ Idle
  /\ d \in Live(db) /\ IsDeletable(db, d) /\ CanDelete(db, d, {d})
  /\ db' = DeleteDraft(db, d)
  /\ Record(Entry("leaf", d, {d}, {}))
  /\ UNCHANGED <<operation, toggled>>

HandleDraftDelete(d) ==
  /\ Idle
  /\ d \in Live(db) /\ IsDeletable(db, d)
  /\ Children(db, d) = {} /\ CanDelete(db, d, {d})
  /\ db' = DeleteDraft(db, d)
  /\ Record(Entry("leaf", d, {d}, {}))
  /\ UNCHANGED <<operation, toggled>>

HandleDeleteCascade(d) ==
  /\ Idle
  /\ d \in Live(db) /\ IsDeletable(db, d)
  /\ Children(db, d) # {} /\ CanDelete(db, d, Subtree(db, d))
  /\ db' = CascadeDelete(db, d)
  /\ Record(Entry("cascade", d, Subtree(db, d), {}))
  /\ UNCHANGED <<operation, toggled>>

HandleDeleteOrphan(d) ==
  /\ Idle
  /\ d \in Live(db) /\ IsDeletable(db, d)
  /\ Children(db, d) # {} /\ CanDelete(db, d, {d})
  /\ db' = OrphanAndDelete(db, d)
  /\ Record(Entry("orphan", d, {d}, Rewrites(db, d)))
  /\ UNCHANGED <<operation, toggled>>

-----------------------------------------------------------------------------
(* Undo, one call at a time.                                               *)

StartUndo ==
  /\ Idle /\ done # <<>>
  /\ LET entry == Last(done)
     IN  operation' = [kind |-> "undo", entry |-> entry, restore |-> entry.doomed,
                       relink |-> entry.rewrites, attached |-> TRUE, redoable |-> TRUE]
  /\ UNCHANGED <<db, done, undone, toggled>>

\* Parents before descendants.
UndoRestoresDraft(d) ==
  /\ operation.kind = "undo" /\ d \in operation.restore
  /\ Anchor(db, d) \notin operation.restore
  /\ db' = RestoreDraft(db, d)
  /\ operation' = [operation EXCEPT !.restore = @ \ {d}]
  /\ UNCHANGED <<done, undone, toggled>>

UndoRelinksDraft(r) ==
  /\ operation.kind = "undo" /\ operation.restore = {} /\ r \in operation.relink
  /\ db' = ReparentDraft(db, r)
  /\ operation' = [operation EXCEPT !.relink = @ \ {r}]
  /\ UNCHANGED <<done, undone, toggled>>

\* The last call has returned.  A tab's undo is this one call.
FinishUndo ==
  /\ operation.kind = "undo" /\ operation.restore = {} /\ operation.relink = {}
  /\ db' = IF operation.entry.kind = "tab" THEN RestoreTab(db, operation.entry.target)
                                           ELSE db
  /\ IF operation.attached
     THEN /\ done' = Front(done)
          /\ undone' = IF operation.redoable THEN Append(undone, operation.entry)
                                             ELSE undone
     ELSE UNCHANGED <<done, undone>>
  /\ operation' = NoOperation
  /\ UNCHANGED toggled

\* A call fails, or a redo is refused by a guard of its command: the entry stays
\* where it is, to be tried again.
OperationFails ==
  /\ \/ /\ CallsFail /\ operation.kind = "undo"
        /\ \/ operation.restore # {} \/ operation.relink # {}
           \/ operation.entry.kind = "tab"
     \/ operation.kind = "redo"
  /\ operation' = NoOperation
  /\ UNCHANGED <<db, done, undone, toggled>>

-----------------------------------------------------------------------------
(* Redo: the deletion again, computed afresh from the tree.                *)

StartRedo ==
  /\ CanRedo
  /\ Idle /\ undone # <<>>
  /\ operation' = [kind |-> "redo", entry |-> Last(undone), restore |-> {},
                   relink |-> {}, attached |-> TRUE, redoable |-> TRUE]
  /\ UNCHANGED <<db, done, undone, toggled>>

RedoneEntry ==
  LET old == operation.entry
      d == old.target
  IN  CASE old.kind = "cascade" -> Entry("cascade", d, Subtree(db, d), {})
        [] old.kind = "orphan" -> Entry("orphan", d, {d}, Rewrites(db, d))
        [] OTHER -> Entry(old.kind, d, old.doomed, {})

Redeletion ==
  LET d == operation.entry.target
  IN  CASE operation.entry.kind = "tab" ->
             CanDeleteTab(db) /\ db' = DeleteTab(db, d)
        [] operation.entry.kind = "leaf" ->
             /\ Children(db, d) = {} /\ CanDelete(db, d, {d})
             /\ db' = DeleteDraft(db, d)
        [] operation.entry.kind = "cascade" ->
             CanDelete(db, d, Subtree(db, d)) /\ db' = CascadeDelete(db, d)
        [] operation.entry.kind = "orphan" ->
             CanDelete(db, d, {d}) /\ db' = OrphanAndDelete(db, d)

FinishRedo ==
  /\ operation.kind = "redo"
  /\ Redeletion
  /\ IF operation.attached
     THEN /\ done' = Append(done, RedoneEntry)
          /\ undone' = IF operation.redoable THEN Front(undone) ELSE undone
     ELSE UNCHANGED <<done, undone>>
  /\ operation' = NoOperation
  /\ UNCHANGED toggled

-----------------------------------------------------------------------------
(* Another document is opened or the editor unmounted; the process dies.   *)

LeaveDocument ==
  /\ done' = <<>> /\ undone' = <<>>
  /\ operation' = [operation EXCEPT !.attached = FALSE, !.redoable = FALSE]
  /\ UNCHANGED <<db, toggled>>

Crash ==
  /\ ~Idle
  /\ done' = <<>> /\ undone' = <<>>
  /\ operation' = NoOperation
  /\ UNCHANGED <<db, toggled>>

Create ==
  \/ HandleTabCreate
  \/ \E d \in Drafts(db) : HandleDraftIterate(d) \/ HandleDraftBranch(d)

Delete ==
  \/ \E t \in Tabs(db) : HandleTabDelete(t)
  \/ \E d \in Drafts(db) :
       HandleDraftDelete(d) \/ HandleDeleteCascade(d) \/ HandleDeleteOrphan(d)

Undo ==
  \/ StartUndo \/ FinishUndo
  \/ \E d \in operation.restore : UndoRestoresDraft(d)
  \/ \E r \in operation.relink : UndoRelinksDraft(r)

Redo == StartRedo \/ FinishRedo

Next ==
  \/ Create
  \/ \E d \in Drafts(db) : HandleDraftToggleLock(d)
  \/ Delete
  \/ EditProse
  \/ Undo \/ Redo \/ OperationFails
  \/ LeaveDocument \/ Crash

Spec == Init /\ [][Next]_vars

-----------------------------------------------------------------------------
(* Properties.                                                             *)

DraftType == [tab : TabIds, parent : {None} \union DraftIds,
              branchedFrom : {None} \union DraftIds,
              live : BOOLEAN, locked : BOOLEAN]

DatabaseType == [tabs : Seq(BOOLEAN), drafts : Seq(DraftType),
                 told : [tabs : Seq(BOOLEAN), drafts : Seq(BOOLEAN)]]

ShapeType == [tabs : Seq(BOOLEAN),
              drafts : Seq([live : BOOLEAN, parent : {None} \union DraftIds,
                            branchedFrom : {None} \union DraftIds])]

EntryType ==
  [kind : {"none", "tab", "leaf", "cascade", "orphan"},
   target : {None} \union DraftIds \union TabIds,
   doomed : SUBSET DraftIds, rewrites : SUBSET Rewrite, before : ShapeType]

\* The variables hold what the commands put there, within the bounds.
TypeOK ==
  /\ db \in DatabaseType
  /\ Len(db.tabs) \in TabIds /\ Len(db.drafts) \in DraftIds
  /\ done \in Seq(EntryType) /\ undone \in Seq(EntryType)
  /\ operation \in [kind : {"none", "undo", "redo"}, entry : EntryType,
                    restore : SUBSET DraftIds, relink : SUBSET Rewrite,
                    attached : BOOLEAN, redoable : BOOLEAN]
  /\ toggled \subseteq DraftIds

\* A live draft hangs off an older live draft of its tab by one link, or is the
\* root of its tab; every tab keeps its one root and the document a live tab.
\* This holds between the calls of an undo too, and after one that failed.
TreeHangs ==
  /\ LiveTabs(db) # {}
  /\ \A t \in Tabs(db) :
       \E d \in LiveIn(db, t) : \A x \in LiveIn(db, t) : IsRoot(db, x) <=> x = d
  /\ \A d \in Live(db) :
       LET a == Anchor(db, d)
       IN  /\ None \in {db.drafts[d].parent, db.drafts[d].branchedFrom}
           /\ a # None => a \in LiveIn(db, db.drafts[d].tab) /\ a < d

\* In a run that is a chain and whose locks nobody has set by hand, exactly the
\* newest draft can be edited, whatever was deleted, spliced and brought back.
LocksDerived ==
  \A h \in Drafts(db) :
    LET run == {d \in Live(db) : RunHead(db, d) = h}
    IN  (/\ run \intersect toggled = {}
         /\ \A d \in run : Cardinality(Iterations(db, d)) <= 1)
        => \A d \in run : db.drafts[d].locked <=> d # Max(run)

\* The audit log tells the truth: replaying it, which is all the version history
\* has to rebuild a past structure from, gives the live tabs and drafts.
LogTells ==
  db.told = [tabs |-> db.tabs, drafts |-> [d \in Drafts(db) |-> db.drafts[d].live]]

\* Where two shapes both speak, the later one says what the earlier one says.
Extends(later, earlier) ==
  /\ \A t \in DOMAIN earlier.tabs : later.tabs[t] = earlier.tabs[t]
  /\ \A d \in DOMAIN earlier.drafts : later.drafts[d] = earlier.drafts[d]

\* "A run is linear by construction" (relock_run): no live draft has two live
\* iterations.
RunsAreLinear ==
  Idle => \A d \in Live(db) : Cardinality(Iterations(db, d)) <= 1
=============================================================================
