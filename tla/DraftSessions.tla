---------------------------- MODULE DraftSessions ----------------------------
(***************************************************************************)
(* DraftHistory with a memory of what went wrong: two variables that the   *)
(* program does not have and that no step depends on.                      *)
(*                                                                         *)
(* An undo that fails midway leaves a tree that is neither what its        *)
(* deletion left nor what it found, and a redo of something undone earlier *)
(* may not fit it.  The code does not keep the user from asking for one,   *)
(* so what is promised of the tree is promised until then.                 *)
(***************************************************************************)
EXTENDS DraftHistory

VARIABLES
  failed,  \* has an undo of the document that is open failed midway?
  strayed  \* was a redo ever begun while failed?

sessionVars == <<vars, failed, strayed>>

SessionInit == Init /\ failed = FALSE /\ strayed = FALSE

\* For TLC: what is beyond is not promised, and not explored.
Promised == ~strayed

UndoFails == operation.kind = "undo" /\ OperationFails
RedoRefused == operation.kind = "redo" /\ OperationFails

OtherStep ==
  \/ Create \/ Delete \/ EditProse \/ Undo \/ FinishRedo \/ RedoRefused
  \/ \E d \in Drafts(db) : HandleDraftToggleLock(d)

SessionNext ==
  \/ /\ UndoFails
     /\ failed' = (failed \/ operation.attached) /\ UNCHANGED strayed
  \/ /\ StartRedo
     /\ strayed' = (strayed \/ failed) /\ UNCHANGED failed
  \/ /\ LeaveDocument \/ Crash
     /\ failed' = FALSE /\ UNCHANGED strayed
  \/ OtherStep /\ UNCHANGED <<failed, strayed>>

SessionSpec == SessionInit /\ [][SessionNext]_sessionVars

-----------------------------------------------------------------------------
(* Properties.                                                             *)

\* The variables hold what the commands put there, within the bounds.
SessionTypeOK == TypeOK /\ failed \in BOOLEAN /\ strayed \in BOOLEAN

\* Until a redo is begun in a session in which a call of an undo had failed, every
\* live draft can be reached: each hangs off an older live one of its tab, and
\* every tab keeps its one root.
TreeHolds == ~strayed => TreeHangs

\* Until then, in a run that is a chain and whose locks nobody has set by hand,
\* exactly the newest draft can be edited, whatever was deleted and brought back.
LocksHold == ~strayed => LocksDerived

\* Until then, a finished undo gives every tab and draft that the deletion found
\* its place and its links back, though other drafts were created, deleted and
\* restored since, and though earlier tries of the same undo failed midway.
UndoIsExact ==
  [][FinishUndo /\ ~strayed => Extends(Shape(db'), operation.entry.before)]_sessionVars

\* Until then, a redo deletes the drafts that its undo brought back and no other:
\* nothing created meanwhile is swept away with them.
RedoRemovesExactly ==
  [][FinishRedo /\ ~strayed => Live(db) \ Live(db') = operation.entry.doomed]_sessionVars
=============================================================================
