----------------------------- MODULE DraftRewind -----------------------------
(***************************************************************************)
(* The structural half of a restore from the version history               *)
(* (restore_structure_to_inner, restore_coordinate_nondestructive): the    *)
(* document's tabs and drafts are taken back to what they were at an entry *)
(* of the audit log, by forward commands that are logged in their turn.    *)
(*                                                                         *)
(* Every entry of the log is a coordinate the user can pick, the ones an   *)
(* earlier rewind wrote included.  A coordinate replays the log up to its  *)
(* entry, but tells by the millisecond which rows there were: a row of the *)
(* entry's own millisecond counts, though it was made after the entry.     *)
(***************************************************************************)
EXTENDS DraftHistory

CONSTANT MaxCoordinates   \* different coordinates the log may hold

VARIABLES
  settled,   \* coordinates of the milliseconds that are over
  present    \* replays after the entries of the present millisecond

rewindVars == <<vars, settled, present>>

-----------------------------------------------------------------------------
(* Coordinates.  tabRows and draftRows tell how many rows have a           *)
(* created_at up to the coordinate's; rows are numbered as they were made. *)

Coordinates(replays, s) ==
  {[tabs |-> k.tabs, drafts |-> k.drafts,
    tabRows |-> Len(s.tabs), draftRows |-> Len(s.drafts)] : k \in replays}

coordinates == settled \union Coordinates(present, db)

\* What the entries of the log up to k's say is live.
LiveTabsTold(k) == {t \in DOMAIN k.tabs : k.tabs[t]}
LiveDraftsTold(k) == {d \in DOMAIN k.drafts : k.drafts[d]}

\* The rows of k's millisecond that are younger than k.
LateTabs(k) == 1..k.tabRows \ DOMAIN k.tabs
LateDrafts(k) == 1..k.draftRows \ DOMAIN k.drafts

\* should_be_live: a row of the time, unless the replay has it deleted.
TabsAt(k) == LiveTabsTold(k) \union LateTabs(k)
DraftsAt(k) == LiveDraftsTold(k) \union LateDrafts(k)

-----------------------------------------------------------------------------
(* restore_structure_to_inner: a fold over the rows, in the order of their *)
(* ids.  A result holds the database so far, the replays after the entries *)
(* logged so far, the drafts deleted so far and whether no guard refused.  *)

InOrder(ids) == SetToSortSeq(ids, <)

Then(r, s, gone) ==
  [r EXCEPT !.db = s, !.trail = @ \union {s.told}, !.gone = @ \union gone]

\* 1. Everything that was live comes back, before anything is deleted.
RestoreLive(s, k) ==
  LET tabs == FoldLeft(LAMBDA r, t : Then(r, RestoreTab(r.db, t), {}),
                       [db |-> s, trail |-> {}, gone |-> {}, ok |-> TRUE],
                       InOrder(TabsAt(k) \ LiveTabs(s)))
  IN  FoldLeft(LAMBDA r, d : Then(r, RestoreDraft(r.db, d), {}),
               tabs, InOrder(DraftsAt(k) \ Live(s)))

\* 2. The tabs that were not live go, each after those of its drafts that were
\*    not live either; the last draft of such a tab is not spared.
DeleteTabAndDrafts(r, t, k) ==
  LET drafts == FoldLeft(LAMBDA q, d : Then(q, DeleteDraft(q.db, d), {d}),
                         r, InOrder(LiveIn(r.db, t) \ DraftsAt(k)))
  IN  IF CanDeleteTab(drafts.db) THEN Then(drafts, DeleteTab(drafts.db, t), {})
                                 ELSE [drafts EXCEPT !.ok = FALSE]

DeleteTabs(restored, s, k) ==
  FoldLeft(LAMBDA r, t : DeleteTabAndDrafts(r, t, k),
           restored, InOrder(LiveTabs(s) \ TabsAt(k)))

\* 3. The other drafts that were not live go with all that is under them.
DeleteDraftAndSubtree(r, d) ==
  LET doomed == Subtree(r.db, d)
  IN  IF d \in r.gone THEN r
      ELSE IF CanDelete(r.db, d, doomed)
           THEN Then(r, CascadeDelete(r.db, d), doomed)
           ELSE [r EXCEPT !.ok = FALSE]

\* Mutant: without step 3.
RestoreStructureOfTabs(s, k) == DeleteTabs(RestoreLive(s, k), s, k)

RestoreStructureTo(s, k) ==
  FoldLeft(DeleteDraftAndSubtree, DeleteTabs(RestoreLive(s, k), s, k),
           InOrder(Live(s) \ DraftsAt(k)))

-----------------------------------------------------------------------------
RewindInit == Init /\ settled = {} /\ present = {db.told}

Room == Cardinality(coordinates') <= MaxCoordinates

\* Entries that still fall in the millisecond of those before them.
InThisMs(replays) == present' = present \union replays /\ UNCHANGED settled

\* A millisecond ends after the entries early, when the rows of s are there.
NextMs(early, s, replays) ==
  /\ settled' = settled \union Coordinates(present \union early, s)
  /\ present' = replays

\* A row and its entry read the clock one after the other, so the millisecond may
\* end between them (s = db').
LogNow(replays) ==
  \/ InThisMs(replays)
  \/ replays # {} /\ \E s \in {db, db'} : NextMs({}, s, replays)

\* A command of the editor; one that changes the database logs one entry.
Edit ==
  /\ Next
  /\ IF db' = db THEN UNCHANGED <<settled, present>> ELSE LogNow({db'.told})
  /\ Room

\* The version history is a page of its own: the editor is unmounted and its
\* history of deletions gone.  A refused restore changes nothing.  What a restore
\* logs has one time: entries of several are as exact as separate commands'.
RestoreCoordinate(r) ==
  /\ Idle /\ r.ok
  /\ done' = <<>> /\ undone' = <<>> /\ UNCHANGED <<operation, toggled>>

\* The coordinate is an entry of the log; r is RestoreStructureTo of it.
RestoreStructure(r) ==
  /\ RestoreCoordinate(r)
  /\ db' = r.db
  /\ LogNow(r.trail)
  /\ Room

\* The coordinate is a snapshot of draft d: its content becomes a new tip of d's
\* run, in the same transaction.  A snapshot's coordinate has none of the entries
\* of its millisecond and all of the rows: it is that of the last entry before.
RestoreSnapshot(r, d) ==
  /\ RestoreCoordinate(r) /\ Len(db.drafts) < MaxDrafts
  /\ LET restored == IterateDraft(r.db, RunTip(r.db, d))
     IN  /\ db' = restored
         /\ \/ LogNow(r.trail \union {restored.told})
            \/ \E s \in {db, db'} : NextMs(r.trail, s, {restored.told})
  /\ Room

Restore ==
  \E k \in coordinates :
    LET r == RestoreStructureTo(db, k)
    IN  RestoreStructure(r) \/ \E d \in DraftsAt(k) : RestoreSnapshot(r, d)

RewindNext == Edit \/ Restore

RewindSpec == RewindInit /\ [][RewindNext]_rewindVars

-----------------------------------------------------------------------------
(* Properties.                                                             *)

\* Every coordinate speaks of rows that exist, and of the first tab at least.
CoordinatesOK ==
  /\ \A k \in coordinates : /\ Len(k.tabs) \in 1..k.tabRows
                            /\ Len(k.drafts) \in 1..k.draftRows
                            /\ k.tabRows <= Len(db.tabs)
                            /\ k.draftRows <= Len(db.drafts)
  /\ db.told \in present

\* The audit log tells the tree, and every coordinate is one of it (CoordinatesOK, LogTells).
CoordinatesTell == CoordinatesOK /\ LogTells

\* A restore to k ends with the tabs that the log has live at k, and with no draft
\* that it has not; but both may be rows made later in k's millisecond, and one
\* draft is the tip that the restore plants.
RestoreAddsNothing ==
  [][\A k \in coordinates :
       LET r == RestoreStructureTo(db, k)
           tabs == LiveTabsTold(k) \union LateTabs(k)
           drafts == LiveDraftsTold(k) \union LateDrafts(k)
       IN  /\ RestoreStructure(r) => LiveTabs(db') = tabs /\ Live(db') \subseteq drafts
           /\ \A d \in DraftsAt(k) : RestoreSnapshot(r, d) =>
                /\ LiveTabs(db') = tabs
                /\ Live(db') \subseteq drafts \union {Len(db'.drafts)}]_rewindVars

\* "soft-deleting ones that hadn't been created yet": no tab or draft that was made
\* after k's entry, in whichever millisecond, outlives a restore to k.
RestoreIsExact ==
  [][\A k \in coordinates : RestoreStructure(RestoreStructureTo(db, k)) =>
       /\ LiveTabs(db') \subseteq LiveTabsTold(k)
       /\ Live(db') \subseteq LiveDraftsTold(k)]_rewindVars

\* "restoring nodes that were live at T": no draft of k is missing afterwards.
RestoreBringsBack ==
  [][\A k \in coordinates :
       RestoreStructure(RestoreStructureTo(db, k)) => DraftsAt(k) \subseteq Live(db')]_rewindVars

\* "every live tab must keep a live draft".
TabsKeepDrafts == \A t \in LiveTabs(db) : LiveIn(db, t) # {}

\* "a refusal here means a genuine invariant breach": while the tree is sound,
\* every coordinate can be restored.
RestoreIsPossible ==
  Idle /\ TreeHangs => \A k \in coordinates : RestoreStructureTo(db, k).ok
=============================================================================
