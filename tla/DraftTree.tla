------------------------------ MODULE DraftTree ------------------------------
(***************************************************************************)
(* The structure of one document: its tabs, and in every tab a tree of     *)
(* drafts.  The commands of db/tabs.rs are operators from a database state *)
(* to the state their transaction commits; a guard that makes a command    *)
(* return an error is a predicate of its own.                              *)
(*                                                                         *)
(* A state s is a record                                                   *)
(*   tabs    is tab t live (deleted_at IS NULL)?                           *)
(*   drafts  for every draft its tab, the draft it iterates (parent) or    *)
(*           branches off (branchedFrom), and whether it is live and locked*)
(*   told    the liveness that replaying the document's audit log gives    *)
(*           (reconstruct_structure is a left fold over doc_events, so the *)
(*           replay of the log so far is all a state has to keep of it).   *)
(* Rows are numbered in the order of their creation, and a soft-deleted    *)
(* row keeps its number: created_at orders drafts as their numbers do.     *)
(* Labels, the order of the tabs and the active pointers are left out.     *)
(***************************************************************************)
EXTENDS Integers, Sequences, FiniteSetsExt

None == 0

Tabs(s) == DOMAIN s.tabs
Drafts(s) == DOMAIN s.drafts

LiveTabs(s) == {t \in Tabs(s) : s.tabs[t]}
Live(s) == {d \in Drafts(s) : s.drafts[d].live}
LiveIn(s, t) == {d \in Live(s) : s.drafts[d].tab = t}

\* The draft that d hangs off; a storyline root hangs off nothing.
Anchor(s, d) == IF s.drafts[d].parent # None THEN s.drafts[d].parent
                                             ELSE s.drafts[d].branchedFrom
IsRoot(s, d) == Anchor(s, d) = None

Iterations(s, d) == {c \in Live(s) : s.drafts[c].parent = d}
Children(s, d) ==
  {c \in Live(s) : d \in {s.drafts[c].parent, s.drafts[c].branchedFrom}}

\* d and every live draft under it: the least set with d that is closed under
\* children.
Subtree(s, d) ==
  {x \in Drafts(s) :
     \A C \in SUBSET Drafts(s) :
        (d \in C /\ \A y \in C : Children(s, y) \subseteq C) => x \in C}

-----------------------------------------------------------------------------
(* Locks.  A run is a chain of iterations; the newest live draft of it is  *)
(* its editable tip.                                                       *)

\* The walk goes up through soft-deleted drafts as well.
RunHead(s, d) ==
  LET head[x \in Drafts(s)] ==
        IF s.drafts[x].parent = None THEN x ELSE head[s.drafts[x].parent]
  IN  head[d]

\* The walk down follows the oldest live iteration.
Chain(s, d) ==
  LET below[x \in Drafts(s)] ==
        ({x} \intersect Live(s)) \union
        (IF Iterations(s, x) = {} THEN {} ELSE below[Min(Iterations(s, x))])
  IN  below[RunHead(s, d)]

RunTip(s, d) == IF Chain(s, d) = {} THEN RunHead(s, d) ELSE Max(Chain(s, d))

\* relock_run for every draft of seeds; chains are equal or disjoint, so their
\* order does not matter.
Relock(s, seeds) ==
  LET runs == {Chain(s, d) : d \in seeds}
  IN  [s EXCEPT !.drafts =
        [d \in Drafts(s) |->
           [s.drafts[d] EXCEPT !.locked =
              IF d \in UNION runs THEN \E r \in runs : d \in r /\ d # Max(r)
                                  ELSE @]]]

RelockParent(s, d) ==
  IF s.drafts[d].parent = None THEN s ELSE Relock(s, {s.drafts[d].parent})

-----------------------------------------------------------------------------
(* Changes shared by the commands, each with its entry in the audit log.   *)

LogDrafts(s, ids, live) ==
  [s EXCEPT !.told.drafts =
     [d \in DOMAIN @ |-> IF d \in ids THEN live ELSE @[d]]]

SetLive(s, ids, live) ==
  LET marked == [s EXCEPT !.drafts =
        [d \in Drafts(s) |->
           [s.drafts[d] EXCEPT !.live = IF d \in ids THEN live ELSE @]]]
  IN  LogDrafts(marked, ids, live)

SetTab(s, t, live) ==
  [s EXCEPT !.tabs[t] = live, !.told.tabs[t] = live]

InsertDraft(s, tab, parent, branchedFrom) ==
  [s EXCEPT
     !.drafts = Append(@, [tab |-> tab, parent |-> parent,
                           branchedFrom |-> branchedFrom,
                           live |-> TRUE, locked |-> FALSE]),
     !.told.drafts = Append(@, TRUE)]

-----------------------------------------------------------------------------
(* Commands.                                                               *)

\* Mutant: the root draft goes to the tab before.
CreateTabOffByOne(s) ==
  InsertDraft([s EXCEPT !.tabs = Append(@, TRUE), !.told.tabs = Append(@, TRUE)],
              Len(s.tabs), None, None)

CreateTab(s) ==
  InsertDraft([s EXCEPT !.tabs = Append(@, TRUE), !.told.tabs = Append(@, TRUE)],
              Len(s.tabs) + 1, None, None)

CanDeleteTab(s) == Cardinality(LiveTabs(s)) > 1
DeleteTab(s, t) == SetTab(s, t, FALSE)
\* Mutant: a tab is restored without an entry in the log.
RestoreTabUnlogged(s, t) == [s EXCEPT !.tabs[t] = TRUE]

RestoreTab(s, t) == SetTab(s, t, TRUE)

IterateDraft(s, d) ==
  Relock(InsertDraft(s, s.drafts[d].tab, d, None), {Len(s.drafts) + 1})

BranchDraft(s, d) == InsertDraft(s, s.drafts[d].tab, None, d)

SetDraftLocked(s, d, locked) == [s EXCEPT !.drafts[d].locked = locked]

\* guard_not_storyline_root and guard_tab_not_emptied.
CanDelete(s, d, doomed) ==
  /\ ~IsRoot(s, d)
  /\ Cardinality(LiveIn(s, s.drafts[d].tab)) > Cardinality(doomed)

\* The unguarded delete of the structural restore is the same transaction.
DeleteDraft(s, d) == RelockParent(SetLive(s, {d}, FALSE), d)

CascadeDelete(s, d) == RelockParent(SetLive(s, Subtree(s, d), FALSE), d)

\* The links a child of d gets when d is spliced out of the tree: a branch goes
\* to what d hangs off, an iteration takes d's own place.
Spliced(s, d, c) ==
  IF s.drafts[c].branchedFrom = d
  THEN [s.drafts[c] EXCEPT !.parent = None, !.branchedFrom = Anchor(s, d)]
  ELSE [s.drafts[c] EXCEPT
          !.parent = s.drafts[d].parent,
          !.branchedFrom = IF s.drafts[d].parent = None
                           THEN s.drafts[d].branchedFrom ELSE None]

OrphanAndDelete(s, d) ==
  LET kids == Children(s, d)
      spliced == [s EXCEPT !.drafts =
                    [c \in Drafts(s) |-> IF c \in kids THEN Spliced(s, d, c)
                                                       ELSE s.drafts[c]]]
  IN  Relock(SetLive(spliced, {d}, FALSE),
             kids \union ({s.drafts[d].parent} \ {None}))

\* Mutant: only the iterations are returned.
RewritesOfIterations(s, d) ==
  {[draft |-> c, parent |-> s.drafts[c].parent,
    branchedFrom |-> s.drafts[c].branchedFrom] : c \in Iterations(s, d)}

\* What orphan_and_delete_draft returns: the links its children had.
Rewrites(s, d) ==
  {[draft |-> c, parent |-> s.drafts[c].parent,
    branchedFrom |-> s.drafts[c].branchedFrom] : c \in Children(s, d)}

ReparentDraft(s, r) ==
  Relock([s EXCEPT !.drafts[r.draft].parent = r.parent,
                   !.drafts[r.draft].branchedFrom = r.branchedFrom],
         {r.draft})

\* Mutant: the run of a restored draft is not locked anew.
RestoreDraftUnlocked(s, d) == SetLive(s, {d}, TRUE)

RestoreDraft(s, d) == Relock(SetLive(s, {d}, TRUE), {d})

\* A new document: one tab with its root draft.
NewDocument ==
  CreateTab([tabs |-> <<>>, drafts |-> <<>>,
             told |-> [tabs |-> <<>>, drafts |-> <<>>]])

-----------------------------------------------------------------------------
(* The draft panel shows the drafts of a live tab; where a run has forked  *)
(* it shows only the newest iteration.                                     *)

Shown(s) ==
  LET shown[d \in Live(s)] ==
        /\ s.tabs[s.drafts[d].tab]
        /\ \/ Anchor(s, d) \notin Live(s)
           \/ /\ shown[Anchor(s, d)]
              /\ \/ s.drafts[d].parent = None
                 \/ d = Max(Iterations(s, s.drafts[d].parent))
  IN  {d \in Live(s) : shown[d]}

IsDeletable(s, d) ==
  /\ d \in Shown(s) /\ ~s.drafts[d].locked /\ ~IsRoot(s, d)
  /\ Cardinality(LiveIn(s, s.drafts[d].tab)) > 1
=============================================================================
