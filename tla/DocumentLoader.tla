--------------------------- MODULE DocumentLoader ---------------------------
(***************************************************************************)
(* The loads of an open editor (documentLoader.ts) and the selections and   *)
(* deletions that start them (tabDrafts.svelte.ts).  Every await is a step  *)
(* boundary: several operations are under way at once, and each goes on     *)
(* only if what it took from the stores still holds.  One document is open; *)
(* the text of a draft is left to Persistence, its tree to DraftTree.       *)
(***************************************************************************)
EXTENDS Integers, Sequences, SequencesExt, FiniteSets

CONSTANTS
    Tabs,       \* the tabs of the document, numbers in the order of the tab bar
    TabOf,      \* TabOf[d]: the tab of draft d; drafts are numbers, in list order
    MaxOps,     \* bound: operations started, the load of the opened editor included
    CallsFail,  \* whether a database call may fail
    MaxEdits,   \* bound: edits typed into the open editor
    CanDelete,  \* whether drafts and tabs are deleted
    None

Drafts == DOMAIN TabOf
Ops == 1..MaxOps
First(S) == CHOOSE x \in S : \A y \in S : x <= y

ASSUME LoaderConstants ==
    /\ Tabs \subseteq Nat \ {0} /\ Tabs # {} /\ IsFiniteSet(Tabs)
    /\ Drafts \subseteq Nat \ {0} /\ IsFiniteSet(Drafts)
    /\ TabOf \in [Drafts -> Tabs] /\ \A t \in Tabs : \E d \in Drafts : TabOf[d] = t
    /\ MaxOps \in Nat \ {0} /\ MaxEdits \in Nat /\ CallsFail \in BOOLEAN /\ CanDelete \in BOOLEAN
    /\ None \notin Tabs \cup Drafts

VARIABLES
    op,             \* op[i]: the i-th operation, see Started
    curTab,         \* currentTabId
    curDraft,       \* currentDraftId
    listed,         \* TabDraftController.tabDrafts
    screen,         \* #committedDocument and #committedTabId: the draft in the editor
    shown,          \* how many edits of that draft the editor's text holds
    generation,     \* DocumentLoader.#generation
    context,        \* TabDraftController.#contextGeneration
    draftQueue,     \* #activeDraftWrite: operations whose pointer write is queued
    tabQueue,       \* #activeTabWrite
    barredTab,      \* #deletionTarget.tabId
    barred,         \* #deletionTarget.draftIds, empty where it is null: the whole tab
    activeTab,      \* SQLite: active_tab of the document
    activeDraft,    \* SQLite: active_draft of each tab
    liveDrafts,     \* SQLite: drafts that are not deleted
    liveTabs,       \* SQLite: tabs that are not deleted
    logged          \* SQLite: how many edits each draft's log holds

stores == <<curTab, curDraft, listed, screen, shown>>
queues == <<draftQueue, tabQueue>>
bars == <<barredTab, barred>>
disk == <<activeTab, activeDraft, liveDrafts, liveTabs, logged>>
vars == <<op, stores, generation, context, queues, bars, disk>>

Kinds == {"open", "draft", "tab", "dropDraft", "dropTab"}
Steps == {"new", "pick", "hereTurn", "hereWrite", "tabTurn", "tabWrite", "list", "flush",
          "resolve", "read", "draftTurn", "draftWrite", "back", "backTurn", "backWrite",
          "point", "pointTurn", "pointWrite", "settle", "settleTurn", "settleWrite", "drop",
          "refresh", "done"}
\* settle: the tab and draft that settleSelection writes; failed: a call rejected.
NoOp == [kind |-> "open", step |-> "new", tab |-> None, draft |-> None, gen |-> 0, ctx |-> 0,
         prev |-> None, prevListed |-> {}, gone |-> None, seen |-> 0,
         settle |-> <<None, None>>, failed |-> FALSE]

TypeOK ==
    /\ op \in [Ops -> [kind : Kinds, step : Steps, tab : Tabs \cup {None},
                       draft : Drafts \cup {None}, gen : Nat, ctx : Nat,
                       prev : Tabs \cup {None}, prevListed : SUBSET Drafts,
                       gone : Tabs \cup Drafts \cup {None}, seen : 0..MaxEdits,
                       settle : (Tabs \cup {None}) \X (Drafts \cup {None}),
                       failed : BOOLEAN]]
    /\ curTab \in Tabs \cup {None} /\ curDraft \in Drafts \cup {None}
    /\ listed \subseteq Drafts /\ screen \in Drafts \cup {None}
    /\ shown \in 0..MaxEdits /\ logged \in [Drafts -> 0..MaxEdits]
    /\ generation \in Nat /\ context \in Nat
    /\ ToSet(draftQueue) \subseteq Ops /\ ToSet(tabQueue) \subseteq Ops
    /\ barredTab \in Tabs \cup {None} /\ barred \subseteq Drafts
    /\ activeTab \in Tabs /\ activeDraft \in [Tabs -> Drafts]
    /\ liveDrafts \subseteq Drafts /\ liveTabs \subseteq Tabs

Init ==
    /\ op = [i \in Ops |-> IF i = 1 THEN [NoOp EXCEPT !.step = "flush", !.gen = 1] ELSE NoOp]
    /\ curTab = None /\ curDraft = None /\ listed = {} /\ screen = None
    /\ shown = 0 /\ logged = [d \in Drafts |-> 0]
    /\ generation = 1 /\ context = 0
    /\ draftQueue = <<>> /\ tabQueue = <<>>
    /\ barredTab = None /\ barred = {}
    /\ activeTab \in Tabs
    /\ activeDraft = [t \in Tabs |-> First({d \in Drafts : TabOf[d] = t})]
    /\ liveDrafts = Drafts /\ liveTabs = Tabs

-----------------------------------------------------------------------------
At(i, s) == op[i].step = s
Goto(i, s) == op' = [op EXCEPT ![i].step = s] /\ UNCHANGED bars
Deletes(i) == op[i].kind \in {"dropDraft", "dropTab"}
Running(i) == op[i].step \notin {"new", "done"}

\* An operation ends; withDeletionTarget's finally lifts the bar of a deletion.
End(i, failed) ==
    /\ op' = [op EXCEPT ![i] = [NoOp EXCEPT !.kind = op[i].kind, !.tab = op[i].tab,
                                !.draft = op[i].draft, !.step = "done", !.failed = failed]]
    /\ IF Deletes(i) THEN barredTab' = None /\ barred' = {} ELSE UNCHANGED bars

CanSelectTab(t) == barredTab # t \/ barred # {}
CanSelect(t, d) == barredTab # t \/ (barred # {} /\ d \notin barred)
ContextCurrent(i) == op[i].ctx = context
DraftsIn(t) == {d \in liveDrafts : TabOf[d] = t}
InPlaceOf(t, d) == IF d \in DraftsIn(t) THEN d ELSE First(DraftsIn(t))

\* load's isCurrent, with the tab of a targeted load.
LoadCurrent(i) == op[i].gen = generation /\ (op[i].kind = "open" \/ curTab = op[i].tab)

\* switchToDraft or handleTabSelect returned: a deletion goes on, a selection is over.
\* A tab deletion gives up unless the list shown holds the editor's draft.
Returned(i, draftNow) ==
    CASE op[i].kind = "dropDraft" -> Goto(i, "settle")
      [] op[i].kind = "dropTab" /\ draftNow \in listed' -> Goto(i, "point")
      [] OTHER -> End(i, FALSE)

\* handleTabSelect's catch: unless overtaken, go back to the tab shown before.
LoadThrew(i, tabNow) ==
    LET to == IF tabNow = op[i].tab THEN op[i].prev ELSE tabNow
    IN IF op[i].kind \notin {"tab", "dropTab"} \/ ~ContextCurrent(i)
       THEN curTab' = tabNow /\ End(i, TRUE) /\ UNCHANGED <<listed, tabQueue>>
       ELSE /\ curTab' = to
            /\ UNCHANGED bars
            /\ IF to = op[i].prev
               THEN /\ listed' = op[i].prevListed
                    /\ op' = [op EXCEPT ![i].tab = to, ![i].step = "backTurn"]
                    /\ tabQueue' = Append(tabQueue, i)
               ELSE /\ op' = [op EXCEPT ![i].tab = to, ![i].step = "back"]
                    /\ UNCHANGED <<listed, tabQueue>>

\* load up to its flush: it takes a generation.
StartLoad(i, o, gen) ==
    /\ generation' = gen
    /\ op' = [op EXCEPT ![i] = [o EXCEPT !.step = "flush", !.gen = gen]]

NextOp(i) == At(i, "new") /\ \A j \in Ops : j < i => ~At(j, "new")
Idle == \A i \in Ops : ~Running(i)

-----------------------------------------------------------------------------
\* handleDraftSelect up to load's flush; a click on the current draft returns.
DraftSelect(i, d) ==
    /\ NextOp(i) /\ d \in listed
    /\ d # curDraft /\ CanSelect(curTab, d)
    /\ StartLoad(i, [NoOp EXCEPT !.kind = "draft", !.tab = curTab, !.draft = d], generation + 1)
    /\ UNCHANGED <<stores, context, queues, bars, disk>>

\* handleTabSelect up to its flush.
TabSelected(i, o, t, ctx) ==
    /\ context' = ctx
    /\ op' = [op EXCEPT ![i] = [o EXCEPT !.step = "pick", !.tab = t, !.prev = curTab,
                                         !.prevListed = listed, !.ctx = ctx]]

TabSelect(i, t) ==
    /\ NextOp(i) /\ listed # {} /\ t \in liveTabs /\ CanSelectTab(t)
    /\ TabSelected(i, [NoOp EXCEPT !.kind = "tab"], t, context + 1)
    /\ UNCHANGED <<stores, generation, queues, bars, disk>>

\* performDraftDelete up to its first await: the selections under way are cancelled, and
\* an editor on the draft is moved to a surviving one.
DropDraft(i, d) ==
    /\ CanDelete /\ NextOp(i) /\ (\A j \in Ops : Deletes(j) => ~Running(j))
    /\ d \in listed /\ (curDraft = d => listed # {d})
    /\ barredTab' = curTab /\ barred' = {d} /\ context' = context + 1
    /\ LET o == [NoOp EXCEPT !.kind = "dropDraft", !.tab = curTab, !.gone = d]
       IN IF curDraft = d
          THEN StartLoad(i, [o EXCEPT !.draft = First(listed \ {d})], generation + 2)
          ELSE op' = [op EXCEPT ![i] = [o EXCEPT !.step = "settle"]] /\ generation' = generation + 1
    /\ UNCHANGED <<stores, queues, disk>>

\* handleTabDelete up to its first await: an editor on the tab selects a neighbour.
DropTab(i, t) ==
    /\ CanDelete /\ NextOp(i) /\ (\A j \in Ops : Deletes(j) => ~Running(j))
    /\ listed # {} /\ t \in liveTabs /\ liveTabs # {t}
    /\ barredTab' = t /\ generation' = generation + 1
    /\ LET o == [NoOp EXCEPT !.kind = "dropTab", !.gone = t]
           after == {u \in liveTabs : u > t}
       IN IF curTab = t
          THEN TabSelected(i, o, IF after = {} THEN Max(liveTabs \ {t}) ELSE First(after),
                           context + 2)
          ELSE op' = [op EXCEPT ![i] = [o EXCEPT !.step = "point"]] /\ context' = context + 1
    /\ UNCHANGED <<stores, queues, barred, disk>>

-----------------------------------------------------------------------------
\* handleTabSelect after its flush: the tab's pointer write is queued, and the tab already
\* shown needs no more.
Pick(i) ==
    /\ At(i, "pick")
    /\ UNCHANGED stores
    /\ IF ContextCurrent(i)
       THEN /\ Goto(i, IF op[i].tab = curTab THEN "hereTurn" ELSE "tabTurn")
            /\ tabQueue' = Append(tabQueue, i)
       ELSE Returned(i, curDraft) /\ UNCHANGED tabQueue
    /\ UNCHANGED <<generation, context, draftQueue, disk>>

\* handleTabSelect after persistActiveTab.
AfterTabWrite(i) ==
    IF op[i].step \in {"backTurn", "backWrite"} THEN End(i, TRUE)
    ELSE IF op[i].step \in {"tabTurn", "tabWrite"} /\ ContextCurrent(i) THEN Goto(i, "list")
    ELSE Returned(i, curDraft)

\* persistActiveTab's turn in the queue: no write for a tab that is barred by now.
TabTurn(i) ==
    /\ op[i].step \in {"hereTurn", "tabTurn", "backTurn"} /\ Head(tabQueue) = i
    /\ UNCHANGED stores
    /\ IF CanSelectTab(op[i].tab)
       THEN /\ Goto(i, CASE At(i, "hereTurn") -> "hereWrite" [] At(i, "tabTurn") -> "tabWrite"
                         [] OTHER -> "backWrite")
            /\ UNCHANGED tabQueue
       ELSE AfterTabWrite(i) /\ tabQueue' = Tail(tabQueue)
    /\ UNCHANGED <<generation, context, draftQueue, disk>>

\* setActiveTab answers.
TabWritten(i) ==
    /\ op[i].step \in {"hereWrite", "tabWrite", "backWrite"}
    /\ tabQueue' = Tail(tabQueue) /\ activeTab' = op[i].tab
    /\ UNCHANGED stores /\ AfterTabWrite(i)
    /\ UNCHANGED <<generation, context, draftQueue, activeDraft, liveDrafts, liveTabs, logged>>

TabWriteFails(i) ==
    /\ CallsFail /\ op[i].step \in {"hereWrite", "tabWrite", "backWrite", "pointTurn", "pointWrite"}
    /\ Head(tabQueue) = i
    /\ tabQueue' = Tail(tabQueue) /\ End(i, TRUE)
    /\ UNCHANGED <<stores, generation, context, draftQueue, disk>>

\* Mutant: a lookup that was overtaken still shows its tab.
ListedStale(i) ==
    /\ At(i, "list")
    /\ LET o == op[i]
           d == InPlaceOf(o.tab, activeDraft[o.tab])
       IN /\ listed' = DraftsIn(o.tab) /\ curTab' = o.tab
          /\ StartLoad(i, [o EXCEPT !.draft = d], generation + 1) /\ UNCHANGED bars
    /\ UNCHANGED <<curDraft, screen, shown, context, queues, disk>>

\* listTabDrafts and getActiveDraft answer: the tab becomes current, its draft's load starts.
Listed(i) ==
    /\ At(i, "list")
    /\ LET o == op[i]
           d == InPlaceOf(o.tab, activeDraft[o.tab])
       IN IF ContextCurrent(i) /\ CanSelectTab(o.tab)
          THEN /\ listed' = DraftsIn(o.tab) /\ curTab' = o.tab
               /\ IF CanSelect(o.tab, d)
                  THEN StartLoad(i, [o EXCEPT !.draft = d], generation + 1) /\ UNCHANGED bars
                  ELSE Returned(i, curDraft) /\ UNCHANGED generation
          ELSE UNCHANGED <<listed, curTab, generation>> /\ Returned(i, curDraft)
    /\ UNCHANGED <<curDraft, screen, shown, context, queues, disk>>

\* The rollback's listTabDrafts answers.
Back(i) ==
    /\ At(i, "back")
    /\ IF ContextCurrent(i)
       THEN /\ listed' = DraftsIn(op[i].tab)
            /\ tabQueue' = Append(tabQueue, i)
            /\ Goto(i, "backTurn")
       ELSE End(i, TRUE) /\ UNCHANGED <<listed, tabQueue>>
    /\ UNCHANGED <<curTab, curDraft, screen, shown, generation, context, draftQueue, disk>>

-----------------------------------------------------------------------------
\* load after its flush, and the start of refreshTabState for the opened document.
Flushed(i) ==
    /\ At(i, "flush")
    /\ UNCHANGED stores
    /\ IF ~LoadCurrent(i) THEN Returned(i, curDraft) /\ UNCHANGED context
       ELSE IF op[i].kind # "open" THEN Goto(i, "read") /\ UNCHANGED context
       ELSE /\ context' = context + 1
            /\ Goto(i, "resolve")
    /\ UNCHANGED <<generation, queues, disk>>

\* load's catch: the stores go back to the committed draft if this load is the newest.
FlushFails(i) ==
    /\ CallsFail /\ At(i, "flush")
    /\ LET back == op[i].gen = generation /\ screen # None IN
       /\ curDraft' = IF back THEN screen ELSE curDraft
       /\ LoadThrew(i, IF back THEN TabOf[screen] ELSE curTab)
    /\ UNCHANGED <<screen, shown, generation, context, draftQueue, disk>>

\* refreshTabState: the persisted tab and draft, or the first ones.  Nothing can overtake
\* it, for no tab is shown before it ends.
Resolve(i) ==
    /\ At(i, "resolve")
    /\ curTab' = activeTab /\ listed' = DraftsIn(activeTab)
    /\ op' = [op EXCEPT ![i].step = "read", ![i].tab = activeTab,
                        ![i].draft = InPlaceOf(activeTab, activeDraft[activeTab])]
    /\ UNCHANGED <<curDraft, screen, shown, generation, context, queues, bars, disk>>

Commit(i, edits) == screen' = op[i].draft /\ curDraft' = op[i].draft /\ shown' = edits

\* loadDocumentState answers: the opened document commits, a target queues its pointer write.
Read(i) ==
    /\ At(i, "read")
    /\ UNCHANGED listed
    /\ IF ~LoadCurrent(i) THEN Returned(i, curDraft) /\ UNCHANGED <<screen, shown, curDraft, draftQueue>>
       ELSE IF op[i].kind = "open" THEN Commit(i, logged[op[i].draft]) /\ End(i, FALSE) /\ UNCHANGED draftQueue
       ELSE /\ draftQueue' = Append(draftQueue, i)
            /\ op' = [op EXCEPT ![i].step = "draftTurn", ![i].seen = logged[op[i].draft]]
            /\ UNCHANGED bars
            /\ UNCHANGED <<screen, shown, curDraft>>
    /\ UNCHANGED <<curTab, generation, context, tabQueue, disk>>

ReadFails(i) ==
    /\ CallsFail /\ At(i, "read")
    /\ LoadThrew(i, curTab)
    /\ UNCHANGED <<curDraft, screen, shown, generation, context, draftQueue, disk>>

\* A flush or a list outside load rejects, and the opened document's tabs cannot be read.
CallFails(i) ==
    /\ CallsFail /\ op[i].step \in {"pick", "list", "resolve", "back", "point", "settle", "drop"}
    /\ End(i, TRUE)
    /\ UNCHANGED <<stores, generation, context, queues, disk>>

\* The turn of a load's pointer write: given up if a deletion bars the draft by now.
DraftTurn(i) ==
    /\ At(i, "draftTurn") /\ Head(draftQueue) = i
    /\ UNCHANGED stores
    /\ IF CanSelect(op[i].tab, op[i].draft)
       THEN Goto(i, "draftWrite") /\ UNCHANGED draftQueue
       ELSE Returned(i, curDraft) /\ draftQueue' = Tail(draftQueue)
    /\ UNCHANGED <<generation, context, tabQueue, disk>>

\* Mutant: a newer load drops the commit of a pointer that is already written.
DraftWrittenOvertaken(i) ==
    /\ At(i, "draftWrite") /\ op[i].draft \in DraftsIn(op[i].tab)
    /\ draftQueue' = Tail(draftQueue)
    /\ activeDraft' = [activeDraft EXCEPT ![op[i].tab] = op[i].draft]
    /\ IF LoadCurrent(i) THEN Commit(i, op[i].seen) ELSE UNCHANGED <<screen, shown, curDraft>>
    /\ UNCHANGED listed
    /\ Returned(i, curDraft')
    /\ UNCHANGED <<curTab, generation, context, tabQueue, activeTab, liveDrafts, liveTabs, logged>>

\* setActiveDraft answers: commit unless the tab moved or the draft is barred by now.
DraftWritten(i) ==
    /\ At(i, "draftWrite") /\ op[i].draft \in DraftsIn(op[i].tab)
    /\ draftQueue' = Tail(draftQueue)
    /\ activeDraft' = [activeDraft EXCEPT ![op[i].tab] = op[i].draft]
    /\ IF curTab = op[i].tab /\ CanSelect(op[i].tab, op[i].draft)
       THEN Commit(i, op[i].seen) ELSE UNCHANGED <<screen, shown, curDraft>>
    /\ UNCHANGED listed
    /\ Returned(i, curDraft')
    /\ UNCHANGED <<curTab, generation, context, tabQueue, activeTab, liveDrafts, liveTabs, logged>>

\* Mutant: a rejected write is queued again.
DraftWriteFailsRetried(i) ==
    /\ At(i, "draftWrite") /\ (CallsFail \/ op[i].draft \notin DraftsIn(op[i].tab))
    /\ draftQueue' = Append(Tail(draftQueue), i)
    /\ Goto(i, "draftTurn")
    /\ UNCHANGED <<stores, generation, context, tabQueue, disk>>

\* setActiveDraft rejects: SQLite refuses a draft that is deleted or of another tab.
DraftWriteFails(i) ==
    /\ At(i, "draftWrite") /\ (CallsFail \/ op[i].draft \notin DraftsIn(op[i].tab))
    /\ draftQueue' = Tail(draftQueue)
    /\ LoadThrew(i, curTab)
    /\ UNCHANGED <<curDraft, screen, shown, generation, context, disk>>

-----------------------------------------------------------------------------
\* ensureEditorOffTab: once the writes queued before are done, the persisted tab is read...
Point(i) ==
    /\ At(i, "point")
    /\ Goto(i, "pointTurn") /\ tabQueue' = Append(tabQueue, i)
    /\ UNCHANGED <<stores, generation, context, draftQueue, disk>>

PointTurn(i) ==
    /\ At(i, "pointTurn") /\ Head(tabQueue) = i
    /\ UNCHANGED bars
    /\ IF activeTab = op[i].gone /\ curTab # op[i].gone
       THEN op' = [op EXCEPT ![i].step = "pointWrite", ![i].tab = curTab] /\ UNCHANGED tabQueue
       ELSE op' = [op EXCEPT ![i].step = "settle"] /\ tabQueue' = Tail(tabQueue)
    /\ UNCHANGED <<stores, generation, context, draftQueue, disk>>

\* ...and moved off the tab that goes.
PointWritten(i) ==
    /\ At(i, "pointWrite")
    /\ activeTab' = op[i].tab /\ tabQueue' = Tail(tabQueue)
    /\ Goto(i, "settle")
    /\ UNCHANGED <<stores, generation, context, draftQueue, activeDraft, liveDrafts, liveTabs, logged>>

\* settleSelection: the pointer writes under way end, and the draft shown is written last.
Settle(i) ==
    /\ At(i, "settle")
    /\ Goto(i, "settleTurn") /\ draftQueue' = Append(draftQueue, i)
    /\ UNCHANGED <<stores, generation, context, tabQueue, disk>>

\* Mutant: a deletion goes on when the move to the surviving draft was overtaken.
EditorIsOffPresumed(i) == TRUE
\* ensureEditorOffTab and ensureEditorOffDeleted: whether the deletion may go on.
EditorIsOff(i) ==
    IF op[i].kind = "dropTab" THEN curTab # op[i].gone
    ELSE IF op[i].draft = None THEN curDraft # op[i].gone
    ELSE curTab = op[i].tab /\ curDraft = op[i].draft

Settled(i) ==
    /\ draftQueue' = Tail(draftQueue)
    /\ IF EditorIsOff(i) THEN Goto(i, "drop") ELSE End(i, FALSE)

SettleTurn(i) ==
    /\ At(i, "settleTurn") /\ Head(draftQueue) = i
    /\ IF curDraft # None /\ CanSelect(curTab, curDraft)
       THEN /\ op' = [op EXCEPT ![i].step = "settleWrite", ![i].settle = <<curTab, curDraft>>]
            /\ UNCHANGED <<bars, draftQueue>>
       ELSE Settled(i)
    /\ UNCHANGED <<stores, generation, context, tabQueue, disk>>

\* SQLite refuses the write while a tab selection is under way: the deletion gives up.
SettleWritten(i) ==
    /\ At(i, "settleWrite")
    /\ LET t == op[i].settle[1]
           d == op[i].settle[2]
       IN IF d \in DraftsIn(t)
          THEN Settled(i) /\ activeDraft' = [activeDraft EXCEPT ![t] = d]
          ELSE End(i, FALSE) /\ draftQueue' = Tail(draftQueue) /\ UNCHANGED activeDraft
    /\ UNCHANGED <<stores, generation, context, tabQueue, activeTab, liveDrafts, liveTabs, logged>>

\* deleteDraft and deleteTab: SQLite refuses the last draft of a tab and the last tab.
Dropped(i) ==
    /\ At(i, "drop")
    /\ LET g == op[i].gone IN
       IF op[i].kind = "dropTab"
       THEN /\ liveTabs' = IF liveTabs = {g} THEN liveTabs ELSE liveTabs \ {g}
            /\ End(i, FALSE) /\ UNCHANGED liveDrafts
       ELSE IF DraftsIn(TabOf[g]) = {g} THEN End(i, FALSE) /\ UNCHANGED <<liveDrafts, liveTabs>>
       ELSE Goto(i, "refresh") /\ liveDrafts' = liveDrafts \ {g} /\ UNCHANGED liveTabs
    /\ UNCHANGED <<stores, generation, context, queues, activeTab, activeDraft, logged>>

\* refreshDraftsAndCurrentLock after a deletion.
Refresh(i) ==
    /\ At(i, "refresh")
    /\ listed' = IF curTab = op[i].tab THEN DraftsIn(curTab) ELSE listed
    /\ End(i, FALSE)
    /\ UNCHANGED <<curTab, curDraft, screen, shown, generation, context, queues, disk>>

\* An edit in the open editor, appended to the log of the draft the store names.
Edit ==
    /\ screen # None /\ shown < MaxEdits /\ logged[curDraft] < MaxEdits
    /\ shown' = shown + 1 /\ logged' = [logged EXCEPT ![curDraft] = @ + 1]
    /\ UNCHANGED <<op, curTab, curDraft, listed, screen, generation, context, queues, bars,
                   activeTab, activeDraft, liveDrafts, liveTabs>>

-----------------------------------------------------------------------------
Request(i) ==
    \/ \E d \in Drafts : DraftSelect(i, d) \/ DropDraft(i, d)
    \/ \E t \in Tabs : TabSelect(i, t) \/ DropTab(i, t)

Progress(i) ==
    \/ Pick(i) \/ TabTurn(i) \/ TabWritten(i) \/ Listed(i) \/ Back(i)
    \/ Flushed(i) \/ Resolve(i) \/ Read(i) \/ DraftTurn(i) \/ DraftWritten(i)
    \/ Point(i) \/ PointTurn(i) \/ PointWritten(i)
    \/ Settle(i) \/ SettleTurn(i) \/ SettleWritten(i) \/ Dropped(i) \/ Refresh(i)

Failure(i) ==
    TabWriteFails(i) \/ FlushFails(i) \/ ReadFails(i) \/ CallFails(i) \/ DraftWriteFails(i)

\* Nothing is under way, and the writer may leave it so.
Rest == Idle /\ UNCHANGED vars

Next == Rest \/ Edit \/ \E i \in Ops : Request(i) \/ Progress(i) \/ Failure(i)

Spec == Init /\ [][Next]_vars

\* A call is answered, and a continuation runs; nothing makes the writer click.
Fairness == \A i \in Ops : WF_vars(Progress(i) \/ Failure(i))
FairSpec == Spec /\ Fairness

-----------------------------------------------------------------------------
\* No call has failed, or no operation leaves the tab.  A failure that meets an overlapping
\* tab selection is left to RefusedSelectionRestores and EditorNeverOnDeleted.
Backing(i) == op[i].step \in {"back", "backTurn", "backWrite"}
Unfailing == \A i \in Ops : ~op[i].failed /\ ~Backing(i)
InOneTab == \A i \in Ops : op[i].kind \notin {"tab", "dropTab"}

\* At rest after such selections.  A deletion that cancels a selection under way is left to
\* CancelledSelectionRestores.
NoDeletions == \A i \in Ops : ~Deletes(i)
Settling == Idle /\ screen # None /\ NoDeletions /\ (Unfailing \/ InOneTab)

\* At rest the pointer of the tab on screen names the draft on screen, which a restart
\* opens, also if a newer load failed (the comment on the pointer write in load).
PointerMatchesScreen == Settling => activeDraft[TabOf[screen]] = screen

\* At rest the stores name the draft on screen and its tab, under which edits are filed
\* (load's and handleTabSelect's rollbacks), and the draft menu is that tab's.
MatchesScreen ==
    curDraft = screen /\ curTab = TabOf[screen] /\ \A d \in listed : TabOf[d] = curTab
StoresMatchScreen == Settling => MatchesScreen

\* At rest the persisted tab is the tab shown.
TabPointerMatches == Settling => activeTab = curTab

\* Screen, stores and pointers name one draft at rest (PointerMatchesScreen,
\* StoresMatchScreen, TabPointerMatches).
OneSelection == TypeOK /\ PointerMatchesScreen /\ StoresMatchScreen /\ TabPointerMatches

\* The editor shows no deleted draft, nor a draft of a deleted tab, whatever is selected and
\* deleted meanwhile (ensureEditorOffDeleted and ensureEditorOffTab), also when calls fail, if
\* no operation leaves the tab.
EditorIsLive == screen # None => screen \in liveDrafts /\ TabOf[screen] \in liveTabs
EditorOffDeleted == Unfailing \/ InOneTab => EditorIsLive

\* The last tab selected is on screen in the end, and the last draft selected, if its tab
\* is, however the selections overtake each other (the guards of load and handleTabSelect).
\* A draft clicked in the old tab while a tab selection is under way yields to it, and
\* either yields to a deletion of its target.
Newest(i, kinds) == op[i].kind \in kinds /\ At(i, "done")
                    /\ \A j \in Ops : j > i => At(j, "new") \/ op[j].kind \notin kinds
LatestWins ==
    Idle /\ screen # None /\ (\A i \in Ops : ~op[i].failed /\ ~Deletes(i)) => \A i \in Ops :
        /\ Newest(i, {"tab"}) => TabOf[screen] = op[i].tab
        /\ Newest(i, {"tab", "draft"}) /\ op[i].kind = "draft" /\ TabOf[screen] = op[i].tab
           => screen = op[i].draft

\* The editor shows every edit the log of its draft holds, so that the next edit is logged
\* against the text it was made in ("stale reads cannot commit").
TextMatchesLog == screen # None => shown = logged[screen]

\* A selection that SQLite or a failed flush refused leaves the tab and the list as the
\* screen shows them (tests/editor/tabDrafts.test.ts:132).
RefusedSelectionRestores == Idle /\ screen # None => MatchesScreen

\* Whatever fails ("so the editor never points at a hidden one", ensureEditorOffDeleted).
EditorNeverOnDeleted == EditorIsLive

\* A draft on screen stays the selected one while a deletion cancels the selections under
\* way ("the committed view remains valid while reserved target loads are cancelled").
CancelledSelectionRestores == Idle /\ screen # None => MatchesScreen

\* Every selection and deletion ends.
OperationsEnd == []<>Idle
=============================================================================
