------------------------ MODULE DocumentLoaderProofs ------------------------
(***************************************************************************)
(* Theorems about DocumentLoader, for any tabs, drafts and operations.     *)
(***************************************************************************)
EXTENDS DocumentLoader, FiniteSetTheorems, SequenceTheorems, WellFoundedInduction, TLAPS

-----------------------------------------------------------------------------
(* The inductive invariant. *)

Selecting == {"pick", "hereTurn", "hereWrite", "tabTurn", "tabWrite", "list"}
Fetching == {"flush", "read"}
Writing == {"draftTurn", "draftWrite"}
Loading == Fetching \cup Writing
Backs == {"back", "backTurn", "backWrite"}
Points == {"point", "pointTurn", "pointWrite"}
Settles == {"settle", "settleTurn", "settleWrite", "drop"}
InDraftQueue == Writing \cup {"settleTurn", "settleWrite"}
DraftWrites == {"draftWrite", "settleWrite"}
TabWrites == {"hereWrite", "tabWrite", "backWrite", "pointWrite"}
Heres == {"hereTurn", "hereWrite"}
InTabQueue == {"hereTurn", "hereWrite", "tabTurn", "tabWrite", "backTurn", "backWrite",
               "pointTurn", "pointWrite"}

\* The steps an operation of each kind takes.
StepsOf(kind) ==
  CASE kind = "open" -> {"flush", "resolve", "read"}
    [] kind = "draft" -> Loading
    [] kind = "tab" -> Selecting \cup Loading \cup Backs
    [] kind = "dropDraft" -> Loading \cup Settles \cup {"refresh"}
    [] kind = "dropTab" -> Selecting \cup Loading \cup Backs \cup Points \cup Settles
    [] OTHER -> {}

OpRec == [kind : Kinds, step : Steps, tab : Tabs \cup {None}, draft : Drafts \cup {None},
          gen : Nat, ctx : Nat, prev : Tabs \cup {None}, prevListed : SUBSET Drafts,
          gone : Tabs \cup Drafts \cup {None}, seen : 0..MaxEdits,
          settle : (Tabs \cup {None}) \X (Drafts \cup {None}), failed : BOOLEAN]
Typed ==
  /\ op \in [Ops -> OpRec]
  /\ curTab \in Tabs \cup {None} /\ curDraft \in Drafts \cup {None}
  /\ listed \subseteq Drafts /\ screen \in Drafts \cup {None}
  /\ shown \in 0..MaxEdits /\ logged \in [Drafts -> 0..MaxEdits]
  /\ generation \in Nat /\ context \in Nat
  /\ barredTab \in Tabs \cup {None} /\ barred \subseteq Drafts
  /\ activeTab \in Tabs /\ activeDraft \in [Tabs -> Drafts]
  /\ liveDrafts \subseteq Drafts /\ liveTabs \subseteq Tabs

\* What an operation of each kind has taken from the stores.
OpOK(i) ==
  /\ At(i, "new") => op[i] = NoOp
  /\ Running(i) => op[i].step \in StepsOf(op[i].kind) /\ op[i].failed = FALSE
  /\ i # 1 => (op[i].kind = "open" <=> At(i, "new"))
  /\ op[i].kind # "open" => op[i].tab \in Tabs \cup {None}
  /\ op[i].kind # "open" /\ op[i].step \in Selecting \cup Loading \cup Backs => op[i].tab \in Tabs
  /\ op[i].kind \in {"tab", "dropTab"} /\ op[i].step \in Selecting \cup Loading =>
       op[i].prev \in Tabs
  /\ Running(i) /\ op[i].kind = "dropDraft" => op[i].tab \in Tabs /\ op[i].gone \in Drafts
  /\ Running(i) /\ op[i].kind = "dropTab" => op[i].gone \in Tabs
  /\ At(i, "pointWrite") => op[i].tab \in Tabs
  /\ op[i].kind # "open" /\ op[i].step \in Loading => op[i].draft \in Drafts
  /\ At(i, "settleWrite") => op[i].settle[1] \in Tabs /\ op[i].settle[2] \in Drafts
  /\ op[i].gen <= generation /\ op[i].ctx <= context

\* Operations in a queue of pointer writes, each once; the head may be writing.
In(q, i) == \E a \in 1..Len(q) : q[a] = i
Distinct(q) == \A a, b \in 1..Len(q) : q[a] = q[b] => a = b
QueueOK(o, q, S, W) ==
  /\ q \in Seq(Ops) /\ Distinct(q)
  /\ \A i \in Ops : o[i].step \in S <=> In(q, i)
  /\ \A i \in Ops : o[i].step \in W => Head(q) = i
QueuesOK ==
  /\ QueueOK(op, draftQueue, InDraftQueue, DraftWrites)
  /\ QueueOK(op, tabQueue, InTabQueue, TabWrites)

\* The opened document: nothing else begins before its tabs are shown, and it commits only
\* if nothing has loaded or been deleted meanwhile.
OpenOK ==
  /\ op[1].kind = "open" /\ op[1].step \in {"flush", "resolve", "read", "done"}
  /\ op[1].step \in {"flush", "resolve"} =>
       /\ \A i \in Ops : i # 1 => At(i, "new")
       /\ curTab = None /\ listed = {} /\ screen = None
  /\ listed # {} \/ (\E i \in Ops : op[i].kind # "open") => curTab \in Tabs
  /\ screen # None => curTab \in Tabs
  /\ At(1, "read") /\ op[1].gen = generation =>
       /\ screen = None /\ liveDrafts = Drafts /\ liveTabs = Tabs
       /\ op[1].tab \in Tabs /\ op[1].tab = curTab
       /\ op[1].draft \in Drafts /\ op[1].draft = activeDraft[op[1].tab]
       /\ NoDeletions /\ \A i \in Ops : i # 1 => op[i].step \in Selecting \cup {"new", "done"}

\* A document keeps a draft in each tab, and pointers name drafts of their tab.
DiskOK ==
  /\ \A t \in Tabs : DraftsIn(t) # {} /\ TabOf[activeDraft[t]] = t
  /\ NoDeletions => liveDrafts = Drafts /\ liveTabs = Tabs

\* One deletion at a time, which bars what it deletes.
BarsOK ==
  /\ \A i, j \in Ops : Deletes(i) /\ Running(i) /\ Deletes(j) /\ Running(j) => i = j
  /\ (\A i \in Ops : Deletes(i) => ~Running(i)) => barredTab = None /\ barred = {}
  /\ \A i \in Ops : Running(i) /\ op[i].kind = "dropDraft" =>
       barredTab = op[i].tab /\ barred = {op[i].gone} /\ op[i].draft # op[i].gone
  /\ \A i \in Ops : Running(i) /\ op[i].kind = "dropTab" =>
       barredTab = op[i].gone /\ barred = {}

\* Operations begin in order; generations tell loads apart, and the newest tab selection is
\* the only one of its context.
GensOK ==
  /\ \A i, j \in Ops : i < j /\ At(i, "new") => At(j, "new")
  /\ \A i, j \in Ops : op[i].step \in Loading /\ op[j].step \in Loading /\ op[i].gen = op[j].gen
       => i = j
  /\ \A i, j \in Ops : op[i].kind = "tab" /\ op[j].kind = "tab" /\ i < j => op[i].ctx < context

\* A tab that is still to be shown is live and not about to be deleted.
TabsOK ==
  \A i \in Ops : op[i].step \in Selecting /\ ContextCurrent(i) =>
    /\ op[i].tab \in liveTabs
    /\ \A k \in Ops : Running(k) /\ op[k].kind = "dropTab" => op[k].gone # op[i].tab

Shape ==
  /\ Typed /\ curDraft = screen /\ generation >= 1
  /\ \A i \in Ops : OpOK(i)
  /\ QueuesOK /\ OpenOK /\ DiskOK /\ BarsOK /\ GensOK /\ TabsOK

\* The draft menu is that of the tab shown, which is live, as is the editor's draft; a
\* deletion that goes on has the editor off its target.
Aligned == \A d \in listed : TabOf[d] = curTab
TabIsLive == curTab # None => curTab \in liveTabs
OffDraft(i) ==
  Running(i) /\ op[i].kind = "dropDraft" =>
    /\ TabOf[op[i].gone] = op[i].tab
    /\ At(i, "drop") => screen # op[i].gone
OffTab(i) ==
  Running(i) /\ op[i].kind = "dropTab" =>
    /\ At(i, "settleWrite") =>
         /\ op[i].settle[1] # op[i].gone
         /\ TabOf[op[i].settle[2]] = op[i].settle[1] => TabOf[screen] # op[i].gone
         /\ screen # None
    /\ At(i, "drop") => curTab # op[i].gone /\ (screen # None => TabOf[screen] # op[i].gone)
OffDeleted ==
  /\ Aligned /\ TabIsLive /\ EditorIsLive
  /\ \A i \in Ops : OffDraft(i) /\ OffTab(i)
  /\ InOneTab => (screen # None => TabOf[screen] = curTab)
               /\ \A i \in Ops : Running(i) /\ op[i].kind # "open" => op[i].tab = curTab

\* A load that will show a draft of the tab that is shown.
Pends(i) ==
  /\ op[i].tab = curTab /\ op[i].kind # "open"
  /\ (op[i].step \in Fetching /\ op[i].gen = generation) \/ op[i].step \in Writing
Matched == curTab = TabOf[screen] /\ activeDraft[curTab] = screen
ScreenOK == screen # None => (~InOneTab /\ \E i \in Ops : Pends(i)) \/ Matched

\* The last tab selected, until it is shown.
Chooses(i) == op[i].kind = "tab" /\ op[i].step \in Selecting /\ ContextCurrent(i)
ChoiceOK ==
  /\ curTab # None => activeTab = curTab \/ \E i \in Ops : Chooses(i)
  /\ tabQueue # <<>> => \E i \in Ops : Chooses(i) /\ ~At(i, "list")
  /\ \A i \in Ops : Chooses(i) =>
       /\ At(i, "list") => activeTab = op[i].tab /\ tabQueue = <<>>
       /\ op[i].step \in Heres => op[i].tab = curTab
       /\ op[i].step \in {"tabTurn", "tabWrite", "list"} => op[i].tab # curTab
       /\ op[i].step \in {"tabTurn", "tabWrite"} \cup Heres => tabQueue[Len(tabQueue)] = i

LastOf(i, kinds) == op[i].kind \in kinds /\ \A j \in Ops : j > i => op[j].kind \notin kinds
LatestTab == \A i \in Ops : LastOf(i, {"tab"}) => Chooses(i) \/ curTab = op[i].tab
LatestDraft ==
  \A i \in Ops : op[i].kind = "draft" /\ LastOf(i, {"tab", "draft"}) =>
    /\ \A k \in Ops : Chooses(k) => op[i].tab = curTab
    /\ op[i].tab = curTab =>
         \/ op[i].step \in Fetching /\ op[i].gen = generation
         \/ op[i].step \in Writing /\ op[i].gen = generation /\ draftQueue[Len(draftQueue)] = i
         \/ At(i, "done") /\ screen = op[i].draft /\ draftQueue = <<>>
            /\ \A j \in Ops : op[j].step \in Loading => op[j].gen # generation
Latest == LatestTab /\ LatestDraft

-----------------------------------------------------------------------------
(* Numbers and queues. *)

\* A finite set that is totally ordered has a least element.
LEMMA LeastOf ==
  ASSUME NEW S, IsFiniteSet(S), S # {}, NEW R,
         \A x, y \in S : <<x, y>> \in R \/ <<y, x>> \in R,
         \A x, y, z \in S : <<x, y>> \in R /\ <<y, z>> \in R => <<x, z>> \in R
  PROVE  \E m \in S : \A x \in S : <<m, x>> \in R
  <1> DEFINE down(x) == {y \in S : <<y, x>> \in R}
             Downs   == {down(x) : x \in S}
  <1>1. FiniteSubsetsOf(S) = SUBSET S
    BY FS_FiniteSubsetsOfFinite
  <1>2. IsWellFoundedOn(StrictSubsetOrdering(S), SUBSET S)
    BY <1>1, FS_StrictSubsetOrderingWellFounded
  <1>3. Downs \subseteq SUBSET S /\ Downs # {}
    OBVIOUS
  <1>4. PICK U \in Downs : \A V \in Downs : <<V, U>> \notin StrictSubsetOrdering(S)
    <2> HIDE DEF Downs
    <2> QED
      BY <1>2, <1>3, WFMin
  <1>5. PICK m \in S : U = down(m)
    BY <1>4
  <1>6. ASSUME NEW x \in S, <<m, x>> \notin R PROVE FALSE
    <2>1. <<x, m>> \in R
      BY <1>6
    <2>2. down(x) \subseteq down(m)
      <3> SUFFICES ASSUME NEW y \in S, <<y, x>> \in R PROVE <<y, m>> \in R
        OBVIOUS
      <3> QED
        BY <2>1
    <2>3. m \in down(m) /\ m \notin down(x)
      <3>1. <<m, m>> \in R
        OBVIOUS
      <3> QED
        BY <3>1, <1>6
    <2>4. down(x) \in SUBSET S /\ down(m) \in SUBSET S
      OBVIOUS
    <2>5. <<down(x), down(m)>> \in StrictSubsetOrdering(S)
      <3> HIDE DEF down
      <3> QED
        BY <2>2, <2>3, <2>4 DEF StrictSubsetOrdering
    <2> QED
      BY <1>4, <1>5, <2>5
  <1> QED
    BY <1>6

\* The first and the last of some tabs or drafts.
LEMMA FirstAndMax ==
  ASSUME NEW S \in SUBSET Nat, IsFiniteSet(S), S # {}
  PROVE  First(S) \in S /\ Max(S) \in S
  <1>1. \E m \in S : \A x \in S : m <= x
    <2>1. PICK R : R = {p \in S \X S : p[1] <= p[2]}
      OBVIOUS
    <2>2. \A x, y \in S : <<x, y>> \in R <=> x <= y
      BY <2>1
    <2>3. \A x, y, z \in S : (x <= y \/ y <= x) /\ (x <= y /\ y <= z => x <= z)
      OBVIOUS
    <2>4. \E m \in S : \A x \in S : <<m, x>> \in R
      BY <2>2, <2>3, LeastOf
    <2> QED
      BY <2>2, <2>4
  <1>2. \E m \in S : \A x \in S : m >= x
    <2>1. PICK R : R = {p \in S \X S : p[1] >= p[2]}
      OBVIOUS
    <2>2. \A x, y \in S : <<x, y>> \in R <=> x >= y
      BY <2>1
    <2>3. \A x, y, z \in S : (x >= y \/ y >= x) /\ (x >= y /\ y >= z => x >= z)
      OBVIOUS
    <2>4. \E m \in S : \A x \in S : <<m, x>> \in R
      BY <2>2, <2>3, LeastOf
    <2> QED
      BY <2>2, <2>4
  <1>3. First(S) \in S
    BY <1>1 DEF First
  <1>4. Max(S) \in S
    BY <1>2 DEF Max
  <1> QED
    BY <1>3, <1>4

\* Appending to a queue.
LEMMA AppendIn ==
  ASSUME NEW S, NEW q \in Seq(S), NEW x \in S
  PROVE  /\ Append(q, x) \in Seq(S) /\ Append(q, x) # <<>>
         /\ Append(q, x)[Len(Append(q, x))] = x
         /\ \A j : In(Append(q, x), j) <=> In(q, j) \/ j = x
         /\ Distinct(q) /\ ~In(q, x) => Distinct(Append(q, x))
         /\ q # <<>> => Head(Append(q, x)) = Head(q)
  <1>1. /\ Append(q, x) \in Seq(S) /\ Len(Append(q, x)) = Len(q) + 1 /\ Len(q) \in Nat
        /\ \A k \in 1..Len(q) : Append(q, x)[k] = q[k]
        /\ Append(q, x)[Len(q) + 1] = x
    OBVIOUS
  <1> DEFINE r == Append(q, x)
  <1>2. /\ Len(r) = Len(q) + 1 /\ Len(q) \in Nat
        /\ \A k \in 1..Len(q) : r[k] = q[k]
        /\ r[Len(q) + 1] = x
    BY <1>1
  <1>3. q # <<>> => Head(r) = Head(q)
    OBVIOUS
  <1>4. r # <<>>
    BY <1>2
  <1> HIDE DEF r
  <1>5. \A k \in 1..Len(r) : k \in 1..Len(q) \/ k = Len(q) + 1
    BY <1>2
  <1>6. \A k \in 1..Len(q) : k \in 1..Len(r) /\ k < Len(q) + 1
    BY <1>2
  <1>7. Len(q) + 1 \in 1..Len(r)
    BY <1>2
  <1>8. ASSUME NEW j PROVE In(r, j) <=> In(q, j) \/ j = x
    BY <1>2, <1>5, <1>6, <1>7 DEF In
  <1>9. ASSUME Distinct(q), ~In(q, x) PROVE Distinct(r)
    BY <1>2, <1>5, <1>6, <1>9 DEF Distinct, In
  <1> QED
    BY <1>1, <1>2, <1>3, <1>4, <1>8, <1>9 DEF r

\* Answering the head of a queue.
LEMMA TailIn ==
  ASSUME NEW S, NEW q \in Seq(S), q # <<>>, Distinct(q)
  PROVE  /\ Tail(q) \in Seq(S) /\ Distinct(Tail(q)) /\ In(q, Head(q)) /\ Head(q) \in S
         /\ \A j : In(Tail(q), j) <=> In(q, j) /\ j # Head(q)
         /\ Tail(q) # <<>> => Tail(q)[Len(Tail(q))] = q[Len(q)]
         /\ q[Len(q)] = Head(q) => Tail(q) = <<>>
  <1> DEFINE r == Tail(q)
  <1>1. /\ r \in Seq(S) /\ Len(r) = Len(q) - 1 /\ Len(q) \in Nat /\ Len(q) >= 1
        /\ Head(q) = q[1] /\ 1 \in 1..Len(q) /\ Head(q) \in S
    OBVIOUS
  <1>2. \A k \in 1..Len(r) : r[k] = q[k + 1]
    BY HeadTailProperties
  <1>3. Len(r) = 0 => r = <<>>
    BY <1>1, EmptySeq
  <1> HIDE DEF r
  <1>4. \A k \in 1..Len(r) : k + 1 \in 1..Len(q) /\ k + 1 # 1 /\ r[k] = q[k + 1]
    BY <1>1, <1>2
  <1>5. \A k \in 1..Len(q) : k = 1 \/ (k - 1 \in 1..Len(r) /\ r[k - 1] = q[k])
    BY <1>1, <1>2
  <1>6. \A a, b \in 1..Len(q) : q[a] = q[b] => a = b
    BY DEF Distinct
  <1>7. Distinct(r)
    BY <1>1, <1>4, <1>6 DEF Distinct
  <1>8. ASSUME NEW j PROVE In(r, j) <=> In(q, j) /\ j # Head(q)
    <2>1. ASSUME In(r, j) PROVE In(q, j) /\ j # Head(q)
      <3>1. PICK k \in 1..Len(r) : r[k] = j
        BY <2>1 DEF In
      <3>2. k + 1 \in 1..Len(q) /\ q[k + 1] = j /\ k + 1 # 1
        BY <1>4, <3>1
      <3> QED
        BY <1>1, <1>6, <3>2 DEF In
    <2>2. ASSUME In(q, j), j # Head(q) PROVE In(r, j)
      BY <1>1, <1>5, <2>2 DEF In
    <2> QED
      BY <2>1, <2>2
  <1>9. r # <<>> => r[Len(r)] = q[Len(q)]
    <2> SUFFICES ASSUME r # <<>> PROVE r[Len(r)] = q[Len(q)]
      OBVIOUS
    <2>1. Len(q) # 1 /\ Len(q) \in 1..Len(q)
      BY <1>1, <1>3
    <2> QED
      BY <1>1, <1>5, <2>1
  <1>10. q[Len(q)] = Head(q) => r = <<>>
    <2> SUFFICES ASSUME q[Len(q)] = q[1] PROVE r = <<>>
      BY <1>1
    <2>1. Len(q) = 1
      BY <1>1, <1>6
    <2> QED
      BY <1>1, <1>3, <2>1
  <1> QED
    BY <1>1, <1>7, <1>8, <1>9, <1>10 DEF r, In

\* Nothing is in a queue that is empty.
LEMMA InNonempty ==
  ASSUME NEW S, NEW q \in Seq(S), NEW i, In(q, i)
  PROVE  q # <<>> /\ i \in S /\ Len(q) \in 1..Len(q)
  <1>1. PICK a \in 1..Len(q) : q[a] = i
    BY DEF In
  <1>2. Len(q) \in Nat /\ Len(q) >= 1
    BY <1>1
  <1> QED
    BY <1>1, <1>2

-----------------------------------------------------------------------------
(* What a step does to the operations. *)

Others(i) == op' \in [Ops -> OpRec] /\ \A j \in Ops : j # i => op'[j] = op[j]
Keeps(i) ==
  /\ op'[i].kind = op[i].kind /\ op'[i].draft = op[i].draft /\ op'[i].gen = op[i].gen
  /\ op'[i].ctx = op[i].ctx /\ op'[i].prev = op[i].prev /\ op'[i].gone = op[i].gone
  /\ op'[i].failed = op[i].failed
Moves(i, s) ==
  /\ Others(i) /\ Keeps(i) /\ op'[i].step = s
  /\ op'[i].tab = op[i].tab /\ op'[i].settle = op[i].settle
  /\ UNCHANGED <<barredTab, barred>>
Ends(i, failed) ==
  /\ Others(i) /\ op'[i].step = "done" /\ op'[i].failed = failed
  /\ op'[i].kind = op[i].kind /\ op'[i].tab = op[i].tab /\ op'[i].draft = op[i].draft
  /\ op'[i].gen = 0 /\ op'[i].ctx = 0
  /\ IF Deletes(i) THEN barredTab' = None /\ barred' = {} ELSE UNCHANGED <<barredTab, barred>>
Returns(i) ==
  \/ op[i].kind = "dropDraft" /\ Moves(i, "settle")
  \/ op[i].kind = "dropTab" /\ Moves(i, "point")
  \/ op[i].kind # "dropDraft" /\ Ends(i, FALSE)
Rejects(i) ==
  \/ Ends(i, TRUE) /\ (op[i].kind \notin {"tab", "dropTab"} \/ ~ContextCurrent(i))
  \/ /\ op[i].kind \in {"tab", "dropTab"} /\ ContextCurrent(i)
     /\ Others(i) /\ Keeps(i) /\ op'[i].step \in {"back", "backTurn"}
     /\ op'[i].tab \in Tabs \cup {None} /\ op'[i].settle = op[i].settle
     /\ UNCHANGED <<barredTab, barred>>

\* One operation is replaced.
LEMMA Replaced ==
  ASSUME Typed, NEW i \in Ops, NEW r \in OpRec, op' = [op EXCEPT ![i] = r]
  PROVE  Others(i) /\ op'[i] = r
  BY DEF Typed, Others

LEMMA NoOpTyped == NoOp \in OpRec
  BY LoaderConstants DEF NoOp, OpRec, Kinds, Steps

\* An operation goes on.
LEMMA GotoMoves ==
  ASSUME Typed, NEW i \in Ops, NEW s \in Steps, Goto(i, s)
  PROVE  Moves(i, s)
  <1>1. PICK r : r = [op[i] EXCEPT !.step = s]
    OBVIOUS
  <1>2. op[i] \in OpRec
    BY DEF Typed
  <1>3. /\ r \in OpRec /\ r.step = s
        /\ r.kind = op[i].kind /\ r.tab = op[i].tab /\ r.draft = op[i].draft /\ r.gen = op[i].gen
        /\ r.ctx = op[i].ctx /\ r.prev = op[i].prev /\ r.gone = op[i].gone
        /\ r.settle = op[i].settle /\ r.failed = op[i].failed
    BY <1>1, <1>2 DEF OpRec
  <1>4. op' = [op EXCEPT ![i] = r]
    BY <1>1 DEF Goto, Typed
  <1>5. Others(i) /\ op'[i] = r
    BY <1>3, <1>4, Replaced
  <1> QED
    BY <1>3, <1>5 DEF Moves, Keeps, Goto, bars

\* An operation ends.
LEMMA EndEnds ==
  ASSUME Typed, NEW i \in Ops, NEW f \in BOOLEAN, End(i, f)
  PROVE  Ends(i, f)
  <1>1. PICK r : r = [NoOp EXCEPT !.kind = op[i].kind, !.tab = op[i].tab,
                                  !.draft = op[i].draft, !.step = "done", !.failed = f]
    OBVIOUS
  <1>2. op[i] \in OpRec
    BY DEF Typed
  <1>3. /\ r \in OpRec /\ r.step = "done" /\ r.failed = f /\ r.gen = 0 /\ r.ctx = 0
        /\ r.kind = op[i].kind /\ r.tab = op[i].tab /\ r.draft = op[i].draft
    BY <1>1, <1>2, NoOpTyped DEF OpRec, NoOp, Steps
  <1>4. op' = [op EXCEPT ![i] = r]
    BY <1>1 DEF End
  <1>5. Others(i) /\ op'[i] = r
    BY <1>3, <1>4, Replaced
  <1>6. IF Deletes(i) THEN barredTab' = None /\ barred' = {} ELSE UNCHANGED <<barredTab, barred>>
    BY DEF End, bars
  <1> QED
    BY <1>3, <1>5, <1>6 DEF Ends

\* A selection or the move of the editor off a deletion's target is over.
LEMMA ReturnedReturns ==
  ASSUME Typed, NEW i \in Ops, NEW d, Returned(i, d)
  PROVE  Returns(i)
  <1>1. CASE op[i].kind = "dropDraft"
    BY <1>1, GotoMoves DEF Returned, Returns, Steps
  <1>2. CASE op[i].kind # "dropDraft" /\ op[i].kind = "dropTab" /\ d \in listed'
    BY <1>2, GotoMoves DEF Returned, Returns, Steps
  <1>3. CASE op[i].kind # "dropDraft" /\ ~(op[i].kind = "dropTab" /\ d \in listed')
    <2>1. End(i, FALSE)
      BY <1>3 DEF Returned
    <2> QED
      BY <1>3, <2>1, EndEnds DEF Returns
  <1> QED
    BY <1>1, <1>2, <1>3

\* The stores after a load has thrown.
LEMMA ThrewRejects ==
  ASSUME Typed, NEW i \in Ops, NEW t \in Tabs \cup {None}, LoadThrew(i, t)
  PROVE  /\ Rejects(i)
         /\ \/ Ends(i, TRUE) /\ curTab' = t /\ listed' = listed /\ tabQueue' = tabQueue
            \/ /\ op[i].kind \in {"tab", "dropTab"} /\ curTab' = op'[i].tab
               /\ curTab' \in {t, op[i].prev}
               /\ \/ At(i, "backTurn")' /\ listed' = op[i].prevListed /\ tabQueue' = Append(tabQueue, i)
                  \/ At(i, "back")' /\ listed' = listed /\ tabQueue' = tabQueue
  <1>1. CASE op[i].kind \notin {"tab", "dropTab"} \/ ~ContextCurrent(i)
    <2>1. curTab' = t /\ End(i, TRUE) /\ listed' = listed /\ tabQueue' = tabQueue
      BY <1>1 DEF LoadThrew
    <2>2. Ends(i, TRUE)
      BY <2>1, EndEnds
    <2> QED
      BY <1>1, <2>1, <2>2 DEF Rejects
  <1>2. CASE op[i].kind \in {"tab", "dropTab"} /\ ContextCurrent(i)
    <2>1. PICK to : to = IF t = op[i].tab THEN op[i].prev ELSE t
      OBVIOUS
    <2>2. op[i] \in OpRec /\ to \in Tabs \cup {None} /\ to \in {t, op[i].prev}
      BY <2>1 DEF Typed, OpRec
    <2>3. PICK s \in {"back", "backTurn"} :
            /\ op' = [op EXCEPT ![i].tab = to, ![i].step = s]
            /\ curTab' = to /\ UNCHANGED bars
            /\ \/ s = "backTurn" /\ listed' = op[i].prevListed /\ tabQueue' = Append(tabQueue, i)
               \/ s = "back" /\ listed' = listed /\ tabQueue' = tabQueue
      BY <1>2, <2>1 DEF LoadThrew
    <2>4. PICK r : r = [op[i] EXCEPT !.tab = to, !.step = s]
      OBVIOUS
    <2>5. /\ r \in OpRec /\ r.step = s /\ r.tab = to
          /\ r.kind = op[i].kind /\ r.draft = op[i].draft /\ r.gen = op[i].gen
          /\ r.ctx = op[i].ctx /\ r.prev = op[i].prev /\ r.gone = op[i].gone
          /\ r.settle = op[i].settle /\ r.failed = op[i].failed
      BY <2>2, <2>4 DEF OpRec, Steps
    <2>6. op' = [op EXCEPT ![i] = r]
      BY <2>3, <2>4 DEF Typed
    <2>7. Others(i) /\ op'[i] = r
      BY <2>5, <2>6, Replaced
    <2>8. Rejects(i)
      BY <1>2, <2>2, <2>3, <2>5, <2>7 DEF Rejects, Keeps, bars
    <2> QED
      BY <1>2, <2>2, <2>3, <2>5, <2>7, <2>8 DEF At
  <1> QED
    BY <1>1, <1>2

-----------------------------------------------------------------------------
(* What the parts of the invariant need to be kept. *)

\* A running operation goes on or ends.
Goes(i) ==
  /\ Others(i) /\ Running(i)' /\ op'[i].kind = op[i].kind /\ op'[i].gone = op[i].gone
  /\ op'[i].failed = op[i].failed
  /\ op[i].kind = "dropDraft" => op'[i].tab = op[i].tab /\ op'[i].draft = op[i].draft
  /\ UNCHANGED <<barredTab, barred>>
Proceeds(i) == Goes(i) \/ Ends(i, TRUE) \/ Ends(i, FALSE)

LEMMA MovesGoes ==
  ASSUME NEW i \in Ops, NEW s, s \notin {"new", "done"}, Moves(i, s)
  PROVE  Goes(i) /\ Proceeds(i)
  BY DEF Moves, Keeps, Goes, Proceeds, Running

LEMMA ReturnsProceeds ==
  ASSUME NEW i \in Ops, Returns(i)
  PROVE  /\ Proceeds(i)
         /\ op'[i].step \in {"settle", "point", "done"}
         /\ op'[i].step = "done" => op[i].kind # "dropDraft" /\ Ends(i, FALSE)
         /\ op'[i].step # "done" => Moves(i, op'[i].step) /\ Deletes(i)
         /\ op'[i].tab = op[i].tab /\ op'[i].draft = op[i].draft
         /\ op'[i].kind = op[i].kind /\ op'[i].ctx \in {op[i].ctx, 0}
  BY DEF Returns, Moves, Keeps, Goes, Proceeds, Running, Ends, Deletes

LEMMA RejectsProceeds ==
  ASSUME NEW i \in Ops, Rejects(i)
  PROVE  /\ Proceeds(i)
         /\ op'[i].step \in {"back", "backTurn", "done"}
         /\ op'[i].step = "done" => op'[i].failed = TRUE
         /\ op'[i].kind = op[i].kind /\ op'[i].ctx \in {op[i].ctx, 0}
  BY DEF Rejects, Keeps, Goes, Proceeds, Running, Ends

\* Kinds stay, as long as nothing begins.
LEMMA KindsStay ==
  ASSUME NEW i \in Ops, Proceeds(i)
  PROVE  /\ \A j \in Ops : op'[j].kind = op[j].kind
         /\ NoDeletions' <=> NoDeletions
         /\ InOneTab' <=> InOneTab
  <1>1. op'[i].kind = op[i].kind /\ \A j \in Ops : j # i => op'[j] = op[j]
    BY DEF Proceeds, Goes, Ends, Others
  <1>2. \A j \in Ops : op'[j].kind = op[j].kind
    BY <1>1
  <1> QED
    BY <1>2 DEF NoDeletions, InOneTab, Deletes

KindsSame == \A j \in Ops : op'[j].kind = op[j].kind

\* Operations: the one that steps is as it should be.
LEMMA OpsKept ==
  ASSUME Shape, NEW i \in Ops, Others(i), generation' \in Nat, context' \in Nat,
         generation <= generation', context <= context', OpOK(i)'
  PROVE  \A j \in Ops : OpOK(j)'
  <1> SUFFICES ASSUME NEW j \in Ops, j # i PROVE OpOK(j)'
    OBVIOUS
  <1>1. op'[j] = op[j] /\ OpOK(j)
    BY DEF Others, Shape
  <1>2. op[j].gen \in Nat /\ op[j].ctx \in Nat /\ generation \in Nat /\ context \in Nat
    BY DEF Shape, Typed, OpRec
  <1>3. op[j].gen <= generation' /\ op[j].ctx <= context'
    BY <1>1, <1>2 DEF OpOK
  <1> QED
    BY <1>1, <1>3 DEF OpOK, Running, At

LEMMA MovesOp ==
  ASSUME Shape, NEW i \in Ops, NEW s \in Steps, Moves(i, s), Running(i),
         s \in StepsOf(op[i].kind), s \notin {"pointWrite", "settleWrite"},
         s \in Selecting \cup Loading => op[i].step \in Selecting \cup Loading,
         s \in Loading => op[i].step \in Loading, s \in Backs => op[i].step \in Backs,
         generation' = generation, context' \in Nat, context <= context'
  PROVE  OpOK(i)'
  <1>1. OpOK(i) /\ op[i].ctx \in Nat /\ context \in Nat
    BY DEF Shape, Typed, OpRec
  <1>2. /\ op'[i].kind = op[i].kind /\ op'[i].tab = op[i].tab /\ op'[i].draft = op[i].draft
        /\ op'[i].gen = op[i].gen /\ op'[i].ctx = op[i].ctx /\ op'[i].prev = op[i].prev
        /\ op'[i].gone = op[i].gone /\ op'[i].step = s /\ op'[i].failed = op[i].failed
    BY DEF Moves, Keeps
  <1>3. s # "new" /\ s # "done" /\ op[i].step # "new" /\ op[i].step # "done"
    <2>1. s \notin {"new", "done"}
      BY DEF StepsOf, Loading, Fetching, Writing, Selecting, Backs, Points, Settles
    <2> QED
      BY <2>1 DEF Running
  <1>4. op[i].ctx <= context'
    BY <1>1 DEF OpOK
  <1> QED
    BY <1>1, <1>2, <1>3, <1>4 DEF OpOK, Running, At

LEMMA EndsOp ==
  ASSUME Shape, NEW i \in Ops, NEW f \in BOOLEAN, Ends(i, f), Running(i),
         generation' \in Nat, context' \in Nat
  PROVE  OpOK(i)'
  <1>1. OpOK(i)
    BY DEF Shape
  <1>2. op'[i] \in OpRec /\ op'[i].step = "done" /\ op'[i].kind = op[i].kind
        /\ op'[i].gen = 0 /\ op'[i].ctx = 0
    BY DEF Ends, Others
  <1>3. op'[i].tab \in Tabs \cup {None}
    BY <1>2 DEF OpRec
  <1>4. op'[i].gen <= generation' /\ op'[i].ctx <= context'
    BY <1>2
  <1> QED
    BY <1>1, <1>2, <1>3, <1>4
    DEF OpOK, Running, At, Selecting, Loading, Fetching, Writing, Backs

\* Deletions and what they bar.
LEMMA BarsKept ==
  ASSUME Shape, NEW i \in Ops, Running(i), Proceeds(i)
  PROVE  BarsOK'
  <1>1. BarsOK /\ \A j \in Ops : j # i => op'[j] = op[j]
    BY DEF Shape, Proceeds, Goes, Ends, Others
  <1>2. \A j \in Ops : op'[j].kind = op[j].kind
    BY KindsStay
  <1>3. CASE Goes(i)
    <2>1. /\ \A j \in Ops : Running(j)' <=> Running(j)
          /\ \A j \in Ops : op'[j].gone = op[j].gone
          /\ \A j \in Ops : op[j].kind = "dropDraft" =>
               op'[j].tab = op[j].tab /\ op'[j].draft = op[j].draft
          /\ barredTab' = barredTab /\ barred' = barred
      BY <1>1, <1>3 DEF Goes, Running, At
    <2> QED
      BY <1>1, <1>2, <2>1 DEF BarsOK, Deletes
  <1>4. CASE Ends(i, TRUE) \/ Ends(i, FALSE)
    <2>1. op'[i].step = "done"
      BY <1>4 DEF Ends
    <2>2. \A j \in Ops : Running(j)' <=> Running(j) /\ j # i
      BY <1>1, <2>1 DEF Running, At
    <2>3. CASE Deletes(i)
      <3>1. barredTab' = None /\ barred' = {}
        BY <1>4, <2>3 DEF Ends
      <3>2. \A j \in Ops : Deletes(j) => ~Running(j)'
        BY <1>1, <2>2, <2>3 DEF BarsOK
      <3> QED
        BY <1>2, <3>1, <3>2 DEF BarsOK, Deletes
    <2>4. CASE ~Deletes(i)
      <3>1. barredTab' = barredTab /\ barred' = barred
        BY <1>4, <2>4 DEF Ends
      <3> QED
        BY <1>1, <1>2, <2>2, <2>4, <3>1 DEF BarsOK, Deletes
    <2> QED
      BY <2>3, <2>4
  <1> QED
    BY <1>3, <1>4 DEF Proceeds

\* Generations tell loads apart; the newest tab selection is the current one.
LEMMA GensKept ==
  ASSUME Shape, NEW i \in Ops, Others(i), op'[i].kind = op[i].kind,
         op'[i].ctx \in {op[i].ctx, 0}, generation' \in Nat, generation <= generation',
         context' \in Nat, context <= context', Running(i), op'[i].step # "new",
         op'[i].step \in Loading =>
            \/ op[i].step \in Loading /\ op'[i].gen = op[i].gen
            \/ op'[i].gen = generation' /\ generation < generation'
  PROVE  GensOK'
  <1>0. /\ \A j, k \in Ops : j < k /\ At(j, "new") => At(k, "new")
        /\ \A j \in Ops : At(j, "new")' <=> At(j, "new")
    BY DEF Shape, GensOK, Others, At, Running
  <1>1. /\ GensOK /\ generation \in Nat /\ context \in Nat
        /\ \A j \in Ops : op[j].gen \in Nat /\ op[j].ctx \in Nat /\ op[j].gen <= generation
                          /\ op[j].ctx <= context
    BY DEF Shape, Typed, OpRec, OpOK
  <1>2. \A j \in Ops : j # i => op'[j] = op[j]
    BY DEF Others
  <1>3. ASSUME NEW j \in Ops, NEW k \in Ops, op'[j].step \in Loading, op'[k].step \in Loading,
               op'[j].gen = op'[k].gen, j # k
        PROVE  FALSE
    <2>1. CASE j # i /\ k # i
      BY <1>1, <1>2, <1>3, <2>1 DEF GensOK
    <2>2. CASE j = i
      BY <1>1, <1>2, <1>3, <2>2 DEF GensOK
    <2>3. CASE k = i
      BY <1>1, <1>2, <1>3, <2>3 DEF GensOK
    <2> QED
      BY <2>1, <2>2, <2>3
  <1>4. ASSUME NEW j \in Ops, NEW k \in Ops, op'[j].kind = "tab", op'[k].kind = "tab", j < k
        PROVE  op'[j].ctx < context'
    <2>1. op[j].kind = "tab" /\ op[k].kind = "tab"
      BY <1>2, <1>4
    <2>2. op[j].ctx < context
      BY <1>1, <1>4, <2>1 DEF GensOK
    <2>3. op'[j].ctx \in {op[j].ctx, 0}
      BY <1>2
    <2> QED
      BY <1>1, <2>2, <2>3
  <1> QED
    BY <1>0, <1>3, <1>4 DEF GensOK

\* Tabs that are to be shown.
Shrinks(i) ==
  liveTabs' = liveTabs \/ (op[i].kind = "dropTab" /\ liveTabs' = liveTabs \ {op[i].gone})

LEMMA TabsKept ==
  ASSUME Shape, NEW i \in Ops, Running(i), Proceeds(i), context' = context,
         op'[i].step \in Selecting =>
           op[i].step \in Selecting /\ op'[i].tab = op[i].tab /\ op'[i].ctx = op[i].ctx,
         Shrinks(i)
  PROVE  TabsOK'
  <1> SUFFICES ASSUME NEW j \in Ops, op'[j].step \in Selecting, op'[j].ctx = context
               PROVE  /\ op'[j].tab \in liveTabs'
                      /\ \A k \in Ops : Running(k)' /\ op'[k].kind = "dropTab" =>
                           op'[k].gone # op'[j].tab
    BY DEF TabsOK, ContextCurrent
  <1>1. \A k \in Ops : k # i => op'[k] = op[k]
    BY DEF Proceeds, Goes, Ends, Others
  <1>2. op[j].step \in Selecting /\ op[j].ctx = context /\ op'[j].tab = op[j].tab
    BY <1>1
  <1>3. /\ op[j].tab \in liveTabs
        /\ \A k \in Ops : Running(k) /\ op[k].kind = "dropTab" => op[k].gone # op[j].tab
    BY <1>2 DEF Shape, TabsOK, ContextCurrent
  <1>4. op'[j].tab \in liveTabs'
    BY <1>2, <1>3 DEF Shrinks
  <1>5. ASSUME NEW k \in Ops, Running(k)', op'[k].kind = "dropTab"
        PROVE  op'[k].gone # op'[j].tab
    <2>1. CASE k # i
      <3>1. Running(k) /\ op[k].kind = "dropTab" /\ op'[k].gone = op[k].gone
        BY <1>1, <1>5, <2>1 DEF Running, At
      <3> QED
        BY <1>2, <1>3, <3>1
    <2>2. CASE k = i
      <3>1. Goes(i)
        BY <1>5, <2>2 DEF Proceeds, Ends, Running, At
      <3>2. op[k].kind = "dropTab" /\ op'[k].gone = op[k].gone
        BY <1>5, <2>2, <3>1 DEF Goes
      <3> QED
        BY <1>2, <1>3, <2>2, <3>2
    <2> QED
      BY <2>1, <2>2
  <1> QED
    BY <1>4, <1>5

\* One operation steps; a queue stays, takes it in, or lets it go.
QueueStep(i, o, p, q, r, S, W) ==
  \/ r = q /\ (o[i].step \in S <=> p[i].step \in S) /\ (p[i].step \in W => Head(q) = i)
  \/ r = Append(q, i) /\ o[i].step \notin S /\ p[i].step \in S /\ p[i].step \notin W
  \/ r = Tail(q) /\ Head(q) = i /\ o[i].step \in S /\ p[i].step \notin S

LEMMA QueueKept ==
  ASSUME NEW o, NEW p, NEW q, NEW r, NEW S, NEW W \in SUBSET S, NEW i \in Ops,
         QueueOK(o, q, S, W), \A j \in Ops : j # i => p[j] = o[j],
         QueueStep(i, o, p, q, r, S, W)
  PROVE  QueueOK(p, r, S, W)
  <1>1. /\ q \in Seq(Ops) /\ Distinct(q)
        /\ \A j \in Ops : o[j].step \in S <=> In(q, j)
        /\ \A j \in Ops : o[j].step \in W => Head(q) = j
    BY DEF QueueOK
  <1>2. CASE r = q /\ (o[i].step \in S <=> p[i].step \in S) /\ (p[i].step \in W => Head(q) = i)
    BY <1>1, <1>2 DEF QueueOK
  <1>3. CASE r = Append(q, i) /\ o[i].step \notin S /\ p[i].step \in S /\ p[i].step \notin W
    <2>1. ~In(q, i)
      BY <1>1, <1>3
    <2>2. /\ r \in Seq(Ops) /\ Distinct(r)
          /\ \A j : In(r, j) <=> In(q, j) \/ j = i
          /\ q # <<>> => Head(r) = Head(q)
      BY <1>1, <1>3, <2>1, AppendIn
    <2>3. ASSUME NEW j \in Ops, p[j].step \in W PROVE Head(r) = j
      <3>1. j # i /\ o[j].step \in W /\ o[j].step \in S
        BY <1>3, <2>3
      <3>2. In(q, j) /\ Head(q) = j
        BY <1>1, <3>1
      <3>3. q # <<>>
        BY <1>1, <3>2, InNonempty
      <3> QED
        BY <2>2, <3>2, <3>3
    <2>4. ASSUME NEW j \in Ops PROVE p[j].step \in S <=> In(r, j)
      BY <1>1, <1>3, <2>2
    <2> QED
      BY <2>2, <2>3, <2>4 DEF QueueOK
  <1>4. CASE r = Tail(q) /\ Head(q) = i /\ o[i].step \in S /\ p[i].step \notin S
    <2>1. In(q, i)
      BY <1>1, <1>4
    <2>2. q # <<>>
      BY <1>1, <2>1, InNonempty
    <2>3. r \in Seq(Ops) /\ Distinct(r) /\ \A j : In(r, j) <=> In(q, j) /\ j # i
      BY <1>1, <1>4, <2>2, TailIn
    <2>4. ASSUME NEW j \in Ops, p[j].step \in W PROVE FALSE
      <3>1. j # i /\ o[j].step \in W
        BY <1>4, <2>4
      <3> QED
        BY <1>1, <1>4, <3>1
    <2>5. ASSUME NEW j \in Ops PROVE p[j].step \in S <=> In(r, j)
      BY <1>1, <1>4, <2>3
    <2> QED
      BY <2>3, <2>4, <2>5 DEF QueueOK
  <1> QED
    BY <1>2, <1>3, <1>4 DEF QueueStep

DraftStep(i) == QueueStep(i, op, op', draftQueue, draftQueue', InDraftQueue, DraftWrites)
TabStep(i) == QueueStep(i, op, op', tabQueue, tabQueue', InTabQueue, TabWrites)

LEMMA QueuesKept ==
  ASSUME Shape, NEW i \in Ops, Others(i), DraftStep(i), TabStep(i)
  PROVE  QueuesOK'
  <1>1. QueuesOK /\ \A j \in Ops : j # i => op'[j] = op[j]
    BY DEF Shape, Others
  <1>2. DraftWrites \in SUBSET InDraftQueue /\ TabWrites \in SUBSET InTabQueue
    BY DEF DraftWrites, InDraftQueue, Writing, TabWrites, InTabQueue
  <1>3. QueueOK(op', draftQueue', InDraftQueue, DraftWrites)
    BY <1>1, <1>2, QueueKept DEF QueuesOK, DraftStep
  <1>4. QueueOK(op', tabQueue', InTabQueue, TabWrites)
    BY <1>1, <1>2, QueueKept DEF QueuesOK, TabStep
  <1> QED
    BY <1>3, <1>4 DEF QueuesOK

\* Who steps: the opened document, before its tabs are shown, or an operation begun since.
LEMMA Begun ==
  ASSUME Shape, NEW i \in Ops, Running(i)
  PROVE  /\ i # 1 => op[i].kind # "open" /\ curTab \in Tabs /\ op[1].step \in {"read", "done"}
         /\ i = 1 => op[i].kind = "open" /\ op[i].step \in {"flush", "resolve", "read"}
         /\ op[i].step \in StepsOf(op[i].kind) /\ op[i].kind \in Kinds /\ 1 \in Ops
  <1>1. OpenOK /\ OpOK(i) /\ op[i] \in OpRec /\ 1 \in Ops
    BY LoaderConstants DEF Shape, Typed, Ops
  <1>2. i # 1 => op[i].kind # "open"
    BY <1>1 DEF OpOK, Running, At
  <1>3. i # 1 => op[1].step \in {"read", "done"}
    BY <1>1 DEF OpenOK, Running, At
  <1>4. i # 1 => curTab \in Tabs
    BY <1>1, <1>2 DEF OpenOK
  <1>5. i = 1 => op[i].kind = "open" /\ op[i].step \in {"flush", "resolve", "read"}
    BY <1>1 DEF OpenOK, Running, At
  <1> QED
    BY <1>1, <1>2, <1>3, <1>4, <1>5 DEF OpOK, OpRec

\* The opened document, while something else steps.
LEMMA OpenKept ==
  ASSUME Shape, NEW i \in Ops, i # 1, Running(i), Proceeds(i), curTab' \in Tabs,
         generation' \in Nat, generation <= generation',
         generation' = generation /\ NoDeletions /\ op[i].step \in Selecting =>
           /\ UNCHANGED <<screen, liveDrafts, liveTabs, curTab, activeDraft>>
           /\ op'[i].step \in Selecting \cup {"done"}
  PROVE  OpenOK'
  <1>1. /\ OpenOK /\ op'[1] = op[1] /\ op[1].step \in {"read", "done"} /\ op[1].kind = "open"
        /\ 1 \in Ops
    BY Begun DEF Shape, Proceeds, Goes, Ends, Others, OpenOK
  <1>2. ASSUME op[1].step = "read", op[1].gen = generation'
        PROVE  /\ screen' = None /\ liveDrafts' = Drafts /\ liveTabs' = Tabs
               /\ op[1].tab \in Tabs /\ op[1].tab = curTab'
               /\ op[1].draft \in Drafts /\ op[1].draft = activeDraft'[op[1].tab]
               /\ NoDeletions'
               /\ \A j \in Ops : j # 1 => op'[j].step \in Selecting \cup {"new", "done"}
    <2>1. op[1].gen <= generation /\ op[1].gen \in Nat /\ generation \in Nat
      BY <1>1 DEF Shape, OpOK, Typed, OpRec
    <2>2. op[1].gen = generation /\ generation' = generation
      BY <1>2, <2>1
    <2>3. /\ screen = None /\ liveDrafts = Drafts /\ liveTabs = Tabs
          /\ op[1].tab \in Tabs /\ op[1].tab = curTab
          /\ op[1].draft \in Drafts /\ op[1].draft = activeDraft[op[1].tab]
          /\ NoDeletions
          /\ \A j \in Ops : j # 1 => op[j].step \in Selecting \cup {"new", "done"}
      BY <1>1, <1>2, <2>2 DEF OpenOK, At
    <2>4. op[i].step \in Selecting /\ ~Deletes(i)
      BY <2>3 DEF Running, NoDeletions
    <2>5. /\ UNCHANGED <<screen, liveDrafts, liveTabs, curTab, activeDraft>>
          /\ op'[i].step \in Selecting \cup {"done"}
      BY <2>2, <2>3, <2>4
    <2>6. NoDeletions'
      BY <2>3, KindsStay
    <2>7. ASSUME NEW j \in Ops, j # 1 PROVE op'[j].step \in Selecting \cup {"new", "done"}
      <3>1. j # i => op'[j] = op[j]
        BY DEF Proceeds, Goes, Ends, Others
      <3> QED
        BY <2>3, <2>5, <2>7, <3>1
    <2> QED
      BY <2>3, <2>5, <2>6, <2>7
  <1> QED
    BY <1>1, <1>2 DEF OpenOK, At

\* The shape is kept by a step of the i-th operation.
Along(i) ==
  /\ op'[i].ctx \in {op[i].ctx, 0}
  /\ op'[i].step \in Selecting =>
       op[i].step \in Selecting /\ op'[i].tab = op[i].tab /\ op'[i].ctx = op[i].ctx
  /\ op'[i].step \in Loading => op[i].step \in Loading /\ op'[i].gen = op[i].gen
  /\ op[i].step \in Selecting /\ ~Deletes(i) => op'[i].step \in Selecting \cup {"done"}

LEMMA BarsTyped ==
  ASSUME Typed, NEW i, Proceeds(i)
  PROVE  barredTab' \in Tabs \cup {None} /\ barred' \subseteq Drafts /\ Others(i)
  BY DEF Typed, Proceeds, Goes, Ends

StoresTyped ==
  /\ curTab \in Tabs \cup {None} /\ listed \subseteq Drafts /\ screen \in Drafts \cup {None}
  /\ curDraft = screen /\ shown \in 0..MaxEdits /\ logged \in [Drafts -> 0..MaxEdits]
DiskTyped ==
  /\ activeTab \in Tabs /\ activeDraft \in [Tabs -> Drafts]
  /\ liveDrafts \subseteq Drafts /\ liveTabs \subseteq Tabs

LEMMA ShapeKept ==
  ASSUME Shape, NEW i \in Ops, Running(i), Proceeds(i), OpOK(i)', DraftStep(i), TabStep(i),
         OpenOK', DiskOK', TabsOK', StoresTyped', DiskTyped',
         generation' \in Nat, generation <= generation', context' \in Nat, context <= context',
         op'[i].ctx \in {op[i].ctx, 0},
         op'[i].step \in Loading =>
            \/ op[i].step \in Loading /\ op'[i].gen = op[i].gen
            \/ op'[i].gen = generation' /\ generation < generation'
  PROVE  Shape'
  <1>1. Typed /\ generation >= 1 /\ generation \in Nat
    BY DEF Shape, Typed
  <1>2. Others(i) /\ barredTab' \in Tabs \cup {None} /\ barred' \subseteq Drafts
    BY <1>1, BarsTyped
  <1>3. Typed'
    BY <1>2 DEF Typed, Others, StoresTyped, DiskTyped
  <1>4. \A j \in Ops : OpOK(j)'
    BY <1>2, OpsKept
  <1>5. QueuesOK'
    BY <1>2, QueuesKept
  <1>6. BarsOK'
    BY BarsKept
  <1>7. op'[i].kind = op[i].kind /\ op'[i].step # "new"
    BY KindsStay DEF Proceeds, Goes, Ends, Running
  <1>8. GensOK'
    BY <1>2, <1>7, GensKept
  <1>9. curDraft' = screen'
    BY DEF StoresTyped
  <1>10. generation' >= 1
    BY <1>1
  <1> QED
    BY <1>3, <1>4, <1>5, <1>6, <1>8, <1>9, <1>10 DEF Shape

LEMMA TypedParts ==
  ASSUME Shape
  PROVE  StoresTyped /\ DiskTyped /\ generation \in Nat /\ context \in Nat
  BY DEF Shape, Typed, StoresTyped, DiskTyped

\* A step that shows and deletes nothing.
Same(i) ==
  /\ i # 1 /\ Running(i) /\ Proceeds(i) /\ Along(i) /\ OpOK(i)'
  /\ DraftStep(i) /\ TabStep(i)
  /\ UNCHANGED <<curTab, curDraft, listed, screen, shown, generation, context,
                 liveDrafts, liveTabs, logged, activeDraft>>
  /\ activeTab' \in Tabs

LEMMA SameShape ==
  ASSUME Shape, NEW i \in Ops, Same(i)
  PROVE  Shape'
  <1>1. /\ i # 1 /\ Running(i) /\ Proceeds(i) /\ OpOK(i)' /\ DraftStep(i) /\ TabStep(i)
        /\ generation' = generation /\ context' = context /\ liveTabs' = liveTabs
        /\ liveDrafts' = liveDrafts /\ curTab' = curTab /\ screen' = screen
        /\ curDraft' = curDraft /\ listed' = listed /\ shown' = shown /\ logged' = logged
        /\ activeDraft' = activeDraft /\ activeTab' \in Tabs
    BY DEF Same
  <1>2. /\ op'[i].ctx \in {op[i].ctx, 0}
        /\ op'[i].step \in Selecting =>
             op[i].step \in Selecting /\ op'[i].tab = op[i].tab /\ op'[i].ctx = op[i].ctx
        /\ op'[i].step \in Loading => op[i].step \in Loading /\ op'[i].gen = op[i].gen
        /\ op[i].step \in Selecting /\ ~Deletes(i) => op'[i].step \in Selecting \cup {"done"}
    BY DEF Same, Along
  <1>3. StoresTyped /\ DiskTyped /\ generation \in Nat /\ context \in Nat /\ DiskOK
    BY TypedParts DEF Shape
  <1>4. StoresTyped' /\ DiskTyped'
    BY <1>1, <1>3 DEF StoresTyped, DiskTyped
  <1>5. OpenOK'
    BY <1>1, <1>2, <1>3, OpenKept, Begun DEF NoDeletions
  <1>6. op'[i].step \in Selecting =>
          op[i].step \in Selecting /\ op'[i].tab = op[i].tab /\ op'[i].ctx = op[i].ctx
    BY <1>2
  <1>7. Running(i) /\ Proceeds(i) /\ context' = context /\ liveTabs' = liveTabs
    BY <1>1
  <1>8. TabsOK'
    <2>1. Shrinks(i)
      BY <1>7 DEF Shrinks
    <2> QED
      BY <1>6, <1>7, <2>1, TabsKept
  <1>9. NoDeletions' <=> NoDeletions
    BY <1>1, KindsStay
  <1>10. DiskOK'
    BY <1>1, <1>3, <1>9 DEF DiskOK, DraftsIn
  <1>11. generation <= generation' /\ context <= context' /\ generation' \in Nat /\ context' \in Nat
    BY <1>1, <1>3
  <1> QED
    BY <1>1, <1>2, <1>4, <1>5, <1>8, <1>10, <1>11, ShapeKept

-----------------------------------------------------------------------------
(* What the steps of an operation under way do, one lemma per action. *)

Still ==
  /\ UNCHANGED <<curTab, curDraft, listed, screen, shown, generation, context,
                 liveDrafts, liveTabs, logged, activeDraft>>
  /\ activeTab' \in Tabs

LEMMA MovesSame ==
  ASSUME Shape, NEW i \in Ops, i # 1, Running(i), NEW s \in Steps, Moves(i, s),
         s \in StepsOf(op[i].kind), s \notin {"new", "done", "pointWrite", "settleWrite"},
         s \in Selecting => op[i].step \in Selecting,
         s \in Loading => op[i].step \in Loading, s \in Backs => op[i].step \in Backs,
         op[i].step \in Selecting => s \in Selecting \/ Deletes(i),
         DraftStep(i), TabStep(i), Still
  PROVE  Same(i)
  <1>1. generation' = generation /\ context' \in Nat /\ context <= context'
    BY TypedParts DEF Still
  <1>2. OpOK(i)'
    BY <1>1, MovesOp
  <1>3. Proceeds(i)
    BY MovesGoes
  <1>4. Along(i)
    BY DEF Along, Moves, Keeps
  <1> QED
    BY <1>2, <1>3, <1>4 DEF Same, Still

LEMMA EndsSame ==
  ASSUME Shape, NEW i \in Ops, i # 1, Running(i), NEW f \in BOOLEAN, Ends(i, f),
         DraftStep(i), TabStep(i), Still
  PROVE  Same(i)
  <1>1. generation' \in Nat /\ context' \in Nat
    BY TypedParts DEF Still
  <1>2. OpOK(i)'
    BY <1>1, EndsOp
  <1>3. Proceeds(i)
    BY DEF Proceeds
  <1>4. Along(i)
    BY DEF Along, Ends, Selecting, Loading, Fetching, Writing
  <1> QED
    BY <1>2, <1>3, <1>4 DEF Same, Still

LEMMA ReturnsOp ==
  ASSUME Shape, NEW i \in Ops, Running(i), Returns(i), generation' = generation, context' = context
  PROVE  OpOK(i)' /\ Along(i)
  <1>1. generation' \in Nat /\ context' \in Nat /\ context <= context'
    BY TypedParts
  <1>2. CASE Ends(i, FALSE)
    <2>1. OpOK(i)'
      BY <1>1, <1>2, EndsOp
    <2> QED
      BY <1>2, <2>1 DEF Along, Ends, Selecting, Loading, Fetching, Writing
  <1>3. CASE op[i].kind = "dropDraft" /\ Moves(i, "settle")
    <2>1. OpOK(i)'
      BY <1>1, <1>3, MovesOp
      DEF StepsOf, Settles, Steps, Selecting, Loading, Fetching, Writing, Backs
    <2> QED
      BY <1>3, <2>1 DEF Along, Moves, Keeps, Selecting, Loading, Fetching, Writing, Deletes
  <1>4. CASE op[i].kind = "dropTab" /\ Moves(i, "point")
    <2>1. OpOK(i)'
      BY <1>1, <1>4, MovesOp
      DEF StepsOf, Points, Steps, Selecting, Loading, Fetching, Writing, Backs
    <2> QED
      BY <1>4, <2>1 DEF Along, Moves, Keeps, Selecting, Loading, Fetching, Writing, Deletes
  <1> QED
    BY <1>2, <1>3, <1>4 DEF Returns

LEMMA ReturnsSame ==
  ASSUME Shape, NEW i \in Ops, i # 1, Running(i), Returns(i), DraftStep(i), TabStep(i), Still
  PROVE  Same(i)
  <1>1. OpOK(i)' /\ Along(i)
    BY ReturnsOp DEF Still
  <1>2. Proceeds(i)
    BY ReturnsProceeds
  <1> QED
    BY <1>1, <1>2 DEF Same, Still

\* Steps outside of a queue, and in it.
LEMMA Outside ==
  ASSUME NEW i, Running(i), NEW s, op'[i].step = s
  PROVE  /\ draftQueue' = draftQueue /\ op[i].step \notin InDraftQueue /\ s \notin InDraftQueue
              => DraftStep(i)
         /\ tabQueue' = tabQueue /\ op[i].step \notin InTabQueue /\ s \notin InTabQueue
              => TabStep(i)
         /\ draftQueue' = Append(draftQueue, i) /\ op[i].step \notin InDraftQueue
              /\ s \in InDraftQueue \ DraftWrites => DraftStep(i)
         /\ tabQueue' = Append(tabQueue, i) /\ op[i].step \notin InTabQueue
              /\ s \in InTabQueue \ TabWrites => TabStep(i)
         /\ draftQueue' = Tail(draftQueue) /\ op[i].step \in InDraftQueue
              /\ s \notin InDraftQueue /\ Head(draftQueue) = i => DraftStep(i)
         /\ tabQueue' = Tail(tabQueue) /\ op[i].step \in InTabQueue
              /\ s \notin InTabQueue /\ Head(tabQueue) = i => TabStep(i)
         /\ draftQueue' = draftQueue /\ op[i].step \in InDraftQueue
              /\ s \in InDraftQueue /\ Head(draftQueue) = i => DraftStep(i)
         /\ tabQueue' = tabQueue /\ op[i].step \in InTabQueue
              /\ s \in InTabQueue /\ Head(tabQueue) = i => TabStep(i)
  <1>1. DraftWrites \subseteq InDraftQueue /\ TabWrites \subseteq InTabQueue
    BY DEF DraftWrites, InDraftQueue, Writing, TabWrites, InTabQueue
  <1> QED
    BY <1>1 DEF DraftStep, TabStep, QueueStep

\* The head of a queue is the operation that writes.
LEMMA WriterIsHead ==
  ASSUME Shape, NEW i \in Ops
  PROVE  /\ op[i].step \in DraftWrites => Head(draftQueue) = i
         /\ op[i].step \in TabWrites => Head(tabQueue) = i
  BY DEF Shape, QueuesOK, QueueOK

\* A tab selection goes on after its flush.
LEMMA PickDoes ==
  ASSUME Shape, NEW i \in Ops, Pick(i)
  PROVE  /\ Same(i) /\ op[i].step = "pick" /\ activeTab' = activeTab
         /\ \/ /\ ContextCurrent(i) /\ tabQueue' = Append(tabQueue, i)
               /\ IF op[i].tab = curTab THEN Moves(i, "hereTurn") ELSE Moves(i, "tabTurn")
            \/ ~ContextCurrent(i) /\ Returns(i) /\ tabQueue' = tabQueue
  <1>1. /\ op[i].step = "pick" /\ Running(i) /\ Still /\ draftQueue' = draftQueue
        /\ activeTab' = activeTab
    BY TypedParts DEF Pick, At, Running, stores, disk, Still, DiskTyped
  <1>2. i # 1 /\ op[i].kind \in {"tab", "dropTab"}
    BY <1>1, Begun DEF StepsOf, Selecting, Loading, Fetching, Writing, Backs, Settles, Points
  <1>3. CASE ContextCurrent(i)
    <2>1. PICK s \in {"hereTurn", "tabTurn"} :
            /\ s = IF op[i].tab = curTab THEN "hereTurn" ELSE "tabTurn"
            /\ Goto(i, s) /\ tabQueue' = Append(tabQueue, i)
      BY <1>3 DEF Pick
    <2>2. Moves(i, s)
      BY <2>1, GotoMoves DEF Shape, Steps
    <2>3. op'[i].step = s
      BY <2>2 DEF Moves
    <2>4. DraftStep(i)
      BY <1>1, <2>3, Outside DEF InDraftQueue, Writing
    <2>5. TabStep(i)
      BY <1>1, <2>1, <2>3, Outside DEF InTabQueue, TabWrites
    <2>6. Same(i)
      BY <1>1, <1>2, <2>2, <2>4, <2>5, MovesSame
      DEF Steps, StepsOf, Selecting, Loading, Fetching, Writing, Backs
    <2> QED
      BY <1>1, <1>3, <2>1, <2>2, <2>6
  <1>4. CASE ~ContextCurrent(i)
    <2>1. Returned(i, curDraft) /\ tabQueue' = tabQueue
      BY <1>4 DEF Pick
    <2>2. Returns(i)
      BY <2>1, ReturnedReturns DEF Shape
    <2>3. op'[i].step \in {"settle", "point", "done"}
      BY <2>2, ReturnsProceeds
    <2>4. DraftStep(i) /\ TabStep(i)
      BY <1>1, <2>1, <2>3, Outside DEF InDraftQueue, Writing, InTabQueue
    <2>5. Same(i)
      BY <1>1, <1>2, <2>2, <2>4, ReturnsSame
    <2> QED
      BY <1>1, <1>4, <2>1, <2>2, <2>5
  <1> QED
    BY <1>3, <1>4

\* Which operations take a step.
LEMMA KindOf ==
  ASSUME Shape, NEW i \in Ops, Running(i)
  PROVE  /\ op[i].step \in Selecting \cup Backs => i # 1 /\ op[i].kind \in {"tab", "dropTab"}
         /\ op[i].step \in Points => i # 1 /\ op[i].kind = "dropTab"
         /\ op[i].step \in Settles => i # 1 /\ Deletes(i)
         /\ op[i].step = "refresh" => i # 1 /\ op[i].kind = "dropDraft"
         /\ op[i].step \in Writing => i # 1
         /\ op[i].step = "resolve" => i = 1
         /\ op[i].step \in Loading /\ i # 1 =>
              op[i].kind \in {"draft", "tab", "dropDraft", "dropTab"}
  <1>1. /\ i # 1 => op[i].kind # "open"
        /\ i = 1 => op[i].kind = "open" /\ op[i].step \in {"flush", "resolve", "read"}
        /\ op[i].step \in StepsOf(op[i].kind) /\ op[i].kind \in Kinds
    BY Begun
  <1> QED
    BY <1>1
    DEF StepsOf, Kinds, Selecting, Loading, Fetching, Writing, Backs, Settles, Points, Deletes

\* The end of a turn in the queue of tab writes.
AfterTab(i) ==
  IF op[i].step \in {"backTurn", "backWrite"} THEN Ends(i, TRUE)
  ELSE IF op[i].step \in {"tabTurn", "tabWrite"} /\ ContextCurrent(i) THEN Moves(i, "list")
  ELSE Returns(i)

LEMMA AfterTabSame ==
  ASSUME Shape, NEW i \in Ops, Running(i), Still, draftQueue' = draftQueue,
         op[i].step \in {"hereTurn", "hereWrite", "tabTurn", "tabWrite", "backTurn", "backWrite"},
         AfterTabWrite(i), tabQueue' = Tail(tabQueue), Head(tabQueue) = i
  PROVE  Same(i) /\ AfterTab(i) /\ op'[i].step \in {"list", "settle", "point", "done"}
  <1>1. i # 1 /\ op[i].kind \in {"tab", "dropTab"} /\ Typed
    BY KindOf DEF Selecting, Backs, Shape
  <1>2. op[i].step \in InTabQueue /\ op[i].step \notin InDraftQueue
    BY DEF InTabQueue, InDraftQueue, Writing
  <1>3. ASSUME op'[i].step \in {"list", "settle", "point", "done"}
        PROVE  DraftStep(i) /\ TabStep(i)
    BY <1>2, <1>3, Outside DEF InDraftQueue, Writing, InTabQueue
  <1>4. CASE op[i].step \in {"backTurn", "backWrite"}
    <2>1. Ends(i, TRUE)
      BY <1>1, <1>4, EndEnds DEF AfterTabWrite
    <2>2. op'[i].step = "done"
      BY <2>1 DEF Ends
    <2>3. Same(i)
      BY <1>1, <1>3, <2>1, <2>2, EndsSame
    <2> QED
      BY <1>4, <2>1, <2>2, <2>3 DEF AfterTab
  <1>5. CASE op[i].step \in {"tabTurn", "tabWrite"} /\ ContextCurrent(i)
    <2>1. Goto(i, "list")
      BY <1>5 DEF AfterTabWrite
    <2>2. Moves(i, "list")
      BY <1>1, <2>1, GotoMoves DEF Steps
    <2>3. op'[i].step = "list"
      BY <2>2 DEF Moves
    <2>4. "list" \in Steps /\ "list" \in StepsOf(op[i].kind) /\ "list" \in Selecting
          /\ op[i].step \in Selecting /\ "list" \notin Loading /\ "list" \notin Backs
      BY <1>1, <1>5 DEF Steps, StepsOf, Selecting, Loading, Fetching, Writing, Backs
    <2>5. DraftStep(i) /\ TabStep(i)
      BY <1>3, <2>3
    <2>6. Same(i)
      BY <1>1, <2>2, <2>4, <2>5, MovesSame
    <2> QED
      BY <1>5, <2>2, <2>3, <2>6 DEF AfterTab
  <1>6. CASE op[i].step \notin {"backTurn", "backWrite"}
             /\ ~(op[i].step \in {"tabTurn", "tabWrite"} /\ ContextCurrent(i))
    <2>1. Returned(i, curDraft)
      BY <1>6 DEF AfterTabWrite
    <2>2. Returns(i)
      BY <1>1, <2>1, ReturnedReturns
    <2>3. op'[i].step \in {"settle", "point", "done"}
      BY <2>2, ReturnsProceeds
    <2>4. Same(i)
      BY <1>1, <1>3, <2>2, <2>3, ReturnsSame
    <2> QED
      BY <1>6, <2>2, <2>3, <2>4 DEF AfterTab
  <1> QED
    BY <1>4, <1>5, <1>6

\* A turn in the queue of tab writes.
LEMMA TabTurnDoes ==
  ASSUME Shape, NEW i \in Ops, TabTurn(i)
  PROVE  /\ Same(i) /\ op[i].step \in {"hereTurn", "tabTurn", "backTurn"} /\ activeTab' = activeTab
         /\ \/ /\ CanSelectTab(op[i].tab) /\ tabQueue' = tabQueue
               /\ \/ op[i].step = "hereTurn" /\ Moves(i, "hereWrite")
                  \/ op[i].step = "tabTurn" /\ Moves(i, "tabWrite")
                  \/ op[i].step = "backTurn" /\ Moves(i, "backWrite")
            \/ ~CanSelectTab(op[i].tab) /\ AfterTab(i)
               /\ op'[i].step \in {"list", "settle", "point", "done"}
  <1>1. /\ op[i].step \in {"hereTurn", "tabTurn", "backTurn"} /\ Head(tabQueue) = i
        /\ Running(i) /\ Still /\ draftQueue' = draftQueue /\ activeTab' = activeTab
    BY TypedParts DEF TabTurn, Running, stores, disk, Still, DiskTyped
  <1>2. i # 1 /\ op[i].kind \in {"tab", "dropTab"} /\ Typed
    BY <1>1, KindOf DEF Selecting, Backs, Shape
  <1>3. CASE CanSelectTab(op[i].tab)
    <2>1. PICK s : s = CASE At(i, "hereTurn") -> "hereWrite" [] At(i, "tabTurn") -> "tabWrite"
                         [] OTHER -> "backWrite"
      OBVIOUS
    <2>2. Goto(i, s) /\ tabQueue' = tabQueue
      BY <1>3, <2>1 DEF TabTurn
    <2>3. \/ op[i].step = "hereTurn" /\ s = "hereWrite"
          \/ op[i].step = "tabTurn" /\ s = "tabWrite"
          \/ op[i].step = "backTurn" /\ s = "backWrite"
      BY <1>1, <2>1 DEF At
    <2>4. s \in Steps /\ s \in StepsOf(op[i].kind) /\ s \in InTabQueue /\ s \notin InDraftQueue
          /\ op[i].step \in InTabQueue /\ op[i].step \notin InDraftQueue /\ s \notin Loading
          /\ s \notin {"new", "done", "pointWrite", "settleWrite"}
          /\ (s \in Selecting => op[i].step \in Selecting)
          /\ (s \in Backs => op[i].step \in Backs)
          /\ (op[i].step \in Selecting => s \in Selecting)
      BY <1>2, <2>3
      DEF Steps, StepsOf, Selecting, Loading, Fetching, Writing, Backs, InTabQueue, InDraftQueue
    <2>5. Moves(i, s)
      BY <1>2, <2>2, <2>4, GotoMoves
    <2>6. op'[i].step = s
      BY <2>5 DEF Moves
    <2>7. DraftStep(i) /\ TabStep(i)
      BY <1>1, <2>2, <2>4, <2>6, Outside
    <2>8. Same(i)
      BY <1>1, <1>2, <2>4, <2>5, <2>7, MovesSame
    <2> QED
      BY <1>1, <1>3, <2>2, <2>3, <2>5, <2>8
  <1>4. CASE ~CanSelectTab(op[i].tab)
    <2>1. AfterTabWrite(i) /\ tabQueue' = Tail(tabQueue)
      BY <1>4 DEF TabTurn
    <2>2. Same(i) /\ AfterTab(i) /\ op'[i].step \in {"list", "settle", "point", "done"}
      BY <1>1, <2>1, AfterTabSame
    <2> QED
      BY <1>1, <1>4, <2>2
  <1> QED
    BY <1>3, <1>4

\* A tab is written.
LEMMA TabWrittenDoes ==
  ASSUME Shape, NEW i \in Ops, TabWritten(i)
  PROVE  /\ Same(i) /\ op[i].step \in {"hereWrite", "tabWrite", "backWrite"}
         /\ activeTab' = op[i].tab /\ tabQueue' = Tail(tabQueue) /\ Head(tabQueue) = i
         /\ AfterTab(i) /\ op'[i].step \in {"list", "settle", "point", "done"}
  <1>1. /\ op[i].step \in {"hereWrite", "tabWrite", "backWrite"} /\ Running(i)
        /\ draftQueue' = draftQueue /\ tabQueue' = Tail(tabQueue) /\ activeTab' = op[i].tab
        /\ AfterTabWrite(i)
    BY DEF TabWritten, Running
  <1>2. Head(tabQueue) = i
    BY <1>1, WriterIsHead DEF TabWrites
  <1>3. op[i].tab \in Tabs
    <2>1. op[i].kind # "open"
      BY <1>1, KindOf DEF Selecting, Backs
    <2> QED
      BY <1>1, <2>1 DEF Shape, OpOK, Selecting, Backs
  <1>4. Still
    BY <1>1, <1>3 DEF TabWritten, stores, Still
  <1> QED
    BY <1>1, <1>2, <1>4, AfterTabSame

\* A tab write fails.
LEMMA TabWriteFailsDoes ==
  ASSUME Shape, NEW i \in Ops, TabWriteFails(i)
  PROVE  Same(i) /\ Ends(i, TRUE) /\ op[i].kind \in {"tab", "dropTab"}
         /\ activeTab' = activeTab
  <1>1. /\ op[i].step \in {"hereWrite", "tabWrite", "backWrite", "pointTurn", "pointWrite"}
        /\ Head(tabQueue) = i /\ tabQueue' = Tail(tabQueue) /\ Running(i) /\ Still
        /\ draftQueue' = draftQueue /\ activeTab' = activeTab /\ End(i, TRUE)
    BY TypedParts DEF TabWriteFails, Running, stores, disk, Still, DiskTyped
  <1>2. i # 1 /\ op[i].kind \in {"tab", "dropTab"}
    BY <1>1, KindOf DEF Selecting, Backs, Points
  <1>3. Ends(i, TRUE)
    BY <1>1, EndEnds DEF Shape
  <1>4. op'[i].step = "done"
    BY <1>3 DEF Ends
  <1>5. DraftStep(i) /\ TabStep(i)
    BY <1>1, <1>4, Outside DEF InDraftQueue, Writing, InTabQueue
  <1> QED
    BY <1>1, <1>2, <1>3, <1>5, EndsSame

\* A call outside of a load fails.
LEMMA CallFailsDoes ==
  ASSUME Shape, NEW i \in Ops, i # 1, CallFails(i)
  PROVE  Same(i) /\ Ends(i, TRUE) /\ activeTab' = activeTab
         /\ (op[i].kind \in {"tab", "dropTab"} \/ Deletes(i))
  <1>1. /\ op[i].step \in {"pick", "list", "resolve", "back", "point", "settle", "drop"}
        /\ Running(i) /\ Still /\ activeTab' = activeTab
        /\ draftQueue' = draftQueue /\ tabQueue' = tabQueue /\ End(i, TRUE)
    BY TypedParts DEF CallFails, Running, stores, queues, disk, Still, DiskTyped
  <1>2. op[i].kind \in {"tab", "dropTab"} \/ Deletes(i)
    BY <1>1, KindOf DEF Selecting, Backs, Points, Settles
  <1>3. Ends(i, TRUE)
    BY <1>1, EndEnds DEF Shape
  <1>4. op'[i].step = "done"
    BY <1>3 DEF Ends
  <1>5. DraftStep(i) /\ TabStep(i)
    BY <1>1, <1>4, Outside DEF InDraftQueue, Writing, InTabQueue
  <1> QED
    BY <1>1, <1>2, <1>3, <1>5, EndsSame

\* A load goes on after its flush.
LEMMA FlushedDoes ==
  ASSUME Shape, NEW i \in Ops, i # 1, Flushed(i)
  PROVE  /\ Same(i) /\ op[i].step = "flush" /\ activeTab' = activeTab
         /\ draftQueue' = draftQueue /\ tabQueue' = tabQueue
         /\ IF LoadCurrent(i) THEN Moves(i, "read") ELSE Returns(i)
  <1>1. /\ op[i].step = "flush" /\ Running(i) /\ Typed
        /\ draftQueue' = draftQueue /\ tabQueue' = tabQueue /\ activeTab' = activeTab
    BY DEF Flushed, At, Running, queues, disk, Shape
  <1>2. op[i].kind \in {"draft", "tab", "dropDraft", "dropTab"}
    BY <1>1, KindOf DEF Loading, Fetching
  <1>3. Still
    BY <1>2, TypedParts DEF Flushed, stores, disk, Still, DiskTyped
  <1>4. CASE LoadCurrent(i)
    <2>1. Goto(i, "read")
      BY <1>2, <1>4 DEF Flushed
    <2>2. Moves(i, "read")
      BY <1>1, <2>1, GotoMoves DEF Steps
    <2>3. op'[i].step = "read"
      BY <2>2 DEF Moves
    <2>4. DraftStep(i) /\ TabStep(i)
      BY <1>1, <2>3, Outside DEF InDraftQueue, Writing, InTabQueue
    <2>5. "read" \in Steps /\ "read" \in StepsOf(op[i].kind) /\ op[i].step \in Loading
          /\ "read" \notin Selecting /\ "read" \notin Backs /\ op[i].step \notin Selecting
      BY <1>1, <1>2 DEF Steps, StepsOf, Selecting, Loading, Fetching, Writing, Backs
    <2>6. Same(i)
      BY <1>1, <1>3, <2>2, <2>4, <2>5, MovesSame
    <2> QED
      BY <1>1, <1>4, <2>2, <2>6
  <1>5. CASE ~LoadCurrent(i)
    <2>1. Returns(i)
      BY <1>1, <1>5, ReturnedReturns DEF Flushed
    <2>2. op'[i].step \in {"settle", "point", "done"}
      BY <2>1, ReturnsProceeds
    <2>3. DraftStep(i) /\ TabStep(i)
      BY <1>1, <2>2, Outside DEF InDraftQueue, Writing, InTabQueue
    <2>4. Same(i)
      BY <1>1, <1>3, <2>1, <2>3, ReturnsSame
    <2> QED
      BY <1>1, <1>5, <2>1, <2>4
  <1> QED
    BY <1>4, <1>5

\* What was read is to be shown.
LEMMA TakenMoves ==
  ASSUME Typed, NEW i \in Ops, NEW d \in Drafts, UNCHANGED bars,
         op' = [op EXCEPT ![i].step = "draftTurn", ![i].seen = logged[d]]
  PROVE  Moves(i, "draftTurn")
  <1>1. PICK r : r = [op[i] EXCEPT !.step = "draftTurn", !.seen = logged[d]]
    OBVIOUS
  <1>2. op[i] \in OpRec /\ logged[d] \in 0..MaxEdits
    BY DEF Typed
  <1>3. /\ r \in OpRec /\ r.step = "draftTurn"
        /\ r.kind = op[i].kind /\ r.tab = op[i].tab /\ r.draft = op[i].draft /\ r.gen = op[i].gen
        /\ r.ctx = op[i].ctx /\ r.prev = op[i].prev /\ r.gone = op[i].gone
        /\ r.settle = op[i].settle /\ r.failed = op[i].failed
    BY <1>1, <1>2 DEF OpRec, Steps
  <1>4. op' = [op EXCEPT ![i] = r]
    BY <1>1 DEF Typed
  <1>5. Others(i) /\ op'[i] = r
    BY <1>3, <1>4, Replaced
  <1> QED
    BY <1>3, <1>5 DEF Moves, Keeps, bars

LEMMA ReadDoes ==
  ASSUME Shape, NEW i \in Ops, i # 1, Read(i)
  PROVE  /\ Same(i) /\ op[i].step = "read" /\ activeTab' = activeTab /\ tabQueue' = tabQueue
         /\ IF LoadCurrent(i) THEN Moves(i, "draftTurn") /\ draftQueue' = Append(draftQueue, i)
            ELSE Returns(i) /\ draftQueue' = draftQueue
  <1>1. /\ op[i].step = "read" /\ Running(i) /\ Typed
        /\ tabQueue' = tabQueue /\ activeTab' = activeTab
    BY DEF Read, At, Running, disk, Shape
  <1>2. op[i].kind \in {"draft", "tab", "dropDraft", "dropTab"}
    BY <1>1, KindOf DEF Loading, Fetching
  <1>3. Still
    BY <1>2, TypedParts DEF Read, disk, Still, DiskTyped
  <1>4. CASE LoadCurrent(i)
    <2>1. /\ draftQueue' = Append(draftQueue, i) /\ UNCHANGED bars
          /\ op' = [op EXCEPT ![i].step = "draftTurn", ![i].seen = logged[op[i].draft]]
      BY <1>2, <1>4 DEF Read
    <2>2. op[i].draft \in Drafts
      BY <1>1, <1>2 DEF Shape, OpOK, Loading, Fetching
    <2>3. Moves(i, "draftTurn")
      BY <1>1, <2>1, <2>2, TakenMoves
    <2>4. op'[i].step = "draftTurn"
      BY <2>3 DEF Moves
    <2>5. DraftStep(i) /\ TabStep(i)
      BY <1>1, <2>1, <2>4, Outside DEF InDraftQueue, Writing, InTabQueue, DraftWrites
    <2>6. "draftTurn" \in Steps /\ "draftTurn" \in StepsOf(op[i].kind) /\ op[i].step \in Loading
          /\ "draftTurn" \notin Selecting /\ "draftTurn" \notin Backs /\ op[i].step \notin Selecting
      BY <1>1, <1>2 DEF Steps, StepsOf, Selecting, Loading, Fetching, Writing, Backs
    <2>7. Same(i)
      BY <1>1, <1>3, <2>3, <2>5, <2>6, MovesSame
    <2> QED
      BY <1>1, <1>4, <2>1, <2>3, <2>7
  <1>5. CASE ~LoadCurrent(i)
    <2>1. Returned(i, curDraft) /\ draftQueue' = draftQueue
      BY <1>5 DEF Read
    <2>2. Returns(i)
      BY <1>1, <2>1, ReturnedReturns
    <2>3. op'[i].step \in {"settle", "point", "done"}
      BY <2>2, ReturnsProceeds
    <2>4. DraftStep(i) /\ TabStep(i)
      BY <1>1, <2>1, <2>3, Outside DEF InDraftQueue, Writing, InTabQueue
    <2>5. Same(i)
      BY <1>1, <1>3, <2>2, <2>4, ReturnsSame
    <2> QED
      BY <1>1, <1>5, <2>1, <2>2, <2>5
  <1> QED
    BY <1>4, <1>5

\* The turn of a load's pointer write.
LEMMA DraftTurnDoes ==
  ASSUME Shape, NEW i \in Ops, DraftTurn(i)
  PROVE  /\ Same(i) /\ op[i].step = "draftTurn" /\ activeTab' = activeTab /\ tabQueue' = tabQueue
         /\ IF CanSelect(op[i].tab, op[i].draft)
            THEN Moves(i, "draftWrite") /\ draftQueue' = draftQueue
            ELSE Returns(i)
  <1>1. /\ op[i].step = "draftTurn" /\ Head(draftQueue) = i /\ Running(i) /\ Still /\ Typed
        /\ tabQueue' = tabQueue /\ activeTab' = activeTab
    BY TypedParts DEF DraftTurn, At, Running, stores, disk, Still, DiskTyped, Shape
  <1>2. i # 1
    BY <1>1, KindOf DEF Writing
  <1>3. op[i].kind \in {"draft", "tab", "dropDraft", "dropTab"}
    BY <1>1, <1>2, KindOf DEF Loading, Writing
  <1>4. CASE CanSelect(op[i].tab, op[i].draft)
    <2>1. Goto(i, "draftWrite") /\ draftQueue' = draftQueue
      BY <1>4 DEF DraftTurn
    <2>2. Moves(i, "draftWrite")
      BY <1>1, <2>1, GotoMoves DEF Steps
    <2>3. op'[i].step = "draftWrite"
      BY <2>2 DEF Moves
    <2>4. DraftStep(i) /\ TabStep(i)
      BY <1>1, <2>1, <2>3, Outside DEF InDraftQueue, Writing, InTabQueue
    <2>5. "draftWrite" \in Steps /\ "draftWrite" \in StepsOf(op[i].kind) /\ op[i].step \in Loading
          /\ "draftWrite" \notin Selecting /\ "draftWrite" \notin Backs /\ op[i].step \notin Selecting
      BY <1>1, <1>3 DEF Steps, StepsOf, Selecting, Loading, Fetching, Writing, Backs
    <2>6. Same(i)
      BY <1>1, <1>2, <2>2, <2>4, <2>5, MovesSame
    <2> QED
      BY <1>1, <1>4, <2>1, <2>2, <2>6
  <1>5. CASE ~CanSelect(op[i].tab, op[i].draft)
    <2>1. Returned(i, curDraft) /\ draftQueue' = Tail(draftQueue)
      BY <1>5 DEF DraftTurn
    <2>2. Returns(i)
      BY <1>1, <2>1, ReturnedReturns
    <2>3. op'[i].step \in {"settle", "point", "done"}
      BY <2>2, ReturnsProceeds
    <2>4. DraftStep(i) /\ TabStep(i)
      BY <1>1, <2>1, <2>3, Outside DEF InDraftQueue, Writing, InTabQueue
    <2>5. Same(i)
      BY <1>1, <1>2, <2>2, <2>4, ReturnsSame
    <2> QED
      BY <1>1, <1>5, <2>2, <2>5
  <1> QED
    BY <1>4, <1>5

\* The persisted tab is moved off the tab that goes.
LEMMA PointDoes ==
  ASSUME Shape, NEW i \in Ops, Point(i)
  PROVE  Same(i) /\ Moves(i, "pointTurn") /\ op[i].kind = "dropTab" /\ activeTab' = activeTab
  <1>1. /\ op[i].step = "point" /\ Running(i) /\ Still /\ Typed
        /\ draftQueue' = draftQueue /\ tabQueue' = Append(tabQueue, i) /\ activeTab' = activeTab
        /\ Goto(i, "pointTurn")
    BY TypedParts DEF Point, At, Running, stores, disk, Still, DiskTyped, Shape
  <1>2. i # 1 /\ op[i].kind = "dropTab"
    BY <1>1, KindOf DEF Points
  <1>3. Moves(i, "pointTurn")
    BY <1>1, GotoMoves DEF Steps
  <1>4. op'[i].step = "pointTurn"
    BY <1>3 DEF Moves
  <1>5. DraftStep(i) /\ TabStep(i)
    BY <1>1, <1>4, Outside DEF InDraftQueue, Writing, InTabQueue, TabWrites
  <1>6. "pointTurn" \in Steps /\ "pointTurn" \in StepsOf(op[i].kind) /\ op[i].step \notin Selecting
        /\ "pointTurn" \notin Selecting /\ "pointTurn" \notin Backs /\ "pointTurn" \notin Loading
    BY <1>1, <1>2 DEF Steps, StepsOf, Points, Selecting, Loading, Fetching, Writing, Backs
  <1>7. Same(i)
    BY <1>1, <1>2, <1>3, <1>5, <1>6, MovesSame
  <1> QED
    BY <1>1, <1>2, <1>3, <1>7

\* An operation goes on with another tab, or with what it is to settle.
LEMMA Retabbed ==
  ASSUME Typed, NEW i \in Ops, NEW s \in Steps, NEW t \in Tabs \cup {None},
         op' = [op EXCEPT ![i].step = s, ![i].tab = t]
  PROVE  Others(i) /\ Keeps(i) /\ op'[i].step = s /\ op'[i].tab = t
         /\ op'[i].settle = op[i].settle
  <1>1. PICK r : r = [op[i] EXCEPT !.step = s, !.tab = t]
    OBVIOUS
  <1>2. op[i] \in OpRec
    BY DEF Typed
  <1>3. /\ r \in OpRec /\ r.step = s /\ r.tab = t
        /\ r.kind = op[i].kind /\ r.draft = op[i].draft /\ r.gen = op[i].gen
        /\ r.ctx = op[i].ctx /\ r.prev = op[i].prev /\ r.gone = op[i].gone
        /\ r.settle = op[i].settle /\ r.failed = op[i].failed
    BY <1>1, <1>2 DEF OpRec
  <1>4. op' = [op EXCEPT ![i] = r]
    BY <1>1 DEF Typed
  <1>5. Others(i) /\ op'[i] = r
    BY <1>3, <1>4, Replaced
  <1> QED
    BY <1>3, <1>5 DEF Keeps

LEMMA Resettled ==
  ASSUME Typed, NEW i \in Ops, NEW p \in (Tabs \cup {None}) \X (Drafts \cup {None}),
         op' = [op EXCEPT ![i].step = "settleWrite", ![i].settle = p]
  PROVE  Others(i) /\ Keeps(i) /\ op'[i].step = "settleWrite" /\ op'[i].tab = op[i].tab
         /\ op'[i].settle = p
  <1>1. PICK r : r = [op[i] EXCEPT !.step = "settleWrite", !.settle = p]
    OBVIOUS
  <1>2. op[i] \in OpRec
    BY DEF Typed
  <1>3. /\ r \in OpRec /\ r.step = "settleWrite" /\ r.tab = op[i].tab
        /\ r.kind = op[i].kind /\ r.draft = op[i].draft /\ r.gen = op[i].gen
        /\ r.ctx = op[i].ctx /\ r.prev = op[i].prev /\ r.gone = op[i].gone
        /\ r.settle = p /\ r.failed = op[i].failed
    BY <1>1, <1>2 DEF OpRec, Steps
  <1>4. op' = [op EXCEPT ![i] = r]
    BY <1>1 DEF Typed
  <1>5. Others(i) /\ op'[i] = r
    BY <1>3, <1>4, Replaced
  <1> QED
    BY <1>3, <1>5 DEF Keeps

LEMMA PointTurnDoes ==
  ASSUME Shape, NEW i \in Ops, PointTurn(i)
  PROVE  Same(i) /\ op[i].kind = "dropTab" /\ op'[i].step \in {"pointWrite", "settle"}
         /\ activeTab' = activeTab /\ Goes(i)
  <1>1. /\ op[i].step = "pointTurn" /\ Head(tabQueue) = i /\ Running(i) /\ Still /\ Typed
        /\ draftQueue' = draftQueue /\ activeTab' = activeTab /\ UNCHANGED bars
    BY TypedParts DEF PointTurn, At, Running, stores, disk, Still, DiskTyped, Shape
  <1>2. i # 1 /\ op[i].kind = "dropTab" /\ curTab \in Tabs
    BY <1>1, KindOf, Begun DEF Points
  <1>3. CASE activeTab = op[i].gone /\ curTab # op[i].gone
    <2>1. op' = [op EXCEPT ![i].step = "pointWrite", ![i].tab = curTab] /\ tabQueue' = tabQueue
      BY <1>3 DEF PointTurn
    <2>2. /\ Others(i) /\ Keeps(i) /\ op'[i].step = "pointWrite" /\ op'[i].tab = curTab
      BY <1>1, <1>2, <2>1, Retabbed DEF Steps
    <2>3. DraftStep(i) /\ TabStep(i)
      BY <1>1, <2>1, <2>2, Outside DEF InDraftQueue, Writing, InTabQueue
    <2>4. Goes(i)
      BY <1>1, <1>2, <2>2 DEF Goes, Keeps, Running, bars
    <2>5. Along(i)
      BY <1>1, <2>2 DEF Along, Keeps, Selecting, Loading, Fetching, Writing
    <2>6. OpOK(i)'
      <3>1. OpOK(i)
        BY DEF Shape
      <3>2. /\ op'[i].kind = "dropTab" /\ op'[i].step = "pointWrite" /\ op'[i].tab \in Tabs
            /\ op'[i].gone = op[i].gone /\ op'[i].gen = op[i].gen /\ op'[i].ctx = op[i].ctx
            /\ op'[i].failed = op[i].failed /\ generation' = generation /\ context' = context
        BY <1>1, <1>2, <2>2 DEF Keeps, Still
      <3> QED
        BY <1>1, <1>2, <3>1, <3>2
        DEF OpOK, Running, At, StepsOf, Points, Selecting, Loading, Fetching, Writing, Backs
    <2> QED
      BY <1>1, <1>2, <2>2, <2>3, <2>4, <2>5, <2>6 DEF Same, Still, Proceeds
  <1>4. CASE ~(activeTab = op[i].gone /\ curTab # op[i].gone)
    <2>1. op' = [op EXCEPT ![i].step = "settle"] /\ tabQueue' = Tail(tabQueue)
      BY <1>4 DEF PointTurn
    <2>2. Moves(i, "settle")
      BY <1>1, <2>1, GotoMoves DEF Goto, Steps
    <2>3. op'[i].step = "settle"
      BY <2>2 DEF Moves
    <2>4. DraftStep(i) /\ TabStep(i)
      BY <1>1, <2>1, <2>3, Outside DEF InDraftQueue, Writing, InTabQueue
    <2>5. "settle" \in Steps /\ "settle" \in StepsOf(op[i].kind) /\ op[i].step \notin Selecting
          /\ "settle" \notin Selecting /\ "settle" \notin Backs /\ "settle" \notin Loading
      BY <1>1, <1>2 DEF Steps, StepsOf, Settles, Selecting, Loading, Fetching, Writing, Backs
    <2>6. Same(i)
      BY <1>1, <1>2, <2>2, <2>4, <2>5, MovesSame
    <2> QED
      BY <1>1, <1>2, <2>2, <2>3, <2>6, MovesGoes
  <1> QED
    BY <1>3, <1>4

LEMMA PointWrittenDoes ==
  ASSUME Shape, NEW i \in Ops, PointWritten(i)
  PROVE  Same(i) /\ op[i].kind = "dropTab" /\ Moves(i, "settle")
  <1>1. /\ op[i].step = "pointWrite" /\ Running(i) /\ Typed
        /\ draftQueue' = draftQueue /\ tabQueue' = Tail(tabQueue) /\ Goto(i, "settle")
    BY DEF PointWritten, At, Running, Shape
  <1>2. i # 1 /\ op[i].kind = "dropTab" /\ Head(tabQueue) = i
    BY <1>1, KindOf, WriterIsHead DEF Points, TabWrites
  <1>3. Still
    <2>1. op[i].tab \in Tabs
      BY <1>1 DEF Shape, OpOK, At
    <2> QED
      BY <2>1 DEF PointWritten, stores, Still
  <1>4. Moves(i, "settle")
    BY <1>1, GotoMoves DEF Steps
  <1>5. op'[i].step = "settle"
    BY <1>4 DEF Moves
  <1>6. DraftStep(i) /\ TabStep(i)
    BY <1>1, <1>2, <1>5, Outside DEF InDraftQueue, Writing, InTabQueue
  <1>7. "settle" \in Steps /\ "settle" \in StepsOf(op[i].kind) /\ op[i].step \notin Selecting
        /\ "settle" \notin Selecting /\ "settle" \notin Backs /\ "settle" \notin Loading
    BY <1>1, <1>2 DEF Steps, StepsOf, Settles, Selecting, Loading, Fetching, Writing, Backs
  <1>8. Same(i)
    BY <1>1, <1>2, <1>3, <1>4, <1>6, <1>7, MovesSame
  <1> QED
    BY <1>2, <1>4, <1>8

\* What the deletion has left on screen is written once more.
LEMMA SettleDoes ==
  ASSUME Shape, NEW i \in Ops, Settle(i)
  PROVE  Same(i) /\ Deletes(i) /\ Moves(i, "settleTurn")
  <1>1. /\ op[i].step = "settle" /\ Running(i) /\ Still /\ Typed
        /\ draftQueue' = Append(draftQueue, i) /\ tabQueue' = tabQueue /\ Goto(i, "settleTurn")
    BY TypedParts DEF Settle, At, Running, stores, disk, Still, DiskTyped, Shape
  <1>2. i # 1 /\ Deletes(i)
    BY <1>1, KindOf DEF Settles
  <1>3. Moves(i, "settleTurn")
    BY <1>1, GotoMoves DEF Steps
  <1>4. op'[i].step = "settleTurn"
    BY <1>3 DEF Moves
  <1>5. DraftStep(i) /\ TabStep(i)
    BY <1>1, <1>4, Outside DEF InDraftQueue, Writing, InTabQueue, DraftWrites
  <1>6. "settleTurn" \in Steps /\ "settleTurn" \in StepsOf(op[i].kind) /\ op[i].step \notin Selecting
        /\ "settleTurn" \notin Selecting /\ "settleTurn" \notin Backs /\ "settleTurn" \notin Loading
    BY <1>1, <1>2
    DEF Deletes, Steps, StepsOf, Settles, Selecting, Loading, Fetching, Writing, Backs
  <1>7. Same(i)
    BY <1>1, <1>2, <1>3, <1>5, <1>6, MovesSame
  <1> QED
    BY <1>2, <1>3, <1>7

\* The deletion goes on if the editor is off its target.
LEMMA SettledDoes ==
  ASSUME Shape, NEW i \in Ops, op[i].step \in {"settleTurn", "settleWrite"},
         Head(draftQueue) = i, tabQueue' = tabQueue, Settled(i),
         generation' = generation, context' = context
  PROVE  /\ i # 1 /\ Deletes(i) /\ Running(i) /\ Proceeds(i) /\ Along(i) /\ OpOK(i)'
         /\ DraftStep(i) /\ TabStep(i)
         /\ IF EditorIsOff(i) THEN Moves(i, "drop") ELSE Ends(i, FALSE)
  <1>1. Running(i) /\ Typed /\ draftQueue' = Tail(draftQueue)
        /\ generation' \in Nat /\ context' \in Nat /\ context <= context'
    BY TypedParts DEF Running, Shape, Settled
  <1>2. i # 1 /\ Deletes(i)
    BY <1>1, KindOf DEF Settles
  <1>3. CASE EditorIsOff(i)
    <2>1. Moves(i, "drop")
      BY <1>1, <1>3, GotoMoves DEF Steps, Settled
    <2>2. op'[i].step = "drop"
      BY <2>1 DEF Moves
    <2>3. DraftStep(i) /\ TabStep(i)
      BY <1>1, <2>2, Outside DEF InDraftQueue, Writing, InTabQueue
    <2>4. "drop" \in Steps /\ "drop" \in StepsOf(op[i].kind) /\ op[i].step \notin Selecting
          /\ "drop" \notin Selecting /\ "drop" \notin Backs /\ "drop" \notin Loading
      BY <1>1, <1>2
      DEF Deletes, Steps, StepsOf, Settles, Selecting, Loading, Fetching, Writing, Backs
    <2>5. OpOK(i)'
      BY <1>1, <1>2, <2>1, <2>4, MovesOp
    <2>6. Along(i)
      BY <2>1, <2>4 DEF Along, Moves, Keeps
    <2> QED
      BY <1>1, <1>2, <1>3, <2>1, <2>3, <2>5, <2>6, MovesGoes
  <1>4. CASE ~EditorIsOff(i)
    <2>1. Ends(i, FALSE)
      BY <1>1, <1>4, EndEnds DEF Settled
    <2>2. op'[i].step = "done"
      BY <2>1 DEF Ends
    <2>3. DraftStep(i) /\ TabStep(i)
      BY <1>1, <2>2, Outside DEF InDraftQueue, Writing, InTabQueue
    <2>4. OpOK(i)'
      BY <1>1, <2>1, EndsOp
    <2>5. Along(i)
      BY <2>1 DEF Along, Ends, Selecting, Loading, Fetching, Writing
    <2> QED
      BY <1>1, <1>2, <1>4, <2>1, <2>3, <2>4, <2>5 DEF Proceeds
  <1> QED
    BY <1>3, <1>4

LEMMA SettleTurnDoes ==
  ASSUME Shape, NEW i \in Ops, SettleTurn(i)
  PROVE  /\ Same(i) /\ Deletes(i) /\ op[i].step = "settleTurn"
         /\ \/ /\ curDraft # None /\ CanSelect(curTab, curDraft) /\ Goes(i)
               /\ op'[i].step = "settleWrite" /\ op'[i].tab = op[i].tab
               /\ op'[i].settle[1] = curTab /\ op'[i].settle[2] = curDraft
            \/ ~(curDraft # None /\ CanSelect(curTab, curDraft)) /\ Ends(i, FALSE)
            \/ /\ ~(curDraft # None /\ CanSelect(curTab, curDraft))
               /\ EditorIsOff(i) /\ Moves(i, "drop")
  <1>1. /\ op[i].step = "settleTurn" /\ Head(draftQueue) = i /\ Running(i) /\ Still /\ Typed
        /\ tabQueue' = tabQueue
    BY TypedParts DEF SettleTurn, At, Running, stores, disk, Still, DiskTyped, Shape
  <1>2. i # 1 /\ Deletes(i) /\ curTab \in Tabs /\ op[i].kind \in {"dropDraft", "dropTab"}
    BY <1>1, KindOf, Begun DEF Settles, Deletes
  <1>3. CASE curDraft # None /\ CanSelect(curTab, curDraft)
    <2>1. /\ op' = [op EXCEPT ![i].step = "settleWrite", ![i].settle = <<curTab, curDraft>>]
          /\ UNCHANGED <<bars, draftQueue>>
      BY <1>3 DEF SettleTurn
    <2>2. curDraft \in Drafts
      BY <1>1, <1>3 DEF Typed
    <2>3. /\ Others(i) /\ Keeps(i) /\ op'[i].step = "settleWrite" /\ op'[i].tab = op[i].tab
          /\ op'[i].settle[1] = curTab /\ op'[i].settle[2] = curDraft
      <3>0. PICK p : p = <<curTab, curDraft>>
        OBVIOUS
      <3>1. Typed /\ curTab \in Tabs \cup {None} /\ curDraft \in Drafts \cup {None}
        BY <1>1, <1>2, <2>2
      <3>2. op' = [op EXCEPT ![i].step = "settleWrite", ![i].settle = p]
        BY <2>1, <3>0
      <3>3. p \in (Tabs \cup {None}) \X (Drafts \cup {None}) /\ p[1] = curTab /\ p[2] = curDraft
        BY <3>0, <3>1
      <3>4. /\ Others(i) /\ Keeps(i) /\ op'[i].step = "settleWrite" /\ op'[i].tab = op[i].tab
            /\ op'[i].settle = p
        BY <3>1, <3>2, <3>3, Resettled
      <3> QED
        BY <3>3, <3>4
    <2>4. DraftStep(i) /\ TabStep(i)
      BY <1>1, <2>1, <2>3, Outside DEF InDraftQueue, InTabQueue
    <2>5. Goes(i)
      BY <1>1, <1>2, <2>1, <2>3 DEF Goes, Keeps, Running, bars
    <2>6. Along(i)
      BY <1>1, <2>3 DEF Along, Keeps, Selecting, Loading, Fetching, Writing
    <2>7. OpOK(i)'
      <3>1. OpOK(i)
        BY DEF Shape
      <3>2. /\ op'[i].kind = op[i].kind /\ op'[i].step = "settleWrite" /\ op'[i].tab = op[i].tab
            /\ op'[i].gone = op[i].gone /\ op'[i].gen = op[i].gen /\ op'[i].ctx = op[i].ctx
            /\ op'[i].failed = op[i].failed /\ generation' = generation /\ context' = context
            /\ op'[i].settle[1] \in Tabs /\ op'[i].settle[2] \in Drafts
        BY <1>1, <1>2, <2>2, <2>3 DEF Keeps, Still
      <3> QED
        BY <1>1, <1>2, <3>1, <3>2
        DEF OpOK, Running, At, StepsOf, Settles, Selecting, Loading, Fetching, Writing, Backs
    <2>8. Same(i)
      BY <1>1, <1>2, <2>4, <2>5, <2>6, <2>7 DEF Same, Still, Proceeds
    <2> QED
      BY <1>1, <1>2, <1>3, <2>3, <2>5, <2>8
  <1>4. CASE ~(curDraft # None /\ CanSelect(curTab, curDraft))
    <2>1. Settled(i)
      BY <1>4 DEF SettleTurn
    <2>2. generation' = generation /\ context' = context
      BY <1>1 DEF Still
    <2>3. /\ Proceeds(i) /\ Along(i) /\ OpOK(i)' /\ DraftStep(i) /\ TabStep(i)
          /\ IF EditorIsOff(i) THEN Moves(i, "drop") ELSE Ends(i, FALSE)
      BY <1>1, <2>1, <2>2, SettledDoes
    <2>4. Same(i)
      BY <1>1, <1>2, <2>3 DEF Same, Still
    <2> QED
      BY <1>1, <1>2, <1>4, <2>3, <2>4
  <1> QED
    BY <1>3, <1>4

\* A step of an operation that shows or stores something.
Turns(i) ==
  /\ i # 1 /\ Running(i) /\ Proceeds(i) /\ Along(i) /\ OpOK(i)'
  /\ DraftStep(i) /\ TabStep(i) /\ generation' = generation /\ context' = context

LEMMA TurnShape ==
  ASSUME Shape, NEW i \in Ops, Turns(i), StoresTyped', DiskTyped', DiskOK', Shrinks(i),
         curTab' \in Tabs,
         op[i].step \in Selecting /\ NoDeletions =>
           UNCHANGED <<screen, liveDrafts, liveTabs, curTab, activeDraft>>
  PROVE  Shape'
  <1>1. /\ i # 1 /\ Running(i) /\ Proceeds(i) /\ OpOK(i)' /\ DraftStep(i) /\ TabStep(i)
        /\ generation' = generation /\ context' = context
    BY DEF Turns
  <1>2. /\ op'[i].ctx \in {op[i].ctx, 0}
        /\ op'[i].step \in Selecting =>
             op[i].step \in Selecting /\ op'[i].tab = op[i].tab /\ op'[i].ctx = op[i].ctx
        /\ op'[i].step \in Loading => op[i].step \in Loading /\ op'[i].gen = op[i].gen
        /\ op[i].step \in Selecting /\ ~Deletes(i) => op'[i].step \in Selecting \cup {"done"}
    BY DEF Turns, Along
  <1>3. generation' \in Nat /\ generation <= generation' /\ context' \in Nat /\ context <= context'
    BY <1>1, TypedParts
  <1>4. OpenOK'
    BY <1>1, <1>2, <1>3, OpenKept DEF NoDeletions
  <1>5. TabsOK'
    <2>1. op'[i].step \in Selecting =>
            op[i].step \in Selecting /\ op'[i].tab = op[i].tab /\ op'[i].ctx = op[i].ctx
      BY <1>2
    <2>2. Running(i) /\ Proceeds(i) /\ context' = context
      BY <1>1
    <2> QED
      BY <2>1, <2>2, TabsKept
  <1> QED
    BY <1>1, <1>2, <1>3, <1>4, <1>5, ShapeKept

LEMMA ReturnsTurns ==
  ASSUME Shape, NEW i \in Ops, i # 1, Running(i), Returns(i), DraftStep(i), TabStep(i),
         generation' = generation, context' = context
  PROVE  Turns(i)
  BY ReturnsOp, ReturnsProceeds DEF Turns

LEMMA EndsTurns ==
  ASSUME Shape, NEW i \in Ops, i # 1, Running(i), NEW f \in BOOLEAN, Ends(i, f),
         DraftStep(i), TabStep(i), generation' = generation, context' = context
  PROVE  Turns(i)
  <1>1. generation' \in Nat /\ context' \in Nat
    BY TypedParts
  <1>2. OpOK(i)'
    BY <1>1, EndsOp
  <1>3. Along(i)
    BY DEF Along, Ends, Selecting, Loading, Fetching, Writing
  <1> QED
    BY <1>2, <1>3 DEF Turns, Proceeds

\* A pointer to a draft is written.
LEMMA PointerWritten ==
  ASSUME Shape, NEW t \in Tabs, NEW d \in DraftsIn(t), NoDeletions' <=> NoDeletions,
         activeDraft' = [activeDraft EXCEPT ![t] = d], UNCHANGED <<liveDrafts, liveTabs>>
  PROVE  DiskOK' /\ activeDraft' \in [Tabs -> Drafts]
         /\ activeDraft'[t] = d /\ \A u \in Tabs : u # t => activeDraft'[u] = activeDraft[u]
  <1>1. DiskOK /\ activeDraft \in [Tabs -> Drafts] /\ d \in Drafts /\ TabOf[d] = t
        /\ liveDrafts \subseteq Drafts
    BY DEF Shape, Typed, DraftsIn
  <1>2. /\ activeDraft' \in [Tabs -> Drafts] /\ activeDraft'[t] = d
        /\ \A u \in Tabs : u # t => activeDraft'[u] = activeDraft[u]
    BY <1>1
  <1>3. \A u \in Tabs : TabOf[activeDraft'[u]] = u
    BY <1>1, <1>2 DEF DiskOK
  <1> QED
    BY <1>1, <1>2, <1>3 DEF DiskOK, DraftsIn

LEMMA SettleWrittenDoes ==
  ASSUME Shape, NEW i \in Ops, SettleWritten(i)
  PROVE  /\ Shape' /\ Turns(i) /\ Deletes(i) /\ op[i].step = "settleWrite"
         /\ UNCHANGED <<curTab, curDraft, listed, screen, shown, activeTab, liveDrafts, liveTabs,
                        logged>>
         /\ \/ Ends(i, FALSE)
            \/ EditorIsOff(i) /\ Moves(i, "drop") /\ TabOf[op[i].settle[2]] = op[i].settle[1]
  <1> DEFINE t == op[i].settle[1]
             d == op[i].settle[2]
  <1>1. /\ op[i].step = "settleWrite" /\ Running(i) /\ Typed
        /\ tabQueue' = tabQueue /\ generation' = generation /\ context' = context
        /\ UNCHANGED <<curTab, curDraft, listed, screen, shown, activeTab, liveDrafts, liveTabs,
                       logged>>
    BY DEF SettleWritten, At, Running, Shape, stores
  <1>2. i # 1 /\ Deletes(i) /\ Head(draftQueue) = i /\ curTab \in Tabs /\ t \in Tabs /\ d \in Drafts
    BY <1>1, KindOf, Begun, WriterIsHead DEF Settles, DraftWrites, Shape, OpOK, At
  <1>3. op[i].step \notin Selecting
    BY <1>1 DEF Selecting
  <1>4. StoresTyped'
    BY <1>1, TypedParts DEF StoresTyped
  <1>5. Shrinks(i)
    BY <1>1 DEF Shrinks
  <1>6. CASE d \in DraftsIn(t)
    <2>1. Settled(i) /\ activeDraft' = [activeDraft EXCEPT ![t] = d]
      BY <1>6 DEF SettleWritten
    <2>2. /\ Proceeds(i) /\ Along(i) /\ OpOK(i)' /\ DraftStep(i) /\ TabStep(i)
          /\ IF EditorIsOff(i) THEN Moves(i, "drop") ELSE Ends(i, FALSE)
      BY <1>1, <1>2, <2>1, SettledDoes
    <2>3. Turns(i)
      BY <1>1, <1>2, <2>2 DEF Turns
    <2>4. NoDeletions' <=> NoDeletions
      BY <2>2, KindsStay
    <2>5. DiskOK' /\ activeDraft' \in [Tabs -> Drafts]
      <3> HIDE DEF t, d
      <3> QED
        BY <1>1, <1>2, <1>6, <2>1, <2>4, PointerWritten
    <2>6. DiskTyped'
      BY <1>1, <2>5, TypedParts DEF DiskTyped
    <2>7. Shape'
      BY <1>1, <1>2, <1>3, <1>4, <1>5, <2>3, <2>5, <2>6, TurnShape
    <2>8. TabOf[d] = t
      BY <1>6 DEF DraftsIn
    <2> QED
      BY <1>1, <1>2, <2>2, <2>3, <2>7, <2>8
  <1>7. CASE d \notin DraftsIn(t)
    <2>1. End(i, FALSE) /\ draftQueue' = Tail(draftQueue) /\ activeDraft' = activeDraft
      BY <1>7 DEF SettleWritten
    <2>2. Ends(i, FALSE)
      BY <1>1, <2>1, EndEnds
    <2>3. op'[i].step = "done"
      BY <2>2 DEF Ends
    <2>4. DraftStep(i) /\ TabStep(i)
      BY <1>1, <1>2, <2>1, <2>3, Outside DEF InDraftQueue, Writing, InTabQueue
    <2>5. Turns(i)
      BY <1>1, <1>2, <2>2, <2>4, EndsTurns
    <2>6. NoDeletions' <=> NoDeletions
      BY <2>2, KindsStay DEF Proceeds
    <2>7. DiskOK' /\ DiskTyped'
      BY <1>1, <2>1, <2>6, TypedParts DEF DiskOK, DraftsIn, DiskTyped, Shape
    <2>8. Shape'
      BY <1>1, <1>2, <1>3, <1>4, <1>5, <2>5, <2>7, TurnShape
    <2> QED
      BY <1>1, <1>2, <2>2, <2>5, <2>8
  <1> QED
    BY <1>6, <1>7

\* The draft of a load is written, and shown unless the tab moved or the draft is barred.
LEMMA DraftWrittenDoes ==
  ASSUME Shape, NEW i \in Ops, DraftWritten(i)
  PROVE  /\ Shape' /\ Turns(i) /\ Returns(i) /\ op[i].step = "draftWrite"
         /\ op[i].tab \in Tabs /\ op[i].draft \in DraftsIn(op[i].tab)
         /\ draftQueue' = Tail(draftQueue) /\ Head(draftQueue) = i /\ tabQueue' = tabQueue
         /\ activeDraft'[op[i].tab] = op[i].draft
         /\ \A u \in Tabs : u # op[i].tab => activeDraft'[u] = activeDraft[u]
         /\ UNCHANGED <<curTab, listed, activeTab, liveDrafts, liveTabs, logged>>
         /\ IF curTab = op[i].tab /\ CanSelect(op[i].tab, op[i].draft)
            THEN screen' = op[i].draft ELSE screen' = screen
  <1>1. /\ op[i].step = "draftWrite" /\ Running(i) /\ Typed /\ op[i].draft \in DraftsIn(op[i].tab)
        /\ draftQueue' = Tail(draftQueue) /\ tabQueue' = tabQueue
        /\ generation' = generation /\ context' = context
        /\ activeDraft' = [activeDraft EXCEPT ![op[i].tab] = op[i].draft]
        /\ UNCHANGED <<curTab, listed, activeTab, liveDrafts, liveTabs, logged>>
        /\ Returned(i, curDraft')
    BY DEF DraftWritten, At, Running, Shape
  <1>2. i # 1 /\ Head(draftQueue) = i /\ curTab \in Tabs
    BY <1>1, KindOf, Begun, WriterIsHead DEF Writing, DraftWrites
  <1>3. op[i].kind # "open" /\ op[i].step \in Loading /\ op[i].step \notin Selecting
    BY <1>1, <1>2, KindOf DEF Writing, Loading, Fetching, Selecting
  <1>4. op[i].tab \in Tabs /\ op[i].draft \in Drafts
    BY <1>3 DEF Shape, OpOK
  <1>5. Returns(i)
    BY <1>1, ReturnedReturns
  <1>6. op'[i].step \in {"settle", "point", "done"} /\ Proceeds(i)
    BY <1>5, ReturnsProceeds
  <1>7. DraftStep(i) /\ TabStep(i)
    BY <1>1, <1>2, <1>6, Outside DEF InDraftQueue, Writing, InTabQueue
  <1>8. Turns(i)
    BY <1>1, <1>2, <1>5, <1>7, ReturnsTurns
  <1>9. NoDeletions' <=> NoDeletions
    BY <1>6, KindsStay
  <1>10. /\ DiskOK' /\ activeDraft' \in [Tabs -> Drafts]
         /\ activeDraft'[op[i].tab] = op[i].draft
         /\ \A u \in Tabs : u # op[i].tab => activeDraft'[u] = activeDraft[u]
    BY <1>1, <1>4, <1>9, PointerWritten
  <1>11. DiskTyped'
    BY <1>1, <1>10, TypedParts DEF DiskTyped
  <1>12. /\ StoresTyped'
         /\ IF curTab = op[i].tab /\ CanSelect(op[i].tab, op[i].draft)
            THEN screen' = op[i].draft ELSE screen' = screen
    <2>1. op[i].seen \in 0..MaxEdits /\ StoresTyped
      BY <1>1, TypedParts DEF Typed, OpRec
    <2>2. CASE curTab = op[i].tab /\ CanSelect(op[i].tab, op[i].draft)
      <3>1. screen' = op[i].draft /\ curDraft' = op[i].draft /\ shown' = op[i].seen
        BY <2>2 DEF DraftWritten, Commit
      <3> QED
        BY <1>1, <1>4, <2>1, <2>2, <3>1 DEF StoresTyped
    <2>3. CASE ~(curTab = op[i].tab /\ CanSelect(op[i].tab, op[i].draft))
      <3>1. screen' = screen /\ curDraft' = curDraft /\ shown' = shown
        BY <2>3 DEF DraftWritten
      <3> QED
        BY <1>1, <2>1, <2>3, <3>1 DEF StoresTyped
    <2> QED
      BY <2>2, <2>3
  <1>13. Shrinks(i)
    BY <1>1 DEF Shrinks
  <1>14. Shape'
    BY <1>1, <1>2, <1>3, <1>8, <1>10, <1>11, <1>12, <1>13, TurnShape
  <1> QED
    BY <1>1, <1>2, <1>4, <1>5, <1>8, <1>10, <1>12, <1>14

\* A load has thrown.
LEMMA RejectsOp ==
  ASSUME Shape, NEW i \in Ops, Running(i), Rejects(i), generation' = generation,
         context' = context, op'[i].step # "done" => op'[i].tab \in Tabs
  PROVE  OpOK(i)'
  <1>1. /\ generation' \in Nat /\ context' \in Nat /\ OpOK(i)
        /\ generation' = generation /\ context' = context
    BY TypedParts DEF Shape
  <1>2. CASE Ends(i, TRUE)
    BY <1>1, <1>2, EndsOp
  <1>3. CASE ~Ends(i, TRUE)
    <2>1. /\ op[i].kind \in {"tab", "dropTab"} /\ Keeps(i) /\ op'[i].step \in {"back", "backTurn"}
      BY <1>3 DEF Rejects
    <2>2. /\ op'[i].kind = op[i].kind /\ op'[i].tab \in Tabs /\ op'[i].gone = op[i].gone
          /\ op'[i].gen = op[i].gen /\ op'[i].ctx = op[i].ctx /\ op'[i].failed = op[i].failed
      BY <2>1 DEF Keeps
    <2>3. op[i].step # "new" /\ op[i].step # "done"
      BY DEF Running
    <2> QED
      BY <1>1, <2>1, <2>2, <2>3
      DEF OpOK, Running, At, StepsOf, Selecting, Loading, Fetching, Writing, Backs
  <1> QED
    BY <1>2, <1>3

LEMMA ThrowDoes ==
  ASSUME Shape, NEW i \in Ops, i # 1, op[i].step \in {"flush", "read", "draftWrite"}, NEW t,
         LoadThrew(i, t), t = curTab \/ (screen # None /\ t = TabOf[screen]),
         IF op[i].step = "draftWrite" THEN draftQueue' = Tail(draftQueue)
                                      ELSE draftQueue' = draftQueue,
         UNCHANGED <<screen, shown, generation, context, disk>>, curDraft' = screen
  PROVE  /\ Shape' /\ Turns(i) /\ (Ends(i, TRUE) \/ Backing(i)')
         /\ UNCHANGED <<screen, activeTab, activeDraft, liveDrafts, liveTabs>>
         /\ op[i].kind \notin {"tab", "dropTab"} =>
              Ends(i, TRUE) /\ listed' = listed /\ tabQueue' = tabQueue /\ curTab' = t
  <1>1. /\ op[i].step \in {"flush", "read", "draftWrite"} /\ Running(i) /\ Typed
        /\ op[i].step \in Loading /\ op[i].step \notin Selecting
        /\ UNCHANGED <<screen, activeTab, activeDraft, liveDrafts, liveTabs, shown, logged>>
        /\ generation' = generation /\ context' = context /\ curDraft' = screen'
    BY DEF Running, Shape, Loading, Fetching, Writing, Selecting, disk
  <1>2. curTab \in Tabs /\ t \in Tabs
    <2>1. curTab \in Tabs
      BY <1>1, Begun
    <2>2. screen # None => TabOf[screen] \in Tabs
      BY <1>1, LoaderConstants DEF Typed
    <2> QED
      BY <2>1, <2>2
  <1>3. /\ Rejects(i)
        /\ \/ Ends(i, TRUE) /\ curTab' = t /\ listed' = listed /\ tabQueue' = tabQueue
           \/ /\ op[i].kind \in {"tab", "dropTab"} /\ curTab' = op'[i].tab
              /\ curTab' \in {t, op[i].prev}
              /\ \/ At(i, "backTurn")' /\ listed' = op[i].prevListed /\ tabQueue' = Append(tabQueue, i)
                 \/ At(i, "back")' /\ listed' = listed /\ tabQueue' = tabQueue
    BY <1>1, <1>2, ThrewRejects
  <1>4. op[i].kind \in {"tab", "dropTab"} => op[i].prev \in Tabs
    BY <1>1 DEF Shape, OpOK
  <1>5. /\ curTab' \in Tabs /\ (op'[i].step # "done" => op'[i].tab \in Tabs)
        /\ Ends(i, TRUE) \/ Backing(i)'
        /\ op'[i].step \in {"back", "backTurn", "done"}
    BY <1>2, <1>3, <1>4 DEF Ends, At, Backing
  <1>6. listed' \subseteq Drafts
    BY <1>1, <1>3 DEF Typed, OpRec
  <1>7. op'[i].kind = op[i].kind /\ Proceeds(i) /\ op'[i].ctx \in {op[i].ctx, 0}
    BY <1>3, RejectsProceeds
  <1>8. OpOK(i)'
    BY <1>1, <1>3, <1>5, RejectsOp
  <1>9. DraftStep(i)
    <2>1. CASE op[i].step = "draftWrite"
      <3>1. Head(draftQueue) = i /\ draftQueue' = Tail(draftQueue)
        BY <2>1, WriterIsHead DEF DraftWrites
      <3> QED
        BY <1>1, <1>5, <2>1, <3>1, Outside DEF InDraftQueue, Writing
    <2>2. CASE op[i].step # "draftWrite"
      <3>1. draftQueue' = draftQueue
        BY <2>2
      <3> QED
        BY <1>1, <1>5, <2>2, <3>1, Outside DEF InDraftQueue, Writing
    <2> QED
      BY <2>1, <2>2
  <1>10. TabStep(i)
    <2>1. CASE At(i, "backTurn")' /\ tabQueue' = Append(tabQueue, i)
      BY <1>1, <2>1, Outside DEF InTabQueue, TabWrites, At
    <2>2. CASE op'[i].step \in {"back", "done"} /\ tabQueue' = tabQueue
      BY <1>1, <2>2, Outside DEF InTabQueue
    <2> QED
      BY <1>3, <2>1, <2>2 DEF At, Ends
  <1>11. Along(i)
    BY <1>1, <1>5, <1>7 DEF Along, Loading, Fetching, Writing, Selecting
  <1>12. Turns(i)
    BY <1>1, <1>7, <1>8, <1>9, <1>10, <1>11 DEF Turns
  <1>13. NoDeletions' <=> NoDeletions
    BY <1>7, KindsStay
  <1>14. DiskOK' /\ DiskTyped'
    BY <1>1, <1>13, TypedParts DEF DiskOK, DraftsIn, DiskTyped, Shape
  <1>15. StoresTyped'
    BY <1>1, <1>5, <1>6, TypedParts DEF StoresTyped
  <1>16. Shrinks(i)
    BY <1>1 DEF Shrinks
  <1>17. Shape'
    BY <1>1, <1>5, <1>12, <1>14, <1>15, <1>16, TurnShape
  <1> QED
    BY <1>1, <1>3, <1>5, <1>12, <1>17

LEMMA LoadFailsDoes ==
  ASSUME Shape, NEW i \in Ops, i # 1, FlushFails(i) \/ ReadFails(i) \/ DraftWriteFails(i)
  PROVE  /\ Shape' /\ Turns(i) /\ (Ends(i, TRUE) \/ Backing(i)')
         /\ UNCHANGED <<screen, activeTab, activeDraft, liveDrafts, liveTabs>>
         /\ op[i].kind \notin {"tab", "dropTab"} =>
              /\ Ends(i, TRUE) /\ listed' = listed /\ tabQueue' = tabQueue
              /\ curTab' = curTab \/ (screen # None /\ curTab' = TabOf[screen])
  <1>1. curDraft = screen
    BY DEF Shape
  <1>2. CASE FlushFails(i)
    <2>1. PICK t : t = IF op[i].gen = generation /\ screen # None THEN TabOf[screen] ELSE curTab
      OBVIOUS
    <2>2. LoadThrew(i, t) /\ op[i].step = "flush" /\ draftQueue' = draftQueue
          /\ UNCHANGED <<screen, shown, generation, context, disk>> /\ curDraft' = screen
      BY <1>1, <1>2, <2>1 DEF FlushFails, At
    <2>3. t = curTab \/ (screen # None /\ t = TabOf[screen])
      BY <2>1
    <2> QED
      BY <2>2, <2>3, ThrowDoes
  <1>3. CASE ReadFails(i)
    <2>1. LoadThrew(i, curTab) /\ op[i].step = "read" /\ draftQueue' = draftQueue
          /\ UNCHANGED <<screen, shown, generation, context, disk>> /\ curDraft' = screen
      BY <1>1, <1>3 DEF ReadFails, At
    <2> QED
      BY <2>1, ThrowDoes
  <1>4. CASE DraftWriteFails(i)
    <2>1. LoadThrew(i, curTab) /\ op[i].step = "draftWrite" /\ draftQueue' = Tail(draftQueue)
          /\ UNCHANGED <<screen, shown, generation, context, disk>> /\ curDraft' = screen
      BY <1>1, <1>4 DEF DraftWriteFails, At
    <2> QED
      BY <2>1, ThrowDoes
  <1> QED
    BY <1>2, <1>3, <1>4

\* A rollback lists the tab it goes back to.
LEMMA BackDoes ==
  ASSUME Shape, NEW i \in Ops, Back(i)
  PROVE  Shape' /\ Turns(i) /\ (Ends(i, TRUE) \/ Backing(i)') /\ op[i].kind \in {"tab", "dropTab"}
  <1>1. /\ op[i].step = "back" /\ Running(i) /\ Typed /\ draftQueue' = draftQueue
        /\ UNCHANGED <<curTab, curDraft, screen, shown, activeTab, activeDraft, liveDrafts,
                       liveTabs, logged>>
        /\ generation' = generation /\ context' = context
    BY DEF Back, At, Running, Shape, disk
  <1>2. i # 1 /\ op[i].kind \in {"tab", "dropTab"} /\ curTab \in Tabs /\ op[i].step \notin Selecting
    BY <1>1, KindOf, Begun DEF Backs, Selecting
  <1>3. /\ Turns(i) /\ (Ends(i, TRUE) \/ Backing(i)') /\ listed' \subseteq Drafts
    <2>1. CASE ContextCurrent(i)
      <3>1. listed' = DraftsIn(op[i].tab) /\ tabQueue' = Append(tabQueue, i) /\ Goto(i, "backTurn")
        BY <1>1, <2>1 DEF Back
      <3>2. Moves(i, "backTurn")
        BY <1>1, <3>1, GotoMoves DEF Steps
      <3>3. op'[i].step = "backTurn"
        BY <3>2 DEF Moves
      <3>4. DraftStep(i) /\ TabStep(i)
        BY <1>1, <3>1, <3>3, Outside DEF InDraftQueue, Writing, InTabQueue, TabWrites
      <3>5. "backTurn" \in Steps /\ "backTurn" \in StepsOf(op[i].kind)
            /\ "backTurn" \notin Selecting /\ "backTurn" \notin Loading
            /\ op[i].step \in Backs /\ op[i].step \notin Selecting
        BY <1>1, <1>2 DEF Steps, StepsOf, Selecting, Loading, Fetching, Writing, Backs
      <3>6. OpOK(i)'
        BY <1>1, <1>2, <3>2, <3>5, MovesOp, TypedParts
      <3>7. Proceeds(i)
        BY <3>2, MovesGoes
      <3>8. Along(i)
        BY <3>2, <3>5 DEF Along, Moves, Keeps
      <3>9. listed' \subseteq Drafts
        BY <1>1, <3>1 DEF Typed, DraftsIn
      <3>10. Backing(i)'
        BY <3>3 DEF Backing
      <3> QED
        BY <1>1, <1>2, <3>4, <3>6, <3>7, <3>8, <3>9, <3>10 DEF Turns
    <2>2. CASE ~ContextCurrent(i)
      <3>1. End(i, TRUE) /\ listed' = listed /\ tabQueue' = tabQueue
        BY <1>1, <2>2 DEF Back
      <3>2. Ends(i, TRUE)
        BY <1>1, <3>1, EndEnds
      <3>3. op'[i].step = "done"
        BY <3>2 DEF Ends
      <3>4. DraftStep(i) /\ TabStep(i)
        BY <1>1, <3>1, <3>3, Outside DEF InDraftQueue, Writing, InTabQueue
      <3>5. Turns(i)
        BY <1>1, <1>2, <3>2, <3>4, EndsTurns
      <3> QED
        BY <1>1, <3>1, <3>2, <3>5 DEF Typed
    <2> QED
      BY <2>1, <2>2
  <1>4. NoDeletions' <=> NoDeletions
    BY <1>3, KindsStay DEF Turns
  <1>5. DiskOK' /\ DiskTyped'
    BY <1>1, <1>4, TypedParts DEF DiskOK, DraftsIn, DiskTyped, Shape
  <1>6. StoresTyped' /\ Shrinks(i)
    BY <1>1, <1>3, TypedParts DEF StoresTyped, Shrinks
  <1>7. Shape'
    BY <1>1, <1>2, <1>3, <1>5, <1>6, TurnShape
  <1> QED
    BY <1>2, <1>3, <1>7

\* A document keeps a draft to show in each tab; nothing is barred while nothing is deleted.
LEMMA InPlaceTyped ==
  ASSUME Shape, NEW t \in Tabs, NEW d
  PROVE  InPlaceOf(t, d) \in DraftsIn(t) /\ DraftsIn(t) \subseteq Drafts
  <1>1. /\ DraftsIn(t) # {} /\ DraftsIn(t) \subseteq Drafts /\ IsFiniteSet(Drafts)
        /\ Drafts \subseteq Nat
    BY LoaderConstants DEF Shape, Typed, DiskOK, DraftsIn
  <1>2. IsFiniteSet(DraftsIn(t)) /\ DraftsIn(t) \in SUBSET Nat
    BY <1>1, FS_Subset
  <1>3. First(DraftsIn(t)) \in DraftsIn(t)
    BY <1>1, <1>2, FirstAndMax
  <1> QED
    BY <1>1, <1>3 DEF InPlaceOf

LEMMA Unbarred ==
  ASSUME Shape, NoDeletions, NEW t \in Tabs, NEW d
  PROVE  CanSelectTab(t) /\ CanSelect(t, d)
  <1>1. barredTab = None
    BY DEF Shape, BarsOK, NoDeletions
  <1> QED
    BY <1>1, LoaderConstants DEF CanSelectTab, CanSelect

\* A load begins.
LEMMA StartLoads ==
  ASSUME NEW i \in Ops, NEW o \in OpRec, NEW g \in Nat, op \in [Ops -> OpRec], StartLoad(i, o, g)
  PROVE  /\ Others(i) /\ op'[i].step = "flush" /\ op'[i].gen = g /\ generation' = g
         /\ op'[i].kind = o.kind /\ op'[i].tab = o.tab /\ op'[i].draft = o.draft
         /\ op'[i].ctx = o.ctx /\ op'[i].prev = o.prev /\ op'[i].gone = o.gone
         /\ op'[i].failed = o.failed /\ op'[i].settle = o.settle
  <1>1. PICK r : r = [o EXCEPT !.step = "flush", !.gen = g]
    OBVIOUS
  <1>2. /\ r \in OpRec /\ r.step = "flush" /\ r.gen = g
        /\ r.kind = o.kind /\ r.tab = o.tab /\ r.draft = o.draft
        /\ r.ctx = o.ctx /\ r.prev = o.prev /\ r.gone = o.gone
        /\ r.settle = o.settle /\ r.failed = o.failed
    BY <1>1 DEF OpRec, Steps
  <1>3. op' = [op EXCEPT ![i] = r] /\ generation' = g
    BY <1>1 DEF StartLoad
  <1>4. op'[i] = r /\ op' \in [Ops -> OpRec] /\ \A j \in Ops : j # i => op'[j] = op[j]
    BY <1>2, <1>3
  <1> QED
    BY <1>2, <1>3, <1>4 DEF Others

LEMMA WithDraft ==
  ASSUME NEW o \in OpRec, NEW d \in Drafts, NEW r, r = [o EXCEPT !.draft = d]
  PROVE  /\ r \in OpRec /\ r.draft = d
         /\ r.kind = o.kind /\ r.tab = o.tab /\ r.ctx = o.ctx /\ r.prev = o.prev
         /\ r.gen = o.gen /\ r.gone = o.gone /\ r.settle = o.settle /\ r.failed = o.failed
  BY DEF OpRec

\* A tab is shown, and a draft of it loaded.
ListedLoads(i) ==
  /\ op'[i].step = "flush" /\ op'[i].gen = generation' /\ generation' = generation + 1
  /\ op'[i].tab = op[i].tab /\ Goes(i)
ListedShows(i) ==
  /\ ContextCurrent(i) /\ CanSelectTab(op[i].tab)
  /\ listed' = DraftsIn(op[i].tab) /\ curTab' = op[i].tab
  /\ ListedLoads(i) \/ (~NoDeletions /\ Turns(i) /\ Returns(i))

LEMMA ListedDoes ==
  ASSUME Shape, NEW i \in Ops, Listed(i)
  PROVE  /\ Shape' /\ op[i].step = "list" /\ i # 1 /\ op[i].kind \in {"tab", "dropTab"}
         /\ op[i].tab \in Tabs
         /\ UNCHANGED <<curDraft, screen, draftQueue, tabQueue, context, activeTab, activeDraft,
                        liveDrafts, liveTabs>>
         /\ \/ ListedShows(i)
            \/ ~(ContextCurrent(i) /\ CanSelectTab(op[i].tab)) /\ Same(i) /\ Returns(i)
  <1>1. /\ op[i].step = "list" /\ Running(i) /\ Typed /\ op[i] \in OpRec
        /\ UNCHANGED <<curDraft, screen, shown, draftQueue, tabQueue, context, activeTab,
                       activeDraft, liveDrafts, liveTabs, logged>>
    BY DEF Listed, At, Running, Shape, Typed, queues, disk
  <1>2. /\ i # 1 /\ op[i].kind \in {"tab", "dropTab"} /\ op[i].step \in Selecting
        /\ op[i].kind # "open"
    BY <1>1, KindOf DEF Selecting
  <1>3. op[i].tab \in Tabs /\ op[i].prev \in Tabs
    BY <1>1, <1>2 DEF Shape, OpOK
  <1>4. PICK d : d = InPlaceOf(op[i].tab, activeDraft[op[i].tab])
    OBVIOUS
  <1>5. d \in Drafts /\ DraftsIn(op[i].tab) \subseteq Drafts
    BY <1>3, <1>4, InPlaceTyped
  <1>7. ASSUME op'[i].step \in {"flush", "settle", "point", "done"} PROVE DraftStep(i) /\ TabStep(i)
    BY <1>1, <1>7, Outside DEF InDraftQueue, Writing, InTabQueue
  <1>8. CASE ContextCurrent(i) /\ CanSelectTab(op[i].tab)
    <2>1. listed' = DraftsIn(op[i].tab) /\ curTab' = op[i].tab
      BY <1>8 DEF Listed
    <2>2. StoresTyped' /\ DiskTyped'
      BY <1>1, <1>3, <1>5, <2>1, TypedParts DEF StoresTyped, DiskTyped
    <2>3. CASE CanSelect(op[i].tab, d)
      <3>1. PICK o : o = [op[i] EXCEPT !.draft = d]
        OBVIOUS
      <3>2. StartLoad(i, o, generation + 1) /\ UNCHANGED bars
        BY <1>4, <1>8, <2>3, <3>1 DEF Listed
      <3>3. /\ o \in OpRec /\ o.draft = d
            /\ o.kind = op[i].kind /\ o.tab = op[i].tab /\ o.ctx = op[i].ctx /\ o.prev = op[i].prev
            /\ o.gone = op[i].gone /\ o.failed = op[i].failed
        BY <1>1, <1>5, <3>1, WithDraft
      <3>4. generation + 1 \in Nat /\ generation < generation + 1 /\ generation \in Nat
            /\ context \in Nat
        BY TypedParts
      <3>5. /\ Others(i) /\ op'[i].step = "flush" /\ op'[i].gen = generation + 1
            /\ generation' = generation + 1
            /\ op'[i].kind = o.kind /\ op'[i].tab = o.tab /\ op'[i].draft = o.draft
            /\ op'[i].ctx = o.ctx /\ op'[i].prev = o.prev /\ op'[i].gone = o.gone
            /\ op'[i].failed = o.failed
        BY <1>1, <3>2, <3>3, <3>4, StartLoads DEF Typed
      <3>6. /\ op'[i].kind = op[i].kind /\ op'[i].tab = op[i].tab /\ op'[i].draft = d
            /\ op'[i].ctx = op[i].ctx /\ op'[i].prev = op[i].prev /\ op'[i].gone = op[i].gone
            /\ op'[i].failed = op[i].failed
        BY <3>3, <3>5
      <3>7. Goes(i)
        BY <1>2, <3>2, <3>5, <3>6 DEF Goes, Running, bars
      <3>8. DraftStep(i) /\ TabStep(i)
        BY <1>7, <3>5
      <3>9. OpOK(i)'
        <4>1. OpOK(i)
          BY DEF Shape
        <4>2. op'[i].gen <= generation' /\ op'[i].ctx <= context' /\ op[i].failed = FALSE
          BY <1>1, <3>4, <3>5, <3>6, <4>1 DEF OpOK
        <4>3. "flush" \in StepsOf(op[i].kind)
          BY <1>2 DEF StepsOf, Loading, Fetching
        <4>4. Running(i) => (op[i].kind = "dropTab" => op[i].gone \in Tabs)
          BY <4>1 DEF OpOK
        <4>5. op'[i].step = "flush" /\ op'[i].tab \in Tabs /\ op'[i].draft \in Drafts
              /\ op'[i].prev \in Tabs /\ op'[i].kind \in {"tab", "dropTab"}
              /\ op'[i].failed = FALSE /\ op'[i].step \in StepsOf(op'[i].kind)
              /\ (op'[i].kind = "dropTab" => op'[i].gone \in Tabs)
          BY <1>1, <1>2, <1>3, <1>5, <3>5, <3>6, <4>2, <4>3, <4>4
        <4> QED
          BY <1>2, <4>2, <4>5 DEF OpOK, Running, At
      <3>10. Proceeds(i)
        BY <3>7 DEF Proceeds
      <3>11. OpenOK'
        BY <1>1, <1>2, <1>3, <2>1, <3>4, <3>5, <3>10, OpenKept
      <3>12. TabsOK'
        <4>1. op'[i].step \notin Selecting
          BY <3>5 DEF Selecting
        <4>2. Shrinks(i)
          BY <1>1 DEF Shrinks
        <4> QED
          BY <1>1, <3>10, <4>1, <4>2, TabsKept
      <3>13. NoDeletions' <=> NoDeletions
        BY <3>10, KindsStay
      <3>14. DiskOK'
        BY <1>1, <3>13 DEF DiskOK, DraftsIn, Shape
      <3>15. Shape'
        BY <1>1, <2>2, <3>4, <3>5, <3>6, <3>8, <3>9, <3>10, <3>11, <3>12, <3>14, ShapeKept
      <3>16. ListedLoads(i)
        BY <3>5, <3>6, <3>7 DEF ListedLoads
      <3> QED
        BY <1>1, <1>2, <1>3, <1>8, <2>1, <3>15, <3>16 DEF ListedShows
    <2>4. CASE ~CanSelect(op[i].tab, d)
      <3>1. Returned(i, curDraft) /\ generation' = generation
        BY <1>4, <1>8, <2>4 DEF Listed
      <3>2. Returns(i)
        BY <1>1, <3>1, ReturnedReturns
      <3>3. op'[i].step \in {"settle", "point", "done"} /\ Proceeds(i)
        BY <3>2, ReturnsProceeds
      <3>4. Turns(i)
        BY <1>1, <1>2, <1>7, <3>1, <3>2, <3>3, ReturnsTurns
      <3>5. ~NoDeletions
        BY <1>3, <2>4, Unbarred
      <3>6. NoDeletions' <=> NoDeletions
        BY <3>3, KindsStay
      <3>7. DiskOK' /\ Shrinks(i)
        BY <1>1, <3>6 DEF DiskOK, DraftsIn, Shape, Shrinks
      <3>8. Shape'
        BY <1>3, <2>1, <2>2, <3>4, <3>5, <3>7, TurnShape
      <3> QED
        BY <1>1, <1>2, <1>3, <1>8, <2>1, <3>2, <3>4, <3>5, <3>8 DEF ListedShows
    <2> QED
      BY <2>3, <2>4
  <1>9. CASE ~(ContextCurrent(i) /\ CanSelectTab(op[i].tab))
    <2>1. Returned(i, curDraft) /\ UNCHANGED <<listed, curTab, generation>>
      BY <1>9 DEF Listed
    <2>2. Returns(i)
      BY <1>1, <2>1, ReturnedReturns
    <2>3. op'[i].step \in {"settle", "point", "done"}
      BY <2>2, ReturnsProceeds
    <2>4. Still
      BY <1>1, <2>1, TypedParts DEF Still, DiskTyped
    <2>5. Same(i)
      BY <1>1, <1>2, <1>7, <2>2, <2>3, <2>4, ReturnsSame
    <2>6. Shape'
      BY <2>5, SameShape
    <2> QED
      BY <1>1, <1>2, <1>3, <1>9, <2>2, <2>5, <2>6
  <1> QED
    BY <1>8, <1>9

\* A draft or a tab is deleted.
LEMMA DroppedDoes ==
  ASSUME Shape, NEW i \in Ops, Dropped(i)
  PROVE  /\ Shape' /\ Turns(i) /\ op[i].step = "drop" /\ Deletes(i)
         /\ UNCHANGED <<curTab, curDraft, listed, screen, activeTab, activeDraft>>
         /\ Ends(i, FALSE) \/ Moves(i, "refresh")
         /\ IF op[i].kind = "dropTab"
            THEN liveDrafts' = liveDrafts /\ (liveTabs' = liveTabs \/ liveTabs' = liveTabs \ {op[i].gone})
            ELSE liveTabs' = liveTabs
                 /\ (liveDrafts' = liveDrafts \/ liveDrafts' = liveDrafts \ {op[i].gone})
  <1> DEFINE g == op[i].gone
  <1>1. /\ op[i].step = "drop" /\ Running(i) /\ Typed
        /\ generation' = generation /\ context' = context
        /\ UNCHANGED <<curTab, curDraft, listed, screen, shown, activeTab, activeDraft, logged,
                       draftQueue, tabQueue>>
    BY DEF Dropped, At, Running, Shape, stores, queues
  <1>2. i # 1 /\ Deletes(i) /\ curTab \in Tabs /\ op[i].step \notin Selecting
    BY <1>1, KindOf, Begun DEF Settles, Selecting
  <1>3. /\ Turns(i) /\ (Ends(i, FALSE) \/ Moves(i, "refresh"))
        /\ Moves(i, "refresh") => op[i].kind = "dropDraft"
    <2>1. CASE End(i, FALSE)
      <3>1. Ends(i, FALSE)
        BY <1>1, <2>1, EndEnds
      <3>2. op'[i].step = "done"
        BY <3>1 DEF Ends
      <3>3. DraftStep(i) /\ TabStep(i)
        BY <1>1, <3>2, Outside DEF InDraftQueue, Writing, InTabQueue
      <3>4. ~Moves(i, "refresh")
        BY <3>2 DEF Moves
      <3> QED
        BY <1>1, <1>2, <3>1, <3>3, <3>4, EndsTurns
    <2>2. CASE op[i].kind = "dropDraft" /\ Goto(i, "refresh")
      <3>1. Moves(i, "refresh")
        BY <1>1, <2>2, GotoMoves DEF Steps
      <3>2. op'[i].step = "refresh"
        BY <3>1 DEF Moves
      <3>3. DraftStep(i) /\ TabStep(i)
        BY <1>1, <3>2, Outside DEF InDraftQueue, Writing, InTabQueue
      <3>4. "refresh" \in Steps /\ "refresh" \in StepsOf(op[i].kind) /\ "refresh" \notin Selecting
            /\ "refresh" \notin Loading /\ "refresh" \notin Backs
        BY <2>2 DEF Steps, StepsOf, Selecting, Loading, Fetching, Writing, Backs
      <3>5. OpOK(i)'
        BY <1>1, <3>1, <3>4, MovesOp, TypedParts
      <3>6. Along(i)
        BY <1>2, <3>1, <3>4 DEF Along, Moves, Keeps
      <3> QED
        BY <1>1, <1>2, <2>2, <3>1, <3>3, <3>5, <3>6, MovesGoes DEF Turns
    <2>3. op[i].kind \in {"dropDraft", "dropTab"}
      BY <1>2 DEF Deletes
    <2> QED
      BY <2>1, <2>2, <2>3 DEF Dropped
  <1>4. ~NoDeletions /\ ~NoDeletions'
    <2>1. NoDeletions' <=> NoDeletions
      BY <1>3, KindsStay DEF Turns
    <2> QED
      BY <1>2, <2>1 DEF NoDeletions
  <1>5. StoresTyped'
    BY <1>1, TypedParts DEF StoresTyped
  <1>6. DiskOK /\ DiskTyped
    BY TypedParts DEF Shape
  <1>7. CASE op[i].kind = "dropTab"
    <2>1. liveTabs' = liveTabs \/ liveTabs' = liveTabs \ {g}
      BY <1>7 DEF Dropped
    <2>2. liveDrafts' = liveDrafts
      BY <1>7 DEF Dropped
    <2>3. DiskOK' /\ DiskTyped' /\ Shrinks(i)
      BY <1>1, <1>4, <1>6, <1>7, <2>1, <2>2 DEF DiskOK, DraftsIn, DiskTyped, Shrinks
    <2>4. Shape'
      BY <1>1, <1>2, <1>3, <1>5, <2>3, TurnShape
    <2> QED
      BY <1>1, <1>2, <1>3, <1>7, <2>1, <2>2, <2>4
  <1>8. CASE op[i].kind # "dropTab"
    <2>1. \/ liveDrafts' = liveDrafts
          \/ DraftsIn(TabOf[g]) # {g} /\ liveDrafts' = liveDrafts \ {g}
      BY <1>8 DEF Dropped
    <2>2. liveTabs' = liveTabs
      BY <1>8 DEF Dropped
    <2>3. ASSUME NEW t \in Tabs PROVE DraftsIn(t)' # {}
      <3>1. DraftsIn(t) # {}
        BY <1>6 DEF DiskOK
      <3>2. CASE liveDrafts' = liveDrafts
        BY <3>1, <3>2 DEF DraftsIn
      <3>3. CASE DraftsIn(TabOf[g]) # {g} /\ liveDrafts' = liveDrafts \ {g}
        <4>1. CASE DraftsIn(t) = {g}
          <5>1. TabOf[g] = t
            BY <4>1 DEF DraftsIn
          <5> QED
            BY <3>3, <4>1, <5>1
        <4>2. CASE DraftsIn(t) # {g}
          <5>1. PICK d \in DraftsIn(t) : d # g
            BY <3>1, <4>2
          <5> QED
            BY <3>3, <5>1 DEF DraftsIn
        <4> QED
          BY <4>1, <4>2
      <3> QED
        BY <2>1, <3>2, <3>3
    <2>4. DiskOK'
      BY <1>1, <1>4, <1>6, <2>3 DEF DiskOK
    <2>5. DiskTyped' /\ Shrinks(i)
      BY <1>1, <1>6, <2>1, <2>2 DEF DiskTyped, Shrinks
    <2>6. Shape'
      BY <1>1, <1>2, <1>3, <1>5, <2>4, <2>5, TurnShape
    <2> QED
      BY <1>1, <1>2, <1>3, <1>8, <2>1, <2>2, <2>6
  <1> QED
    BY <1>7, <1>8

\* The draft menu is read again.
LEMMA RefreshDoes ==
  ASSUME Shape, NEW i \in Ops, Refresh(i)
  PROVE  /\ Shape' /\ Turns(i) /\ Ends(i, FALSE) /\ op[i].kind = "dropDraft"
         /\ UNCHANGED <<curTab, curDraft, screen, activeTab, activeDraft, liveDrafts, liveTabs>>
         /\ listed' = listed \/ listed' = DraftsIn(curTab)
  <1>1. /\ op[i].step = "refresh" /\ Running(i) /\ Typed
        /\ generation' = generation /\ context' = context
        /\ UNCHANGED <<curTab, curDraft, screen, shown, activeTab, activeDraft, liveDrafts,
                       liveTabs, logged, draftQueue, tabQueue>>
        /\ listed' = listed \/ listed' = DraftsIn(curTab)
        /\ End(i, FALSE)
    BY DEF Refresh, At, Running, Shape, disk, queues
  <1>2. i # 1 /\ op[i].kind = "dropDraft" /\ curTab \in Tabs /\ op[i].step \notin Selecting
    BY <1>1, KindOf, Begun DEF Selecting
  <1>3. Ends(i, FALSE)
    BY <1>1, EndEnds
  <1>4. op'[i].step = "done"
    BY <1>3 DEF Ends
  <1>5. DraftStep(i) /\ TabStep(i)
    BY <1>1, <1>4, Outside DEF InDraftQueue, Writing, InTabQueue
  <1>6. Turns(i)
    BY <1>1, <1>2, <1>3, <1>5, EndsTurns
  <1>7. NoDeletions' <=> NoDeletions
    BY <1>6, KindsStay DEF Turns
  <1>8. DiskOK' /\ DiskTyped'
    BY <1>1, <1>7, TypedParts DEF DiskOK, DraftsIn, DiskTyped, Shape
  <1>9. StoresTyped' /\ Shrinks(i)
    BY <1>1, TypedParts DEF StoresTyped, Shrinks, DraftsIn, DiskTyped
  <1>10. Shape'
    BY <1>1, <1>2, <1>6, <1>8, <1>9, TurnShape
  <1> QED
    BY <1>1, <1>2, <1>3, <1>6, <1>10

-----------------------------------------------------------------------------
(* The opened document. *)

LEMMA OpenEnds ==
  ASSUME Shape, NEW i \in Ops, i = 1, Running(i), NEW f \in BOOLEAN, Ends(i, f),
         UNCHANGED <<curTab, listed, draftQueue, tabQueue, generation, context, disk>>,
         StoresTyped', screen' # None => curTab \in Tabs
  PROVE  Shape'
  <1>1. /\ op[1].kind = "open" /\ op[1].step \in {"flush", "resolve", "read"} /\ OpenOK /\ DiskOK
        /\ curTab' = curTab /\ listed' = listed /\ generation' = generation /\ context' = context
        /\ liveTabs' = liveTabs /\ liveDrafts' = liveDrafts /\ activeDraft' = activeDraft
        /\ activeTab' = activeTab
    BY Begun DEF Shape, disk
  <1>2. /\ op'[1].step = "done" /\ op'[1].kind = "open" /\ op'[1].ctx = 0
        /\ \A j \in Ops : j # 1 => op'[j] = op[j]
    BY <1>1 DEF Ends, Others
  <1>3. Proceeds(i) /\ generation' \in Nat /\ context' \in Nat /\ generation <= generation'
        /\ context <= context'
    <2>1. f = TRUE \/ f = FALSE
      OBVIOUS
    <2>2. Proceeds(i)
      BY <2>1 DEF Proceeds
    <2>3. generation \in Nat /\ context \in Nat
      BY TypedParts
    <2> QED
      BY <1>1, <2>2, <2>3
  <1>4. NoDeletions' <=> NoDeletions
    BY <1>3, KindsStay
  <1>5. OpOK(i)'
    BY <1>3, EndsOp
  <1>6. DraftStep(i) /\ TabStep(i)
    BY <1>1, <1>2, Outside DEF InDraftQueue, Writing, InTabQueue
  <1>7. OpenOK'
    <2>1. listed' # {} \/ (\E j \in Ops : op'[j].kind # "open") => curTab' \in Tabs
      BY <1>1, <1>2 DEF OpenOK
    <2> QED
      BY <1>1, <1>2, <2>1 DEF OpenOK, At
  <1>8. DiskOK' /\ DiskTyped'
    BY <1>1, <1>4, TypedParts DEF DiskOK, DraftsIn, DiskTyped
  <1>9. op'[i].step \notin Selecting /\ op'[i].step \notin Loading
    BY <1>2 DEF Selecting, Loading, Fetching, Writing
  <1>10. TabsOK'
    <2>1. Shrinks(i)
      BY <1>1 DEF Shrinks
    <2> QED
      BY <1>1, <1>3, <1>9, <2>1, TabsKept
  <1> QED
    BY <1>2, <1>3, <1>5, <1>6, <1>7, <1>8, <1>9, <1>10, ShapeKept

\* Before its tabs are shown, nothing else has begun.
LEMMA OpenAlone ==
  ASSUME Shape, op[1].step \in {"flush", "resolve"}
  PROVE  /\ curTab = None /\ listed = {} /\ screen = None /\ curDraft = None
         /\ \A j \in Ops : j # 1 => op[j] = NoOp /\ op[j].kind = "open" /\ op[j].step = "new"
         /\ NoDeletions /\ liveDrafts = Drafts /\ liveTabs = Tabs /\ op[1].kind = "open"
  <1>1. /\ OpenOK /\ DiskOK /\ curDraft = screen /\ \A j \in Ops : OpOK(j)
    BY DEF Shape
  <1>2. /\ \A j \in Ops : j # 1 => At(j, "new")
        /\ curTab = None /\ listed = {} /\ screen = None /\ op[1].kind = "open"
    BY <1>1 DEF OpenOK
  <1>3. \A j \in Ops : j # 1 => op[j] = NoOp
    BY <1>1, <1>2 DEF OpOK
  <1>4. NoOp.kind = "open" /\ NoOp.step = "new"
    BY DEF NoOp
  <1>5. NoDeletions
    BY <1>2, <1>3, <1>4 DEF NoDeletions, Deletes
  <1> QED
    BY <1>1, <1>2, <1>3, <1>4, <1>5 DEF DiskOK

LEMMA OpenFlushed ==
  ASSUME Shape, NEW i \in Ops, i = 1, Flushed(i)
  PROVE  /\ Shape' /\ op[1].step = "flush" /\ Others(i) /\ op'[1].step \in {"resolve", "done"}
         /\ op'[1].kind = "open" /\ op'[1].failed = FALSE /\ KindsSame
         /\ UNCHANGED <<stores, queues, disk>>
  <1>1. /\ op[1].step = "flush" /\ Running(i) /\ Typed /\ generation' = generation
        /\ UNCHANGED <<stores, queues, disk>>
    BY DEF Flushed, At, Running, Shape
  <1>2. /\ curTab = None /\ listed = {} /\ screen = None /\ curDraft = None
        /\ \A j \in Ops : j # 1 => op[j] = NoOp /\ op[j].kind = "open" /\ op[j].step = "new"
        /\ op[1].kind = "open"
    BY <1>1, OpenAlone
  <1>3. StoresTyped'
    BY <1>1, TypedParts DEF StoresTyped, stores, disk
  <1>4. CASE ~LoadCurrent(i)
    <2>1. Returned(i, curDraft) /\ context' = context
      BY <1>4 DEF Flushed
    <2>2. Returns(i)
      BY <1>1, <2>1, ReturnedReturns
    <2>3. Ends(i, FALSE)
      BY <1>2, <2>2 DEF Returns
    <2>4. screen' = None
      BY <1>1, <1>2 DEF stores
    <2>5. Shape'
      BY <1>1, <1>3, <2>1, <2>3, <2>4, OpenEnds DEF stores, queues
    <2>6. \A j \in Ops : op'[j].kind = op[j].kind
      BY <2>3, KindsStay DEF Proceeds
    <2> QED
      BY <1>1, <1>2, <2>3, <2>5, <2>6 DEF Ends, KindsSame
  <1>5. CASE LoadCurrent(i)
    <2>1. context' = context + 1 /\ Goto(i, "resolve")
      BY <1>2, <1>5 DEF Flushed
    <2>2. Moves(i, "resolve")
      BY <1>1, <2>1, GotoMoves DEF Steps
    <2>3. /\ op'[1].step = "resolve" /\ op'[1].kind = "open" /\ op'[1].failed = op[1].failed
          /\ \A j \in Ops : j # 1 => op'[j] = op[j]
          /\ op'[1].ctx = op[1].ctx
      BY <1>2, <2>2 DEF Moves, Keeps, Others
    <2>4. /\ generation' \in Nat /\ generation <= generation' /\ context' \in Nat
          /\ context <= context'
      BY <1>1, <2>1, TypedParts
    <2>5. "resolve" \in Steps /\ "resolve" \in StepsOf(op[i].kind) /\ "resolve" \notin Selecting
          /\ "resolve" \notin Loading /\ "resolve" \notin Backs
      BY <1>2 DEF Steps, StepsOf, Selecting, Loading, Fetching, Writing, Backs
    <2>6. OpOK(i)'
      BY <1>1, <2>2, <2>4, <2>5, MovesOp
    <2>7. Proceeds(i)
      BY <2>2, MovesGoes
    <2>8. DraftStep(i) /\ TabStep(i)
      BY <1>1, <2>3, Outside DEF InDraftQueue, Writing, InTabQueue, queues
    <2>9. OpenOK'
      <3>1. \A j \in Ops : op'[j].kind = "open"
        BY <1>2, <2>3
      <3>2. \A j \in Ops : j # 1 => op'[j].step = "new"
        BY <1>2, <2>3
      <3>3. curTab' = None /\ listed' = {} /\ screen' = None
        BY <1>1, <1>2 DEF stores
      <3> QED
        BY <2>3, <3>1, <3>2, <3>3 DEF OpenOK, At
    <2>10. NoDeletions' <=> NoDeletions
      BY <2>7, KindsStay
    <2>11. DiskOK' /\ DiskTyped'
      BY <1>1, <2>10, TypedParts DEF DiskOK, DraftsIn, DiskTyped, Shape, disk
    <2>12. TabsOK'
      <3>1. \A j \in Ops : op'[j].step \notin Selecting
        BY <1>2, <2>3 DEF Selecting
      <3> QED
        BY <3>1 DEF TabsOK
    <2>13. Shape'
      BY <1>1, <1>3, <2>3, <2>4, <2>5, <2>6, <2>7, <2>8, <2>9, <2>11, <2>12, ShapeKept
    <2>14. op[1].failed = FALSE
      BY <1>1 DEF Shape, OpOK
    <2>15. KindsSame
      BY <2>7, KindsStay DEF KindsSame
    <2> QED
      BY <1>1, <2>2, <2>3, <2>13, <2>14, <2>15 DEF Moves
  <1> QED
    BY <1>4, <1>5

LEMMA Resolved ==
  ASSUME Typed, NEW i \in Ops, NEW t \in Tabs, NEW d \in Drafts,
         op' = [op EXCEPT ![i].step = "read", ![i].tab = t, ![i].draft = d]
  PROVE  /\ Others(i) /\ op'[i].step = "read" /\ op'[i].tab = t /\ op'[i].draft = d
         /\ op'[i].kind = op[i].kind /\ op'[i].gen = op[i].gen /\ op'[i].ctx = op[i].ctx
         /\ op'[i].gone = op[i].gone /\ op'[i].failed = op[i].failed
  <1>1. PICK r : r = [op[i] EXCEPT !.step = "read", !.tab = t, !.draft = d]
    OBVIOUS
  <1>2. op[i] \in OpRec
    BY DEF Typed
  <1>3. /\ r \in OpRec /\ r.step = "read" /\ r.tab = t /\ r.draft = d
        /\ r.kind = op[i].kind /\ r.gen = op[i].gen
        /\ r.ctx = op[i].ctx /\ r.gone = op[i].gone /\ r.failed = op[i].failed
    BY <1>1, <1>2 DEF OpRec, Steps
  <1>4. op' = [op EXCEPT ![i] = r]
    BY <1>1 DEF Typed
  <1> QED
    BY <1>3, <1>4, Replaced

\* The tabs of the opened document are shown.
LEMMA ResolveDoes ==
  ASSUME Shape, NEW i \in Ops, Resolve(i)
  PROVE  /\ Shape' /\ op[1].step = "resolve" /\ i = 1 /\ Others(i) /\ op'[1].step = "read"
         /\ op'[1].kind = "open" /\ op'[1].failed = FALSE /\ KindsSame
         /\ curTab' = activeTab /\ listed' = DraftsIn(activeTab)
         /\ UNCHANGED <<screen, queues, disk>>
  <1>1. /\ op[i].step = "resolve" /\ Running(i) /\ Typed /\ generation' = generation
        /\ context' = context /\ UNCHANGED <<queues, disk, bars>>
        /\ curTab' = activeTab /\ listed' = DraftsIn(activeTab)
        /\ curDraft' = curDraft /\ screen' = screen /\ shown' = shown
    BY DEF Resolve, At, Running, Shape
  <1>2. i = 1
    BY <1>1, KindOf
  <1>3. /\ curTab = None /\ listed = {} /\ screen = None /\ curDraft = None
        /\ \A j \in Ops : j # 1 => op[j] = NoOp /\ op[j].kind = "open" /\ op[j].step = "new"
        /\ NoDeletions /\ liveDrafts = Drafts /\ liveTabs = Tabs /\ op[1].kind = "open"
    BY <1>1, <1>2, OpenAlone
  <1>4. PICK d : d = InPlaceOf(activeTab, activeDraft[activeTab])
    OBVIOUS
  <1>5. activeTab \in Tabs /\ activeDraft \in [Tabs -> Drafts]
    BY <1>1 DEF Typed
  <1>6. d \in Drafts /\ d = activeDraft[activeTab] /\ DraftsIn(activeTab) \subseteq Drafts
    <2>1. TabOf[activeDraft[activeTab]] = activeTab
      BY <1>5 DEF Shape, DiskOK
    <2> QED
      BY <1>3, <1>4, <1>5, <2>1 DEF InPlaceOf, DraftsIn
  <1>7. /\ Others(i) /\ op'[i].step = "read" /\ op'[i].tab = activeTab /\ op'[i].draft = d
        /\ op'[i].kind = op[i].kind /\ op'[i].gen = op[i].gen /\ op'[i].ctx = op[i].ctx
        /\ op'[i].gone = op[i].gone /\ op'[i].failed = op[i].failed
    <2>1. op' = [op EXCEPT ![i].step = "read", ![i].tab = activeTab, ![i].draft = d]
      BY <1>4 DEF Resolve
    <2> QED
      BY <1>1, <1>5, <1>6, <2>1, Resolved
  <1>8. Goes(i)
    BY <1>1, <1>2, <1>3, <1>7 DEF Goes, Running, bars
  <1>9. Proceeds(i) /\ KindsSame
    BY <1>8, KindsStay DEF Proceeds, KindsSame
  <1>10. /\ \A j \in Ops : j # 1 => op'[j] = op[j] /\ op'[j].step = "new" /\ op'[j].kind = "open"
         /\ op'[1].step = "read" /\ op'[1].kind = "open" /\ 1 \in Ops
    BY <1>2, <1>3, <1>7 DEF Others
  <1>11. OpOK(i) /\ op[i].gen \in Nat /\ op[i].ctx \in Nat
    BY <1>1 DEF Shape, Typed, OpRec
  <1>12. OpOK(i)'
    <2>1. op'[i].gen <= generation' /\ op'[i].ctx <= context'
      BY <1>1, <1>7, <1>11 DEF OpOK
    <2>2. op'[i].failed = FALSE /\ op[i].failed = FALSE
      BY <1>1, <1>7, <1>11 DEF OpOK
    <2>3. op'[i].kind = "open" /\ op'[i].step = "read" /\ "read" \in StepsOf("open")
      BY <1>2, <1>10 DEF StepsOf
    <2> QED
      BY <1>2, <2>1, <2>2, <2>3 DEF OpOK, Running, At
  <1>14. barredTab' = barredTab /\ barred' = barred /\ draftQueue' = draftQueue
         /\ tabQueue' = tabQueue /\ activeTab' = activeTab /\ activeDraft' = activeDraft
         /\ liveDrafts' = liveDrafts /\ liveTabs' = liveTabs /\ logged' = logged
    BY <1>1 DEF bars, queues, disk
  <1>15. Typed'
    BY <1>1, <1>5, <1>6, <1>7, <1>14 DEF Typed, Others
  <1>16. \A j \in Ops : OpOK(j)'
    <2>1. generation' \in Nat /\ context' \in Nat /\ generation <= generation'
          /\ context <= context'
      BY <1>1, TypedParts
    <2> QED
      BY <1>7, <1>12, <2>1, OpsKept
  <1>17. DraftStep(i) /\ TabStep(i)
    BY <1>1, <1>7, <1>14, Outside DEF InDraftQueue, Writing, InTabQueue
  <1>18. QueuesOK'
    BY <1>7, <1>17, QueuesKept
  <1>19. NoDeletions'
    BY <1>3, <1>9, KindsStay
  <1>20. OpenOK'
    <2>1. op'[1].tab = activeTab /\ op'[1].draft = activeDraft[activeTab] /\ op'[1].draft \in Drafts
      BY <1>2, <1>6, <1>7
    <2> QED
      BY <1>1, <1>3, <1>5, <1>10, <1>14, <1>19, <2>1 DEF OpenOK, At
  <1>21. DiskOK'
    BY <1>3, <1>14, <1>19 DEF DiskOK, DraftsIn, Shape
  <1>22. BarsOK'
    BY <1>1, <1>9, BarsKept
  <1>23. GensOK'
    <2>1. \A j \in Ops : op'[j].step \in Loading => j = 1
      BY <1>10 DEF Loading, Fetching, Writing
    <2>2. \A j, k \in Ops : j < k /\ op'[j].step = "new" => op'[k].step = "new"
      <3>1. \A j, k \in Ops : j < k => k # 1
        BY DEF Ops
      <3> QED
        BY <1>10, <3>1
    <2> QED
      BY <1>10, <2>1, <2>2 DEF GensOK, At
  <1>24. TabsOK'
    BY <1>10 DEF TabsOK, Selecting
  <1>25. curDraft' = screen' /\ generation' >= 1
    BY <1>1, <1>3 DEF Shape
  <1>26. Shape'
    BY <1>15, <1>16, <1>18, <1>20, <1>21, <1>22, <1>23, <1>24, <1>25 DEF Shape
  <1> QED
    BY <1>1, <1>2, <1>7, <1>9, <1>10, <1>11, <1>26 DEF OpOK

\* The opened document is shown.
OpenShown ==
  /\ op[1].tab = curTab /\ op[1].draft = activeDraft[curTab] /\ screen' = op[1].draft
  /\ curTab \in Tabs /\ screen = None /\ liveDrafts = Drafts /\ liveTabs = Tabs /\ NoDeletions
  /\ op[1].step \in Loading /\ op[1].gen = generation /\ op[1].draft \in Drafts
  /\ \A j \in Ops : j # 1 => op[j].step \in Selecting \cup {"new", "done"}
LEMMA OpenRead ==
  ASSUME Shape, NEW i \in Ops, i = 1, Read(i)
  PROVE  /\ Shape' /\ op[1].step = "read" /\ Ends(i, FALSE)
         /\ UNCHANGED <<curTab, listed, draftQueue, tabQueue, generation, context, disk>>
         /\ screen' = screen \/ OpenShown
  <1>1. /\ op[i].step = "read" /\ Running(i) /\ Typed
        /\ UNCHANGED <<curTab, listed, tabQueue, generation, context, disk>>
    BY DEF Read, At, Running, Shape
  <1>2. op[1].kind = "open" /\ OpenOK
    BY <1>1, Begun DEF Shape
  <1>3. CASE ~LoadCurrent(i)
    <2>1. /\ Returned(i, curDraft) /\ screen' = screen /\ shown' = shown /\ curDraft' = curDraft
          /\ draftQueue' = draftQueue
      BY <1>3 DEF Read
    <2>2. Returns(i)
      BY <1>1, <2>1, ReturnedReturns
    <2>3. Ends(i, FALSE)
      BY <1>2, <2>2 DEF Returns
    <2>4. StoresTyped'
      BY <1>1, <2>1, TypedParts DEF StoresTyped, disk
    <2>5. screen' # None => curTab \in Tabs
      BY <1>2, <2>1 DEF OpenOK
    <2>6. Shape'
      BY <1>1, <2>1, <2>3, <2>4, <2>5, OpenEnds
    <2> QED
      BY <1>1, <2>1, <2>3, <2>6
  <1>4. CASE LoadCurrent(i)
    <2>1. /\ screen' = op[i].draft /\ curDraft' = op[i].draft /\ shown' = logged[op[i].draft]
          /\ End(i, FALSE) /\ draftQueue' = draftQueue
      BY <1>2, <1>4 DEF Read, Commit
    <2>2. Ends(i, FALSE)
      BY <1>1, <2>1, EndEnds
    <2>3. op[1].gen = generation
      BY <1>4 DEF LoadCurrent
    <2>4. /\ screen = None /\ liveDrafts = Drafts /\ liveTabs = Tabs
          /\ op[1].tab \in Tabs /\ op[1].tab = curTab
          /\ op[1].draft \in Drafts /\ op[1].draft = activeDraft[op[1].tab]
          /\ NoDeletions /\ \A j \in Ops : j # 1 => op[j].step \in Selecting \cup {"new", "done"}
      BY <1>1, <1>2, <2>3 DEF OpenOK, At
    <2>5. StoresTyped'
      BY <1>1, <2>1, <2>4, TypedParts DEF StoresTyped, disk
    <2>6. Shape'
      BY <1>1, <2>1, <2>2, <2>4, <2>5, OpenEnds
    <2>7. OpenShown
      BY <1>1, <2>1, <2>3, <2>4 DEF OpenShown, Loading, Fetching
    <2> QED
      BY <1>1, <2>1, <2>2, <2>6, <2>7
  <1> QED
    BY <1>3, <1>4

\* The opened document cannot be loaded.
LEMMA OpenFails ==
  ASSUME Shape, NEW i \in Ops, i = 1, FlushFails(i) \/ ReadFails(i) \/ DraftWriteFails(i) \/ CallFails(i)
  PROVE  /\ Shape' /\ Ends(i, TRUE) /\ op[1].kind = "open"
         /\ UNCHANGED <<curTab, listed, screen, draftQueue, tabQueue, generation, context, disk>>
  <1>1. Running(i) /\ Typed /\ curDraft = screen
    BY DEF FlushFails, ReadFails, DraftWriteFails, CallFails, At, Running, Shape
  <1>2. op[1].kind = "open" /\ op[i].step # "draftWrite" /\ OpenOK
    BY <1>1, Begun DEF Shape
  <1>3. /\ End(i, TRUE) /\ curDraft' = curDraft /\ shown' = shown
        /\ UNCHANGED <<curTab, listed, screen, draftQueue, tabQueue, generation, context, disk>>
    <2>1. CASE FlushFails(i)
      <3>1. screen = None
        BY <1>2, <2>1, OpenAlone DEF FlushFails, At
      <3>2. LoadThrew(i, curTab) /\ curDraft' = curDraft
        BY <2>1, <3>1 DEF FlushFails
      <3> QED
        BY <1>2, <2>1, <3>2 DEF FlushFails, LoadThrew
    <2>2. CASE ReadFails(i)
      BY <1>2, <2>2 DEF ReadFails, LoadThrew
    <2>3. CASE CallFails(i)
      BY <2>3 DEF CallFails, stores, queues
    <2>4. CASE DraftWriteFails(i)
      BY <1>2, <2>4 DEF DraftWriteFails, At
    <2> QED
      BY <2>1, <2>2, <2>3, <2>4
  <1>4. Ends(i, TRUE)
    BY <1>1, <1>3, EndEnds
  <1>5. StoresTyped'
    BY <1>3, TypedParts DEF StoresTyped, disk
  <1>6. screen' # None => curTab \in Tabs
    BY <1>2, <1>3 DEF OpenOK
  <1>7. Shape'
    BY <1>1, <1>3, <1>4, <1>5, <1>6, OpenEnds
  <1> QED
    BY <1>2, <1>3, <1>4, <1>7

-----------------------------------------------------------------------------
(* Selections and deletions begin. *)

\* The i-th operation begins; what begins is a load, a selection or a deletion.
Starts(i) ==
  /\ NextOp(i) /\ i # 1 /\ Others(i) /\ op[i].kind = "open" /\ op'[i].kind # "open"
  /\ op'[i].failed = FALSE /\ op'[i].step \in {"flush", "pick", "settle", "point"}
  /\ UNCHANGED <<curTab, curDraft, listed, screen, draftQueue, tabQueue, activeTab, activeDraft,
                 liveDrafts, liveTabs>>
  /\ curTab \in Tabs

LEMMA StartsBegin ==
  ASSUME Shape, NEW i \in Ops, NextOp(i), Others(i), listed # {}, op'[i].kind # "open",
         op'[i].failed = FALSE, op'[i].step \in {"flush", "pick", "settle", "point"},
         UNCHANGED <<stores, queues, disk>>
  PROVE  /\ Starts(i) /\ op[1].step \in {"read", "done"} /\ op[i] = NoOp
         /\ op[i].step = "new" /\ \A k \in Ops : i < k => op[k].step = "new" /\ op[k].kind = "open"
  <1>1. OpenOK /\ GensOK /\ \A j \in Ops : OpOK(j)
    BY DEF Shape
  <1>2. curTab \in Tabs /\ op[1].step \in {"read", "done"}
    BY <1>1, LoaderConstants DEF OpenOK
  <1>3. op[i].step = "new" /\ i # 1
    BY <1>2 DEF NextOp, At
  <1>4. op[i] = NoOp
    BY <1>1, <1>3 DEF OpOK, At
  <1>5. NoOp.kind = "open"
    BY DEF NoOp
  <1>6. ASSUME NEW k \in Ops, i < k PROVE op[k].step = "new" /\ op[k].kind = "open"
    <2>1. At(k, "new")
      BY <1>1, <1>3, <1>6 DEF GensOK, At
    <2>2. op[k] = NoOp
      BY <1>1, <2>1 DEF OpOK
    <2> QED
      BY <1>5, <2>1, <2>2 DEF At
  <1> QED
    BY <1>2, <1>3, <1>4, <1>5, <1>6 DEF Starts, stores, queues, disk

\* The shape is kept when an operation begins.
LEMMA StartsShape ==
  ASSUME Shape, NEW i \in Ops, NextOp(i), Others(i), listed # {}, op'[i].kind # "open",
         op'[i].failed = FALSE, op'[i].step \in {"flush", "pick", "settle", "point"},
         UNCHANGED <<stores, queues, disk>>,
         generation' \in Nat, generation <= generation', context' \in Nat, context <= context',
         op'[i].step = "flush" => op'[i].gen = generation' /\ generation < generation',
         op'[i].kind = "tab" => context < context',
         generation' = generation => op'[i].kind = "tab" /\ op'[i].step = "pick",
         OpOK(i)', BarsOK', TabsOK',
         barredTab' \in Tabs \cup {None}, barred' \subseteq Drafts
  PROVE  Shape'
  <1>1. /\ Starts(i) /\ op[1].step \in {"read", "done"} /\ op[i].step = "new" /\ op[i].kind = "open"
        /\ \A k \in Ops : i < k => op[k].step = "new" /\ op[k].kind = "open"
    BY StartsBegin DEF Starts
  <1>2. /\ i # 1 /\ curTab \in Tabs /\ \A j \in Ops : j # i => op'[j] = op[j]
        /\ UNCHANGED <<curTab, curDraft, listed, screen, draftQueue, tabQueue, activeTab,
                       activeDraft, liveDrafts, liveTabs, shown, logged>>
    BY <1>1 DEF Starts, Others, stores, disk
  <1>3. Typed'
    BY <1>2 DEF Shape, Typed, Others
  <1>4. \A j \in Ops : OpOK(j)'
    BY OpsKept
  <1>5. QueuesOK'
    <2>1. op'[i].step \notin InDraftQueue /\ op'[i].step \notin InTabQueue
          /\ op'[i].step \notin DraftWrites /\ op'[i].step \notin TabWrites
      BY DEF InDraftQueue, InTabQueue, DraftWrites, TabWrites, Writing
    <2>2. op[i].step \notin InDraftQueue /\ op[i].step \notin InTabQueue
      BY <1>1 DEF InDraftQueue, InTabQueue, Writing
    <2>3. DraftStep(i) /\ TabStep(i)
      BY <1>2, <2>1, <2>2 DEF DraftStep, TabStep, QueueStep
    <2> QED
      BY <2>3, QueuesKept
  <1>6. NoDeletions' => NoDeletions
    BY <1>1, <1>2 DEF NoDeletions, Deletes
  <1>7. DiskOK'
    BY <1>2, <1>6 DEF DiskOK, DraftsIn, Shape
  <1>8. OpenOK'
    <2>1. op[1].kind = "open" /\ OpenOK /\ op'[1] = op[1] /\ 1 \in Ops /\ generation \in Nat
          /\ op[1].gen <= generation /\ op[1].gen \in Nat
      <3>1. 1 \in Ops
        BY LoaderConstants DEF Ops
      <3>2. OpenOK /\ generation \in Nat /\ op[1] \in OpRec /\ OpOK(1)
        BY <3>1 DEF Shape, Typed
      <3>3. op[1].gen \in Nat /\ op[1].gen <= generation /\ op[1].kind = "open"
        BY <3>2 DEF OpRec, OpOK, OpenOK
      <3> QED
        BY <1>2, <3>1, <3>2, <3>3
    <2>2. ASSUME op'[1].step = "read", op'[1].gen = generation'
          PROVE  /\ screen = None /\ liveDrafts = Drafts /\ liveTabs = Tabs
                 /\ op[1].tab \in Tabs /\ op[1].tab = curTab
                 /\ op[1].draft \in Drafts /\ op[1].draft = activeDraft[op[1].tab]
                 /\ NoDeletions' /\ \A j \in Ops : j # 1 => op'[j].step \in Selecting \cup {"new", "done"}
      <3>1. generation' = generation
        BY <2>1, <2>2
      <3>2. op[1].gen = generation /\ op[1].step = "read"
        BY <2>1, <2>2, <3>1
      <3>3. /\ screen = None /\ liveDrafts = Drafts /\ liveTabs = Tabs
            /\ op[1].tab \in Tabs /\ op[1].tab = curTab
            /\ op[1].draft \in Drafts /\ op[1].draft = activeDraft[op[1].tab]
            /\ NoDeletions /\ \A j \in Ops : j # 1 => op[j].step \in Selecting \cup {"new", "done"}
        BY <2>1, <3>2 DEF OpenOK, At
      <3>4. op'[i].kind = "tab" /\ op'[i].step = "pick"
        BY <3>1
      <3>5. NoDeletions'
        BY <1>2, <3>3, <3>4 DEF NoDeletions, Deletes
      <3>6. \A j \in Ops : j # 1 => op'[j].step \in Selecting \cup {"new", "done"}
        BY <1>2, <3>3, <3>4 DEF Selecting
      <3> QED
        BY <3>3, <3>5, <3>6
    <2> QED
      BY <1>1, <1>2, <2>1, <2>2 DEF OpenOK, At
  <1>9. GensOK'
    <2>1. GensOK /\ \A j \in Ops : op[j].ctx <= context /\ op[j].gen <= generation
                                 /\ op[j].ctx \in Nat /\ op[j].gen \in Nat
      BY DEF Shape, OpOK, Typed, OpRec
    <2>2. context \in Nat /\ generation \in Nat
      BY TypedParts
    <2>3. ASSUME NEW j \in Ops, NEW k \in Ops, j < k, op'[j].step = "new" PROVE op'[k].step = "new"
      <3>1. j # i /\ op[j].step = "new"
        BY <1>2, <2>3
      <3>2. k # i
        BY <2>3, <3>1 DEF NextOp, At
      <3> QED
        BY <1>2, <2>1, <2>3, <3>1, <3>2 DEF GensOK, At
    <2>4. ASSUME NEW j \in Ops, NEW k \in Ops, op'[j].step \in Loading, op'[k].step \in Loading,
                 op'[j].gen = op'[k].gen
          PROVE  j = k
      <3>1. CASE j # i /\ k # i
        BY <1>2, <2>1, <2>4, <3>1 DEF GensOK
      <3>2. op'[i].step \in Loading => op'[i].gen = generation' /\ generation < generation'
        BY DEF Loading, Fetching, Writing
      <3>3. \A l \in Ops : l # i => op'[l].gen <= generation /\ op'[l].gen \in Nat
        BY <1>2, <2>1
      <3>4. CASE j = i /\ k # i
        BY <2>2, <2>4, <3>2, <3>3, <3>4
      <3>5. CASE j # i /\ k = i
        BY <2>2, <2>4, <3>2, <3>3, <3>5
      <3> QED
        BY <3>1, <3>4, <3>5
    <2>5. ASSUME NEW j \in Ops, NEW k \in Ops, op'[j].kind = "tab", op'[k].kind = "tab", j < k
          PROVE  op'[j].ctx < context'
      <3>1. j # i
        <4>1. ASSUME j = i PROVE FALSE
          <5>1. k # i /\ op[k].kind = "open"
            BY <1>1, <2>5, <4>1 DEF Ops
          <5> QED
            BY <1>2, <2>5, <5>1
        <4> QED
          BY <4>1
      <3>2. op'[j].ctx = op[j].ctx /\ op[j].kind = "tab"
        BY <1>2, <2>5, <3>1
      <3>3. CASE k = i
        BY <2>1, <2>2, <2>5, <3>2, <3>3
      <3>4. CASE k # i
        <4>1. op[j].ctx < context
          BY <1>2, <2>1, <2>5, <3>2, <3>4 DEF GensOK
        <4> QED
          BY <2>1, <2>2, <3>2, <4>1
      <3> QED
        BY <3>3, <3>4
    <2>6. \A j, k \in Ops : j < k /\ op'[j].step = "new" => op'[k].step = "new"
      BY <2>3
    <2>7. \A j, k \in Ops : op'[j].step \in Loading /\ op'[k].step \in Loading
            /\ op'[j].gen = op'[k].gen => j = k
      BY <2>4
    <2>8. \A j, k \in Ops : op'[j].kind = "tab" /\ op'[k].kind = "tab" /\ j < k
            => op'[j].ctx < context'
      BY <2>5
    <2> QED
      BY <2>6, <2>7, <2>8 DEF GensOK, At
  <1>10. curDraft' = screen' /\ generation' >= 1
    <2>1. curDraft = screen /\ generation >= 1 /\ generation \in Nat
      BY DEF Shape, Typed
    <2> QED
      BY <1>2, <2>1
  <1> QED
    BY <1>3, <1>4, <1>5, <1>7, <1>8, <1>9, <1>10 DEF Shape

\* A context that has passed selects nothing.
LEMMA Cancelled ==
  ASSUME Shape, NEW i \in Ops, Others(i), context' \in Nat, context < context',
         op'[i].step \in Selecting =>
           /\ op'[i].tab \in liveTabs'
           /\ \A k \in Ops : Running(k)' /\ op'[k].kind = "dropTab" => op'[k].gone # op'[i].tab
  PROVE  TabsOK'
  <1> SUFFICES ASSUME NEW j \in Ops, op'[j].step \in Selecting, op'[j].ctx = context'
               PROVE  /\ op'[j].tab \in liveTabs'
                      /\ \A k \in Ops : Running(k)' /\ op'[k].kind = "dropTab"
                                        => op'[k].gone # op'[j].tab
    BY DEF TabsOK, ContextCurrent
  <1>1. CASE j = i
    BY <1>1
  <1>2. CASE j # i
    <2>1. op'[j] = op[j]
      BY <1>2 DEF Others
    <2>2. op[j].ctx <= context /\ op[j].ctx \in Nat /\ context \in Nat
      BY DEF Shape, OpOK, Typed, OpRec
    <2> QED
      BY <2>1, <2>2
  <1> QED
    BY <1>1, <1>2

\* What the operations that begin take from the stores.
LEMMA NoOpFields ==
  /\ NoOp \in OpRec /\ NoOp.tab = None /\ NoOp.draft = None /\ NoOp.ctx = 0 /\ NoOp.gen = 0
  /\ NoOp.failed = FALSE
  BY NoOpTyped DEF NoOp

DraftRec(t, d) == [NoOp EXCEPT !.kind = "draft", !.tab = t, !.draft = d]
DropRec(t, g) == [NoOp EXCEPT !.kind = "dropDraft", !.tab = t, !.gone = g]
SelectRec(o, t, p, L, c) ==
  [o EXCEPT !.step = "pick", !.tab = t, !.prev = p, !.prevListed = L, !.ctx = c]

LEMMA DraftOp ==
  ASSUME NEW t \in Tabs, NEW d \in Drafts
  PROVE  /\ DraftRec(t, d) \in OpRec /\ DraftRec(t, d).kind = "draft" /\ DraftRec(t, d).tab = t
         /\ DraftRec(t, d).draft = d /\ DraftRec(t, d).ctx = 0 /\ DraftRec(t, d).failed = FALSE
  <1>1. "draft" \in Kinds
    BY DEF Kinds
  <1> QED
    BY <1>1, NoOpFields DEF OpRec, DraftRec

LEMMA TabOp ==
  ASSUME NEW o, o = [NoOp EXCEPT !.kind = "tab"]
  PROVE  o \in OpRec /\ o.kind = "tab" /\ o.gen = 0 /\ o.failed = FALSE
  <1>1. "tab" \in Kinds
    BY DEF Kinds
  <1> QED
    BY <1>1, NoOpFields DEF OpRec

LEMMA DropDraftOp ==
  ASSUME NEW t \in Tabs, NEW g \in Drafts
  PROVE  /\ DropRec(t, g) \in OpRec /\ DropRec(t, g).kind = "dropDraft" /\ DropRec(t, g).tab = t
         /\ DropRec(t, g).gone = g /\ DropRec(t, g).draft = None /\ DropRec(t, g).ctx = 0
         /\ DropRec(t, g).gen = 0 /\ DropRec(t, g).failed = FALSE
  <1>1. "dropDraft" \in Kinds
    BY DEF Kinds
  <1> QED
    BY <1>1, NoOpFields DEF OpRec, DropRec

LEMMA DropTabOp ==
  ASSUME NEW g \in Tabs, NEW o, o = [NoOp EXCEPT !.kind = "dropTab", !.gone = g]
  PROVE  /\ o \in OpRec /\ o.kind = "dropTab" /\ o.gone = g /\ o.tab = None
         /\ o.ctx = 0 /\ o.gen = 0 /\ o.failed = FALSE
  <1>1. "dropTab" \in Kinds
    BY DEF Kinds
  <1> QED
    BY <1>1, NoOpFields DEF OpRec

LEMMA WithStep ==
  ASSUME NEW o \in OpRec, NEW s \in Steps, NEW r, r = [o EXCEPT !.step = s]
  PROVE  /\ r \in OpRec /\ r.step = s /\ r.kind = o.kind /\ r.tab = o.tab /\ r.draft = o.draft
         /\ r.ctx = o.ctx /\ r.gen = o.gen /\ r.gone = o.gone /\ r.failed = o.failed
  BY DEF OpRec

LEMMA SelectOp ==
  ASSUME NEW o \in OpRec, NEW t \in Tabs, NEW p \in Tabs, NEW L \in SUBSET Drafts, NEW c \in Nat,
         NEW r, r = SelectRec(o, t, p, L, c)
  PROVE  /\ r \in OpRec /\ r.step = "pick" /\ r.tab = t /\ r.prev = p /\ r.ctx = c
         /\ r.kind = o.kind /\ r.gen = o.gen /\ r.gone = o.gone /\ r.failed = o.failed
  <1>1. "pick" \in Steps
    BY DEF Steps
  <1> QED
    BY <1>1 DEF OpRec, SelectRec

LEMMA Written ==
  ASSUME Typed, NEW i \in Ops, NEW r \in OpRec, op' = [op EXCEPT ![i] = r]
  PROVE  Others(i) /\ op'[i] = r
  BY Replaced

\* The i-th operation is the only one that may be a new deletion.
LEMMA NoDrops ==
  ASSUME Shape, NEW i \in Ops, Starts(i), ~Deletes(i)'
  PROVE  UNCHANGED <<barredTab, barred>> => BarsOK'
  <1> SUFFICES ASSUME barredTab' = barredTab, barred' = barred PROVE BarsOK'
    OBVIOUS
  <1>1. /\ BarsOK /\ ~Deletes(i) /\ \A j \in Ops : j # i => op'[j] = op[j]
    BY DEF Shape, Starts, Deletes, Others
  <1>2. op'[i].kind # "dropDraft" /\ op'[i].kind # "dropTab"
    BY DEF Deletes
  <1>3. \A j \in Ops : Deletes(j)' /\ Running(j)' => j # i /\ Deletes(j) /\ Running(j)
    BY <1>1 DEF Deletes, Running
  <1>4. \A j \in Ops : Deletes(j) /\ Running(j) => Deletes(j)' /\ Running(j)'
    BY <1>1 DEF Deletes, Running
  <1>5. \A j, k \in Ops : Deletes(j)' /\ Running(j)' /\ Deletes(k)' /\ Running(k)' => j = k
    BY <1>1, <1>3 DEF BarsOK
  <1>6. (\A j \in Ops : Deletes(j)' => ~Running(j)') => barredTab' = None /\ barred' = {}
    BY <1>1, <1>4 DEF BarsOK
  <1>7. ASSUME NEW j \in Ops, Running(j)', op'[j].kind = "dropDraft"
        PROVE  barredTab' = op'[j].tab /\ barred' = {op'[j].gone} /\ op'[j].draft # op'[j].gone
    <2>1. j # i /\ op'[j] = op[j]
      BY <1>1, <1>2, <1>7
    <2>2. Running(j) /\ op[j].kind = "dropDraft"
      BY <1>7, <2>1 DEF Running
    <2> QED
      BY <1>1, <2>1, <2>2 DEF BarsOK
  <1>8. ASSUME NEW j \in Ops, Running(j)', op'[j].kind = "dropTab"
        PROVE  barredTab' = op'[j].gone /\ barred' = {}
    <2>1. j # i /\ op'[j] = op[j]
      BY <1>1, <1>2, <1>8
    <2>2. Running(j) /\ op[j].kind = "dropTab"
      BY <1>8, <2>1 DEF Running
    <2> QED
      BY <1>1, <2>1, <2>2 DEF BarsOK
  <1> QED
    BY <1>5, <1>6, <1>7, <1>8 DEF BarsOK, Deletes, Running

LEMMA FirstDrop ==
  ASSUME Shape, NEW i \in Ops, Starts(i), \A j \in Ops : Deletes(j) => ~Running(j),
         op'[i].kind \in {"dropDraft", "dropTab"},
         op'[i].kind = "dropDraft" =>
           barredTab' = op'[i].tab /\ barred' = {op'[i].gone} /\ op'[i].draft # op'[i].gone,
         op'[i].kind = "dropTab" => barredTab' = op'[i].gone /\ barred' = {}
  PROVE  BarsOK' /\ \A j \in Ops : Deletes(j)' /\ Running(j)' => j = i
  <1>1. \A j \in Ops : j # i => op'[j] = op[j]
    BY DEF Starts, Others
  <1>2. \A j \in Ops : Deletes(j)' /\ Running(j)' => j = i
    BY <1>1 DEF Deletes, Running
  <1>3. Deletes(i)' /\ Running(i)'
    BY DEF Starts, Deletes, Running
  <1>4. \A j \in Ops : Running(j)' /\ op'[j].kind = "dropDraft" => j = i
    BY <1>2 DEF Deletes
  <1>5. \A j \in Ops : Running(j)' /\ op'[j].kind = "dropTab" => j = i
    BY <1>2 DEF Deletes
  <1> QED
    BY <1>2, <1>3, <1>4, <1>5 DEF BarsOK

-----------------------------------------------------------------------------
\* A draft is selected.
LEMMA DraftSelectDoes ==
  ASSUME Shape, NEW i \in Ops, NEW d \in Drafts, DraftSelect(i, d)
  PROVE  /\ Shape' /\ Starts(i) /\ op'[i].kind = "draft" /\ op'[i].step = "flush"
         /\ op'[i].tab = curTab /\ op'[i].draft = d /\ op'[i].gen = generation'
         /\ generation' = generation + 1 /\ context' = context
         /\ UNCHANGED <<barredTab, barred>>
  <1>1. /\ NextOp(i) /\ d \in listed /\ UNCHANGED <<stores, context, queues, bars, disk>>
        /\ Typed /\ barredTab' = barredTab /\ barred' = barred /\ context' = context
        /\ OpenOK
    BY DEF DraftSelect, Shape, bars
  <1>2. curTab \in Tabs /\ generation \in Nat /\ context \in Nat /\ generation + 1 \in Nat
        /\ generation < generation + 1
    BY <1>1, TypedParts DEF OpenOK
  <1>3. PICK o : o = DraftRec(curTab, d)
    OBVIOUS
  <1>4. /\ o \in OpRec /\ o.kind = "draft" /\ o.tab = curTab /\ o.draft = d /\ o.ctx = 0
        /\ o.failed = FALSE
    <2>1. curTab \in Tabs
      BY <1>2
    <2> QED
      BY <1>3, <2>1, DraftOp
  <1>5. StartLoad(i, o, generation + 1)
    BY <1>3 DEF DraftSelect, DraftRec
  <1>6. /\ Others(i) /\ op'[i].step = "flush" /\ op'[i].gen = generation + 1
        /\ generation' = generation + 1
        /\ op'[i].kind = "draft" /\ op'[i].tab = curTab /\ op'[i].draft = d
        /\ op'[i].ctx = 0 /\ op'[i].failed = FALSE
    BY <1>1, <1>2, <1>4, <1>5, StartLoads DEF Typed
  <1>7. Starts(i)
    BY <1>1, <1>6, StartsBegin
  <1>8. OpOK(i)'
    <2>1. op'[i].gen <= generation' /\ op'[i].ctx <= context'
      BY <1>1, <1>2, <1>6
    <2>2. "flush" \in StepsOf("draft") /\ i # 1
      BY <1>7 DEF StepsOf, Loading, Fetching, Starts
    <2> QED
      BY <1>2, <1>6, <2>1, <2>2 DEF OpOK, Running, At
  <1>9. BarsOK'
    <2>1. ~Deletes(i)'
      BY <1>6 DEF Deletes
    <2> QED
      BY <1>1, <1>7, <2>1, NoDrops
  <1>10. TabsOK'
    <2>1. op'[i].step \notin Selecting /\ op'[i].kind # "dropTab" /\ TabsOK
          /\ \A j \in Ops : j # i => op'[j] = op[j]
      BY <1>6 DEF Selecting, Shape, Others
    <2>2. liveTabs' = liveTabs
      BY <1>1 DEF disk
    <2> SUFFICES ASSUME NEW j \in Ops, op'[j].step \in Selecting, op'[j].ctx = context'
                 PROVE  /\ op'[j].tab \in liveTabs'
                        /\ \A k \in Ops : Running(k)' /\ op'[k].kind = "dropTab"
                                          => op'[k].gone # op'[j].tab
      BY DEF TabsOK, ContextCurrent
    <2>3. op'[j] = op[j] /\ op[j].step \in Selecting /\ ContextCurrent(j)
      BY <1>1, <2>1 DEF ContextCurrent
    <2>4. op[j].tab \in liveTabs
      BY <2>1, <2>3 DEF TabsOK
    <2>5. ASSUME NEW k \in Ops, Running(k)', op'[k].kind = "dropTab" PROVE op'[k].gone # op'[j].tab
      <3>1. op'[k] = op[k] /\ Running(k) /\ op[k].kind = "dropTab"
        BY <2>1, <2>5 DEF Running
      <3> QED
        BY <2>1, <2>3, <3>1 DEF TabsOK
    <2> QED
      BY <2>2, <2>3, <2>4, <2>5
  <1>11. Shape'
    <2>1. generation' # generation /\ generation <= generation' /\ context <= context'
          /\ generation' \in Nat /\ context' \in Nat
      BY <1>1, <1>2, <1>6
    <2>2. barredTab' \in Tabs \cup {None} /\ barred' \subseteq Drafts
      BY <1>1 DEF Typed
    <2> QED
      BY <1>1, <1>2, <1>6, <1>8, <1>9, <1>10, <2>1, <2>2, StartsShape
  <1> QED
    BY <1>1, <1>6, <1>7, <1>11

\* A tab is selected.
LEMMA TabSelectDoes ==
  ASSUME Shape, NEW i \in Ops, NEW t \in Tabs, TabSelect(i, t)
  PROVE  /\ Shape' /\ Starts(i) /\ op'[i].kind = "tab" /\ op'[i].step = "pick"
         /\ op'[i].tab = t /\ op'[i].ctx = context' /\ t \in liveTabs
         /\ generation' = generation /\ context' = context + 1
         /\ UNCHANGED <<barredTab, barred>>
  <1>1. /\ NextOp(i) /\ listed # {} /\ UNCHANGED <<stores, generation, queues, bars, disk>>
        /\ Typed /\ barredTab' = barredTab /\ barred' = barred /\ context' = context + 1
        /\ OpenOK /\ t \in liveTabs /\ CanSelectTab(t) /\ generation' = generation
    BY DEF TabSelect, TabSelected, Shape, bars
  <1>2. curTab \in Tabs /\ generation \in Nat /\ context \in Nat /\ context + 1 \in Nat
        /\ context < context + 1 /\ listed \in SUBSET Drafts
    BY <1>1, TypedParts DEF OpenOK, StoresTyped
  <1>3. PICK o : o = [NoOp EXCEPT !.kind = "tab"]
    OBVIOUS
  <1>4. PICK r : r = SelectRec(o, t, curTab, listed, context + 1)
    OBVIOUS
  <1>5. /\ r \in OpRec /\ r.step = "pick" /\ r.kind = "tab" /\ r.tab = t /\ r.prev = curTab
        /\ r.ctx = context + 1 /\ r.gen = 0 /\ r.failed = FALSE
    <2>1. o \in OpRec /\ o.kind = "tab" /\ o.gen = 0 /\ o.failed = FALSE
      BY <1>3, TabOp
    <2>2. curTab \in Tabs /\ listed \in SUBSET Drafts /\ context + 1 \in Nat
      BY <1>2
    <2> QED
      BY <1>4, <2>1, <2>2, SelectOp
  <1>6. op' = [op EXCEPT ![i] = r]
    BY <1>3, <1>4 DEF TabSelect, TabSelected, SelectRec
  <1>7. /\ Others(i) /\ op'[i].step = "pick" /\ op'[i].kind = "tab" /\ op'[i].tab = t
        /\ op'[i].prev = curTab /\ op'[i].ctx = context + 1 /\ op'[i].gen = 0
        /\ op'[i].failed = FALSE
    BY <1>1, <1>5, <1>6, Written
  <1>8. Starts(i)
    BY <1>1, <1>7, StartsBegin
  <1>9. OpOK(i)'
    <2>1. op'[i].gen <= generation' /\ op'[i].ctx <= context'
      BY <1>1, <1>2, <1>7
    <2>2. "pick" \in StepsOf("tab") /\ i # 1 /\ "pick" \notin Loading
      BY <1>8 DEF StepsOf, Selecting, Loading, Fetching, Writing, Starts
    <2> QED
      BY <1>2, <1>7, <2>1, <2>2 DEF OpOK, Running, At
  <1>10. BarsOK'
    <2>1. ~Deletes(i)'
      BY <1>7 DEF Deletes
    <2> QED
      BY <1>1, <1>8, <2>1, NoDrops
  <1>11. TabsOK'
    <2>1. liveTabs' = liveTabs
      BY <1>1 DEF disk
    <2>2. ASSUME NEW k \in Ops, Running(k)', op'[k].kind = "dropTab" PROVE op'[k].gone # t
      <3>1. op'[k] = op[k] /\ Running(k) /\ op[k].kind = "dropTab"
        BY <1>7, <2>2 DEF Running, Others
      <3>2. barredTab = op[k].gone /\ barred = {}
        BY <3>1 DEF Shape, BarsOK
      <3> QED
        BY <1>1, <3>1, <3>2 DEF CanSelectTab
    <2> QED
      BY <1>1, <1>2, <1>7, <2>1, <2>2, Cancelled
  <1>12. Shape'
    <2>1. generation <= generation' /\ context < context' /\ context <= context'
          /\ generation' \in Nat /\ context' \in Nat
      BY <1>1, <1>2, <1>7
    <2>2. barredTab' \in Tabs \cup {None} /\ barred' \subseteq Drafts
      BY <1>1 DEF Typed
    <2>3. UNCHANGED <<stores, queues, disk>>
      BY <1>1
    <2> QED
      BY <1>1, <1>7, <1>9, <1>10, <1>11, <2>1, <2>2, <2>3, StartsShape
  <1> QED
    BY <1>1, <1>7, <1>8, <1>12

\* A deletion of a draft begins.
LEMMA DropDraftDoes ==
  ASSUME Shape, NEW i \in Ops, NEW d \in Drafts, DropDraft(i, d)
  PROVE  /\ Shape' /\ Starts(i) /\ op'[i].kind = "dropDraft" /\ op'[i].step \in {"flush", "settle"}
         /\ op'[i].tab = curTab /\ op'[i].gone = d /\ d \in listed
  <1>1. /\ NextOp(i) /\ d \in listed /\ (curDraft = d => listed # {d})
        /\ (\A j \in Ops : Deletes(j) => ~Running(j))
        /\ UNCHANGED <<stores, queues, disk>>
        /\ Typed /\ barredTab' = curTab /\ barred' = {d} /\ context' = context + 1
        /\ OpenOK
    BY DEF DropDraft, Shape
  <1>2. /\ curTab \in Tabs /\ generation \in Nat /\ context \in Nat /\ context + 1 \in Nat
        /\ context < context + 1 /\ listed \subseteq Drafts /\ listed # {}
        /\ generation + 1 \in Nat /\ generation + 2 \in Nat
        /\ generation < generation + 1 /\ generation < generation + 2
    BY <1>1, TypedParts DEF OpenOK, StoresTyped
  <1>3. PICK o : o = DropRec(curTab, d)
    OBVIOUS
  <1>4. /\ Others(i) /\ op'[i].kind = "dropDraft" /\ op'[i].tab = curTab /\ op'[i].gone = d
        /\ op'[i].ctx = 0 /\ op'[i].failed = FALSE /\ op'[i].draft \in (Drafts \cup {None}) \ {d}
        /\ generation' \in Nat /\ generation < generation'
        /\ \/ op'[i].step = "flush" /\ op'[i].gen = generation' /\ op'[i].draft \in Drafts
           \/ op'[i].step = "settle" /\ op'[i].gen = 0
    <2>1. CASE curDraft = d
      <3>1. PICK e : e = First(listed \ {d})
        OBVIOUS
      <3>2. e \in listed \ {d}
        <4>1. listed \ {d} # {}
          BY <1>1, <2>1
        <4>2. listed \ {d} \in SUBSET Nat /\ IsFiniteSet(listed \ {d})
          BY <1>2, FS_Subset, LoaderConstants
        <4> QED
          BY <3>1, <4>1, <4>2, FirstAndMax
      <3>3. PICK r : r = [o EXCEPT !.draft = e]
        OBVIOUS
      <3>4. /\ r \in OpRec /\ r.kind = "dropDraft" /\ r.tab = curTab /\ r.gone = d /\ r.draft = e
            /\ r.ctx = 0 /\ r.gen = 0 /\ r.failed = FALSE
        <4>1. /\ o \in OpRec /\ o.kind = "dropDraft" /\ o.tab = curTab /\ o.gone = d
              /\ o.ctx = 0 /\ o.gen = 0 /\ o.failed = FALSE
          <5>1. curTab \in Tabs
            BY <1>2
          <5> QED
            BY <1>3, <5>1, DropDraftOp
        <4>2. e \in Drafts
          BY <1>2, <3>2
        <4> QED
          BY <3>3, <4>1, <4>2, WithDraft
      <3>5. StartLoad(i, r, generation + 2)
        BY <1>3, <2>1, <3>1, <3>3 DEF DropDraft, DropRec
      <3>6. /\ Others(i) /\ op'[i].step = "flush" /\ op'[i].gen = generation + 2
            /\ generation' = generation + 2
            /\ op'[i].kind = r.kind /\ op'[i].tab = r.tab /\ op'[i].draft = r.draft
            /\ op'[i].ctx = r.ctx /\ op'[i].gone = r.gone /\ op'[i].failed = r.failed
        BY <1>1, <1>2, <3>4, <3>5, StartLoads DEF Typed
      <3>7. e \in Drafts /\ e # d
        BY <1>2, <3>2
      <3> QED
        BY <1>2, <3>4, <3>6, <3>7
    <2>2. CASE curDraft # d
      <3>1. PICK r : r = [o EXCEPT !.step = "settle"]
        OBVIOUS
      <3>2. /\ r \in OpRec /\ r.kind = "dropDraft" /\ r.tab = curTab /\ r.gone = d /\ r.draft = None
            /\ r.ctx = 0 /\ r.gen = 0 /\ r.failed = FALSE /\ r.step = "settle"
        <4>1. /\ o \in OpRec /\ o.kind = "dropDraft" /\ o.tab = curTab /\ o.gone = d
              /\ o.draft = None /\ o.ctx = 0 /\ o.gen = 0 /\ o.failed = FALSE
          <5>1. curTab \in Tabs
            BY <1>2
          <5> QED
            BY <1>3, <5>1, DropDraftOp
        <4>2. "settle" \in Steps
          BY DEF Steps
        <4> QED
          BY <3>1, <4>1, <4>2, WithStep
      <3>3. op' = [op EXCEPT ![i] = r] /\ generation' = generation + 1
        BY <1>3, <2>2, <3>1 DEF DropDraft, DropRec
      <3>4. Others(i) /\ op'[i] = r
        BY <1>1, <3>2, <3>3, Written
      <3>5. None # d
        BY LoaderConstants
      <3> QED
        BY <1>2, <3>2, <3>3, <3>4, <3>5
    <2> QED
      BY <2>1, <2>2
  <1>5. Starts(i)
    BY <1>1, <1>2, <1>4, StartsBegin
  <1>6. OpOK(i)'
    <2>1. op'[i].gen <= generation' /\ op'[i].ctx <= context'
      BY <1>1, <1>2, <1>4
    <2>2. "flush" \in StepsOf("dropDraft") /\ "settle" \in StepsOf("dropDraft") /\ i # 1
      BY <1>5 DEF StepsOf, Loading, Fetching, Settles, Starts
    <2>3. op'[i].step = "settle" => op'[i].step \notin Loading
      BY DEF Loading, Fetching, Writing
    <2> QED
      BY <1>2, <1>4, <2>1, <2>2, <2>3 DEF OpOK, Running, At
  <1>7. BarsOK'
    BY <1>1, <1>4, <1>5, FirstDrop
  <1>8. TabsOK'
    <2>1. op'[i].step \notin Selecting
      BY <1>4 DEF Selecting
    <2> QED
      BY <1>1, <1>2, <1>4, <2>1, Cancelled
  <1>9. Shape'
    <2>1. /\ generation <= generation' /\ context <= context' /\ generation' # generation
          /\ context' \in Nat
      BY <1>1, <1>2, <1>4
    <2>2. barredTab' \in Tabs \cup {None} /\ barred' \subseteq Drafts
      BY <1>1, <1>2
    <2> QED
      BY <1>1, <1>2, <1>4, <1>6, <1>7, <1>8, <2>1, <2>2, StartsShape
  <1> QED
    BY <1>1, <1>4, <1>5, <1>9

\* A deletion of a tab begins.
LEMMA DropTabDoes ==
  ASSUME Shape, NEW i \in Ops, NEW t \in Tabs, DropTab(i, t)
  PROVE  /\ Shape' /\ Starts(i) /\ op'[i].kind = "dropTab" /\ op'[i].step \in {"pick", "point"}
         /\ op'[i].gone = t
  <1>1. /\ NextOp(i) /\ listed # {} /\ t \in liveTabs /\ liveTabs # {t}
        /\ (\A j \in Ops : Deletes(j) => ~Running(j))
        /\ UNCHANGED <<stores, queues, disk>>
        /\ Typed /\ barredTab' = t /\ barred' = barred /\ generation' = generation + 1
        /\ OpenOK
    BY DEF DropTab, Shape
  <1>2. /\ curTab \in Tabs /\ generation \in Nat /\ context \in Nat /\ context + 1 \in Nat
        /\ context + 2 \in Nat /\ context < context + 1 /\ context < context + 2
        /\ listed \in SUBSET Drafts /\ generation + 1 \in Nat /\ generation < generation + 1
        /\ liveTabs \subseteq Tabs /\ liveTabs' = liveTabs
    BY <1>1, TypedParts DEF OpenOK, StoresTyped, DiskTyped, disk
  <1>3. barred = {}
    BY <1>1 DEF Shape, BarsOK
  <1>4. PICK o : o = [NoOp EXCEPT !.kind = "dropTab", !.gone = t]
    OBVIOUS
  <1>5. /\ Others(i) /\ op'[i].kind = "dropTab" /\ op'[i].gone = t
        /\ op'[i].gen = 0 /\ op'[i].failed = FALSE
        /\ context' \in Nat /\ context < context' /\ op'[i].ctx <= context'
        /\ \/ /\ op'[i].step = "pick" /\ op'[i].prev \in Tabs
              /\ op'[i].tab \in liveTabs \ {t}
           \/ op'[i].step = "point" /\ op'[i].tab = None
    <2>1. CASE curTab = t
      <3>1. PICK u : u = IF {v \in liveTabs : v > t} = {} THEN Max(liveTabs \ {t})
                                                     ELSE First({v \in liveTabs : v > t})
        OBVIOUS
      <3>2. u \in liveTabs \ {t}
        <4>1. liveTabs \subseteq Nat /\ IsFiniteSet(liveTabs)
          BY <1>2, FS_Subset, LoaderConstants
        <4>2. CASE {v \in liveTabs : v > t} = {}
          <5>1. liveTabs \ {t} # {}
            BY <1>1
          <5>2. liveTabs \ {t} \in SUBSET Nat /\ IsFiniteSet(liveTabs \ {t})
            BY <4>1, FS_Subset
          <5>3. Max(liveTabs \ {t}) \in liveTabs \ {t}
            BY <5>1, <5>2, FirstAndMax
          <5> QED
            BY <3>1, <4>2, <5>3
        <4>3. CASE {v \in liveTabs : v > t} # {}
          <5>1. PICK A : A = {v \in liveTabs : v > t}
            OBVIOUS
          <5>2. A \in SUBSET Nat /\ IsFiniteSet(A) /\ A # {}
            BY <4>1, <4>3, <5>1, FS_Subset
          <5>3. First(A) \in A
            BY <5>2, FirstAndMax
          <5>4. \A v \in A : v \in liveTabs /\ v > t /\ v \in Nat
            BY <4>1, <5>1
          <5>5. t \in Nat
            BY LoaderConstants
          <5>6. \A v \in A : v # t
            BY <5>4, <5>5
          <5>7. u = First(A)
            BY <3>1, <4>3, <5>1
          <5> QED
            BY <5>3, <5>4, <5>6, <5>7
        <4> QED
          BY <4>2, <4>3
      <3>3. u \in Tabs
        BY <1>2, <3>2
      <3>4. PICK r : r = SelectRec(o, u, curTab, listed, context + 2)
        OBVIOUS
      <3>5. /\ r \in OpRec /\ r.step = "pick" /\ r.kind = "dropTab" /\ r.tab = u
            /\ r.prev = curTab /\ r.ctx = context + 2 /\ r.gen = 0 /\ r.failed = FALSE
            /\ r.gone = t
        <4>1. o \in OpRec /\ o.kind = "dropTab" /\ o.gone = t /\ o.gen = 0 /\ o.failed = FALSE
          BY <1>4, DropTabOp
        <4>2. curTab \in Tabs /\ listed \in SUBSET Drafts /\ context + 2 \in Nat
          BY <1>2
        <4> QED
          BY <3>3, <3>4, <4>1, <4>2, SelectOp
      <3>6. TabSelected(i, o, u, context + 2)
        BY <1>4, <2>1, <3>1 DEF DropTab
      <3>7. op' = [op EXCEPT ![i] = r] /\ context' = context + 2
        BY <3>4, <3>6 DEF TabSelected, SelectRec
      <3>8. Others(i) /\ op'[i] = r
        BY <1>1, <3>5, <3>7, Written
      <3> QED
        BY <1>2, <3>2, <3>5, <3>7, <3>8
    <2>2. CASE curTab # t
      <3>1. PICK r : r = [o EXCEPT !.step = "point"]
        OBVIOUS
      <3>2. /\ r \in OpRec /\ r.step = "point" /\ r.kind = "dropTab" /\ r.gone = t
            /\ r.tab = None /\ r.ctx = 0 /\ r.gen = 0 /\ r.failed = FALSE
        <4>1. /\ o \in OpRec /\ o.kind = "dropTab" /\ o.gone = t /\ o.tab = None
              /\ o.ctx = 0 /\ o.gen = 0 /\ o.failed = FALSE
          BY <1>4, DropTabOp
        <4>2. "point" \in Steps
          BY DEF Steps
        <4> QED
          BY <3>1, <4>1, <4>2, WithStep
      <3>3. op' = [op EXCEPT ![i] = r] /\ context' = context + 1
        BY <1>4, <2>2, <3>1 DEF DropTab
      <3>4. Others(i) /\ op'[i] = r
        BY <1>1, <3>2, <3>3, Written
      <3>5. r.ctx <= context + 1
        BY <1>2, <3>2
      <3> QED
        BY <1>2, <3>2, <3>3, <3>4, <3>5
    <2> QED
      BY <2>1, <2>2
  <1>6. Starts(i)
    BY <1>1, <1>5, StartsBegin
  <1>7. OpOK(i)'
    <2>1. op'[i].gen <= generation'
      BY <1>1, <1>2, <1>5
    <2>2. "pick" \in StepsOf("dropTab") /\ "point" \in StepsOf("dropTab") /\ i # 1
      BY <1>6 DEF StepsOf, Selecting, Points, Starts
    <2>3. op'[i].step = "point" => op'[i].step \notin Loading \cup Selecting \cup Backs
      BY DEF Loading, Fetching, Writing, Selecting, Backs
    <2>4. op'[i].step \notin Loading
      BY <1>5 DEF Loading, Fetching, Writing
    <2> QED
      BY <1>2, <1>5, <2>1, <2>2, <2>3, <2>4 DEF OpOK, Running, At
  <1>8. BarsOK' /\ \A j \in Ops : Deletes(j)' /\ Running(j)' => j = i
    BY <1>1, <1>3, <1>5, <1>6, FirstDrop
  <1>9. TabsOK'
    <2>1. op'[i].step \in Selecting => op'[i].tab \in liveTabs \ {t}
      BY <1>5 DEF Selecting
    <2>2. ASSUME NEW k \in Ops, Running(k)', op'[k].kind = "dropTab" PROVE op'[k].gone = t
      <3>1. k = i
        BY <1>8, <2>2 DEF Deletes
      <3> QED
        BY <1>5, <3>1
    <2> QED
      BY <1>2, <1>5, <2>1, <2>2, Cancelled
  <1>10. Shape'
    <2>1. /\ generation <= generation' /\ context <= context' /\ generation' # generation
          /\ generation' \in Nat
      BY <1>1, <1>2, <1>5
    <2>2. barredTab' \in Tabs \cup {None} /\ barred' \subseteq Drafts
      BY <1>1, <1>3
    <2>3. op'[i].kind # "tab" /\ op'[i].step # "flush" /\ op'[i].kind # "open"
          /\ op'[i].step \in {"flush", "pick", "settle", "point"}
      BY <1>5
    <2> QED
      BY <1>1, <1>5, <1>7, <1>8, <1>9, <2>1, <2>2, <2>3, StartsShape
  <1> QED
    BY <1>5, <1>6, <1>10

-----------------------------------------------------------------------------
\* Edits, and steps that change nothing.
Quiet ==
  UNCHANGED <<op, curTab, curDraft, listed, screen, generation, context, draftQueue, tabQueue,
              barredTab, barred, activeTab, activeDraft, liveDrafts, liveTabs>>

LEMMA QuietShape ==
  ASSUME Shape, Quiet, shown' \in 0..MaxEdits, logged' \in [Drafts -> 0..MaxEdits]
  PROVE  Shape'
  <1>1. Typed'
    BY DEF Shape, Typed, Quiet
  <1>2. \A j \in Ops : OpOK(j)'
    BY DEF Shape, OpOK, Quiet, Running, At
  <1>3. QueuesOK'
    BY DEF Shape, QueuesOK, Quiet
  <1>4. OpenOK'
    BY DEF Shape, OpenOK, Quiet, At, NoDeletions, Deletes
  <1>5. DiskOK'
    BY DEF Shape, DiskOK, Quiet, NoDeletions, Deletes, DraftsIn
  <1>6. BarsOK'
    BY DEF Shape, BarsOK, Quiet, Deletes, Running
  <1>7. GensOK'
    BY DEF Shape, GensOK, Quiet, At
  <1>8. TabsOK'
    BY DEF Shape, TabsOK, Quiet, ContextCurrent, Running
  <1>9. curDraft' = screen' /\ generation' >= 1
    BY DEF Shape, Quiet
  <1> QED
    BY <1>1, <1>2, <1>3, <1>4, <1>5, <1>6, <1>7, <1>8, <1>9 DEF Shape

LEMMA EditDoes ==
  ASSUME Shape, Edit
  PROVE  Quiet /\ Shape'
  <1>1. Quiet
    BY DEF Edit, Quiet, queues, bars
  <1>2. /\ screen # None /\ shown < MaxEdits /\ logged[curDraft] < MaxEdits
        /\ shown' = shown + 1 /\ logged' = [logged EXCEPT ![curDraft] = @ + 1]
    BY DEF Edit
  <1>3. Typed /\ curDraft = screen /\ MaxEdits \in Nat
    BY LoaderConstants DEF Shape
  <1>4. curDraft \in Drafts /\ logged[curDraft] \in 0..MaxEdits /\ shown \in 0..MaxEdits
    BY <1>2, <1>3 DEF Typed
  <1>5. shown + 1 \in 0..MaxEdits /\ logged[curDraft] + 1 \in 0..MaxEdits
    BY <1>2, <1>3, <1>4
  <1>6. logged' \in [Drafts -> 0..MaxEdits]
    BY <1>2, <1>3, <1>5 DEF Typed
  <1> QED
    BY <1>1, <1>2, <1>5, <1>6, QuietShape

LEMMA RestDoes ==
  ASSUME Shape, UNCHANGED vars
  PROVE  Quiet /\ Shape'
  <1>1. Quiet /\ shown' = shown /\ logged' = logged
    BY DEF vars, stores, queues, bars, disk, Quiet
  <1>2. shown \in 0..MaxEdits /\ logged \in [Drafts -> 0..MaxEdits]
    BY DEF Shape, Typed
  <1> QED
    BY <1>1, <1>2, QuietShape

-----------------------------------------------------------------------------
(* The shape of the loader's state is an invariant. *)

LEMMA InitShape == Init => Shape
  <1> SUFFICES ASSUME Init PROVE Shape
    OBVIOUS
  <1>1. /\ 1 \in Ops /\ curTab = None /\ curDraft = None /\ listed = {} /\ screen = None
        /\ shown = 0 /\ logged = [d \in Drafts |-> 0] /\ generation = 1 /\ context = 0
        /\ draftQueue = <<>> /\ tabQueue = <<>> /\ barredTab = None /\ barred = {}
        /\ activeTab \in Tabs /\ liveDrafts = Drafts /\ liveTabs = Tabs /\ MaxEdits \in Nat
    BY LoaderConstants DEF Init, Ops
  <1>2. PICK r : r = [NoOp EXCEPT !.step = "flush", !.gen = 1]
    OBVIOUS
  <1>3. /\ r \in OpRec /\ r.kind = "open" /\ r.step = "flush" /\ r.gen = 1 /\ r.ctx = 0
        /\ r.failed = FALSE
    <2>1. "flush" \in Steps /\ NoOp.kind = "open"
      BY DEF Steps, NoOp
    <2> QED
      BY <1>2, <2>1, NoOpFields DEF OpRec
  <1>4. /\ NoOp \in OpRec /\ NoOp.kind = "open" /\ NoOp.step = "new" /\ NoOp.gen = 0
        /\ NoOp.ctx = 0 /\ NoOp.failed = FALSE
    BY NoOpTyped DEF NoOp
  <1>5. op \in [Ops -> OpRec] /\ op[1] = r /\ \A j \in Ops : j # 1 => op[j] = NoOp
    BY <1>1, <1>2, <1>3, <1>4 DEF Init
  <1>6. \A j \in Ops : op[j].kind = "open" /\ (j # 1 => op[j].step = "new")
    BY <1>3, <1>4, <1>5
  <1>7. ASSUME NEW t \in Tabs PROVE activeDraft[t] \in Drafts /\ TabOf[activeDraft[t]] = t
    <2>1. PICK S : S = {d \in Drafts : TabOf[d] = t}
      OBVIOUS
    <2>2. S # {} /\ S \in SUBSET Nat /\ IsFiniteSet(S)
      BY <2>1, FS_Subset, LoaderConstants
    <2>3. activeDraft[t] = First(S)
      BY <2>1 DEF Init
    <2>4. First(S) \in S
      BY <2>2, FirstAndMax
    <2> QED
      BY <2>1, <2>3, <2>4
  <1>8. activeDraft \in [Tabs -> Drafts]
    <2>1. activeDraft = [t \in Tabs |-> activeDraft[t]]
      BY DEF Init
    <2> QED
      BY <1>7, <2>1
  <1>9. Typed
    <2>1. logged \in [Drafts -> 0..MaxEdits] /\ 0 \in 0..MaxEdits
      BY <1>1
    <2> QED
      BY <1>1, <1>5, <1>8, <2>1 DEF Typed
  <1>10. NoDeletions
    BY <1>6 DEF NoDeletions, Deletes
  <1>11. \A j \in Ops : OpOK(j)
    <2>1. OpOK(1)
      <3>1. "flush" \in StepsOf("open")
        BY DEF StepsOf
      <3>2. r.gen <= generation /\ r.ctx <= context
        BY <1>1, <1>3
      <3> QED
        BY <1>3, <1>5, <3>1, <3>2 DEF OpOK, At, Running
    <2>2. ASSUME NEW j \in Ops, j # 1 PROVE OpOK(j)
      <3>1. NoOp.gen <= generation /\ NoOp.ctx <= context
        BY <1>1, <1>4
      <3> QED
        BY <1>4, <1>5, <2>2, <3>1 DEF OpOK, At, Running
    <2> QED
      BY <2>1, <2>2
  <1>12. QueuesOK
    <2>1. \A j \in Ops : op[j].step \in {"flush", "new"}
      BY <1>3, <1>5, <1>6
    <2>2. \A j \in Ops : op[j].step \notin InDraftQueue /\ op[j].step \notin InTabQueue
             /\ op[j].step \notin DraftWrites /\ op[j].step \notin TabWrites
      BY <2>1 DEF InDraftQueue, InTabQueue, DraftWrites, TabWrites, Writing
    <2> QED
      BY <1>1, <2>2 DEF QueuesOK, QueueOK, Distinct, In
  <1>13. OpenOK
    BY <1>1, <1>3, <1>5, <1>6 DEF OpenOK, At
  <1>14. DiskOK
    <2>1. \A t \in Tabs : DraftsIn(t) # {}
      BY <1>1, LoaderConstants DEF DraftsIn
    <2> QED
      BY <1>1, <1>7, <2>1 DEF DiskOK
  <1>15. BarsOK
    BY <1>1, <1>6 DEF BarsOK, Deletes
  <1>16. GensOK
    <2>1. \A j \in Ops : op[j].step \in Loading => j = 1
      BY <1>6 DEF Loading, Fetching, Writing
    <2>2. \A j, k \in Ops : j < k => k # 1
      BY DEF Ops
    <2> QED
      BY <1>6, <2>1, <2>2 DEF GensOK, At
  <1>17. TabsOK
    <2>1. \A j \in Ops : op[j].step \notin Selecting
      BY <1>3, <1>5, <1>6 DEF Selecting
    <2> QED
      BY <2>1 DEF TabsOK
  <1> QED
    BY <1>1, <1>9, <1>11, <1>12, <1>13, <1>14, <1>15, <1>16, <1>17 DEF Shape

LEMMA ShapeStep == Shape /\ [Next]_vars => Shape'
  <1> SUFFICES ASSUME Shape, [Next]_vars PROVE Shape'
    OBVIOUS
  <1>1. CASE Rest \/ UNCHANGED vars
    BY <1>1, RestDoes DEF Rest
  <1>2. CASE Edit
    BY <1>2, EditDoes
  <1>3. ASSUME NEW i \in Ops, Request(i) PROVE Shape'
    BY <1>3, DraftSelectDoes, DropDraftDoes, TabSelectDoes, DropTabDoes DEF Request
  <1>4. ASSUME NEW i \in Ops, Progress(i) PROVE Shape'
    <2>1. CASE Pick(i) \/ TabTurn(i) \/ TabWritten(i) \/ DraftTurn(i)
      BY <2>1, PickDoes, TabTurnDoes, TabWrittenDoes, DraftTurnDoes, SameShape
    <2>2. CASE Point(i) \/ PointTurn(i) \/ PointWritten(i) \/ Settle(i) \/ SettleTurn(i)
      BY <2>2, PointDoes, PointTurnDoes, PointWrittenDoes, SettleDoes, SettleTurnDoes, SameShape
    <2>3. CASE Flushed(i)
      BY <2>3, FlushedDoes, SameShape, OpenFlushed
    <2>4. CASE Read(i)
      BY <2>4, ReadDoes, SameShape, OpenRead
    <2>5. CASE Listed(i) \/ Back(i) \/ Resolve(i)
      BY <2>5, ListedDoes, BackDoes, ResolveDoes
    <2>6. CASE DraftWritten(i) \/ SettleWritten(i) \/ Dropped(i) \/ Refresh(i)
      BY <2>6, DraftWrittenDoes, SettleWrittenDoes, DroppedDoes, RefreshDoes
    <2> QED
      BY <1>4, <2>1, <2>2, <2>3, <2>4, <2>5, <2>6 DEF Progress
  <1>5. ASSUME NEW i \in Ops, Failure(i) PROVE Shape'
    <2>1. CASE TabWriteFails(i)
      BY <2>1, TabWriteFailsDoes, SameShape
    <2>2. CASE CallFails(i)
      BY <2>2, CallFailsDoes, SameShape, OpenFails
    <2>3. CASE FlushFails(i) \/ ReadFails(i) \/ DraftWriteFails(i)
      BY <2>3, LoadFailsDoes, OpenFails
    <2> QED
      BY <1>5, <2>1, <2>2, <2>3 DEF Failure
  <1> QED
    BY <1>1, <1>2, <1>3, <1>4, <1>5 DEF Next

-----------------------------------------------------------------------------
(* The editor stays off what is deleted. *)

LEMMA StartTrusts ==
  ASSUME Shape, NEW i \in Ops, Starts(i)
  PROVE  (Unfailing' => Unfailing) /\ (InOneTab' => InOneTab) /\ (NoDeletions' => NoDeletions)
  <1>1. op[i] = NoOp /\ \A j \in Ops : j # i => op'[j] = op[j]
    BY DEF Starts, NextOp, Shape, OpOK, Others
  <1>2. NoOp.failed = FALSE /\ NoOp.step = "new" /\ NoOp.kind = "open"
    BY DEF NoOp
  <1>3. Unfailing' => Unfailing
    BY <1>1, <1>2 DEF Unfailing, Backing
  <1>4. InOneTab' => InOneTab
    BY <1>1, <1>2 DEF InOneTab
  <1>5. NoDeletions' => NoDeletions
    BY <1>1, <1>2 DEF NoDeletions, Deletes
  <1> QED
    BY <1>3, <1>4, <1>5

\* A deletion that has not come to its target yet.
LEMMA OffLater ==
  ASSUME Shape, OffDeleted, NEW i \in Ops, Running(i), Proceeds(i),
         op'[i].step \notin {"settleWrite", "drop"}
  PROVE  OffDraft(i)' /\ OffTab(i)'
  <1>1. OffDraft(i) /\ op'[i].kind = op[i].kind
    BY DEF OffDeleted, Proceeds, Goes, Ends
  <1>2. Running(i)' => op'[i].gone = op[i].gone
                       /\ (op[i].kind = "dropDraft" => op'[i].tab = op[i].tab)
    BY DEF Proceeds, Goes, Ends, Running
  <1> QED
    BY <1>1, <1>2 DEF OffDraft, OffTab, At

\* What is shown stays, and so does what exists.
LEMMA OffStays ==
  ASSUME Shape, OffDeleted, NEW i \in Ops, Running(i), Proceeds(i),
         UNCHANGED <<curTab, listed, screen, liveDrafts, liveTabs>>,
         OffDraft(i)', OffTab(i)',
         op'[i].tab = op[i].tab \/ ~InOneTab
  PROVE  OffDeleted'
  <1>1. InOneTab' <=> InOneTab
    BY KindsStay
  <1>2. \A j \in Ops : j # i => op'[j] = op[j]
    BY DEF Proceeds, Goes, Ends, Others
  <1>3. op'[i].kind = op[i].kind
    BY DEF Proceeds, Goes, Ends
  <1>4. \A j \in Ops : j # i => OffDraft(j)' /\ OffTab(j)'
    BY <1>2 DEF OffDeleted, OffDraft, OffTab, Running, At
  <1>5. Aligned' /\ TabIsLive' /\ EditorIsLive'
    BY DEF OffDeleted, Aligned, TabIsLive, EditorIsLive
  <1>6. InOneTab => (screen # None => TabOf[screen] = curTab)
    BY DEF OffDeleted
  <1>7. ASSUME InOneTab, NEW j \in Ops, Running(j)', op'[j].kind # "open"
        PROVE  op'[j].tab = curTab
    BY <1>2, <1>3, <1>7 DEF OffDeleted, Running
  <1> QED
    BY <1>1, <1>4, <1>5, <1>6, <1>7 DEF OffDeleted

LEMMA OffSame ==
  ASSUME Shape, OffDeleted, NEW i \in Ops, Same(i), op'[i].step \notin {"settleWrite", "drop"},
         op'[i].tab = op[i].tab \/ ~InOneTab
  PROVE  OffDeleted'
  BY OffLater, OffStays DEF Same

LEMMA MovesTab ==
  ASSUME NEW i \in Ops
  PROVE  /\ \A s \in Steps : Moves(i, s) => op'[i].step = s /\ op'[i].tab = op[i].tab
         /\ \A f \in BOOLEAN : Ends(i, f) => op'[i].step = "done" /\ op'[i].tab = op[i].tab
         /\ Returns(i) => op'[i].step \in {"settle", "point", "done"} /\ op'[i].tab = op[i].tab
  BY ReturnsProceeds DEF Moves, Ends

\* Steps that show nothing.
LEMMA OffStill ==
  ASSUME Shape, OffDeleted, NEW i \in Ops,
         \/ Pick(i) \/ TabTurn(i) \/ TabWritten(i) \/ TabWriteFails(i) \/ DraftTurn(i)
         \/ Point(i) \/ PointTurn(i) \/ PointWritten(i) \/ Settle(i)
         \/ (i # 1 /\ (Flushed(i) \/ Read(i) \/ CallFails(i)))
         \/ (Listed(i) /\ ~ListedShows(i))
  PROVE  OffDeleted'
  <1>1. CASE Pick(i)
    BY <1>1, PickDoes, OffSame, MovesTab DEF Steps
  <1>2. CASE TabTurn(i)
    <2>1. Same(i) /\ op'[i].step \notin {"settleWrite", "drop"} /\ op'[i].tab = op[i].tab
      BY <1>2, TabTurnDoes, MovesTab DEF AfterTab, Steps
    <2> QED
      BY <2>1, OffSame
  <1>3. CASE TabWritten(i)
    <2>1. Same(i) /\ op'[i].step \notin {"settleWrite", "drop"} /\ op'[i].tab = op[i].tab
      BY <1>3, TabWrittenDoes, MovesTab DEF AfterTab, Steps
    <2> QED
      BY <2>1, OffSame
  <1>4. CASE TabWriteFails(i)
    BY <1>4, TabWriteFailsDoes, OffSame, MovesTab
  <1>5. CASE DraftTurn(i)
    BY <1>5, DraftTurnDoes, OffSame, MovesTab DEF Steps
  <1>6. CASE Point(i)
    BY <1>6, PointDoes, OffSame, MovesTab DEF Steps
  <1>7. CASE PointTurn(i)
    <2>1. Same(i) /\ op[i].kind = "dropTab" /\ op'[i].step \in {"pointWrite", "settle"}
      BY <1>7, PointTurnDoes
    <2> QED
      BY <2>1, OffSame DEF InOneTab
  <1>8. CASE PointWritten(i)
    BY <1>8, PointWrittenDoes, OffSame, MovesTab DEF Steps
  <1>9. CASE Settle(i)
    BY <1>9, SettleDoes, OffSame, MovesTab DEF Steps
  <1>10. CASE i # 1 /\ Flushed(i)
    BY <1>10, FlushedDoes, OffSame, MovesTab DEF Steps
  <1>11. CASE i # 1 /\ Read(i)
    BY <1>11, ReadDoes, OffSame, MovesTab DEF Steps
  <1>12. CASE i # 1 /\ CallFails(i)
    BY <1>12, CallFailsDoes, OffSame, MovesTab
  <1>13. CASE Listed(i) /\ ~ListedShows(i)
    BY <1>13, ListedDoes, OffSame, MovesTab
  <1> QED
    BY <1>1, <1>2, <1>3, <1>4, <1>5, <1>6, <1>7, <1>8, <1>9, <1>10, <1>11, <1>12, <1>13

\* A draft deletion goes on only if the editor shows another draft.
LEMMA OffDraftNow ==
  ASSUME Shape, NEW i \in Ops, Running(i), op[i].kind = "dropDraft", EditorIsOff(i)
  PROVE  screen # op[i].gone
  <1>1. curDraft = screen /\ op[i].draft # op[i].gone
    BY DEF Shape, BarsOK
  <1> QED
    BY <1>1 DEF EditorIsOff

\* The turn of a deletion: the editor is off the target, or will have written where it is.
LEMMA OffTurn ==
  ASSUME Shape, OffDeleted, NEW i \in Ops, SettleTurn(i)
  PROVE  OffDeleted'
  <1>1. /\ Same(i) /\ Deletes(i) /\ op[i].step = "settleTurn" /\ curDraft = screen
        /\ Running(i) /\ Proceeds(i) /\ OffDraft(i) /\ OffTab(i) /\ BarsOK
        /\ UNCHANGED <<curTab, listed, screen, liveDrafts, liveTabs>>
    BY SettleTurnDoes DEF Shape, Same, OffDeleted
  <1>2. CASE /\ curDraft # None /\ CanSelect(curTab, curDraft) /\ Goes(i)
             /\ op'[i].step = "settleWrite" /\ op'[i].tab = op[i].tab
             /\ op'[i].settle[1] = curTab /\ op'[i].settle[2] = curDraft
    <2>1. op'[i].kind = op[i].kind /\ op'[i].gone = op[i].gone
      BY <1>2 DEF Goes
    <2>2. OffDraft(i)'
      BY <1>1, <1>2, <2>1 DEF OffDraft, At
    <2>3. OffTab(i)'
      <3> SUFFICES ASSUME op[i].kind = "dropTab"
                   PROVE  /\ curTab # op[i].gone
                          /\ TabOf[curDraft] = curTab => TabOf[screen] # op[i].gone
                          /\ screen # None
        BY <1>1, <1>2, <2>1 DEF OffTab, At
      <3>1. barredTab = op[i].gone /\ barred = {}
        BY <1>1 DEF BarsOK
      <3>2. curTab # op[i].gone
        BY <1>2, <3>1 DEF CanSelect
      <3> QED
        BY <1>1, <1>2, <3>2
    <2> QED
      BY <1>1, <1>2, <2>2, <2>3, OffStays
  <1>3. CASE ~(curDraft # None /\ CanSelect(curTab, curDraft)) /\ Ends(i, FALSE)
    BY <1>1, <1>3, OffSame, MovesTab
  <1>4. CASE /\ ~(curDraft # None /\ CanSelect(curTab, curDraft))
             /\ EditorIsOff(i) /\ Moves(i, "drop")
    <2>1. /\ op'[i].kind = op[i].kind /\ op'[i].gone = op[i].gone /\ op'[i].step = "drop"
          /\ op'[i].tab = op[i].tab
      BY <1>4 DEF Moves, Keeps
    <2>2. OffDraft(i)'
      <3>1. op[i].kind = "dropDraft" => screen # op[i].gone
        BY <1>1, <1>4, OffDraftNow
      <3> QED
        BY <1>1, <2>1, <3>1 DEF OffDraft, At
    <2>3. OffTab(i)'
      <3> SUFFICES ASSUME op[i].kind = "dropTab"
                   PROVE  curTab # op[i].gone /\ (screen # None => TabOf[screen] # op[i].gone)
        BY <1>1, <2>1 DEF OffTab, At
      <3>1. barredTab = op[i].gone /\ barred = {}
        BY <1>1 DEF BarsOK
      <3>2. curTab # op[i].gone
        BY <1>4 DEF EditorIsOff
      <3>3. screen = None
        BY <1>1, <1>4, <3>1, <3>2 DEF CanSelect
      <3> QED
        BY <3>2, <3>3
    <2> QED
      BY <1>1, <2>1, <2>2, <2>3, OffStays
  <1> QED
    BY <1>2, <1>3, <1>4, SettleTurnDoes

LEMMA OffSettled ==
  ASSUME Shape, OffDeleted, NEW i \in Ops, SettleWritten(i)
  PROVE  OffDeleted'
  <1>1. /\ Turns(i) /\ Deletes(i) /\ op[i].step = "settleWrite" /\ Running(i) /\ Proceeds(i)
        /\ UNCHANGED <<curTab, listed, screen, liveDrafts, liveTabs>>
        /\ \/ Ends(i, FALSE)
           \/ EditorIsOff(i) /\ Moves(i, "drop") /\ TabOf[op[i].settle[2]] = op[i].settle[1]
        /\ OffDraft(i) /\ OffTab(i)
    BY SettleWrittenDoes DEF Turns, OffDeleted
  <1>2. CASE Ends(i, FALSE)
    BY <1>1, <1>2, OffLater, OffStays, MovesTab
  <1>3. CASE EditorIsOff(i) /\ Moves(i, "drop") /\ TabOf[op[i].settle[2]] = op[i].settle[1]
    <2>1. /\ op'[i].kind = op[i].kind /\ op'[i].gone = op[i].gone /\ op'[i].step = "drop"
          /\ op'[i].tab = op[i].tab
      BY <1>3 DEF Moves, Keeps
    <2>2. OffDraft(i)'
      <3>1. op[i].kind = "dropDraft" => screen # op[i].gone
        BY <1>1, <1>3, OffDraftNow
      <3> QED
        BY <1>1, <2>1, <3>1 DEF OffDraft, At
    <2>3. OffTab(i)'
      <3>1. op[i].kind = "dropTab" => curTab # op[i].gone /\ TabOf[screen] # op[i].gone
        BY <1>1, <1>3 DEF EditorIsOff, OffTab, At
      <3> QED
        BY <1>1, <2>1, <3>1 DEF OffTab, At
    <2> QED
      BY <1>1, <2>1, <2>2, <2>3, OffStays
  <1> QED
    BY <1>1, <1>2, <1>3

\* A draft is shown that no deletion bars.
LEMMA OffWritten ==
  ASSUME Shape, OffDeleted, NEW i \in Ops, DraftWritten(i)
  PROVE  OffDeleted'
  <1>1. /\ Turns(i) /\ Returns(i) /\ Running(i) /\ Proceeds(i) /\ BarsOK /\ Typed
        /\ op[i].tab \in Tabs /\ op[i].draft \in DraftsIn(op[i].tab)
        /\ UNCHANGED <<curTab, listed, activeTab, liveDrafts, liveTabs>>
        /\ IF curTab = op[i].tab /\ CanSelect(op[i].tab, op[i].draft)
           THEN screen' = op[i].draft ELSE screen' = screen
    BY DraftWrittenDoes DEF Turns, Shape
  <1>2. /\ op'[i].step \notin {"settleWrite", "drop"} /\ op'[i].tab = op[i].tab
        /\ op'[i].kind = op[i].kind /\ \A j \in Ops : j # i => op'[j] = op[j]
    BY <1>1, MovesTab DEF Proceeds, Goes, Ends, Others
  <1>3. CASE ~(curTab = op[i].tab /\ CanSelect(op[i].tab, op[i].draft))
    <2>1. screen' = screen
      BY <1>1, <1>3
    <2> QED
      BY <1>1, <1>2, <2>1, OffLater, OffStays
  <1>4. CASE curTab = op[i].tab /\ CanSelect(op[i].tab, op[i].draft)
    <2>1. /\ screen' = op[i].draft /\ op[i].draft \in liveDrafts /\ TabOf[op[i].draft] = curTab
          /\ curTab \in Tabs
      BY <1>1, <1>4 DEF DraftsIn
    <2>2. EditorIsLive'
      <3>1. curTab \in liveTabs
        BY <2>1, LoaderConstants DEF OffDeleted, TabIsLive
      <3> QED
        BY <1>1, <2>1, <3>1 DEF EditorIsLive
    <2>3. Aligned' /\ TabIsLive'
      BY <1>1 DEF OffDeleted, Aligned, TabIsLive
    <2>4. ASSUME NEW j \in Ops, j # i PROVE OffDraft(j)' /\ OffTab(j)'
      <3>1. op'[j] = op[j] /\ OffDraft(j) /\ OffTab(j)
        BY <1>2, <2>4 DEF OffDeleted
      <3>2. ASSUME Running(j), op[j].kind = "dropDraft" PROVE screen' # op[j].gone
        <4>1. barredTab = op[j].tab /\ barred = {op[j].gone} /\ TabOf[op[j].gone] = op[j].tab
          BY <1>1, <3>1, <3>2 DEF BarsOK, OffDraft
        <4>2. ASSUME op[i].draft = op[j].gone PROVE FALSE
          BY <1>4, <2>1, <4>1, <4>2 DEF CanSelect
        <4> QED
          BY <2>1, <4>2
      <3>3. ASSUME Running(j), op[j].kind = "dropTab"
            PROVE  curTab # op[j].gone /\ TabOf[screen'] # op[j].gone /\ screen' # None
        <4>1. barredTab = op[j].gone /\ barred = {}
          BY <1>1, <3>3 DEF BarsOK
        <4>2. curTab # op[j].gone
          BY <1>4, <4>1 DEF CanSelect
        <4>3. screen' # None
          BY <1>1, <2>1, LoaderConstants DEF DraftsIn, Typed
        <4> QED
          BY <2>1, <4>2, <4>3
      <3>4. OffDraft(j)'
        BY <3>1, <3>2 DEF OffDraft, Running, At
      <3>5. OffTab(j)'
        BY <1>1, <3>1, <3>3 DEF OffTab, Running, At
      <3> QED
        BY <3>4, <3>5
    <2>5. OffDraft(i)' /\ OffTab(i)'
      BY <1>1, <1>2, OffLater
    <2>6. InOneTab' => InOneTab
      BY <1>1, KindsStay
    <2>7. ASSUME InOneTab, NEW j \in Ops, Running(j)', op'[j].kind # "open"
          PROVE  op'[j].tab = curTab
      <3>1. \A k \in Ops : Running(k) /\ op[k].kind # "open" => op[k].tab = curTab
        BY <2>7 DEF OffDeleted
      <3>2. CASE j = i
        BY <1>2, <1>4, <3>2
      <3>3. CASE j # i
        BY <1>2, <2>7, <3>1, <3>3 DEF Running
      <3> QED
        BY <3>2, <3>3
    <2>8. InOneTab' => /\ screen' # None => TabOf[screen'] = curTab'
                       /\ \A j \in Ops : Running(j)' /\ op'[j].kind # "open" => op'[j].tab = curTab'
      BY <1>1, <2>1, <2>6, <2>7
    <2>9. \A j \in Ops : OffDraft(j)' /\ OffTab(j)'
      BY <2>4, <2>5
    <2> QED
      BY <2>2, <2>3, <2>8, <2>9 DEF OffDeleted
  <1> QED
    BY <1>3, <1>4

\* A tab is shown that no deletion bars.
LEMMA OffListed ==
  ASSUME Shape, OffDeleted, NEW i \in Ops, Listed(i), ListedShows(i)
  PROVE  OffDeleted'
  <1>1. /\ op[i].step = "list" /\ op[i].kind \in {"tab", "dropTab"} /\ op[i].tab \in Tabs
        /\ UNCHANGED <<screen, liveDrafts, liveTabs>>
        /\ ContextCurrent(i) /\ listed' = DraftsIn(op[i].tab) /\ curTab' = op[i].tab
        /\ Running(i) /\ TabsOK
    BY ListedDoes DEF ListedShows, Running, Shape
  <1>2. Proceeds(i) /\ op'[i].step \in {"flush", "settle", "point", "done"}
    <2>1. CASE ListedLoads(i)
      BY <2>1 DEF ListedLoads, Proceeds
    <2>2. CASE Turns(i) /\ Returns(i)
      BY <2>2, MovesTab DEF Turns
    <2> QED
      BY <2>1, <2>2 DEF ListedShows
  <1>3. /\ op[i].tab \in liveTabs
        /\ \A k \in Ops : Running(k) /\ op[k].kind = "dropTab" => op[k].gone # op[i].tab
    BY <1>1 DEF TabsOK, Selecting
  <1>4. Aligned' /\ TabIsLive' /\ EditorIsLive'
    BY <1>1, <1>3 DEF OffDeleted, Aligned, TabIsLive, EditorIsLive, DraftsIn
  <1>5. \A j \in Ops : j # i => op'[j] = op[j]
    BY <1>2 DEF Proceeds, Goes, Ends, Others
  <1>6. OffDraft(i)' /\ OffTab(i)'
    BY <1>1, <1>2, OffLater
  <1>7. ASSUME NEW j \in Ops, j # i PROVE OffDraft(j)' /\ OffTab(j)'
    <2>1. op'[j] = op[j] /\ OffDraft(j) /\ OffTab(j)
      BY <1>5, <1>7 DEF OffDeleted
    <2>2. OffDraft(j)'
      BY <1>1, <2>1 DEF OffDraft, Running, At
    <2>3. OffTab(j)'
      BY <1>1, <1>3, <2>1 DEF OffTab, Running, At
    <2> QED
      BY <2>2, <2>3
  <1>8. ~InOneTab'
    <2>1. ~InOneTab
      BY <1>1 DEF InOneTab
    <2> QED
      BY <1>2, <2>1, KindsStay
  <1> QED
    BY <1>4, <1>6, <1>7, <1>8 DEF OffDeleted

\* A failed load of an editor that stays in its tab.
LEMMA OffFails ==
  ASSUME Shape, OffDeleted, NEW i \in Ops, i # 1, FlushFails(i) \/ ReadFails(i) \/ DraftWriteFails(i),
         Unfailing' \/ InOneTab'
  PROVE  OffDeleted'
  <1>1. /\ Turns(i) /\ (Ends(i, TRUE) \/ Backing(i)') /\ Running(i) /\ Proceeds(i)
        /\ UNCHANGED <<screen, liveDrafts, liveTabs>>
        /\ op[i].kind \notin {"tab", "dropTab"} =>
             /\ Ends(i, TRUE) /\ listed' = listed
             /\ curTab' = curTab \/ (screen # None /\ curTab' = TabOf[screen])
    BY LoadFailsDoes DEF Turns
  <1>2. ~Unfailing'
    BY <1>1 DEF Ends, Unfailing, Backing
  <1>3. InOneTab
    BY <1>1, <1>2, KindsStay
  <1>4. op[i].kind \notin {"tab", "dropTab"}
    BY <1>3 DEF InOneTab
  <1>5. curTab' = curTab
    BY <1>1, <1>3, <1>4 DEF OffDeleted
  <1> QED
    BY <1>1, <1>4, <1>5, OffLater, OffStays, MovesTab

LEMMA OffBack ==
  ASSUME Shape, NEW i \in Ops, Back(i), Unfailing' \/ InOneTab'
  PROVE  OffDeleted'
  <1>1. /\ Proceeds(i) /\ (Ends(i, TRUE) \/ Backing(i)') /\ op[i].kind \in {"tab", "dropTab"}
    BY BackDoes DEF Turns
  <1>2. ~Unfailing'
    BY <1>1 DEF Ends, Unfailing, Backing
  <1>3. InOneTab
    BY <1>1, <1>2, KindsStay
  <1> QED
    BY <1>1, <1>3 DEF InOneTab

\* The target goes, which the editor is off.
LEMMA OffDropped ==
  ASSUME Shape, OffDeleted, NEW i \in Ops, Dropped(i)
  PROVE  OffDeleted'
  <1>1. /\ Turns(i) /\ op[i].step = "drop" /\ Running(i) /\ Proceeds(i)
        /\ op[i].kind \in {"dropDraft", "dropTab"}
        /\ UNCHANGED <<curTab, listed, screen>>
        /\ Ends(i, FALSE) \/ Moves(i, "refresh")
        /\ IF op[i].kind = "dropTab"
           THEN liveDrafts' = liveDrafts /\ (liveTabs' = liveTabs \/ liveTabs' = liveTabs \ {op[i].gone})
           ELSE liveTabs' = liveTabs
                /\ (liveDrafts' = liveDrafts \/ liveDrafts' = liveDrafts \ {op[i].gone})
        /\ OffDraft(i) /\ OffTab(i)
    BY DroppedDoes DEF Turns, Deletes, OffDeleted
  <1>2. op'[i].step \notin {"settleWrite", "drop"} /\ op'[i].tab = op[i].tab
        /\ op'[i].kind = op[i].kind /\ \A j \in Ops : j # i => op'[j] = op[j]
    BY <1>1, MovesTab DEF Proceeds, Goes, Ends, Others, Steps
  <1>3. Aligned'
    BY <1>1 DEF OffDeleted, Aligned
  <1>4. TabIsLive' /\ EditorIsLive'
    <2>1. TabIsLive /\ EditorIsLive
      BY DEF OffDeleted
    <2>2. CASE op[i].kind = "dropTab"
      <3>1. curTab # op[i].gone /\ (screen # None => TabOf[screen] # op[i].gone)
        BY <1>1, <2>2 DEF OffTab, At
      <3> QED
        BY <1>1, <2>1, <2>2, <3>1 DEF TabIsLive, EditorIsLive
    <2>3. CASE op[i].kind = "dropDraft"
      <3>1. screen # op[i].gone
        BY <1>1, <2>3 DEF OffDraft, At
      <3> QED
        BY <1>1, <2>1, <2>3, <3>1 DEF TabIsLive, EditorIsLive
    <2> QED
      BY <1>1, <2>2, <2>3
  <1>5. OffDraft(i)' /\ OffTab(i)'
    BY <1>1, <1>2, OffLater
  <1>6. \A j \in Ops : j # i => OffDraft(j)' /\ OffTab(j)'
    BY <1>1, <1>2 DEF OffDeleted, OffDraft, OffTab, Running, At
  <1>7. InOneTab' <=> InOneTab
    BY <1>1, KindsStay
  <1>8. ASSUME InOneTab, NEW j \in Ops, Running(j)', op'[j].kind # "open"
        PROVE  op'[j].tab = curTab
    BY <1>1, <1>2, <1>8 DEF OffDeleted, Running
  <1>9. InOneTab => (screen # None => TabOf[screen] = curTab)
    BY DEF OffDeleted
  <1> QED
    BY <1>1, <1>3, <1>4, <1>5, <1>6, <1>7, <1>8, <1>9 DEF OffDeleted

LEMMA OffRefresh ==
  ASSUME Shape, OffDeleted, NEW i \in Ops, Refresh(i)
  PROVE  OffDeleted'
  <1>1. /\ Running(i) /\ Proceeds(i) /\ Ends(i, FALSE)
        /\ UNCHANGED <<curTab, screen, liveDrafts, liveTabs>>
        /\ listed' = listed \/ listed' = DraftsIn(curTab)
    BY RefreshDoes DEF Turns
  <1>2. op'[i].step = "done" /\ op'[i].tab = op[i].tab
        /\ op'[i].kind = op[i].kind /\ \A j \in Ops : j # i => op'[j] = op[j]
    BY <1>1 DEF Ends, Others
  <1>3. Aligned'
    BY <1>1 DEF OffDeleted, Aligned, DraftsIn
  <1>4. TabIsLive' /\ EditorIsLive'
    BY <1>1 DEF OffDeleted, TabIsLive, EditorIsLive
  <1>5. OffDraft(i)' /\ OffTab(i)'
    BY <1>1, <1>2, OffLater
  <1>6. \A j \in Ops : j # i => OffDraft(j)' /\ OffTab(j)'
    BY <1>1, <1>2 DEF OffDeleted, OffDraft, OffTab, Running, At
  <1>7. InOneTab' <=> InOneTab
    BY <1>1, KindsStay
  <1>8. ASSUME InOneTab, NEW j \in Ops, Running(j)', op'[j].kind # "open"
        PROVE  op'[j].tab = curTab
    BY <1>1, <1>2, <1>8 DEF OffDeleted, Running
  <1>9. InOneTab => (screen # None => TabOf[screen] = curTab)
    BY DEF OffDeleted
  <1> QED
    BY <1>1, <1>3, <1>4, <1>5, <1>6, <1>7, <1>8, <1>9 DEF OffDeleted

\* Something begins.
LEMMA OffStarts ==
  ASSUME Shape, OffDeleted, NEW i \in Ops, Starts(i), op'[i].step \notin {"settleWrite", "drop"},
         op'[i].kind = "dropDraft" => TabOf[op'[i].gone] = op'[i].tab,
         op'[i].kind \notin {"tab", "dropTab"} => op'[i].tab = curTab
  PROVE  OffDeleted'
  <1>1. /\ UNCHANGED <<curTab, listed, screen, liveDrafts, liveTabs>>
        /\ \A j \in Ops : j # i => op'[j] = op[j]
    BY DEF Starts, Others
  <1>2. InOneTab' => InOneTab /\ op'[i].kind \notin {"tab", "dropTab"}
    BY StartTrusts DEF InOneTab
  <1>3. Aligned' /\ TabIsLive' /\ EditorIsLive'
    BY <1>1 DEF OffDeleted, Aligned, TabIsLive, EditorIsLive
  <1>4. \A j \in Ops : j # i => OffDraft(j)' /\ OffTab(j)'
    BY <1>1 DEF OffDeleted, OffDraft, OffTab, Running, At
  <1>5. OffDraft(i)' /\ OffTab(i)'
    BY DEF OffDraft, OffTab, At
  <1>6. ASSUME InOneTab', NEW j \in Ops, Running(j)', op'[j].kind # "open"
        PROVE  op'[j].tab = curTab
    BY <1>1, <1>2, <1>6 DEF OffDeleted, Running
  <1>7. InOneTab => (screen # None => TabOf[screen] = curTab)
    BY DEF OffDeleted
  <1> QED
    BY <1>1, <1>2, <1>3, <1>4, <1>5, <1>6, <1>7 DEF OffDeleted

LEMMA OffRequest ==
  ASSUME Shape, OffDeleted, NEW i \in Ops, Request(i)
  PROVE  OffDeleted' /\ Starts(i)
  <1>1. CASE \E d \in Drafts : DraftSelect(i, d)
    <2>1. /\ Starts(i) /\ op'[i].kind = "draft" /\ op'[i].step = "flush" /\ op'[i].tab = curTab
      BY <1>1, DraftSelectDoes
    <2> QED
      BY <2>1, OffStarts
  <1>2. CASE \E d \in Drafts : DropDraft(i, d)
    <2>1. PICK d \in Drafts : DropDraft(i, d)
      BY <1>2
    <2>2. /\ Starts(i) /\ op'[i].kind = "dropDraft" /\ op'[i].step \in {"flush", "settle"}
          /\ op'[i].tab = curTab /\ op'[i].gone = d /\ d \in listed
      BY <2>1, DropDraftDoes
    <2>3. TabOf[d] = curTab
      BY <2>2 DEF OffDeleted, Aligned
    <2> QED
      BY <2>2, <2>3, OffStarts
  <1>3. CASE \E t \in Tabs : TabSelect(i, t)
    <2>1. /\ Starts(i) /\ op'[i].kind = "tab" /\ op'[i].step = "pick"
      BY <1>3, TabSelectDoes
    <2> QED
      BY <2>1, OffStarts
  <1>4. CASE \E t \in Tabs : DropTab(i, t)
    <2>1. /\ Starts(i) /\ op'[i].kind = "dropTab" /\ op'[i].step \in {"pick", "point"}
      BY <1>4, DropTabDoes
    <2> QED
      BY <2>1, OffStarts
  <1> QED
    BY <1>1, <1>2, <1>3, <1>4 DEF Request

\* The opened document.
LEMMA OffOpens ==
  ASSUME Shape, OffDeleted, NEW i \in Ops, i = 1,
         Flushed(i) \/ Read(i) \/ FlushFails(i) \/ ReadFails(i) \/ DraftWriteFails(i) \/ CallFails(i)
  PROVE  OffDeleted'
  <1>1. CASE \/ Flushed(i) \/ FlushFails(i) \/ ReadFails(i) \/ DraftWriteFails(i) \/ CallFails(i)
             \/ (Read(i) /\ screen' = screen)
    <2>1. /\ UNCHANGED <<curTab, listed, screen, liveDrafts, liveTabs>>
          /\ op'[i].kind = "open" /\ KindsSame /\ op[i].kind = "open"
          /\ \A j \in Ops : j # i => op'[j] = op[j]
      <3>1. CASE Flushed(i)
        <4>1. op[i].kind = "open" /\ Running(i)
          BY <3>1, Begun DEF Flushed, At, Running
        <4> QED
          BY <3>1, <4>1, OpenFlushed DEF Others, stores, disk
      <3>2. CASE FlushFails(i) \/ ReadFails(i) \/ DraftWriteFails(i) \/ CallFails(i)
        BY <3>2, OpenFails DEF Ends, Others, KindsSame, disk
      <3>3. CASE Read(i) /\ screen' = screen
        <4>1. op[i].kind = "open" /\ Running(i)
          BY <3>3, Begun DEF Read, At, Running
        <4> QED
          BY <3>3, <4>1, OpenRead DEF Ends, Others, KindsSame, disk
      <3> QED
        BY <1>1, <3>1, <3>2, <3>3
    <2>2. Aligned' /\ TabIsLive' /\ EditorIsLive'
      BY <2>1 DEF OffDeleted, Aligned, TabIsLive, EditorIsLive
    <2>3. \A j \in Ops : OffDraft(j)' /\ OffTab(j)'
      BY <2>1 DEF OffDeleted, OffDraft, OffTab, Running, At
    <2>4. InOneTab' => InOneTab
      BY <2>1 DEF InOneTab, KindsSame
    <2>5. ASSUME InOneTab, NEW j \in Ops, Running(j)', op'[j].kind # "open"
          PROVE  op'[j].tab = curTab
      BY <2>1, <2>5 DEF OffDeleted, Running
    <2>6. InOneTab => (screen # None => TabOf[screen] = curTab)
      BY DEF OffDeleted
    <2> QED
      BY <2>1, <2>2, <2>3, <2>4, <2>5, <2>6 DEF OffDeleted
  <1>2. CASE Read(i) /\ OpenShown
    <2>1. /\ Ends(i, FALSE) /\ UNCHANGED <<curTab, listed, liveDrafts, liveTabs>>
          /\ op[1].draft = activeDraft[curTab] /\ screen' = op[1].draft /\ curTab \in Tabs
          /\ liveDrafts = Drafts /\ liveTabs = Tabs /\ NoDeletions /\ op[1].draft \in Drafts
      BY <1>2, OpenRead DEF OpenShown, disk
    <2>2. TabOf[screen'] = curTab
      BY <2>1 DEF Shape, DiskOK
    <2>3. /\ \A j \in Ops : op'[j].kind = op[j].kind
          /\ \A j \in Ops : ~Deletes(j)
          /\ InOneTab' <=> InOneTab
      BY <2>1, KindsStay DEF Proceeds, NoDeletions
    <2>4. \A j \in Ops : OffDraft(j)' /\ OffTab(j)'
      BY <2>3 DEF OffDraft, OffTab, Deletes
    <2>5. Aligned' /\ TabIsLive' /\ EditorIsLive'
      BY <2>1, <2>2 DEF OffDeleted, Aligned, TabIsLive, EditorIsLive
    <2>6. ASSUME InOneTab, NEW j \in Ops, Running(j)', op'[j].kind # "open"
          PROVE  op'[j].tab = curTab
      <3>1. j # 1
        BY <2>1, <2>6 DEF Ends, Running
      <3>2. op'[j] = op[j]
        BY <2>1, <3>1 DEF Ends, Others
      <3> QED
        BY <2>6, <3>2 DEF OffDeleted, Running
    <2> QED
      BY <2>1, <2>2, <2>3, <2>4, <2>5, <2>6 DEF OffDeleted
  <1> QED
    BY <1>1, <1>2, OpenRead

LEMMA OffResolve ==
  ASSUME Shape, NEW i \in Ops, Resolve(i)
  PROVE  OffDeleted'
  <1>1. /\ op[1].step = "resolve" /\ KindsSame /\ Others(1)
        /\ curTab' = activeTab /\ listed' = DraftsIn(activeTab) /\ i = 1 /\ op'[1].kind = "open"
        /\ screen' = screen /\ liveDrafts' = liveDrafts /\ liveTabs' = liveTabs
    BY ResolveDoes DEF disk
  <1>2. /\ screen = None /\ liveTabs = Tabs /\ NoDeletions /\ op[1].kind = "open"
        /\ \A j \in Ops : j # 1 => op[j].kind = "open"
    BY <1>1, OpenAlone
  <1>3. \A j \in Ops : op'[j].kind = "open"
    BY <1>1, <1>2 DEF KindsSame
  <1>4. \A j \in Ops : OffDraft(j)' /\ OffTab(j)'
    BY <1>3 DEF OffDraft, OffTab
  <1>5. activeTab \in Tabs
    BY DEF Shape, Typed
  <1>6. Aligned' /\ TabIsLive' /\ EditorIsLive'
    BY <1>1, <1>2, <1>5 DEF Aligned, TabIsLive, EditorIsLive, DraftsIn
  <1> QED
    BY <1>1, <1>2, <1>3, <1>4, <1>6 DEF OffDeleted

LEMMA OffQuiet ==
  ASSUME OffDeleted, Quiet
  PROVE  OffDeleted'
  <1>1. Aligned' /\ TabIsLive' /\ EditorIsLive'
    BY DEF OffDeleted, Quiet, Aligned, TabIsLive, EditorIsLive
  <1>2. \A j \in Ops : OffDraft(j)' /\ OffTab(j)'
    BY DEF OffDeleted, Quiet, OffDraft, OffTab, Running, At
  <1>3. InOneTab' <=> InOneTab
    BY DEF Quiet, InOneTab
  <1>4. InOneTab => /\ screen' # None => TabOf[screen'] = curTab'
                    /\ \A j \in Ops : Running(j)' /\ op'[j].kind # "open" => op'[j].tab = curTab'
    BY DEF OffDeleted, Quiet, Running
  <1> QED
    BY <1>1, <1>2, <1>3, <1>4 DEF OffDeleted

\* What a step of an operation under way tells of the state before it.
LEMMA TrustStep ==
  ASSUME Shape, NEW i \in Ops, Running(i), Others(i), KindsSame,
         Backing(i) => Backing(i)' \/ Ends(i, TRUE)
  PROVE  (Unfailing' => Unfailing) /\ (InOneTab' => InOneTab) /\ (NoDeletions' <=> NoDeletions)
  <1>1. op[i].failed = FALSE /\ \A j \in Ops : j # i => op'[j] = op[j]
    BY DEF Shape, OpOK, Others
  <1>2. ASSUME Unfailing' PROVE Unfailing
    <2>1. ~Backing(i)
      BY <1>2 DEF Ends, Unfailing, Backing
    <2>2. \A j \in Ops : j # i => ~op[j].failed /\ ~Backing(j)
      BY <1>1, <1>2 DEF Unfailing, Backing
    <2> QED
      BY <1>1, <2>1, <2>2 DEF Unfailing
  <1>3. (InOneTab' => InOneTab) /\ (NoDeletions' <=> NoDeletions)
    BY DEF InOneTab, NoDeletions, Deletes, KindsSame
  <1> QED
    BY <1>2, <1>3

LEMMA ProceedsTrusts ==
  ASSUME Shape, NEW i \in Ops, Running(i), Proceeds(i),
         Backing(i) => Backing(i)' \/ Ends(i, TRUE)
  PROVE  (Unfailing' => Unfailing) /\ (InOneTab' => InOneTab) /\ (NoDeletions' <=> NoDeletions)
  <1>1. Others(i) /\ KindsSame
    BY KindsStay DEF Proceeds, Goes, Ends, KindsSame
  <1> QED
    BY <1>1, TrustStep

LEMMA Trusts ==
  ASSUME Shape, NEW i \in Ops, Progress(i) \/ Failure(i)
  PROVE  (Unfailing' => Unfailing) /\ (InOneTab' => InOneTab) /\ (NoDeletions' <=> NoDeletions)
  <1>1. CASE TabTurn(i) \/ TabWritten(i)
    <2>1. Same(i) /\ (AfterTab(i) \/ (op[i].step = "backTurn" => Moves(i, "backWrite")))
      BY <1>1, TabTurnDoes, TabWrittenDoes
    <2>2. op[i].step # "back"
      BY <1>1 DEF TabTurn, TabWritten
    <2>3. Backing(i) => Backing(i)' \/ Ends(i, TRUE)
      <3>1. CASE TabTurn(i)
        BY <3>1, TabTurnDoes DEF AfterTab, Moves, Backing
      <3>2. CASE TabWritten(i)
        BY <3>2, TabWrittenDoes DEF AfterTab, Backing
      <3> QED
        BY <1>1, <3>1, <3>2
    <2> QED
      BY <2>1, <2>3, ProceedsTrusts DEF Same
  <1>2. CASE Back(i) \/ TabWriteFails(i)
    BY <1>2, BackDoes, TabWriteFailsDoes, ProceedsTrusts DEF Turns, Same
  <1>3. CASE CallFails(i)
    <2>1. CASE i = 1
      <3>1. Ends(i, TRUE) /\ Running(i)
        BY <1>3, <2>1, OpenFails DEF CallFails, At, Running
      <3> QED
        BY <3>1, ProceedsTrusts DEF Proceeds
    <2>2. CASE i # 1
      BY <1>3, <2>2, CallFailsDoes, ProceedsTrusts DEF Same
    <2> QED
      BY <2>1, <2>2
  <1>4. CASE Pick(i) \/ DraftTurn(i)
    BY <1>4, PickDoes, DraftTurnDoes, ProceedsTrusts DEF Same, Backing
  <1>5. CASE Point(i) \/ PointTurn(i) \/ PointWritten(i) \/ Settle(i) \/ SettleTurn(i)
    <2>1. Same(i)
      BY <1>5, PointDoes, PointTurnDoes, PointWrittenDoes, SettleDoes, SettleTurnDoes
    <2>2. ~Backing(i)
      BY <1>5 DEF Point, PointTurn, PointWritten, Settle, SettleTurn, At, Backing
    <2> QED
      BY <2>1, <2>2, ProceedsTrusts DEF Same
  <1>6. CASE Flushed(i) \/ Read(i)
    <2>1. ~Backing(i) /\ Running(i)
      BY <1>6 DEF Flushed, Read, At, Backing, Running
    <2>2. CASE i # 1
      <3>1. Same(i)
        BY <1>6, <2>2, FlushedDoes, ReadDoes
      <3> QED
        BY <2>1, <3>1, ProceedsTrusts DEF Same
    <2>3. CASE i = 1 /\ Flushed(i)
      BY <2>1, <2>3, OpenFlushed, TrustStep
    <2>4. CASE i = 1 /\ Read(i)
      BY <2>1, <2>4, OpenRead, ProceedsTrusts DEF Proceeds
    <2> QED
      BY <1>6, <2>2, <2>3, <2>4
  <1>7. CASE Resolve(i)
    <2>1. op[i].step = "resolve" /\ Others(i) /\ KindsSame
      BY <1>7, ResolveDoes
    <2> QED
      BY <2>1, TrustStep DEF Backing, Running
  <1>8. CASE Listed(i)
    <2>1. op[i].step = "list" /\ (ListedShows(i) \/ Same(i))
      BY <1>8, ListedDoes
    <2>2. Proceeds(i) /\ Running(i)
      BY <2>1 DEF ListedShows, ListedLoads, Turns, Same, Proceeds, Running
    <2> QED
      BY <2>1, <2>2, ProceedsTrusts DEF Backing
  <1>9. CASE DraftWritten(i) \/ SettleWritten(i) \/ Dropped(i) \/ Refresh(i)
    <2>1. Turns(i)
      BY <1>9, DraftWrittenDoes, SettleWrittenDoes, DroppedDoes, RefreshDoes
    <2>2. ~Backing(i)
      BY <1>9 DEF DraftWritten, SettleWritten, Dropped, Refresh, At, Backing
    <2> QED
      BY <2>1, <2>2, ProceedsTrusts DEF Turns
  <1>10. CASE FlushFails(i) \/ ReadFails(i) \/ DraftWriteFails(i)
    <2>1. ~Backing(i) /\ Running(i)
      BY <1>10 DEF FlushFails, ReadFails, DraftWriteFails, At, Backing, Running
    <2>2. CASE i # 1
      BY <1>10, <2>1, <2>2, LoadFailsDoes, ProceedsTrusts DEF Turns
    <2>3. CASE i = 1
      BY <1>10, <2>1, <2>3, OpenFails, ProceedsTrusts DEF Proceeds
    <2> QED
      BY <2>2, <2>3
  <1> QED
    BY <1>1, <1>2, <1>3, <1>4, <1>5, <1>6, <1>7, <1>8, <1>9, <1>10 DEF Progress, Failure

OffInv == Shape /\ (Unfailing \/ InOneTab => OffDeleted)

LEMMA InitOff == Init => OffInv
  <1> SUFFICES ASSUME Init PROVE OffInv
    OBVIOUS
  <1>1. Shape
    BY InitShape
  <1>2. curTab = None /\ listed = {} /\ screen = None
    BY DEF Init
  <1>3. \A j \in Ops : op[j].kind = "open"
    <2>1. op[1].step = "flush"
      <3>1. 1 \in Ops /\ op[1] = [NoOp EXCEPT !.step = "flush", !.gen = 1]
        BY LoaderConstants DEF Init, Ops
      <3> QED
        BY <3>1 DEF NoOp
    <2> QED
      BY <1>1, <2>1, OpenAlone
  <1>4. \A j \in Ops : OffDraft(j) /\ OffTab(j)
    BY <1>3 DEF OffDraft, OffTab
  <1> QED
    BY <1>1, <1>2, <1>3, <1>4 DEF OffInv, OffDeleted, Aligned, TabIsLive, EditorIsLive

LEMMA OffStep == OffInv /\ [Next]_vars => OffInv'
  <1> SUFFICES ASSUME OffInv, [Next]_vars, Unfailing' \/ InOneTab' PROVE OffDeleted'
    BY ShapeStep DEF OffInv
  <1>1. Shape /\ (Unfailing \/ InOneTab => OffDeleted)
    BY DEF OffInv
  <1>2. CASE Rest \/ UNCHANGED vars \/ Edit
    <2>1. Quiet
      BY <1>1, <1>2, RestDoes, EditDoes DEF Rest
    <2>2. Unfailing \/ InOneTab
      BY <2>1 DEF Quiet, Unfailing, InOneTab, Backing
    <2> QED
      BY <1>1, <2>1, <2>2, OffQuiet
  <1>3. ASSUME NEW i \in Ops, Request(i) PROVE OffDeleted'
    <2>1. Starts(i)
      BY <1>1, <1>3, DraftSelectDoes, DropDraftDoes, TabSelectDoes, DropTabDoes DEF Request
    <2>2. OffDeleted
      BY <1>1, <2>1, StartTrusts
    <2> QED
      BY <1>1, <1>3, <2>2, OffRequest
  <1>4. ASSUME NEW i \in Ops, Progress(i) \/ Failure(i) PROVE OffDeleted'
    <2>1. OffDeleted
      BY <1>1, <1>4, Trusts
    <2>2. CASE \/ Pick(i) \/ TabTurn(i) \/ TabWritten(i) \/ TabWriteFails(i) \/ DraftTurn(i)
               \/ Point(i) \/ PointTurn(i) \/ PointWritten(i) \/ Settle(i)
      BY <1>1, <2>1, <2>2, OffStill
    <2>3. CASE Flushed(i) \/ Read(i) \/ CallFails(i)
      BY <1>1, <2>1, <2>3, OffStill, OffOpens
    <2>4. CASE Listed(i)
      BY <1>1, <2>1, <2>4, OffStill, OffListed
    <2>5. CASE SettleTurn(i) \/ SettleWritten(i)
      BY <1>1, <2>1, <2>5, OffTurn, OffSettled
    <2>6. CASE DraftWritten(i) \/ Dropped(i) \/ Refresh(i)
      BY <1>1, <2>1, <2>6, OffWritten, OffDropped, OffRefresh
    <2>7. CASE Resolve(i) \/ Back(i)
      BY <1>1, <2>7, OffResolve, OffBack
    <2>8. CASE FlushFails(i) \/ ReadFails(i) \/ DraftWriteFails(i)
      BY <1>1, <2>1, <2>8, OffFails, OffOpens
    <2> QED
      BY <1>4, <2>2, <2>3, <2>4, <2>5, <2>6, <2>7, <2>8 DEF Progress, Failure
  <1> QED
    BY <1>2, <1>3, <1>4 DEF Next

\* The editor shows no deleted draft, nor a draft of a deleted tab, however selections, loads
\* and deletions overlap, unless a call fails while an operation leaves the tab.
THEOREM EditorStaysOff == Spec => []EditorOffDeleted
  <1>1. OffInv => EditorOffDeleted
    BY DEF OffInv, EditorOffDeleted, OffDeleted
  <1> QED
    BY <1>1, InitOff, OffStep, PTL DEF Spec

-----------------------------------------------------------------------------
(* What is shown, and what is stored about it, while nothing is deleted. *)
SelectInv ==
  Shape /\ NoDeletions /\ (Unfailing \/ InOneTab) /\ OffDeleted /\ ScreenOK /\ ChoiceOK

\* Without deletions, an operation that returns is over.
LEMMA Returning ==
  ASSUME NoDeletions, NEW i \in Ops, Returns(i)
  PROVE  Ends(i, FALSE) /\ op'[i].step = "done" /\ op'[i].tab = op[i].tab
         /\ op'[i].kind = op[i].kind /\ op'[i].draft = op[i].draft
         /\ \A j \in Ops : j # i => op'[j] = op[j]
  <1>1. op[i].kind # "dropDraft" /\ op[i].kind # "dropTab"
    BY DEF NoDeletions, Deletes
  <1>2. Ends(i, FALSE)
    BY <1>1 DEF Returns
  <1> QED
    BY <1>2 DEF Ends, Others

LEMMA NoneBacks ==
  ASSUME Shape, Unfailing \/ InOneTab, NEW i \in Ops
  PROVE  ~Backing(i)
  <1>1. CASE Unfailing
    BY <1>1 DEF Unfailing
  <1>2. CASE InOneTab
    <2>1. op[i].kind \notin {"tab", "dropTab"}
      BY <1>2 DEF InOneTab
    <2>2. ASSUME Backing(i) PROVE FALSE
      <3>1. Running(i) /\ op[i].step \in Backs
        BY <2>2 DEF Backing, Backs, Running
      <3> QED
        BY <2>1, <3>1, KindOf
    <2> QED
      BY <2>2
  <1> QED
    BY <1>1, <1>2

\* At most one tab selection is the newest.
LEMMA OneChooser ==
  ASSUME Shape, NEW i \in Ops, NEW j \in Ops, Chooses(i), op[j].kind = "tab", ContextCurrent(j)
  PROVE  j = i
  <1>1. GensOK /\ \A k \in Ops : op[k].ctx \in Nat
    BY DEF Shape, Typed, OpRec
  <1>2. op[i].ctx = context /\ op[j].ctx = context /\ op[i].kind = "tab" /\ context \in Nat
    BY <1>1 DEF Chooses, ContextCurrent
  <1>3. ~(i < j)
    BY <1>1, <1>2 DEF GensOK
  <1>4. ~(j < i)
    BY <1>1, <1>2 DEF GensOK
  <1>5. i \in Nat /\ j \in Nat
    BY DEF Ops
  <1> QED
    BY <1>3, <1>4, <1>5

LEMMA LaterChooser ==
  ASSUME Shape, NEW i \in Ops, NEW j \in Ops, Chooses(i), op[j].kind = "tab"
  PROVE  ~(i < j)
  <1>1. GensOK /\ \A k \in Ops : op[k].ctx \in Nat
    BY DEF Shape, Typed, OpRec
  <1>2. op[i].ctx = context /\ op[i].kind = "tab" /\ context \in Nat
    BY <1>1 DEF Chooses, ContextCurrent
  <1> QED
    BY <1>1, <1>2 DEF GensOK

\* The choice stays with a step that does not choose.
LEMMA ChoiceStays ==
  ASSUME ChoiceOK, NEW i \in Ops, \A j \in Ops : j # i => op'[j] = op[j], ~Chooses(i), ~Chooses(i)',
         UNCHANGED <<curTab, activeTab, tabQueue, context>>
  PROVE  ChoiceOK'
  <1>1. \A j \in Ops : Chooses(j)' <=> Chooses(j)
    BY DEF Chooses, ContextCurrent
  <1>2. \A j \in Ops : Chooses(j) => op'[j] = op[j]
    OBVIOUS
  <1> QED
    BY <1>1, <1>2 DEF ChoiceOK, At

\* What is shown stays with a step that is not to show the tab that is shown.
LEMMA ScreenStays ==
  ASSUME ScreenOK, NEW i \in Ops, \A j \in Ops : j # i => op'[j] = op[j],
         InOneTab' => InOneTab, UNCHANGED <<curTab, screen, generation>>,
         activeDraft'[curTab] = activeDraft[curTab], Pends(i) => Pends(i)'
  PROVE  ScreenOK'
  <1> SUFFICES ASSUME screen' # None PROVE (~InOneTab' /\ \E j \in Ops : Pends(j)') \/ Matched'
    BY DEF ScreenOK
  <1>1. \A j \in Ops : j # i => (Pends(j)' <=> Pends(j))
    BY DEF Pends
  <1>2. CASE ~InOneTab /\ \E j \in Ops : Pends(j)
    <2>1. PICK j \in Ops : Pends(j)
      BY <1>2
    <2>2. Pends(j)'
      BY <1>1, <2>1
    <2> QED
      BY <1>2, <2>2
  <1>3. CASE Matched
    BY <1>3 DEF Matched
  <1> QED
    BY <1>2, <1>3 DEF ScreenOK

-----------------------------------------------------------------------------
\* The newest tab selection goes through the queue of tab writes.
LEMMA ChoicePick ==
  ASSUME SelectInv, NEW i \in Ops, Pick(i)
  PROVE  ScreenOK' /\ ChoiceOK'
  <1>1. /\ Shape /\ NoDeletions /\ ScreenOK /\ ChoiceOK
        /\ Same(i) /\ op[i].step = "pick" /\ activeTab' = activeTab
        /\ \/ /\ ContextCurrent(i) /\ tabQueue' = Append(tabQueue, i)
              /\ IF op[i].tab = curTab THEN Moves(i, "hereTurn") ELSE Moves(i, "tabTurn")
           \/ ~ContextCurrent(i) /\ Returns(i) /\ tabQueue' = tabQueue
    BY PickDoes DEF SelectInv
  <1>2. /\ Running(i) /\ Proceeds(i) /\ \A j \in Ops : j # i => op'[j] = op[j]
        /\ UNCHANGED <<curTab, screen, generation, context, activeDraft>>
    BY <1>1 DEF Same, Proceeds, Goes, Ends, Others
  <1>3. op[i].kind = "tab"
    BY <1>1, <1>2, KindOf DEF Selecting, NoDeletions, Deletes
  <1>4. ScreenOK'
    <2>1. InOneTab' => InOneTab
      BY <1>2, KindsStay
    <2>2. ~Pends(i)
      BY <1>1 DEF Pends, Fetching, Writing
    <2> QED
      BY <1>1, <1>2, <2>1, <2>2, ScreenStays
  <1>5. CASE ContextCurrent(i)
    <2>1. /\ tabQueue' = Append(tabQueue, i) /\ op'[i].step \in {"hereTurn", "tabTurn"}
          /\ op'[i].step = "hereTurn" <=> op[i].tab = curTab
          /\ op'[i].tab = op[i].tab /\ op'[i].kind = "tab" /\ op'[i].ctx = op[i].ctx
      BY <1>1, <1>3, <1>5 DEF Moves, Keeps
    <2>2. Chooses(i)' /\ Chooses(i)
      BY <1>1, <1>2, <1>3, <1>5, <2>1 DEF Chooses, ContextCurrent, Selecting
    <2>3. ASSUME NEW j \in Ops, Chooses(j)' PROVE j = i
      <3>1. j # i => Chooses(j)
        BY <1>2, <2>3 DEF Chooses, ContextCurrent
      <3> QED
        BY <1>1, <2>2, <3>1, OneChooser DEF Chooses
    <2>4. tabQueue' # <<>> /\ tabQueue'[Len(tabQueue')] = i
      <3>1. tabQueue \in Seq(Ops)
        BY <1>1 DEF Shape, QueuesOK, QueueOK
      <3> QED
        BY <2>1, <3>1, AppendIn
    <2>5. op'[i].step # "list" /\ op'[i].step # "tabWrite"
      BY <2>1
    <2> QED
      BY <1>2, <1>4, <2>1, <2>2, <2>3, <2>4, <2>5 DEF ChoiceOK, At, Heres
  <1>6. CASE ~ContextCurrent(i)
    <2>1. Ends(i, FALSE) /\ op'[i].step = "done" /\ tabQueue' = tabQueue
      BY <1>1, <1>6, Returning
    <2>2. ~Chooses(i) /\ ~Chooses(i)'
      BY <1>6, <2>1 DEF Chooses, Selecting
    <2> QED
      BY <1>1, <1>2, <1>4, <2>1, <2>2, ChoiceStays
  <1> QED
    BY <1>5, <1>6

LEMMA ChoiceTurn ==
  ASSUME SelectInv, NEW i \in Ops, TabTurn(i)
  PROVE  ScreenOK' /\ ChoiceOK' /\ op'[i].step \in {"hereWrite", "tabWrite"}
         /\ (Chooses(i)' <=> Chooses(i))
  <1>1. /\ Shape /\ NoDeletions /\ ScreenOK /\ ChoiceOK
        /\ Same(i) /\ op[i].step \in {"hereTurn", "tabTurn", "backTurn"} /\ activeTab' = activeTab
        /\ \/ /\ CanSelectTab(op[i].tab) /\ tabQueue' = tabQueue
              /\ \/ op[i].step = "hereTurn" /\ Moves(i, "hereWrite")
                 \/ op[i].step = "tabTurn" /\ Moves(i, "tabWrite")
                 \/ op[i].step = "backTurn" /\ Moves(i, "backWrite")
           \/ ~CanSelectTab(op[i].tab)
    BY TabTurnDoes DEF SelectInv
  <1>2. /\ Running(i) /\ Proceeds(i) /\ \A j \in Ops : j # i => op'[j] = op[j]
        /\ UNCHANGED <<curTab, screen, generation, context, activeDraft>>
    BY <1>1 DEF Same, Proceeds, Goes, Ends, Others
  <1>3. op[i].step \in {"hereTurn", "tabTurn"}
    <2>1. ~Backing(i)
      BY NoneBacks DEF SelectInv
    <2> QED
      BY <1>1, <2>1 DEF Backing
  <1>4. op[i].kind = "tab"
    BY <1>1, <1>2, <1>3, KindOf DEF Selecting, NoDeletions, Deletes
  <1>5. tabQueue' = tabQueue /\ \/ op[i].step = "hereTurn" /\ Moves(i, "hereWrite")
                                \/ op[i].step = "tabTurn" /\ Moves(i, "tabWrite")
    <2>1. op[i].tab \in Tabs
      BY <1>1, <1>3, <1>4 DEF Shape, OpOK, Selecting
    <2>2. CanSelectTab(op[i].tab)
      BY <1>1, <2>1, Unbarred
    <2> QED
      BY <1>1, <1>3, <2>2
  <1>6. ScreenOK'
    <2>1. InOneTab' => InOneTab
      BY <1>2, KindsStay
    <2>2. ~Pends(i)
      BY <1>3 DEF Pends, Fetching, Writing
    <2> QED
      BY <1>1, <1>2, <2>1, <2>2, ScreenStays
  <1>7. /\ op'[i].kind = "tab" /\ op'[i].tab = op[i].tab /\ op'[i].ctx = op[i].ctx
        /\ op'[i].step \in {"hereWrite", "tabWrite"}
        /\ op'[i].step \in Heres <=> op[i].step \in Heres
        /\ op[i].step \in Selecting /\ op'[i].step \in Selecting
    BY <1>3, <1>4, <1>5 DEF Moves, Keeps, Heres, Selecting
  <1>8. \A j \in Ops : Chooses(j)' <=> Chooses(j)
    BY <1>2, <1>4, <1>7 DEF Chooses, ContextCurrent
  <1>9. op[i].step # "list" /\ op'[i].step # "list"
    BY <1>3, <1>7
  <1>10. \A j \in Ops : op'[j].step = "list" => op[j].step = "list"
    BY <1>2, <1>9
  <1>11. ChoiceOK'
    <2>1. curTab' # None => activeTab' = curTab' \/ \E j \in Ops : Chooses(j)'
      BY <1>1, <1>2, <1>8 DEF ChoiceOK
    <2>2. tabQueue' # <<>> => \E j \in Ops : Chooses(j)' /\ op'[j].step # "list"
      BY <1>1, <1>5, <1>8, <1>10 DEF ChoiceOK, At
    <2>3. ASSUME NEW j \in Ops, Chooses(j)'
          PROVE  /\ op'[j].step = "list" => activeTab' = op'[j].tab /\ tabQueue' = <<>>
                 /\ op'[j].step \in Heres => op'[j].tab = curTab
                 /\ op'[j].step \in {"tabTurn", "tabWrite", "list"} => op'[j].tab # curTab
                 /\ op'[j].step \in {"tabTurn", "tabWrite"} \cup Heres
                      => tabQueue'[Len(tabQueue')] = j
      <3>1. /\ op[j].step = "list" => activeTab = op[j].tab /\ tabQueue = <<>>
            /\ op[j].step \in Heres => op[j].tab = curTab
            /\ op[j].step \in {"tabTurn", "tabWrite", "list"} => op[j].tab # curTab
            /\ op[j].step \in {"tabTurn", "tabWrite"} \cup Heres => tabQueue[Len(tabQueue)] = j
        BY <1>1, <1>8, <2>3 DEF ChoiceOK, At
      <3>2. CASE j # i
        BY <1>1, <1>2, <1>5, <3>1, <3>2
      <3>3. CASE j = i
        <4>1. op[i].step = "hereTurn" => op'[i].step = "hereWrite"
          BY <1>5 DEF Moves
        <4>2. op[i].step = "tabTurn" => op'[i].step = "tabWrite"
          BY <1>5 DEF Moves
        <4> QED
          BY <1>3, <1>5, <1>7, <3>1, <3>3, <4>1, <4>2 DEF Heres
      <3> QED
        BY <3>2, <3>3
    <2> QED
      BY <1>2, <2>1, <2>2, <2>3 DEF ChoiceOK, At
  <1> QED
    BY <1>6, <1>7, <1>8, <1>11

LEMMA ChoiceWritten ==
  ASSUME SelectInv, NEW i \in Ops, TabWritten(i)
  PROVE  /\ ScreenOK' /\ ChoiceOK' /\ op[i].kind = "tab"
         /\ op[i].step \in Selecting /\ Running(i) /\ Proceeds(i)
         /\ \/ Ends(i, FALSE) /\ (Chooses(i) => op[i].tab = curTab)
            \/ Moves(i, "list") /\ Chooses(i)
  <1>1. /\ Shape /\ NoDeletions /\ ScreenOK /\ ChoiceOK
        /\ Same(i) /\ op[i].step \in {"hereWrite", "tabWrite", "backWrite"}
        /\ activeTab' = op[i].tab /\ tabQueue' = Tail(tabQueue) /\ Head(tabQueue) = i
        /\ AfterTab(i)
    BY TabWrittenDoes DEF SelectInv
  <1>2. /\ Running(i) /\ Proceeds(i) /\ \A j \in Ops : j # i => op'[j] = op[j]
        /\ UNCHANGED <<curTab, screen, generation, context, activeDraft>>
    BY <1>1 DEF Same, Proceeds, Goes, Ends, Others
  <1>3. op[i].step \in {"hereWrite", "tabWrite"}
    <2>1. ~Backing(i)
      BY NoneBacks DEF SelectInv
    <2> QED
      BY <1>1, <2>1 DEF Backing
  <1>4. op[i].kind = "tab" /\ op[i].step \in Selecting
    BY <1>1, <1>2, <1>3, KindOf DEF Selecting, NoDeletions, Deletes
  <1>5. IF op[i].step = "tabWrite" /\ ContextCurrent(i)
        THEN Moves(i, "list") ELSE Ends(i, FALSE) /\ op'[i].step = "done"
    BY <1>1, <1>3, Returning DEF AfterTab
  <1>6. ScreenOK'
    <2>1. InOneTab' => InOneTab
      BY <1>2, KindsStay
    <2>2. ~Pends(i)
      BY <1>3 DEF Pends, Fetching, Writing
    <2> QED
      BY <1>1, <1>2, <2>1, <2>2, ScreenStays
  <1>7. QueueOK(op, tabQueue, InTabQueue, TabWrites) /\ tabQueue \in Seq(Ops) /\ Distinct(tabQueue)
    BY <1>1 DEF Shape, QueuesOK, QueueOK
  <1>8. In(tabQueue, i)
    BY <1>3, <1>7 DEF QueueOK, InTabQueue
  <1>9. /\ \A j : In(Tail(tabQueue), j) <=> In(tabQueue, j) /\ j # i
        /\ Tail(tabQueue) # <<>> => Tail(tabQueue)[Len(Tail(tabQueue))] = tabQueue[Len(tabQueue)]
        /\ tabQueue[Len(tabQueue)] = i => Tail(tabQueue) = <<>>
        /\ tabQueue # <<>> /\ Tail(tabQueue) \in Seq(Ops)
    BY <1>1, <1>7, <1>8, InNonempty, TailIn
  <1>10. \A j \in Ops : j # i => (Chooses(j)' <=> Chooses(j))
    BY <1>2 DEF Chooses, ContextCurrent
  <1>11. CASE ContextCurrent(i)
    <2>1. Chooses(i)
      BY <1>4, <1>11 DEF Chooses
    <2>2. \A j \in Ops : j # i => ~Chooses(j)'
      BY <1>1, <1>10, <2>1, OneChooser DEF Chooses
    <2>3. tabQueue' = <<>>
      <3>1. tabQueue[Len(tabQueue)] = i
        BY <1>1, <1>3, <2>1 DEF ChoiceOK, Heres
      <3> QED
        BY <1>1, <1>9, <3>1
    <2>4. CASE op[i].step = "hereWrite"
      <3>1. op[i].tab = curTab
        BY <1>1, <2>1, <2>4 DEF ChoiceOK, Heres
      <3>2. Ends(i, FALSE) /\ op'[i].step = "done"
        BY <1>5, <2>4
      <3>3. ~Chooses(i)'
        BY <3>2 DEF Chooses, Selecting
      <3> QED
        BY <1>1, <1>2, <1>4, <1>6, <2>2, <2>3, <3>1, <3>2, <3>3 DEF ChoiceOK
    <2>5. CASE op[i].step = "tabWrite"
      <3>1. Moves(i, "list") /\ op[i].tab # curTab
        BY <1>1, <1>5, <1>11, <2>1, <2>5 DEF ChoiceOK
      <3>2. /\ op'[i].step = "list" /\ op'[i].tab = op[i].tab /\ op'[i].kind = "tab"
            /\ op'[i].ctx = op[i].ctx
        BY <1>4, <3>1 DEF Moves, Keeps
      <3>3. Chooses(i)'
        BY <1>2, <1>11, <3>2 DEF Chooses, Selecting, ContextCurrent
      <3> QED
        BY <1>1, <1>2, <1>4, <1>6, <2>1, <2>2, <2>3, <3>1, <3>2, <3>3 DEF ChoiceOK, At, Heres
    <2> QED
      BY <1>3, <2>4, <2>5
  <1>12. CASE ~ContextCurrent(i)
    <2>1. Ends(i, FALSE) /\ op'[i].step = "done"
      BY <1>5, <1>12
    <2>2. ~Chooses(i) /\ ~Chooses(i)'
      BY <1>12, <2>1 DEF Chooses, Selecting
    <2>3. PICK k \in Ops : Chooses(k) /\ op[k].step # "list"
      BY <1>1, <1>9 DEF ChoiceOK, At
    <2>4. k # i /\ Chooses(k)' /\ op'[k] = op[k]
      BY <1>2, <1>10, <2>2, <2>3
    <2>5. ASSUME NEW j \in Ops, Chooses(j)' PROVE j = k
      <3>1. Chooses(j)
        BY <1>10, <2>2, <2>5
      <3> QED
        BY <1>1, <2>3, <3>1, OneChooser DEF Chooses
    <2>6. /\ op[k].step \in Heres => op[k].tab = curTab
          /\ op[k].step \in {"tabTurn", "tabWrite"} => op[k].tab # curTab
      BY <1>1, <2>3 DEF ChoiceOK
    <2>7. ASSUME op[k].step \in {"tabTurn", "tabWrite"} \cup Heres
          PROVE  tabQueue'[Len(tabQueue')] = k
      <3>1. tabQueue[Len(tabQueue)] = k
        BY <1>1, <2>3, <2>7 DEF ChoiceOK
      <3>2. In(tabQueue, k)
        BY <1>7, <2>7 DEF QueueOK, InTabQueue, Heres
      <3>3. In(Tail(tabQueue), k)
        BY <1>9, <2>4, <3>2
      <3>4. Tail(tabQueue) # <<>>
        BY <1>9, <3>3, InNonempty
      <3> QED
        BY <1>1, <1>9, <3>1, <3>4
    <2>8. ChoiceOK'
      BY <1>2, <2>3, <2>4, <2>5, <2>6, <2>7 DEF ChoiceOK, At
    <2> QED
      BY <1>2, <1>4, <1>6, <2>1, <2>2, <2>8
  <1> QED
    BY <1>11, <1>12

\* The tab that was chosen is shown, and a draft of it is loaded.
LEMMA ChoiceListed ==
  ASSUME SelectInv, NEW i \in Ops, Listed(i)
  PROVE  /\ ScreenOK' /\ ChoiceOK' /\ op[i].kind = "tab" /\ op[i].step = "list" /\ Proceeds(i)
         /\ UNCHANGED <<screen, draftQueue, context>>
         /\ \/ /\ Chooses(i) /\ ListedLoads(i) /\ curTab' = op[i].tab /\ op[i].tab # curTab
            \/ ~Chooses(i) /\ Ends(i, FALSE) /\ curTab' = curTab /\ generation' = generation
  <1>1. /\ Shape /\ NoDeletions /\ ScreenOK /\ ChoiceOK
        /\ op[i].step = "list" /\ op[i].kind \in {"tab", "dropTab"} /\ op[i].tab \in Tabs
        /\ UNCHANGED <<screen, draftQueue, tabQueue, context, activeTab, activeDraft>>
        /\ \/ ListedShows(i)
           \/ ~(ContextCurrent(i) /\ CanSelectTab(op[i].tab)) /\ Same(i) /\ Returns(i)
    BY ListedDoes DEF SelectInv
  <1>2. op[i].kind = "tab" /\ CanSelectTab(op[i].tab) /\ Running(i)
    BY <1>1, Unbarred DEF NoDeletions, Deletes, Running
  <1>3. CASE ListedShows(i)
    <2>1. /\ ContextCurrent(i) /\ curTab' = op[i].tab /\ ListedLoads(i)
      BY <1>1, <1>3 DEF ListedShows
    <2>2. Chooses(i)
      BY <1>1, <1>2, <2>1 DEF Chooses, Selecting
    <2>3. activeTab = op[i].tab /\ tabQueue = <<>> /\ op[i].tab # curTab
      BY <1>1, <2>2 DEF ChoiceOK, At
    <2>4. /\ Goes(i) /\ Proceeds(i) /\ \A j \in Ops : j # i => op'[j] = op[j]
          /\ op'[i].step = "flush" /\ op'[i].gen = generation' /\ op'[i].tab = curTab'
          /\ op'[i].kind = "tab"
      BY <1>2, <2>1 DEF ListedLoads, Goes, Proceeds, Others
    <2>5. ~InOneTab'
      BY <2>4 DEF InOneTab
    <2>6. Pends(i)'
      BY <2>4 DEF Pends, Fetching
    <2>7. ScreenOK'
      BY <2>5, <2>6 DEF ScreenOK
    <2>8. ASSUME NEW j \in Ops, Chooses(j)' PROVE FALSE
      <3>1. j # i
        BY <2>4, <2>8 DEF Chooses, Selecting
      <3>2. Chooses(j)
        BY <1>1, <2>4, <2>8, <3>1 DEF Chooses, ContextCurrent
      <3> QED
        BY <1>1, <2>2, <3>1, <3>2, OneChooser DEF Chooses
    <2>9. ChoiceOK'
      BY <1>1, <2>1, <2>3, <2>8 DEF ChoiceOK
    <2> QED
      BY <1>1, <1>2, <2>1, <2>2, <2>3, <2>4, <2>7, <2>9
  <1>4. CASE ~ListedShows(i)
    <2>1. ~ContextCurrent(i) /\ Same(i) /\ Ends(i, FALSE) /\ op'[i].step = "done"
          /\ \A j \in Ops : j # i => op'[j] = op[j]
      BY <1>1, <1>2, <1>4, Returning
    <2>2. ~Chooses(i) /\ ~Chooses(i)' /\ ~Pends(i)
      BY <1>1, <2>1 DEF Chooses, Selecting, Pends, Fetching, Writing
    <2>3. UNCHANGED <<curTab, generation>> /\ Proceeds(i)
      BY <2>1 DEF Same
    <2>4. ChoiceOK'
      BY <1>1, <2>1, <2>2, <2>3, ChoiceStays
    <2>5. InOneTab' => InOneTab
      BY <2>3, KindsStay
    <2>6. ScreenOK'
      BY <1>1, <2>1, <2>2, <2>3, <2>5, ScreenStays
    <2> QED
      BY <1>1, <1>2, <2>1, <2>2, <2>3, <2>4, <2>6
  <1> QED
    BY <1>3, <1>4

\* A step of a load, which chooses no tab.
LEMMA LoadStays ==
  ASSUME SelectInv, NEW i \in Ops, Running(i), Proceeds(i), op[i].step \in Loading,
         op'[i].step \in Loading \cup {"done"},
         UNCHANGED <<curTab, screen, generation, context, activeTab, activeDraft, tabQueue>>,
         Pends(i) => Pends(i)'
  PROVE  ScreenOK' /\ ChoiceOK'
  <1>1. /\ ScreenOK /\ ChoiceOK /\ \A j \in Ops : j # i => op'[j] = op[j]
    BY DEF SelectInv, Proceeds, Goes, Ends, Others
  <1>2. ~Chooses(i) /\ ~Chooses(i)'
    BY DEF Chooses, Selecting, Loading, Fetching, Writing
  <1>3. InOneTab' => InOneTab
    BY KindsStay
  <1> QED
    BY <1>1, <1>2, <1>3, ChoiceStays, ScreenStays

LEMMA ChoiceLoads ==
  ASSUME SelectInv, NEW i \in Ops, \/ (i # 1 /\ (Flushed(i) \/ Read(i))) \/ DraftTurn(i)
  PROVE  ScreenOK' /\ ChoiceOK'
  <1>1. Shape /\ NoDeletions
    BY DEF SelectInv
  <1>2. CASE i # 1 /\ Flushed(i)
    <2>1. /\ Same(i) /\ op[i].step = "flush" /\ activeTab' = activeTab /\ tabQueue' = tabQueue
          /\ IF LoadCurrent(i) THEN Moves(i, "read") ELSE Returns(i)
      BY <1>1, <1>2, FlushedDoes
    <2>2. /\ Running(i) /\ Proceeds(i)
          /\ UNCHANGED <<curTab, screen, generation, context, activeDraft>>
      BY <2>1 DEF Same
    <2>3. CASE LoadCurrent(i)
      <3>1. Moves(i, "read")
        BY <2>1, <2>3
      <3>2. Pends(i) => Pends(i)'
        BY <2>1, <2>2, <3>1 DEF Moves, Keeps, Pends, Fetching, Writing
      <3>3. op'[i].step \in Loading /\ op[i].step \in Loading
        BY <2>1, <3>1 DEF Moves, Loading, Fetching
      <3> QED
        BY <2>1, <2>2, <3>2, <3>3, LoadStays
    <2>4. CASE ~LoadCurrent(i)
      <3>1. Ends(i, FALSE) /\ op'[i].step = "done"
        BY <1>1, <2>1, <2>4, Returning
      <3>2. ~Pends(i)
        BY <2>1, <2>4 DEF LoadCurrent, Pends, Fetching, Writing
      <3>3. op[i].step \in Loading
        BY <2>1 DEF Loading, Fetching
      <3> QED
        BY <2>1, <2>2, <3>1, <3>2, <3>3, LoadStays
    <2> QED
      BY <2>3, <2>4
  <1>3. CASE i # 1 /\ Read(i)
    <2>1. /\ Same(i) /\ op[i].step = "read" /\ activeTab' = activeTab /\ tabQueue' = tabQueue
          /\ IF LoadCurrent(i) THEN Moves(i, "draftTurn") ELSE Returns(i)
      BY <1>1, <1>3, ReadDoes
    <2>2. /\ Running(i) /\ Proceeds(i)
          /\ UNCHANGED <<curTab, screen, generation, context, activeDraft>>
      BY <2>1 DEF Same
    <2>3. CASE LoadCurrent(i)
      <3>1. Moves(i, "draftTurn")
        BY <2>1, <2>3
      <3>2. Pends(i) => Pends(i)'
        BY <2>1, <2>2, <3>1 DEF Moves, Keeps, Pends, Fetching, Writing
      <3>3. op'[i].step \in Loading /\ op[i].step \in Loading
        BY <2>1, <3>1 DEF Moves, Loading, Fetching, Writing
      <3> QED
        BY <2>1, <2>2, <3>2, <3>3, LoadStays
    <2>4. CASE ~LoadCurrent(i)
      <3>1. Ends(i, FALSE) /\ op'[i].step = "done"
        BY <1>1, <2>1, <2>4, Returning
      <3>2. ~Pends(i)
        BY <2>1, <2>4 DEF LoadCurrent, Pends, Fetching, Writing
      <3>3. op[i].step \in Loading
        BY <2>1 DEF Loading, Fetching
      <3> QED
        BY <2>1, <2>2, <3>1, <3>2, <3>3, LoadStays
    <2> QED
      BY <2>3, <2>4
  <1>4. CASE DraftTurn(i)
    <2>1. /\ Same(i) /\ op[i].step = "draftTurn" /\ activeTab' = activeTab /\ tabQueue' = tabQueue
          /\ CanSelect(op[i].tab, op[i].draft) => Moves(i, "draftWrite")
      BY <1>1, <1>4, DraftTurnDoes
    <2>2. /\ Running(i) /\ Proceeds(i) /\ i # 1
          /\ UNCHANGED <<curTab, screen, generation, context, activeDraft>>
      BY <2>1 DEF Same
    <2>3. op[i].tab \in Tabs
      <3>1. op[i].kind # "open" /\ op[i].step \in Loading
        BY <1>1, <2>1, <2>2, Begun DEF Loading, Writing
      <3> QED
        BY <1>1, <3>1 DEF Shape, OpOK
    <2>4. Moves(i, "draftWrite")
      BY <1>1, <2>1, <2>3, Unbarred
    <2>5. Pends(i) => Pends(i)'
      BY <2>1, <2>2, <2>4 DEF Moves, Keeps, Pends, Fetching, Writing
    <2>6. op'[i].step \in Loading /\ op[i].step \in Loading
      BY <2>1, <2>4 DEF Moves, Loading, Writing
    <2> QED
      BY <2>1, <2>2, <2>5, <2>6, LoadStays
  <1> QED
    BY <1>2, <1>3, <1>4

\* The draft that was loaded is shown with its pointer, unless another tab is shown.
LEMMA ChoiceCommits ==
  ASSUME SelectInv, NEW i \in Ops, DraftWritten(i)
  PROVE  ScreenOK' /\ ChoiceOK'
  <1>1. /\ Shape /\ NoDeletions /\ ScreenOK /\ ChoiceOK
        /\ Turns(i) /\ Returns(i) /\ op[i].step = "draftWrite"
        /\ op[i].tab \in Tabs /\ op[i].draft \in DraftsIn(op[i].tab) /\ tabQueue' = tabQueue
        /\ activeDraft'[op[i].tab] = op[i].draft
        /\ \A u \in Tabs : u # op[i].tab => activeDraft'[u] = activeDraft[u]
        /\ UNCHANGED <<curTab, activeTab>>
        /\ IF curTab = op[i].tab /\ CanSelect(op[i].tab, op[i].draft)
           THEN screen' = op[i].draft ELSE screen' = screen
    BY DraftWrittenDoes DEF SelectInv
  <1>2. /\ Running(i) /\ Proceeds(i) /\ UNCHANGED <<generation, context>> /\ curTab \in Tabs
        /\ Ends(i, FALSE) /\ op'[i].step = "done" /\ \A j \in Ops : j # i => op'[j] = op[j]
    BY <1>1, Begun, Returning DEF Turns
  <1>3. ChoiceOK'
    <2>1. ~Chooses(i) /\ ~Chooses(i)'
      BY <1>1, <1>2 DEF Chooses, Selecting
    <2> QED
      BY <1>1, <1>2, <2>1, ChoiceStays
  <1>4. CASE curTab = op[i].tab
    <2>1. screen' = op[i].draft /\ TabOf[op[i].draft] = curTab
      BY <1>1, <1>4, Unbarred DEF DraftsIn
    <2>2. Matched'
      BY <1>1, <1>4, <2>1 DEF Matched
    <2> QED
      BY <1>3, <2>2 DEF ScreenOK
  <1>5. CASE curTab # op[i].tab
    <2>1. screen' = screen /\ activeDraft'[curTab] = activeDraft[curTab] /\ ~Pends(i)
      BY <1>1, <1>2, <1>5 DEF Pends
    <2>2. InOneTab' => InOneTab
      BY <1>2, KindsStay
    <2> QED
      BY <1>1, <1>2, <1>3, <2>1, <2>2, ScreenStays
  <1> QED
    BY <1>4, <1>5

\* A selection begins.
LEMMA ChoiceDraft ==
  ASSUME SelectInv, NEW i \in Ops, NEW d \in Drafts, DraftSelect(i, d)
  PROVE  ScreenOK' /\ ChoiceOK'
  <1>1. /\ Shape /\ ScreenOK /\ ChoiceOK
        /\ Starts(i) /\ op'[i].kind = "draft" /\ op'[i].step = "flush"
        /\ op'[i].tab = curTab /\ op'[i].gen = generation' /\ context' = context
    BY DraftSelectDoes DEF SelectInv
  <1>2. /\ op[i].kind = "open" /\ \A j \in Ops : j # i => op'[j] = op[j]
        /\ UNCHANGED <<curTab, screen, activeTab, activeDraft, tabQueue>>
    BY <1>1 DEF Starts, Others
  <1>3. ChoiceOK'
    <2>1. ~Chooses(i) /\ ~Chooses(i)'
      BY <1>1, <1>2 DEF Chooses
    <2> QED
      BY <1>1, <1>2, <2>1, ChoiceStays
  <1>4. Pends(i)'
    BY <1>1, <1>2 DEF Pends, Fetching
  <1>5. CASE InOneTab'
    <2>1. InOneTab
      BY <1>1, <1>5, StartTrusts
    <2>2. screen # None => Matched
      BY <1>1, <2>1 DEF ScreenOK
    <2> QED
      BY <1>2, <1>3, <2>2 DEF ScreenOK, Matched
  <1>6. CASE ~InOneTab'
    BY <1>3, <1>4, <1>6 DEF ScreenOK
  <1> QED
    BY <1>5, <1>6

LEMMA ChoiceTab ==
  ASSUME SelectInv, NEW i \in Ops, NEW t \in Tabs, TabSelect(i, t)
  PROVE  ScreenOK' /\ ChoiceOK' /\ Chooses(i)' /\ \A j \in Ops : Chooses(j)' => j = i
  <1>1. /\ Shape /\ ScreenOK /\ ChoiceOK
        /\ Starts(i) /\ op'[i].kind = "tab" /\ op'[i].step = "pick" /\ op'[i].ctx = context'
        /\ generation' = generation /\ context' = context + 1
    BY TabSelectDoes DEF SelectInv
  <1>2. /\ op[i].kind = "open" /\ \A j \in Ops : j # i => op'[j] = op[j]
        /\ UNCHANGED <<curTab, screen, activeTab, activeDraft, tabQueue>>
    BY <1>1 DEF Starts, Others
  <1>3. ScreenOK'
    <2>1. ~Pends(i) /\ (InOneTab' => InOneTab)
      BY <1>1, <1>2, StartTrusts DEF Pends
    <2> QED
      BY <1>1, <1>2, <2>1, ScreenStays
  <1>4. Chooses(i)'
    BY <1>1 DEF Chooses, ContextCurrent, Selecting
  <1>5. ASSUME NEW j \in Ops, Chooses(j)' PROVE j = i
    <2>1. ASSUME j # i PROVE FALSE
      <3>1. op[j].ctx <= context /\ op[j].ctx \in Nat /\ context \in Nat
        BY <1>1 DEF Shape, OpOK, Typed, OpRec
      <3>2. op[j].ctx = context + 1
        BY <1>1, <1>2, <1>5, <2>1 DEF Chooses, ContextCurrent
      <3> QED
        BY <3>1, <3>2
    <2> QED
      BY <2>1
  <1>6. ChoiceOK'
    BY <1>1, <1>4, <1>5 DEF ChoiceOK, At, Heres
  <1> QED
    BY <1>3, <1>4, <1>5, <1>6

\* Nothing is chosen before the document's tabs are shown.
LEMMA ChoiceOpens ==
  ASSUME SelectInv, NEW i \in Ops, (i = 1 /\ Flushed(i)) \/ Resolve(i)
  PROVE  ScreenOK' /\ ChoiceOK' /\ screen' = None /\ \A j \in Ops : op'[j].kind = "open"
  <1>1. Shape /\ ChoiceOK
    BY DEF SelectInv
  <1>2. /\ op[1].step \in {"flush", "resolve"} /\ KindsSame
        /\ UNCHANGED <<screen, tabQueue, activeTab>> /\ (curTab' = curTab \/ curTab' = activeTab)
    BY <1>1, OpenFlushed, ResolveDoes DEF stores, queues, disk
  <1>3. screen = None /\ curTab = None /\ \A j \in Ops : op[j].kind = "open"
    BY <1>1, <1>2, OpenAlone
  <1>4. \A j \in Ops : op'[j].kind = "open"
    BY <1>2, <1>3 DEF KindsSame
  <1>5. \A j \in Ops : ~Chooses(j) /\ ~Chooses(j)'
    BY <1>3, <1>4 DEF Chooses
  <1>6. tabQueue = <<>>
    BY <1>1, <1>5 DEF ChoiceOK
  <1>7. ChoiceOK'
    BY <1>2, <1>3, <1>5, <1>6 DEF ChoiceOK
  <1> QED
    BY <1>2, <1>3, <1>4, <1>7 DEF ScreenOK

\* The opened document is shown with its pointer, or fails.
LEMMA ChoiceOpen ==
  ASSUME SelectInv, NEW i \in Ops, i = 1,
         Read(i) \/ FlushFails(i) \/ ReadFails(i) \/ DraftWriteFails(i) \/ CallFails(i)
  PROVE  ScreenOK' /\ ChoiceOK'
  <1>1. Shape /\ ScreenOK /\ ChoiceOK
    BY DEF SelectInv
  <1>2. /\ Ends(i, TRUE) \/ Ends(i, FALSE)
        /\ UNCHANGED <<curTab, draftQueue, tabQueue, generation, context, activeTab, activeDraft>>
        /\ screen' = screen \/ OpenShown
    BY <1>1, OpenRead, OpenFails DEF disk
  <1>3. op[i].kind = "open" /\ op'[i].kind = "open" /\ \A j \in Ops : j # i => op'[j] = op[j]
    <2>1. op[1].kind = "open"
      BY <1>1 DEF Shape, OpenOK
    <2> QED
      BY <1>2, <2>1 DEF Ends, Others
  <1>4. ~Chooses(i) /\ ~Chooses(i)' /\ ~Pends(i) /\ (InOneTab' => InOneTab)
    <2>1. Proceeds(i)
      BY <1>2 DEF Proceeds
    <2> QED
      BY <1>3, <2>1, KindsStay DEF Chooses, Pends
  <1>5. ChoiceOK'
    BY <1>1, <1>2, <1>3, <1>4, ChoiceStays
  <1>6. CASE screen' = screen
    BY <1>1, <1>2, <1>3, <1>4, <1>5, <1>6, ScreenStays
  <1>7. CASE OpenShown
    <2>1. /\ curTab' = curTab /\ curTab \in Tabs /\ screen' = activeDraft[curTab]
          /\ activeDraft' = activeDraft /\ TabOf[activeDraft[curTab]] = curTab
      BY <1>1, <1>2, <1>7 DEF OpenShown, Shape, DiskOK
    <2> QED
      BY <1>5, <2>1 DEF ScreenOK, Matched
  <1> QED
    BY <1>2, <1>6, <1>7

\* A load that fails while the editor stays in its tab leaves what is shown.
LEMMA ChoiceFails ==
  ASSUME SelectInv, NEW i \in Ops, i # 1, FlushFails(i) \/ ReadFails(i) \/ DraftWriteFails(i),
         Unfailing' \/ InOneTab'
  PROVE  ScreenOK' /\ ChoiceOK'
  <1>1. /\ Shape /\ OffDeleted /\ ScreenOK /\ ChoiceOK
        /\ (Ends(i, TRUE) \/ Backing(i)') /\ Running(i) /\ Proceeds(i)
        /\ UNCHANGED <<screen, generation, context, activeTab, activeDraft>>
        /\ op[i].kind \notin {"tab", "dropTab"} =>
             /\ Ends(i, TRUE) /\ tabQueue' = tabQueue
             /\ curTab' = curTab \/ (screen # None /\ curTab' = TabOf[screen])
    BY LoadFailsDoes DEF SelectInv, Turns
  <1>2. ~Unfailing'
    BY <1>1 DEF Ends, Unfailing, Backing
  <1>3. InOneTab
    BY <1>1, <1>2, KindsStay
  <1>4. op[i].kind \notin {"tab", "dropTab"} /\ curTab' = curTab
    BY <1>1, <1>3 DEF InOneTab, OffDeleted
  <1>5. /\ tabQueue' = tabQueue /\ op'[i].kind # "tab"
        /\ \A j \in Ops : j # i => op'[j] = op[j]
    BY <1>1, <1>4 DEF Ends, Others
  <1>6. ~Chooses(i) /\ ~Chooses(i)'
    BY <1>4, <1>5 DEF Chooses
  <1>7. ChoiceOK'
    BY <1>1, <1>4, <1>5, <1>6, ChoiceStays
  <1>8. screen # None => Matched
    BY <1>1, <1>3 DEF ScreenOK
  <1> QED
    BY <1>1, <1>4, <1>7, <1>8 DEF ScreenOK, Matched

\* While no operation leaves the tab, no step of a tab selection fails.
LEMMA NoTabFails ==
  ASSUME Shape, NEW i \in Ops, TabWriteFails(i) \/ Back(i) \/ (i # 1 /\ CallFails(i)),
         NoDeletions, Unfailing' \/ InOneTab'
  PROVE  FALSE
  <1>1. ~Deletes(i)
    BY DEF NoDeletions
  <1>2. (Ends(i, TRUE) \/ Backing(i)') /\ op[i].kind \in {"tab", "dropTab"} /\ Proceeds(i)
    BY <1>1, TabWriteFailsDoes, BackDoes, CallFailsDoes DEF Same, Turns
  <1>3. ~Unfailing'
    BY <1>2 DEF Ends, Unfailing, Backing
  <1>4. InOneTab
    BY <1>2, <1>3, KindsStay
  <1> QED
    BY <1>2, <1>4 DEF InOneTab

\* Steps that only a deletion takes.
LEMMA NoDeletionSteps ==
  ASSUME Shape, NoDeletions, NEW i \in Ops
  PROVE  /\ ~Point(i) /\ ~PointTurn(i) /\ ~PointWritten(i) /\ ~Settle(i) /\ ~SettleTurn(i)
         /\ ~SettleWritten(i) /\ ~Dropped(i) /\ ~Refresh(i)
  <1>1. op[i].kind # "dropTab" /\ op[i].kind # "dropDraft" /\ ~Deletes(i)
    BY DEF NoDeletions, Deletes
  <1>2. ~Settle(i)
    <2>1. At(i, "settle") => Running(i) /\ op[i].step \in Settles
      BY DEF At, Running, Settles
    <2> QED
      BY <1>1, <2>1, KindOf DEF Settle
  <1> QED
    BY <1>1, <1>2, PointDoes, PointTurnDoes, PointWrittenDoes, SettleTurnDoes, SettleWrittenDoes,
       DroppedDoes, RefreshDoes

LEMMA ChoiceQuiet ==
  ASSUME ScreenOK, ChoiceOK, Quiet
  PROVE  ScreenOK' /\ ChoiceOK'
  <1>1. InOneTab' <=> InOneTab
    BY DEF InOneTab, Quiet
  <1>2. \A j \in Ops : (Chooses(j)' <=> Chooses(j)) /\ (Pends(j)' <=> Pends(j))
    BY DEF Chooses, ContextCurrent, Pends, Quiet
  <1>3. ScreenOK'
    BY <1>1, <1>2 DEF ScreenOK, Matched, Quiet
  <1>4. ChoiceOK'
    BY <1>2 DEF ChoiceOK, At, Quiet
  <1> QED
    BY <1>3, <1>4

-----------------------------------------------------------------------------
(* What is selected is what is shown and stored. *)
ChoiceInv ==
  OffInv /\ (NoDeletions /\ (Unfailing \/ InOneTab) => ScreenOK /\ ChoiceOK)

LEMMA InitChoice == Init => ChoiceInv
  <1> SUFFICES ASSUME Init PROVE ScreenOK /\ ChoiceOK
    BY InitOff DEF ChoiceInv
  <1>1. curTab = None /\ screen = None /\ tabQueue = <<>> /\ Shape
    BY InitShape DEF Init
  <1>2. \A j \in Ops : op[j].kind = "open"
    <2>1. 1 \in Ops /\ op[1] = [NoOp EXCEPT !.step = "flush", !.gen = 1]
      BY LoaderConstants DEF Init, Ops
    <2>2. op[1].step = "flush"
      BY <2>1 DEF NoOp
    <2> QED
      BY <1>1, <2>2, OpenAlone
  <1>3. \A j \in Ops : ~Chooses(j)
    BY <1>2 DEF Chooses
  <1> QED
    BY <1>1, <1>3 DEF ScreenOK, ChoiceOK

\* What the invariant tells of the state before a step that keeps to such selections.
LEMMA SelectBefore ==
  ASSUME ChoiceInv, NEW i \in Ops, Request(i) \/ Progress(i) \/ Failure(i),
         NoDeletions', Unfailing' \/ InOneTab'
  PROVE  SelectInv
  <1>1. Shape
    BY DEF ChoiceInv, OffInv
  <1>2. NoDeletions /\ (Unfailing \/ InOneTab)
    <2>1. CASE Request(i)
      <3>1. Starts(i)
        BY <1>1, <2>1, DraftSelectDoes, DropDraftDoes, TabSelectDoes, DropTabDoes DEF Request
      <3> QED
        BY <1>1, <3>1, StartTrusts
    <2>2. CASE Progress(i) \/ Failure(i)
      BY <1>1, <2>2, Trusts
    <2> QED
      BY <2>1, <2>2
  <1> QED
    BY <1>1, <1>2 DEF ChoiceInv, OffInv, SelectInv

\* Deletions do not begin, by assumption.
LEMMA NoDrop ==
  ASSUME Shape, NEW i \in Ops, Request(i), NoDeletions'
  PROVE  (\E d \in Drafts : DraftSelect(i, d)) \/ (\E t \in Tabs : TabSelect(i, t))
  <1>1. op'[i].kind # "dropDraft" /\ op'[i].kind # "dropTab"
    BY DEF NoDeletions, Deletes
  <1> QED
    BY <1>1, DropDraftDoes, DropTabDoes DEF Request

LEMMA ChoiceStep == ChoiceInv /\ [Next]_vars => ChoiceInv'
  <1> SUFFICES ASSUME ChoiceInv, [Next]_vars, NoDeletions', Unfailing' \/ InOneTab'
               PROVE  ScreenOK' /\ ChoiceOK'
    BY OffStep DEF ChoiceInv
  <1>1. Shape
    BY DEF ChoiceInv, OffInv
  <1>2. CASE Rest \/ UNCHANGED vars \/ Edit
    <2>1. Quiet
      BY <1>1, <1>2, RestDoes, EditDoes DEF Rest
    <2>2. NoDeletions /\ (Unfailing \/ InOneTab)
      BY <2>1 DEF Quiet, Unfailing, InOneTab, Backing, NoDeletions, Deletes
    <2> QED
      BY <2>1, <2>2, ChoiceQuiet DEF ChoiceInv
  <1>3. ASSUME NEW i \in Ops, Request(i) PROVE ScreenOK' /\ ChoiceOK'
    <2>1. SelectInv
      BY <1>3, SelectBefore
    <2> QED
      BY <1>1, <1>3, <2>1, NoDrop, ChoiceDraft, ChoiceTab
  <1>4. ASSUME NEW i \in Ops, Progress(i) \/ Failure(i) PROVE ScreenOK' /\ ChoiceOK'
    <2>1. SelectInv /\ NoDeletions
      BY <1>4, SelectBefore DEF SelectInv
    <2>2. CASE Pick(i) \/ TabTurn(i) \/ TabWritten(i) \/ Listed(i)
      BY <2>1, <2>2, ChoicePick, ChoiceTurn, ChoiceWritten, ChoiceListed
    <2>3. CASE Flushed(i) \/ Read(i) \/ Resolve(i) \/ DraftTurn(i) \/ DraftWritten(i)
      BY <2>1, <2>3, ChoiceLoads, ChoiceOpens, ChoiceOpen, ChoiceCommits
    <2>4. CASE FlushFails(i) \/ ReadFails(i) \/ DraftWriteFails(i)
      BY <2>1, <2>4, ChoiceOpen, ChoiceFails
    <2>5. CASE CallFails(i) \/ TabWriteFails(i) \/ Back(i)
      BY <1>1, <2>1, <2>5, ChoiceOpen, NoTabFails
    <2> QED
      BY <1>1, <1>4, <2>1, <2>2, <2>3, <2>4, <2>5, NoDeletionSteps DEF Progress, Failure
  <1> QED
    BY <1>2, <1>3, <1>4 DEF Next

\* At rest the draft on screen, the stores and the pointers agree: the selected tab and draft
\* are those of the draft on screen, the draft menu is that tab's, and a restart opens them, for
\* selections that overlap in any order, and for loads that fail in the tab shown.
THEOREM OneSelectionAlways == Spec => []OneSelection
  <1>1. ASSUME ChoiceInv PROVE OneSelection
    <2>1. Shape /\ Typed /\ QueuesOK /\ OpenOK
      BY <1>1 DEF ChoiceInv, OffInv, Shape
    <2>2. TypeOK
      <3>1. draftQueue \in Seq(Ops) /\ tabQueue \in Seq(Ops)
        BY <2>1 DEF QueuesOK, QueueOK
      <3>2. ToSet(draftQueue) \subseteq Ops /\ ToSet(tabQueue) \subseteq Ops
        BY <3>1 DEF ToSet
      <3> QED
        BY <2>1, <3>2 DEF TypeOK, Typed, OpRec
    <2>3. ASSUME Settling
          PROVE  /\ activeDraft[TabOf[screen]] = screen /\ MatchesScreen /\ activeTab = curTab
      <3>1. /\ NoDeletions /\ (Unfailing \/ InOneTab) /\ Idle /\ screen # None
            /\ ScreenOK /\ ChoiceOK /\ OffDeleted
        BY <1>1, <2>3 DEF Settling, ChoiceInv, OffInv
      <3>2. \A j \in Ops : op[j].step \in {"new", "done"}
        BY <3>1 DEF Idle, Running
      <3>3. \A j \in Ops : ~Pends(j) /\ ~Chooses(j)
        BY <3>2 DEF Pends, Chooses, Fetching, Writing, Selecting
      <3>4. Matched
        BY <3>1, <3>3 DEF ScreenOK
      <3>5. curTab # None
        BY <2>1, <3>1, LoaderConstants DEF OpenOK
      <3>6. activeTab = curTab
        BY <3>1, <3>3, <3>5 DEF ChoiceOK
      <3> QED
        BY <2>1, <3>1, <3>4, <3>6 DEF Matched, MatchesScreen, OffDeleted, Aligned, Shape
    <2> QED
      BY <2>2, <2>3 DEF OneSelection, PointerMatchesScreen, StoresMatchScreen, TabPointerMatches
  <1> QED
    BY <1>1, InitChoice, ChoiceStep, PTL DEF Spec

-----------------------------------------------------------------------------
(* The last selection wins. *)
LatestBefore == SelectInv /\ Unfailing /\ Latest

\* A step that is not about the draft that was selected last.
LEMMA LatestStays ==
  ASSUME Latest, NEW i \in Ops, \A j \in Ops : j # i => op'[j] = op[j],
         op'[i].kind = op[i].kind, op'[i].tab = op[i].tab, op[i].kind # "draft",
         op'[i].step \in Loading => op[i].step \in Loading /\ op'[i].gen = op[i].gen,
         UNCHANGED <<curTab, screen, generation, context, draftQueue>>,
         Chooses(i)' => Chooses(i), Chooses(i) => Chooses(i)' \/ curTab = op[i].tab
  PROVE  Latest'
  <1>1. \A j \in Ops : op'[j].kind = op[j].kind /\ op'[j].tab = op[j].tab
    OBVIOUS
  <1>2. \A K : \A j \in Ops : LastOf(j, K)' <=> LastOf(j, K)
    BY <1>1 DEF LastOf
  <1>3. \A j \in Ops : (Chooses(j)' => Chooses(j))
                       /\ (Chooses(j) => Chooses(j)' \/ curTab = op[j].tab)
    BY DEF Chooses, ContextCurrent
  <1>4. LatestTab'
    BY <1>1, <1>2, <1>3 DEF LatestTab, Latest
  <1>5. ASSUME NEW j \in Ops, op'[j].kind = "draft", LastOf(j, {"tab", "draft"})'
        PROVE  /\ \A k \in Ops : Chooses(k)' => op'[j].tab = curTab
               /\ op'[j].tab = curTab =>
                    \/ op'[j].step \in Fetching /\ op'[j].gen = generation
                    \/ /\ op'[j].step \in Writing /\ op'[j].gen = generation
                       /\ draftQueue[Len(draftQueue)] = j
                    \/ /\ At(j, "done")' /\ screen = op'[j].draft /\ draftQueue = <<>>
                       /\ \A k \in Ops : op'[k].step \in Loading => op'[k].gen # generation
    <2>1. j # i /\ op'[j] = op[j] /\ LastOf(j, {"tab", "draft"})
      BY <1>1, <1>2, <1>5
    <2>2. /\ \A k \in Ops : Chooses(k) => op[j].tab = curTab
          /\ op[j].tab = curTab =>
               \/ op[j].step \in Fetching /\ op[j].gen = generation
               \/ /\ op[j].step \in Writing /\ op[j].gen = generation
                  /\ draftQueue[Len(draftQueue)] = j
               \/ /\ At(j, "done") /\ screen = op[j].draft /\ draftQueue = <<>>
                  /\ \A k \in Ops : op[k].step \in Loading => op[k].gen # generation
      BY <1>5, <2>1 DEF Latest, LatestDraft
    <2>3. \A k \in Ops : op'[k].step \in Loading => op[k].step \in Loading /\ op'[k].gen = op[k].gen
      OBVIOUS
    <2> QED
      BY <1>3, <2>1, <2>2, <2>3 DEF At
  <1>6. LatestDraft'
    BY <1>5 DEF LatestDraft
  <1> QED
    BY <1>4, <1>6 DEF Latest

LEMMA LatestChoice ==
  ASSUME LatestBefore, NEW i \in Ops, Pick(i) \/ TabTurn(i) \/ TabWritten(i)
  PROVE  Latest'
  <1>1. /\ Shape /\ NoDeletions /\ SelectInv /\ Latest
        /\ UNCHANGED <<curTab, screen, generation, context, draftQueue>>
    BY DEF LatestBefore, SelectInv, Pick, TabTurn, TabWritten, stores
  <1>2. CASE Pick(i)
    <2>1. /\ Same(i) /\ op[i].step = "pick"
          /\ \/ ContextCurrent(i) /\ (Moves(i, "hereTurn") \/ Moves(i, "tabTurn"))
             \/ ~ContextCurrent(i) /\ Returns(i)
      BY <1>1, <1>2, PickDoes
    <2>2. Running(i) /\ Proceeds(i) /\ op[i].kind = "tab"
      <3>1. Running(i) /\ Proceeds(i)
        BY <2>1 DEF Same
      <3> QED
        BY <1>1, <2>1, <3>1, KindOf DEF Selecting, NoDeletions, Deletes
    <2>3. CASE ContextCurrent(i)
      <3>1. /\ op'[i].kind = "tab" /\ op'[i].tab = op[i].tab /\ op'[i].step \in {"hereTurn", "tabTurn"}
            /\ op'[i].ctx = op[i].ctx /\ \A j \in Ops : j # i => op'[j] = op[j]
        BY <2>1, <2>2, <2>3 DEF Moves, Keeps, Others
      <3>2. Chooses(i)' /\ Chooses(i) /\ op'[i].step \notin Loading
        BY <1>1, <2>1, <2>2, <2>3, <3>1
           DEF Chooses, Selecting, ContextCurrent, Loading, Fetching, Writing
      <3> QED
        BY <1>1, <2>2, <3>1, <3>2, LatestStays
    <2>4. CASE ~ContextCurrent(i)
      <3>1. /\ op'[i].kind = "tab" /\ op'[i].tab = op[i].tab /\ op'[i].step = "done"
            /\ \A j \in Ops : j # i => op'[j] = op[j]
        BY <1>1, <2>1, <2>2, <2>4, Returning
      <3>2. ~Chooses(i)' /\ ~Chooses(i) /\ op'[i].step \notin Loading
        BY <2>4, <3>1 DEF Chooses, Selecting, Loading, Fetching, Writing
      <3> QED
        BY <1>1, <2>2, <3>1, <3>2, LatestStays
    <2> QED
      BY <2>3, <2>4
  <1>3. CASE TabTurn(i)
    <2>1. /\ Same(i) /\ op'[i].step \in {"hereWrite", "tabWrite"} /\ (Chooses(i)' <=> Chooses(i))
          /\ op[i].step \in {"hereTurn", "tabTurn", "backTurn"}
      BY <1>1, <1>3, TabTurnDoes, ChoiceTurn
    <2>2. Running(i) /\ Proceeds(i)
      BY <2>1 DEF Same
    <2>3. op[i].kind \in {"tab", "dropTab"}
      BY <1>1, <2>1, <2>2, KindOf DEF Selecting, Backs
    <2>4. /\ op'[i].kind = op[i].kind /\ op'[i].tab = op[i].tab
          /\ \A j \in Ops : j # i => op'[j] = op[j]
      BY <1>1, <1>3, <2>1, <2>2, TabTurnDoes, MovesTab
         DEF AfterTab, Steps, Proceeds, Goes, Ends, Others
    <2>5. op'[i].step \notin Loading
      BY <2>1 DEF Loading, Fetching, Writing
    <2> QED
      BY <1>1, <2>1, <2>3, <2>4, <2>5, LatestStays
  <1>4. CASE TabWritten(i)
    <2>1. /\ op[i].kind = "tab" /\ op[i].step \in Selecting /\ Proceeds(i)
          /\ \/ Ends(i, FALSE) /\ (Chooses(i) => op[i].tab = curTab)
             \/ Moves(i, "list") /\ Chooses(i)
      BY <1>1, <1>4, ChoiceWritten
    <2>2. /\ op'[i].kind = "tab" /\ op'[i].tab = op[i].tab /\ op'[i].step \in {"done", "list"}
          /\ \A j \in Ops : j # i => op'[j] = op[j]
          /\ op'[i].step = "done" => (Chooses(i) => op[i].tab = curTab)
          /\ op'[i].step = "list" => Chooses(i) /\ op'[i].ctx = op[i].ctx
      BY <2>1 DEF Moves, Keeps, Ends, Others
    <2>3. op'[i].step \notin Loading
      BY <2>2 DEF Loading, Fetching, Writing
    <2>4. /\ Chooses(i)' => Chooses(i)
          /\ Chooses(i) => Chooses(i)' \/ curTab = op[i].tab
      BY <1>1, <2>2 DEF Chooses, Selecting, ContextCurrent
    <2> QED
      BY <1>1, <2>1, <2>2, <2>3, <2>4, LatestStays
  <1> QED
    BY <1>2, <1>3, <1>4

\* The tab selected last is shown, and a draft clicked in the old tab yields.
LEMMA LatestListed ==
  ASSUME LatestBefore, NEW i \in Ops, Listed(i)
  PROVE  Latest'
  <1>1. /\ Shape /\ SelectInv /\ Latest /\ op[i].kind = "tab" /\ op[i].step = "list"
        /\ Proceeds(i) /\ UNCHANGED <<screen, draftQueue, context>>
        /\ \/ /\ Chooses(i) /\ ListedLoads(i) /\ curTab' = op[i].tab /\ op[i].tab # curTab
           \/ ~Chooses(i) /\ Ends(i, FALSE) /\ curTab' = curTab /\ generation' = generation
    BY ChoiceListed DEF LatestBefore, SelectInv
  <1>2. CASE Chooses(i)
    <2>1. /\ op'[i].step = "flush" /\ op'[i].tab = op[i].tab /\ op'[i].kind = "tab"
          /\ \A j \in Ops : j # i => op'[j] = op[j]
          /\ curTab' = op[i].tab /\ op[i].tab # curTab
      BY <1>1, <1>2 DEF ListedLoads, Goes, Others
    <2>2. ASSUME NEW j \in Ops, LastOf(j, {"tab"})' PROVE j = i
      <3>1. ~(j < i)
        BY <2>1, <2>2 DEF LastOf
      <3>2. op[j].kind = "tab"
        BY <1>1, <2>1, <2>2 DEF LastOf
      <3>3. ~(i < j)
        BY <1>1, <1>2, <3>2, LaterChooser
      <3> QED
        BY <3>1, <3>3 DEF Ops
    <2>3. LatestTab'
      BY <2>1, <2>2 DEF LatestTab
    <2>4. ASSUME NEW k \in Ops, Chooses(k)' PROVE FALSE
      <3>1. k # i
        BY <2>1, <2>4 DEF Chooses, Selecting
      <3>2. Chooses(k)
        BY <1>1, <2>1, <2>4, <3>1 DEF Chooses, ContextCurrent
      <3> QED
        BY <1>1, <1>2, <3>1, <3>2, OneChooser DEF Chooses
    <2>5. ASSUME NEW j \in Ops, op'[j].kind = "draft", LastOf(j, {"tab", "draft"})'
          PROVE  op'[j].tab # curTab'
      <3>1. j # i /\ op'[j] = op[j]
        BY <2>1, <2>5
      <3>2. LastOf(j, {"tab", "draft"})
        <4>1. \A k \in Ops : op'[k].kind = op[k].kind
          BY <1>1, <2>1
        <4> QED
          BY <2>5, <4>1 DEF LastOf
      <3>3. op[j].tab = curTab
        BY <1>1, <1>2, <2>5, <3>1, <3>2 DEF Latest, LatestDraft
      <3> QED
        BY <2>1, <3>1, <3>3
    <2>6. LatestDraft'
      BY <2>4, <2>5 DEF LatestDraft
    <2> QED
      BY <2>3, <2>6 DEF Latest
  <1>3. CASE ~Chooses(i)
    <2>1. /\ op'[i].kind = "tab" /\ op'[i].tab = op[i].tab /\ op'[i].step = "done"
          /\ \A j \in Ops : j # i => op'[j] = op[j]
      BY <1>1, <1>3 DEF Ends, Others
    <2>2. ~Chooses(i)' /\ op'[i].step \notin Loading
      BY <2>1 DEF Chooses, Selecting, Loading, Fetching, Writing
    <2>3. UNCHANGED <<curTab, generation>>
      BY <1>1, <1>3
    <2> QED
      BY <1>1, <1>3, <2>1, <2>2, <2>3, LatestStays
  <1> QED
    BY <1>2, <1>3

\* The load of the draft selected last goes on.
LEMMA LatestLoads ==
  ASSUME LatestBefore, NEW i \in Ops, (i # 1 /\ (Flushed(i) \/ Read(i))) \/ DraftTurn(i)
  PROVE  Latest'
  <1>1. /\ Shape /\ NoDeletions /\ Latest /\ GensOK
    BY DEF LatestBefore, SelectInv, Shape
  <1>2. /\ Same(i) /\ op[i].step \in {"flush", "read", "draftTurn"}
        /\ op[i].step = "flush" =>
             draftQueue' = draftQueue /\ (LoadCurrent(i) => Moves(i, "read"))
        /\ op[i].step = "read" =>
             IF LoadCurrent(i) THEN Moves(i, "draftTurn") /\ draftQueue' = Append(draftQueue, i)
             ELSE draftQueue' = draftQueue
        /\ op[i].step = "draftTurn" =>
             (CanSelect(op[i].tab, op[i].draft) => Moves(i, "draftWrite") /\ draftQueue' = draftQueue)
        /\ Moves(i, "read") \/ Moves(i, "draftTurn") \/ Moves(i, "draftWrite") \/ Returns(i)
    BY <1>1, FlushedDoes, ReadDoes, DraftTurnDoes
  <1>3. /\ Running(i) /\ Proceeds(i) /\ Along(i) /\ i # 1
        /\ UNCHANGED <<curTab, screen, generation, context>>
        /\ \A j \in Ops : j # i => op'[j] = op[j]
    BY <1>2 DEF Same, Proceeds, Goes, Ends, Others
  <1>4. op[i].kind # "open" /\ op[i].tab \in Tabs /\ op[i].step \in Loading
    <2>1. op[i].kind # "open" /\ op[i].step \in Loading
      BY <1>1, <1>2, <1>3, Begun DEF Loading, Fetching, Writing
    <2> QED
      BY <1>1, <2>1 DEF Shape, OpOK
  <1>5. op[i].step = "draftTurn" => Moves(i, "draftWrite") /\ draftQueue' = draftQueue
    BY <1>1, <1>2, <1>4, Unbarred
  <1>6. /\ op'[i].kind = op[i].kind /\ op'[i].tab = op[i].tab
        /\ op'[i].step \in Loading => op'[i].gen = op[i].gen
        /\ op'[i].step \notin Selecting
    <2>1. op'[i].kind = op[i].kind
      BY <1>3 DEF Proceeds, Goes, Ends
    <2>2. op'[i].tab = op[i].tab
      BY <1>2, MovesTab DEF Steps
    <2>3. op'[i].step \in {"read", "draftTurn", "draftWrite", "settle", "point", "done"}
      BY <1>2, MovesTab DEF Steps
    <2> QED
      BY <1>3, <2>1, <2>2, <2>3 DEF Along, Selecting
  <1>7. \A j \in Ops : Chooses(j)' <=> Chooses(j)
    <2>1. ~Chooses(i) /\ ~Chooses(i)'
      BY <1>2, <1>6 DEF Chooses, Selecting
    <2> QED
      BY <1>3, <2>1 DEF Chooses, ContextCurrent
  <1>8. \A j \in Ops : op'[j].kind = op[j].kind /\ op'[j].tab = op[j].tab
    BY <1>3, <1>6
  <1>9. \A K : \A j \in Ops : LastOf(j, K)' <=> LastOf(j, K)
    BY <1>8 DEF LastOf
  <1>10. LatestTab'
    BY <1>1, <1>3, <1>7, <1>8, <1>9 DEF LatestTab, Latest
  <1>11. ASSUME NEW j \in Ops, op'[j].kind = "draft", LastOf(j, {"tab", "draft"})'
         PROVE  /\ \A k \in Ops : Chooses(k)' => op'[j].tab = curTab
                /\ op'[j].tab = curTab =>
                     \/ op'[j].step \in Fetching /\ op'[j].gen = generation
                     \/ /\ op'[j].step \in Writing /\ op'[j].gen = generation
                        /\ draftQueue'[Len(draftQueue')] = j
                     \/ /\ At(j, "done")' /\ screen = op'[j].draft /\ draftQueue' = <<>>
                        /\ \A k \in Ops : op'[k].step \in Loading => op'[k].gen # generation
    <2>1. op[j].kind = "draft" /\ LastOf(j, {"tab", "draft"}) /\ op'[j].tab = op[j].tab
      BY <1>8, <1>9, <1>11
    <2>2. /\ \A k \in Ops : Chooses(k) => op[j].tab = curTab
          /\ op[j].tab = curTab =>
               \/ op[j].step \in Fetching /\ op[j].gen = generation
               \/ /\ op[j].step \in Writing /\ op[j].gen = generation
                  /\ draftQueue[Len(draftQueue)] = j
               \/ /\ At(j, "done") /\ screen = op[j].draft /\ draftQueue = <<>>
                  /\ \A k \in Ops : op[k].step \in Loading => op[k].gen # generation
      BY <1>1, <2>1 DEF Latest, LatestDraft
    <2>3. \A k \in Ops : Chooses(k)' => op'[j].tab = curTab
      BY <1>7, <2>1, <2>2
    <2>4. SUFFICES ASSUME op[j].tab = curTab
                   PROVE  \/ op'[j].step \in Fetching /\ op'[j].gen = generation
                          \/ /\ op'[j].step \in Writing /\ op'[j].gen = generation
                             /\ draftQueue'[Len(draftQueue')] = j
                          \/ /\ At(j, "done")' /\ screen = op'[j].draft /\ draftQueue' = <<>>
                             /\ \A k \in Ops : op'[k].step \in Loading => op'[k].gen # generation
      BY <2>1, <2>3
    <2>5. CASE j = i
      <3>1. \/ op[i].step \in {"flush", "read"} /\ op[i].gen = generation
            \/ op[i].step = "draftTurn" /\ op[i].gen = generation /\ draftQueue[Len(draftQueue)] = i
        BY <1>2, <2>2, <2>4, <2>5 DEF Fetching, Writing, At
      <3>2. CASE op[i].step \in {"flush", "read"}
        <4>1. LoadCurrent(i)
          BY <2>4, <2>5, <3>1, <3>2 DEF LoadCurrent
        <4>2. CASE op[i].step = "flush"
          <5>1. op'[i].step = "read" /\ op'[i].gen = generation
            BY <1>2, <3>1, <4>1, <4>2 DEF Moves, Keeps
          <5> QED
            BY <2>5, <5>1 DEF Fetching
        <4>3. CASE op[i].step = "read"
          <5>1. /\ op'[i].step = "draftTurn" /\ op'[i].gen = generation
                /\ draftQueue' = Append(draftQueue, i)
            BY <1>2, <3>1, <4>1, <4>3 DEF Moves, Keeps
          <5>2. draftQueue \in Seq(Ops)
            BY <1>1 DEF Shape, QueuesOK, QueueOK
          <5>3. draftQueue'[Len(draftQueue')] = i
            BY <5>1, <5>2, AppendIn
          <5> QED
            BY <2>5, <5>1, <5>3 DEF Writing
        <4> QED
          BY <3>2, <4>2, <4>3
      <3>3. CASE op[i].step = "draftTurn"
        <4>1. op'[i].step = "draftWrite" /\ op'[i].gen = generation /\ draftQueue' = draftQueue
          BY <1>5, <3>1, <3>3 DEF Moves, Keeps
        <4> QED
          BY <2>5, <3>1, <3>3, <4>1 DEF Writing
      <3> QED
        BY <3>1, <3>2, <3>3
    <2>6. CASE j # i
      <3>1. op'[j] = op[j]
        BY <1>3, <2>6
      <3>2. draftQueue' = draftQueue \/ op[i].gen = generation
        BY <1>2, <1>5 DEF LoadCurrent
      <3>3. CASE op[j].step \in Fetching /\ op[j].gen = generation
        BY <3>1, <3>3
      <3>4. CASE /\ op[j].step \in Writing /\ op[j].gen = generation
                 /\ draftQueue[Len(draftQueue)] = j
        <4>1. op[i].gen # generation
          BY <1>1, <1>4, <2>6, <3>4 DEF GensOK, Loading
        <4> QED
          BY <3>1, <3>2, <3>4, <4>1
      <3>5. CASE /\ At(j, "done") /\ screen = op[j].draft /\ draftQueue = <<>>
                 /\ \A k \in Ops : op[k].step \in Loading => op[k].gen # generation
        <4>1. draftQueue' = draftQueue
          BY <1>4, <3>2, <3>5
        <4>2. \A k \in Ops : op'[k].step \in Loading => op'[k].gen # generation
          BY <1>3, <1>4, <1>6, <3>5
        <4> QED
          BY <3>1, <3>5, <4>1, <4>2 DEF At
      <3> QED
        BY <2>2, <2>4, <3>3, <3>4, <3>5
    <2> QED
      BY <2>5, <2>6
  <1>12. LatestDraft'
    BY <1>3, <1>11 DEF LatestDraft
  <1> QED
    BY <1>10, <1>12 DEF Latest

\* The draft selected last is shown when nothing is left that could show another.
LEMMA LatestCommits ==
  ASSUME LatestBefore, NEW i \in Ops, DraftWritten(i)
  PROVE  Latest'
  <1>1. /\ Shape /\ NoDeletions /\ Latest /\ GensOK
        /\ Turns(i) /\ Returns(i) /\ op[i].step = "draftWrite" /\ op[i].tab \in Tabs
        /\ draftQueue' = Tail(draftQueue) /\ Head(draftQueue) = i
        /\ UNCHANGED <<curTab, generation, context>>
        /\ IF curTab = op[i].tab /\ CanSelect(op[i].tab, op[i].draft)
           THEN screen' = op[i].draft ELSE screen' = screen
    BY DraftWrittenDoes DEF LatestBefore, SelectInv, Shape, Turns
  <1>2. /\ op'[i].step = "done" /\ op'[i].kind = op[i].kind /\ op'[i].tab = op[i].tab
        /\ op'[i].draft = op[i].draft /\ \A j \in Ops : j # i => op'[j] = op[j]
    BY <1>1, Returning
  <1>3. /\ draftQueue \in Seq(Ops) /\ Distinct(draftQueue) /\ In(draftQueue, i)
        /\ \A j \in Ops : op[j].step \in Writing => In(draftQueue, j)
    <2>1. QueueOK(op, draftQueue, InDraftQueue, DraftWrites)
      BY <1>1 DEF Shape, QueuesOK
    <2> QED
      BY <1>1, <2>1 DEF QueueOK, InDraftQueue, Writing
  <1>4. /\ draftQueue # <<>>
        /\ \A j : In(Tail(draftQueue), j) <=> In(draftQueue, j) /\ j # i
        /\ Tail(draftQueue) # <<>> =>
             Tail(draftQueue)[Len(Tail(draftQueue))] = draftQueue[Len(draftQueue)]
        /\ draftQueue[Len(draftQueue)] = i => Tail(draftQueue) = <<>>
        /\ Tail(draftQueue) \in Seq(Ops)
    BY <1>1, <1>3, InNonempty, TailIn
  <1>5. \A j \in Ops : Chooses(j)' <=> Chooses(j)
    <2>1. ~Chooses(i) /\ ~Chooses(i)'
      BY <1>1, <1>2 DEF Chooses, Selecting
    <2> QED
      BY <1>1, <1>2, <2>1 DEF Chooses, ContextCurrent
  <1>6. \A j \in Ops : op'[j].kind = op[j].kind /\ op'[j].tab = op[j].tab
    BY <1>2
  <1>7. \A K : \A j \in Ops : LastOf(j, K)' <=> LastOf(j, K)
    BY <1>6 DEF LastOf
  <1>8. LatestTab'
    BY <1>1, <1>5, <1>6, <1>7 DEF LatestTab, Latest
  <1>9. ASSUME NEW j \in Ops, op'[j].kind = "draft", LastOf(j, {"tab", "draft"})'
        PROVE  /\ \A k \in Ops : Chooses(k)' => op'[j].tab = curTab
               /\ op'[j].tab = curTab =>
                    \/ op'[j].step \in Fetching /\ op'[j].gen = generation
                    \/ /\ op'[j].step \in Writing /\ op'[j].gen = generation
                       /\ draftQueue'[Len(draftQueue')] = j
                    \/ /\ At(j, "done")' /\ screen' = op'[j].draft /\ draftQueue' = <<>>
                       /\ \A k \in Ops : op'[k].step \in Loading => op'[k].gen # generation
    <2>1. op[j].kind = "draft" /\ LastOf(j, {"tab", "draft"}) /\ op'[j].tab = op[j].tab
      BY <1>6, <1>7, <1>9
    <2>2. /\ \A k \in Ops : Chooses(k) => op[j].tab = curTab
          /\ op[j].tab = curTab =>
               \/ op[j].step \in Fetching /\ op[j].gen = generation
               \/ /\ op[j].step \in Writing /\ op[j].gen = generation
                  /\ draftQueue[Len(draftQueue)] = j
               \/ /\ At(j, "done") /\ screen = op[j].draft /\ draftQueue = <<>>
                  /\ \A k \in Ops : op[k].step \in Loading => op[k].gen # generation
      BY <1>1, <2>1 DEF Latest, LatestDraft
    <2>3. \A k \in Ops : Chooses(k)' => op'[j].tab = curTab
      BY <1>5, <2>1, <2>2
    <2>4. SUFFICES ASSUME op[j].tab = curTab
                   PROVE  \/ op'[j].step \in Fetching /\ op'[j].gen = generation
                          \/ /\ op'[j].step \in Writing /\ op'[j].gen = generation
                             /\ draftQueue'[Len(draftQueue')] = j
                          \/ /\ At(j, "done")' /\ screen' = op'[j].draft /\ draftQueue' = <<>>
                             /\ \A k \in Ops : op'[k].step \in Loading => op'[k].gen # generation
      BY <2>1, <2>3
    <2>5. CASE j = i
      <3>1. op[i].gen = generation /\ draftQueue[Len(draftQueue)] = i
        BY <1>1, <2>2, <2>4, <2>5 DEF Fetching, At
      <3>2. screen' = op'[i].draft
        BY <1>1, <1>2, <2>4, <2>5, Unbarred
      <3>3. ASSUME NEW k \in Ops, op'[k].step \in Loading PROVE op'[k].gen # generation
        <4>1. k # i /\ op'[k] = op[k]
          BY <1>2, <3>3 DEF Loading, Fetching, Writing
        <4> QED
          BY <1>1, <3>1, <3>3, <4>1 DEF GensOK, Loading, Writing
      <3>4. draftQueue' = <<>>
        BY <1>1, <1>4, <3>1
      <3> QED
        BY <1>2, <2>5, <3>2, <3>3, <3>4 DEF At
    <2>6. CASE j # i
      <3>1. op'[j] = op[j]
        BY <1>2, <2>6
      <3>2. CASE /\ op[j].step \in Writing /\ op[j].gen = generation
                 /\ draftQueue[Len(draftQueue)] = j
        <4>1. In(Tail(draftQueue), j)
          BY <1>3, <1>4, <2>6, <3>2
        <4>2. Tail(draftQueue) # <<>>
          BY <1>4, <4>1, InNonempty
        <4> QED
          BY <1>1, <1>4, <3>1, <3>2, <4>2
      <3> QED
        BY <1>4, <2>2, <2>4, <3>1, <3>2
    <2> QED
      BY <2>5, <2>6
  <1>10. LatestDraft'
    BY <1>1, <1>9 DEF LatestDraft
  <1> QED
    BY <1>8, <1>10 DEF Latest

\* What begins is the newest operation.
LEMMA StartsLast ==
  ASSUME Shape, NEW i \in Ops, Starts(i), NEW K, op'[i].kind \in K, "open" \notin K,
         NEW j \in Ops, LastOf(j, K)'
  PROVE  j = i
  <1>1. ~(j < i)
    BY DEF LastOf
  <1>2. ASSUME i < j PROVE FALSE
    <2>1. op[j].step = "new"
      BY <1>2 DEF Shape, GensOK, Starts, NextOp, At
    <2>2. op[j].kind = "open"
      BY <2>1, NoOpTyped DEF Shape, OpOK, At, NoOp
    <2>3. op'[j] = op[j]
      BY <1>2 DEF Starts, Others, Ops
    <2> QED
      BY <2>2, <2>3 DEF LastOf
  <1> QED
    BY <1>1, <1>2 DEF Ops

LEMMA LatestBegins ==
  ASSUME LatestBefore, NEW i \in Ops,
         (\E d \in Drafts : DraftSelect(i, d)) \/ (\E t \in Tabs : TabSelect(i, t))
  PROVE  Latest'
  <1>1. Shape /\ SelectInv /\ Latest
    BY DEF LatestBefore, SelectInv
  <1>2. CASE \E d \in Drafts : DraftSelect(i, d)
    <2>1. /\ Starts(i) /\ op'[i].kind = "draft" /\ op'[i].step = "flush" /\ op'[i].tab = curTab
          /\ op'[i].gen = generation' /\ context' = context
      BY <1>1, <1>2, DraftSelectDoes
    <2>2. /\ curTab' = curTab /\ op[i].kind = "open" /\ \A j \in Ops : j # i => op'[j] = op[j]
      BY <2>1 DEF Starts, Others
    <2>3. ASSUME NEW j \in Ops, LastOf(j, {"tab"})' PROVE Chooses(j)' \/ curTab' = op'[j].tab
      <3>1. j # i /\ LastOf(j, {"tab"})
        BY <2>1, <2>2, <2>3 DEF LastOf
      <3>2. Chooses(j) \/ curTab = op[j].tab
        BY <1>1, <3>1 DEF Latest, LatestTab
      <3> QED
        BY <2>1, <2>2, <3>1, <3>2 DEF Chooses, ContextCurrent
    <2>4. ASSUME NEW j \in Ops, LastOf(j, {"tab", "draft"})' PROVE j = i
      BY <1>1, <2>1, <2>4, StartsLast
    <2>5. LatestTab'
      BY <2>3 DEF LatestTab
    <2>6. LatestDraft'
      BY <2>1, <2>2, <2>4 DEF LatestDraft, Fetching
    <2> QED
      BY <2>5, <2>6 DEF Latest
  <1>3. CASE \E t \in Tabs : TabSelect(i, t)
    <2>1. Starts(i) /\ op'[i].kind = "tab" /\ Chooses(i)'
      BY <1>1, <1>3, TabSelectDoes, ChoiceTab
    <2>2. ASSUME NEW j \in Ops, LastOf(j, {"tab"})' PROVE j = i
      BY <1>1, <2>1, <2>2, StartsLast
    <2>3. ASSUME NEW j \in Ops, LastOf(j, {"tab", "draft"})' PROVE j = i
      BY <1>1, <2>1, <2>3, StartsLast
    <2>4. LatestTab'
      BY <2>1, <2>2 DEF LatestTab
    <2>5. LatestDraft'
      BY <2>1, <2>3 DEF LatestDraft
    <2> QED
      BY <2>4, <2>5 DEF Latest
  <1> QED
    BY <1>2, <1>3

\* The opened document is shown only if no draft was selected since.
LEMMA LatestOpens ==
  ASSUME LatestBefore, NEW i \in Ops, Resolve(i) \/ (i = 1 /\ (Flushed(i) \/ Read(i)))
  PROVE  Latest'
  <1>1. Shape /\ SelectInv /\ Latest
    BY DEF LatestBefore, SelectInv
  <1>2. CASE Resolve(i) \/ (i = 1 /\ Flushed(i))
    <2>1. \A j \in Ops : op'[j].kind = "open"
      BY <1>1, <1>2, ChoiceOpens
    <2> QED
      BY <2>1 DEF Latest, LatestTab, LatestDraft, LastOf
  <1>3. CASE i = 1 /\ Read(i)
    <2>1. /\ Ends(i, FALSE)
          /\ UNCHANGED <<curTab, draftQueue, generation, context>>
          /\ screen' = screen \/ OpenShown
      BY <1>1, <1>3, OpenRead
    <2>2. /\ op[i].kind = "open" /\ op'[i].kind = "open" /\ op'[i].tab = op[i].tab
          /\ op'[i].step = "done" /\ \A j \in Ops : j # i => op'[j] = op[j]
      <3>1. op[i].kind = "open"
        BY <1>1, <1>3 DEF Shape, OpenOK
      <3> QED
        BY <2>1, <3>1 DEF Ends, Others
    <2>3. ~Chooses(i) /\ ~Chooses(i)' /\ op'[i].step \notin Loading
      BY <2>2 DEF Chooses, Loading, Fetching, Writing
    <2>4. CASE screen' = screen
      BY <1>1, <2>1, <2>2, <2>3, <2>4, LatestStays
    <2>5. CASE OpenShown
      <3>1. \A j \in Ops : (Chooses(j)' <=> Chooses(j)) /\ op'[j].kind = op[j].kind
                           /\ op'[j].tab = op[j].tab
        BY <2>1, <2>2, <2>3 DEF Chooses, ContextCurrent
      <3>2. \A K : \A j \in Ops : LastOf(j, K)' <=> LastOf(j, K)
        BY <3>1 DEF LastOf
      <3>3. LatestTab'
        BY <1>1, <2>1, <3>1, <3>2 DEF Latest, LatestTab
      <3>4. ASSUME NEW j \in Ops, op'[j].kind = "draft", LastOf(j, {"tab", "draft"})'
            PROVE  op[j].tab # curTab /\ \A k \in Ops : Chooses(k)' => op'[j].tab = curTab
        <4>1. op[j].kind = "draft" /\ LastOf(j, {"tab", "draft"}) /\ j # i /\ op'[j] = op[j]
          BY <2>2, <3>1, <3>2, <3>4
        <4>2. op[j].step \in Selecting \cup {"new", "done"} /\ 1 \in Ops
              /\ op[1].step \in Loading /\ op[1].gen = generation
          BY <1>3, <2>5, <4>1 DEF OpenShown
        <4>3. op[j].step \notin Fetching /\ op[j].step \notin Writing
          BY <4>2 DEF Selecting, Fetching, Writing
        <4>4. op[j].tab # curTab
          BY <1>1, <4>1, <4>2, <4>3 DEF Latest, LatestDraft
        <4>5. \A k \in Ops : Chooses(k) => op[j].tab = curTab
          BY <1>1, <4>1 DEF Latest, LatestDraft
        <4> QED
          BY <3>1, <4>1, <4>4, <4>5
      <3>5. LatestDraft'
        BY <2>1, <3>1, <3>4 DEF LatestDraft
      <3> QED
        BY <3>3, <3>5 DEF Latest
    <2> QED
      BY <2>1, <2>4, <2>5
  <1> QED
    BY <1>2, <1>3

LEMMA LatestQuiet ==
  ASSUME Latest, Quiet
  PROVE  Latest'
  <1>1. \A j \in Ops : Chooses(j)' <=> Chooses(j)
    BY DEF Chooses, ContextCurrent, Quiet
  <1>2. \A K : \A j \in Ops : LastOf(j, K)' <=> LastOf(j, K)
    BY DEF LastOf, Quiet
  <1>3. LatestTab'
    BY <1>1, <1>2 DEF Latest, LatestTab, Quiet
  <1>4. LatestDraft'
    BY <1>1, <1>2 DEF Latest, LatestDraft, Quiet, At
  <1> QED
    BY <1>3, <1>4 DEF Latest

LEMMA FailuresFail ==
  ASSUME Shape, NEW i \in Ops, Failure(i) \/ Back(i)
  PROVE  ~Unfailing'
  <1>1. Ends(i, TRUE) \/ Backing(i)'
    BY TabWriteFailsDoes, CallFailsDoes, LoadFailsDoes, OpenFails, BackDoes DEF Failure
  <1> QED
    BY <1>1 DEF Ends, Unfailing, Backing

LoaderInv == ChoiceInv /\ (NoDeletions /\ Unfailing => Latest)

LEMMA InitLoader == Init => LoaderInv
  <1> SUFFICES ASSUME Init PROVE Latest
    BY InitChoice DEF LoaderInv
  <1>1. Shape
    BY InitShape
  <1>2. \A j \in Ops : op[j].kind = "open"
    <2>1. 1 \in Ops /\ op[1] = [NoOp EXCEPT !.step = "flush", !.gen = 1]
      BY LoaderConstants DEF Init, Ops
    <2>2. op[1].step = "flush"
      BY <2>1 DEF NoOp
    <2> QED
      BY <1>1, <2>2, OpenAlone
  <1> QED
    BY <1>2 DEF Latest, LatestTab, LatestDraft, LastOf

LEMMA LoaderStep == LoaderInv /\ [Next]_vars => LoaderInv'
  <1> SUFFICES ASSUME LoaderInv, [Next]_vars, NoDeletions', Unfailing' PROVE Latest'
    BY ChoiceStep DEF LoaderInv
  <1>1. ChoiceInv /\ Shape
    BY DEF LoaderInv, ChoiceInv, OffInv
  <1>2. CASE Rest \/ UNCHANGED vars \/ Edit
    <2>1. Quiet
      BY <1>1, <1>2, RestDoes, EditDoes DEF Rest
    <2>2. NoDeletions /\ Unfailing
      BY <2>1 DEF Quiet, Unfailing, Backing, NoDeletions, Deletes
    <2> QED
      BY <2>1, <2>2, LatestQuiet DEF LoaderInv
  <1>3. ASSUME NEW i \in Ops, Request(i) \/ Progress(i) \/ Failure(i) PROVE LatestBefore
    <2>1. SelectInv
      BY <1>1, <1>3, SelectBefore
    <2>2. Unfailing
      <3>1. CASE Request(i)
        <4>1. Starts(i)
          BY <1>1, <3>1, DraftSelectDoes, DropDraftDoes, TabSelectDoes, DropTabDoes DEF Request
        <4> QED
          BY <1>1, <4>1, StartTrusts
      <3>2. CASE Progress(i) \/ Failure(i)
        BY <1>1, <3>2, Trusts
      <3> QED
        BY <1>3, <3>1, <3>2
    <2> QED
      BY <2>1, <2>2 DEF LoaderInv, SelectInv, LatestBefore
  <1>4. ASSUME NEW i \in Ops, Request(i) PROVE Latest'
    BY <1>1, <1>3, <1>4, NoDrop, LatestBegins
  <1>5. ASSUME NEW i \in Ops, Progress(i) \/ Failure(i) PROVE Latest'
    <2>1. LatestBefore /\ NoDeletions
      BY <1>3, <1>5 DEF LatestBefore, SelectInv
    <2>2. ~(Failure(i) \/ Back(i))
      BY <1>1, FailuresFail
    <2>3. CASE Pick(i) \/ TabTurn(i) \/ TabWritten(i) \/ Listed(i)
      BY <2>1, <2>3, LatestChoice, LatestListed
    <2>4. CASE Flushed(i) \/ Read(i) \/ Resolve(i) \/ DraftTurn(i) \/ DraftWritten(i)
      BY <2>1, <2>4, LatestLoads, LatestOpens, LatestCommits
    <2> QED
      BY <1>1, <1>5, <2>1, <2>2, <2>3, <2>4, NoDeletionSteps DEF Progress
  <1> QED
    BY <1>2, <1>4, <1>5 DEF Next

\* The tab selected last is on screen in the end, and so is the draft selected last if it is of
\* the tab on screen, in whatever order the selections overtake each other.
THEOREM LatestAlwaysWins == Spec => []LatestWins
  <1>1. ASSUME LoaderInv PROVE LatestWins
    <2>1. Shape /\ OpenOK
      BY <1>1 DEF LoaderInv, ChoiceInv, OffInv, Shape
    <2>2. SUFFICES ASSUME Idle, screen # None, \A i \in Ops : ~op[i].failed /\ ~Deletes(i),
                          NEW i \in Ops
                   PROVE  /\ Newest(i, {"tab"}) => TabOf[screen] = op[i].tab
                          /\ Newest(i, {"tab", "draft"}) /\ op[i].kind = "draft"
                             /\ TabOf[screen] = op[i].tab => screen = op[i].draft
      BY DEF LatestWins
    <2>3. \A j \in Ops : op[j].step \in {"new", "done"}
      BY <2>2 DEF Idle, Running
    <2>4. NoDeletions /\ Unfailing
      BY <2>2, <2>3 DEF NoDeletions, Unfailing, Backing
    <2>5. ScreenOK /\ Latest
      BY <1>1, <2>4 DEF LoaderInv, ChoiceInv
    <2>6. \A j \in Ops : ~Pends(j) /\ ~Chooses(j)
      BY <2>3 DEF Pends, Chooses, Fetching, Writing, Selecting
    <2>7. curTab = TabOf[screen]
      BY <2>2, <2>5, <2>6 DEF ScreenOK, Matched
    <2>8. \A K : Newest(i, K) /\ "open" \notin K => LastOf(i, K)
      <3>1. \A j \in Ops : At(j, "new") => op[j].kind = "open"
        BY <2>1 DEF Shape, OpOK, NoOp
      <3> QED
        BY <3>1 DEF Newest, LastOf
    <2>9. Newest(i, {"tab"}) => TabOf[screen] = op[i].tab
      BY <2>5, <2>6, <2>7, <2>8 DEF Latest, LatestTab
    <2>10. ASSUME Newest(i, {"tab", "draft"}), op[i].kind = "draft", TabOf[screen] = op[i].tab
           PROVE  screen = op[i].draft
      <3>1. LastOf(i, {"tab", "draft"}) /\ op[i].tab = curTab
        BY <2>7, <2>8, <2>10
      <3>2. op[i].step \notin Fetching /\ op[i].step \notin Writing
        BY <2>3 DEF Fetching, Writing
      <3> QED
        BY <2>5, <2>10, <3>1, <3>2 DEF Latest, LatestDraft
    <2> QED
      BY <2>9, <2>10
  <1> QED
    BY <1>1, InitLoader, LoaderStep, PTL DEF Spec
=============================================================================
