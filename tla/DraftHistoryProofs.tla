-------------------------- MODULE DraftHistoryProofs --------------------------
(***************************************************************************)
(* Theorems about DraftSessions, for every value of its constants: types,  *)
(* and, until a redo is begun in a session in which an undo had failed,    *)
(* the tree, the undo and the redo.                                        *)
(***************************************************************************)
EXTENDS DraftSessions, SequenceTheorems, FiniteSetTheorems, TLAPS

-----------------------------------------------------------------------------
(* Sequences given by their elements.                                      *)

\* A function on 1..n is a sequence of length n.
LEMMA FunctionIsSeq ==
  ASSUME NEW S, NEW n \in Nat, NEW f \in [1..n -> S]
  PROVE  f \in Seq(S) /\ Len(f) = n /\ DOMAIN f = 1..n
  <1>1. f \in Seq(S)
    BY SeqDef
  <1>2. DOMAIN f = 1..Len(f) /\ Len(f) \in Nat /\ DOMAIN f = 1..n
    BY <1>1, LenProperties
  <1>3. Len(f) = n
    BY <1>2
  <1> QED
    BY <1>1, <1>2, <1>3

-----------------------------------------------------------------------------
(* What the operators of DraftTree return.                                 *)

\* A typed database.
LEMMA DatabaseFacts ==
  ASSUME NEW s \in DatabaseType
  PROVE  /\ s.tabs \in Seq(BOOLEAN) /\ s.drafts \in Seq(DraftType)
         /\ s.told \in [tabs : Seq(BOOLEAN), drafts : Seq(BOOLEAN)]
         /\ Tabs(s) = 1..Len(s.tabs) /\ Len(s.tabs) \in Nat
         /\ Drafts(s) = 1..Len(s.drafts) /\ Len(s.drafts) \in Nat
         /\ s.drafts \in [1..Len(s.drafts) -> DraftType]
         /\ s.tabs \in [1..Len(s.tabs) -> BOOLEAN]
         /\ DOMAIN s.told.drafts = 1..Len(s.told.drafts)
         /\ DOMAIN s.told.tabs = 1..Len(s.told.tabs)
         /\ \A d \in Drafts(s) : s.drafts[d] \in DraftType
  <1>1. /\ s.tabs \in Seq(BOOLEAN) /\ s.drafts \in Seq(DraftType)
        /\ s.told \in [tabs : Seq(BOOLEAN), drafts : Seq(BOOLEAN)]
    BY DEF DatabaseType
  <1>2. s.told.drafts \in Seq(BOOLEAN) /\ s.told.tabs \in Seq(BOOLEAN)
    BY <1>1
  <1> QED
    BY <1>1, <1>2, LenProperties DEF Tabs, Drafts

\* The same tree: only locks and the log may differ.
SameTree(r, s) ==
  /\ r.tabs = s.tabs
  /\ Len(r.drafts) = Len(s.drafts)
  /\ \A d \in 1..Len(s.drafts) :
       /\ r.drafts[d].tab = s.drafts[d].tab
       /\ r.drafts[d].parent = s.drafts[d].parent
       /\ r.drafts[d].branchedFrom = s.drafts[d].branchedFrom
       /\ r.drafts[d].live = s.drafts[d].live

\* Relocking changes locks only.
LEMMA RelockKeepsTree ==
  ASSUME NEW s \in DatabaseType, NEW seeds
  PROVE  Relock(s, seeds) \in DatabaseType /\ SameTree(Relock(s, seeds), s)
  <1> DEFINE n == Len(s.drafts)
             runs == {Chain(s, d) : d \in seeds}
             lock(d) == IF d \in UNION runs THEN \E r \in runs : d \in r /\ d # Max(r)
                                            ELSE s.drafts[d].locked
             row(d) == [s.drafts[d] EXCEPT !.locked = lock(d)]
             f == [d \in 1..n |-> row(d)]
  <1>1. /\ n \in Nat /\ Drafts(s) = 1..n
        /\ \A d \in 1..n : s.drafts[d] \in DraftType
    BY DatabaseFacts
  <1>2. \A d \in 1..n : lock(d) \in BOOLEAN
    BY <1>1 DEF DraftType
  <1> HIDE DEF lock
  <1>3. \A d \in 1..n : row(d) \in DraftType
    BY <1>1, <1>2 DEF DraftType
  <1>4. \A d \in 1..n : /\ row(d).tab = s.drafts[d].tab
                        /\ row(d).parent = s.drafts[d].parent
                        /\ row(d).branchedFrom = s.drafts[d].branchedFrom
                        /\ row(d).live = s.drafts[d].live
    BY <1>1 DEF DraftType
  <1> HIDE DEF row
  <1>5. f \in Seq(DraftType) /\ Len(f) = n
    <2>1. f \in [1..n -> DraftType]
      BY <1>3
    <2> QED
      BY <2>1, <1>1, FunctionIsSeq
  <1>6. Relock(s, seeds) = [s EXCEPT !.drafts = f]
    BY <1>1 DEF Relock, lock, row
  <1>7. /\ Relock(s, seeds).tabs = s.tabs /\ Relock(s, seeds).drafts = f
        /\ Relock(s, seeds) \in DatabaseType
    BY <1>5, <1>6 DEF DatabaseType
  <1>8. \A d \in 1..n : f[d] = row(d)
    OBVIOUS
  <1> HIDE DEF f
  <1> QED
    BY <1>4, <1>5, <1>7, <1>8 DEF SameTree

\* Marking drafts changes their liveness only.
Marked(r, s, ids, live) ==
  /\ r \in DatabaseType
  /\ r.tabs = s.tabs /\ Len(r.drafts) = Len(s.drafts)
  /\ \A d \in 1..Len(s.drafts) :
       /\ r.drafts[d].tab = s.drafts[d].tab
       /\ r.drafts[d].parent = s.drafts[d].parent
       /\ r.drafts[d].branchedFrom = s.drafts[d].branchedFrom
       /\ r.drafts[d].live = IF d \in ids THEN live ELSE s.drafts[d].live

LEMMA SetLiveFacts ==
  ASSUME NEW s \in DatabaseType, NEW ids, NEW live \in BOOLEAN
  PROVE  Marked(SetLive(s, ids, live), s, ids, live)
  <1> DEFINE n == Len(s.drafts)
             row(d) == [s.drafts[d] EXCEPT
                          !.live = IF d \in ids THEN live ELSE s.drafts[d].live]
             f == [d \in 1..n |-> row(d)]
             g == [d \in DOMAIN s.told.drafts |->
                     IF d \in ids THEN live ELSE s.told.drafts[d]]
             r == SetLive(s, ids, live)
  <1>1. /\ n \in Nat /\ Drafts(s) = 1..n
        /\ \A d \in 1..n : s.drafts[d] \in DraftType
    BY DatabaseFacts
  <1>2. \A d \in 1..n : row(d) \in DraftType
    BY <1>1 DEF DraftType
  <1> HIDE DEF row
  <1>3. f \in Seq(DraftType) /\ Len(f) = n
    <2>1. f \in [1..n -> DraftType]
      BY <1>2
    <2> QED
      BY <2>1, <1>1, FunctionIsSeq
  <1>4. g \in Seq(BOOLEAN)
    <2>1. s.told.drafts \in Seq(BOOLEAN)
      BY DEF DatabaseType
    <2>2. Len(s.told.drafts) \in Nat /\ DOMAIN s.told.drafts = 1..Len(s.told.drafts)
          /\ s.told.drafts \in [1..Len(s.told.drafts) -> BOOLEAN]
      BY <2>1, LenProperties
    <2>3. g \in [1..Len(s.told.drafts) -> BOOLEAN]
      BY <2>2
    <2> HIDE DEF g
    <2> QED
      BY <2>2, <2>3, FunctionIsSeq
  <1>5. r = [s EXCEPT !.drafts = f, !.told.drafts = g]
    BY <1>1 DEF SetLive, LogDrafts, row, DatabaseType
  <1> HIDE DEF g
  <1>6. r.drafts = f /\ r.tabs = s.tabs /\ r \in DatabaseType
    BY <1>3, <1>4, <1>5 DEF DatabaseType
  <1>7. \A d \in 1..n : f[d] = row(d)
    OBVIOUS
  <1> HIDE DEF f, r
  <1>8. \A d \in 1..n : r.drafts[d] = row(d)
    BY <1>6, <1>7
  <1>9. \A d \in 1..n : /\ row(d).tab = s.drafts[d].tab
                        /\ row(d).parent = s.drafts[d].parent
                        /\ row(d).branchedFrom = s.drafts[d].branchedFrom
                        /\ row(d).live = IF d \in ids THEN live ELSE s.drafts[d].live
    BY <1>1 DEF row, DraftType
  <1>10. Marked(r, s, ids, live)
    BY <1>1, <1>3, <1>6, <1>8, <1>9 DEF Marked
  <1> QED
    BY <1>10 DEF r

\* What a marked database keeps and what it changes.
LEMMA MarkedFacts ==
  ASSUME NEW s \in DatabaseType, NEW ids, NEW live, NEW r,
         Marked(r, s, ids, live)
  PROVE  /\ Drafts(r) = Drafts(s) /\ Tabs(r) = Tabs(s) /\ LiveTabs(r) = LiveTabs(s)
         /\ \A d \in Drafts(s) : /\ Anchor(r, d) = Anchor(s, d)
                                 /\ IsRoot(r, d) <=> IsRoot(s, d)
  <1>1. /\ Drafts(r) = Drafts(s) /\ Tabs(r) = Tabs(s) /\ LiveTabs(r) = LiveTabs(s)
        /\ Drafts(s) = 1..Len(s.drafts)
    BY DatabaseFacts DEF Marked, LiveTabs, Tabs
  <1>2. \A d \in Drafts(s) : /\ Anchor(r, d) = Anchor(s, d)
                             /\ IsRoot(r, d) <=> IsRoot(s, d)
    BY <1>1 DEF Marked, Anchor, IsRoot
  <1> QED
    BY <1>1, <1>2

LEMMA MarkedLive ==
  ASSUME NEW s \in DatabaseType, NEW ids, NEW r, Marked(r, s, ids, TRUE)
  PROVE  Live(r) = Live(s) \union (ids \intersect Drafts(s))
  BY MarkedFacts, DatabaseFacts DEF Marked, Live

LEMMA MarkedDead ==
  ASSUME NEW s \in DatabaseType, NEW ids, NEW r, Marked(r, s, ids, FALSE)
  PROVE  Live(r) = Live(s) \ ids
  BY MarkedFacts, DatabaseFacts DEF Marked, Live

\* Marking a tab leaves the drafts alone.
TabMarked(r, s, t, live) ==
  /\ r \in DatabaseType
  /\ r.drafts = s.drafts /\ Len(r.tabs) = Len(s.tabs)
  /\ \A x \in 1..Len(s.tabs) : r.tabs[x] = IF x = t THEN live ELSE s.tabs[x]

LEMMA SetTabFacts ==
  ASSUME NEW s \in DatabaseType, NEW t, NEW live \in BOOLEAN
  PROVE  TabMarked(SetTab(s, t, live), s, t, live)
  <1> DEFINE k == Len(s.tabs)
             f == [s.tabs EXCEPT ![t] = live]
             g == [s.told.tabs EXCEPT ![t] = live]
             r == SetTab(s, t, live)
  <1>1. /\ s.tabs \in [1..k -> BOOLEAN] /\ k \in Nat
        /\ s.told.tabs \in [1..Len(s.told.tabs) -> BOOLEAN]
        /\ Len(s.told.tabs) \in Nat
    <2>1. s.tabs \in Seq(BOOLEAN) /\ s.told.tabs \in Seq(BOOLEAN)
      BY DatabaseFacts
    <2> QED
      BY <2>1, LenProperties
  <1>2. f \in [1..k -> BOOLEAN] /\ g \in [1..Len(s.told.tabs) -> BOOLEAN]
    BY <1>1
  <1>3. f \in Seq(BOOLEAN) /\ Len(f) = k /\ g \in Seq(BOOLEAN)
    BY <1>1, <1>2, FunctionIsSeq
  <1>4. \A x \in 1..k : f[x] = IF x = t THEN live ELSE s.tabs[x]
    BY <1>1
  <1>5. r = [s EXCEPT !.tabs = f, !.told.tabs = g]
    BY DEF SetTab, DatabaseType
  <1> HIDE DEF f, g, r
  <1>6. r.tabs = f /\ r.drafts = s.drafts /\ r \in DatabaseType
    BY <1>3, <1>5 DEF DatabaseType
  <1>7. TabMarked(r, s, t, live)
    BY <1>3, <1>4, <1>6 DEF TabMarked
  <1> QED
    BY <1>7 DEF r

\* A new draft is the last row, live and hanging where it was put.
Inserted(r, s, tab, parent, branchedFrom) ==
  /\ r \in DatabaseType
  /\ r.tabs = s.tabs /\ Len(r.drafts) = Len(s.drafts) + 1
  /\ \A d \in 1..Len(s.drafts) : r.drafts[d] = s.drafts[d]
  /\ r.drafts[Len(s.drafts) + 1].tab = tab
  /\ r.drafts[Len(s.drafts) + 1].parent = parent
  /\ r.drafts[Len(s.drafts) + 1].branchedFrom = branchedFrom
  /\ r.drafts[Len(s.drafts) + 1].live = TRUE

LEMMA InsertDraftFacts ==
  ASSUME NEW s \in DatabaseType, NEW tab \in TabIds,
         NEW parent \in {None} \union DraftIds,
         NEW branchedFrom \in {None} \union DraftIds
  PROVE  Inserted(InsertDraft(s, tab, parent, branchedFrom), s, tab, parent,
                  branchedFrom)
  <1> DEFINE row == [tab |-> tab, parent |-> parent, branchedFrom |-> branchedFrom,
                     live |-> TRUE, locked |-> FALSE]
             r == InsertDraft(s, tab, parent, branchedFrom)
  <1>1. row \in DraftType
    BY DEF DraftType
  <1>2. /\ s.drafts \in Seq(DraftType) /\ s.told.drafts \in Seq(BOOLEAN)
    BY DEF DatabaseType
  <1>3. /\ r.drafts = Append(s.drafts, row) /\ r.tabs = s.tabs
        /\ r = [s EXCEPT !.drafts = Append(s.drafts, row),
                         !.told.drafts = Append(s.told.drafts, TRUE)]
    BY DEF InsertDraft, DatabaseType
  <1> HIDE DEF row, r
  <1>4. Append(s.drafts, row) \in Seq(DraftType)
    BY <1>1, <1>2
  <1>5. Append(s.told.drafts, TRUE) \in Seq(BOOLEAN)
    BY <1>2
  <1>6. r \in DatabaseType
    BY <1>3, <1>4, <1>5 DEF DatabaseType
  <1>7. /\ Len(r.drafts) = Len(s.drafts) + 1
        /\ \A d \in 1..Len(s.drafts) : r.drafts[d] = s.drafts[d]
        /\ r.drafts[Len(s.drafts) + 1] = row
    BY <1>1, <1>2, <1>3
  <1>8. Inserted(r, s, tab, parent, branchedFrom)
    BY <1>3, <1>6, <1>7 DEF row, Inserted
  <1> QED
    BY <1>8 DEF r

-----------------------------------------------------------------------------
(* The tree, for a database s: what TreeHangs says of live drafts, with    *)
(* what it rests on for the dead ones.                                     *)

\* A link goes to an older draft of the same tab, and there is at most one.
LinksOK(s) ==
  \A d \in Drafts(s) :
    /\ s.drafts[d].tab \in Tabs(s)
    /\ None \in {s.drafts[d].parent, s.drafts[d].branchedFrom}
    /\ ~IsRoot(s, d) => /\ Anchor(s, d) \in Drafts(s) /\ Anchor(s, d) < d
                        /\ s.drafts[Anchor(s, d)].tab = s.drafts[d].tab

\* Each tab has one root, and no root is ever dead.
RootsOK(s) ==
  /\ \A d \in Drafts(s) : IsRoot(s, d) => d \in Live(s)
  /\ \A t \in Tabs(s) :
       \E d \in Drafts(s) :
         \A x \in Drafts(s) : (s.drafts[x].tab = t /\ IsRoot(s, x)) <=> x = d

\* What is live hangs off something live.
HangsOK(s) == \A d \in Live(s) : ~IsRoot(s, d) => Anchor(s, d) \in Live(s)

Sound(s) ==
  /\ s \in DatabaseType /\ LiveTabs(s) # {}
  /\ LinksOK(s) /\ RootsOK(s) /\ HangsOK(s)

\* Soundness of the database is the invariant TreeHangs, and more.
LEMMA SoundHangs == Sound(db) => TreeHangs
  <1> SUFFICES ASSUME Sound(db) PROVE TreeHangs
    OBVIOUS
  <1>1. \A t \in Tabs(db) :
          \E d \in LiveIn(db, t) : \A x \in LiveIn(db, t) : IsRoot(db, x) <=> x = d
    <2> TAKE t \in Tabs(db)
    <2>1. PICK d \in Drafts(db) :
            \A x \in Drafts(db) : (db.drafts[x].tab = t /\ IsRoot(db, x)) <=> x = d
      BY DEF Sound, RootsOK
    <2>2. d \in LiveIn(db, t)
      BY <2>1 DEF Sound, RootsOK, LiveIn
    <2> WITNESS d \in LiveIn(db, t)
    <2> QED
      BY <2>1 DEF LiveIn, Live
  <1>2. ASSUME NEW d \in Live(db)
        PROVE  LET a == Anchor(db, d)
               IN  /\ None \in {db.drafts[d].parent, db.drafts[d].branchedFrom}
                   /\ a # None => a \in LiveIn(db, db.drafts[d].tab) /\ a < d
    BY <1>2 DEF Sound, LinksOK, HangsOK, LiveIn, Live, IsRoot
  <1> QED
    BY <1>1, <1>2 DEF TreeHangs, Sound

\* r comes from s by a command that makes at most the drafts of dead dead: the
\* rows of s keep their places, and a link that changes goes to a live draft.
Follows(r, s, dead) ==
  /\ Sound(r)
  /\ Len(s.tabs) <= Len(r.tabs) /\ Len(s.drafts) <= Len(r.drafts)
  /\ Live(s) \ dead \subseteq Live(r)
  /\ \A d \in Drafts(s) :
       /\ r.drafts[d].tab = s.drafts[d].tab
       /\ IsRoot(r, d) <=> IsRoot(s, d)
       /\ Anchor(r, d) = Anchor(s, d) \/ Anchor(r, d) \in Live(r)

\* A tree that is the same up to locks is sound if the other is.
LEMMA SameTreeSound ==
  ASSUME NEW s, Sound(s), NEW r \in DatabaseType, SameTree(r, s)
  PROVE  /\ Sound(r) /\ Live(r) = Live(s) /\ Drafts(r) = Drafts(s)
         /\ Tabs(r) = Tabs(s)
         /\ \A d \in Drafts(s) : /\ Anchor(r, d) = Anchor(s, d)
                                 /\ IsRoot(r, d) <=> IsRoot(s, d)
                                 /\ r.drafts[d].tab = s.drafts[d].tab
  <1>1. s \in DatabaseType
    BY DEF Sound
  <1>2. /\ Drafts(r) = Drafts(s) /\ Tabs(r) = Tabs(s) /\ LiveTabs(r) = LiveTabs(s)
        /\ Drafts(s) = 1..Len(s.drafts)
    BY <1>1, DatabaseFacts DEF SameTree, LiveTabs, Tabs, Drafts
  <1>3. \A d \in Drafts(s) : /\ r.drafts[d].tab = s.drafts[d].tab
                             /\ r.drafts[d].parent = s.drafts[d].parent
                             /\ r.drafts[d].branchedFrom = s.drafts[d].branchedFrom
                             /\ r.drafts[d].live = s.drafts[d].live
    BY <1>2 DEF SameTree
  <1>4. Live(r) = Live(s)
    BY <1>2, <1>3 DEF Live
  <1>5. \A d \in Drafts(s) : Anchor(r, d) = Anchor(s, d)
    BY <1>3 DEF Anchor
  <1>6. \A d \in Drafts(s) : IsRoot(r, d) <=> IsRoot(s, d)
    BY <1>5 DEF IsRoot
  <1>7. LinksOK(r)
    BY <1>2, <1>3, <1>5, <1>6 DEF Sound, LinksOK
  <1>8. RootsOK(r)
    BY <1>2, <1>3, <1>4, <1>6 DEF Sound, RootsOK
  <1>9. HangsOK(r)
    <2> SUFFICES ASSUME NEW d \in Live(s), ~IsRoot(s, d)
                 PROVE  Anchor(s, d) \in Live(s)
      BY <1>4, <1>5, <1>6 DEF HangsOK, Live
    <2> QED
      BY DEF Sound, HangsOK
  <1> QED
    BY <1>2, <1>3, <1>4, <1>5, <1>6, <1>7, <1>8, <1>9 DEF Sound

\* Relocking preserves what Follows says.
LEMMA RelockFollows ==
  ASSUME NEW s, NEW m, NEW dead, NEW seeds, s \in DatabaseType, Follows(m, s, dead)
  PROVE  /\ Follows(Relock(m, seeds), s, dead)
         /\ Len(Relock(m, seeds).drafts) = Len(m.drafts)
         /\ Len(Relock(m, seeds).tabs) = Len(m.tabs)
         /\ Live(Relock(m, seeds)) = Live(m)
  <1> DEFINE r == Relock(m, seeds)
  <1>1. Sound(m) /\ m \in DatabaseType
    BY DEF Follows, Sound
  <1>2. r \in DatabaseType /\ SameTree(r, m)
    BY <1>1, RelockKeepsTree
  <1> HIDE DEF r
  <1>3. /\ Sound(r) /\ Live(r) = Live(m) /\ Drafts(r) = Drafts(m)
        /\ \A d \in Drafts(m) : /\ Anchor(r, d) = Anchor(m, d)
                                /\ IsRoot(r, d) <=> IsRoot(m, d)
                                /\ r.drafts[d].tab = m.drafts[d].tab
    BY <1>1, <1>2, SameTreeSound
  <1>4. Drafts(s) \subseteq Drafts(m)
    BY <1>1, DatabaseFacts DEF Follows
  <1>5. Len(r.drafts) = Len(m.drafts) /\ Len(r.tabs) = Len(m.tabs)
    BY <1>2 DEF SameTree
  <1>6. Follows(r, s, dead)
    BY <1>3, <1>4, <1>5 DEF Follows
  <1> QED
    BY <1>3, <1>5, <1>6 DEF r

LEMMA RelockParentFollows ==
  ASSUME NEW s, NEW m, NEW dead, NEW d, s \in DatabaseType, Follows(m, s, dead)
  PROVE  /\ Follows(RelockParent(m, d), s, dead)
         /\ Len(RelockParent(m, d).drafts) = Len(m.drafts)
         /\ Len(RelockParent(m, d).tabs) = Len(m.tabs)
         /\ Live(RelockParent(m, d)) = Live(m)
  BY RelockFollows DEF RelockParent

-----------------------------------------------------------------------------
(* The commands keep the tree sound.                                       *)

\* Rows that keep tab, links and liveness keep them in every derived notion.
LEMMA SoundFacts ==
  ASSUME NEW s, Sound(s)
  PROVE  /\ s \in DatabaseType
         /\ Drafts(s) = 1..Len(s.drafts) /\ Len(s.drafts) \in Nat
         /\ Tabs(s) = 1..Len(s.tabs) /\ Len(s.tabs) \in Nat
         /\ Live(s) \subseteq Drafts(s)
         /\ \A d \in Drafts(s) : s.drafts[d] \in DraftType
         /\ \A d \in Drafts(s) : Anchor(s, d) \in {None} \union Drafts(s)
         /\ LiveTabs(s) \subseteq Tabs(s)
  <1>1. s \in DatabaseType
    BY DEF Sound
  <1>2. /\ Drafts(s) = 1..Len(s.drafts) /\ Len(s.drafts) \in Nat
        /\ Tabs(s) = 1..Len(s.tabs) /\ Len(s.tabs) \in Nat
        /\ \A d \in Drafts(s) : s.drafts[d] \in DraftType
    BY <1>1, DatabaseFacts
  <1>3. \A d \in Drafts(s) : Anchor(s, d) \in {None} \union Drafts(s)
    BY DEF Sound, LinksOK, IsRoot
  <1> QED
    BY <1>1, <1>2, <1>3 DEF Live, LiveTabs

\* A draft put under a live draft.
LEMMA InsertFollows ==
  ASSUME NEW s, Sound(s), NEW d \in Live(s), Len(s.drafts) \in DraftIds,
         NEW parent, NEW branchedFrom,
         \/ parent = d /\ branchedFrom = None
         \/ parent = None /\ branchedFrom = d,
         NEW m, m = InsertDraft(s, s.drafts[d].tab, parent, branchedFrom)
  PROVE  /\ Follows(m, s, {})
         /\ Len(m.drafts) = Len(s.drafts) + 1 /\ Len(m.tabs) = Len(s.tabs)
  <1> DEFINE n == Len(s.drafts)
  <1>1. /\ s \in DatabaseType /\ Drafts(s) = 1..n /\ n \in Nat /\ d \in 1..n
        /\ s.drafts[d].tab \in TabIds /\ d \in Nat \ {0}
        /\ \A x \in 1..n : s.drafts[x] \in DraftType
    BY SoundFacts DEF DraftType
  <1>2. /\ parent \in {None} \union DraftIds
        /\ branchedFrom \in {None} \union DraftIds
    BY <1>1, BoundsAssumption DEF DraftIds, None
  <1>3. /\ m \in DatabaseType /\ m.tabs = s.tabs /\ Len(m.drafts) = n + 1
        /\ \A x \in 1..n : m.drafts[x] = s.drafts[x]
        /\ m.drafts[n + 1].tab = s.drafts[d].tab /\ m.drafts[n + 1].live
        /\ m.drafts[n + 1].parent = parent
        /\ m.drafts[n + 1].branchedFrom = branchedFrom
    <2>1. Inserted(m, s, s.drafts[d].tab, parent, branchedFrom)
      BY <1>1, <1>2, InsertDraftFacts
    <2> QED
      BY <2>1 DEF Inserted
  <1>4. Drafts(m) = 1..(n + 1) /\ Tabs(m) = Tabs(s) /\ LiveTabs(m) = LiveTabs(s)
    BY <1>3, DatabaseFacts DEF Tabs, LiveTabs
  <1>5. /\ \A x \in 1..n : Anchor(m, x) = Anchor(s, x) /\ (IsRoot(m, x) <=> IsRoot(s, x))
        /\ Anchor(m, n + 1) = d /\ ~IsRoot(m, n + 1)
    BY <1>1, <1>3 DEF Anchor, IsRoot, None
  <1>6. Live(m) = Live(s) \union {n + 1}
    BY <1>1, <1>3, <1>4 DEF Live
  <1>7. LinksOK(m)
    <2> SUFFICES ASSUME NEW x \in 1..(n + 1)
                 PROVE  /\ m.drafts[x].tab \in Tabs(m)
                        /\ None \in {m.drafts[x].parent, m.drafts[x].branchedFrom}
                        /\ ~IsRoot(m, x) => /\ Anchor(m, x) \in Drafts(m)
                                            /\ Anchor(m, x) < x
                                            /\ m.drafts[Anchor(m, x)].tab = m.drafts[x].tab
      BY <1>4 DEF LinksOK
    <2>1. CASE x = n + 1
      BY <2>1, <1>1, <1>3, <1>4, <1>5 DEF Sound, LinksOK
    <2>2. CASE x \in 1..n
      <3>1. /\ s.drafts[x].tab \in Tabs(s)
            /\ None \in {s.drafts[x].parent, s.drafts[x].branchedFrom}
            /\ ~IsRoot(s, x) => /\ Anchor(s, x) \in 1..n /\ Anchor(s, x) < x
                                /\ s.drafts[Anchor(s, x)].tab = s.drafts[x].tab
        BY <2>2, <1>1 DEF Sound, LinksOK
      <3> QED
        BY <3>1, <2>2, <1>1, <1>3, <1>4, <1>5
    <2> QED
      BY <2>1, <2>2, <1>1
  <1>8. RootsOK(m)
    <2>1. ASSUME NEW x \in Drafts(m), IsRoot(m, x) PROVE x \in Live(m)
      BY <2>1, <1>1, <1>4, <1>5, <1>6 DEF Sound, RootsOK
    <2>2. ASSUME NEW t \in Tabs(m)
          PROVE  \E y \in Drafts(m) : \A x \in Drafts(m) :
                    (m.drafts[x].tab = t /\ IsRoot(m, x)) <=> x = y
      <3>1. PICK y \in Drafts(s) : \A x \in Drafts(s) :
               (s.drafts[x].tab = t /\ IsRoot(s, x)) <=> x = y
        BY <2>2, <1>4 DEF Sound, RootsOK
      <3>2. y \in Drafts(m) /\ y # n + 1
        BY <3>1, <1>1, <1>4
      <3>3. ASSUME NEW x \in Drafts(m)
            PROVE  (m.drafts[x].tab = t /\ IsRoot(m, x)) <=> x = y
        <4>1. CASE x = n + 1
          BY <4>1, <3>2, <1>5
        <4>2. CASE x \in 1..n
          BY <4>2, <3>1, <1>1, <1>3, <1>5
        <4> QED
          BY <4>1, <4>2, <1>1, <1>4
      <3> QED
        BY <3>2, <3>3
    <2> QED
      BY <2>1, <2>2 DEF RootsOK
  <1>9. HangsOK(m)
    BY <1>1, <1>4, <1>5, <1>6 DEF Sound, HangsOK, Live
  <1>10. Sound(m)
    BY <1>3, <1>4, <1>7, <1>8, <1>9 DEF Sound
  <1> QED
    <2>1. Follows(m, s, {})
      BY <1>1, <1>3, <1>5, <1>6, <1>10, <1>4 DEF Follows
    <2> QED
      BY <2>1, <1>3

\* A new tab comes with its root.
LEMMA CreateTabFollows ==
  ASSUME NEW s, Sound(s), Len(s.tabs) + 1 \in TabIds
  PROVE  /\ Follows(CreateTab(s), s, {})
         /\ Len(CreateTab(s).drafts) = Len(s.drafts) + 1
         /\ Len(CreateTab(s).tabs) = Len(s.tabs) + 1
  <1> DEFINE n == Len(s.drafts)
             k == Len(s.tabs)
             q == [s EXCEPT !.tabs = Append(s.tabs, TRUE),
                            !.told.tabs = Append(s.told.tabs, TRUE)]
             m == CreateTab(s)
  <1>1. /\ s \in DatabaseType /\ Drafts(s) = 1..n /\ n \in Nat
        /\ Tabs(s) = 1..k /\ k \in Nat
        /\ \A x \in 1..n : s.drafts[x] \in DraftType
    BY SoundFacts
  <1>2. /\ Append(s.tabs, TRUE) \in Seq(BOOLEAN)
        /\ Append(s.told.tabs, TRUE) \in Seq(BOOLEAN)
        /\ Len(Append(s.tabs, TRUE)) = k + 1
        /\ \A t \in 1..k : Append(s.tabs, TRUE)[t] = s.tabs[t]
        /\ Append(s.tabs, TRUE)[k + 1] = TRUE
    <2>1. s.tabs \in Seq(BOOLEAN) /\ s.told.tabs \in Seq(BOOLEAN)
      BY <1>1, DatabaseFacts
    <2>2. TRUE \in BOOLEAN
      OBVIOUS
    <2> QED
      BY <2>1, <2>2, AppendProperties
  <1>3. q \in DatabaseType /\ q.tabs = Append(s.tabs, TRUE) /\ q.drafts = s.drafts
    BY <1>1, <1>2 DEF DatabaseType
  <1>4. m = InsertDraft(q, k + 1, None, None)
    BY <1>1 DEF CreateTab, DatabaseType
  <1> HIDE DEF q, m
  <1>5. /\ m \in DatabaseType /\ m.tabs = q.tabs /\ Len(m.drafts) = n + 1
        /\ \A x \in 1..n : m.drafts[x] = s.drafts[x]
        /\ m.drafts[n + 1].tab = k + 1 /\ m.drafts[n + 1].live
        /\ m.drafts[n + 1].parent = None /\ m.drafts[n + 1].branchedFrom = None
    <2>1. Inserted(m, q, k + 1, None, None)
      BY <1>1, <1>3, <1>4, InsertDraftFacts
    <2> QED
      BY <2>1, <1>3 DEF Inserted
  <1>6. /\ Drafts(m) = 1..(n + 1) /\ Tabs(m) = 1..(k + 1) /\ Len(m.tabs) = k + 1
        /\ \A t \in 1..k : m.tabs[t] = s.tabs[t]
        /\ m.tabs[k + 1] = TRUE
    BY <1>2, <1>3, <1>5, DatabaseFacts
  <1>7. LiveTabs(m) # {}
    <2>1. k + 1 \in LiveTabs(m)
      BY <1>1, <1>6 DEF LiveTabs
    <2> QED
      BY <2>1
  <1>8. /\ \A x \in 1..n : Anchor(m, x) = Anchor(s, x) /\ (IsRoot(m, x) <=> IsRoot(s, x))
        /\ IsRoot(m, n + 1)
    BY <1>1, <1>5 DEF Anchor, IsRoot, None
  <1>9. Live(m) = Live(s) \union {n + 1}
    BY <1>1, <1>5, <1>6 DEF Live
  <1>10. \A x \in 1..n : /\ s.drafts[x].tab \in 1..k
                         /\ None \in {s.drafts[x].parent, s.drafts[x].branchedFrom}
                         /\ ~IsRoot(s, x) => /\ Anchor(s, x) \in 1..n /\ Anchor(s, x) < x
                                             /\ s.drafts[Anchor(s, x)].tab = s.drafts[x].tab
    BY <1>1 DEF Sound, LinksOK
  <1>11. LinksOK(m)
    <2> SUFFICES ASSUME NEW x \in 1..(n + 1)
                 PROVE  /\ m.drafts[x].tab \in Tabs(m)
                        /\ None \in {m.drafts[x].parent, m.drafts[x].branchedFrom}
                        /\ ~IsRoot(m, x) => /\ Anchor(m, x) \in Drafts(m)
                                            /\ Anchor(m, x) < x
                                            /\ m.drafts[Anchor(m, x)].tab = m.drafts[x].tab
      BY <1>6 DEF LinksOK
    <2>1. CASE x = n + 1
      BY <2>1, <1>1, <1>5, <1>6, <1>8
    <2>2. CASE x \in 1..n
      <3>1. /\ s.drafts[x].tab \in 1..k
            /\ None \in {s.drafts[x].parent, s.drafts[x].branchedFrom}
            /\ ~IsRoot(s, x) => /\ Anchor(s, x) \in 1..n /\ Anchor(s, x) < x
                                /\ s.drafts[Anchor(s, x)].tab = s.drafts[x].tab
        BY <2>2, <1>10
      <3> QED
        BY <3>1, <2>2, <1>1, <1>5, <1>6, <1>8
    <2> QED
      BY <2>1, <2>2, <1>1
  <1>12. RootsOK(m)
    <2>1. ASSUME NEW x \in Drafts(m), IsRoot(m, x) PROVE x \in Live(m)
      BY <2>1, <1>1, <1>6, <1>8, <1>9 DEF Sound, RootsOK
    <2>2. ASSUME NEW t \in 1..k
          PROVE  \E y \in Drafts(m) : \A x \in Drafts(m) :
                    (m.drafts[x].tab = t /\ IsRoot(m, x)) <=> x = y
      <3>1. PICK y \in Drafts(s) : \A x \in Drafts(s) :
               (s.drafts[x].tab = t /\ IsRoot(s, x)) <=> x = y
        BY <1>1 DEF Sound, RootsOK
      <3>2. y \in Drafts(m) /\ y # n + 1 /\ t # k + 1
        BY <3>1, <1>1, <1>6
      <3>3. ASSUME NEW x \in Drafts(m)
            PROVE  (m.drafts[x].tab = t /\ IsRoot(m, x)) <=> x = y
        <4>1. CASE x = n + 1
          BY <4>1, <3>2, <1>5
        <4>2. CASE x \in 1..n
          BY <4>2, <3>1, <1>1, <1>5, <1>8
        <4> QED
          BY <4>1, <4>2, <1>1, <1>6
      <3> QED
        BY <3>2, <3>3
    <2>3. \A x \in Drafts(m) : (m.drafts[x].tab = k + 1 /\ IsRoot(m, x)) <=> x = n + 1
      BY <1>1, <1>5, <1>6, <1>8, <1>10
    <2>4. n + 1 \in Drafts(m)
      BY <1>1, <1>6
    <2> QED
      <3>1. ASSUME NEW t \in Tabs(m)
            PROVE  \E y \in Drafts(m) : \A x \in Drafts(m) :
                      (m.drafts[x].tab = t /\ IsRoot(m, x)) <=> x = y
        <4>1. CASE t \in 1..k
          BY <4>1, <2>2
        <4>2. CASE t = k + 1
          BY <4>2, <2>3, <2>4
        <4> QED
          BY <4>1, <4>2, <1>1, <1>6
      <3> QED
        BY <2>1, <3>1 DEF RootsOK
  <1>13. HangsOK(m)
    BY <1>1, <1>6, <1>8, <1>9 DEF Sound, HangsOK, Live
  <1>14. Sound(m)
    BY <1>5, <1>7, <1>11, <1>12, <1>13 DEF Sound
  <1>15. Follows(m, s, {})
    BY <1>1, <1>5, <1>6, <1>8, <1>9, <1>14 DEF Follows
  <1> QED
    BY <1>5, <1>6, <1>15 DEF m

LEMMA IterateFollows ==
  ASSUME NEW s, Sound(s), NEW d \in Live(s), Len(s.drafts) \in DraftIds
  PROVE  /\ Follows(IterateDraft(s, d), s, {})
         /\ Len(IterateDraft(s, d).drafts) = Len(s.drafts) + 1
         /\ Len(IterateDraft(s, d).tabs) = Len(s.tabs)
  <1> DEFINE m == InsertDraft(s, s.drafts[d].tab, d, None)
  <1>1. /\ Follows(m, s, {})
        /\ Len(m.drafts) = Len(s.drafts) + 1 /\ Len(m.tabs) = Len(s.tabs)
    BY InsertFollows
  <1> HIDE DEF m
  <1>2. s \in DatabaseType
    BY DEF Sound
  <1>3. IterateDraft(s, d) = Relock(m, {Len(s.drafts) + 1})
    BY DEF IterateDraft, m
  <1> DEFINE r == Relock(m, {Len(s.drafts) + 1})
  <1>4. /\ Follows(r, s, {})
        /\ Len(r.drafts) = Len(m.drafts) /\ Len(r.tabs) = Len(m.tabs)
    BY <1>1, <1>2, RelockFollows
  <1> HIDE DEF r
  <1>5. IterateDraft(s, d) = r
    BY <1>3 DEF r
  <1> QED
    BY <1>1, <1>4, <1>5

LEMMA BranchFollows ==
  ASSUME NEW s, Sound(s), NEW d \in Live(s), Len(s.drafts) \in DraftIds
  PROVE  /\ Follows(BranchDraft(s, d), s, {})
         /\ Len(BranchDraft(s, d).drafts) = Len(s.drafts) + 1
         /\ Len(BranchDraft(s, d).tabs) = Len(s.tabs)
  <1> DEFINE m == BranchDraft(s, d)
  <1>1. m = InsertDraft(s, s.drafts[d].tab, None, d)
    BY DEF BranchDraft
  <1> HIDE DEF m
  <1>2. /\ Follows(m, s, {})
        /\ Len(m.drafts) = Len(s.drafts) + 1 /\ Len(m.tabs) = Len(s.tabs)
    BY <1>1, InsertFollows
  <1> QED
    BY <1>2 DEF m

\* A command that adds no row: what is left to show is that links and liveness
\* go together.
LEMMA SameRowsFollow ==
  ASSUME NEW s, Sound(s), NEW r \in DatabaseType, NEW dead,
         LiveTabs(r) # {}, LinksOK(r), HangsOK(r),
         Len(r.tabs) = Len(s.tabs), Len(r.drafts) = Len(s.drafts),
         Live(s) \ dead \subseteq Live(r),
         \A d \in Drafts(s) : d \in dead => ~IsRoot(s, d),
         \A d \in Drafts(s) :
            /\ r.drafts[d].tab = s.drafts[d].tab
            /\ IsRoot(r, d) <=> IsRoot(s, d)
            /\ Anchor(r, d) = Anchor(s, d) \/ Anchor(r, d) \in Live(r)
  PROVE  Follows(r, s, dead)
  <1>1. /\ Drafts(r) = Drafts(s) /\ Tabs(r) = Tabs(s)
        /\ Len(s.drafts) \in Nat /\ Len(s.tabs) \in Nat
    BY SoundFacts, DatabaseFacts
  <1>2. RootsOK(r)
    <2>1. ASSUME NEW d \in Drafts(r), IsRoot(r, d) PROVE d \in Live(r)
      BY <1>1, <2>1 DEF Sound, RootsOK
    <2>2. ASSUME NEW t \in Tabs(r)
          PROVE  \E y \in Drafts(r) : \A x \in Drafts(r) :
                    (r.drafts[x].tab = t /\ IsRoot(r, x)) <=> x = y
      <3>1. PICK y \in Drafts(s) : \A x \in Drafts(s) :
              (s.drafts[x].tab = t /\ IsRoot(s, x)) <=> x = y
        BY <1>1, <2>2 DEF Sound, RootsOK
      <3> QED
        BY <1>1, <3>1
    <2> QED
      BY <2>1, <2>2 DEF RootsOK
  <1>3. Sound(r)
    BY <1>2 DEF Sound
  <1> QED
    BY <1>1, <1>3 DEF Follows

\* A tab changes hands with the bin; one live tab stays.
LEMMA SetTabFollows ==
  ASSUME NEW s, Sound(s), NEW t, NEW live \in BOOLEAN,
         \/ live = TRUE
         \/ LiveTabs(s) \ {t} # {}
  PROVE  /\ Follows(SetTab(s, t, live), s, {})
         /\ Len(SetTab(s, t, live).tabs) = Len(s.tabs)
         /\ Len(SetTab(s, t, live).drafts) = Len(s.drafts)
  <1> DEFINE r == SetTab(s, t, live)
  <1>1. TabMarked(r, s, t, live)
    BY SetTabFacts DEF Sound
  <1> HIDE DEF r
  <1>2. /\ r \in DatabaseType /\ r.drafts = s.drafts
        /\ Len(r.tabs) = Len(s.tabs) /\ Len(r.drafts) = Len(s.drafts)
        /\ Tabs(r) = Tabs(s) /\ Tabs(s) = 1..Len(s.tabs)
        /\ \A x \in Tabs(s) : r.tabs[x] = IF x = t THEN live ELSE s.tabs[x]
    BY <1>1, SoundFacts, DatabaseFacts DEF TabMarked
  <1>3. /\ Drafts(r) = Drafts(s) /\ Live(r) = Live(s)
        /\ \A d \in Drafts(s) : /\ Anchor(r, d) = Anchor(s, d)
                                /\ IsRoot(r, d) <=> IsRoot(s, d)
    BY <1>2 DEF Drafts, Live, Anchor, IsRoot
  <1>4. LiveTabs(r) # {}
    <2>1. PICK x \in Tabs(s) : s.tabs[x] /\ (live = TRUE \/ x # t)
      BY DEF Sound, LiveTabs
    <2>2. r.tabs[x]
      BY <1>2, <2>1
    <2>3. x \in LiveTabs(r)
      BY <1>2, <2>1, <2>2 DEF LiveTabs
    <2> QED
      BY <2>3
  <1>5. LinksOK(r)
    BY <1>2, <1>3 DEF Sound, LinksOK
  <1>6. HangsOK(r)
    BY <1>3 DEF Sound, HangsOK, Live
  <1>7. Follows(r, s, {})
    BY <1>2, <1>3, <1>4, <1>5, <1>6, SameRowsFollow
  <1> QED
    BY <1>2, <1>7 DEF r

LEMMA DeleteTabFollows ==
  ASSUME NEW s, Sound(s), NEW t \in LiveTabs(s), CanDeleteTab(s)
  PROVE  /\ Follows(DeleteTab(s, t), s, {})
         /\ Len(DeleteTab(s, t).tabs) = Len(s.tabs)
         /\ Len(DeleteTab(s, t).drafts) = Len(s.drafts)
  <1>1. LiveTabs(s) \ {t} # {}
    <2>1. ASSUME LiveTabs(s) = {t} PROVE FALSE
      <3>1. Cardinality({t}) = 1
        BY FS_Singleton
      <3> QED
        BY <2>1, <3>1 DEF CanDeleteTab
    <2> QED
      BY <2>1
  <1> QED
    BY <1>1, SetTabFollows DEF DeleteTab

LEMMA RestoreTabFollows ==
  ASSUME NEW s, Sound(s), NEW t
  PROVE  /\ Follows(RestoreTab(s, t), s, {})
         /\ Len(RestoreTab(s, t).tabs) = Len(s.tabs)
         /\ Len(RestoreTab(s, t).drafts) = Len(s.drafts)
  BY SetTabFollows DEF RestoreTab

\* The user's own lock.
LEMMA SetDraftLockedFacts ==
  ASSUME NEW s \in DatabaseType, NEW d, NEW locked \in BOOLEAN
  PROVE  /\ SetDraftLocked(s, d, locked) \in DatabaseType
         /\ SameTree(SetDraftLocked(s, d, locked), s)
  <1> DEFINE n == Len(s.drafts)
             row(x) == IF x = d THEN [s.drafts[x] EXCEPT !.locked = locked]
                                ELSE s.drafts[x]
             f == [x \in 1..n |-> row(x)]
             r == SetDraftLocked(s, d, locked)
  <1>1. /\ n \in Nat /\ DOMAIN s.drafts = 1..n
        /\ s.drafts \in [1..n -> DraftType]
        /\ \A x \in 1..n : s.drafts[x] \in DraftType
    BY DatabaseFacts DEF Drafts
  <1>2. \A x \in 1..n : /\ row(x) \in DraftType
                        /\ row(x).tab = s.drafts[x].tab
                        /\ row(x).parent = s.drafts[x].parent
                        /\ row(x).branchedFrom = s.drafts[x].branchedFrom
                        /\ row(x).live = s.drafts[x].live
    BY <1>1 DEF DraftType
  <1>3. r = [s EXCEPT !.drafts = f]
    <2>1. [s.drafts EXCEPT ![d].locked = locked] = f
      BY <1>1
    <2>2. r = [s EXCEPT !.drafts = [s.drafts EXCEPT ![d].locked = locked]]
      BY DEF SetDraftLocked
    <2> QED
      BY <2>1, <2>2
  <1> HIDE DEF row
  <1>4. f \in Seq(DraftType) /\ Len(f) = n
    <2>1. f \in [1..n -> DraftType]
      BY <1>2
    <2> QED
      BY <2>1, <1>1, FunctionIsSeq
  <1>5. \A x \in 1..n : f[x] = row(x)
    OBVIOUS
  <1> HIDE DEF f, r
  <1>6. r.drafts = f /\ r.tabs = s.tabs /\ r \in DatabaseType
    BY <1>3, <1>4 DEF DatabaseType
  <1>7. SameTree(r, s)
    BY <1>2, <1>4, <1>5, <1>6 DEF SameTree
  <1> QED
    BY <1>6, <1>7 DEF r

LEMMA SetDraftLockedFollows ==
  ASSUME NEW s, Sound(s), NEW d, NEW locked \in BOOLEAN
  PROVE  /\ Follows(SetDraftLocked(s, d, locked), s, {})
         /\ Len(SetDraftLocked(s, d, locked).tabs) = Len(s.tabs)
         /\ Len(SetDraftLocked(s, d, locked).drafts) = Len(s.drafts)
  <1> DEFINE r == SetDraftLocked(s, d, locked)
  <1>1. r \in DatabaseType /\ SameTree(r, s)
    BY SetDraftLockedFacts DEF Sound
  <1> HIDE DEF r
  <1>2. /\ Sound(r) /\ Live(r) = Live(s)
        /\ \A x \in Drafts(s) : /\ Anchor(r, x) = Anchor(s, x)
                                /\ IsRoot(r, x) <=> IsRoot(s, x)
                                /\ r.drafts[x].tab = s.drafts[x].tab
    BY <1>1, SameTreeSound
  <1>3. /\ Len(r.tabs) = Len(s.tabs) /\ Len(r.drafts) = Len(s.drafts)
        /\ Len(s.tabs) \in Nat /\ Len(s.drafts) \in Nat
    BY <1>1, SoundFacts DEF SameTree
  <1>4. Follows(r, s, {})
    BY <1>2, <1>3 DEF Follows
  <1> QED
    BY <1>3, <1>4 DEF r

\* Drafts that are marked dead together with everything under them.
LEMMA BuryFollows ==
  ASSUME NEW s, Sound(s), NEW dead \in SUBSET Drafts(s),
         \A x \in dead : ~IsRoot(s, x) /\ Children(s, x) \subseteq dead
  PROVE  /\ Follows(SetLive(s, dead, FALSE), s, dead)
         /\ Len(SetLive(s, dead, FALSE).tabs) = Len(s.tabs)
         /\ Len(SetLive(s, dead, FALSE).drafts) = Len(s.drafts)
  <1> DEFINE r == SetLive(s, dead, FALSE)
  <1>1. s \in DatabaseType /\ Marked(r, s, dead, FALSE)
    BY SetLiveFacts DEF Sound
  <1> HIDE DEF r
  <1>2. /\ r \in DatabaseType /\ r.tabs = s.tabs /\ Len(r.drafts) = Len(s.drafts)
        /\ \A d \in Drafts(s) : /\ r.drafts[d].tab = s.drafts[d].tab
                                /\ r.drafts[d].parent = s.drafts[d].parent
                                /\ r.drafts[d].branchedFrom = s.drafts[d].branchedFrom
    BY <1>1, DatabaseFacts DEF Marked
  <1>3. /\ Drafts(r) = Drafts(s) /\ Tabs(r) = Tabs(s) /\ LiveTabs(r) = LiveTabs(s)
        /\ \A d \in Drafts(s) : /\ Anchor(r, d) = Anchor(s, d)
                                /\ IsRoot(r, d) <=> IsRoot(s, d)
    BY <1>1, MarkedFacts
  <1>4. Live(r) = Live(s) \ dead
    BY <1>1, MarkedDead
  <1>5. LinksOK(r)
    BY <1>2, <1>3 DEF Sound, LinksOK
  <1>6. HangsOK(r)
    <2> SUFFICES ASSUME NEW d \in Live(s), d \notin dead, ~IsRoot(s, d)
                 PROVE  Anchor(s, d) \in Live(s) /\ Anchor(s, d) \notin dead
      BY <1>3, <1>4 DEF HangsOK, Live
    <2>1. Anchor(s, d) \in Live(s)
      BY DEF Sound, HangsOK
    <2>2. d \in Children(s, Anchor(s, d))
      BY DEF Children, Anchor
    <2> QED
      BY <2>1, <2>2
  <1>7. Follows(r, s, dead)
    BY <1>2, <1>3, <1>4, <1>5, <1>6, SameRowsFollow DEF Sound
  <1> QED
    BY <1>2, <1>7 DEF r

\* A subtree is closed under children, and all of it hangs off something.
LEMMA SubtreeFacts ==
  ASSUME NEW s, Sound(s), NEW d \in Live(s), ~IsRoot(s, d)
  PROVE  /\ Subtree(s, d) \subseteq Live(s)
         /\ \A x \in Subtree(s, d) :
              ~IsRoot(s, x) /\ Children(s, x) \subseteq Subtree(s, d)
  <1>1. /\ Live(s) \subseteq Drafts(s) /\ None \notin Drafts(s)
    BY SoundFacts DEF None
  <1> DEFINE hung == {x \in Live(s) : ~IsRoot(s, x)}
  <1>2. hung \in SUBSET Drafts(s) /\ d \in hung
    BY <1>1
  <1>3. \A y \in hung : Children(s, y) \subseteq hung
    <2> SUFFICES ASSUME NEW y \in hung, NEW c \in Children(s, y) PROVE c \in hung
      OBVIOUS
    <2>1. y # None /\ c \in Live(s) /\ y \in {s.drafts[c].parent, s.drafts[c].branchedFrom}
      BY <1>1 DEF Children
    <2>2. ~IsRoot(s, c)
      BY <2>1 DEF IsRoot, Anchor
    <2> QED
      BY <2>1, <2>2
  <1>4. Subtree(s, d) \subseteq hung
    BY <1>2, <1>3 DEF Subtree
  <1>5. ASSUME NEW x \in Subtree(s, d), NEW c \in Children(s, x)
        PROVE  c \in Subtree(s, d)
    <2>1. c \in Drafts(s)
      BY <1>1 DEF Children
    <2>2. ASSUME NEW C \in SUBSET Drafts(s), d \in C,
                 \A y \in C : Children(s, y) \subseteq C
          PROVE  c \in C
      <3>1. x \in C
        BY <2>2 DEF Subtree
      <3> QED
        BY <2>2, <3>1, <1>5
    <2> QED
      BY <2>1, <2>2 DEF Subtree
  <1> QED
    BY <1>4, <1>5

LEMMA DeleteDraftFollows ==
  ASSUME NEW s, Sound(s), NEW d \in Live(s), ~IsRoot(s, d), Children(s, d) = {}
  PROVE  /\ Follows(DeleteDraft(s, d), s, {d})
         /\ Len(DeleteDraft(s, d).tabs) = Len(s.tabs)
         /\ Len(DeleteDraft(s, d).drafts) = Len(s.drafts)
  <1> DEFINE m == SetLive(s, {d}, FALSE)
             r == RelockParent(m, d)
  <1>1. {d} \in SUBSET Drafts(s) /\ s \in DatabaseType
    BY SoundFacts
  <1>2. /\ Follows(m, s, {d})
        /\ Len(m.tabs) = Len(s.tabs) /\ Len(m.drafts) = Len(s.drafts)
    BY <1>1, BuryFollows
  <1> HIDE DEF m
  <1>3. /\ Follows(r, s, {d})
        /\ Len(r.tabs) = Len(m.tabs) /\ Len(r.drafts) = Len(m.drafts)
    BY <1>1, <1>2, RelockParentFollows
  <1> HIDE DEF r
  <1>4. DeleteDraft(s, d) = r
    BY DEF DeleteDraft, r, m
  <1> QED
    BY <1>2, <1>3, <1>4

LEMMA CascadeDeleteFollows ==
  ASSUME NEW s, Sound(s), NEW d \in Live(s), ~IsRoot(s, d)
  PROVE  /\ Follows(CascadeDelete(s, d), s, Subtree(s, d))
         /\ Len(CascadeDelete(s, d).tabs) = Len(s.tabs)
         /\ Len(CascadeDelete(s, d).drafts) = Len(s.drafts)
  <1> DEFINE dead == Subtree(s, d)
             m == SetLive(s, dead, FALSE)
             r == RelockParent(m, d)
  <1>1. /\ dead \in SUBSET Drafts(s) /\ s \in DatabaseType
        /\ \A x \in dead : ~IsRoot(s, x) /\ Children(s, x) \subseteq dead
    BY SoundFacts, SubtreeFacts
  <1> HIDE DEF dead
  <1>2. /\ Follows(m, s, dead)
        /\ Len(m.tabs) = Len(s.tabs) /\ Len(m.drafts) = Len(s.drafts)
    BY <1>1, BuryFollows
  <1> HIDE DEF m
  <1>3. /\ Follows(r, s, dead)
        /\ Len(r.tabs) = Len(m.tabs) /\ Len(r.drafts) = Len(m.drafts)
    BY <1>1, <1>2, RelockParentFollows
  <1> HIDE DEF r
  <1>4. CascadeDelete(s, d) = r
    BY DEF CascadeDelete, r, m, dead
  <1> QED
    BY <1>2, <1>3, <1>4 DEF dead

SameLinks(x, y) == x.parent = y.parent /\ x.branchedFrom = y.branchedFrom

\* The links of Spliced.
SplicedLinks(s, d, c) ==
  IF s.drafts[c].branchedFrom = d
  THEN [parent |-> None, branchedFrom |-> Anchor(s, d)]
  ELSE [parent |-> s.drafts[d].parent,
        branchedFrom |-> IF s.drafts[d].parent = None THEN s.drafts[d].branchedFrom
                                                      ELSE None]

\* Splicing d out hands its children to what it hangs off.
SplicedAs(q, s, d) ==
  /\ q \in DatabaseType
  /\ q.tabs = s.tabs /\ Len(q.drafts) = Len(s.drafts)
  /\ \A c \in 1..Len(s.drafts) :
       /\ q.drafts[c].tab = s.drafts[c].tab
       /\ q.drafts[c].live = s.drafts[c].live
       /\ c \notin Children(s, d) => q.drafts[c] = s.drafts[c]
       /\ c \in Children(s, d) =>
            /\ Anchor(q, c) = Anchor(s, d)
            /\ SameLinks(q.drafts[c], SplicedLinks(s, d, c))
            /\ None \in {s.drafts[d].parent, s.drafts[d].branchedFrom} =>
                 None \in {q.drafts[c].parent, q.drafts[c].branchedFrom}

LEMMA SplicedFacts ==
  ASSUME NEW s \in DatabaseType, NEW d \in Drafts(s)
  PROVE  SplicedAs([s EXCEPT !.drafts =
                      [c \in Drafts(s) |-> IF c \in Children(s, d) THEN Spliced(s, d, c)
                                                                  ELSE s.drafts[c]]],
                   s, d)
  <1> DEFINE n == Len(s.drafts)
             kids == Children(s, d)
             row(c) == IF c \in kids THEN Spliced(s, d, c) ELSE s.drafts[c]
             f == [c \in 1..n |-> row(c)]
             q == [s EXCEPT !.drafts = f]
  <1>1. /\ n \in Nat /\ Drafts(s) = 1..n /\ d \in 1..n
        /\ \A c \in 1..n : s.drafts[c] \in DraftType
    BY DatabaseFacts
  <1>2. Anchor(s, d) \in {None} \union DraftIds
    BY <1>1 DEF Anchor, DraftType
  <1>3. ASSUME NEW c \in 1..n
        PROVE  /\ row(c) \in DraftType
               /\ row(c).tab = s.drafts[c].tab /\ row(c).live = s.drafts[c].live
    <2>1. s.drafts[c] \in DraftType /\ s.drafts[d] \in DraftType
      BY <1>1
    <2>2. /\ Spliced(s, d, c) \in DraftType
          /\ Spliced(s, d, c).tab = s.drafts[c].tab
          /\ Spliced(s, d, c).live = s.drafts[c].live
      <3>1. CASE s.drafts[c].branchedFrom = d
        BY <2>1, <3>1, <1>2 DEF Spliced, DraftType
      <3>2. CASE s.drafts[c].branchedFrom # d
        BY <2>1, <3>2 DEF Spliced, DraftType
      <3> QED
        BY <3>1, <3>2
    <2> QED
      BY <2>1, <2>2
  <1>4. ASSUME NEW c \in kids, c \in 1..n
        PROVE  /\ IF row(c).parent # None THEN row(c).parent = Anchor(s, d)
                                          ELSE row(c).branchedFrom = Anchor(s, d)
               /\ None \in {s.drafts[d].parent, s.drafts[d].branchedFrom} =>
                    None \in {row(c).parent, row(c).branchedFrom}
    <2>1. s.drafts[c] \in DraftType /\ s.drafts[d] \in DraftType /\ row(c) = Spliced(s, d, c)
      BY <1>1, <1>4
    <2>2. CASE s.drafts[c].branchedFrom = d
      BY <2>1, <2>2 DEF Spliced, DraftType
    <2>3. CASE s.drafts[c].branchedFrom # d
      BY <2>1, <2>3 DEF Spliced, DraftType, Anchor
    <2> QED
      BY <2>2, <2>3
  <1>5. /\ \A c \in 1..n : c \notin kids => row(c) = s.drafts[c]
        /\ \A c \in kids : c \in 1..n => SameLinks(row(c), SplicedLinks(s, d, c))
    <2> SUFFICES ASSUME NEW c \in kids, c \in 1..n
                 PROVE  SameLinks(Spliced(s, d, c), SplicedLinks(s, d, c))
      OBVIOUS
    <2>1. s.drafts[c] \in DraftType
      BY <1>1
    <2>2. CASE s.drafts[c].branchedFrom = d
      BY <2>1, <2>2 DEF Spliced, SplicedLinks, SameLinks, DraftType
    <2>3. CASE s.drafts[c].branchedFrom # d
      BY <2>1, <2>3 DEF Spliced, SplicedLinks, SameLinks, DraftType
    <2> QED
      BY <2>2, <2>3
  <1>6. q = [s EXCEPT !.drafts =
               [c \in Drafts(s) |-> IF c \in Children(s, d) THEN Spliced(s, d, c)
                                                           ELSE s.drafts[c]]]
    BY <1>1
  <1> HIDE DEF row
  <1>7. f \in Seq(DraftType) /\ Len(f) = n
    <2>1. f \in [1..n -> DraftType]
      BY <1>3
    <2> QED
      BY <2>1, <1>1, FunctionIsSeq
  <1>8. \A c \in 1..n : f[c] = row(c)
    OBVIOUS
  <1> HIDE DEF f
  <1>9. q.drafts = f /\ q.tabs = s.tabs /\ q \in DatabaseType
    BY <1>7 DEF DatabaseType
  <1> HIDE DEF q
  <1>10. \A c \in 1..n : q.drafts[c] = row(c)
    BY <1>8, <1>9
  <1>11. ASSUME NEW c \in 1..n, c \in kids
         PROVE  /\ Anchor(q, c) = Anchor(s, d)
                /\ SameLinks(q.drafts[c], SplicedLinks(s, d, c))
                /\ None \in {s.drafts[d].parent, s.drafts[d].branchedFrom} =>
                     None \in {q.drafts[c].parent, q.drafts[c].branchedFrom}
    <2>1. Anchor(q, c) = Anchor(s, d)
      BY <1>4, <1>10, <1>11 DEF Anchor
    <2> QED
      BY <1>4, <1>5, <1>10, <1>11, <2>1
  <1>12. SplicedAs(q, s, d)
    BY <1>3, <1>5, <1>7, <1>9, <1>10, <1>11 DEF SplicedAs
  <1> QED
    BY <1>6, <1>12

\* A draft is spliced out: its children hang off what it hung off, which lives.
LEMMA OrphanAndDeleteFollows ==
  ASSUME NEW s, Sound(s), NEW d \in Live(s), ~IsRoot(s, d)
  PROVE  /\ Follows(OrphanAndDelete(s, d), s, {d})
         /\ Len(OrphanAndDelete(s, d).tabs) = Len(s.tabs)
         /\ Len(OrphanAndDelete(s, d).drafts) = Len(s.drafts)
  <1> DEFINE kids == Children(s, d)
             q == [s EXCEPT !.drafts =
                     [c \in Drafts(s) |-> IF c \in Children(s, d) THEN Spliced(s, d, c)
                                                                 ELSE s.drafts[c]]]
             m == SetLive(q, {d}, FALSE)
             a == Anchor(s, d)
             seeds == kids \union ({s.drafts[d].parent} \ {None})
             r == Relock(m, seeds)
  <1>1. /\ s \in DatabaseType /\ Drafts(s) = 1..Len(s.drafts) /\ d \in Drafts(s)
        /\ Live(s) \subseteq Drafts(s)
    BY SoundFacts
  <1>2. SplicedAs(q, s, d)
    BY <1>1, SplicedFacts
  <1> HIDE DEF q
  <1>3. q \in DatabaseType /\ Marked(m, q, {d}, FALSE)
    BY <1>2, SetLiveFacts DEF SplicedAs
  <1> HIDE DEF m
  <1>4. /\ a \in Live(s) /\ a # None /\ a < d
        /\ s.drafts[a].tab = s.drafts[d].tab
        /\ None \in {s.drafts[d].parent, s.drafts[d].branchedFrom}
    BY <1>1 DEF Sound, LinksOK, HangsOK, IsRoot
  <1>5. \A c \in kids : /\ c \in Drafts(s) /\ d \in {s.drafts[c].parent, s.drafts[c].branchedFrom}
                        /\ ~IsRoot(s, c) /\ Anchor(s, c) = d
                        /\ d < c /\ s.drafts[c].tab = s.drafts[d].tab
    <2> SUFFICES ASSUME NEW c \in kids
                 PROVE  /\ c \in Drafts(s)
                        /\ d \in {s.drafts[c].parent, s.drafts[c].branchedFrom}
                        /\ ~IsRoot(s, c) /\ Anchor(s, c) = d
                        /\ d < c /\ s.drafts[c].tab = s.drafts[d].tab
      OBVIOUS
    <2>1. c \in Drafts(s) /\ d \in {s.drafts[c].parent, s.drafts[c].branchedFrom}
      BY <1>1 DEF Children
    <2>2. None \in {s.drafts[c].parent, s.drafts[c].branchedFrom} /\ d # None
      BY <1>1, <2>1 DEF Sound, LinksOK, None
    <2>3. Anchor(s, c) = d
      BY <2>1, <2>2 DEF Anchor
    <2>4. ~IsRoot(s, c)
      BY <2>2, <2>3 DEF IsRoot
    <2> QED
      BY <2>1, <2>3, <2>4 DEF Sound, LinksOK
  <1>6. /\ m \in DatabaseType /\ m.tabs = s.tabs /\ Len(m.drafts) = Len(s.drafts)
        /\ Drafts(m) = Drafts(s) /\ Tabs(m) = Tabs(s) /\ LiveTabs(m) = LiveTabs(s)
    <2>1. /\ m \in DatabaseType /\ m.tabs = s.tabs /\ Len(m.drafts) = Len(s.drafts)
      BY <1>2, <1>3 DEF SplicedAs, Marked
    <2> QED
      BY <2>1, <1>1, DatabaseFacts DEF LiveTabs, Tabs
  <1>7. Live(m) = Live(s) \ {d}
    <2>1. Live(m) = Live(q) \ {d}
      BY <1>3, MarkedDead
    <2>2. Drafts(q) = Drafts(s)
      BY <1>1, <1>2, <1>3, DatabaseFacts DEF SplicedAs
    <2>3. Live(q) = Live(s)
      BY <1>1, <1>2, <2>2 DEF Live, SplicedAs
    <2> QED
      BY <2>1, <2>3
  <1>8. ASSUME NEW c \in Drafts(s)
        PROVE  /\ m.drafts[c].tab = s.drafts[c].tab
               /\ None \in {m.drafts[c].parent, m.drafts[c].branchedFrom}
               /\ c \in kids => Anchor(m, c) = a
               /\ c \notin kids => Anchor(m, c) = Anchor(s, c)
    <2>1. /\ m.drafts[c].tab = q.drafts[c].tab
          /\ m.drafts[c].parent = q.drafts[c].parent
          /\ m.drafts[c].branchedFrom = q.drafts[c].branchedFrom
          /\ Anchor(m, c) = Anchor(q, c)
      BY <1>1, <1>2, <1>3, <1>8 DEF Marked, SplicedAs, Anchor
    <2>2. q.drafts[c].tab = s.drafts[c].tab
      BY <1>1, <1>2 DEF SplicedAs
    <2>3. CASE c \in kids
      BY <1>1, <1>2, <1>4, <2>1, <2>2, <2>3 DEF SplicedAs
    <2>4. CASE c \notin kids
      <3>1. q.drafts[c] = s.drafts[c]
        BY <1>1, <1>2, <2>4 DEF SplicedAs
      <3>2. None \in {s.drafts[c].parent, s.drafts[c].branchedFrom}
        BY DEF Sound, LinksOK
      <3> QED
        BY <2>1, <2>4, <3>1, <3>2 DEF Anchor
    <2> QED
      BY <2>3, <2>4
  <1>9. \A c \in Drafts(s) : IsRoot(m, c) <=> IsRoot(s, c)
    BY <1>4, <1>5, <1>8 DEF IsRoot
  <1>10. a \in Live(m)
    BY <1>1, <1>4, <1>7
  <1> HIDE DEF a
  <1>11. LinksOK(m)
    <2> SUFFICES ASSUME NEW c \in Drafts(s)
                 PROVE  /\ m.drafts[c].tab \in Tabs(m)
                        /\ None \in {m.drafts[c].parent, m.drafts[c].branchedFrom}
                        /\ ~IsRoot(m, c) => /\ Anchor(m, c) \in Drafts(m)
                                            /\ Anchor(m, c) < c
                                            /\ m.drafts[Anchor(m, c)].tab = m.drafts[c].tab
      BY <1>6 DEF LinksOK
    <2>1. m.drafts[c].tab \in Tabs(m) /\ None \in {m.drafts[c].parent, m.drafts[c].branchedFrom}
      BY <1>6, <1>8 DEF Sound, LinksOK
    <2>2. CASE c \in kids
      <3>1. Anchor(m, c) = a /\ d < c /\ a < d /\ a \in Drafts(s)
        BY <1>1, <1>4, <1>5, <1>8, <2>2 DEF a
      <3>2. m.drafts[a].tab = m.drafts[c].tab
        BY <1>4, <1>5, <1>8, <2>2, <3>1 DEF a
      <3> QED
        BY <1>1, <1>6, <2>1, <3>1, <3>2
    <2>3. CASE c \notin kids
      <3>1. Anchor(m, c) = Anchor(s, c) /\ (IsRoot(m, c) <=> IsRoot(s, c))
        BY <1>8, <1>9, <2>3
      <3>2. ~IsRoot(s, c) => /\ Anchor(s, c) \in Drafts(s) /\ Anchor(s, c) < c
                             /\ s.drafts[Anchor(s, c)].tab = s.drafts[c].tab
        BY DEF Sound, LinksOK
      <3> QED
        BY <1>6, <1>8, <2>1, <3>1, <3>2
    <2> QED
      BY <2>2, <2>3
  <1>12. HangsOK(m)
    <2> SUFFICES ASSUME NEW c \in Live(m), ~IsRoot(m, c) PROVE Anchor(m, c) \in Live(m)
      BY DEF HangsOK
    <2>1. c \in Live(s) /\ c \in Drafts(s) /\ ~IsRoot(s, c)
      BY <1>1, <1>7, <1>9
    <2>2. CASE c \in kids
      BY <1>8, <1>10, <2>1, <2>2
    <2>3. CASE c \notin kids
      <3>1. Anchor(s, c) \in Live(s)
        BY <2>1 DEF Sound, HangsOK
      <3>2. Anchor(s, c) # d
        BY <2>1, <2>3 DEF Children, Anchor
      <3> QED
        BY <1>7, <1>8, <2>1, <2>3, <3>1, <3>2
    <2> QED
      BY <2>2, <2>3
  <1>13. Follows(m, s, {d})
    <2>1. \A c \in Drafts(s) : Anchor(m, c) = Anchor(s, c) \/ Anchor(m, c) \in Live(m)
      BY <1>8, <1>10
    <2>2. Live(s) \ {d} \subseteq Live(m) /\ LiveTabs(m) # {} /\ Len(m.tabs) = Len(s.tabs)
      BY <1>6, <1>7 DEF Sound
    <2> QED
      BY <1>6, <1>8, <1>9, <1>11, <1>12, <2>1, <2>2, SameRowsFollow
  <1> HIDE DEF seeds
  <1>14. /\ Follows(r, s, {d})
         /\ Len(r.tabs) = Len(m.tabs) /\ Len(r.drafts) = Len(m.drafts)
    BY <1>1, <1>13, RelockFollows
  <1> HIDE DEF r
  <1>15. OrphanAndDelete(s, d) = r
    BY DEF OrphanAndDelete, r, m, q, seeds
  <1> QED
    BY <1>6, <1>14, <1>15

\* A dead draft comes back under something live.
LEMMA RestoreDraftFollows ==
  ASSUME NEW s, Sound(s), NEW d \in Drafts(s), ~IsRoot(s, d), Anchor(s, d) \in Live(s)
  PROVE  /\ Follows(RestoreDraft(s, d), s, {})
         /\ Len(RestoreDraft(s, d).tabs) = Len(s.tabs)
         /\ Len(RestoreDraft(s, d).drafts) = Len(s.drafts)
         /\ d \in Live(RestoreDraft(s, d))
  <1> DEFINE m == SetLive(s, {d}, TRUE)
             r == Relock(m, {d})
  <1>1. s \in DatabaseType /\ Marked(m, s, {d}, TRUE)
    BY SetLiveFacts DEF Sound
  <1> HIDE DEF m
  <1>2. /\ m \in DatabaseType /\ m.tabs = s.tabs /\ Len(m.drafts) = Len(s.drafts)
        /\ \A x \in Drafts(s) : /\ m.drafts[x].tab = s.drafts[x].tab
                                /\ m.drafts[x].parent = s.drafts[x].parent
                                /\ m.drafts[x].branchedFrom = s.drafts[x].branchedFrom
    BY <1>1, DatabaseFacts DEF Marked
  <1>3. /\ Drafts(m) = Drafts(s) /\ Tabs(m) = Tabs(s) /\ LiveTabs(m) = LiveTabs(s)
        /\ \A x \in Drafts(s) : /\ Anchor(m, x) = Anchor(s, x)
                                /\ IsRoot(m, x) <=> IsRoot(s, x)
    BY <1>1, MarkedFacts
  <1>4. Live(m) = Live(s) \union {d}
    <2>1. Live(m) = Live(s) \union ({d} \intersect Drafts(s))
      BY <1>1, MarkedLive
    <2> QED
      BY <2>1
  <1>5. LinksOK(m)
    BY <1>2, <1>3 DEF Sound, LinksOK
  <1>6. HangsOK(m)
    BY <1>3, <1>4 DEF Sound, HangsOK, Live
  <1>7. Follows(m, s, {})
    BY <1>2, <1>3, <1>4, <1>5, <1>6, SameRowsFollow DEF Sound
  <1>8. /\ Follows(r, s, {}) /\ Live(r) = Live(m)
        /\ Len(r.tabs) = Len(m.tabs) /\ Len(r.drafts) = Len(m.drafts)
    BY <1>1, <1>7, RelockFollows
  <1> HIDE DEF r
  <1>9. RestoreDraft(s, d) = r
    BY DEF RestoreDraft, r, m
  <1> QED
    BY <1>2, <1>4, <1>8, <1>9

\* One draft gets the links of a rewrite.
Relinked(m, s, r) ==
  /\ m \in DatabaseType
  /\ m.tabs = s.tabs /\ Len(m.drafts) = Len(s.drafts)
  /\ \A c \in 1..Len(s.drafts) :
       /\ m.drafts[c].tab = s.drafts[c].tab
       /\ m.drafts[c].live = s.drafts[c].live
       /\ m.drafts[c].parent = IF c = r.draft THEN r.parent ELSE s.drafts[c].parent
       /\ m.drafts[c].branchedFrom = IF c = r.draft THEN r.branchedFrom
                                                    ELSE s.drafts[c].branchedFrom

LEMMA RelinkedFacts ==
  ASSUME NEW s \in DatabaseType, NEW r \in Rewrite
  PROVE  Relinked([s EXCEPT !.drafts[r.draft].parent = r.parent,
                            !.drafts[r.draft].branchedFrom = r.branchedFrom], s, r)
  <1> DEFINE n == Len(s.drafts)
             row(c) == IF c = r.draft
                       THEN [s.drafts[c] EXCEPT !.parent = r.parent,
                                                !.branchedFrom = r.branchedFrom]
                       ELSE s.drafts[c]
             f == [c \in 1..n |-> row(c)]
             m == [s EXCEPT !.drafts = f]
  <1>1. /\ n \in Nat /\ DOMAIN s.drafts = 1..n
        /\ s.drafts \in [1..n -> DraftType]
        /\ \A c \in 1..n : s.drafts[c] \in DraftType
    BY DatabaseFacts DEF Drafts
  <1>2. /\ r.parent \in {None} \union DraftIds
        /\ r.branchedFrom \in {None} \union DraftIds
    BY DEF Rewrite
  <1>3. \A c \in 1..n :
           /\ row(c) \in DraftType
           /\ row(c).tab = s.drafts[c].tab /\ row(c).live = s.drafts[c].live
           /\ row(c).parent = IF c = r.draft THEN r.parent ELSE s.drafts[c].parent
           /\ row(c).branchedFrom = IF c = r.draft THEN r.branchedFrom
                                                   ELSE s.drafts[c].branchedFrom
    BY <1>1, <1>2 DEF DraftType
  <1>4. [s EXCEPT !.drafts[r.draft].parent = r.parent,
                  !.drafts[r.draft].branchedFrom = r.branchedFrom] = m
    <2> DEFINE g == [s.drafts EXCEPT ![r.draft].parent = r.parent,
                                     ![r.draft].branchedFrom = r.branchedFrom]
    <2>1. g = f
      BY <1>1 DEF DraftType
    <2>2. [s EXCEPT !.drafts[r.draft].parent = r.parent,
                    !.drafts[r.draft].branchedFrom = r.branchedFrom]
            = [s EXCEPT !.drafts = g]
      BY DEF DatabaseType
    <2> QED
      BY <2>1, <2>2
  <1> HIDE DEF row
  <1>5. f \in Seq(DraftType) /\ Len(f) = n
    <2>1. f \in [1..n -> DraftType]
      BY <1>3
    <2> QED
      BY <2>1, <1>1, FunctionIsSeq
  <1>6. \A c \in 1..n : f[c] = row(c)
    OBVIOUS
  <1> HIDE DEF f
  <1>7. m.drafts = f /\ m.tabs = s.tabs /\ m \in DatabaseType
    BY <1>5 DEF DatabaseType
  <1> HIDE DEF m
  <1>8. Relinked(m, s, r)
    BY <1>3, <1>5, <1>6, <1>7 DEF Relinked
  <1> QED
    BY <1>4, <1>8

\* A draft goes back to where it hung, a live older draft of its tab.
LEMMA ReparentDraftFollows ==
  ASSUME NEW s, Sound(s), NEW r \in Rewrite, NEW x \in Live(s),
         r.draft \in Drafts(s), ~IsRoot(s, r.draft),
         x < r.draft, s.drafts[x].tab = s.drafts[r.draft].tab,
         {r.parent, r.branchedFrom} = {None, x}
  PROVE  /\ Follows(ReparentDraft(s, r), s, {})
         /\ Len(ReparentDraft(s, r).tabs) = Len(s.tabs)
         /\ Len(ReparentDraft(s, r).drafts) = Len(s.drafts)
         /\ Live(ReparentDraft(s, r)) = Live(s)
  <1> DEFINE m == [s EXCEPT !.drafts[r.draft].parent = r.parent,
                            !.drafts[r.draft].branchedFrom = r.branchedFrom]
             c == r.draft
             q == Relock(m, {c})
  <1>1. /\ s \in DatabaseType /\ Drafts(s) = 1..Len(s.drafts) /\ x \in Drafts(s)
        /\ Tabs(s) = 1..Len(s.tabs) /\ x # None /\ Live(s) \subseteq Drafts(s)
    BY SoundFacts DEF None
  <1>2. Relinked(m, s, r)
    BY <1>1, RelinkedFacts
  <1> HIDE DEF m
  <1>3. /\ m \in DatabaseType /\ m.tabs = s.tabs /\ Len(m.drafts) = Len(s.drafts)
        /\ Drafts(m) = Drafts(s) /\ Tabs(m) = Tabs(s) /\ LiveTabs(m) = LiveTabs(s)
    <2>1. /\ m \in DatabaseType /\ m.tabs = s.tabs /\ Len(m.drafts) = Len(s.drafts)
      BY <1>2 DEF Relinked
    <2> QED
      BY <2>1, <1>1, DatabaseFacts DEF LiveTabs, Tabs
  <1>4. Live(m) = Live(s)
    BY <1>1, <1>2, <1>3 DEF Relinked, Live
  <1>5. ASSUME NEW d \in Drafts(s)
        PROVE  /\ m.drafts[d].tab = s.drafts[d].tab
               /\ None \in {m.drafts[d].parent, m.drafts[d].branchedFrom}
               /\ d = c => Anchor(m, d) = x
               /\ d # c => Anchor(m, d) = Anchor(s, d)
    <2>1. CASE d = c
      <3>1. /\ m.drafts[d].tab = s.drafts[d].tab
            /\ m.drafts[d].parent = r.parent /\ m.drafts[d].branchedFrom = r.branchedFrom
        BY <1>1, <1>2, <2>1 DEF Relinked
      <3> QED
        BY <1>1, <2>1, <3>1 DEF Anchor
    <2>2. CASE d # c
      <3>1. /\ m.drafts[d].tab = s.drafts[d].tab
            /\ m.drafts[d].parent = s.drafts[d].parent
            /\ m.drafts[d].branchedFrom = s.drafts[d].branchedFrom
        BY <1>1, <1>2, <2>2 DEF Relinked
      <3>2. None \in {s.drafts[d].parent, s.drafts[d].branchedFrom}
        BY DEF Sound, LinksOK
      <3> QED
        BY <2>2, <3>1, <3>2 DEF Anchor
    <2> QED
      BY <2>1, <2>2
  <1> HIDE DEF c
  <1>6. \A d \in Drafts(s) : IsRoot(m, d) <=> IsRoot(s, d)
    BY <1>1, <1>5 DEF IsRoot, c
  <1>7. LinksOK(m)
    <2> SUFFICES ASSUME NEW d \in Drafts(s)
                 PROVE  /\ m.drafts[d].tab \in Tabs(m)
                        /\ None \in {m.drafts[d].parent, m.drafts[d].branchedFrom}
                        /\ ~IsRoot(m, d) => /\ Anchor(m, d) \in Drafts(m)
                                            /\ Anchor(m, d) < d
                                            /\ m.drafts[Anchor(m, d)].tab = m.drafts[d].tab
      BY <1>3 DEF LinksOK
    <2>1. m.drafts[d].tab \in Tabs(m) /\ None \in {m.drafts[d].parent, m.drafts[d].branchedFrom}
      BY <1>3, <1>5 DEF Sound, LinksOK
    <2>2. CASE d = c
      BY <1>1, <1>3, <1>5, <2>1, <2>2 DEF c
    <2>3. CASE d # c
      <3>1. Anchor(m, d) = Anchor(s, d) /\ (IsRoot(m, d) <=> IsRoot(s, d))
        BY <1>5, <1>6, <2>3
      <3>2. ~IsRoot(s, d) => /\ Anchor(s, d) \in Drafts(s) /\ Anchor(s, d) < d
                             /\ s.drafts[Anchor(s, d)].tab = s.drafts[d].tab
        BY DEF Sound, LinksOK
      <3> QED
        BY <1>3, <1>5, <2>1, <3>1, <3>2
    <2> QED
      BY <2>2, <2>3
  <1>8. HangsOK(m)
    <2> SUFFICES ASSUME NEW d \in Live(s), ~IsRoot(m, d) PROVE Anchor(m, d) \in Live(s)
      BY <1>4 DEF HangsOK
    <2>1. d \in Drafts(s) /\ ~IsRoot(s, d)
      BY <1>1, <1>6
    <2>2. Anchor(s, d) \in Live(s)
      BY <2>1 DEF Sound, HangsOK
    <2> QED
      BY <1>5, <2>1, <2>2
  <1>9. Follows(m, s, {})
    <2>1. \A d \in Drafts(s) : Anchor(m, d) = Anchor(s, d) \/ Anchor(m, d) \in Live(m)
      BY <1>4, <1>5
    <2>2. Live(s) \ {} \subseteq Live(m) /\ LiveTabs(m) # {} /\ Len(m.tabs) = Len(s.tabs)
      BY <1>3, <1>4 DEF Sound
    <2> QED
      BY <1>3, <1>5, <1>6, <1>7, <1>8, <2>1, <2>2, SameRowsFollow
  <1>10. /\ Follows(q, s, {}) /\ Live(q) = Live(m)
         /\ Len(q.tabs) = Len(m.tabs) /\ Len(q.drafts) = Len(m.drafts)
    BY <1>1, <1>9, RelockFollows
  <1> HIDE DEF q
  <1>11. ReparentDraft(s, r) = q
    BY DEF ReparentDraft, q, m, c
  <1> QED
    BY <1>3, <1>4, <1>10, <1>11

-----------------------------------------------------------------------------
(* The commands keep the database typed, sound or not.                     *)

\* r has i tabs and j drafts more than s.
Grown(r, s, i, j) ==
  /\ r \in DatabaseType
  /\ Len(r.tabs) = Len(s.tabs) + i /\ Len(r.drafts) = Len(s.drafts) + j

LEMMA RelockType ==
  ASSUME NEW s \in DatabaseType, NEW seeds
  PROVE  Grown(Relock(s, seeds), s, 0, 0)
  <1> DEFINE r == Relock(s, seeds)
  <1>1. r \in DatabaseType /\ SameTree(r, s)
    BY RelockKeepsTree
  <1> HIDE DEF r
  <1>2. Len(s.tabs) \in Nat /\ Len(s.drafts) \in Nat
    BY DatabaseFacts
  <1>3. Grown(r, s, 0, 0)
    BY <1>1, <1>2 DEF Grown, SameTree
  <1> QED
    BY <1>3 DEF r

LEMMA SetLiveType ==
  ASSUME NEW s \in DatabaseType, NEW ids, NEW live \in BOOLEAN
  PROVE  Grown(SetLive(s, ids, live), s, 0, 0)
  <1> DEFINE r == SetLive(s, ids, live)
  <1>1. Marked(r, s, ids, live)
    BY SetLiveFacts
  <1> HIDE DEF r
  <1>2. Len(s.tabs) \in Nat /\ Len(s.drafts) \in Nat
    BY DatabaseFacts
  <1>3. Grown(r, s, 0, 0)
    BY <1>1, <1>2 DEF Grown, Marked
  <1> QED
    BY <1>3 DEF r

LEMMA SetTabType ==
  ASSUME NEW s \in DatabaseType, NEW t, NEW live \in BOOLEAN
  PROVE  Grown(SetTab(s, t, live), s, 0, 0)
  <1> DEFINE r == SetTab(s, t, live)
  <1>1. TabMarked(r, s, t, live)
    BY SetTabFacts
  <1> HIDE DEF r
  <1>2. Len(s.tabs) \in Nat /\ Len(s.drafts) \in Nat
    BY DatabaseFacts
  <1>3. Grown(r, s, 0, 0)
    BY <1>1, <1>2 DEF Grown, TabMarked
  <1> QED
    BY <1>3 DEF r

LEMMA SetDraftLockedType ==
  ASSUME NEW s \in DatabaseType, NEW d, NEW locked \in BOOLEAN
  PROVE  Grown(SetDraftLocked(s, d, locked), s, 0, 0)
  <1> DEFINE r == SetDraftLocked(s, d, locked)
  <1>1. r \in DatabaseType /\ SameTree(r, s)
    BY SetDraftLockedFacts
  <1> HIDE DEF r
  <1>2. Len(s.tabs) \in Nat /\ Len(s.drafts) \in Nat
    BY DatabaseFacts
  <1>3. Grown(r, s, 0, 0)
    BY <1>1, <1>2 DEF Grown, SameTree
  <1> QED
    BY <1>3 DEF r

\* Two commands one after the other.
LEMMA GrownTwice ==
  ASSUME NEW s \in DatabaseType, NEW m, NEW r, NEW i \in Nat, NEW j \in Nat,
         Grown(m, s, i, j), Grown(r, m, 0, 0)
  PROVE  Grown(r, s, i, j)
  <1>1. Len(s.tabs) \in Nat /\ Len(s.drafts) \in Nat
    BY DatabaseFacts
  <1> QED
    BY <1>1 DEF Grown

LEMMA RelockParentType ==
  ASSUME NEW s \in DatabaseType, NEW d
  PROVE  Grown(RelockParent(s, d), s, 0, 0)
  <1>1. Len(s.tabs) \in Nat /\ Len(s.drafts) \in Nat
    BY DatabaseFacts
  <1>2. Grown(s, s, 0, 0)
    BY <1>1 DEF Grown
  <1> QED
    BY <1>2, RelockType DEF RelockParent

\* A draft under any draft, live or not.
LEMMA InsertType ==
  ASSUME NEW s \in DatabaseType, NEW d \in Drafts(s), Len(s.drafts) \in DraftIds,
         NEW parent \in {None, d}, NEW branchedFrom \in {None, d}
  PROVE  Grown(InsertDraft(s, s.drafts[d].tab, parent, branchedFrom), s, 0, 1)
  <1> DEFINE r == InsertDraft(s, s.drafts[d].tab, parent, branchedFrom)
  <1>1. /\ Drafts(s) = 1..Len(s.drafts) /\ Len(s.tabs) \in Nat /\ Len(s.drafts) \in Nat
        /\ s.drafts[d] \in DraftType
    BY DatabaseFacts
  <1>2. d \in DraftIds
    BY <1>1, BoundsAssumption DEF DraftIds
  <1>3. s.drafts[d].tab \in TabIds
    BY <1>1 DEF DraftType
  <1>4. Inserted(r, s, s.drafts[d].tab, parent, branchedFrom)
    BY <1>2, <1>3, InsertDraftFacts
  <1> HIDE DEF r
  <1>5. Grown(r, s, 0, 1)
    BY <1>1, <1>4 DEF Grown, Inserted
  <1> QED
    BY <1>5 DEF r

LEMMA IterateType ==
  ASSUME NEW s \in DatabaseType, NEW d \in Drafts(s), Len(s.drafts) \in DraftIds
  PROVE  Grown(IterateDraft(s, d), s, 0, 1)
  <1> DEFINE m == InsertDraft(s, s.drafts[d].tab, d, None)
             seeds == {Len(s.drafts) + 1}
             r == Relock(m, seeds)
  <1>1. Grown(m, s, 0, 1)
    BY InsertType
  <1> HIDE DEF m, seeds
  <1>2. Grown(r, m, 0, 0)
    BY <1>1, RelockType DEF Grown
  <1> HIDE DEF r
  <1>3. Grown(r, s, 0, 1)
    BY <1>1, <1>2, GrownTwice
  <1> QED
    BY <1>3 DEF r, m, seeds, IterateDraft

LEMMA BranchType ==
  ASSUME NEW s \in DatabaseType, NEW d \in Drafts(s), Len(s.drafts) \in DraftIds
  PROVE  Grown(BranchDraft(s, d), s, 0, 1)
  BY InsertType DEF BranchDraft

LEMMA CreateTabType ==
  ASSUME NEW s \in DatabaseType, Len(s.tabs) + 1 \in TabIds
  PROVE  Grown(CreateTab(s), s, 1, 1)
  <1> DEFINE k == Len(s.tabs)
             q == [s EXCEPT !.tabs = Append(s.tabs, TRUE),
                            !.told.tabs = Append(s.told.tabs, TRUE)]
             m == CreateTab(s)
  <1>1. k \in Nat /\ Len(s.drafts) \in Nat
    BY DatabaseFacts
  <1>2. /\ Append(s.tabs, TRUE) \in Seq(BOOLEAN)
        /\ Append(s.told.tabs, TRUE) \in Seq(BOOLEAN)
        /\ Len(Append(s.tabs, TRUE)) = k + 1
    <2>1. s.tabs \in Seq(BOOLEAN) /\ s.told.tabs \in Seq(BOOLEAN)
      BY DatabaseFacts
    <2>2. TRUE \in BOOLEAN
      OBVIOUS
    <2> QED
      BY <2>1, <2>2, AppendProperties
  <1>3. q \in DatabaseType /\ q.tabs = Append(s.tabs, TRUE) /\ q.drafts = s.drafts
    BY <1>2 DEF DatabaseType
  <1>4. m = InsertDraft(q, k + 1, None, None)
    BY DEF CreateTab, DatabaseType
  <1> HIDE DEF q, m
  <1>5. Inserted(m, q, k + 1, None, None)
    BY <1>3, <1>4, InsertDraftFacts
  <1>6. Grown(m, s, 1, 1)
    BY <1>1, <1>2, <1>3, <1>5 DEF Grown, Inserted
  <1> QED
    BY <1>6 DEF m

LEMMA DeleteDraftType ==
  ASSUME NEW s \in DatabaseType, NEW d, NEW dead
  PROVE  Grown(RelockParent(SetLive(s, dead, FALSE), d), s, 0, 0)
  <1> DEFINE m == SetLive(s, dead, FALSE)
  <1>1. Grown(m, s, 0, 0)
    BY SetLiveType
  <1> HIDE DEF m
  <1>2. Grown(RelockParent(m, d), m, 0, 0)
    BY <1>1, RelockParentType DEF Grown
  <1>3. Grown(RelockParent(m, d), s, 0, 0)
    BY <1>1, <1>2, GrownTwice
  <1> QED
    BY <1>3 DEF m

LEMMA RestoreDraftType ==
  ASSUME NEW s \in DatabaseType, NEW d
  PROVE  Grown(RestoreDraft(s, d), s, 0, 0)
  <1> DEFINE m == SetLive(s, {d}, TRUE)
             r == Relock(m, {d})
  <1>1. Grown(m, s, 0, 0)
    BY SetLiveType
  <1> HIDE DEF m
  <1>2. Grown(r, m, 0, 0)
    BY <1>1, RelockType DEF Grown
  <1> HIDE DEF r
  <1>3. Grown(r, s, 0, 0)
    BY <1>1, <1>2, GrownTwice
  <1> QED
    BY <1>3 DEF m, r, RestoreDraft

LEMMA OrphanAndDeleteType ==
  ASSUME NEW s \in DatabaseType, NEW d \in Drafts(s)
  PROVE  Grown(OrphanAndDelete(s, d), s, 0, 0)
  <1> DEFINE q == [s EXCEPT !.drafts =
                     [c \in Drafts(s) |-> IF c \in Children(s, d) THEN Spliced(s, d, c)
                                                                 ELSE s.drafts[c]]]
             m == SetLive(q, {d}, FALSE)
             seeds == Children(s, d) \union ({s.drafts[d].parent} \ {None})
             r == Relock(m, seeds)
  <1>1. Len(s.tabs) \in Nat /\ Len(s.drafts) \in Nat
    BY DatabaseFacts
  <1>2. SplicedAs(q, s, d)
    BY SplicedFacts
  <1> HIDE DEF q
  <1>3. Grown(q, s, 0, 0)
    BY <1>1, <1>2 DEF SplicedAs, Grown
  <1>4. Grown(m, q, 0, 0)
    BY <1>3, SetLiveType DEF Grown
  <1> HIDE DEF m, seeds
  <1>5. Grown(r, m, 0, 0)
    BY <1>4, RelockType DEF Grown
  <1> HIDE DEF r
  <1>6. Grown(r, s, 0, 0)
    BY <1>3, <1>4, <1>5, GrownTwice
  <1> QED
    BY <1>6 DEF OrphanAndDelete, r, m, q, seeds

LEMMA ReparentDraftType ==
  ASSUME NEW s \in DatabaseType, NEW r \in Rewrite
  PROVE  Grown(ReparentDraft(s, r), s, 0, 0)
  <1> DEFINE m == [s EXCEPT !.drafts[r.draft].parent = r.parent,
                            !.drafts[r.draft].branchedFrom = r.branchedFrom]
             seeds == {r.draft}
             q == Relock(m, seeds)
  <1>1. Len(s.tabs) \in Nat /\ Len(s.drafts) \in Nat
    BY DatabaseFacts
  <1>2. Relinked(m, s, r)
    BY RelinkedFacts
  <1> HIDE DEF m, seeds
  <1>3. Grown(m, s, 0, 0)
    BY <1>1, <1>2 DEF Relinked, Grown
  <1>4. Grown(q, m, 0, 0)
    BY <1>3, RelockType DEF Grown
  <1> HIDE DEF q
  <1>5. Grown(q, s, 0, 0)
    BY <1>3, <1>4, GrownTwice
  <1> QED
    BY <1>5 DEF ReparentDraft, q, m, seeds

-----------------------------------------------------------------------------
(* Type correctness.                                                       *)

\* Taking the last element of a stack away.
LEMMA FrontFacts ==
  ASSUME NEW S, NEW stack \in Seq(S), stack # <<>>
  PROVE  /\ Len(stack) \in Nat \ {0}
         /\ Last(stack) = stack[Len(stack)] /\ Last(stack) \in S
         /\ Front(stack) \in Seq(S) /\ Len(Front(stack)) = Len(stack) - 1
         /\ \A i \in 1..(Len(stack) - 1) : Front(stack)[i] = stack[i]
  <1>1. Len(stack) \in Nat \ {0} /\ \A i \in 1..Len(stack) : stack[i] \in S
    BY EmptySeq, LenProperties, ElementOfSeq
  <1> DEFINE n == Len(stack) - 1
  <1>2. n \in Int /\ \A i \in 1..n : stack[i] \in S
    BY <1>1
  <1>3. /\ SubSeq(stack, 1, n) \in Seq(S)
        /\ Len(SubSeq(stack, 1, n)) = IF 1 <= n THEN n - 1 + 1 ELSE 0
        /\ \A i \in 1..(n - 1 + 1) : SubSeq(stack, 1, n)[i] = stack[1 + i - 1]
    <2> HIDE DEF n
    <2> QED
      BY <1>2, SubSeqProperties
  <1>4. Len(SubSeq(stack, 1, n)) = n
    <2>1. n \in Nat
      BY <1>1
    <2> HIDE DEF n
    <2>2. CASE n = 0
      BY <1>3, <2>2
    <2>3. CASE 1 <= n
      BY <1>3, <2>1, <2>3
    <2> QED
      BY <2>1, <2>2, <2>3
  <1>5. ASSUME NEW i \in 1..n PROVE SubSeq(stack, 1, n)[i] = stack[i]
    <2>1. 1 + i - 1 = i /\ n - 1 + 1 = n
      BY <1>1
    <2> QED
      BY <1>3, <2>1
  <1> QED
    BY <1>1, <1>3, <1>4, <1>5 DEF Front, Last

\* An entry of a deletion; splicing names a draft that exists.
Recorded(s, e) ==
  /\ e.kind # "none"
  /\ e.kind = "orphan" => e.target \in Drafts(s)

StackTyped(stack, s) ==
  /\ stack \in Seq(EntryType)
  /\ \A i \in 1..Len(stack) : Recorded(s, stack[i])

LEMMA StackTypedFront ==
  ASSUME NEW s, NEW stack, StackTyped(stack, s), stack # <<>>
  PROVE  /\ StackTyped(Front(stack), s)
         /\ Last(stack) \in EntryType /\ Recorded(s, Last(stack))
  <1>1. stack \in Seq(EntryType)
    BY DEF StackTyped
  <1>2. /\ Len(stack) \in Nat \ {0}
        /\ Last(stack) = stack[Len(stack)] /\ Last(stack) \in EntryType
        /\ Front(stack) \in Seq(EntryType) /\ Len(Front(stack)) = Len(stack) - 1
        /\ \A i \in 1..(Len(stack) - 1) : Front(stack)[i] = stack[i]
    BY <1>1, FrontFacts
  <1>3. Recorded(s, Last(stack))
    BY <1>2 DEF StackTyped
  <1>4. \A i \in 1..Len(Front(stack)) : Recorded(s, Front(stack)[i])
    BY <1>2 DEF StackTyped
  <1> QED
    BY <1>2, <1>3, <1>4 DEF StackTyped

LEMMA StackTypedAppend ==
  ASSUME NEW s, NEW stack, StackTyped(stack, s), NEW e \in EntryType, Recorded(s, e)
  PROVE  StackTyped(Append(stack, e), s)
  <1>1. stack \in Seq(EntryType) /\ Len(stack) \in Nat
    BY LenProperties DEF StackTyped
  <1>2. /\ Append(stack, e) \in Seq(EntryType)
        /\ Len(Append(stack, e)) = Len(stack) + 1
        /\ \A i \in 1..Len(stack) : Append(stack, e)[i] = stack[i]
        /\ Append(stack, e)[Len(stack) + 1] = e
    BY <1>1, AppendProperties
  <1> QED
    BY <1>1, <1>2 DEF StackTyped

LEMMA StackTypedEmpty == \A s : StackTyped(<<>>, s)
  <1>1. <<>> \in Seq(EntryType) /\ Len(<<>>) = 0
    BY EmptySeq
  <1> QED
    BY <1>1 DEF StackTyped

\* Drafts never lose their rows.
LEMMA StackTypedGrown ==
  ASSUME NEW s \in DatabaseType, NEW r, NEW i \in Nat, NEW j \in Nat, Grown(r, s, i, j)
  PROVE  /\ \A e : Recorded(s, e) => Recorded(r, e)
         /\ \A stack : StackTyped(stack, s) => StackTyped(stack, r)
  <1>1. Drafts(s) \subseteq Drafts(r)
    BY DatabaseFacts DEF Grown
  <1> QED
    BY <1>1 DEF StackTyped, Recorded

\* The shape of a document, as an entry remembers it.
LEMMA ShapeTyped ==
  ASSUME NEW s \in DatabaseType
  PROVE  Shape(s) \in ShapeType
  <1> DEFINE n == Len(s.drafts)
             row(d) == [live |-> s.drafts[d].live, parent |-> s.drafts[d].parent,
                        branchedFrom |-> s.drafts[d].branchedFrom]
             T == [live : BOOLEAN, parent : {None} \union DraftIds,
                   branchedFrom : {None} \union DraftIds]
             f == [d \in 1..n |-> row(d)]
  <1>1. /\ n \in Nat /\ Drafts(s) = 1..n /\ s.tabs \in Seq(BOOLEAN)
        /\ \A d \in 1..n : s.drafts[d] \in DraftType
    BY DatabaseFacts
  <1>2. \A d \in 1..n : row(d) \in T
    BY <1>1 DEF DraftType
  <1>3. f \in Seq(T)
    <2> HIDE DEF row, T
    <2>1. f \in [1..n -> T]
      BY <1>2
    <2> QED
      BY <2>1, <1>1, FunctionIsSeq
  <1>4. Shape(s) = [tabs |-> s.tabs, drafts |-> f]
    BY <1>1 DEF Shape
  <1> HIDE DEF f
  <1> QED
    BY <1>1, <1>3, <1>4 DEF ShapeType

LEMMA EntryTyped ==
  ASSUME db \in DatabaseType,
         NEW kind \in {"tab", "leaf", "cascade", "orphan"},
         NEW target \in DraftIds \union TabIds,
         NEW doomed \in SUBSET DraftIds, NEW rewrites \in SUBSET Rewrite
  PROVE  Entry(kind, target, doomed, rewrites) \in EntryType
  BY ShapeTyped DEF Entry, EntryType

\* The sets that a deletion records.
LEMMA DoomedTyped ==
  ASSUME NEW s \in DatabaseType, Len(s.drafts) \in DraftIds, NEW d
  PROVE  /\ Drafts(s) \subseteq DraftIds
         /\ Subtree(s, d) \in SUBSET DraftIds
         /\ Rewrites(s, d) \in SUBSET Rewrite
  <1>1. Drafts(s) \subseteq DraftIds /\ \A x \in Drafts(s) : s.drafts[x] \in DraftType
    BY DatabaseFacts, BoundsAssumption DEF DraftIds
  <1>2. Subtree(s, d) \subseteq Drafts(s) /\ Children(s, d) \subseteq Drafts(s)
    BY DEF Subtree, Children, Live
  <1>3. \A c \in Children(s, d) :
          [draft |-> c, parent |-> s.drafts[c].parent,
           branchedFrom |-> s.drafts[c].branchedFrom] \in Rewrite
    BY <1>1, <1>2 DEF Rewrite, DraftType
  <1> QED
    BY <1>1, <1>2, <1>3 DEF Rewrites

OperationType ==
  [kind : {"none", "undo", "redo"}, entry : EntryType,
   restore : SUBSET DraftIds, relink : SUBSET Rewrite,
   attached : BOOLEAN, redoable : BOOLEAN]

DatabaseOK(s) ==
  /\ s \in DatabaseType /\ Len(s.tabs) \in TabIds /\ Len(s.drafts) \in DraftIds

OperationTyped(op, s) ==
  op \in OperationType /\ (op.kind # "none" => Recorded(s, op.entry))

TypeInv ==
  /\ DatabaseOK(db)
  /\ StackTyped(done, db) /\ StackTyped(undone, db)
  /\ OperationTyped(operation, db)
  /\ toggled \subseteq DraftIds

LEMMA TypeInvTypeOK == TypeInv => TypeOK
  BY DEF TypeInv, TypeOK, DatabaseOK, StackTyped, OperationTyped, OperationType

\* A new document.
LEMMA NewDocumentOK == DatabaseOK(NewDocument)
  <1> DEFINE empty == [tabs |-> <<>>, drafts |-> <<>>,
                       told |-> [tabs |-> <<>>, drafts |-> <<>>]]
             r == CreateTab(empty)
  <1>1. empty \in DatabaseType /\ Len(empty.tabs) = 0 /\ Len(empty.drafts) = 0
    BY EmptySeq DEF DatabaseType
  <1>2. Len(empty.tabs) + 1 \in TabIds
    BY <1>1, BoundsAssumption DEF TabIds
  <1> HIDE DEF empty
  <1>3. Grown(r, empty, 1, 1)
    BY <1>1, <1>2, CreateTabType
  <1> HIDE DEF r
  <1>4. NewDocument = r
    BY DEF NewDocument, r, empty
  <1>5. Len(r.tabs) = 1 /\ Len(r.drafts) = 1 /\ r \in DatabaseType
    BY <1>1, <1>3 DEF Grown
  <1> QED
    BY <1>4, <1>5, BoundsAssumption DEF DatabaseOK, TabIds, DraftIds

LEMMA InitOperationTyped == \A s : OperationTyped(NoOperation, s)
  <1>1. Shape(NewDocument) \in ShapeType
    BY NewDocumentOK, ShapeTyped DEF DatabaseOK
  <1>2. NoEntry \in EntryType
    BY <1>1 DEF NoEntry, EntryType
  <1> QED
    BY <1>2 DEF NoOperation, OperationTyped, OperationType

LEMMA InitType == Init => TypeInv
  BY NewDocumentOK, InitOperationTyped, StackTypedEmpty DEF Init, TypeInv

\* What is recorded stays right when the database grows.
LEMMA GrownKeepsTypes ==
  ASSUME TypeInv, NEW r, NEW i \in Nat, NEW j \in Nat, Grown(r, db, i, j),
         Len(db.tabs) + i <= MaxTabs, Len(db.drafts) + j <= MaxDrafts
  PROVE  /\ DatabaseOK(r)
         /\ StackTyped(done, r) /\ StackTyped(undone, r)
         /\ OperationTyped(operation, r)
         /\ \A e : Recorded(db, e) => Recorded(r, e)
  <1>1. db \in DatabaseType /\ Len(db.tabs) \in TabIds /\ Len(db.drafts) \in DraftIds
    BY DEF TypeInv, DatabaseOK
  <1>2. /\ \A e : Recorded(db, e) => Recorded(r, e)
        /\ \A stack : StackTyped(stack, db) => StackTyped(stack, r)
    BY <1>1, StackTypedGrown
  <1>3. DatabaseOK(r)
    BY <1>1, BoundsAssumption DEF Grown, DatabaseOK, TabIds, DraftIds
  <1> QED
    BY <1>2, <1>3 DEF TypeInv, OperationTyped

\* The same for a command that adds no row.
LEMMA ChangedKeepsTypes ==
  ASSUME TypeInv, NEW r, Grown(r, db, 0, 0)
  PROVE  /\ DatabaseOK(r)
         /\ StackTyped(done, r) /\ StackTyped(undone, r)
         /\ OperationTyped(operation, r)
         /\ \A e : Recorded(db, e) => Recorded(r, e)
  <1>1. Len(db.tabs) + 0 <= MaxTabs /\ Len(db.drafts) + 0 <= MaxDrafts
    BY BoundsAssumption DEF TypeInv, DatabaseOK, TabIds, DraftIds
  <1> QED
    BY <1>1, GrownKeepsTypes

\* Recording a deletion.
LEMMA RecordTyped ==
  ASSUME TypeInv, NEW r, Grown(r, db, 0, 0),
         NEW e \in EntryType, Recorded(db, e), Record(e)
  PROVE  StackTyped(done', r) /\ StackTyped(undone', r)
  <1>1. StackTyped(done, r) /\ Recorded(r, e)
    BY ChangedKeepsTypes
  <1> QED
    BY <1>1, StackTypedAppend, StackTypedEmpty DEF Record

LEMMA CreateTyped ==
  ASSUME TypeInv, Create
  PROVE  TypeInv'
  <1>1. /\ db \in DatabaseType /\ Len(db.tabs) \in Nat /\ Len(db.drafts) \in Nat
        /\ Len(db.drafts) \in DraftIds /\ Len(db.tabs) \in TabIds
    BY DatabaseFacts DEF TypeInv, DatabaseOK
  <1>2. CASE HandleTabCreate
    <2>1. Len(db.tabs) + 1 \in TabIds
      BY <1>1, <1>2, BoundsAssumption DEF HandleTabCreate, TabIds
    <2>2. Grown(db', db, 1, 1)
      BY <1>1, <1>2, <2>1, CreateTabType DEF HandleTabCreate
    <2>3. Len(db.tabs) + 1 <= MaxTabs /\ Len(db.drafts) + 1 <= MaxDrafts
      BY <1>1, <1>2, BoundsAssumption DEF HandleTabCreate
    <2> QED
      BY <1>2, <2>2, <2>3, GrownKeepsTypes, StackTypedEmpty DEF HandleTabCreate, TypeInv
  <1>3. ASSUME NEW d \in Drafts(db), HandleDraftIterate(d) PROVE TypeInv'
    <2>1. Grown(db', db, 0, 1)
      BY <1>1, <1>3, IterateType DEF HandleDraftIterate
    <2>2. Len(db.tabs) + 0 <= MaxTabs /\ Len(db.drafts) + 1 <= MaxDrafts
      BY <1>1, <1>3, BoundsAssumption DEF HandleDraftIterate, TabIds
    <2> QED
      BY <1>3, <2>1, <2>2, GrownKeepsTypes, StackTypedEmpty DEF HandleDraftIterate, TypeInv
  <1>4. ASSUME NEW d \in Drafts(db), HandleDraftBranch(d) PROVE TypeInv'
    <2>1. Grown(db', db, 0, 1)
      BY <1>1, <1>4, BranchType DEF HandleDraftBranch
    <2>2. Len(db.tabs) + 0 <= MaxTabs /\ Len(db.drafts) + 1 <= MaxDrafts
      BY <1>1, <1>4, BoundsAssumption DEF HandleDraftBranch, TabIds
    <2> QED
      BY <1>4, <2>1, <2>2, GrownKeepsTypes, StackTypedEmpty DEF HandleDraftBranch, TypeInv
  <1> QED
    BY <1>2, <1>3, <1>4 DEF Create

LEMMA ToggleTyped ==
  ASSUME TypeInv, NEW d \in Drafts(db), HandleDraftToggleLock(d)
  PROVE  TypeInv'
  <1>1. db \in DatabaseType /\ db.drafts[d] \in DraftType /\ Drafts(db) \subseteq DraftIds
    BY DatabaseFacts, DoomedTyped DEF TypeInv, DatabaseOK
  <1>2. Grown(db', db, 0, 0)
    <2>1. (~db.drafts[d].locked) \in BOOLEAN
      OBVIOUS
    <2> QED
      BY <1>1, <2>1, SetDraftLockedType DEF HandleDraftToggleLock
  <1>3. toggled' \subseteq DraftIds
    BY <1>1 DEF HandleDraftToggleLock, TypeInv
  <1> QED
    BY <1>2, <1>3, ChangedKeepsTypes, StackTypedEmpty DEF HandleDraftToggleLock, TypeInv

LEMMA DeleteTyped ==
  ASSUME TypeInv, Delete
  PROVE  TypeInv'
  <1>1. /\ db \in DatabaseType /\ Drafts(db) \subseteq DraftIds /\ Tabs(db) \subseteq TabIds
        /\ \A d : Subtree(db, d) \in SUBSET DraftIds /\ Rewrites(db, d) \in SUBSET Rewrite
    BY DatabaseFacts, DoomedTyped, BoundsAssumption DEF TypeInv, DatabaseOK, TabIds
  <1>2. ASSUME NEW t \in Tabs(db), HandleTabDelete(t) PROVE TypeInv'
    <2>1. Grown(db', db, 0, 0)
      BY <1>1, <1>2, SetTabType DEF HandleTabDelete, DeleteTab
    <2> DEFINE e == Entry("tab", t, {}, {})
    <2>2. e \in EntryType /\ Recorded(db, e)
      <3>1. e \in EntryType
        BY <1>1, EntryTyped
      <3> QED
        BY <3>1 DEF Recorded, Entry
    <2> HIDE DEF e
    <2>3. StackTyped(done', db') /\ StackTyped(undone', db')
      BY <1>2, <2>1, <2>2, RecordTyped DEF HandleTabDelete, e
    <2> QED
      BY <1>2, <2>1, <2>3, ChangedKeepsTypes DEF HandleTabDelete, TypeInv
  <1>3. ASSUME NEW d \in Drafts(db), HandleDraftDelete(d) PROVE TypeInv'
    <2>1. Grown(db', db, 0, 0)
      BY <1>1, <1>3, DeleteDraftType DEF HandleDraftDelete, DeleteDraft
    <2> DEFINE e == Entry("leaf", d, {d}, {})
    <2>2. e \in EntryType /\ Recorded(db, e)
      <3>1. e \in EntryType
        BY <1>1, EntryTyped
      <3> QED
        BY <3>1 DEF Recorded, Entry
    <2> HIDE DEF e
    <2>3. StackTyped(done', db') /\ StackTyped(undone', db')
      BY <1>3, <2>1, <2>2, RecordTyped DEF HandleDraftDelete, e
    <2> QED
      BY <1>3, <2>1, <2>3, ChangedKeepsTypes DEF HandleDraftDelete, TypeInv
  <1>4. ASSUME NEW d \in Drafts(db), HandleDeleteCascade(d) PROVE TypeInv'
    <2>1. Grown(db', db, 0, 0)
      BY <1>1, <1>4, DeleteDraftType DEF HandleDeleteCascade, CascadeDelete
    <2> DEFINE e == Entry("cascade", d, Subtree(db, d), {})
    <2>2. e \in EntryType /\ Recorded(db, e)
      <3>1. e \in EntryType
        BY <1>1, EntryTyped
      <3> QED
        BY <3>1 DEF Recorded, Entry
    <2> HIDE DEF e
    <2>3. StackTyped(done', db') /\ StackTyped(undone', db')
      BY <1>4, <2>1, <2>2, RecordTyped DEF HandleDeleteCascade, e
    <2> QED
      BY <1>4, <2>1, <2>3, ChangedKeepsTypes DEF HandleDeleteCascade, TypeInv
  <1>5. ASSUME NEW d \in Drafts(db), HandleDeleteOrphan(d) PROVE TypeInv'
    <2>1. Grown(db', db, 0, 0)
      BY <1>1, <1>5, OrphanAndDeleteType DEF HandleDeleteOrphan
    <2> DEFINE e == Entry("orphan", d, {d}, Rewrites(db, d))
    <2>2. e \in EntryType /\ Recorded(db, e)
      <3>1. e \in EntryType
        BY <1>1, EntryTyped
      <3> QED
        BY <3>1 DEF Recorded, Entry
    <2> HIDE DEF e
    <2>3. StackTyped(done', db') /\ StackTyped(undone', db')
      BY <1>5, <2>1, <2>2, RecordTyped DEF HandleDeleteOrphan, e
    <2> QED
      BY <1>5, <2>1, <2>3, ChangedKeepsTypes DEF HandleDeleteOrphan, TypeInv
  <1> QED
    BY <1>2, <1>3, <1>4, <1>5 DEF Delete

LEMMA UndoTyped ==
  ASSUME TypeInv, Undo
  PROVE  TypeInv'
  <1>1. /\ db \in DatabaseType /\ DatabaseOK(db)
        /\ StackTyped(done, db) /\ StackTyped(undone, db)
        /\ operation \in OperationType /\ OperationTyped(operation, db)
    BY DEF TypeInv, DatabaseOK, OperationTyped
  <1>2. CASE StartUndo
    <2>1. Last(done) \in EntryType /\ Recorded(db, Last(done))
      BY <1>1, <1>2, StackTypedFront DEF StartUndo
    <2>2. operation' = [kind |-> "undo", entry |-> Last(done), restore |-> Last(done).doomed,
                        relink |-> Last(done).rewrites, attached |-> TRUE,
                        redoable |-> TRUE]
      BY <1>2 DEF StartUndo
    <2>3. OperationTyped(operation', db)
      BY <2>1, <2>2 DEF OperationTyped, OperationType, EntryType
    <2> QED
      BY <1>2, <2>3 DEF StartUndo, TypeInv
  <1>3. ASSUME NEW d \in operation.restore, UndoRestoresDraft(d) PROVE TypeInv'
    <2>1. Grown(db', db, 0, 0)
      BY <1>1, <1>3, RestoreDraftType DEF UndoRestoresDraft
    <2>2. OperationTyped(operation, db')
      BY <2>1, ChangedKeepsTypes
    <2>3. OperationTyped(operation', db')
      BY <1>1, <1>3, <2>2 DEF UndoRestoresDraft, OperationTyped, OperationType
    <2> QED
      BY <1>3, <2>1, <2>3, ChangedKeepsTypes DEF UndoRestoresDraft, TypeInv
  <1>4. ASSUME NEW r \in operation.relink, UndoRelinksDraft(r) PROVE TypeInv'
    <2>1. r \in Rewrite
      BY <1>1 DEF OperationType
    <2>2. Grown(db', db, 0, 0)
      BY <1>1, <1>4, <2>1, ReparentDraftType DEF UndoRelinksDraft
    <2>3. OperationTyped(operation, db')
      BY <2>2, ChangedKeepsTypes
    <2>4. OperationTyped(operation', db')
      BY <1>1, <1>4, <2>3 DEF UndoRelinksDraft, OperationTyped, OperationType
    <2> QED
      BY <1>4, <2>2, <2>4, ChangedKeepsTypes DEF UndoRelinksDraft, TypeInv
  <1>5. CASE FinishUndo
    <2>1. Grown(db', db, 0, 0)
      <3>1. Grown(RestoreTab(db, operation.entry.target), db, 0, 0)
        BY <1>1, SetTabType DEF RestoreTab
      <3>2. Grown(db, db, 0, 0)
        BY <1>1, DatabaseFacts DEF Grown
      <3> QED
        BY <1>5, <3>1, <3>2 DEF FinishUndo
    <2>2. /\ StackTyped(done, db') /\ StackTyped(undone, db') /\ DatabaseOK(db')
          /\ Recorded(db', operation.entry) /\ operation.entry \in EntryType
      BY <1>1, <1>5, <2>1, ChangedKeepsTypes DEF FinishUndo, OperationTyped, OperationType
    <2>3. StackTyped(undone', db')
      BY <1>5, <2>2, StackTypedAppend DEF FinishUndo
    <2>4. done # <<>> => StackTyped(Front(done), db')
      BY <2>2, StackTypedFront
    <2>5. Front(<<>>) = <<>>
      BY EmptySeq, SubSeqEmpty DEF Front
    <2>6. StackTyped(done', db')
      BY <1>5, <2>2, <2>4, <2>5 DEF FinishUndo
    <2>7. OperationTyped(operation', db')
      BY <1>5, InitOperationTyped DEF FinishUndo
    <2> QED
      BY <1>5, <2>2, <2>3, <2>6, <2>7 DEF FinishUndo, TypeInv
  <1> QED
    BY <1>2, <1>3, <1>4, <1>5 DEF Undo

\* What a redo records is a deletion.
LEMMA RedoneTyped ==
  ASSUME TypeInv, operation.kind = "redo"
  PROVE  RedoneEntry \in EntryType /\ Recorded(db, RedoneEntry)
  <1> DEFINE old == operation.entry
  <1>1. /\ old \in EntryType /\ Recorded(db, old) /\ db \in DatabaseType
        /\ old.kind \in {"tab", "leaf", "cascade", "orphan"}
        /\ \A d : Subtree(db, d) \in SUBSET DraftIds /\ Rewrites(db, d) \in SUBSET Rewrite
        /\ Drafts(db) \subseteq DraftIds /\ DatabaseOK(db)
    <2>1. /\ old \in EntryType /\ Recorded(db, old) /\ DatabaseOK(db)
      BY DEF TypeInv, OperationTyped, OperationType
    <2> QED
      BY <2>1, DoomedTyped DEF Recorded, EntryType, DatabaseOK
  <1>2. Shape(db) \in ShapeType
    BY <1>1, ShapeTyped
  <1>3. CASE old.kind = "cascade"
    BY <1>1, <1>2, <1>3 DEF RedoneEntry, Entry, EntryType, Recorded
  <1>4. CASE old.kind = "orphan"
    <2>1. old.target \in Drafts(db)
      BY <1>1, <1>4 DEF Recorded
    <2> QED
      BY <1>1, <1>2, <1>4, <2>1 DEF RedoneEntry, Entry, EntryType, Recorded
  <1>5. CASE old.kind \in {"tab", "leaf"}
    BY <1>1, <1>2, <1>5 DEF RedoneEntry, Entry, EntryType, Recorded
  <1> QED
    BY <1>1, <1>3, <1>4, <1>5

LEMMA RedoTyped ==
  ASSUME TypeInv, Redo
  PROVE  TypeInv'
  <1>1. /\ db \in DatabaseType /\ DatabaseOK(db)
        /\ StackTyped(done, db) /\ StackTyped(undone, db)
        /\ operation \in OperationType /\ OperationTyped(operation, db)
        /\ \A d : Subtree(db, d) \in SUBSET DraftIds /\ Rewrites(db, d) \in SUBSET Rewrite
        /\ Drafts(db) \subseteq DraftIds
    BY DoomedTyped DEF TypeInv, DatabaseOK, OperationTyped
  <1>2. CASE StartRedo
    <2>1. Last(undone) \in EntryType /\ Recorded(db, Last(undone))
      BY <1>1, <1>2, StackTypedFront DEF StartRedo
    <2>2. operation' = [kind |-> "redo", entry |-> Last(undone), restore |-> {},
                        relink |-> {}, attached |-> TRUE, redoable |-> TRUE]
      BY <1>2 DEF StartRedo
    <2>3. OperationTyped(operation', db)
      BY <2>1, <2>2 DEF OperationTyped, OperationType
    <2> QED
      BY <1>2, <2>3 DEF StartRedo, TypeInv
  <1>3. CASE FinishRedo
    <2> DEFINE old == operation.entry
    <2>1. /\ old \in EntryType /\ Recorded(db, old)
          /\ old.kind \in {"tab", "leaf", "cascade", "orphan"}
      BY <1>1, <1>3 DEF FinishRedo, OperationTyped, OperationType, Recorded, EntryType
    <2>2. Grown(db', db, 0, 0)
      <3>1. CASE old.kind = "tab"
        BY <1>1, <1>3, <3>1, SetTabType DEF FinishRedo, Redeletion, DeleteTab
      <3>2. CASE old.kind = "leaf"
        BY <1>1, <1>3, <3>2, DeleteDraftType DEF FinishRedo, Redeletion, DeleteDraft
      <3>3. CASE old.kind = "cascade"
        BY <1>1, <1>3, <3>3, DeleteDraftType DEF FinishRedo, Redeletion, CascadeDelete
      <3>4. CASE old.kind = "orphan"
        <4>1. old.target \in Drafts(db)
          BY <2>1, <3>4 DEF Recorded
        <4> QED
          BY <1>1, <1>3, <3>4, <4>1, OrphanAndDeleteType DEF FinishRedo, Redeletion
      <3> QED
        BY <2>1, <3>1, <3>2, <3>3, <3>4
    <2>3. RedoneEntry \in EntryType /\ Recorded(db, RedoneEntry)
      BY <1>3, RedoneTyped DEF FinishRedo
    <2>4. /\ StackTyped(done, db') /\ StackTyped(undone, db') /\ DatabaseOK(db')
          /\ Recorded(db', RedoneEntry)
      BY <2>2, <2>3, ChangedKeepsTypes
    <2>5. StackTyped(done', db')
      BY <1>3, <2>3, <2>4, StackTypedAppend DEF FinishRedo
    <2>6. undone # <<>> => StackTyped(Front(undone), db')
      BY <2>4, StackTypedFront
    <2>7. Front(<<>>) = <<>>
      BY EmptySeq, SubSeqEmpty DEF Front
    <2>8. StackTyped(undone', db')
      BY <1>3, <2>4, <2>6, <2>7 DEF FinishRedo
    <2>9. OperationTyped(operation', db')
      BY <1>3, InitOperationTyped DEF FinishRedo
    <2> QED
      BY <1>3, <2>4, <2>5, <2>8, <2>9 DEF FinishRedo, TypeInv
  <1> QED
    BY <1>2, <1>3 DEF Redo

LEMMA NextTyped == TypeInv /\ [Next]_vars => TypeInv'
  <1> SUFFICES ASSUME TypeInv, [Next]_vars PROVE TypeInv'
    OBVIOUS
  <1>1. CASE Create
    BY <1>1, CreateTyped
  <1>2. ASSUME NEW d \in Drafts(db), HandleDraftToggleLock(d) PROVE TypeInv'
    BY <1>2, ToggleTyped
  <1>3. CASE Delete
    BY <1>3, DeleteTyped
  <1>4. CASE EditProse
    BY <1>4, StackTypedEmpty
       DEF EditProse, TypeInv, OperationTyped, OperationType
  <1>5. CASE Undo
    BY <1>5, UndoTyped
  <1>6. CASE Redo
    BY <1>6, RedoTyped
  <1>7. CASE OperationFails
    BY <1>7, InitOperationTyped DEF OperationFails, TypeInv
  <1>8. CASE LeaveDocument
    BY <1>8, StackTypedEmpty
       DEF LeaveDocument, TypeInv, OperationTyped, OperationType
  <1>9. CASE Crash
    BY <1>9, InitOperationTyped, StackTypedEmpty DEF Crash, TypeInv
  <1>10. CASE UNCHANGED vars
    BY <1>10 DEF vars, TypeInv
  <1> QED
    BY <1>1, <1>2, <1>3, <1>4, <1>5, <1>6, <1>7, <1>8, <1>9, <1>10 DEF Next

\* A session's step is a step of the history.
LEMMA SessionStep == [SessionNext]_sessionVars => [Next]_vars
  BY DEF SessionNext, OtherStep, sessionVars, UndoFails, RedoRefused, Next, Redo

\* The variables hold what their types say: SessionTypeOK is an invariant for every
\* bound, with and without redo and failing calls.
THEOREM DraftTypeCorrect == SessionSpec => []SessionTypeOK
  <1> DEFINE Inv == TypeInv /\ failed \in BOOLEAN /\ strayed \in BOOLEAN
  <1>1. SessionInit => Inv
    BY InitType DEF SessionInit
  <1>2. Inv /\ [SessionNext]_sessionVars => Inv'
    <2> SUFFICES ASSUME Inv, [SessionNext]_sessionVars PROVE Inv'
      OBVIOUS
    <2>1. TypeInv'
      BY SessionStep, NextTyped
    <2>2. failed' \in BOOLEAN /\ strayed' \in BOOLEAN
      BY DEF SessionNext, sessionVars, TypeInv, OperationTyped, OperationType
    <2> QED
      BY <2>1, <2>2
  <1>3. Inv => SessionTypeOK
    BY TypeInvTypeOK DEF SessionTypeOK
  <1> QED
    BY <1>1, <1>2, <1>3, PTL DEF SessionSpec

-----------------------------------------------------------------------------
(* The tree is kept.                                                       *)
(*                                                                         *)
(* Sound(db) alone is not inductive: the undo of a deletion brings drafts  *)
(* back under drafts that other deletions may have taken since.  What      *)
(* makes it work is the order of the stack.  A doomed draft hangs off      *)
(* something live or off something doomed by the same or a later deletion, *)
(* and those are undone first.                                             *)

\* What a deletion recorded still fits the tree: its drafts hang off something,
\* and a rewrite leads back to a doomed draft that was the parent.
EntryOK(s, e) ==
  /\ \A d \in e.doomed : d \in Drafts(s) /\ ~IsRoot(s, d)
  /\ \A r \in e.rewrites :
       /\ r.draft \in Drafts(s) /\ ~IsRoot(s, r.draft)
       /\ \E x \in e.doomed :
            /\ x < r.draft /\ s.drafts[x].tab = s.drafts[r.draft].tab
            /\ {r.parent, r.branchedFrom} = {None, x}

StackOK(s, stack) ==
  /\ stack \in Seq(EntryType)
  /\ \A i \in 1..Len(stack) :
       /\ EntryOK(s, stack[i])
       /\ \A d \in stack[i].doomed :
            \/ Anchor(s, d) \in Live(s)
            \/ \E j \in i..Len(stack) : Anchor(s, d) \in stack[j].doomed

\* An undo under way: what is back lives, and what is not back yet hangs off
\* something that lives or comes back as well.
OperationOK(s, op, stack) ==
  op.kind = "undo" =>
    /\ EntryOK(s, op.entry)
    /\ op.restore \subseteq op.entry.doomed /\ op.relink \subseteq op.entry.rewrites
    /\ op.entry.doomed \ op.restore \subseteq Live(s)
    /\ \A d \in op.restore : Anchor(s, d) \in Live(s) \union op.restore
    /\ op.attached => stack # <<>> /\ Last(stack) = op.entry

TreeInv ==
  /\ Sound(db)
  /\ StackOK(db, done)
  /\ OperationOK(db, operation, done)

LEMMA FollowsSelf ==
  ASSUME NEW s, Sound(s)
  PROVE  Follows(s, s, {})
  BY SoundFacts DEF Follows

LEMMA FollowsDrafts ==
  ASSUME NEW s, Sound(s), NEW r, NEW dead, Follows(r, s, dead)
  PROVE  Drafts(s) \subseteq Drafts(r)
  <1>1. Sound(r) /\ Len(s.drafts) <= Len(r.drafts)
    BY DEF Follows
  <1>2. /\ Drafts(s) = 1..Len(s.drafts) /\ Drafts(r) = 1..Len(r.drafts)
        /\ Len(s.drafts) \in Nat /\ Len(r.drafts) \in Nat
    BY <1>1, SoundFacts
  <1> QED
    BY <1>1, <1>2

LEMMA EntryFollows ==
  ASSUME NEW s, Sound(s), NEW r, NEW dead, Follows(r, s, dead), NEW e \in EntryType,
         EntryOK(s, e)
  PROVE  EntryOK(r, e)
  <1>1. Drafts(s) \subseteq Drafts(r)
    BY FollowsDrafts
  <1>2. \A d \in Drafts(s) : r.drafts[d].tab = s.drafts[d].tab /\ (IsRoot(r, d) <=> IsRoot(s, d))
    BY DEF Follows
  <1>3. \A d \in e.doomed : d \in Drafts(r) /\ ~IsRoot(r, d)
    BY <1>1, <1>2 DEF EntryOK
  <1>4. ASSUME NEW w \in e.rewrites
        PROVE  /\ w.draft \in Drafts(r) /\ ~IsRoot(r, w.draft)
               /\ \E x \in e.doomed :
                    /\ x < w.draft /\ r.drafts[x].tab = r.drafts[w.draft].tab
                    /\ {w.parent, w.branchedFrom} = {None, x}
    <2>1. /\ w.draft \in Drafts(s) /\ ~IsRoot(s, w.draft)
          /\ \E x \in e.doomed :
               /\ x < w.draft /\ s.drafts[x].tab = s.drafts[w.draft].tab
               /\ {w.parent, w.branchedFrom} = {None, x}
      BY DEF EntryOK
    <2>2. PICK x \in e.doomed : /\ x < w.draft /\ s.drafts[x].tab = s.drafts[w.draft].tab
                               /\ {w.parent, w.branchedFrom} = {None, x}
      BY <2>1
    <2>3. x \in Drafts(s)
      BY DEF EntryOK
    <2>4. r.drafts[x].tab = r.drafts[w.draft].tab
      BY <1>2, <2>1, <2>2, <2>3
    <2> QED
      BY <1>1, <1>2, <2>1, <2>2, <2>4
  <1> QED
    BY <1>3, <1>4 DEF EntryOK

\* A stack outlives every command that deletes nothing.
LEMMA StackFollows ==
  ASSUME NEW s, Sound(s), NEW r, Follows(r, s, {}), NEW stack, StackOK(s, stack)
  PROVE  StackOK(r, stack)
  <1>1. stack \in Seq(EntryType) /\ \A i \in 1..Len(stack) : stack[i] \in EntryType
    BY ElementOfSeq DEF StackOK
  <1>2. ASSUME NEW i \in 1..Len(stack) PROVE EntryOK(r, stack[i])
    BY <1>1, EntryFollows DEF StackOK
  <1>3. ASSUME NEW i \in 1..Len(stack), NEW d \in stack[i].doomed
        PROVE  \/ Anchor(r, d) \in Live(r)
               \/ \E j \in i..Len(stack) : Anchor(r, d) \in stack[j].doomed
    <2>1. d \in Drafts(s)
      BY DEF StackOK, EntryOK
    <2>2. /\ Anchor(r, d) = Anchor(s, d) \/ Anchor(r, d) \in Live(r)
          /\ Live(s) \subseteq Live(r)
      BY <2>1 DEF Follows
    <2> QED
      BY <2>2 DEF StackOK
  <1> QED
    BY <1>1, <1>2, <1>3 DEF StackOK

\* A deletion goes on top: what it takes hung off something live.
LEMMA StackPush ==
  ASSUME NEW s, Sound(s), NEW e \in EntryType, EntryOK(s, e),
         e.doomed \subseteq Live(s),
         NEW r, Follows(r, s, e.doomed), NEW stack, StackOK(s, stack)
  PROVE  StackOK(r, Append(stack, e))
  <1> DEFINE n == Len(stack)
             top == Append(stack, e)
  <1>1. /\ stack \in Seq(EntryType) /\ n \in Nat
        /\ \A i \in 1..n : stack[i] \in EntryType
    BY ElementOfSeq, LenProperties DEF StackOK
  <1>2. /\ top \in Seq(EntryType) /\ Len(top) = n + 1
        /\ \A i \in 1..n : top[i] = stack[i]
        /\ top[n + 1] = e
    BY <1>1, AppendProperties
  <1> HIDE DEF top
  <1>3. ASSUME NEW i \in 1..(n + 1) PROVE EntryOK(r, top[i])
    <2>1. CASE i = n + 1
      BY <1>2, <2>1, EntryFollows
    <2>2. CASE i \in 1..n
      <3>1. EntryOK(s, stack[i])
        BY <2>2 DEF StackOK
      <3>2. EntryOK(r, stack[i])
        BY <1>1, <2>2, <3>1, EntryFollows
      <3> QED
        BY <1>2, <2>2, <3>2
    <2> QED
      BY <1>1, <2>1, <2>2
  <1>4. ASSUME NEW i \in 1..(n + 1), NEW d \in top[i].doomed
        PROVE  \/ Anchor(r, d) \in Live(r)
               \/ \E j \in i..(n + 1) : Anchor(r, d) \in top[j].doomed
    <2>1. CASE i = n + 1
      <3>1. d \in e.doomed /\ d \in Drafts(s) /\ ~IsRoot(s, d)
        BY <1>2, <2>1 DEF EntryOK
      <3>2. Anchor(s, d) \in Live(s)
        BY <3>1 DEF Sound, HangsOK
      <3>3. Anchor(r, d) \in Live(r) \/ Anchor(r, d) \in e.doomed
        BY <3>1, <3>2 DEF Follows
      <3> QED
        BY <1>1, <1>2, <2>1, <3>3
    <2>2. CASE i \in 1..n
      <3>1. d \in stack[i].doomed /\ d \in Drafts(s)
        BY <1>2, <2>2 DEF StackOK, EntryOK
      <3>2. \/ Anchor(s, d) \in Live(s)
            \/ \E j \in i..n : Anchor(s, d) \in stack[j].doomed
        BY <2>2, <3>1 DEF StackOK
      <3>3. Anchor(r, d) = Anchor(s, d) \/ Anchor(r, d) \in Live(r)
        BY <3>1 DEF Follows
      <3>4. CASE Anchor(s, d) \in Live(s)
        <4>1. Anchor(r, d) \in Live(r) \/ Anchor(r, d) \in e.doomed
          BY <3>3, <3>4 DEF Follows
        <4> QED
          BY <1>1, <1>2, <2>2, <4>1
      <3>5. ASSUME NEW j \in i..n, Anchor(s, d) \in stack[j].doomed
            PROVE  \/ Anchor(r, d) \in Live(r)
                   \/ \E k \in i..(n + 1) : Anchor(r, d) \in top[k].doomed
        <4>1. j \in 1..n /\ j \in i..(n + 1)
          BY <1>1, <2>2
        <4>2. top[j] = stack[j]
          BY <1>2, <4>1
        <4> QED
          BY <3>3, <3>5, <4>1, <4>2
      <3> QED
        BY <3>2, <3>4, <3>5
    <2> QED
      BY <1>1, <2>1, <2>2
  <1>5. StackOK(r, top)
    BY <1>2, <1>3, <1>4 DEF StackOK
  <1> QED
    BY <1>5 DEF top

\* An undone deletion comes off: all it took is live again.
LEMMA StackPop ==
  ASSUME NEW s, NEW stack, StackOK(s, stack), stack # <<>>,
         Last(stack).doomed \subseteq Live(s)
  PROVE  StackOK(s, Front(stack))
  <1> DEFINE n == Len(stack)
             rest == Front(stack)
  <1>1. /\ n \in Nat \ {0} /\ Last(stack) = stack[n]
        /\ rest \in Seq(EntryType) /\ Len(rest) = n - 1
        /\ \A i \in 1..(n - 1) : rest[i] = stack[i]
    BY FrontFacts DEF StackOK
  <1> HIDE DEF rest
  <1>2. ASSUME NEW i \in 1..(n - 1) PROVE EntryOK(s, rest[i])
    BY <1>1 DEF StackOK
  <1>3. ASSUME NEW i \in 1..(n - 1), NEW d \in rest[i].doomed
        PROVE  \/ Anchor(s, d) \in Live(s)
               \/ \E j \in i..(n - 1) : Anchor(s, d) \in rest[j].doomed
    <2>1. i \in 1..n /\ d \in stack[i].doomed
      BY <1>1
    <2>2. \/ Anchor(s, d) \in Live(s)
          \/ \E j \in i..n : Anchor(s, d) \in stack[j].doomed
      BY <2>1 DEF StackOK
    <2>3. ASSUME NEW j \in i..n, Anchor(s, d) \in stack[j].doomed
          PROVE  \/ Anchor(s, d) \in Live(s)
                 \/ \E k \in i..(n - 1) : Anchor(s, d) \in rest[k].doomed
      <3>1. CASE j = n
        BY <1>1, <2>3, <3>1
      <3>2. CASE j # n
        <4>1. j \in 1..(n - 1) /\ j \in i..(n - 1)
          <5>1. n \in Nat /\ i \in Nat /\ 1 <= i /\ j \in Int /\ i <= j /\ j <= n
            BY <1>1
          <5> HIDE DEF n
          <5> QED
            BY <3>2, <5>1
        <4>2. rest[j] = stack[j]
          BY <1>1, <4>1
        <4> QED
          BY <2>3, <4>1, <4>2
      <3> QED
        BY <3>1, <3>2
    <2> QED
      BY <2>2, <2>3
  <1>4. StackOK(s, rest)
    BY <1>1, <1>2, <1>3 DEF StackOK
  <1> QED
    BY <1>4 DEF rest

LEMMA StackNone == \A s : StackOK(s, <<>>)
  <1>1. <<>> \in Seq(EntryType) /\ Len(<<>>) = 0
    BY EmptySeq
  <1> QED
    BY <1>1 DEF StackOK

\* An operation under way survives a command that changes nothing it relies on.
LEMMA IdleOperation ==
  ASSUME NEW s, NEW op, NEW stack, op.kind # "undo"
  PROVE  OperationOK(s, op, stack)
  BY DEF OperationOK

LEMMA CreateKeepsTree ==
  ASSUME TypeInv, TreeInv, Create
  PROVE  TreeInv'
  <1>1. /\ Sound(db) /\ StackOK(db, done) /\ Len(db.drafts) \in DraftIds
        /\ Len(db.tabs) \in Nat
    BY SoundFacts DEF TypeInv, TreeInv, DatabaseOK
  <1>2. Follows(db', db, {}) /\ UNCHANGED <<done, operation>> /\ Idle
    <2>1. CASE HandleTabCreate
      <3>1. Len(db.tabs) + 1 \in TabIds
        BY <1>1, <2>1, BoundsAssumption DEF HandleTabCreate, TabIds
      <3> QED
        BY <1>1, <2>1, <3>1, CreateTabFollows DEF HandleTabCreate
    <2>2. ASSUME NEW d \in Drafts(db), HandleDraftIterate(d)
          PROVE  Follows(db', db, {}) /\ UNCHANGED <<done, operation>> /\ Idle
      <3>1. d \in Live(db)
        BY <2>2 DEF HandleDraftIterate, Shown
      <3> QED
        BY <1>1, <2>2, <3>1, IterateFollows DEF HandleDraftIterate
    <2>3. ASSUME NEW d \in Drafts(db), HandleDraftBranch(d)
          PROVE  Follows(db', db, {}) /\ UNCHANGED <<done, operation>> /\ Idle
      <3>1. d \in Live(db)
        BY <2>3 DEF HandleDraftBranch, Shown
      <3> QED
        BY <1>1, <2>3, <3>1, BranchFollows DEF HandleDraftBranch
    <2> QED
      BY <2>1, <2>2, <2>3 DEF Create
  <1>3. Sound(db') /\ StackOK(db', done')
    BY <1>1, <1>2, StackFollows DEF Follows
  <1>4. OperationOK(db', operation', done')
    BY <1>2, IdleOperation DEF Idle
  <1> QED
    BY <1>3, <1>4 DEF TreeInv

LEMMA ToggleKeepsTree ==
  ASSUME TypeInv, TreeInv, NEW d \in Drafts(db), HandleDraftToggleLock(d)
  PROVE  TreeInv'
  <1>1. Sound(db) /\ StackOK(db, done)
    BY DEF TreeInv
  <1>2. Follows(db', db, {})
    <2>1. (~db.drafts[d].locked) \in BOOLEAN
      OBVIOUS
    <2> QED
      BY <1>1, <2>1, SetDraftLockedFollows DEF HandleDraftToggleLock
  <1>3. UNCHANGED <<done, operation>> /\ Idle
    BY DEF HandleDraftToggleLock
  <1>4. Sound(db') /\ StackOK(db', done')
    BY <1>1, <1>2, <1>3, StackFollows DEF Follows
  <1>5. OperationOK(db', operation', done')
    BY <1>3, IdleOperation DEF Idle
  <1> QED
    BY <1>4, <1>5 DEF TreeInv

\* A deletion that takes the drafts of its entry, all of them live.
LEMMA RecordKeepsTree ==
  ASSUME TreeInv, NEW e \in EntryType, EntryOK(db, e), e.doomed \subseteq Live(db),
         Follows(db', db, e.doomed), done' = Append(done, e) \/ done' = <<>>,
         operation'.kind # "undo"
  PROVE  TreeInv'
  <1>1. Sound(db) /\ StackOK(db, done)
    BY DEF TreeInv
  <1>2. Sound(db')
    BY DEF Follows
  <1>3. StackOK(db', done')
    BY <1>1, StackPush, StackNone
  <1>4. OperationOK(db', operation', done')
    BY IdleOperation
  <1> QED
    BY <1>2, <1>3, <1>4 DEF TreeInv

\* The rewrites of a splice lead back to the draft that was spliced out.
LEMMA RewritesFit ==
  ASSUME NEW s, Sound(s), NEW d \in Live(s), NEW r \in Rewrites(s, d)
  PROVE  /\ r.draft \in Drafts(s) /\ ~IsRoot(s, r.draft)
         /\ d < r.draft /\ s.drafts[d].tab = s.drafts[r.draft].tab
         /\ {r.parent, r.branchedFrom} = {None, d}
  <1>1. PICK c \in Children(s, d) :
          r = [draft |-> c, parent |-> s.drafts[c].parent,
               branchedFrom |-> s.drafts[c].branchedFrom]
    BY DEF Rewrites
  <1>2. /\ c \in Drafts(s) /\ d \in Drafts(s) /\ d # None
        /\ d \in {s.drafts[c].parent, s.drafts[c].branchedFrom}
    BY SoundFacts DEF Children, None
  <1>3. None \in {s.drafts[c].parent, s.drafts[c].branchedFrom}
    BY <1>2 DEF Sound, LinksOK
  <1>4. Anchor(s, c) = d /\ ~IsRoot(s, c)
    BY <1>2, <1>3 DEF Anchor, IsRoot
  <1>5. d < c /\ s.drafts[d].tab = s.drafts[c].tab
    BY <1>2, <1>4 DEF Sound, LinksOK
  <1> QED
    BY <1>1, <1>2, <1>3, <1>4, <1>5

LEMMA DeleteKeepsTree ==
  ASSUME TypeInv, TreeInv, Delete
  PROVE  TreeInv'
  <1>1. /\ Sound(db) /\ db \in DatabaseType
        /\ Drafts(db) \subseteq DraftIds /\ Tabs(db) \subseteq TabIds
        /\ Live(db) \subseteq Drafts(db)
        /\ \A d : Subtree(db, d) \in SUBSET DraftIds /\ Rewrites(db, d) \in SUBSET Rewrite
    <2>1. /\ Sound(db) /\ db \in DatabaseType
          /\ Len(db.drafts) \in DraftIds /\ Len(db.tabs) \in TabIds
      BY DEF TypeInv, TreeInv, DatabaseOK
    <2>2. Tabs(db) \subseteq TabIds
      BY <2>1, DatabaseFacts, BoundsAssumption DEF TabIds
    <2> QED
      BY <2>1, <2>2, DoomedTyped, SoundFacts
  <1>2. ASSUME NEW t \in Tabs(db), HandleTabDelete(t) PROVE TreeInv'
    <2> DEFINE e == Entry("tab", t, {}, {})
    <2>1. e \in EntryType
      BY <1>1, EntryTyped
    <2>2. e.doomed = {} /\ e.rewrites = {}
      BY DEF Entry
    <2> HIDE DEF e
    <2>3. Follows(db', db, {})
      BY <1>1, <1>2, DeleteTabFollows DEF HandleTabDelete
    <2>4. EntryOK(db, e)
      BY <2>2 DEF EntryOK
    <2>5. (done' = Append(done, e) \/ done' = <<>>) /\ operation'.kind # "undo"
      BY <1>2 DEF HandleTabDelete, Record, Idle, e
    <2> QED
      BY <2>1, <2>2, <2>3, <2>4, <2>5, RecordKeepsTree
  <1>3. ASSUME NEW d \in Drafts(db), HandleDraftDelete(d) PROVE TreeInv'
    <2> DEFINE e == Entry("leaf", d, {d}, {})
    <2>1. e \in EntryType
      BY <1>1, EntryTyped
    <2>2. e.doomed = {d} /\ e.rewrites = {}
      BY DEF Entry
    <2> HIDE DEF e
    <2>3. d \in Live(db) /\ ~IsRoot(db, d)
      BY <1>3 DEF HandleDraftDelete, CanDelete
    <2>4. Follows(db', db, {d})
      BY <1>1, <1>3, <2>3, DeleteDraftFollows DEF HandleDraftDelete
    <2>5. EntryOK(db, e)
      BY <2>2, <2>3 DEF EntryOK
    <2>6. (done' = Append(done, e) \/ done' = <<>>) /\ operation'.kind # "undo"
      BY <1>3 DEF HandleDraftDelete, Record, Idle, e
    <2> QED
      BY <2>1, <2>2, <2>3, <2>4, <2>5, <2>6, RecordKeepsTree
  <1>4. ASSUME NEW d \in Drafts(db), HandleDeleteCascade(d) PROVE TreeInv'
    <2> DEFINE e == Entry("cascade", d, Subtree(db, d), {})
    <2>1. e \in EntryType
      BY <1>1, EntryTyped
    <2>2. e.doomed = Subtree(db, d) /\ e.rewrites = {}
      BY DEF Entry
    <2> HIDE DEF e
    <2>3. d \in Live(db) /\ ~IsRoot(db, d)
      BY <1>4 DEF HandleDeleteCascade, CanDelete
    <2>4. Follows(db', db, Subtree(db, d))
      BY <1>1, <1>4, <2>3, CascadeDeleteFollows DEF HandleDeleteCascade
    <2>5. Subtree(db, d) \subseteq Live(db) /\ \A x \in Subtree(db, d) : ~IsRoot(db, x)
      BY <1>1, <2>3, SubtreeFacts
    <2>6. EntryOK(db, e)
      BY <1>1, <2>2, <2>5 DEF EntryOK
    <2>7. (done' = Append(done, e) \/ done' = <<>>) /\ operation'.kind # "undo"
      BY <1>4 DEF HandleDeleteCascade, Record, Idle, e
    <2> QED
      BY <2>1, <2>2, <2>4, <2>5, <2>6, <2>7, RecordKeepsTree
  <1>5. ASSUME NEW d \in Drafts(db), HandleDeleteOrphan(d) PROVE TreeInv'
    <2> DEFINE e == Entry("orphan", d, {d}, Rewrites(db, d))
    <2>1. e \in EntryType
      BY <1>1, EntryTyped
    <2>2. e.doomed = {d} /\ e.rewrites = Rewrites(db, d)
      BY DEF Entry
    <2> HIDE DEF e
    <2>3. d \in Live(db) /\ ~IsRoot(db, d)
      BY <1>5 DEF HandleDeleteOrphan, CanDelete
    <2>4. Follows(db', db, {d})
      BY <1>1, <1>5, <2>3, OrphanAndDeleteFollows DEF HandleDeleteOrphan
    <2>5. EntryOK(db, e)
      BY <1>1, <2>2, <2>3, RewritesFit DEF EntryOK
    <2>6. (done' = Append(done, e) \/ done' = <<>>) /\ operation'.kind # "undo"
      BY <1>5 DEF HandleDeleteOrphan, Record, Idle, e
    <2> QED
      BY <2>1, <2>2, <2>3, <2>4, <2>5, <2>6, RecordKeepsTree
  <1> QED
    BY <1>2, <1>3, <1>4, <1>5 DEF Delete

LEMMA UndoKeepsTree ==
  ASSUME TypeInv, TreeInv, Undo
  PROVE  TreeInv'
  <1>1. /\ Sound(db) /\ StackOK(db, done) /\ OperationOK(db, operation, done)
        /\ operation \in OperationType /\ operation.entry \in EntryType
    BY DEF TypeInv, TreeInv, OperationTyped, OperationType
  <1>2. CASE StartUndo
    <2> DEFINE e == Last(done)
               n == Len(done)
    <2>1. /\ n \in Nat \ {0} /\ e = done[n] /\ e \in EntryType
      BY <1>1, <1>2, FrontFacts DEF StartUndo, StackOK
    <2>2. operation' = [kind |-> "undo", entry |-> e, restore |-> e.doomed,
                        relink |-> e.rewrites, attached |-> TRUE, redoable |-> TRUE]
      BY <1>2 DEF StartUndo
    <2>3. EntryOK(db, e) /\ \A d \in e.doomed : Anchor(db, d) \in Live(db) \union e.doomed
      <3>1. \A j \in n..n : j = n
        BY <2>1
      <3>2. n \in 1..n
        BY <2>1
      <3> QED
        BY <1>1, <2>1, <3>1, <3>2 DEF StackOK
    <2>4. OperationOK(db, operation', done)
      BY <1>2, <2>2, <2>3 DEF OperationOK, StartUndo
    <2> QED
      BY <1>1, <1>2, <2>4 DEF StartUndo, TreeInv
  <1>3. ASSUME NEW d \in operation.restore, UndoRestoresDraft(d) PROVE TreeInv'
    <2>1. /\ operation.kind = "undo" /\ Anchor(db, d) \notin operation.restore
          /\ db' = RestoreDraft(db, d) /\ done' = done
          /\ operation' = [operation EXCEPT !.restore = operation.restore \ {d}]
      BY <1>3 DEF UndoRestoresDraft
    <2>2. /\ EntryOK(db, operation.entry)
          /\ operation.restore \subseteq operation.entry.doomed
          /\ operation.relink \subseteq operation.entry.rewrites
          /\ operation.entry.doomed \ operation.restore \subseteq Live(db)
          /\ \A x \in operation.restore : Anchor(db, x) \in Live(db) \union operation.restore
          /\ operation.attached => done # <<>> /\ Last(done) = operation.entry
      BY <1>1, <2>1 DEF OperationOK
    <2>3. d \in Drafts(db) /\ ~IsRoot(db, d) /\ Anchor(db, d) \in Live(db)
      BY <1>3, <2>1, <2>2 DEF EntryOK
    <2>4. Follows(db', db, {}) /\ d \in Live(db')
      BY <1>1, <2>1, <2>3, RestoreDraftFollows
    <2>5. Sound(db') /\ StackOK(db', done') /\ EntryOK(db', operation.entry)
      BY <1>1, <2>1, <2>2, <2>4, StackFollows, EntryFollows DEF Follows
    <2>6. operation.entry.doomed \ (operation.restore \ {d}) \subseteq Live(db')
      BY <2>2, <2>4 DEF Follows
    <2>7. ASSUME NEW x \in operation.restore \ {d}
          PROVE  Anchor(db', x) \in Live(db') \union (operation.restore \ {d})
      <3>1. x \in Drafts(db)
        BY <2>2 DEF EntryOK
      <3>2. /\ Anchor(db', x) = Anchor(db, x) \/ Anchor(db', x) \in Live(db')
            /\ Live(db) \subseteq Live(db')
        BY <2>4, <3>1 DEF Follows
      <3> QED
        BY <2>2, <2>4, <3>2
    <2>8. OperationOK(db', operation', done')
      <3>1. /\ operation'.kind = "undo" /\ operation'.entry = operation.entry
            /\ operation'.restore = operation.restore \ {d}
            /\ operation'.relink = operation.relink
            /\ operation'.attached = operation.attached
        BY <1>1, <2>1 DEF OperationType
      <3> QED
        BY <2>1, <2>2, <2>5, <2>6, <2>7, <3>1 DEF OperationOK
    <2> QED
      BY <2>5, <2>8 DEF TreeInv
  <1>4. ASSUME NEW r \in operation.relink, UndoRelinksDraft(r) PROVE TreeInv'
    <2>1. /\ operation.kind = "undo" /\ operation.restore = {}
          /\ db' = ReparentDraft(db, r) /\ done' = done
          /\ operation' = [operation EXCEPT !.relink = operation.relink \ {r}]
      BY <1>4 DEF UndoRelinksDraft
    <2>2. /\ EntryOK(db, operation.entry)
          /\ operation.relink \subseteq operation.entry.rewrites
          /\ operation.entry.doomed \subseteq Live(db)
          /\ operation.attached => done # <<>> /\ Last(done) = operation.entry
      BY <1>1, <2>1 DEF OperationOK
    <2>3. r \in Rewrite /\ r \in operation.entry.rewrites
      BY <1>1, <2>2 DEF OperationType
    <2>4. /\ r.draft \in Drafts(db) /\ ~IsRoot(db, r.draft)
          /\ \E x \in operation.entry.doomed :
               /\ x < r.draft /\ db.drafts[x].tab = db.drafts[r.draft].tab
               /\ {r.parent, r.branchedFrom} = {None, x}
      BY <2>2, <2>3 DEF EntryOK
    <2>5. PICK x \in Live(db) :
            /\ x < r.draft /\ db.drafts[x].tab = db.drafts[r.draft].tab
            /\ {r.parent, r.branchedFrom} = {None, x}
      BY <2>2, <2>4
    <2>6. Follows(db', db, {}) /\ Live(db') = Live(db)
      BY <1>1, <2>1, <2>3, <2>4, <2>5, ReparentDraftFollows
    <2>7. Sound(db') /\ StackOK(db', done') /\ EntryOK(db', operation.entry)
      BY <1>1, <2>1, <2>2, <2>6, StackFollows, EntryFollows DEF Follows
    <2>8. OperationOK(db', operation', done')
      <3>1. /\ operation'.kind = "undo" /\ operation'.entry = operation.entry
            /\ operation'.restore = {}
            /\ operation'.relink = operation.relink \ {r}
            /\ operation'.attached = operation.attached
        BY <1>1, <2>1 DEF OperationType
      <3> QED
        BY <2>1, <2>2, <2>6, <2>7, <3>1 DEF OperationOK
    <2> QED
      BY <2>7, <2>8 DEF TreeInv
  <1>5. CASE FinishUndo
    <2>1. operation.kind = "undo" /\ operation.restore = {} /\ operation' = NoOperation
      BY <1>5 DEF FinishUndo
    <2>2. /\ operation.entry.doomed \subseteq Live(db)
          /\ operation.attached => done # <<>> /\ Last(done) = operation.entry
      BY <1>1, <2>1 DEF OperationOK
    <2>3. Follows(db', db, {})
      BY <1>1, <1>5, RestoreTabFollows, FollowsSelf DEF FinishUndo
    <2>4. Sound(db') /\ StackOK(db', done) /\ Live(db) \subseteq Live(db')
      BY <1>1, <2>3, StackFollows DEF Follows
    <2>5. StackOK(db', done')
      <3>1. CASE operation.attached
        <4>1. /\ done # <<>> /\ done' = Front(done)
              /\ Last(done).doomed \subseteq Live(db')
          BY <1>5, <2>2, <2>4, <3>1 DEF FinishUndo
        <4> QED
          BY <2>4, <4>1, StackPop
      <3>2. CASE ~operation.attached
        BY <1>5, <2>4, <3>2 DEF FinishUndo
      <3> QED
        BY <3>1, <3>2
    <2>6. OperationOK(db', operation', done')
      BY <2>1, IdleOperation DEF NoOperation
    <2> QED
      BY <2>4, <2>5, <2>6 DEF TreeInv
  <1> QED
    BY <1>2, <1>3, <1>4, <1>5 DEF Undo

\* A new document has one tab and its root.
LEMMA NewDocumentSound == Sound(NewDocument)
  <1> DEFINE empty == [tabs |-> <<>>, drafts |-> <<>>,
                       told |-> [tabs |-> <<>>, drafts |-> <<>>]]
             q == [empty EXCEPT !.tabs = Append(<<>>, TRUE),
                                !.told.tabs = Append(<<>>, TRUE)]
             m == NewDocument
  <1>1. /\ Append(<<>>, TRUE) \in Seq(BOOLEAN) /\ Len(Append(<<>>, TRUE)) = 1
        /\ Append(<<>>, TRUE)[1] = TRUE
    <2>1. <<>> \in Seq(BOOLEAN) /\ Len(<<>>) = 0 /\ TRUE \in BOOLEAN
      BY EmptySeq
    <2> QED
      BY <2>1, AppendProperties
  <1>2. /\ q \in DatabaseType /\ q.tabs = Append(<<>>, TRUE) /\ q.drafts = <<>>
        /\ Len(q.drafts) = 0
    BY <1>1, EmptySeq DEF DatabaseType
  <1>3. m = InsertDraft(q, 1, None, None)
    <2>1. Len(empty.tabs) + 1 = 1
      BY EmptySeq
    <2> QED
      BY <2>1 DEF NewDocument, CreateTab
  <1> HIDE DEF q, m
  <1>4. Inserted(m, q, 1, None, None)
    BY <1>2, <1>3, InsertDraftFacts, BoundsAssumption DEF TabIds
  <1>5. /\ m \in DatabaseType /\ m.tabs = q.tabs /\ Len(m.drafts) = 1
        /\ m.drafts[1].tab = 1 /\ m.drafts[1].live = TRUE
        /\ m.drafts[1].parent = None /\ m.drafts[1].branchedFrom = None
    <2>1. Len(q.drafts) + 1 = 1
      BY <1>2
    <2> QED
      BY <1>4, <2>1 DEF Inserted
  <1>6. Drafts(m) = {1} /\ Tabs(m) = {1} /\ m.tabs[1] = TRUE
    BY <1>1, <1>2, <1>5, DatabaseFacts
  <1>7. Anchor(m, 1) = None /\ IsRoot(m, 1) /\ Live(m) = {1} /\ LiveTabs(m) = {1}
    BY <1>5, <1>6 DEF Anchor, IsRoot, Live, LiveTabs
  <1>8. LinksOK(m) /\ RootsOK(m) /\ HangsOK(m)
    BY <1>5, <1>6, <1>7 DEF LinksOK, RootsOK, HangsOK
  <1>9. Sound(m)
    BY <1>5, <1>7, <1>8 DEF Sound
  <1> QED
    BY <1>9 DEF m


-----------------------------------------------------------------------------
(* An undo is exact.                                                       *)
(*                                                                         *)
(* What a deletion found is not what is there when its undo begins: other  *)
(* deletions may have been undone in part, retried, and undone since.  It  *)
(* can be told from the tree and the stack alone: a draft was live if it   *)
(* is or if this deletion or a later one took it, and its links are those  *)
(* that the first of these to rewrite them remembers, or else its own.     *)

Rewrote(e, d) == \E w \in e.rewrites : w.draft = d
LeadsTo(e, d, row) == \E w \in e.rewrites : w.draft = d /\ SameLinks(w, row)
TookTab(e, t) == e.kind = "tab" /\ e.target = t

\* Undoing the entries from the last one back to the i-th gives what that one found.
Recovers(s, stack, i) ==
  LET b == stack[i].before
  IN  /\ DOMAIN b.tabs \subseteq Tabs(s) /\ DOMAIN b.drafts \subseteq Drafts(s)
      /\ \A t \in DOMAIN b.tabs :
           b.tabs[t] <=> (s.tabs[t] \/ \E j \in i..Len(stack) : TookTab(stack[j], t))
      /\ \A d \in DOMAIN b.drafts :
           /\ b.drafts[d].live <=>
                (s.drafts[d].live \/ \E j \in i..Len(stack) : d \in stack[j].doomed)
           /\ \/ /\ SameLinks(b.drafts[d], s.drafts[d])
                 /\ \A j \in i..Len(stack) : ~Rewrote(stack[j], d)
              \/ \E j \in i..Len(stack) :
                   /\ LeadsTo(stack[j], d, b.drafts[d])
                   /\ \A k \in i..(j - 1) : ~Rewrote(stack[k], d)

\* Links that a deletion rewrote are remembered once.
OncePerDraft(e) == \A v, w \in e.rewrites : v.draft = w.draft => v = w

StackRecovers(s, stack) ==
  \A i \in 1..Len(stack) : Recovers(s, stack, i) /\ OncePerDraft(stack[i])

\* The undo under way recovers what its entry found, and the links it has dealt
\* with are those that the entry remembers.
OperationRecovers(s, op, stack) ==
  op.kind = "undo" =>
    /\ Recovers(s, <<op.entry>>, 1) /\ OncePerDraft(op.entry)
    /\ \A w \in op.entry.rewrites \ op.relink : SameLinks(w, s.drafts[w.draft])
    /\ op.attached \/ stack = <<>>

UndoInv == StackRecovers(db, done) /\ OperationRecovers(db, operation, done)

\* r comes from s by undoing some of e.
Regains(r, s, e) ==
  /\ Tabs(s) \subseteq Tabs(r) /\ Drafts(s) \subseteq Drafts(r)
  /\ \A t \in Tabs(s) : r.tabs[t] = s.tabs[t] \/ (r.tabs[t] = TRUE /\ TookTab(e, t))
  /\ \A d \in Drafts(s) :
       /\ r.drafts[d].live = s.drafts[d].live \/ (r.drafts[d].live = TRUE /\ d \in e.doomed)
       /\ SameLinks(r.drafts[d], s.drafts[d]) \/ Rewrote(e, d)

\* r comes from s by the deletion e.
Loses(r, s, e) ==
  /\ Tabs(s) = Tabs(r) /\ Drafts(s) = Drafts(r) /\ e.before = Shape(s)
  /\ \A t \in Tabs(s) : s.tabs[t] <=> (r.tabs[t] \/ TookTab(e, t))
  /\ \A d \in Drafts(s) :
       /\ s.drafts[d].live <=> (r.drafts[d].live \/ d \in e.doomed)
       /\ \/ SameLinks(r.drafts[d], s.drafts[d]) /\ ~Rewrote(e, d)
          \/ LeadsTo(e, d, s.drafts[d])

\* The drafts of e are what its kind takes from s, and its rewrites the links
\* that its splice changes.
Fits(s, e) ==
  /\ e.kind \in {"tab", "leaf", "cascade", "orphan"}
  /\ e.kind = "tab" => e.target \in LiveTabs(s) /\ e.doomed = {}
  /\ e.kind # "tab" => e.target \in Live(s)
  /\ e.kind \in {"leaf", "orphan"} => e.doomed = {e.target}
  /\ e.kind = "cascade" => e.doomed = Subtree(s, e.target)
  /\ e.doomed \subseteq Live(s)
  /\ e.rewrites = IF e.kind = "orphan" THEN Rewrites(s, e.target) ELSE {}

\* The drafts that e hands to what its target hangs off.
Handed(s, e) == IF e.kind = "orphan" THEN Children(s, e.target) ELSE {}

\* r is what e leaves of s, up to locks.
Leaves(r, s, e) ==
  /\ Tabs(r) = Tabs(s) /\ Drafts(r) = Drafts(s)
  /\ \A t \in Tabs(s) : r.tabs[t] <=> (s.tabs[t] /\ ~TookTab(e, t))
  /\ \A d \in Drafts(s) : r.drafts[d].live <=> (s.drafts[d].live /\ d \notin e.doomed)
  /\ \A d \in Drafts(s) \ Handed(s, e) : SameLinks(r.drafts[d], s.drafts[d])
  /\ \A d \in Handed(s, e) : SameLinks(r.drafts[d], SplicedLinks(s, e.target, d))

\* Everything that e took is back.
IsBack(s, e) ==
  /\ \A t \in Tabs(s) : TookTab(e, t) => s.tabs[t] = TRUE
  /\ \A d \in Drafts(s) : d \in e.doomed => s.drafts[d].live = TRUE
  /\ \A w \in e.rewrites : SameLinks(w, s.drafts[w.draft])

\* Undoing some of the last entry changes nothing about what the stack recovers.
LEMMA RegainsRecovers ==
  ASSUME NEW s, NEW r, NEW stack, NEW i \in 1..Len(stack), Len(stack) \in Nat,
         Recovers(s, stack, i), Regains(r, s, stack[Len(stack)])
  PROVE  Recovers(r, stack, i)
  <1> DEFINE n == Len(stack)
             b == stack[i].before
  <1>1. n \in i..n /\ DOMAIN b.tabs \subseteq Tabs(s) /\ DOMAIN b.drafts \subseteq Drafts(s)
    BY DEF Recovers
  <1>2. DOMAIN b.tabs \subseteq Tabs(r) /\ DOMAIN b.drafts \subseteq Drafts(r)
    BY <1>1 DEF Regains
  <1>3. ASSUME NEW t \in DOMAIN b.tabs
        PROVE  b.tabs[t] <=> (r.tabs[t] \/ \E j \in i..n : TookTab(stack[j], t))
    <2>1. b.tabs[t] <=> (s.tabs[t] \/ \E j \in i..n : TookTab(stack[j], t))
      BY <1>3 DEF Recovers
    <2>2. r.tabs[t] = s.tabs[t] \/ (r.tabs[t] = TRUE /\ TookTab(stack[n], t))
      BY <1>1, <1>3 DEF Regains
    <2> QED
      BY <1>1, <2>1, <2>2
  <1>4. ASSUME NEW d \in DOMAIN b.drafts
        PROVE  b.drafts[d].live <=>
                 (r.drafts[d].live \/ \E j \in i..n : d \in stack[j].doomed)
    <2>1. b.drafts[d].live <=> (s.drafts[d].live \/ \E j \in i..n : d \in stack[j].doomed)
      BY <1>4 DEF Recovers
    <2>2. r.drafts[d].live = s.drafts[d].live
          \/ (r.drafts[d].live = TRUE /\ d \in stack[n].doomed)
      BY <1>1, <1>4 DEF Regains
    <2> QED
      BY <1>1, <2>1, <2>2
  <1>5. ASSUME NEW d \in DOMAIN b.drafts
        PROVE  \/ /\ SameLinks(b.drafts[d], r.drafts[d])
                  /\ \A j \in i..n : ~Rewrote(stack[j], d)
               \/ \E j \in i..n : /\ LeadsTo(stack[j], d, b.drafts[d])
                                  /\ \A k \in i..(j - 1) : ~Rewrote(stack[k], d)
    <2>1. \/ /\ SameLinks(b.drafts[d], s.drafts[d])
             /\ \A j \in i..n : ~Rewrote(stack[j], d)
          \/ \E j \in i..n : /\ LeadsTo(stack[j], d, b.drafts[d])
                             /\ \A k \in i..(j - 1) : ~Rewrote(stack[k], d)
      BY <1>5 DEF Recovers
    <2>2. SameLinks(r.drafts[d], s.drafts[d]) \/ Rewrote(stack[n], d)
      BY <1>1, <1>5 DEF Regains
    <2> QED
      BY <1>1, <2>1, <2>2 DEF SameLinks
  <1> QED
    BY <1>2, <1>3, <1>4, <1>5 DEF Recovers

\* A deletion on top of the stack: what it found is recovered, and what those below it found.
LEMMA LosesRecovers ==
  ASSUME NEW s, NEW r, NEW stack, NEW e, NEW top, Len(stack) \in Nat,
         Len(top) = Len(stack) + 1, top[Len(stack) + 1] = e,
         \A j \in 1..Len(stack) : top[j] = stack[j],
         Loses(r, s, e), NEW i \in 1..Len(stack), Recovers(s, stack, i)
  PROVE  Recovers(r, top, i)
  <1> DEFINE n == Len(stack)
             b == stack[i].before
  <1>1. /\ top[i] = stack[i] /\ Len(top) = n + 1 /\ n + 1 \in i..(n + 1) /\ i \in Nat
        /\ \A j \in i..n : j \in i..(n + 1) /\ top[j] = stack[j]
        /\ \A j \in i..(n + 1) : j \in i..n \/ j = n + 1
        /\ \A j \in i..(n + 1) : \A k \in i..(j - 1) : k \in i..n
    OBVIOUS
  <1>2. /\ DOMAIN b.tabs \subseteq Tabs(s) /\ DOMAIN b.drafts \subseteq Drafts(s)
        /\ Tabs(s) = Tabs(r) /\ Drafts(s) = Drafts(r)
    BY DEF Recovers, Loses
  <1>3. ASSUME NEW t \in DOMAIN b.tabs
        PROVE  b.tabs[t] <=> (r.tabs[t] \/ \E j \in i..(n + 1) : TookTab(top[j], t))
    <2>1. b.tabs[t] <=> (s.tabs[t] \/ \E j \in i..n : TookTab(stack[j], t))
      BY <1>3 DEF Recovers
    <2>2. s.tabs[t] <=> (r.tabs[t] \/ TookTab(e, t))
      BY <1>2, <1>3 DEF Loses
    <2>3. (\E j \in i..(n + 1) : TookTab(top[j], t))
            <=> (TookTab(e, t) \/ \E j \in i..n : TookTab(stack[j], t))
      BY <1>1
    <2> QED
      BY <2>1, <2>2, <2>3
  <1>4. ASSUME NEW d \in DOMAIN b.drafts
        PROVE  b.drafts[d].live <=>
                 (r.drafts[d].live \/ \E j \in i..(n + 1) : d \in top[j].doomed)
    <2>1. b.drafts[d].live <=> (s.drafts[d].live \/ \E j \in i..n : d \in stack[j].doomed)
      BY <1>4 DEF Recovers
    <2>2. s.drafts[d].live <=> (r.drafts[d].live \/ d \in e.doomed)
      BY <1>2, <1>4 DEF Loses
    <2>3. (\E j \in i..(n + 1) : d \in top[j].doomed)
            <=> (d \in e.doomed \/ \E j \in i..n : d \in stack[j].doomed)
      BY <1>1
    <2> QED
      BY <2>1, <2>2, <2>3
  <1>5. ASSUME NEW d \in DOMAIN b.drafts
        PROVE  \/ /\ SameLinks(b.drafts[d], r.drafts[d])
                  /\ \A j \in i..(n + 1) : ~Rewrote(top[j], d)
               \/ \E j \in i..(n + 1) : /\ LeadsTo(top[j], d, b.drafts[d])
                                        /\ \A k \in i..(j - 1) : ~Rewrote(top[k], d)
    <2>1. \/ SameLinks(r.drafts[d], s.drafts[d]) /\ ~Rewrote(e, d)
          \/ LeadsTo(e, d, s.drafts[d])
      BY <1>2, <1>5 DEF Loses
    <2>2. CASE /\ SameLinks(b.drafts[d], s.drafts[d])
               /\ \A j \in i..n : ~Rewrote(stack[j], d)
      <3>1. CASE SameLinks(r.drafts[d], s.drafts[d]) /\ ~Rewrote(e, d)
        <4>1. SameLinks(b.drafts[d], r.drafts[d])
          BY <2>2, <3>1 DEF SameLinks
        <4> QED
          BY <1>1, <2>2, <3>1, <4>1
      <3>2. CASE LeadsTo(e, d, s.drafts[d])
        <4>1. LeadsTo(top[n + 1], d, b.drafts[d])
          BY <2>2, <3>2 DEF LeadsTo, SameLinks
        <4>2. \A k \in i..(n + 1 - 1) : ~Rewrote(top[k], d)
          BY <1>1, <2>2
        <4> QED
          BY <1>1, <4>1, <4>2
      <3> QED
        BY <2>1, <3>1, <3>2
    <2>3. ASSUME NEW j \in i..n, LeadsTo(stack[j], d, b.drafts[d]),
                 \A k \in i..(j - 1) : ~Rewrote(stack[k], d)
          PROVE  \E m \in i..(n + 1) : /\ LeadsTo(top[m], d, b.drafts[d])
                                       /\ \A k \in i..(m - 1) : ~Rewrote(top[k], d)
      <3>1. j \in i..(n + 1) /\ top[j] = stack[j] /\ \A k \in i..(j - 1) : top[k] = stack[k]
        BY <1>1
      <3> QED
        BY <2>3, <3>1
    <2>4. \/ /\ SameLinks(b.drafts[d], s.drafts[d])
             /\ \A j \in i..n : ~Rewrote(stack[j], d)
          \/ \E j \in i..n : /\ LeadsTo(stack[j], d, b.drafts[d])
                             /\ \A k \in i..(j - 1) : ~Rewrote(stack[k], d)
      BY <1>5 DEF Recovers
    <2> QED
      BY <2>2, <2>3, <2>4
  <1> QED
    BY <1>1, <1>2, <1>3, <1>4, <1>5 DEF Recovers

\* The shape that an entry remembers.
LEMMA ShapeFacts ==
  ASSUME NEW s
  PROVE  /\ Shape(s).tabs = s.tabs /\ DOMAIN Shape(s).tabs = Tabs(s)
         /\ DOMAIN Shape(s).drafts = Drafts(s)
         /\ \A d \in Drafts(s) : /\ Shape(s).drafts[d].live = s.drafts[d].live
                                 /\ Shape(s).drafts[d].parent = s.drafts[d].parent
                                 /\ Shape(s).drafts[d].branchedFrom = s.drafts[d].branchedFrom
  BY DEF Shape, Tabs

\* What the last deletion found is recovered by undoing it.
LEMMA TopRecovers ==
  ASSUME NEW s, NEW r, NEW top, Len(top) \in Nat \ {0}, Loses(r, s, top[Len(top)])
  PROVE  Recovers(r, top, Len(top))
  <1> DEFINE n == Len(top)
             b == top[n].before
  <1>1. /\ b.tabs = s.tabs /\ DOMAIN b.tabs = Tabs(r) /\ DOMAIN b.drafts = Drafts(r)
        /\ Tabs(s) = Tabs(r) /\ Drafts(s) = Drafts(r)
        /\ \A d \in Drafts(r) : /\ b.drafts[d].live = s.drafts[d].live
                                /\ SameLinks(b.drafts[d], s.drafts[d])
    BY ShapeFacts DEF Loses, SameLinks
  <1>2. \A j : j \in n..n <=> j = n
    OBVIOUS
  <1>3. \A k : k \notin n..(n - 1)
    OBVIOUS
  <1>4. \A t \in DOMAIN b.tabs :
          b.tabs[t] <=> (r.tabs[t] \/ \E j \in n..n : TookTab(top[j], t))
    BY <1>1, <1>2 DEF Loses
  <1>5. \A d \in DOMAIN b.drafts :
          b.drafts[d].live <=> (r.drafts[d].live \/ \E j \in n..n : d \in top[j].doomed)
    BY <1>1, <1>2 DEF Loses
  <1>6. ASSUME NEW d \in DOMAIN b.drafts
        PROVE  \/ /\ SameLinks(b.drafts[d], r.drafts[d])
                  /\ \A j \in n..n : ~Rewrote(top[j], d)
               \/ \E j \in n..n : /\ LeadsTo(top[j], d, b.drafts[d])
                                  /\ \A k \in n..(j - 1) : ~Rewrote(top[k], d)
    <2>1. \/ SameLinks(r.drafts[d], s.drafts[d]) /\ ~Rewrote(top[n], d)
          \/ LeadsTo(top[n], d, s.drafts[d])
      BY <1>1, <1>6 DEF Loses
    <2>2. SameLinks(b.drafts[d], s.drafts[d])
      BY <1>1, <1>6
    <2>3. CASE SameLinks(r.drafts[d], s.drafts[d]) /\ ~Rewrote(top[n], d)
      <3>1. SameLinks(b.drafts[d], r.drafts[d])
        BY <2>2, <2>3 DEF SameLinks
      <3> QED
        BY <1>2, <2>3, <3>1
    <2>4. CASE LeadsTo(top[n], d, s.drafts[d])
      <3>1. LeadsTo(top[n], d, b.drafts[d])
        BY <2>2, <2>4 DEF LeadsTo, SameLinks
      <3> QED
        BY <1>2, <1>3, <3>1
    <2> QED
      BY <2>1, <2>3, <2>4
  <1> QED
    BY <1>1, <1>4, <1>5, <1>6 DEF Recovers

\* The last entry of a stack on its own.
LEMMA LastRecovers ==
  ASSUME NEW s, NEW stack, Len(stack) \in Nat \ {0}, Recovers(s, stack, Len(stack)),
         NEW e, e = stack[Len(stack)]
  PROVE  Recovers(s, <<e>>, 1)
  <1> DEFINE n == Len(stack)
  <1>1. Len(<<e>>) = 1 /\ <<e>>[1] = e /\ stack[n] = e
    OBVIOUS
  <1>2. /\ \A j : j \in n..n <=> j = n
        /\ \A j : j \in 1..1 <=> j = 1
        /\ \A k : k \notin n..(n - 1) /\ k \notin 1..(1 - 1)
    OBVIOUS
  <1> DEFINE one == <<e>>
  <1>3. Len(one) = 1 /\ one[1] = e
    BY <1>1
  <1> HIDE DEF one
  <1>4. Recovers(s, one, 1)
    BY <1>1, <1>2, <1>3 DEF Recovers
  <1> QED
    BY <1>4 DEF one

\* The last entry comes off when everything it took is back.
LEMMA BackRecovers ==
  ASSUME NEW s, NEW stack, NEW rest, Len(stack) \in Nat \ {0}, Len(rest) = Len(stack) - 1,
         \A j \in 1..(Len(stack) - 1) : rest[j] = stack[j],
         IsBack(s, stack[Len(stack)]), NEW i \in 1..(Len(stack) - 1), Recovers(s, stack, i)
  PROVE  Recovers(s, rest, i)
  <1> DEFINE n == Len(stack)
             m == Len(rest)
             b == stack[i].before
  <1>1. /\ rest[i] = stack[i] /\ i \in Nat /\ n \in i..n /\ m = n - 1
        /\ \A j \in i..m : j \in i..n /\ rest[j] = stack[j]
        /\ \A j \in i..n : j \in i..m \/ j = n
        /\ \A k : k \in i..(n - 1) <=> k \in i..m
    <2>1. n \in Nat \ {0} /\ m = n - 1 /\ i \in 1..(n - 1)
          /\ \A j \in 1..(n - 1) : rest[j] = stack[j]
      OBVIOUS
    <2> HIDE DEF n, m
    <2>2. i \in Nat /\ 1 <= i /\ i <= n - 1
      BY <2>1
    <2>3. \A j \in i..m : j \in i..n /\ j \in 1..(n - 1)
      BY <2>1, <2>2
    <2>4. \A j \in i..n : j \in i..m \/ j = n
      BY <2>1, <2>2
    <2> QED
      BY <2>1, <2>2, <2>3, <2>4
  <1>2. DOMAIN b.tabs \subseteq Tabs(s) /\ DOMAIN b.drafts \subseteq Drafts(s)
    BY DEF Recovers
  <1>3. ASSUME NEW t \in DOMAIN b.tabs
        PROVE  b.tabs[t] <=> (s.tabs[t] \/ \E j \in i..m : TookTab(rest[j], t))
    <2>1. b.tabs[t] <=> (s.tabs[t] \/ \E j \in i..n : TookTab(stack[j], t))
      BY <1>3 DEF Recovers
    <2>2. TookTab(stack[n], t) => s.tabs[t]
      BY <1>2, <1>3 DEF IsBack
    <2> QED
      BY <1>1, <2>1, <2>2
  <1>4. ASSUME NEW d \in DOMAIN b.drafts
        PROVE  b.drafts[d].live <=>
                 (s.drafts[d].live \/ \E j \in i..m : d \in rest[j].doomed)
    <2>1. b.drafts[d].live <=> (s.drafts[d].live \/ \E j \in i..n : d \in stack[j].doomed)
      BY <1>4 DEF Recovers
    <2>2. d \in stack[n].doomed => s.drafts[d].live
      BY <1>2, <1>4 DEF IsBack
    <2> QED
      BY <1>1, <2>1, <2>2
  <1>5. ASSUME NEW d \in DOMAIN b.drafts
        PROVE  \/ /\ SameLinks(b.drafts[d], s.drafts[d])
                  /\ \A j \in i..m : ~Rewrote(rest[j], d)
               \/ \E j \in i..m : /\ LeadsTo(rest[j], d, b.drafts[d])
                                  /\ \A k \in i..(j - 1) : ~Rewrote(rest[k], d)
    <2>1. \/ /\ SameLinks(b.drafts[d], s.drafts[d])
             /\ \A j \in i..n : ~Rewrote(stack[j], d)
          \/ \E j \in i..n : /\ LeadsTo(stack[j], d, b.drafts[d])
                             /\ \A k \in i..(j - 1) : ~Rewrote(stack[k], d)
      BY <1>5 DEF Recovers
    <2>2. CASE /\ SameLinks(b.drafts[d], s.drafts[d])
               /\ \A j \in i..n : ~Rewrote(stack[j], d)
      BY <1>1, <2>2
    <2>3. ASSUME NEW j \in i..n, LeadsTo(stack[j], d, b.drafts[d]),
                 \A k \in i..(j - 1) : ~Rewrote(stack[k], d)
          PROVE  \/ /\ SameLinks(b.drafts[d], s.drafts[d])
                    /\ \A l \in i..m : ~Rewrote(rest[l], d)
                 \/ \E l \in i..m : /\ LeadsTo(rest[l], d, b.drafts[d])
                                    /\ \A k \in i..(l - 1) : ~Rewrote(rest[k], d)
      <3>1. CASE j = n
        <4>1. SameLinks(b.drafts[d], s.drafts[d])
          BY <2>3, <3>1 DEF LeadsTo, IsBack, SameLinks
        <4>2. \A l \in i..m : ~Rewrote(rest[l], d)
          BY <1>1, <2>3, <3>1
        <4> QED
          BY <4>1, <4>2
      <3>2. CASE j # n
        <4>1. j \in i..m /\ rest[j] = stack[j]
          BY <1>1, <3>2
        <4>2. \A k \in i..(j - 1) : k \in i..m
          BY <1>1, <4>1
        <4>3. \A k \in i..(j - 1) : ~Rewrote(rest[k], d)
          BY <1>1, <2>3, <4>2
        <4> QED
          BY <2>3, <4>1, <4>3
      <3> QED
        BY <3>1, <3>2
    <2> QED
      BY <2>1, <2>2, <2>3
  <1> QED
    BY <1>1, <1>2, <1>3, <1>4, <1>5 DEF Recovers

\* A deletion all of which is back is undone exactly.
LEMMA BackIsExact ==
  ASSUME NEW s \in DatabaseType, NEW e \in EntryType, Recovers(s, <<e>>, 1), IsBack(s, e)
  PROVE  Extends(Shape(s), e.before)
  <1> DEFINE one == <<e>>
             b == e.before
  <1>1. Len(one) = 1 /\ one[1] = e /\ Recovers(s, one, 1)
    OBVIOUS
  <1> HIDE DEF one
  <1>2. /\ \A j : j \in 1..1 <=> j = 1
        /\ \A k : k \notin 1..(1 - 1)
    OBVIOUS
  <1>3. /\ b \in ShapeType /\ b.tabs \in Seq(BOOLEAN)
        /\ b.drafts \in Seq([live : BOOLEAN, parent : {None} \union DraftIds,
                             branchedFrom : {None} \union DraftIds])
    BY DEF EntryType, ShapeType
  <1>4. /\ \A t \in DOMAIN b.tabs : b.tabs[t] \in BOOLEAN
        /\ \A d \in DOMAIN b.drafts :
             b.drafts[d] \in [live : BOOLEAN, parent : {None} \union DraftIds,
                              branchedFrom : {None} \union DraftIds]
    BY <1>3, ElementOfSeq, LenProperties
  <1>5. DOMAIN b.tabs \subseteq Tabs(s) /\ DOMAIN b.drafts \subseteq Drafts(s)
    BY <1>1 DEF Recovers
  <1>6. /\ \A t \in Tabs(s) : s.tabs[t] \in BOOLEAN
        /\ \A d \in Drafts(s) : s.drafts[d] \in DraftType
    BY DatabaseFacts
  <1>7. ASSUME NEW t \in DOMAIN b.tabs PROVE Shape(s).tabs[t] = b.tabs[t]
    <2>1. b.tabs[t] <=> (s.tabs[t] \/ TookTab(e, t))
      BY <1>1, <1>2 DEF Recovers
    <2>2. TookTab(e, t) => s.tabs[t] = TRUE
      BY <1>5 DEF IsBack
    <2>3. b.tabs[t] = s.tabs[t]
      BY <1>4, <1>5, <1>6, <2>1, <2>2
    <2> QED
      BY <2>3, ShapeFacts
  <1>8. ASSUME NEW d \in DOMAIN b.drafts PROVE Shape(s).drafts[d] = b.drafts[d]
    <2>1. b.drafts[d].live <=> (s.drafts[d].live \/ d \in e.doomed)
      BY <1>1, <1>2 DEF Recovers
    <2>2. d \in e.doomed => s.drafts[d].live = TRUE
      BY <1>5 DEF IsBack
    <2>3. b.drafts[d].live \in BOOLEAN /\ s.drafts[d].live \in BOOLEAN
      BY <1>4, <1>5, <1>6 DEF DraftType
    <2>4. b.drafts[d].live = s.drafts[d].live
      BY <2>1, <2>2, <2>3
    <2>5. SameLinks(b.drafts[d], s.drafts[d]) \/ LeadsTo(e, d, b.drafts[d])
      BY <1>1, <1>2 DEF Recovers
    <2>6. SameLinks(b.drafts[d], s.drafts[d])
      BY <2>5 DEF LeadsTo, IsBack, SameLinks
    <2>7. Shape(s).drafts[d] = [live |-> s.drafts[d].live, parent |-> s.drafts[d].parent,
                               branchedFrom |-> s.drafts[d].branchedFrom]
      BY <1>5 DEF Shape
    <2>8. b.drafts[d] = [live |-> b.drafts[d].live, parent |-> b.drafts[d].parent,
                         branchedFrom |-> b.drafts[d].branchedFrom]
      BY <1>4
    <2> QED
      BY <2>4, <2>6, <2>7, <2>8 DEF SameLinks
  <1> QED
    BY <1>7, <1>8 DEF Extends

-----------------------------------------------------------------------------
(* What each command undoes or takes.                                      *)

\* Rows that are there keep their liveness and their links.
Kept(r, s) ==
  /\ Tabs(s) \subseteq Tabs(r) /\ Drafts(s) \subseteq Drafts(r)
  /\ \A t \in Tabs(s) : r.tabs[t] = s.tabs[t]
  /\ \A d \in Drafts(s) : r.drafts[d].live = s.drafts[d].live
                          /\ SameLinks(r.drafts[d], s.drafts[d])

LEMMA KeptRegains ==
  ASSUME NEW r, NEW s, Kept(r, s), NEW e
  PROVE  Regains(r, s, e)
  BY DEF Kept, Regains

\* Relocking does not count.
LEMMA SameTreeKept ==
  ASSUME NEW m \in DatabaseType, NEW r \in DatabaseType, SameTree(r, m)
  PROVE  Kept(r, m) /\ Drafts(r) = Drafts(m) /\ Tabs(r) = Tabs(m)
  <1>1. Drafts(r) = Drafts(m) /\ Tabs(r) = Tabs(m) /\ Drafts(m) = 1..Len(m.drafts)
    BY DatabaseFacts DEF SameTree, Tabs
  <1> QED
    BY <1>1 DEF SameTree, Kept, SameLinks

\* A deletion that fits gives the stack an entry that recovers.
LEMMA LeavesLoses ==
  ASSUME NEW s, NEW r, NEW e, Fits(s, e), Leaves(r, s, e), e.before = Shape(s)
  PROVE  Loses(r, s, e) /\ OncePerDraft(e)
  <1>1. \A t \in Tabs(s) : s.tabs[t] <=> (r.tabs[t] \/ TookTab(e, t))
    BY DEF Fits, Leaves, TookTab, LiveTabs
  <1>2. \A d \in Drafts(s) : s.drafts[d].live <=> (r.drafts[d].live \/ d \in e.doomed)
    BY DEF Fits, Leaves, Live
  <1>3. \A w \in e.rewrites :
          /\ w.draft \in Handed(s, e)
          /\ w = [draft |-> w.draft, parent |-> s.drafts[w.draft].parent,
                  branchedFrom |-> s.drafts[w.draft].branchedFrom]
    BY DEF Fits, Rewrites, Handed
  <1>4. ASSUME NEW d \in Handed(s, e) PROVE LeadsTo(e, d, s.drafts[d])
    <2> DEFINE w == [draft |-> d, parent |-> s.drafts[d].parent,
                     branchedFrom |-> s.drafts[d].branchedFrom]
    <2>1. w \in e.rewrites
      BY <1>4 DEF Fits, Rewrites, Handed
    <2>2. w.draft = d /\ SameLinks(w, s.drafts[d])
      BY DEF SameLinks
    <2> QED
      BY <2>1, <2>2 DEF LeadsTo
  <1>5. ASSUME NEW d \in Drafts(s), d \notin Handed(s, e)
        PROVE  SameLinks(r.drafts[d], s.drafts[d]) /\ ~Rewrote(e, d)
    BY <1>3, <1>5 DEF Leaves, Rewrote
  <1>6. Loses(r, s, e)
    BY <1>1, <1>2, <1>4, <1>5 DEF Loses, Leaves
  <1>7. OncePerDraft(e)
    BY <1>3 DEF OncePerDraft
  <1> QED
    BY <1>6, <1>7

LEMMA RelockLeaves ==
  ASSUME NEW s, NEW e, NEW seeds, NEW m \in DatabaseType, Leaves(m, s, e),
         Handed(s, e) \subseteq Drafts(s)
  PROVE  Leaves(Relock(m, seeds), s, e)
  <1> DEFINE r == Relock(m, seeds)
  <1>1. Kept(r, m) /\ Drafts(r) = Drafts(m) /\ Tabs(r) = Tabs(m)
    BY RelockKeepsTree, SameTreeKept
  <1> HIDE DEF r
  <1>2. /\ Tabs(r) = Tabs(s) /\ Drafts(r) = Drafts(s)
        /\ \A t \in Tabs(s) : r.tabs[t] = m.tabs[t]
        /\ \A d \in Drafts(s) : r.drafts[d].live = m.drafts[d].live
                                /\ SameLinks(r.drafts[d], m.drafts[d])
    BY <1>1 DEF Leaves, Kept
  <1>3. /\ \A t \in Tabs(s) : r.tabs[t] <=> (s.tabs[t] /\ ~TookTab(e, t))
        /\ \A d \in Drafts(s) : r.drafts[d].live <=> (s.drafts[d].live /\ d \notin e.doomed)
    BY <1>2 DEF Leaves
  <1>4. /\ \A d \in Drafts(s) \ Handed(s, e) : SameLinks(r.drafts[d], s.drafts[d])
        /\ \A d \in Handed(s, e) : SameLinks(r.drafts[d], SplicedLinks(s, e.target, d))
    BY <1>2 DEF Leaves, SameLinks
  <1>5. Leaves(r, s, e)
    BY <1>2, <1>3, <1>4 DEF Leaves
  <1> QED
    BY <1>5 DEF r

LEMMA RelockParentLeaves ==
  ASSUME NEW s, NEW e, NEW d, NEW m \in DatabaseType, Leaves(m, s, e),
         Handed(s, e) \subseteq Drafts(s)
  PROVE  Leaves(RelockParent(m, d), s, e)
  BY RelockLeaves DEF RelockParent

\* r is s with new rows, which hang off live drafts of s or off nothing.
Created(r, s) ==
  /\ Kept(r, s)
  /\ \A d \in Drafts(r) \ Drafts(s) :
       /\ r.drafts[d].parent \in {None} \union Live(s)
       /\ r.drafts[d].branchedFrom \in {None} \union Live(s)

LEMMA InsertedCreated ==
  ASSUME NEW s \in DatabaseType, NEW r, NEW tab, NEW parent \in {None} \union Live(s),
         NEW branchedFrom \in {None} \union Live(s),
         Inserted(r, s, tab, parent, branchedFrom)
  PROVE  Created(r, s)
  <1> DEFINE n == Len(s.drafts)
  <1>1. /\ r \in DatabaseType /\ r.tabs = s.tabs /\ Len(r.drafts) = n + 1
        /\ \A d \in 1..n : r.drafts[d] = s.drafts[d]
        /\ r.drafts[n + 1].parent = parent /\ r.drafts[n + 1].branchedFrom = branchedFrom
    BY DEF Inserted
  <1>2. Drafts(s) = 1..n /\ Drafts(r) = 1..Len(r.drafts) /\ n \in Nat
    BY <1>1, DatabaseFacts
  <1>3. Drafts(s) \subseteq Drafts(r) /\ Drafts(r) \ Drafts(s) = {n + 1}
    BY <1>1, <1>2
  <1>4. Kept(r, s)
    BY <1>1, <1>2, <1>3 DEF Kept, SameLinks, Tabs
  <1> QED
    BY <1>1, <1>3, <1>4 DEF Created

LEMMA CreateTabCreated ==
  ASSUME NEW s \in DatabaseType, Len(s.tabs) + 1 \in TabIds
  PROVE  Created(CreateTab(s), s)
  <1> DEFINE k == Len(s.tabs)
             q == [s EXCEPT !.tabs = Append(s.tabs, TRUE),
                            !.told.tabs = Append(s.told.tabs, TRUE)]
             m == CreateTab(s)
  <1>1. /\ Append(s.tabs, TRUE) \in Seq(BOOLEAN)
        /\ Append(s.told.tabs, TRUE) \in Seq(BOOLEAN)
        /\ Len(Append(s.tabs, TRUE)) = k + 1
        /\ \A t \in 1..k : Append(s.tabs, TRUE)[t] = s.tabs[t]
        /\ k \in Nat /\ Tabs(s) = 1..k
    <2>1. s.tabs \in Seq(BOOLEAN) /\ s.told.tabs \in Seq(BOOLEAN) /\ k \in Nat /\ Tabs(s) = 1..k
      BY DatabaseFacts
    <2>2. TRUE \in BOOLEAN
      OBVIOUS
    <2> QED
      BY <2>1, <2>2, AppendProperties
  <1>2. q \in DatabaseType /\ q.tabs = Append(s.tabs, TRUE) /\ q.drafts = s.drafts
    BY <1>1 DEF DatabaseType
  <1>3. m = InsertDraft(q, k + 1, None, None)
    BY DEF CreateTab, DatabaseType
  <1> HIDE DEF q, m
  <1>4. Created(m, q)
    BY <1>2, <1>3, InsertDraftFacts, InsertedCreated
  <1>5. Tabs(q) = 1..(k + 1) /\ \A t \in 1..k : q.tabs[t] = s.tabs[t]
    <2>1. Tabs(q) = 1..Len(q.tabs)
      BY <1>2, DatabaseFacts
    <2> QED
      BY <2>1, <1>1, <1>2
  <1>6. Tabs(s) \subseteq Tabs(q) /\ Drafts(s) = Drafts(q) /\ Live(s) = Live(q)
    BY <1>1, <1>2, <1>5 DEF Drafts, Live
  <1>7. Kept(m, s)
    BY <1>1, <1>2, <1>4, <1>5, <1>6 DEF Created, Kept, SameLinks
  <1>8. Created(m, s)
    BY <1>4, <1>6, <1>7 DEF Created
  <1> QED
    BY <1>8 DEF m

LEMMA RelockCreated ==
  ASSUME NEW s, NEW seeds, NEW m \in DatabaseType, Created(m, s)
  PROVE  Created(Relock(m, seeds), s)
  <1> DEFINE r == Relock(m, seeds)
  <1>1. Kept(r, m) /\ Drafts(r) = Drafts(m)
    BY RelockKeepsTree, SameTreeKept
  <1> HIDE DEF r
  <1>2. Created(r, s)
    BY <1>1 DEF Created, Kept, SameLinks
  <1> QED
    BY <1>2 DEF r

LEMMA IterateCreated ==
  ASSUME NEW s \in DatabaseType, NEW d \in DraftIds, d \in Live(s)
  PROVE  Created(IterateDraft(s, d), s)
  <1> DEFINE m == InsertDraft(s, s.drafts[d].tab, d, None)
             seeds == {Len(s.drafts) + 1}
  <1>1. s.drafts[d].tab \in TabIds
    BY DatabaseFacts DEF DraftType, Live
  <1>2. Inserted(m, s, s.drafts[d].tab, d, None)
    BY <1>1, InsertDraftFacts
  <1> HIDE DEF m
  <1>3. m \in DatabaseType /\ Created(m, s)
    BY <1>2, InsertedCreated DEF Inserted
  <1> HIDE DEF seeds
  <1>4. Created(Relock(m, seeds), s)
    BY <1>3, RelockCreated
  <1> QED
    BY <1>4 DEF IterateDraft, m, seeds

LEMMA BranchCreated ==
  ASSUME NEW s \in DatabaseType, NEW d \in DraftIds, d \in Live(s)
  PROVE  Created(BranchDraft(s, d), s)
  <1> DEFINE m == InsertDraft(s, s.drafts[d].tab, None, d)
  <1>1. s.drafts[d].tab \in TabIds
    BY DatabaseFacts DEF DraftType, Live
  <1>2. Inserted(m, s, s.drafts[d].tab, None, d)
    BY <1>1, InsertDraftFacts
  <1> HIDE DEF m
  <1>3. Created(m, s)
    BY <1>2, InsertedCreated
  <1> QED
    BY <1>3 DEF BranchDraft, m

\* The calls of an undo.
LEMMA RestoreDraftRows ==
  ASSUME NEW s \in DatabaseType, NEW d, NEW r, r = RestoreDraft(s, d)
  PROVE  /\ Tabs(r) = Tabs(s) /\ Drafts(r) = Drafts(s)
         /\ \A t \in Tabs(s) : r.tabs[t] = s.tabs[t]
         /\ \A x \in Drafts(s) :
              /\ r.drafts[x].live = IF x = d THEN TRUE ELSE s.drafts[x].live
              /\ SameLinks(r.drafts[x], s.drafts[x])
  <1> DEFINE m == SetLive(s, {d}, TRUE)
  <1>1. Marked(m, s, {d}, TRUE)
    BY SetLiveFacts
  <1>2. r = Relock(m, {d})
    BY DEF RestoreDraft
  <1> HIDE DEF m
  <1>3. /\ m \in DatabaseType /\ m.tabs = s.tabs
        /\ Drafts(m) = Drafts(s) /\ Tabs(m) = Tabs(s) /\ Drafts(s) = 1..Len(s.drafts)
    BY <1>1, MarkedFacts, DatabaseFacts DEF Marked
  <1>4. \A x \in Drafts(s) :
          /\ SameLinks(m.drafts[x], s.drafts[x])
          /\ m.drafts[x].live = IF x = d THEN TRUE ELSE s.drafts[x].live
    BY <1>1, <1>3 DEF Marked, SameLinks
  <1>5. Kept(r, m) /\ Drafts(r) = Drafts(m) /\ Tabs(r) = Tabs(m)
    BY <1>2, <1>3, RelockKeepsTree, SameTreeKept
  <1> QED
    BY <1>3, <1>4, <1>5 DEF Kept, SameLinks

LEMMA RestoreDraftRegains ==
  ASSUME NEW s \in DatabaseType, NEW d, NEW e, d \in e.doomed
  PROVE  Regains(RestoreDraft(s, d), s, e)
  <1> DEFINE r == RestoreDraft(s, d)
  <1>1. /\ Tabs(r) = Tabs(s) /\ Drafts(r) = Drafts(s)
        /\ \A t \in Tabs(s) : r.tabs[t] = s.tabs[t]
        /\ \A x \in Drafts(s) :
             /\ r.drafts[x].live = IF x = d THEN TRUE ELSE s.drafts[x].live
             /\ SameLinks(r.drafts[x], s.drafts[x])
    BY RestoreDraftRows
  <1> HIDE DEF r
  <1>2. Regains(r, s, e)
    BY <1>1 DEF Regains
  <1> QED
    BY <1>2 DEF r

LEMMA ReparentRows ==
  ASSUME NEW s \in DatabaseType, NEW w \in Rewrite, NEW r, r = ReparentDraft(s, w)
  PROVE  /\ Tabs(r) = Tabs(s) /\ Drafts(r) = Drafts(s)
         /\ \A t \in Tabs(s) : r.tabs[t] = s.tabs[t]
         /\ \A c \in Drafts(s) :
              /\ r.drafts[c].live = s.drafts[c].live
              /\ c # w.draft => SameLinks(r.drafts[c], s.drafts[c])
              /\ c = w.draft => SameLinks(w, r.drafts[c])
  <1> DEFINE m == [s EXCEPT !.drafts[w.draft].parent = w.parent,
                            !.drafts[w.draft].branchedFrom = w.branchedFrom]
  <1>1. Relinked(m, s, w)
    BY RelinkedFacts
  <1>2. r = Relock(m, {w.draft})
    BY DEF ReparentDraft
  <1> HIDE DEF m
  <1>3. /\ m \in DatabaseType /\ m.tabs = s.tabs
        /\ Drafts(m) = Drafts(s) /\ Tabs(m) = Tabs(s) /\ Drafts(s) = 1..Len(s.drafts)
    <2>1. m \in DatabaseType /\ m.tabs = s.tabs /\ Len(m.drafts) = Len(s.drafts)
      BY <1>1 DEF Relinked
    <2> QED
      BY <2>1, DatabaseFacts DEF Tabs
  <1>4. \A c \in Drafts(s) :
          /\ m.drafts[c].live = s.drafts[c].live
          /\ c # w.draft => SameLinks(m.drafts[c], s.drafts[c])
          /\ c = w.draft => SameLinks(w, m.drafts[c])
    BY <1>1, <1>3 DEF Relinked, SameLinks
  <1>5. Kept(r, m) /\ Drafts(r) = Drafts(m) /\ Tabs(r) = Tabs(m)
    BY <1>2, <1>3, RelockKeepsTree, SameTreeKept
  <1> QED
    BY <1>3, <1>4, <1>5 DEF Kept, SameLinks

LEMMA ReparentRegains ==
  ASSUME NEW s \in DatabaseType, NEW w \in Rewrite, NEW e, w \in e.rewrites
  PROVE  Regains(ReparentDraft(s, w), s, e)
  <1>1. \A c \in Drafts(s) : c = w.draft => Rewrote(e, c)
    BY DEF Rewrote
  <1> QED
    BY <1>1, ReparentRows DEF Regains

LEMMA TabMarkedRows ==
  ASSUME NEW s \in DatabaseType, NEW t, NEW live, NEW r, TabMarked(r, s, t, live)
  PROVE  /\ r \in DatabaseType /\ r.drafts = s.drafts
         /\ Tabs(r) = Tabs(s) /\ Drafts(r) = Drafts(s) /\ Tabs(s) = 1..Len(s.tabs)
  <1>1. r \in DatabaseType /\ r.drafts = s.drafts /\ Len(r.tabs) = Len(s.tabs)
    BY DEF TabMarked
  <1>2. Tabs(r) = Tabs(s) /\ Tabs(s) = 1..Len(s.tabs) /\ Drafts(r) = Drafts(s)
    BY <1>1, DatabaseFacts DEF Drafts
  <1> QED
    BY <1>1, <1>2 DEF TabMarked

LEMMA RestoreTabRegains ==
  ASSUME NEW s \in DatabaseType, NEW t, NEW e, TookTab(e, t)
  PROVE  Regains(RestoreTab(s, t), s, e)
  <1> DEFINE r == RestoreTab(s, t)
  <1>1. TabMarked(r, s, t, TRUE)
    BY SetTabFacts DEF RestoreTab
  <1> HIDE DEF r
  <1>2. /\ r.drafts = s.drafts /\ Tabs(r) = Tabs(s) /\ Drafts(r) = Drafts(s)
        /\ \A x \in Tabs(s) : r.tabs[x] = IF x = t THEN TRUE ELSE s.tabs[x]
    <2>1. /\ r.drafts = s.drafts /\ Tabs(r) = Tabs(s) /\ Drafts(r) = Drafts(s)
          /\ Tabs(s) = 1..Len(s.tabs)
      BY <1>1, TabMarkedRows
    <2> QED
      BY <1>1, <2>1 DEF TabMarked
  <1>3. Regains(r, s, e)
    BY <1>2 DEF Regains, SameLinks
  <1> QED
    BY <1>3 DEF r

\* The deletions.
LEMMA DeleteTabLeaves ==
  ASSUME NEW s \in DatabaseType, NEW e, e.kind = "tab", e.doomed = {}
  PROVE  Leaves(DeleteTab(s, e.target), s, e)
  <1> DEFINE t == e.target
             r == DeleteTab(s, t)
  <1>1. TabMarked(r, s, t, FALSE)
    BY SetTabFacts DEF DeleteTab
  <1> HIDE DEF r
  <1>2. /\ r.drafts = s.drafts /\ Tabs(r) = Tabs(s) /\ Drafts(r) = Drafts(s)
        /\ \A x \in Tabs(s) : r.tabs[x] = IF x = t THEN FALSE ELSE s.tabs[x]
    <2>1. /\ r.drafts = s.drafts /\ Tabs(r) = Tabs(s) /\ Drafts(r) = Drafts(s)
          /\ Tabs(s) = 1..Len(s.tabs)
      BY <1>1, TabMarkedRows
    <2> QED
      BY <1>1, <2>1 DEF TabMarked
  <1>3. ASSUME NEW x \in Tabs(s) PROVE r.tabs[x] <=> (s.tabs[x] /\ ~TookTab(e, x))
    <2>1. r.tabs[x] = IF x = t THEN FALSE ELSE s.tabs[x]
      BY <1>2, <1>3
    <2>2. TookTab(e, x) <=> x = t
      BY DEF TookTab
    <2> QED
      BY <2>1, <2>2
  <1>4. Leaves(r, s, e)
    BY <1>2, <1>3 DEF Leaves, Handed, SameLinks
  <1> QED
    BY <1>4 DEF r

\* Drafts that are marked dead and nothing else.
LEMMA BuriedLeaves ==
  ASSUME NEW s \in DatabaseType, NEW e, e.kind # "tab", e.kind # "orphan"
  PROVE  /\ SetLive(s, e.doomed, FALSE) \in DatabaseType
         /\ Leaves(SetLive(s, e.doomed, FALSE), s, e)
         /\ Handed(s, e) \subseteq Drafts(s)
  <1> DEFINE m == SetLive(s, e.doomed, FALSE)
  <1>1. Marked(m, s, e.doomed, FALSE)
    BY SetLiveFacts
  <1> HIDE DEF m
  <1>2. /\ m \in DatabaseType /\ m.tabs = s.tabs
        /\ Drafts(m) = Drafts(s) /\ Tabs(m) = Tabs(s) /\ Drafts(s) = 1..Len(s.drafts)
    BY <1>1, MarkedFacts, DatabaseFacts DEF Marked
  <1>3. \A t \in Tabs(s) : m.tabs[t] <=> (s.tabs[t] /\ ~TookTab(e, t))
    BY <1>2 DEF TookTab
  <1>4. \A d \in Drafts(s) :
          /\ SameLinks(m.drafts[d], s.drafts[d])
          /\ m.drafts[d].live = IF d \in e.doomed THEN FALSE ELSE s.drafts[d].live
    BY <1>1, <1>2 DEF Marked, SameLinks
  <1>5. Handed(s, e) = {}
    BY DEF Handed
  <1>6. Leaves(m, s, e)
    BY <1>2, <1>3, <1>4, <1>5 DEF Leaves
  <1> QED
    BY <1>2, <1>5, <1>6 DEF m

LEMMA DeleteDraftLeaves ==
  ASSUME NEW s \in DatabaseType, NEW e, e.kind = "leaf", e.doomed = {e.target}
  PROVE  Leaves(DeleteDraft(s, e.target), s, e)
  <1> DEFINE d == e.target
             m == SetLive(s, {d}, FALSE)
  <1>1. m \in DatabaseType /\ Leaves(m, s, e) /\ Handed(s, e) \subseteq Drafts(s)
    <2>1. e.kind # "tab" /\ e.kind # "orphan" /\ m = SetLive(s, e.doomed, FALSE)
      OBVIOUS
    <2> QED
      BY <2>1, BuriedLeaves
  <1> HIDE DEF m
  <1>2. Leaves(RelockParent(m, d), s, e)
    BY <1>1, RelockParentLeaves
  <1> QED
    BY <1>2 DEF DeleteDraft, m

LEMMA CascadeDeleteLeaves ==
  ASSUME NEW s \in DatabaseType, NEW e, e.kind = "cascade", e.doomed = Subtree(s, e.target)
  PROVE  Leaves(CascadeDelete(s, e.target), s, e)
  <1> DEFINE d == e.target
             m == SetLive(s, Subtree(s, d), FALSE)
  <1>1. m \in DatabaseType /\ Leaves(m, s, e) /\ Handed(s, e) \subseteq Drafts(s)
    <2>1. e.kind # "tab" /\ e.kind # "orphan" /\ m = SetLive(s, e.doomed, FALSE)
      OBVIOUS
    <2> QED
      BY <2>1, BuriedLeaves
  <1> HIDE DEF m
  <1>2. Leaves(RelockParent(m, d), s, e)
    BY <1>1, RelockParentLeaves
  <1> QED
    BY <1>2 DEF CascadeDelete, m

LEMMA OrphanAndDeleteLeaves ==
  ASSUME NEW s \in DatabaseType, NEW e, e.kind = "orphan", e.doomed = {e.target},
         e.target \in Drafts(s)
  PROVE  Leaves(OrphanAndDelete(s, e.target), s, e)
  <1> DEFINE d == e.target
             kids == Children(s, d)
             q == [s EXCEPT !.drafts =
                     [c \in Drafts(s) |-> IF c \in Children(s, d) THEN Spliced(s, d, c)
                                                                 ELSE s.drafts[c]]]
             m == SetLive(q, {d}, FALSE)
             seeds == kids \union ({s.drafts[d].parent} \ {None})
  <1>1. SplicedAs(q, s, d)
    BY SplicedFacts
  <1> HIDE DEF q
  <1>2. /\ q \in DatabaseType /\ Marked(m, q, {d}, FALSE)
        /\ q.tabs = s.tabs /\ Len(q.drafts) = Len(s.drafts)
    BY <1>1, SetLiveFacts DEF SplicedAs
  <1> HIDE DEF m
  <1>3. /\ m \in DatabaseType /\ m.tabs = s.tabs
        /\ Drafts(m) = Drafts(s) /\ Tabs(m) = Tabs(s) /\ Drafts(s) = 1..Len(s.drafts)
    <2>1. m \in DatabaseType /\ m.tabs = s.tabs /\ Len(m.drafts) = Len(s.drafts)
      BY <1>2 DEF Marked
    <2> QED
      BY <2>1, DatabaseFacts DEF Tabs
  <1>4. Handed(s, e) = kids /\ kids \subseteq Drafts(s)
    BY DEF Handed, Children, Live
  <1>5. \A c \in Drafts(s) :
          /\ q.drafts[c].live = s.drafts[c].live
          /\ c \notin kids => q.drafts[c] = s.drafts[c]
          /\ c \in kids => SameLinks(q.drafts[c], SplicedLinks(s, d, c))
    BY <1>1, <1>3 DEF SplicedAs
  <1>6. \A c \in Drafts(s) :
          /\ SameLinks(m.drafts[c], q.drafts[c])
          /\ m.drafts[c].live = IF c \in {d} THEN FALSE ELSE q.drafts[c].live
    BY <1>2, <1>3 DEF Marked, SameLinks
  <1>7. \A t \in Tabs(s) : m.tabs[t] <=> (s.tabs[t] /\ ~TookTab(e, t))
    BY <1>3 DEF TookTab
  <1>8. /\ \A c \in Drafts(s) : m.drafts[c].live <=> (s.drafts[c].live /\ c \notin e.doomed)
        /\ \A c \in Drafts(s) \ kids : SameLinks(m.drafts[c], s.drafts[c])
        /\ \A c \in kids : SameLinks(m.drafts[c], SplicedLinks(s, d, c))
    BY <1>4, <1>5, <1>6 DEF SameLinks
  <1>9. Leaves(m, s, e)
    BY <1>3, <1>4, <1>7, <1>8 DEF Leaves
  <1> HIDE DEF seeds
  <1>10. Leaves(Relock(m, seeds), s, e)
    BY <1>3, <1>4, <1>9, RelockLeaves
  <1>11. OrphanAndDelete(s, d) = Relock(m, seeds)
    BY DEF OrphanAndDelete, q, m, seeds
  <1> QED
    BY <1>10, <1>11

-----------------------------------------------------------------------------
(* The steps.                                                              *)

LEMMA StackRegains ==
  ASSUME NEW s, NEW r, NEW stack \in Seq(EntryType), StackRecovers(s, stack),
         stack # <<>> => Regains(r, s, Last(stack))
  PROVE  StackRecovers(r, stack)
  <1> SUFFICES ASSUME NEW i \in 1..Len(stack) PROVE Recovers(r, stack, i)
    BY DEF StackRecovers
  <1>1. Len(stack) \in Nat /\ stack # <<>>
    BY EmptySeq, LenProperties
  <1>2. Recovers(s, stack, i) /\ Regains(r, s, stack[Len(stack)])
    BY <1>1, FrontFacts DEF StackRecovers
  <1> QED
    BY <1>1, <1>2, RegainsRecovers

LEMMA OneRegains ==
  ASSUME NEW s, NEW r, NEW e, Recovers(s, <<e>>, 1), Regains(r, s, e)
  PROVE  Recovers(r, <<e>>, 1)
  <1> DEFINE one == <<e>>
  <1>1. Len(one) = 1 /\ one[1] = e /\ Recovers(s, one, 1)
    OBVIOUS
  <1> HIDE DEF one
  <1>2. Recovers(r, one, 1)
    BY <1>1, RegainsRecovers
  <1> QED
    BY <1>2 DEF one

LEMMA NoneRecovers == \A s : StackRecovers(s, <<>>)
  <1>1. Len(<<>>) = 0
    BY EmptySeq
  <1> QED
    BY <1>1 DEF StackRecovers

LEMMA IdleRecovers ==
  ASSUME NEW s, NEW op, NEW stack, op.kind # "undo"
  PROVE  OperationRecovers(s, op, stack)
  BY DEF OperationRecovers

\* A command that takes nothing.
LEMMA KeptKeepsUndo ==
  ASSUME TypeInv, UndoInv, Kept(db', db), UNCHANGED <<done, operation>>, Idle
  PROVE  UndoInv'
  <1>1. done \in Seq(EntryType)
    BY DEF TypeInv, StackTyped
  <1>2. StackRecovers(db', done)
    BY <1>1, KeptRegains, StackRegains DEF UndoInv
  <1>3. OperationRecovers(db', operation', done')
    BY IdleRecovers DEF Idle
  <1> QED
    BY <1>2, <1>3 DEF UndoInv

\* A creation adds rows that hang off live ones.
LEMMA CreateMakes ==
  ASSUME TypeInv, Create
  PROVE  Created(db', db) /\ UNCHANGED <<done, operation>> /\ undone' = <<>> /\ Idle
  <1>1. /\ db \in DatabaseType /\ Drafts(db) \subseteq DraftIds
        /\ Len(db.tabs) \in TabIds
    BY DoomedTyped DEF TypeInv, DatabaseOK
  <1>2. CASE HandleTabCreate
    <2>1. Len(db.tabs) + 1 \in TabIds
      BY <1>1, <1>2, BoundsAssumption DEF HandleTabCreate, TabIds
    <2> QED
      BY <1>1, <1>2, <2>1, CreateTabCreated DEF HandleTabCreate
  <1>3. ASSUME NEW d \in Drafts(db), HandleDraftIterate(d)
        PROVE  Created(db', db) /\ UNCHANGED <<done, operation>> /\ undone' = <<>> /\ Idle
    <2>1. d \in Live(db)
      BY <1>3 DEF HandleDraftIterate, Shown
    <2> QED
      BY <1>1, <1>3, <2>1, IterateCreated DEF HandleDraftIterate
  <1>4. ASSUME NEW d \in Drafts(db), HandleDraftBranch(d)
        PROVE  Created(db', db) /\ UNCHANGED <<done, operation>> /\ undone' = <<>> /\ Idle
    <2>1. d \in Live(db)
      BY <1>4 DEF HandleDraftBranch, Shown
    <2> QED
      BY <1>1, <1>4, <2>1, BranchCreated DEF HandleDraftBranch
  <1> QED
    BY <1>2, <1>3, <1>4 DEF Create

LEMMA CreateKeepsUndo ==
  ASSUME TypeInv, UndoInv, Create
  PROVE  UndoInv'
  BY CreateMakes, KeptKeepsUndo DEF Created

\* A lock set by hand leaves the rows as they are.
LEMMA ToggleKeepsRows ==
  ASSUME TypeInv, NEW d \in Drafts(db), HandleDraftToggleLock(d)
  PROVE  /\ Kept(db', db) /\ Drafts(db') = Drafts(db) /\ Tabs(db') = Tabs(db)
         /\ UNCHANGED <<done, operation>> /\ undone' = <<>> /\ Idle
  <1>1. db \in DatabaseType /\ (~db.drafts[d].locked) \in BOOLEAN
    BY DEF TypeInv, DatabaseOK
  <1>2. /\ Kept(SetDraftLocked(db, d, ~db.drafts[d].locked), db)
        /\ Drafts(SetDraftLocked(db, d, ~db.drafts[d].locked)) = Drafts(db)
        /\ Tabs(SetDraftLocked(db, d, ~db.drafts[d].locked)) = Tabs(db)
    BY <1>1, SetDraftLockedFacts, SameTreeKept
  <1> QED
    BY <1>2 DEF HandleDraftToggleLock

LEMMA ToggleKeepsUndo ==
  ASSUME TypeInv, UndoInv, NEW d \in Drafts(db), HandleDraftToggleLock(d)
  PROVE  UndoInv'
  BY ToggleKeepsRows, KeptKeepsUndo

\* A deletion goes on top of the stack, or the history is lost with its document.
LEMMA RecordKeepsUndo ==
  ASSUME TypeInv, UndoInv, NEW e \in EntryType, OncePerDraft(e), Loses(db', db, e),
         done' = Append(done, e) \/ done' = <<>>, operation'.kind # "undo"
  PROVE  UndoInv'
  <1> DEFINE n == Len(done)
             top == Append(done, e)
  <1>1. done \in Seq(EntryType) /\ n \in Nat
    BY LenProperties DEF TypeInv, StackTyped
  <1>2. /\ Len(top) = n + 1 /\ top[n + 1] = e
        /\ \A j \in 1..n : top[j] = done[j]
    BY <1>1, AppendProperties
  <1> HIDE DEF top
  <1>3. Recovers(db', top, n + 1)
    <2>1. Len(top) \in Nat \ {0} /\ top[Len(top)] = e
      BY <1>1, <1>2
    <2>2. Recovers(db', top, Len(top))
      BY <2>1, TopRecovers
    <2> QED
      BY <1>2, <2>2
  <1>4. ASSUME NEW i \in 1..n PROVE Recovers(db', top, i)
    <2>1. Recovers(db, done, i)
      BY <1>4 DEF UndoInv, StackRecovers
    <2> QED
      BY <1>1, <1>2, <2>1, LosesRecovers
  <1>5. ASSUME NEW i \in 1..(n + 1) PROVE Recovers(db', top, i) /\ OncePerDraft(top[i])
    <2>1. i \in 1..n \/ i = n + 1
      BY <1>1
    <2> QED
      BY <1>2, <1>3, <1>4, <2>1 DEF UndoInv, StackRecovers
  <1>6. StackRecovers(db', top)
    BY <1>2, <1>5 DEF StackRecovers
  <1>7. StackRecovers(db', done')
    BY <1>6, NoneRecovers DEF top
  <1>8. OperationRecovers(db', operation', done')
    BY IdleRecovers
  <1> QED
    BY <1>7, <1>8 DEF UndoInv

\* What each deletion records.
LEMMA DeleteTakes ==
  ASSUME TypeInv, TreeInv, Delete
  PROVE  \E e \in EntryType : /\ Fits(db, e) /\ Leaves(db', db, e) /\ e.before = Shape(db)
                              /\ Record(e) /\ Idle /\ UNCHANGED operation
  <1>1. /\ Sound(db) /\ db \in DatabaseType
        /\ Drafts(db) \subseteq DraftIds /\ Tabs(db) \subseteq TabIds
        /\ \A d : Subtree(db, d) \in SUBSET DraftIds /\ Rewrites(db, d) \in SUBSET Rewrite
    <2>1. /\ Sound(db) /\ db \in DatabaseType
          /\ Len(db.drafts) \in DraftIds /\ Len(db.tabs) \in TabIds
      BY DEF TypeInv, TreeInv, DatabaseOK
    <2>2. Tabs(db) \subseteq TabIds
      BY <2>1, DatabaseFacts, BoundsAssumption DEF TabIds
    <2> QED
      BY <2>1, <2>2, DoomedTyped
  <1> DEFINE Taken(e) == /\ Fits(db, e) /\ Leaves(db', db, e) /\ e.before = Shape(db)
                         /\ Record(e) /\ Idle /\ UNCHANGED operation
  <1>2. ASSUME NEW t \in Tabs(db), HandleTabDelete(t) PROVE \E e \in EntryType : Taken(e)
    <2> DEFINE e == Entry("tab", t, {}, {})
    <2>1. e \in EntryType
      BY <1>1, EntryTyped
    <2>2. /\ e.kind = "tab" /\ e.target = t /\ e.doomed = {} /\ e.rewrites = {}
          /\ e.before = Shape(db)
      BY DEF Entry
    <2>3. t \in LiveTabs(db) /\ db' = DeleteTab(db, t)
          /\ Record(e) /\ Idle /\ UNCHANGED operation
      BY <1>2 DEF HandleTabDelete
    <2> HIDE DEF e
    <2>4. Fits(db, e) /\ Leaves(db', db, e)
      BY <1>1, <2>2, <2>3, DeleteTabLeaves DEF Fits
    <2> QED
      BY <2>1, <2>2, <2>3, <2>4
  <1>3. ASSUME NEW d \in Drafts(db), HandleDraftDelete(d) PROVE \E e \in EntryType : Taken(e)
    <2> DEFINE e == Entry("leaf", d, {d}, {})
    <2>1. e \in EntryType
      BY <1>1, EntryTyped
    <2>2. /\ e.kind = "leaf" /\ e.target = d /\ e.doomed = {d} /\ e.rewrites = {}
          /\ e.before = Shape(db)
      BY DEF Entry
    <2>3. d \in Live(db) /\ db' = DeleteDraft(db, d)
          /\ Record(e) /\ Idle /\ UNCHANGED operation
      BY <1>3 DEF HandleDraftDelete
    <2> HIDE DEF e
    <2>4. Fits(db, e) /\ Leaves(db', db, e)
      BY <1>1, <2>2, <2>3, DeleteDraftLeaves DEF Fits
    <2> QED
      BY <2>1, <2>2, <2>3, <2>4
  <1>4. ASSUME NEW d \in Drafts(db), HandleDeleteCascade(d)
        PROVE  \E e \in EntryType : Taken(e)
    <2> DEFINE e == Entry("cascade", d, Subtree(db, d), {})
    <2>1. e \in EntryType
      BY <1>1, EntryTyped
    <2>2. /\ e.kind = "cascade" /\ e.target = d /\ e.doomed = Subtree(db, d)
          /\ e.rewrites = {} /\ e.before = Shape(db)
      BY DEF Entry
    <2>3. d \in Live(db) /\ ~IsRoot(db, d) /\ db' = CascadeDelete(db, d)
          /\ Record(e) /\ Idle /\ UNCHANGED operation
      BY <1>4 DEF HandleDeleteCascade, CanDelete
    <2> HIDE DEF e
    <2>4. Subtree(db, d) \subseteq Live(db)
      BY <1>1, <2>3, SubtreeFacts
    <2>5. Fits(db, e) /\ Leaves(db', db, e)
      BY <1>1, <2>2, <2>3, <2>4, CascadeDeleteLeaves DEF Fits
    <2> QED
      BY <2>1, <2>2, <2>3, <2>5
  <1>5. ASSUME NEW d \in Drafts(db), HandleDeleteOrphan(d) PROVE \E e \in EntryType : Taken(e)
    <2> DEFINE e == Entry("orphan", d, {d}, Rewrites(db, d))
    <2>1. e \in EntryType
      BY <1>1, EntryTyped
    <2>2. /\ e.kind = "orphan" /\ e.target = d /\ e.doomed = {d}
          /\ e.rewrites = Rewrites(db, d) /\ e.before = Shape(db)
      BY DEF Entry
    <2>3. d \in Live(db) /\ db' = OrphanAndDelete(db, d)
          /\ Record(e) /\ Idle /\ UNCHANGED operation
      BY <1>5 DEF HandleDeleteOrphan
    <2> HIDE DEF e
    <2>4. Fits(db, e) /\ Leaves(db', db, e)
      BY <1>1, <2>2, <2>3, OrphanAndDeleteLeaves DEF Fits
    <2> QED
      BY <2>1, <2>2, <2>3, <2>4
  <1> QED
    BY <1>2, <1>3, <1>4, <1>5 DEF Delete

LEMMA DeleteKeepsUndo ==
  ASSUME TypeInv, TreeInv, UndoInv, Delete
  PROVE  UndoInv'
  <1>1. PICK e \in EntryType :
          /\ Fits(db, e) /\ Leaves(db', db, e) /\ e.before = Shape(db)
          /\ Record(e) /\ Idle /\ UNCHANGED operation
    BY DeleteTakes
  <1>2. (done' = Append(done, e) \/ done' = <<>>) /\ operation'.kind # "undo"
    BY <1>1 DEF Record, Idle
  <1> QED
    BY <1>1, <1>2, LeavesLoses, RecordKeepsUndo

\* What an undo under way knows of itself and of the stack.
LEMMA UnderWay ==
  ASSUME TypeInv, TreeInv, UndoInv, operation.kind = "undo"
  PROVE  /\ db \in DatabaseType /\ done \in Seq(EntryType)
         /\ operation \in OperationType /\ operation.entry \in EntryType
         /\ operation.restore \subseteq operation.entry.doomed
         /\ operation.relink \subseteq operation.entry.rewrites
         /\ operation.entry.doomed \ operation.restore \subseteq Live(db)
         /\ done # <<>> => operation.attached /\ Last(done) = operation.entry
         /\ StackRecovers(db, done) /\ Recovers(db, <<operation.entry>>, 1)
         /\ OncePerDraft(operation.entry)
         /\ \A w \in operation.entry.rewrites \ operation.relink :
              SameLinks(w, db.drafts[w.draft])
         /\ \A w \in operation.entry.rewrites : w.draft \in Drafts(db)
         /\ operation.attached => done # <<>>
         /\ operation.attached \/ done = <<>>
  BY DEF TypeInv, TreeInv, UndoInv, DatabaseOK, StackTyped, OperationTyped, OperationType,
         OperationOK, OperationRecovers, EntryOK

\* When the last call has returned, all that the entry took is back.
LEMMA FinishBringsBack ==
  ASSUME TypeInv, TreeInv, UndoInv, FinishUndo
  PROVE  /\ db' \in DatabaseType /\ Regains(db', db, operation.entry)
         /\ IsBack(db', operation.entry)
  <1> DEFINE e == operation.entry
  <1>1. /\ operation.kind = "undo" /\ operation.restore = {} /\ operation.relink = {}
        /\ db' = IF e.kind = "tab" THEN RestoreTab(db, e.target) ELSE db
    BY DEF FinishUndo
  <1>2. /\ db \in DatabaseType /\ e.doomed \subseteq Live(db)
        /\ \A w \in e.rewrites : SameLinks(w, db.drafts[w.draft])
    BY <1>1, UnderWay
  <1>3. \A d \in Drafts(db) : d \in e.doomed => db.drafts[d].live = TRUE
    BY <1>2, DatabaseFacts DEF Live, DraftType
  <1>4. CASE e.kind = "tab"
    <2>1. /\ db' = RestoreTab(db, e.target) /\ TookTab(e, e.target)
          /\ \A t : TookTab(e, t) => t = e.target
      BY <1>1, <1>4 DEF TookTab
    <2>2. Regains(db', db, e)
      BY <1>2, <2>1, RestoreTabRegains
    <2>3. /\ db'.drafts = db.drafts /\ Tabs(db') = Tabs(db) /\ db' \in DatabaseType
          /\ \A x \in Tabs(db) : db'.tabs[x] = IF x = e.target THEN TRUE ELSE db.tabs[x]
      <3>1. TabMarked(db', db, e.target, TRUE)
        BY <1>2, <2>1, SetTabFacts DEF RestoreTab
      <3>2. /\ db'.drafts = db.drafts /\ Tabs(db') = Tabs(db) /\ db' \in DatabaseType
            /\ Tabs(db) = 1..Len(db.tabs)
        BY <1>2, <3>1, TabMarkedRows
      <3> QED
        BY <3>1, <3>2 DEF TabMarked
    <2>4. IsBack(db', e)
      BY <1>2, <1>3, <2>1, <2>3 DEF IsBack, Drafts
    <2> QED
      BY <2>2, <2>3, <2>4
  <1>5. CASE e.kind # "tab"
    <2>1. db' = db
      BY <1>1, <1>5
    <2>2. Regains(db, db, e) /\ IsBack(db, e)
      BY <1>2, <1>3, <1>5 DEF Regains, IsBack, SameLinks, TookTab
    <2> QED
      BY <1>2, <2>1, <2>2
  <1> QED
    BY <1>4, <1>5

\* A finished undo gives back what its deletion found.
LEMMA FinishIsExact ==
  ASSUME TypeInv, TreeInv, UndoInv, FinishUndo
  PROVE  Extends(Shape(db'), operation.entry.before)
  <1>1. operation.kind = "undo"
    BY DEF FinishUndo
  <1>2. operation.entry \in EntryType /\ Recovers(db, <<operation.entry>>, 1)
    BY <1>1, UnderWay
  <1>3. /\ db' \in DatabaseType /\ IsBack(db', operation.entry)
        /\ Recovers(db', <<operation.entry>>, 1)
    BY <1>2, FinishBringsBack, OneRegains
  <1> QED
    BY <1>2, <1>3, BackIsExact

LEMMA UndoKeepsUndo ==
  ASSUME TypeInv, TreeInv, UndoInv, Undo
  PROVE  UndoInv'
  <1>1. CASE StartUndo
    <2> DEFINE e == Last(done)
               n == Len(done)
    <2>1. done \in Seq(EntryType) /\ done # <<>>
      BY <1>1 DEF StartUndo, TypeInv, StackTyped
    <2>2. n \in Nat \ {0} /\ e = done[n] /\ n \in 1..n
      <3>1. n \in Nat \ {0} /\ e = done[n]
        BY <2>1, FrontFacts
      <3> HIDE DEF n, e
      <3> QED
        BY <3>1
    <2>3. Recovers(db, done, n) /\ OncePerDraft(e)
      BY <2>2 DEF UndoInv, StackRecovers
    <2>4. Recovers(db, <<e>>, 1)
      BY <2>2, <2>3, LastRecovers
    <2> HIDE DEF e, n
    <2>5. /\ operation'.kind = "undo" /\ operation'.entry = e
          /\ operation'.relink = e.rewrites /\ operation'.attached
          /\ UNCHANGED <<db, done>>
      BY <1>1 DEF StartUndo, e
    <2> QED
      BY <2>3, <2>4, <2>5 DEF UndoInv, OperationRecovers
  <1>2. ASSUME NEW d \in operation.restore, UndoRestoresDraft(d) PROVE UndoInv'
    <2> DEFINE e == operation.entry
    <2>1. /\ operation.kind = "undo" /\ db' = RestoreDraft(db, d) /\ done' = done
          /\ operation' = [operation EXCEPT !.restore = operation.restore \ {d}]
      BY <1>2 DEF UndoRestoresDraft
    <2>2. /\ d \in e.doomed /\ db \in DatabaseType /\ done \in Seq(EntryType)
          /\ done # <<>> => Last(done) = e
          /\ StackRecovers(db, done) /\ Recovers(db, <<e>>, 1) /\ OncePerDraft(e)
          /\ \A w \in e.rewrites \ operation.relink : SameLinks(w, db.drafts[w.draft])
          /\ \A w \in e.rewrites : w.draft \in Drafts(db)
          /\ operation.attached \/ done = <<>>
      BY <2>1, UnderWay
    <2>3. /\ operation'.kind = "undo" /\ operation'.entry = e
          /\ operation'.relink = operation.relink
          /\ operation'.attached = operation.attached
      BY <2>1, UnderWay DEF OperationType
    <2>4. Regains(db', db, e)
      BY <2>1, <2>2, RestoreDraftRegains
    <2>5. \A x \in Drafts(db) : SameLinks(db'.drafts[x], db.drafts[x])
      BY <2>1, <2>2, RestoreDraftRows
    <2> HIDE DEF e
    <2>6. StackRecovers(db', done) /\ Recovers(db', <<e>>, 1)
      BY <2>2, <2>4, StackRegains, OneRegains
    <2>7. \A w \in e.rewrites \ operation.relink : SameLinks(w, db'.drafts[w.draft])
      BY <2>2, <2>5 DEF SameLinks
    <2> QED
      BY <2>1, <2>2, <2>3, <2>6, <2>7 DEF UndoInv, OperationRecovers
  <1>3. ASSUME NEW v \in operation.relink, UndoRelinksDraft(v) PROVE UndoInv'
    <2> DEFINE e == operation.entry
    <2>1. /\ operation.kind = "undo" /\ db' = ReparentDraft(db, v) /\ done' = done
          /\ operation' = [operation EXCEPT !.relink = operation.relink \ {v}]
      BY <1>3 DEF UndoRelinksDraft
    <2>2. /\ v \in e.rewrites /\ v \in Rewrite
          /\ db \in DatabaseType /\ done \in Seq(EntryType)
          /\ done # <<>> => Last(done) = e
          /\ StackRecovers(db, done) /\ Recovers(db, <<e>>, 1) /\ OncePerDraft(e)
          /\ \A w \in e.rewrites \ operation.relink : SameLinks(w, db.drafts[w.draft])
          /\ \A w \in e.rewrites : w.draft \in Drafts(db)
          /\ operation.attached \/ done = <<>>
      BY <2>1, UnderWay DEF OperationType
    <2>3. /\ operation'.kind = "undo" /\ operation'.entry = e
          /\ operation'.relink = operation.relink \ {v}
          /\ operation'.attached = operation.attached
      BY <2>1, UnderWay DEF OperationType
    <2>4. /\ Regains(db', db, e) /\ SameLinks(v, db'.drafts[v.draft])
          /\ \A c \in Drafts(db) : c # v.draft => SameLinks(db'.drafts[c], db.drafts[c])
      BY <2>1, <2>2, ReparentRegains, ReparentRows
    <2> HIDE DEF e
    <2>5. StackRecovers(db', done) /\ Recovers(db', <<e>>, 1)
      BY <2>2, <2>4, StackRegains, OneRegains
    <2>6. ASSUME NEW w \in e.rewrites \ (operation.relink \ {v})
          PROVE  SameLinks(w, db'.drafts[w.draft])
      <3>1. CASE w.draft = v.draft
        BY <2>2, <2>4, <3>1 DEF OncePerDraft
      <3>2. CASE w.draft # v.draft
        <4>1. SameLinks(w, db.drafts[w.draft]) /\ w.draft \in Drafts(db)
          BY <2>2, <3>2
        <4>2. SameLinks(db'.drafts[w.draft], db.drafts[w.draft])
          BY <2>4, <3>2, <4>1
        <4> QED
          BY <4>1, <4>2 DEF SameLinks
      <3> QED
        BY <3>1, <3>2
    <2> QED
      BY <2>1, <2>2, <2>3, <2>5, <2>6 DEF UndoInv, OperationRecovers
  <1>4. CASE FinishUndo
    <2> DEFINE e == operation.entry
               n == Len(done)
               rest == Front(done)
    <2>1. operation.kind = "undo" /\ operation' = NoOperation
      BY <1>4 DEF FinishUndo
    <2>2. /\ done \in Seq(EntryType) /\ StackRecovers(db, done)
          /\ done # <<>> => Last(done) = e
          /\ operation.attached => done # <<>>
      BY <2>1, UnderWay
    <2>3. Regains(db', db, e) /\ IsBack(db', e)
      BY <1>4, FinishBringsBack
    <2>4. StackRecovers(db', done)
      BY <2>2, <2>3, StackRegains
    <2>5. StackRecovers(db', done')
      <3>1. CASE operation.attached
        <4>1. done # <<>> /\ done' = rest
          BY <1>4, <2>2, <3>1 DEF FinishUndo
        <4>2. /\ n \in Nat \ {0} /\ done[n] = e
              /\ Len(rest) = n - 1 /\ \A i \in 1..(n - 1) : rest[i] = done[i]
          BY <2>2, <4>1, FrontFacts
        <4> HIDE DEF rest
        <4>3. ASSUME NEW i \in 1..(n - 1)
              PROVE  Recovers(db', rest, i) /\ OncePerDraft(rest[i])
          <5>1. i \in 1..n
            BY <4>2
          <5>2. Recovers(db', done, i) /\ OncePerDraft(done[i])
            BY <2>4, <5>1 DEF StackRecovers
          <5>3. Recovers(db', rest, i)
            BY <2>3, <4>2, <5>2, BackRecovers
          <5> QED
            BY <4>2, <5>2, <5>3
        <4>4. StackRecovers(db', rest)
          BY <4>2, <4>3 DEF StackRecovers
        <4> QED
          BY <4>1, <4>4
      <3>2. CASE ~operation.attached
        BY <1>4, <2>4, <3>2 DEF FinishUndo
      <3> QED
        BY <3>1, <3>2
    <2>6. OperationRecovers(db', operation', done')
      BY <2>1, IdleRecovers DEF NoOperation
    <2> QED
      BY <2>5, <2>6 DEF UndoInv
  <1> QED
    BY <1>1, <1>2, <1>3, <1>4 DEF Undo


-----------------------------------------------------------------------------
(* A redo takes what its undo brought back.                                *)
(*                                                                         *)
(* A redo computes its deletion afresh, and nothing in the tree says that  *)
(* it comes to the same.  The reason is in the past and in the future of   *)
(* the document: when no call fails, there are trees that the deletions on *)
(* done lead through to this one, each of which its deletion fits, and     *)
(* trees that those on undone will lead to.                                *)

\* The same rows, live and linked alike; only locks and the log may differ.
Alike(r, s) ==
  /\ Tabs(r) = Tabs(s) /\ Drafts(r) = Drafts(s)
  /\ \A t \in Tabs(s) : r.tabs[t] <=> s.tabs[t]
  /\ \A d \in Drafts(s) :
       (r.drafts[d].live <=> s.drafts[d].live) /\ SameLinks(r.drafts[d], s.drafts[d])

\* T[k] is what the k-th deletion found, up to the tabs and drafts made since.
Past(T, stack) ==
  LET n == Len(stack)
  IN  /\ \A k \in 1..(n + 1) : Tabs(T[k]) = Tabs(T[n + 1]) /\ Drafts(T[k]) = Drafts(T[n + 1])
      /\ \A k \in 1..n : Fits(T[k], stack[k]) /\ Leaves(T[k + 1], T[k], stack[k])
      /\ \A k \in 1..(n + 1) : \A j \in 1..(k - 1) :
           \A d \in stack[j].doomed : d \notin Live(T[k])

\* U[k] is what redoing the entries from the last to the k-th leads to.
Future(U, stack) ==
  \A k \in 1..Len(stack) : Fits(U[k + 1], stack[k]) /\ Leaves(U[k], U[k + 1], stack[k])

HasPast(now, stack) == \E T : T[Len(stack) + 1] = now /\ Past(T, stack)
HasFuture(now, stack) == \E U : U[Len(stack) + 1] = now /\ Future(U, stack)

\* The same deletion, whatever it found.
SameDeletion(e, f) ==
  /\ e.kind = f.kind /\ e.target = f.target
  /\ e.doomed = f.doomed /\ e.rewrites = f.rewrites

LEMMA SameDeletionFits ==
  ASSUME NEW e, NEW f, SameDeletion(e, f), NEW s, Fits(s, e)
  PROVE  Fits(s, f) /\ \A r : Leaves(r, s, e) => Leaves(r, s, f)
  <1>1. Handed(s, e) = Handed(s, f) /\ \A t : TookTab(e, t) <=> TookTab(f, t)
    BY DEF SameDeletion, Handed, TookTab
  <1>2. Fits(s, f)
    BY DEF SameDeletion, Fits
  <1> QED
    BY <1>1, <1>2 DEF SameDeletion, Leaves

LEMMA AlikeFacts ==
  ASSUME NEW r, NEW s, Alike(r, s)
  PROVE  /\ Live(r) = Live(s) /\ LiveTabs(r) = LiveTabs(s)
         /\ \A d : Children(r, d) = Children(s, d)
         /\ \A d : Subtree(r, d) = Subtree(s, d) /\ Rewrites(r, d) = Rewrites(s, d)
         /\ \A d, c \in Drafts(s) : SplicedLinks(r, d, c) = SplicedLinks(s, d, c)
  <1>1. Live(r) = Live(s) /\ LiveTabs(r) = LiveTabs(s) /\ Live(s) \subseteq Drafts(s)
    BY DEF Alike, Live, LiveTabs
  <1>2. \A c \in Drafts(s) : /\ r.drafts[c].parent = s.drafts[c].parent
                             /\ r.drafts[c].branchedFrom = s.drafts[c].branchedFrom
    BY DEF Alike, SameLinks
  <1>3. \A d : Children(r, d) = Children(s, d)
    BY <1>1, <1>2 DEF Children
  <1>4. \A d : Subtree(r, d) = Subtree(s, d)
    BY <1>3 DEF Subtree, Alike
  <1>5. ASSUME NEW d PROVE Rewrites(r, d) = Rewrites(s, d)
    <2>1. \A c \in Children(s, d) : c \in Drafts(s)
      BY <1>1 DEF Children
    <2>2. \A c \in Children(s, d) :
            [draft |-> c, parent |-> r.drafts[c].parent,
             branchedFrom |-> r.drafts[c].branchedFrom]
            = [draft |-> c, parent |-> s.drafts[c].parent,
               branchedFrom |-> s.drafts[c].branchedFrom]
      BY <1>2, <2>1
    <2>3. Rewrites(r, d) = {[draft |-> c, parent |-> r.drafts[c].parent,
                             branchedFrom |-> r.drafts[c].branchedFrom] : c \in Children(s, d)}
      BY <1>3 DEF Rewrites
    <2> QED
      BY <2>2, <2>3 DEF Rewrites
  <1>6. \A d, c \in Drafts(s) : SplicedLinks(r, d, c) = SplicedLinks(s, d, c)
    BY <1>2 DEF SplicedLinks, Anchor
  <1> QED
    BY <1>1, <1>3, <1>4, <1>5, <1>6

LEMMA AlikeFits ==
  ASSUME NEW r, NEW s, Alike(r, s), NEW e, Fits(s, e)
  PROVE  Fits(r, e) /\ Handed(r, e) = Handed(s, e)
  <1>1. /\ Live(r) = Live(s) /\ LiveTabs(r) = LiveTabs(s)
        /\ Children(r, e.target) = Children(s, e.target)
        /\ Subtree(r, e.target) = Subtree(s, e.target)
        /\ Rewrites(r, e.target) = Rewrites(s, e.target)
    BY AlikeFacts
  <1> QED
    BY <1>1 DEF Fits, Handed

\* The drafts that a deletion hands on are there, and so is its target then.
LEMMA HandedThere ==
  ASSUME NEW s, NEW e, Fits(s, e)
  PROVE  /\ Handed(s, e) \subseteq Drafts(s)
         /\ Handed(s, e) # {} => e.target \in Drafts(s)
  BY DEF Handed, Fits, Children, Live

\* What a deletion leaves depends on the rows it finds, not on locks or the log.
LEMMA AlikeLeaves ==
  ASSUME NEW r, NEW s, Alike(r, s), NEW p, NEW q, Alike(p, q), NEW e,
         Fits(s, e), Leaves(q, s, e)
  PROVE  Leaves(p, r, e)
  <1>1. /\ Tabs(p) = Tabs(r) /\ Drafts(p) = Drafts(r)
        /\ Tabs(q) = Tabs(s) /\ Drafts(q) = Drafts(s) /\ Tabs(r) = Tabs(s)
        /\ Drafts(r) = Drafts(s)
    BY DEF Alike, Leaves
  <1>2. \A t \in Tabs(r) : p.tabs[t] <=> (r.tabs[t] /\ ~TookTab(e, t))
    BY <1>1 DEF Alike, Leaves
  <1>3. \A d \in Drafts(r) : p.drafts[d].live <=> (r.drafts[d].live /\ d \notin e.doomed)
    BY <1>1 DEF Alike, Leaves
  <1>4. Handed(r, e) = Handed(s, e)
    BY AlikeFits
  <1>5. ASSUME NEW d \in Drafts(r) \ Handed(r, e)
        PROVE  SameLinks(p.drafts[d], r.drafts[d])
    BY <1>1, <1>4, <1>5 DEF Alike, Leaves, SameLinks
  <1>6. ASSUME NEW d \in Handed(r, e)
        PROVE  SameLinks(p.drafts[d], SplicedLinks(r, e.target, d))
    <2>1. d \in Drafts(s) /\ e.target \in Drafts(s)
      BY <1>4, HandedThere
    <2>2. SplicedLinks(r, e.target, d) = SplicedLinks(s, e.target, d)
      BY <2>1, AlikeFacts
    <2>3. SameLinks(q.drafts[d], SplicedLinks(s, e.target, d))
      BY <1>4 DEF Leaves
    <2>4. SameLinks(p.drafts[d], q.drafts[d])
      BY <1>1, <2>1 DEF Alike
    <2> QED
      BY <2>2, <2>3, <2>4 DEF SameLinks
  <1> QED
    BY <1>1, <1>2, <1>3, <1>5, <1>6 DEF Leaves

LEMMA AlikeSelf == \A s : Alike(s, s)
  BY DEF Alike, SameLinks

\* A deletion leaves one tree.
LEMMA LeavesUnique ==
  ASSUME NEW s, NEW e, NEW p, NEW q, Leaves(p, s, e), Leaves(q, s, e)
  PROVE  Alike(p, q)
  <1>1. /\ Tabs(p) = Tabs(s) /\ Drafts(p) = Drafts(s)
        /\ Tabs(q) = Tabs(s) /\ Drafts(q) = Drafts(s)
        /\ \A t \in Tabs(s) : p.tabs[t] <=> q.tabs[t]
        /\ \A d \in Drafts(s) : p.drafts[d].live <=> q.drafts[d].live
    BY DEF Leaves
  <1>2. ASSUME NEW d \in Drafts(s) PROVE SameLinks(p.drafts[d], q.drafts[d])
    <2>1. CASE d \in Handed(s, e)
      BY <2>1 DEF Leaves, SameLinks
    <2>2. CASE d \notin Handed(s, e)
      BY <2>2 DEF Leaves, SameLinks
    <2> QED
      BY <2>1, <2>2
  <1> QED
    BY <1>1, <1>2 DEF Alike

\* What a deletion leaves has no draft alive that was not, and none that it took.
LEMMA LeavesFewer ==
  ASSUME NEW s, NEW e, NEW r, Leaves(r, s, e)
  PROVE  /\ Tabs(r) = Tabs(s) /\ Drafts(r) = Drafts(s)
         /\ Live(r) \subseteq Live(s) /\ \A d \in e.doomed : d \notin Live(r)
  BY DEF Leaves, Live

-----------------------------------------------------------------------------
(* Past and future, one deletion at a time.                                *)

LEMMA PastNone == \A now : HasPast(now, <<>>)
  <1> SUFFICES ASSUME NEW now PROVE HasPast(now, <<>>)
    OBVIOUS
  <1> DEFINE T == [k \in 1..1 |-> now]
             n == Len(<<>>)
  <1>1. n = 0
    BY EmptySeq
  <1>2. T[n + 1] = now
    BY <1>1
  <1>3. 1..n = {} /\ 1..(n + 1) = {1} /\ 1..(1 - 1) = {}
    BY <1>1
  <1>4. Past(T, <<>>)
    BY <1>1, <1>3 DEF Past
  <1> QED
    BY <1>2, <1>4 DEF HasPast

LEMMA FutureNone == \A now : HasFuture(now, <<>>)
  <1> SUFFICES ASSUME NEW now PROVE HasFuture(now, <<>>)
    OBVIOUS
  <1> DEFINE U == [k \in 1..1 |-> now]
             n == Len(<<>>)
  <1>1. n = 0
    BY EmptySeq
  <1>2. U[n + 1] = now /\ 1..n = {}
    BY <1>1
  <1> QED
    BY <1>2 DEF HasFuture, Future

LEMMA PastPush ==
  ASSUME NEW now, NEW stack, NEW top, NEW e, NEW r, Len(stack) \in Nat,
         Len(top) = Len(stack) + 1, top[Len(stack) + 1] = e,
         \A j \in 1..Len(stack) : top[j] = stack[j],
         HasPast(now, stack), Fits(now, e), Leaves(r, now, e)
  PROVE  HasPast(r, top)
  <1> DEFINE n == Len(stack)
  <1>1. PICK T : T[n + 1] = now /\ Past(T, stack)
    BY DEF HasPast
  <1> DEFINE S == [k \in 1..(n + 2) |-> IF k = n + 2 THEN r ELSE T[k]]
  <1>2. /\ S[n + 2] = r /\ \A k \in 1..(n + 1) : S[k] = T[k]
    OBVIOUS
  <1> HIDE DEF S
  <1>3. /\ Len(top) + 1 = n + 2 /\ n + 1 \in 1..(n + 1)
        /\ \A k \in 1..(n + 2) : k \in 1..(n + 1) \/ k = n + 2
        /\ \A k \in 1..(n + 1) : k \in 1..n \/ k = n + 1
        /\ \A k \in 1..n : k \in 1..(n + 1) /\ k + 1 \in 1..(n + 1)
        /\ n + 1 + 1 = n + 2
    OBVIOUS
  <1>4. /\ Tabs(r) = Tabs(now) /\ Drafts(r) = Drafts(now)
        /\ Live(r) \subseteq Live(now) /\ \A d \in e.doomed : d \notin Live(r)
    BY LeavesFewer
  <1>5. ASSUME NEW k \in 1..(n + 2)
        PROVE  Tabs(S[k]) = Tabs(S[n + 2]) /\ Drafts(S[k]) = Drafts(S[n + 2])
    <2>1. CASE k = n + 2
      BY <2>1
    <2>2. CASE k \in 1..(n + 1)
      BY <1>1, <1>2, <1>4, <2>2 DEF Past
    <2> QED
      BY <1>3, <2>1, <2>2
  <1>6. ASSUME NEW k \in 1..(n + 1)
        PROVE  Fits(S[k], top[k]) /\ Leaves(S[k + 1], S[k], top[k])
    <2>1. CASE k = n + 1
      BY <1>1, <1>2, <1>3, <2>1
    <2>2. CASE k \in 1..n
      BY <1>1, <1>2, <1>3, <2>2 DEF Past
    <2> QED
      BY <1>3, <2>1, <2>2
  <1>7. ASSUME NEW k \in 1..(n + 2), NEW j \in 1..(k - 1), NEW d \in top[j].doomed
        PROVE  d \notin Live(S[k])
    <2>1. CASE k \in 1..(n + 1)
      <3>1. j \in 1..n /\ j \in 1..(k - 1)
        BY <2>1
      <3> QED
        BY <1>1, <1>2, <1>7, <2>1, <3>1 DEF Past
    <2>2. CASE k = n + 2
      <3>1. j \in 1..n \/ j = n + 1
        BY <2>2
      <3>2. CASE j = n + 1
        BY <1>2, <1>4, <1>7, <2>2, <3>2
      <3>3. CASE j \in 1..n
        <4>1. n + 1 \in 1..(n + 1) /\ j \in 1..(n + 1 - 1)
          BY <3>3
        <4>2. d \notin Live(now)
          BY <1>1, <1>7, <3>3, <4>1 DEF Past
        <4> QED
          BY <1>2, <1>4, <2>2, <4>2
      <3> QED
        BY <3>1, <3>2, <3>3
    <2> QED
      BY <1>3, <2>1, <2>2
  <1>8. /\ \A k \in 1..(Len(top) + 1) : Tabs(S[k]) = Tabs(S[Len(top) + 1])
                                        /\ Drafts(S[k]) = Drafts(S[Len(top) + 1])
        /\ \A k \in 1..Len(top) : Fits(S[k], top[k]) /\ Leaves(S[k + 1], S[k], top[k])
        /\ \A k \in 1..(Len(top) + 1) : \A j \in 1..(k - 1) :
             \A d \in top[j].doomed : d \notin Live(S[k])
    <2>1. Len(top) = n + 1
      OBVIOUS
    <2> HIDE DEF n
    <2> QED
      BY <1>3, <1>5, <1>6, <1>7, <2>1
  <1>9. Past(S, top)
    BY <1>8 DEF Past
  <1> QED
    BY <1>2, <1>3, <1>9 DEF HasPast

LEMMA FuturePush ==
  ASSUME NEW now, NEW stack, NEW top, NEW e, NEW r, Len(stack) \in Nat,
         Len(top) = Len(stack) + 1, top[Len(stack) + 1] = e,
         \A j \in 1..Len(stack) : top[j] = stack[j],
         HasFuture(now, stack), Fits(r, e), Leaves(now, r, e)
  PROVE  HasFuture(r, top)
  <1> DEFINE n == Len(stack)
  <1>1. PICK U : U[n + 1] = now /\ Future(U, stack)
    BY DEF HasFuture
  <1> DEFINE S == [k \in 1..(n + 2) |-> IF k = n + 2 THEN r ELSE U[k]]
  <1>2. /\ S[n + 2] = r /\ \A k \in 1..(n + 1) : S[k] = U[k]
    OBVIOUS
  <1> HIDE DEF S
  <1>3. /\ Len(top) + 1 = n + 2 /\ n + 1 \in 1..(n + 1)
        /\ \A k \in 1..(n + 1) : k \in 1..n \/ k = n + 1
        /\ \A k \in 1..n : k \in 1..(n + 1) /\ k + 1 \in 1..(n + 1)
        /\ n + 1 + 1 = n + 2
    OBVIOUS
  <1>4. ASSUME NEW k \in 1..(n + 1)
        PROVE  Fits(S[k + 1], top[k]) /\ Leaves(S[k], S[k + 1], top[k])
    <2>1. CASE k = n + 1
      BY <1>1, <1>2, <1>3, <2>1
    <2>2. CASE k \in 1..n
      BY <1>1, <1>2, <1>3, <2>2 DEF Future
    <2> QED
      BY <1>3, <2>1, <2>2
  <1>5. Future(S, top)
    <2>1. Len(top) = n + 1
      OBVIOUS
    <2> HIDE DEF n
    <2> QED
      BY <1>4, <2>1 DEF Future
  <1> QED
    BY <1>2, <1>3, <1>5 DEF HasFuture

LEMMA PastPop ==
  ASSUME NEW now, NEW stack, NEW rest, NEW n \in Nat \ {0}, Len(stack) = n,
         Len(rest) = n - 1, \A j \in 1..(n - 1) : rest[j] = stack[j],
         HasPast(now, stack)
  PROVE  \E r : HasPast(r, rest) /\ Fits(r, stack[n]) /\ Leaves(now, r, stack[n])
  <1>1. PICK T : T[n + 1] = now /\ Past(T, stack)
    BY DEF HasPast
  <1>2. /\ n - 1 + 1 = n /\ n \in 1..n /\ n \in 1..(n + 1)
        /\ \A k \in 1..n : k \in 1..(n + 1)
        /\ \A k \in 1..(n - 1) : k \in 1..n
        /\ \A k \in 1..n : \A j \in 1..(k - 1) : j \in 1..(n - 1)
    OBVIOUS
  <1>3. /\ \A k \in 1..n : Tabs(T[k]) = Tabs(T[n]) /\ Drafts(T[k]) = Drafts(T[n])
        /\ \A k \in 1..(n - 1) : Fits(T[k], rest[k]) /\ Leaves(T[k + 1], T[k], rest[k])
        /\ \A k \in 1..n : \A j \in 1..(k - 1) :
             \A d \in rest[j].doomed : d \notin Live(T[k])
    BY <1>1, <1>2 DEF Past
  <1>4. Past(T, rest)
    BY <1>2, <1>3 DEF Past
  <1>5. HasPast(T[n], rest)
    BY <1>2, <1>4 DEF HasPast
  <1>6. Fits(T[n], stack[n]) /\ Leaves(now, T[n], stack[n])
    BY <1>1, <1>2 DEF Past
  <1> QED
    BY <1>5, <1>6

LEMMA FuturePop ==
  ASSUME NEW now, NEW stack, NEW rest, NEW n \in Nat \ {0}, Len(stack) = n,
         Len(rest) = n - 1, \A j \in 1..(n - 1) : rest[j] = stack[j],
         HasFuture(now, stack)
  PROVE  /\ Fits(now, stack[n])
         /\ \E r : HasFuture(r, rest) /\ Leaves(r, now, stack[n])
  <1>1. PICK U : U[n + 1] = now /\ Future(U, stack)
    BY DEF HasFuture
  <1>2. n - 1 + 1 = n /\ n \in 1..n /\ \A k \in 1..(n - 1) : k \in 1..n
    OBVIOUS
  <1>3. HasFuture(U[n], rest)
    BY <1>1, <1>2 DEF HasFuture, Future
  <1>4. Fits(now, stack[n]) /\ Leaves(U[n], now, stack[n])
    BY <1>1, <1>2 DEF Future
  <1> QED
    BY <1>3, <1>4

\* Neither tells trees apart that are alike.
LEMMA PastAlike ==
  ASSUME NEW now, NEW r, NEW stack, Len(stack) \in Nat, Alike(r, now), HasPast(now, stack)
  PROVE  HasPast(r, stack)
  <1> DEFINE n == Len(stack)
  <1>1. PICK T : T[n + 1] = now /\ Past(T, stack)
    BY DEF HasPast
  <1> DEFINE S == [k \in 1..(n + 1) |-> IF k = n + 1 THEN r ELSE T[k]]
  <1>2. S[n + 1] = r /\ \A k \in 1..n : S[k] = T[k]
    OBVIOUS
  <1> HIDE DEF S
  <1>3. /\ \A k \in 1..(n + 1) : k \in 1..n \/ k = n + 1
        /\ \A k \in 1..n : k \in 1..(n + 1)
        /\ \A k \in 1..n : k + 1 \in 1..n \/ k + 1 = n + 1
        /\ n + 1 \in 1..(n + 1)
    OBVIOUS
  <1>4. Live(r) = Live(now) /\ Tabs(r) = Tabs(now) /\ Drafts(r) = Drafts(now)
    BY AlikeFacts DEF Alike
  <1>5. \A k \in 1..(n + 1) : Alike(S[k], T[k])
    BY <1>1, <1>2, <1>3, AlikeSelf
  <1>6. ASSUME NEW k \in 1..(n + 1)
        PROVE  Tabs(S[k]) = Tabs(S[n + 1]) /\ Drafts(S[k]) = Drafts(S[n + 1])
    BY <1>1, <1>2, <1>3, <1>4 DEF Past
  <1>7. ASSUME NEW k \in 1..n PROVE Fits(S[k], stack[k]) /\ Leaves(S[k + 1], S[k], stack[k])
    <2>1. Fits(T[k], stack[k]) /\ Leaves(T[k + 1], T[k], stack[k])
      BY <1>1 DEF Past
    <2>2. Alike(S[k], T[k]) /\ Alike(S[k + 1], T[k + 1])
      BY <1>3, <1>5
    <2> QED
      BY <2>1, <2>2, AlikeFits, AlikeLeaves
  <1>8. ASSUME NEW k \in 1..(n + 1), NEW j \in 1..(k - 1), NEW d \in stack[j].doomed
        PROVE  d \notin Live(S[k])
    <2>1. Live(S[k]) = Live(T[k])
      BY <1>5, AlikeFacts
    <2> QED
      BY <1>1, <1>8, <2>1 DEF Past
  <1>9. Past(S, stack)
    BY <1>6, <1>7, <1>8 DEF Past
  <1> QED
    BY <1>2, <1>9 DEF HasPast

LEMMA FutureAlike ==
  ASSUME NEW now, NEW r, NEW stack, Len(stack) \in Nat, Alike(r, now), HasFuture(now, stack)
  PROVE  HasFuture(r, stack)
  <1> DEFINE n == Len(stack)
  <1>1. PICK U : U[n + 1] = now /\ Future(U, stack)
    BY DEF HasFuture
  <1> DEFINE S == [k \in 1..(n + 1) |-> IF k = n + 1 THEN r ELSE U[k]]
  <1>2. S[n + 1] = r /\ \A k \in 1..n : S[k] = U[k]
    OBVIOUS
  <1> HIDE DEF S
  <1>3. /\ \A k \in 1..(n + 1) : k \in 1..n \/ k = n + 1
        /\ \A k \in 1..n : k \in 1..(n + 1) /\ k + 1 \in 1..(n + 1)
    OBVIOUS
  <1>4. \A k \in 1..(n + 1) : Alike(S[k], U[k])
    BY <1>1, <1>2, <1>3, AlikeSelf
  <1>5. ASSUME NEW k \in 1..n
        PROVE  Fits(S[k + 1], stack[k]) /\ Leaves(S[k], S[k + 1], stack[k])
    <2>1. Fits(U[k + 1], stack[k]) /\ Leaves(U[k], U[k + 1], stack[k])
      BY <1>1 DEF Future
    <2>2. Alike(S[k], U[k]) /\ Alike(S[k + 1], U[k + 1])
      BY <1>3, <1>4
    <2> QED
      BY <2>1, <2>2, AlikeFits, AlikeLeaves
  <1>6. Future(S, stack)
    BY <1>5 DEF Future
  <1> QED
    BY <1>2, <1>6 DEF HasFuture

-----------------------------------------------------------------------------
(* New rows: the trees of the past get them too.                           *)

\* s with the rows of r that it has not.
Regrown(s, r) ==
  [tabs |-> [t \in Tabs(r) |-> IF t \in Tabs(s) THEN s.tabs[t] ELSE r.tabs[t]],
   drafts |-> [d \in Drafts(r) |-> IF d \in Drafts(s) THEN s.drafts[d] ELSE r.drafts[d]]]

LEMMA RegrownRows ==
  ASSUME NEW s, NEW r, NEW q, q = Regrown(s, r),
         Tabs(s) \subseteq Tabs(r), Drafts(s) \subseteq Drafts(r)
  PROVE  /\ Tabs(q) = Tabs(r) /\ Drafts(q) = Drafts(r)
         /\ \A t \in Tabs(s) : q.tabs[t] = s.tabs[t]
         /\ \A t \in Tabs(r) \ Tabs(s) : q.tabs[t] = r.tabs[t]
         /\ \A d \in Drafts(s) : q.drafts[d] = s.drafts[d]
         /\ \A d \in Drafts(r) \ Drafts(s) : q.drafts[d] = r.drafts[d]
         /\ \A d \in Drafts(s) : d \in Live(q) <=> d \in Live(s)
         /\ LiveTabs(s) \subseteq LiveTabs(q)
  <1> DEFINE f == [t \in Tabs(r) |-> IF t \in Tabs(s) THEN s.tabs[t] ELSE r.tabs[t]]
             g == [d \in Drafts(r) |-> IF d \in Drafts(s) THEN s.drafts[d] ELSE r.drafts[d]]
  <1>1. q.tabs = f /\ q.drafts = g
    BY DEF Regrown
  <1>2. /\ DOMAIN f = Tabs(r) /\ DOMAIN g = Drafts(r)
        /\ \A t \in Tabs(r) : f[t] = IF t \in Tabs(s) THEN s.tabs[t] ELSE r.tabs[t]
        /\ \A d \in Drafts(r) : g[d] = IF d \in Drafts(s) THEN s.drafts[d] ELSE r.drafts[d]
    OBVIOUS
  <1> HIDE DEF f, g
  <1>3. Tabs(q) = Tabs(r) /\ Drafts(q) = Drafts(r)
    BY <1>1, <1>2 DEF Tabs, Drafts
  <1>4. /\ \A t \in Tabs(s) : q.tabs[t] = s.tabs[t]
        /\ \A t \in Tabs(r) \ Tabs(s) : q.tabs[t] = r.tabs[t]
        /\ \A d \in Drafts(s) : q.drafts[d] = s.drafts[d]
        /\ \A d \in Drafts(r) \ Drafts(s) : q.drafts[d] = r.drafts[d]
    BY <1>1, <1>2
  <1> QED
    BY <1>3, <1>4 DEF Live, LiveTabs

\* No new row hangs off a draft that was there and is not live.
LEMMA RegrownChildren ==
  ASSUME NEW now, NEW r, Created(r, now), NEW s,
         Tabs(s) = Tabs(now), Drafts(s) = Drafts(now), None \notin Drafts(now),
         NEW q, q = Regrown(s, r), NEW y \in Drafts(s)
  PROVE  /\ Children(s, y) \subseteq Children(q, y)
         /\ y \notin Live(now) => Children(q, y) = Children(s, y)
  <1>1. Tabs(s) \subseteq Tabs(r) /\ Drafts(s) \subseteq Drafts(r)
    BY DEF Created, Kept
  <1>2. /\ Drafts(q) = Drafts(r)
        /\ \A d \in Drafts(s) : q.drafts[d] = s.drafts[d]
        /\ \A d \in Drafts(r) \ Drafts(s) : q.drafts[d] = r.drafts[d]
        /\ \A d \in Drafts(s) : d \in Live(q) <=> d \in Live(s)
    BY <1>1, RegrownRows
  <1>3. \A d \in Drafts(s) : d \in Children(q, y) <=> d \in Children(s, y)
    BY <1>2 DEF Children
  <1>4. Children(s, y) \subseteq Drafts(s) /\ Children(q, y) \subseteq Drafts(r)
    BY <1>2 DEF Children, Live
  <1>5. ASSUME NEW d \in Drafts(r) \ Drafts(s), d \in Children(q, y), y \notin Live(now)
        PROVE  FALSE
    <2>1. y \in {r.drafts[d].parent, r.drafts[d].branchedFrom} /\ y # None
      BY <1>2, <1>5 DEF Children
    <2> QED
      BY <1>5, <2>1 DEF Created
  <1> QED
    BY <1>3, <1>4, <1>5

\* A subtree whose drafts are all dead by now has not grown.
LEMMA RegrownSubtree ==
  ASSUME NEW now, NEW r, Created(r, now), NEW s,
         Tabs(s) = Tabs(now), Drafts(s) = Drafts(now), None \notin Drafts(now),
         NEW q, q = Regrown(s, r), NEW d \in Drafts(s),
         \A x \in Subtree(s, d) : x \notin Live(now)
  PROVE  Subtree(q, d) = Subtree(s, d)
  <1> DEFINE D == Subtree(s, d)
  <1>1. Drafts(q) = Drafts(r) /\ Drafts(s) \subseteq Drafts(r)
    <2>1. Tabs(s) \subseteq Tabs(r) /\ Drafts(s) \subseteq Drafts(r)
      BY DEF Created, Kept
    <2> QED
      BY <2>1, RegrownRows
  <1>2. D \subseteq Drafts(s) /\ d \in D
    BY DEF Subtree
  <1>3. ASSUME NEW y \in D, NEW c \in Children(s, y) PROVE c \in D
    <2>1. c \in Drafts(s)
      BY DEF Children, Live
    <2>2. ASSUME NEW C \in SUBSET Drafts(s), d \in C,
                 \A z \in C : Children(s, z) \subseteq C
          PROVE  c \in C
      <3>1. y \in C
        BY <2>2, <1>3 DEF Subtree
      <3> QED
        BY <2>2, <3>1, <1>3
    <2> QED
      BY <2>1, <2>2 DEF Subtree
  <1>4. \A y \in D : Children(q, y) \subseteq D
    BY <1>2, <1>3, RegrownChildren
  <1>5. D \in SUBSET Drafts(q)
    BY <1>1, <1>2
  <1>6. Subtree(q, d) \subseteq D
    <2> HIDE DEF D
    <2> QED
      BY <1>2, <1>4, <1>5 DEF Subtree
  <1>7. ASSUME NEW x \in D PROVE x \in Subtree(q, d)
    <2>1. ASSUME NEW C \in SUBSET Drafts(q), d \in C,
                 \A z \in C : Children(q, z) \subseteq C
          PROVE  x \in C
      <3> DEFINE B == C \intersect Drafts(s)
      <3>1. B \in SUBSET Drafts(s) /\ d \in B
        BY <2>1
      <3>2. \A z \in B : Children(s, z) \subseteq B
        <4> SUFFICES ASSUME NEW z \in B PROVE Children(s, z) \subseteq B
          OBVIOUS
        <4>1. Children(s, z) \subseteq Children(q, z)
          BY RegrownChildren
        <4>2. Children(s, z) \subseteq Drafts(s)
          BY DEF Children, Live
        <4> QED
          BY <2>1, <4>1, <4>2
      <3> HIDE DEF B
      <3>3. x \in B
        BY <1>7, <3>1, <3>2 DEF Subtree
      <3> QED
        BY <3>3 DEF B
    <2>2. x \in Drafts(q)
      BY <1>1, <1>2, <1>7
    <2> QED
      BY <2>1, <2>2 DEF Subtree
  <1> QED
    BY <1>6, <1>7

LEMMA RegrownFits ==
  ASSUME NEW now, NEW r, Created(r, now), NEW s,
         Tabs(s) = Tabs(now), Drafts(s) = Drafts(now), None \notin Drafts(now),
         NEW q, q = Regrown(s, r), NEW e, Fits(s, e),
         \A d \in e.doomed : d \notin Live(now)
  PROVE  Fits(q, e) /\ Handed(q, e) = Handed(s, e)
  <1>1. /\ \A d \in Drafts(s) : q.drafts[d] = s.drafts[d]
        /\ \A d \in Drafts(s) : d \in Live(q) <=> d \in Live(s)
        /\ LiveTabs(s) \subseteq LiveTabs(q)
    <2>1. Tabs(s) \subseteq Tabs(r) /\ Drafts(s) \subseteq Drafts(r)
      BY DEF Created, Kept
    <2> QED
      BY <2>1, RegrownRows
  <1>2. e.kind # "tab" => e.target \in Live(s) /\ e.target \in Drafts(s)
    BY DEF Fits, Live
  <1>3. ASSUME e.kind = "orphan"
        PROVE  /\ Children(q, e.target) = Children(s, e.target)
               /\ Rewrites(q, e.target) = Rewrites(s, e.target)
    <2>1. e.target \in e.doomed /\ e.target \in Drafts(s)
      BY <1>2, <1>3 DEF Fits
    <2>2. Children(q, e.target) = Children(s, e.target)
      BY <2>1, RegrownChildren
    <2>3. \A c \in Children(s, e.target) : q.drafts[c] = s.drafts[c]
      BY <1>1 DEF Children, Live
    <2>4. Rewrites(q, e.target)
            = {[draft |-> c, parent |-> q.drafts[c].parent,
                branchedFrom |-> q.drafts[c].branchedFrom] : c \in Children(s, e.target)}
      BY <2>2 DEF Rewrites
    <2> QED
      BY <2>2, <2>3, <2>4 DEF Rewrites
  <1>4. e.kind = "cascade" => e.doomed = Subtree(q, e.target)
    BY <1>2, RegrownSubtree DEF Fits
  <1>5. e.doomed \subseteq Live(q) /\ (e.kind # "tab" => e.target \in Live(q))
    BY <1>1, <1>2 DEF Fits, Live
  <1>6. e.kind = "tab" => e.target \in LiveTabs(q) /\ e.doomed = {}
    BY <1>1 DEF Fits
  <1>7. Handed(q, e) = Handed(s, e)
    BY <1>3 DEF Handed
  <1>8. e.rewrites = IF e.kind = "orphan" THEN Rewrites(q, e.target) ELSE {}
    BY <1>3 DEF Fits
  <1> QED
    BY <1>4, <1>5, <1>6, <1>7, <1>8 DEF Fits

LEMMA RegrownLeaves ==
  ASSUME NEW now, NEW r, Created(r, now), NEW s,
         Tabs(s) = Tabs(now), Drafts(s) = Drafts(now), None \notin Drafts(now),
         NEW e, Fits(s, e), \A d \in e.doomed : d \notin Live(now),
         NEW p, Leaves(p, s, e), NEW q, q = Regrown(s, r), NEW o, o = Regrown(p, r)
  PROVE  Leaves(o, q, e)
  <1>1. /\ Tabs(s) \subseteq Tabs(r) /\ Drafts(s) \subseteq Drafts(r)
        /\ Tabs(p) = Tabs(s) /\ Drafts(p) = Drafts(s)
    BY DEF Created, Kept, Leaves
  <1>2. /\ Tabs(q) = Tabs(r) /\ Drafts(q) = Drafts(r)
        /\ \A t \in Tabs(s) : q.tabs[t] = s.tabs[t]
        /\ \A t \in Tabs(r) \ Tabs(s) : q.tabs[t] = r.tabs[t]
        /\ \A d \in Drafts(s) : q.drafts[d] = s.drafts[d]
        /\ \A d \in Drafts(r) \ Drafts(s) : q.drafts[d] = r.drafts[d]
    BY <1>1, RegrownRows
  <1>3. /\ Tabs(o) = Tabs(r) /\ Drafts(o) = Drafts(r)
        /\ \A t \in Tabs(s) : o.tabs[t] = p.tabs[t]
        /\ \A t \in Tabs(r) \ Tabs(s) : o.tabs[t] = r.tabs[t]
        /\ \A d \in Drafts(s) : o.drafts[d] = p.drafts[d]
        /\ \A d \in Drafts(r) \ Drafts(s) : o.drafts[d] = r.drafts[d]
    BY <1>1, RegrownRows
  <1>4. Handed(q, e) = Handed(s, e)
    BY RegrownFits
  <1>5. ASSUME NEW t \in Tabs(r) PROVE o.tabs[t] <=> (q.tabs[t] /\ ~TookTab(e, t))
    <2>1. CASE t \in Tabs(s)
      BY <1>2, <1>3, <2>1 DEF Leaves
    <2>2. CASE t \notin Tabs(s)
      <3>1. ~TookTab(e, t)
        BY <2>2 DEF TookTab, Fits, LiveTabs
      <3> QED
        BY <1>2, <1>3, <2>2, <3>1
    <2> QED
      BY <2>1, <2>2
  <1>6. ASSUME NEW d \in Drafts(r)
        PROVE  o.drafts[d].live <=> (q.drafts[d].live /\ d \notin e.doomed)
    <2>1. CASE d \in Drafts(s)
      BY <1>2, <1>3, <2>1 DEF Leaves
    <2>2. CASE d \notin Drafts(s)
      <3>1. d \notin e.doomed
        BY <2>2 DEF Fits, Live
      <3> QED
        BY <1>2, <1>3, <2>2, <3>1
    <2> QED
      BY <2>1, <2>2
  <1>7. ASSUME NEW d \in Drafts(r), d \notin Handed(s, e)
        PROVE  SameLinks(o.drafts[d], q.drafts[d])
    <2>1. CASE d \in Drafts(s)
      BY <1>2, <1>3, <1>7, <2>1 DEF Leaves
    <2>2. CASE d \notin Drafts(s)
      BY <1>2, <1>3, <2>2 DEF SameLinks
    <2> QED
      BY <2>1, <2>2
  <1>8. ASSUME NEW d \in Handed(s, e)
        PROVE  SameLinks(o.drafts[d], SplicedLinks(q, e.target, d))
    <2>1. d \in Drafts(s) /\ e.target \in Drafts(s)
      BY HandedThere
    <2>2. SplicedLinks(q, e.target, d) = SplicedLinks(s, e.target, d)
      BY <1>2, <2>1 DEF SplicedLinks, Anchor
    <2> QED
      BY <1>3, <2>1, <2>2 DEF Leaves
  <1> QED
    BY <1>2, <1>3, <1>4, <1>5, <1>6, <1>7, <1>8 DEF Leaves

LEMMA PastCreated ==
  ASSUME NEW now, NEW r, Created(r, now), NEW stack, Len(stack) \in Nat,
         None \notin Drafts(now), HasPast(now, stack)
  PROVE  HasPast(r, stack)
  <1> DEFINE n == Len(stack)
  <1>1. PICK T : T[n + 1] = now /\ Past(T, stack)
    BY DEF HasPast
  <1> DEFINE S == [k \in 1..(n + 1) |-> Regrown(T[k], r)]
  <1>2. \A k \in 1..(n + 1) : S[k] = Regrown(T[k], r)
    OBVIOUS
  <1> HIDE DEF S
  <1>3. /\ \A k \in 1..n : /\ k \in 1..(n + 1) /\ k + 1 \in 1..(n + 1)
                           /\ k \in 1..(n + 1 - 1)
        /\ n + 1 \in 1..(n + 1)
    OBVIOUS
  <1>4. \A k \in 1..(n + 1) : Tabs(T[k]) = Tabs(now) /\ Drafts(T[k]) = Drafts(now)
    BY <1>1 DEF Past
  <1>5. Tabs(now) \subseteq Tabs(r) /\ Drafts(now) \subseteq Drafts(r)
    BY DEF Created, Kept
  <1>6. ASSUME NEW k \in 1..(n + 1)
        PROVE  /\ Tabs(S[k]) = Tabs(r) /\ Drafts(S[k]) = Drafts(r)
               /\ \A d \in Drafts(now) : d \in Live(S[k]) <=> d \in Live(T[k])
    BY <1>2, <1>4, <1>5, RegrownRows
  <1>7. \A k \in 1..n : \A d \in stack[k].doomed : d \notin Live(now)
    BY <1>1, <1>3 DEF Past
  <1>8. ASSUME NEW k \in 1..n
        PROVE  Fits(S[k], stack[k]) /\ Leaves(S[k + 1], S[k], stack[k])
    <2>1. Fits(T[k], stack[k]) /\ Leaves(T[k + 1], T[k], stack[k])
      BY <1>1 DEF Past
    <2>2. S[k] = Regrown(T[k], r) /\ S[k + 1] = Regrown(T[k + 1], r)
      BY <1>2, <1>3
    <2>3. Tabs(T[k]) = Tabs(now) /\ Drafts(T[k]) = Drafts(now)
      BY <1>3, <1>4
    <2>4. \A d \in stack[k].doomed : d \notin Live(now)
      BY <1>7
    <2> QED
      BY <2>1, <2>2, <2>3, <2>4, RegrownFits, RegrownLeaves
  <1>9. ASSUME NEW k \in 1..(n + 1), NEW j \in 1..(k - 1), NEW d \in stack[j].doomed
        PROVE  d \notin Live(S[k])
    <2>1. j \in 1..n /\ j \in 1..(n + 1)
      OBVIOUS
    <2>2. d \in Drafts(now)
      <3>1. d \in Live(T[j])
        BY <1>1, <1>9, <2>1 DEF Past, Fits
      <3> QED
        BY <1>4, <2>1, <3>1 DEF Live
    <2>3. d \notin Live(T[k])
      BY <1>1, <1>9 DEF Past
    <2> QED
      BY <1>6, <2>2, <2>3
  <1>10. Past(S, stack)
    BY <1>3, <1>6, <1>8, <1>9 DEF Past
  <1>11. HasPast(S[n + 1], stack)
    BY <1>10 DEF HasPast
  <1>12. Alike(r, S[n + 1])
    <2>1. S[n + 1] = Regrown(now, r)
      BY <1>1, <1>2, <1>3
    <2>2. /\ Tabs(S[n + 1]) = Tabs(r) /\ Drafts(S[n + 1]) = Drafts(r)
          /\ \A t \in Tabs(now) : S[n + 1].tabs[t] = now.tabs[t]
          /\ \A t \in Tabs(r) \ Tabs(now) : S[n + 1].tabs[t] = r.tabs[t]
          /\ \A d \in Drafts(now) : S[n + 1].drafts[d] = now.drafts[d]
          /\ \A d \in Drafts(r) \ Drafts(now) : S[n + 1].drafts[d] = r.drafts[d]
      BY <1>5, <2>1, RegrownRows
    <2>3. /\ \A t \in Tabs(r) : r.tabs[t] = S[n + 1].tabs[t]
          /\ \A d \in Drafts(r) : r.drafts[d].live = S[n + 1].drafts[d].live
                                  /\ SameLinks(r.drafts[d], S[n + 1].drafts[d])
      BY <2>2 DEF Created, Kept, SameLinks
    <2> QED
      BY <2>2, <2>3 DEF Alike
  <1> QED
    BY <1>11, <1>12, PastAlike

-----------------------------------------------------------------------------
(* The past and the future of a session in which no call fails.            *)

\* An undo under way has brought back part of what its entry took from now.
Partly(s, now, op) ==
  /\ Tabs(s) = Tabs(now) /\ Drafts(s) = Drafts(now)
  /\ \A t \in Tabs(now) : s.tabs[t] <=> now.tabs[t]
  /\ \A d \in Drafts(now) :
       /\ s.drafts[d].live <=> (now.drafts[d].live \/ d \in op.entry.doomed \ op.restore)
       /\ ~Rewrote(op.entry, d) => SameLinks(s.drafts[d], now.drafts[d])

RedoInv ==
  /\ operation.kind # "undo" => HasPast(db, done) /\ HasFuture(db, undone)
  /\ operation.kind = "undo" /\ operation.attached =>
       \E now : HasPast(now, done) /\ HasFuture(now, undone) /\ Partly(db, now, operation)
  /\ operation.kind = "redo" =>
       /\ Fits(db, operation.entry)
       /\ operation.redoable => undone # <<>> /\ Last(undone) = operation.entry
  /\ operation.kind # "none" /\ ~operation.attached => done = <<>> /\ undone = <<>>
  /\ operation.kind # "none" /\ ~operation.redoable => undone = <<>>

\* A deletion that a redo repeats, with the guards of its command.
Deletes(r, s, e) ==
  \/ e.kind = "tab" /\ CanDeleteTab(s) /\ r = DeleteTab(s, e.target)
  \/ /\ e.kind = "leaf" /\ ~IsRoot(s, e.target) /\ Children(s, e.target) = {}
     /\ r = DeleteDraft(s, e.target)
  \/ e.kind = "cascade" /\ ~IsRoot(s, e.target) /\ r = CascadeDelete(s, e.target)
  \/ e.kind = "orphan" /\ ~IsRoot(s, e.target) /\ r = OrphanAndDelete(s, e.target)

LEMMA DeletesTakes ==
  ASSUME NEW s, Sound(s), NEW r, NEW e, Fits(s, e), Deletes(r, s, e)
  PROVE  /\ Leaves(r, s, e) /\ Follows(r, s, e.doomed)
         /\ EntryOK(s, e) /\ e.doomed \subseteq Live(s)
  <1>1. s \in DatabaseType /\ e.doomed \subseteq Live(s) /\ Live(s) \subseteq Drafts(s)
    BY SoundFacts DEF Fits
  <1>2. CASE e.kind = "tab"
    <2>1. e.target \in LiveTabs(s) /\ e.doomed = {} /\ e.rewrites = {}
      BY <1>2 DEF Fits
    <2>2. CanDeleteTab(s) /\ r = DeleteTab(s, e.target)
      BY <1>2 DEF Deletes
    <2>3. Leaves(r, s, e)
      BY <1>1, <1>2, <2>1, <2>2, DeleteTabLeaves
    <2>4. Follows(r, s, {})
      BY <2>1, <2>2, DeleteTabFollows
    <2> QED
      BY <1>1, <2>1, <2>3, <2>4 DEF EntryOK
  <1>3. CASE e.kind = "leaf"
    <2>1. e.target \in Live(s) /\ e.doomed = {e.target} /\ e.rewrites = {}
      BY <1>3 DEF Fits
    <2>2. /\ ~IsRoot(s, e.target) /\ Children(s, e.target) = {}
          /\ r = DeleteDraft(s, e.target)
      BY <1>3 DEF Deletes
    <2>3. Leaves(r, s, e)
      BY <1>1, <1>3, <2>1, <2>2, DeleteDraftLeaves
    <2>4. Follows(r, s, e.doomed)
      BY <2>1, <2>2, DeleteDraftFollows
    <2> QED
      BY <1>1, <2>1, <2>2, <2>3, <2>4 DEF EntryOK
  <1>4. CASE e.kind = "cascade"
    <2>1. e.target \in Live(s) /\ e.doomed = Subtree(s, e.target) /\ e.rewrites = {}
      BY <1>4 DEF Fits
    <2>2. ~IsRoot(s, e.target) /\ r = CascadeDelete(s, e.target)
      BY <1>4 DEF Deletes
    <2>3. Leaves(r, s, e)
      BY <1>1, <1>4, <2>1, <2>2, CascadeDeleteLeaves
    <2>4. Follows(r, s, e.doomed)
      BY <2>1, <2>2, CascadeDeleteFollows
    <2>5. \A x \in e.doomed : ~IsRoot(s, x)
      BY <2>1, <2>2, SubtreeFacts
    <2> QED
      BY <1>1, <2>1, <2>3, <2>4, <2>5 DEF EntryOK
  <1>5. CASE e.kind = "orphan"
    <2>1. /\ e.target \in Live(s) /\ e.doomed = {e.target}
          /\ e.rewrites = Rewrites(s, e.target)
      BY <1>5 DEF Fits
    <2>2. ~IsRoot(s, e.target) /\ r = OrphanAndDelete(s, e.target)
      BY <1>5 DEF Deletes
    <2>3. Leaves(r, s, e)
      BY <1>1, <1>5, <2>1, <2>2, OrphanAndDeleteLeaves
    <2>4. Follows(r, s, e.doomed)
      BY <2>1, <2>2, OrphanAndDeleteFollows
    <2>5. EntryOK(s, e)
      BY <1>1, <2>1, <2>2, RewritesFit DEF EntryOK
    <2> QED
      BY <1>1, <2>3, <2>4, <2>5
  <1> QED
    BY <1>2, <1>3, <1>4, <1>5 DEF Fits

\* A redo repeats the deletion that its entry names, and records what it did.
LEMMA RedoTakes ==
  ASSUME TypeInv, TreeInv, Fits(db, operation.entry), FinishRedo
  PROVE  /\ RedoneEntry \in EntryType /\ RedoneEntry.before = Shape(db)
         /\ SameDeletion(RedoneEntry, operation.entry)
         /\ Fits(db, RedoneEntry) /\ Leaves(db', db, RedoneEntry)
         /\ Follows(db', db, RedoneEntry.doomed) /\ EntryOK(db, RedoneEntry)
         /\ RedoneEntry.doomed \subseteq Live(db)
  <1> DEFINE old == operation.entry
             d == old.target
  <1>1. operation.kind = "redo" /\ Redeletion
    BY DEF FinishRedo
  <1>2. RedoneEntry \in EntryType
    BY <1>1, RedoneTyped
  <1>3. /\ RedoneEntry.before = Shape(db) /\ SameDeletion(RedoneEntry, old)
        /\ SameDeletion(old, RedoneEntry)
    <2>1. CASE old.kind = "cascade"
      <3>1. RedoneEntry = Entry("cascade", d, Subtree(db, d), {})
        BY <2>1 DEF RedoneEntry
      <3>2. old.doomed = Subtree(db, d) /\ old.rewrites = {}
        BY <2>1 DEF Fits
      <3> QED
        BY <2>1, <3>1, <3>2 DEF Entry, SameDeletion
    <2>2. CASE old.kind = "orphan"
      <3>1. RedoneEntry = Entry("orphan", d, {d}, Rewrites(db, d))
        BY <2>2 DEF RedoneEntry
      <3>2. old.doomed = {d} /\ old.rewrites = Rewrites(db, d)
        BY <2>2 DEF Fits
      <3> QED
        BY <2>2, <3>1, <3>2 DEF Entry, SameDeletion
    <2>3. CASE old.kind # "cascade" /\ old.kind # "orphan"
      <3>1. RedoneEntry = Entry(old.kind, d, old.doomed, {})
        BY <2>3 DEF RedoneEntry
      <3>2. old.rewrites = {}
        BY <2>3 DEF Fits
      <3> QED
        BY <3>1, <3>2 DEF Entry, SameDeletion
    <2> QED
      BY <2>1, <2>2, <2>3
  <1>4. Fits(db, RedoneEntry)
    BY <1>3, SameDeletionFits
  <1>5. Deletes(db', db, old)
    <2>1. CASE old.kind = "tab"
      BY <1>1, <2>1 DEF Redeletion, Deletes
    <2>2. CASE old.kind = "leaf"
      BY <1>1, <2>2 DEF Redeletion, Deletes, CanDelete
    <2>3. CASE old.kind = "cascade"
      BY <1>1, <2>3 DEF Redeletion, Deletes, CanDelete
    <2>4. CASE old.kind = "orphan"
      BY <1>1, <2>4 DEF Redeletion, Deletes, CanDelete
    <2> QED
      BY <2>1, <2>2, <2>3, <2>4 DEF Fits
  <1>6. Deletes(db', db, RedoneEntry)
    BY <1>3, <1>5 DEF SameDeletion, Deletes
  <1>7. Sound(db)
    BY DEF TreeInv
  <1> QED
    BY <1>2, <1>3, <1>4, <1>6, <1>7, DeletesTakes

\* Redo removes what its undo brought back.
LEMMA RedoIsExact ==
  ASSUME TypeInv, TreeInv, RedoInv, FinishRedo
  PROVE  Live(db) \ Live(db') = operation.entry.doomed
  <1>1. Fits(db, operation.entry)
    BY DEF RedoInv, FinishRedo
  <1>2. /\ SameDeletion(RedoneEntry, operation.entry)
        /\ Leaves(db', db, RedoneEntry) /\ RedoneEntry.doomed \subseteq Live(db)
    BY <1>1, RedoTakes
  <1> QED
    BY <1>2 DEF SameDeletion, Leaves, Live

LEMMA DoneStacks ==
  ASSUME TypeInv
  PROVE  /\ done \in Seq(EntryType) /\ undone \in Seq(EntryType)
         /\ Len(done) \in Nat /\ Len(undone) \in Nat
  BY LenProperties DEF TypeInv, StackTyped

\* Between commands.
LEMMA IdleRedo ==
  ASSUME operation'.kind = "none", HasPast(db', done'), HasFuture(db', undone')
  PROVE  RedoInv'
  BY DEF RedoInv

LEMMA CreateKeepsRedo ==
  ASSUME TypeInv, TreeInv, RedoInv, Create
  PROVE  RedoInv'
  <1>1. /\ Created(db', db) /\ UNCHANGED <<done, operation>> /\ undone' = <<>>
        /\ operation.kind = "none"
    BY CreateMakes DEF Idle
  <1>2. HasPast(db, done) /\ Len(done) \in Nat
    BY <1>1, DoneStacks DEF RedoInv
  <1>3. None \notin Drafts(db)
    BY SoundFacts DEF TreeInv, None
  <1>4. HasPast(db', done)
    BY <1>1, <1>2, <1>3, PastCreated
  <1> QED
    BY <1>1, <1>4, FutureNone, IdleRedo

LEMMA ToggleKeepsRedo ==
  ASSUME TypeInv, RedoInv, NEW d \in Drafts(db), HandleDraftToggleLock(d)
  PROVE  RedoInv'
  <1>1. /\ Kept(db', db) /\ Drafts(db') = Drafts(db) /\ Tabs(db') = Tabs(db)
        /\ UNCHANGED <<done, operation>> /\ undone' = <<>> /\ operation.kind = "none"
    BY ToggleKeepsRows DEF Idle
  <1>2. Alike(db', db)
    BY <1>1 DEF Kept, Alike
  <1>3. HasPast(db, done) /\ Len(done) \in Nat
    BY <1>1, DoneStacks DEF RedoInv
  <1>4. HasPast(db', done)
    BY <1>2, <1>3, PastAlike
  <1> QED
    BY <1>1, <1>4, FutureNone, IdleRedo

\* A deletion that fits becomes the last of the past.
LEMMA PastAppend ==
  ASSUME TypeInv, NEW e \in EntryType, Fits(db, e), Leaves(db', db, e), HasPast(db, done)
  PROVE  HasPast(db', Append(done, e))
  <1> DEFINE top == Append(done, e)
  <1>1. done \in Seq(EntryType) /\ Len(done) \in Nat
    BY DoneStacks
  <1>2. /\ Len(top) = Len(done) + 1 /\ top[Len(done) + 1] = e
        /\ \A j \in 1..Len(done) : top[j] = done[j]
    BY <1>1, AppendProperties
  <1> HIDE DEF top
  <1>3. HasPast(db', top)
    BY <1>1, <1>2, PastPush
  <1> QED
    BY <1>3 DEF top

LEMMA DeleteKeepsRedo ==
  ASSUME TypeInv, TreeInv, RedoInv, Delete
  PROVE  RedoInv'
  <1>1. PICK e \in EntryType :
          /\ Fits(db, e) /\ Leaves(db', db, e) /\ e.before = Shape(db)
          /\ Record(e) /\ Idle /\ UNCHANGED operation
    BY DeleteTakes
  <1>2. operation.kind = "none" /\ HasPast(db, done)
    BY <1>1 DEF Idle, RedoInv
  <1>3. HasPast(db', done')
    BY <1>1, <1>2, PastAppend, PastNone DEF Record
  <1>4. HasFuture(db', undone')
    BY <1>1, FutureNone DEF Record
  <1> QED
    BY <1>1, <1>2, <1>3, <1>4, IdleRedo

\* When the last call of an undo has returned, its deletion has not happened.
LEMMA FinishGoesBack ==
  ASSUME TypeInv, TreeInv, UndoInv, FinishUndo, NEW now, Partly(db, now, operation),
         NEW past, Fits(past, operation.entry), Leaves(now, past, operation.entry)
  PROVE  Alike(db', past)
  <1> DEFINE e == operation.entry
  <1>1. /\ operation.kind = "undo" /\ operation.restore = {} /\ operation.relink = {}
        /\ db' = IF e.kind = "tab" THEN RestoreTab(db, e.target) ELSE db
    BY DEF FinishUndo
  <1>2. /\ db \in DatabaseType
        /\ \A w \in e.rewrites : SameLinks(w, db.drafts[w.draft])
    BY <1>1, UnderWay
  <1>3. /\ Tabs(db) = Tabs(past) /\ Drafts(db) = Drafts(past)
        /\ Tabs(now) = Tabs(past) /\ Drafts(now) = Drafts(past)
    BY DEF Partly, Leaves
  <1>4. /\ db'.drafts = db.drafts /\ Tabs(db') = Tabs(db) /\ Drafts(db') = Drafts(db)
        /\ \A t \in Tabs(db) : db'.tabs[t] <=> (db.tabs[t] \/ TookTab(e, t))
    <2>1. CASE e.kind = "tab"
      <3>1. TabMarked(db', db, e.target, TRUE)
        BY <1>1, <1>2, <2>1, SetTabFacts DEF RestoreTab
      <3>2. /\ db'.drafts = db.drafts /\ Tabs(db') = Tabs(db) /\ Drafts(db') = Drafts(db)
            /\ Tabs(db) = 1..Len(db.tabs)
        BY <1>2, <3>1, TabMarkedRows
      <3>3. \A t \in Tabs(db) : db'.tabs[t] = IF t = e.target THEN TRUE ELSE db.tabs[t]
        BY <3>1, <3>2 DEF TabMarked
      <3> QED
        BY <2>1, <3>2, <3>3 DEF TookTab
    <2>2. CASE e.kind # "tab"
      BY <1>1, <2>2 DEF TookTab
    <2> QED
      BY <2>1, <2>2
  <1>5. ASSUME NEW t \in Tabs(past) PROVE db'.tabs[t] <=> past.tabs[t]
    <2>1. db'.tabs[t] <=> (now.tabs[t] \/ TookTab(e, t))
      BY <1>3, <1>4 DEF Partly
    <2>2. now.tabs[t] <=> (past.tabs[t] /\ ~TookTab(e, t))
      BY DEF Leaves
    <2>3. TookTab(e, t) => past.tabs[t]
      BY DEF TookTab, Fits, LiveTabs
    <2> QED
      BY <2>1, <2>2, <2>3
  <1>6. ASSUME NEW d \in Drafts(past) PROVE db'.drafts[d].live <=> past.drafts[d].live
    <2>1. db.drafts[d].live <=> (now.drafts[d].live \/ d \in e.doomed)
      BY <1>1, <1>3 DEF Partly
    <2>2. now.drafts[d].live <=> (past.drafts[d].live /\ d \notin e.doomed)
      BY DEF Leaves
    <2>3. d \in e.doomed => past.drafts[d].live
      BY DEF Fits, Live
    <2> QED
      BY <1>4, <2>1, <2>2, <2>3
  <1>7. ASSUME NEW d \in Drafts(past) PROVE SameLinks(db.drafts[d], past.drafts[d])
    <2>1. CASE d \in Handed(past, e)
      <3> DEFINE w == [draft |-> d, parent |-> past.drafts[d].parent,
                       branchedFrom |-> past.drafts[d].branchedFrom]
      <3>1. w \in e.rewrites
        BY <2>1 DEF Fits, Rewrites, Handed
      <3>2. w.draft = d /\ SameLinks(w, past.drafts[d])
        BY DEF SameLinks
      <3> HIDE DEF w
      <3> QED
        BY <1>2, <3>1, <3>2 DEF SameLinks
    <2>2. CASE d \notin Handed(past, e)
      <3>1. ~Rewrote(e, d)
        BY <2>2 DEF Rewrote, Fits, Rewrites, Handed
      <3>2. SameLinks(db.drafts[d], now.drafts[d])
        BY <1>3, <3>1 DEF Partly
      <3>3. SameLinks(now.drafts[d], past.drafts[d])
        BY <2>2 DEF Leaves
      <3> QED
        BY <3>2, <3>3 DEF SameLinks
    <2> QED
      BY <2>1, <2>2
  <1> QED
    BY <1>3, <1>4, <1>5, <1>6, <1>7 DEF Alike

LEMMA FinishUndoKeepsRedo ==
  ASSUME TypeInv, TreeInv, UndoInv, RedoInv, FinishUndo
  PROVE  RedoInv'
  <1> DEFINE e == operation.entry
             n == Len(done)
             rest == Front(done)
             top == Append(undone, e)
  <1>1. operation.kind = "undo" /\ operation'.kind = "none"
    BY DEF FinishUndo, NoOperation
  <1>2. /\ done \in Seq(EntryType) /\ undone \in Seq(EntryType) /\ e \in EntryType
        /\ Len(undone) \in Nat
        /\ done # <<>> => Last(done) = e
        /\ operation.attached => done # <<>>
    BY <1>1, UnderWay, DoneStacks
  <1>3. CASE ~operation.attached
    <2>1. done' = <<>> /\ undone' = <<>>
      BY <1>1, <1>3 DEF FinishUndo, RedoInv
    <2> QED
      BY <1>1, <2>1, PastNone, FutureNone, IdleRedo
  <1>4. CASE operation.attached
    <2>1. /\ done # <<>> /\ done' = rest
          /\ undone' = IF operation.redoable THEN top ELSE undone
      BY <1>2, <1>4 DEF FinishUndo
    <2>2. PICK now : HasPast(now, done) /\ HasFuture(now, undone) /\ Partly(db, now, operation)
      BY <1>1, <1>4 DEF RedoInv
    <2>3. /\ n \in Nat \ {0} /\ done[n] = e
          /\ Len(rest) = n - 1 /\ \A i \in 1..(n - 1) : rest[i] = done[i]
      BY <1>2, <2>1, FrontFacts
    <2>4. /\ Len(top) = Len(undone) + 1 /\ top[Len(undone) + 1] = e
          /\ \A j \in 1..Len(undone) : top[j] = undone[j]
      BY <1>2, AppendProperties
    <2> HIDE DEF rest, top
    <2>5. PICK past : HasPast(past, rest) /\ Fits(past, e) /\ Leaves(now, past, e)
      <3>1. n = Len(done)
        OBVIOUS
      <3> HIDE DEF n
      <3>2. \E past : HasPast(past, rest) /\ Fits(past, done[n]) /\ Leaves(now, past, done[n])
        BY <2>2, <2>3, <3>1, PastPop
      <3> QED
        BY <2>3, <3>2
    <2>6. Alike(db', past)
      BY <2>2, <2>5, FinishGoesBack
    <2>7. HasPast(db', rest)
      <3>1. Len(rest) \in Nat
        BY <2>3
      <3> QED
        BY <2>5, <2>6, <3>1, PastAlike
    <2>8. HasFuture(db', undone')
      <3>1. CASE operation.redoable
        <4>1. HasFuture(past, top)
          BY <1>2, <2>2, <2>4, <2>5, FuturePush
        <4>2. Len(top) \in Nat
          BY <1>2, <2>4
        <4> QED
          BY <2>1, <2>6, <3>1, <4>1, <4>2, FutureAlike
      <3>2. CASE ~operation.redoable
        <4>1. undone' = <<>>
          BY <1>1, <2>1, <3>2 DEF RedoInv
        <4> QED
          BY <4>1, FutureNone
      <3> QED
        BY <3>1, <3>2
    <2> QED
      BY <1>1, <2>1, <2>7, <2>8, IdleRedo
  <1> QED
    BY <1>3, <1>4

\* A call of an undo.
LEMMA CallKeepsRedo ==
  ASSUME TypeInv, RedoInv, operation.kind = "undo", operation'.kind = "undo",
         UNCHANGED <<done, undone>>,
         operation'.attached = operation.attached, operation'.redoable = operation.redoable,
         \A now : Partly(db, now, operation) => Partly(db', now, operation')
  PROVE  RedoInv'
  <1>1. operation'.attached =>
          \E now : HasPast(now, done) /\ HasFuture(now, undone) /\ Partly(db', now, operation')
    BY DEF RedoInv
  <1> QED
    BY <1>1 DEF RedoInv

LEMMA UndoKeepsRedo ==
  ASSUME TypeInv, TreeInv, UndoInv, RedoInv, Undo
  PROVE  RedoInv'
  <1>1. CASE StartUndo
    <2> DEFINE e == Last(done)
    <2>1. /\ operation'.kind = "undo" /\ operation'.entry = e
          /\ operation'.restore = e.doomed
          /\ operation'.attached = TRUE /\ operation'.redoable = TRUE
          /\ UNCHANGED <<db, done, undone>> /\ operation.kind = "none"
      BY <1>1 DEF StartUndo, Idle
    <2> HIDE DEF e
    <2>2. HasPast(db, done) /\ HasFuture(db, undone)
      BY <2>1 DEF RedoInv
    <2>3. Partly(db, db, operation')
      BY <2>1 DEF Partly, SameLinks
    <2>4. \E now : HasPast(now, done) /\ HasFuture(now, undone) /\ Partly(db', now, operation')
      BY <2>1, <2>2, <2>3
    <2> QED
      BY <2>1, <2>4 DEF RedoInv
  <1>2. ASSUME NEW d \in operation.restore, UndoRestoresDraft(d) PROVE RedoInv'
    <2>1. /\ operation.kind = "undo" /\ db' = RestoreDraft(db, d) /\ UNCHANGED <<done, undone>>
          /\ operation' = [operation EXCEPT !.restore = operation.restore \ {d}]
      BY <1>2 DEF UndoRestoresDraft
    <2>2. db \in DatabaseType /\ d \in operation.entry.doomed
      BY <1>2, <2>1, UnderWay
    <2>3. /\ operation'.kind = "undo" /\ operation'.entry = operation.entry
          /\ operation'.restore = operation.restore \ {d}
          /\ operation'.attached = operation.attached
          /\ operation'.redoable = operation.redoable
      BY <2>1, UnderWay DEF OperationType
    <2>4. /\ Tabs(db') = Tabs(db) /\ Drafts(db') = Drafts(db)
          /\ \A t \in Tabs(db) : db'.tabs[t] = db.tabs[t]
          /\ \A x \in Drafts(db) :
               /\ db'.drafts[x].live = IF x = d THEN TRUE ELSE db.drafts[x].live
               /\ SameLinks(db'.drafts[x], db.drafts[x])
      <3> DEFINE r == RestoreDraft(db, d)
      <3>1. /\ Tabs(r) = Tabs(db) /\ Drafts(r) = Drafts(db)
            /\ \A t \in Tabs(db) : r.tabs[t] = db.tabs[t]
            /\ \A x \in Drafts(db) :
                 /\ r.drafts[x].live = IF x = d THEN TRUE ELSE db.drafts[x].live
                 /\ SameLinks(r.drafts[x], db.drafts[x])
        BY <2>2, RestoreDraftRows
      <3> HIDE DEF r
      <3>2. db' = r
        BY <2>1 DEF r
      <3> QED
        BY <3>1, <3>2
    <2>5. ASSUME NEW now, Partly(db, now, operation) PROVE Partly(db', now, operation')
      <3>1. Tabs(db) = Tabs(now) /\ Drafts(db) = Drafts(now)
        BY <2>5 DEF Partly
      <3>2. \A t \in Tabs(now) : db'.tabs[t] <=> now.tabs[t]
        BY <2>4, <2>5, <3>1 DEF Partly
      <3>3. ASSUME NEW x \in Drafts(now)
            PROVE  /\ db'.drafts[x].live <=>
                        (now.drafts[x].live
                         \/ x \in operation.entry.doomed \ (operation.restore \ {d}))
                   /\ ~Rewrote(operation.entry, x) => SameLinks(db'.drafts[x], now.drafts[x])
        <4>1. /\ db.drafts[x].live <=>
                   (now.drafts[x].live \/ x \in operation.entry.doomed \ operation.restore)
              /\ ~Rewrote(operation.entry, x) => SameLinks(db.drafts[x], now.drafts[x])
          BY <2>5 DEF Partly
        <4>2. /\ db'.drafts[x].live = IF x = d THEN TRUE ELSE db.drafts[x].live
              /\ SameLinks(db'.drafts[x], db.drafts[x])
          BY <2>4, <3>1
        <4>3. ~Rewrote(operation.entry, x) => SameLinks(db'.drafts[x], now.drafts[x])
          BY <4>1, <4>2 DEF SameLinks
        <4>4. CASE x = d
          BY <2>2, <4>2, <4>3, <4>4
        <4>5. CASE x # d
          BY <4>1, <4>2, <4>3, <4>5
        <4> QED
          BY <4>4, <4>5
      <3> QED
        BY <2>3, <2>4, <3>1, <3>2, <3>3 DEF Partly
    <2> QED
      BY <2>1, <2>3, <2>5, CallKeepsRedo
  <1>3. ASSUME NEW v \in operation.relink, UndoRelinksDraft(v) PROVE RedoInv'
    <2>1. /\ operation.kind = "undo" /\ db' = ReparentDraft(db, v) /\ UNCHANGED <<done, undone>>
          /\ operation' = [operation EXCEPT !.relink = operation.relink \ {v}]
      BY <1>3 DEF UndoRelinksDraft
    <2>2. db \in DatabaseType /\ v \in operation.entry.rewrites /\ v \in Rewrite
      BY <1>3, <2>1, UnderWay DEF OperationType
    <2>3. /\ operation'.kind = "undo" /\ operation'.entry = operation.entry
          /\ operation'.restore = operation.restore
          /\ operation'.attached = operation.attached
          /\ operation'.redoable = operation.redoable
      BY <2>1, UnderWay DEF OperationType
    <2>4. /\ Tabs(db') = Tabs(db) /\ Drafts(db') = Drafts(db)
          /\ \A t \in Tabs(db) : db'.tabs[t] = db.tabs[t]
          /\ \A c \in Drafts(db) :
               /\ db'.drafts[c].live = db.drafts[c].live
               /\ c # v.draft => SameLinks(db'.drafts[c], db.drafts[c])
      BY <2>1, <2>2, ReparentRows
    <2>5. \A x : ~Rewrote(operation.entry, x) => x # v.draft
      BY <2>2 DEF Rewrote
    <2>6. ASSUME NEW now, Partly(db, now, operation) PROVE Partly(db', now, operation')
      <3>1. /\ Tabs(db') = Tabs(now) /\ Drafts(db') = Drafts(now)
            /\ \A t \in Tabs(now) : db'.tabs[t] <=> now.tabs[t]
        BY <2>4, <2>6 DEF Partly
      <3>2. ASSUME NEW x \in Drafts(now)
            PROVE  /\ db'.drafts[x].live <=>
                        (now.drafts[x].live
                         \/ x \in operation.entry.doomed \ operation.restore)
                   /\ ~Rewrote(operation.entry, x) => SameLinks(db'.drafts[x], now.drafts[x])
        BY <2>4, <2>5, <2>6 DEF Partly, SameLinks
      <3> QED
        BY <2>3, <3>1, <3>2 DEF Partly
    <2> QED
      BY <2>1, <2>3, <2>6, CallKeepsRedo
  <1>4. CASE FinishUndo
    BY <1>4, FinishUndoKeepsRedo
  <1> QED
    BY <1>1, <1>2, <1>3, <1>4 DEF Undo

\* A finished redo is a deletion like any other.
LEMMA FinishRedoKeeps ==
  ASSUME TypeInv, TreeInv, UndoInv, RedoInv, FinishRedo
  PROVE  TreeInv' /\ UndoInv' /\ RedoInv'
  <1> DEFINE e == RedoneEntry
             old == operation.entry
             n == Len(undone)
             rest == Front(undone)
  <1>1. /\ operation.kind = "redo" /\ operation'.kind = "none"
        /\ IF operation.attached
           THEN /\ done' = Append(done, e)
                /\ undone' = IF operation.redoable THEN rest ELSE undone
           ELSE UNCHANGED <<done, undone>>
    BY DEF FinishRedo, NoOperation
  <1>2. /\ Fits(db, old) /\ HasPast(db, done) /\ HasFuture(db, undone)
        /\ operation.redoable => undone # <<>> /\ Last(undone) = old
        /\ ~operation.attached => done = <<>> /\ undone = <<>>
        /\ ~operation.redoable => undone = <<>>
    BY <1>1 DEF RedoInv
  <1>3. /\ e \in EntryType /\ e.before = Shape(db) /\ SameDeletion(e, old)
        /\ Fits(db, e) /\ Leaves(db', db, e) /\ Follows(db', db, e.doomed)
        /\ EntryOK(db, e) /\ e.doomed \subseteq Live(db)
    BY <1>2, RedoTakes
  <1> HIDE DEF e
  <1>4. done' = Append(done, e) \/ done' = <<>>
    BY <1>1, <1>2
  <1>5. TreeInv'
    BY <1>1, <1>3, <1>4, RecordKeepsTree
  <1>6. UndoInv'
    BY <1>1, <1>3, <1>4, LeavesLoses, RecordKeepsUndo
  <1>7. HasPast(db', done')
    BY <1>1, <1>2, <1>3, PastAppend, PastNone
  <1>8. HasFuture(db', undone')
    <2>1. CASE operation.attached /\ operation.redoable
      <3>1. undone # <<>> /\ undone' = rest /\ Last(undone) = old
        BY <1>1, <1>2, <2>1
      <3>2. /\ n \in Nat \ {0} /\ undone[n] = old
            /\ Len(rest) = n - 1 /\ \A i \in 1..(n - 1) : rest[i] = undone[i]
        BY <3>1, DoneStacks, FrontFacts
      <3>3. n = Len(undone)
        OBVIOUS
      <3> HIDE DEF rest, n
      <3>4. \E r : HasFuture(r, rest) /\ Leaves(r, db, undone[n])
        BY <1>2, <3>2, <3>3, FuturePop
      <3>5. PICK r : HasFuture(r, rest) /\ Leaves(r, db, old)
        BY <3>2, <3>4
      <3>6. Leaves(db', db, old)
        BY <1>3, SameDeletionFits
      <3>7. Alike(db', r)
        BY <3>5, <3>6, LeavesUnique
      <3>8. Len(rest) \in Nat
        BY <3>2
      <3> QED
        BY <3>1, <3>5, <3>7, <3>8, FutureAlike
    <2>2. CASE ~(operation.attached /\ operation.redoable)
      <3>1. undone' = <<>>
        BY <1>1, <1>2, <2>2
      <3> QED
        BY <3>1, FutureNone
    <2> QED
      BY <2>1, <2>2
  <1> QED
    BY <1>1, <1>5, <1>6, <1>7, <1>8, IdleRedo

-----------------------------------------------------------------------------
(* The invariant of the tree and its history.  Redo needs the past and the *)
(* future, and those need undos that do not fail.                          *)

HistoryInv ==
  /\ TypeInv /\ failed \in BOOLEAN /\ strayed \in BOOLEAN
  /\ ~strayed => /\ TreeInv /\ UndoInv
                 /\ ~failed => RedoInv
                 /\ failed => operation.kind # "redo"

LEMMA HistoryStarts == SessionInit => HistoryInv
  <1> SUFFICES ASSUME SessionInit PROVE HistoryInv
    OBVIOUS
  <1>1. TypeInv /\ failed = FALSE /\ strayed = FALSE
    BY InitType DEF SessionInit
  <1>2. /\ db = NewDocument /\ done = <<>> /\ undone = <<>>
        /\ operation = NoOperation /\ operation.kind = "none"
    BY DEF SessionInit, Init, NoOperation
  <1>3. TreeInv
    BY <1>2, NewDocumentSound, StackNone, IdleOperation DEF TreeInv
  <1>4. UndoInv
    BY <1>2, NoneRecovers, IdleRecovers DEF UndoInv
  <1>5. RedoInv
    BY <1>2, PastNone, FutureNone DEF RedoInv
  <1> QED
    BY <1>1, <1>3, <1>4, <1>5 DEF HistoryInv

\* The tree, and what the stack recovers: every step but a redo keeps them
\* without help.
LEMMA TreeAndUndoKept ==
  ASSUME TypeInv, TreeInv, UndoInv, [Next]_vars, ~FinishRedo
  PROVE  TreeInv' /\ UndoInv'
  <1> DEFINE Goal == TreeInv' /\ UndoInv'
  <1>1. ASSUME UNCHANGED <<db, done>>, operation'.kind # "undo" PROVE Goal
    BY <1>1, IdleOperation, IdleRecovers DEF TreeInv, UndoInv
  <1>2. CASE Create
    BY <1>2, CreateKeepsTree, CreateKeepsUndo
  <1>3. ASSUME NEW d \in Drafts(db), HandleDraftToggleLock(d) PROVE Goal
    BY <1>3, ToggleKeepsTree, ToggleKeepsUndo
  <1>4. CASE Delete
    BY <1>4, DeleteKeepsTree, DeleteKeepsUndo
  <1>5. CASE EditProse
    <2>1. operation' = [operation EXCEPT !.redoable = FALSE] /\ UNCHANGED <<db, done>>
      BY <1>5 DEF EditProse
    <2>2. /\ operation'.kind = operation.kind /\ operation'.entry = operation.entry
          /\ operation'.restore = operation.restore
          /\ operation'.relink = operation.relink
          /\ operation'.attached = operation.attached
      BY <2>1 DEF TypeInv, OperationTyped, OperationType
    <2> QED
      BY <2>1, <2>2 DEF TreeInv, OperationOK, UndoInv, OperationRecovers
  <1>6. CASE Undo
    BY <1>6, UndoKeepsTree, UndoKeepsUndo
  <1>7. CASE StartRedo
    BY <1>1, <1>7 DEF StartRedo
  <1>8. CASE OperationFails
    BY <1>1, <1>8 DEF OperationFails, NoOperation
  <1>9. CASE LeaveDocument
    <2>1. /\ operation' = [operation EXCEPT !.attached = FALSE, !.redoable = FALSE]
          /\ UNCHANGED db /\ done' = <<>>
      BY <1>9 DEF LeaveDocument
    <2>2. /\ operation'.kind = operation.kind /\ operation'.entry = operation.entry
          /\ operation'.restore = operation.restore
          /\ operation'.relink = operation.relink
          /\ operation'.attached = FALSE
      BY <2>1 DEF TypeInv, OperationTyped, OperationType
    <2> QED
      BY <2>1, <2>2, StackNone, NoneRecovers
         DEF TreeInv, OperationOK, UndoInv, OperationRecovers
  <1>10. CASE Crash
    <2>1. operation'.kind = "none" /\ UNCHANGED db /\ done' = <<>>
      BY <1>10 DEF Crash, NoOperation
    <2> QED
      BY <2>1, StackNone, IdleOperation, NoneRecovers, IdleRecovers DEF TreeInv, UndoInv
  <1>11. CASE UNCHANGED vars
    BY <1>11 DEF vars, TreeInv, UndoInv
  <1> QED
    BY <1>2, <1>3, <1>4, <1>5, <1>6, <1>7, <1>8, <1>9, <1>10, <1>11 DEF Next, Redo

\* The steps that leave a redo what it needs.
RedoSafe ==
  \/ Create \/ Delete \/ EditProse \/ Undo \/ StartRedo \/ LeaveDocument \/ Crash
  \/ \E d \in Drafts(db) : HandleDraftToggleLock(d)
  \/ OperationFails /\ ~(operation.kind = "undo" /\ operation.attached)
  \/ UNCHANGED vars

LEMMA RedoKept ==
  ASSUME TypeInv, TreeInv, UndoInv, RedoInv, RedoSafe
  PROVE  RedoInv'
  <1>1. CASE Create
    BY <1>1, CreateKeepsRedo
  <1>2. ASSUME NEW d \in Drafts(db), HandleDraftToggleLock(d) PROVE RedoInv'
    BY <1>2, ToggleKeepsRedo
  <1>3. CASE Delete
    BY <1>3, DeleteKeepsRedo
  <1>4. CASE EditProse
    <2>1. /\ operation' = [operation EXCEPT !.redoable = FALSE]
          /\ UNCHANGED <<db, done>> /\ undone' = <<>>
      BY <1>4 DEF EditProse
    <2>2. /\ operation'.kind = operation.kind /\ operation'.entry = operation.entry
          /\ operation'.restore = operation.restore
          /\ operation'.attached = operation.attached /\ operation'.redoable = FALSE
      BY <2>1 DEF TypeInv, OperationTyped, OperationType
    <2>3. operation'.kind = "undo" /\ operation'.attached =>
            \E now : /\ HasPast(now, done') /\ HasFuture(now, undone')
                     /\ Partly(db', now, operation')
      BY <2>1, <2>2, FutureNone DEF RedoInv, Partly
    <2> QED
      BY <2>1, <2>2, <2>3, FutureNone DEF RedoInv
  <1>5. CASE Undo
    BY <1>5, UndoKeepsRedo
  <1>6. CASE StartRedo
    <2> DEFINE e == Last(undone)
               n == Len(undone)
               rest == Front(undone)
    <2>1. /\ operation'.kind = "redo" /\ operation'.entry = e
          /\ operation'.attached = TRUE /\ operation'.redoable = TRUE
          /\ UNCHANGED <<db, done, undone>> /\ operation.kind = "none" /\ undone # <<>>
      BY <1>6 DEF StartRedo, Idle
    <2>2. HasPast(db, done) /\ HasFuture(db, undone)
      BY <2>1 DEF RedoInv
    <2>3. /\ n \in Nat \ {0} /\ undone[n] = e
          /\ Len(rest) = n - 1 /\ \A i \in 1..(n - 1) : rest[i] = undone[i]
      BY <2>1, DoneStacks, FrontFacts
    <2>4. Fits(db, e)
      <3>1. n = Len(undone)
        OBVIOUS
      <3> HIDE DEF n, rest, e
      <3>2. Fits(db, undone[n])
        BY <2>2, <2>3, <3>1, FuturePop
      <3> QED
        BY <2>3, <3>2
    <2> QED
      BY <2>1, <2>2, <2>4 DEF RedoInv
  <1>7. CASE OperationFails /\ ~(operation.kind = "undo" /\ operation.attached)
    <2>1. /\ operation.kind = "redo" \/ (operation.kind = "undo" /\ ~operation.attached)
          /\ operation'.kind = "none" /\ UNCHANGED <<db, done, undone>>
      BY <1>7 DEF OperationFails, NoOperation
    <2>2. HasPast(db, done) /\ HasFuture(db, undone)
      BY <2>1, PastNone, FutureNone DEF RedoInv
    <2> QED
      BY <2>1, <2>2, IdleRedo
  <1>8. CASE LeaveDocument
    <2>1. /\ operation' = [operation EXCEPT !.attached = FALSE, !.redoable = FALSE]
          /\ UNCHANGED db /\ done' = <<>> /\ undone' = <<>>
      BY <1>8 DEF LeaveDocument
    <2>2. /\ operation'.kind = operation.kind /\ operation'.entry = operation.entry
          /\ operation'.attached = FALSE /\ operation'.redoable = FALSE
      BY <2>1 DEF TypeInv, OperationTyped, OperationType
    <2> QED
      BY <2>1, <2>2, PastNone, FutureNone DEF RedoInv
  <1>9. CASE Crash
    <2>1. operation'.kind = "none" /\ done' = <<>> /\ undone' = <<>>
      BY <1>9 DEF Crash, NoOperation
    <2> QED
      BY <2>1, PastNone, FutureNone, IdleRedo
  <1>10. CASE UNCHANGED vars
    BY <1>10 DEF vars, RedoInv
  <1> QED
    BY <1>1, <1>2, <1>3, <1>4, <1>5, <1>6, <1>7, <1>8, <1>9, <1>10 DEF RedoSafe

\* No redo comes to be under way but by StartRedo.
LEMMA RedoStarts ==
  ASSUME TypeInv, operation.kind # "redo", OtherStep \/ UndoFails \/ UNCHANGED vars
  PROVE  operation'.kind # "redo"
  <1> SUFFICES ASSUME operation'.kind = "redo" PROVE FALSE
    OBVIOUS
  <1>1. operation.kind # "redo" /\ operation \in OperationType
    BY DEF TypeInv, OperationTyped
  <1>2. ASSUME operation' = operation \/ operation' = NoOperation PROVE FALSE
    BY <1>1, <1>2 DEF NoOperation
  <1>3. CASE Undo
    BY <1>1, <1>2, <1>3 DEF Undo, StartUndo, UndoRestoresDraft, UndoRelinksDraft,
                            FinishUndo, OperationType
  <1>4. CASE EditProse
    BY <1>1, <1>4 DEF EditProse, OperationType
  <1>5. CASE Create
    BY <1>2, <1>5, CreateMakes
  <1>6. ASSUME NEW d \in Drafts(db), HandleDraftToggleLock(d) PROVE FALSE
    BY <1>2, <1>6 DEF HandleDraftToggleLock
  <1>7. CASE Delete
    BY <1>2, <1>7 DEF Delete, HandleTabDelete, HandleDraftDelete, HandleDeleteCascade,
                      HandleDeleteOrphan
  <1>8. CASE FinishRedo \/ RedoRefused \/ UndoFails
    BY <1>2, <1>8 DEF FinishRedo, RedoRefused, UndoFails, OperationFails
  <1>9. CASE UNCHANGED vars
    BY <1>2, <1>9 DEF vars
  <1> QED
    BY <1>3, <1>4, <1>5, <1>6, <1>7, <1>8, <1>9 DEF OtherStep

\* A document that is left, or a crash, leaves nothing to redo.
LEMMA EndsRedo ==
  ASSUME TypeInv, operation.kind # "redo", LeaveDocument \/ Crash
  PROVE  RedoInv'
  <1>1. done' = <<>> /\ undone' = <<>>
    BY DEF LeaveDocument, Crash
  <1>2. /\ operation'.kind # "redo"
        /\ operation'.kind # "none" => ~operation'.attached
    <2>1. CASE LeaveDocument
      <3>1. operation' = [operation EXCEPT !.attached = FALSE, !.redoable = FALSE]
        BY <2>1 DEF LeaveDocument
      <3> QED
        BY <3>1 DEF TypeInv, OperationTyped, OperationType
    <2>2. CASE Crash
      BY <2>2 DEF Crash, NoOperation
    <2> QED
      BY <2>1, <2>2
  <1> QED
    BY <1>1, <1>2, PastNone, FutureNone DEF RedoInv

LEMMA HistoryKept ==
  ASSUME HistoryInv, [SessionNext]_sessionVars
  PROVE  HistoryInv'
  <1>1. TypeInv' /\ TypeInv /\ [Next]_vars
    BY SessionStep, NextTyped DEF HistoryInv
  <1>2. failed' \in BOOLEAN /\ strayed' \in BOOLEAN /\ (strayed => strayed')
    BY <1>1 DEF HistoryInv, SessionNext, sessionVars, TypeInv, OperationTyped, OperationType
  <1> SUFFICES ASSUME ~strayed'
               PROVE  /\ TreeInv' /\ UndoInv'
                      /\ ~failed' => RedoInv'
                      /\ failed' => operation'.kind # "redo"
    BY <1>1, <1>2 DEF HistoryInv
  <1>3. /\ TreeInv /\ UndoInv
        /\ ~failed => RedoInv
        /\ failed => operation.kind # "redo"
    BY <1>2 DEF HistoryInv
  <1>4. CASE FinishRedo
    <2>1. operation.kind = "redo" /\ operation'.kind = "none"
      BY <1>4 DEF FinishRedo, NoOperation
    <2> QED
      BY <1>1, <1>3, <1>4, <2>1, FinishRedoKeeps
  <1>5. CASE ~FinishRedo
    <2>1. TreeInv' /\ UndoInv'
      BY <1>1, <1>3, <1>5, TreeAndUndoKept
    <2>2. CASE UndoFails /\ failed' = (failed \/ operation.attached)
      <3>1. operation'.kind # "redo"
        BY <2>2 DEF UndoFails, OperationFails, NoOperation
      <3>2. ~failed' => RedoSafe
        BY <2>2 DEF UndoFails, RedoSafe
      <3> QED
        BY <1>1, <1>3, <2>1, <2>2, <3>1, <3>2, RedoKept
    <2>3. CASE StartRedo /\ strayed' = (strayed \/ failed) /\ UNCHANGED failed
      BY <1>1, <1>3, <2>1, <2>3, RedoKept DEF RedoSafe
    <2>4. CASE (LeaveDocument \/ Crash) /\ failed' = FALSE
      <3>1. CASE operation.kind # "redo"
        BY <1>1, <2>1, <2>4, <3>1, EndsRedo
      <3>2. CASE operation.kind = "redo"
        BY <1>1, <1>3, <2>1, <2>4, <3>2, RedoKept DEF RedoSafe
      <3> QED
        BY <3>1, <3>2
    <2>5. CASE (OtherStep \/ UNCHANGED vars) /\ UNCHANGED <<failed, strayed>>
      <3>1. failed' => operation'.kind # "redo"
        BY <1>1, <1>3, <2>5, RedoStarts
      <3>2. RedoSafe
        BY <1>5, <2>5 DEF OtherStep, RedoRefused, RedoSafe
      <3> QED
        BY <1>1, <1>3, <2>1, <2>5, <3>1, <3>2, RedoKept
    <2> QED
      BY <2>2, <2>3, <2>4, <2>5 DEF SessionNext, sessionVars
  <1> QED
    BY <1>4, <1>5

\* Until a redo is begun in a session in which an undo had failed midway, every
\* live draft hangs off a live draft of its tab and every tab keeps its one root,
\* whatever is deleted, spliced, undone and redone, in whatever order and up to
\* whichever call: TreeHolds, for any number of tabs, drafts and deletions.
THEOREM TreeKept == SessionSpec => []TreeHolds
  <1>1. SessionInit => HistoryInv
    BY HistoryStarts
  <1>2. HistoryInv /\ [SessionNext]_sessionVars => HistoryInv'
    BY HistoryKept
  <1>3. HistoryInv => TreeHolds
    BY SoundHangs DEF HistoryInv, TreeInv, TreeHolds
  <1> QED
    BY <1>1, <1>2, <1>3, PTL DEF SessionSpec

\* Until then an undo that finishes gives every tab and draft the liveness and the
\* links that its deletion found, whatever was created, deleted, undone and redone
\* since and however many tries failed midway: UndoIsExact.
THEOREM UndosAreExact == SessionSpec => UndoIsExact
  <1>1. SessionInit => HistoryInv
    BY HistoryStarts
  <1>2. HistoryInv /\ [SessionNext]_sessionVars => HistoryInv'
    BY HistoryKept
  <1>3. HistoryInv /\ [SessionNext]_sessionVars
          => [FinishUndo /\ ~strayed
                => Extends(Shape(db'), operation.entry.before)]_sessionVars
    BY FinishIsExact DEF HistoryInv
  <1> QED
    BY <1>1, <1>2, <1>3, PTL DEF SessionSpec, UndoIsExact

\* Until then a redo deletes the drafts that its undo brought back and no other,
\* though it computes its deletion afresh: RedoRemovesExactly.
THEOREM RedosAreExact == SessionSpec => RedoRemovesExactly
  <1>1. SessionInit => HistoryInv
    BY HistoryStarts
  <1>2. HistoryInv /\ [SessionNext]_sessionVars => HistoryInv'
    BY HistoryKept
  <1>3. HistoryInv /\ [SessionNext]_sessionVars
          => [FinishRedo /\ ~strayed
                => Live(db) \ Live(db') = operation.entry.doomed]_sessionVars
    <2>1. HistoryInv /\ FinishRedo /\ ~strayed => TypeInv /\ TreeInv /\ RedoInv
      BY DEF HistoryInv, FinishRedo
    <2> QED
      BY <2>1, RedoIsExact
  <1> QED
    BY <1>1, <1>2, <1>3, PTL DEF SessionSpec, RedoRemovesExactly
=============================================================================
