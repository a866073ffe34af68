---------------------------- MODULE LibraryProofs ----------------------------
(* Proofs about Library: whatever is pruned, trashed, purged or copied, a     *)
(* draft whose seed is labeled loads with everything written in it            *)
(* (SeedsHold), what is named stays with its document (NothingNamedGoes), and *)
(* a copy holds its source as it is when the copy is made (CopyIsCurrent).    *)
EXTENDS Library, FiniteSetTheorems, WellFoundedInduction, TLAPS

\* A draft while the last event has the id `last'.
Draft(last) ==
  [doc : 1 .. MaxDocs, tabLive : BOOLEAN, events : SUBSET (1 .. last),
   snaps : SUBSET Snapshots, text : Texts, plain : BOOLEAN]

\* What a snapshot and the events after it amount to is what was written.
Covers(draft, s) == draft.text = s.text \cup {e \in draft.events : e > s.upTo}

\* Every snapshot of a draft with a labeled seed covers it, and a labeled one is
\* there, or the events alone are the text.
Kept(draft) ==
  ~draft.plain =>
    /\ \A s \in draft.snaps : Covers(draft, s)
    /\ (\E s \in draft.snaps : s.named) \/ draft.text = draft.events

\* A draft as it may be while the last event has the id `last'.
GoodDraft(draft, last) ==
  /\ draft \in Draft(last) /\ Kept(draft)
  /\ \A s \in draft.snaps : s.upTo <= last

Tables ==
  /\ now \in 0 .. MaxTime /\ lastEvent \in 0 .. MaxEvents
  /\ docs \in [1 .. MaxDocs -> [state : {"none", "live", "trash", "gone"}, at : 0 .. MaxTime]]
  /\ stale \subseteq 1 .. MaxDocs

DraftsHold ==
  /\ \E n \in Nat : Ids = 1 .. n
  /\ drafts = [d \in Ids |-> drafts[d]]
  /\ \A d \in Ids : GoodDraft(drafts[d], lastEvent)

\* A state read for a copy is the draft's text, unless an event came since.
CopyHonest ==
  \A c \in copying :
    /\ c \in [doc : 1 .. MaxDocs, drafts : SUBSET Ids, read : {c.read}]
    /\ DOMAIN c.read \subseteq c.drafts
    /\ \A d \in DOMAIN c.read :
         /\ c.read[d].upTo \in -1 .. lastEvent /\ c.read[d].text \in Texts
         /\ ~drafts[d].plain /\ c.read[d].upTo = LatestEvent(d)
              => c.read[d].text = drafts[d].text

OneCopy == \A b, c \in copying : b = c

LibraryInv == Tables /\ DraftsHold /\ CopyHonest /\ OneCopy

-----------------------------------------------------------------------------
(* Numbers *)

\* A bounded set of integers that is not empty has a largest element.
LEMMA LargestExists ==
  ASSUME NEW lo \in Int, NEW hi \in Int, NEW S \in SUBSET (lo .. hi), S # {}
  PROVE  \E m \in S : \A x \in S : m >= x
<1> DEFINE up(x) == {y \in S : y >= x}
           Ups   == {up(x) : x \in S}
<1>1. IsFiniteSet(S)
  BY FS_Interval, FS_Subset
<1>2. FiniteSubsetsOf(S) = SUBSET S
  BY <1>1, FS_FiniteSubsetsOfFinite
<1>3. IsWellFoundedOn(StrictSubsetOrdering(S), SUBSET S)
  BY <1>2, FS_StrictSubsetOrderingWellFounded
<1>4. Ups \subseteq SUBSET S /\ Ups # {}
  OBVIOUS
<1>5. PICK U \in Ups : \A V \in Ups : <<V, U>> \notin StrictSubsetOrdering(S)
  <2> HIDE DEF Ups
  <2> QED BY <1>3, <1>4, WFMin
<1>6. PICK m \in S : U = up(m)
  BY <1>5
<1>7. ASSUME NEW x \in S, ~(m >= x) PROVE FALSE
  <2>1. x > m /\ m \in Int /\ x \in Int
    BY <1>7
  <2>2. up(x) \subseteq up(m) /\ m \in up(m) /\ m \notin up(x)
    <3>1. ASSUME NEW y \in S, y >= x PROVE y >= m
      BY <2>1, <3>1
    <3>2. m >= m
      BY <2>1
    <3> QED BY <1>7, <3>1, <3>2
  <2>3. up(x) \in SUBSET S /\ up(m) \in SUBSET S
    OBVIOUS
  <2>4. <<up(x), up(m)>> \in StrictSubsetOrdering(S)
    <3> HIDE DEF up
    <3> QED BY <2>2, <2>3 DEF StrictSubsetOrdering
  <2> QED BY <1>5, <1>6, <2>4
<1> QED BY <1>7

\* Max is that element.
LEMMA MaxProperties ==
  ASSUME NEW lo \in Int, NEW hi \in Int, NEW S \in SUBSET (lo .. hi), S # {}
  PROVE  Max(S) \in S /\ \A x \in S : Max(S) >= x
<1>1. \E m \in S : \A x \in S : m >= x
  BY LargestExists
<1> QED BY <1>1 DEF Max

\* Min is the smallest element of an interval's subset.
LEMMA MinProperties ==
  ASSUME NEW lo \in Int, NEW hi \in Int, NEW S \in SUBSET (lo .. hi), S # {}
  PROVE  Min(S) \in S
<1> DEFINE Neg == {-x : x \in S}
<1>1. ASSUME NEW x \in S PROVE -x \in -hi .. -lo
  OBVIOUS
<1>a. Neg \in SUBSET (-hi .. -lo) /\ Neg # {}
  BY <1>1
<1>2. PICK m \in Neg : \A x \in Neg : m >= x
  <2> HIDE DEF Neg
  <2>1. -hi \in Int /\ -lo \in Int
    OBVIOUS
  <2> QED BY <1>a, <2>1, LargestExists
<1>3. -m \in S /\ \A y \in S : -m <= y
  <2>1. PICK z \in S : m = -z
    BY <1>2
  <2>2. ASSUME NEW y \in S PROVE -m <= y
    <3>1. -y \in Neg
      OBVIOUS
    <3>2. m >= -y /\ m \in Int /\ y \in Int
      BY <1>2, <2>1, <3>1
    <3> QED BY <3>2
  <2>3. -m = z
    BY <2>1
  <2> QED BY <2>2, <2>3
<1> QED BY <1>3 DEF Min

\* In a finite set of integers there is an element for every rank.
LEMMA RankIsTaken ==
  ASSUME NEW R \in SUBSET Int, IsFiniteSet(R), NEW k \in 1 .. Cardinality(R)
  PROVE  \E e \in R : Cardinality({x \in R : x <= e}) = k
<1> DEFINE below(e) == {x \in R : x <= e}
           rank     == [e \in R |-> Cardinality(below(e))]
<1>1. Cardinality(R) \in Nat
  BY FS_CardinalityType
<1>2. ASSUME NEW e \in R
      PROVE  IsFiniteSet(below(e)) /\ Cardinality(below(e)) \in 1 .. Cardinality(R)
  <2>1. below(e) \in SUBSET R /\ e \in below(e)
    OBVIOUS
  <2> HIDE DEF below
  <2>2. IsFiniteSet(below(e)) /\ Cardinality(below(e)) <= Cardinality(R)
    BY <2>1, FS_Subset
  <2>3. Cardinality(below(e)) \in Nat /\ Cardinality(below(e)) # 0
    BY <2>1, <2>2, FS_CardinalityType, FS_EmptySet
  <2> QED BY <1>1, <2>2, <2>3
<1>3. ASSUME NEW e \in R, NEW f \in R, e < f PROVE Cardinality(below(e)) # Cardinality(below(f))
  <2>1. below(e) \in SUBSET below(f) /\ f \in below(f) /\ f \notin below(e)
    <3>1. ASSUME NEW x \in R, x <= e PROVE x <= f
      BY <1>3, <3>1
    <3>2. f <= f /\ ~(f <= e)
      BY <1>3
    <3> QED BY <3>1, <3>2
  <2>2. IsFiniteSet(below(f))
    BY <1>2
  <2> HIDE DEF below
  <2>3. Cardinality(below(f)) = Cardinality(below(e)) => below(f) = below(e)
    BY <2>1, <2>2, FS_Subset
  <2> QED BY <2>1, <2>3
<1>4. rank \in Injection(R, 1 .. Cardinality(R))
  <2>1. rank \in [R -> 1 .. Cardinality(R)]
    BY <1>2
  <2>2. ASSUME NEW e \in R, NEW f \in R, rank[e] = rank[f] PROVE e = f
    <3>1. e < f \/ f < e \/ e = f
      OBVIOUS
    <3> QED BY <1>3, <2>2, <3>1
  <2> HIDE DEF rank
  <2> QED BY <2>1, <2>2 DEF Injection, IsInjective
<1>5. IsFiniteSet(1 .. Cardinality(R)) /\ Cardinality(1 .. Cardinality(R)) = Cardinality(R)
  BY <1>1, FS_Interval
<1>6. rank \in Surjection(R, 1 .. Cardinality(R))
  <2> HIDE DEF rank
  <2> QED BY <1>4, <1>5, FS_Injection
<1>7. \E e \in R : rank[e] = k
  <2> HIDE DEF rank
  <2> QED BY <1>6 DEF Surjection
<1> QED BY <1>7

-----------------------------------------------------------------------------
(* What a draft loads *)

\* The bounds are numbers.
LEMMA Bounds == MaxEvents \in Nat /\ MaxDocs \in Nat /\ MaxTime \in Nat
BY LibraryAssumption

\* A snapshot with the fields SQLite gives it.
LEMMA SnapshotFields ==
  ASSUME NEW s \in Snapshots
  PROVE  /\ s = [upTo |-> s.upTo, named |-> s.named, at |-> s.at, text |-> s.text]
         /\ s.upTo \in -1 .. MaxEvents /\ s.named \in BOOLEAN /\ s.at \in 0 .. MaxTime
         /\ s.text \in Texts
BY DEF Snapshots

\* A draft with the fields the model gives it.
LEMMA DraftFields ==
  ASSUME Tables, DraftsHold, NEW d \in Ids
  PROVE  /\ lastEvent \in Nat /\ lastEvent <= MaxEvents
         /\ drafts[d] \in Draft(lastEvent)
         /\ drafts[d].doc \in 1 .. MaxDocs /\ drafts[d].tabLive \in BOOLEAN
         /\ drafts[d].events \in SUBSET (1 .. lastEvent)
         /\ drafts[d].snaps \in SUBSET Snapshots
         /\ drafts[d].text \in Texts /\ drafts[d].plain \in BOOLEAN
<1>1. lastEvent \in Nat /\ lastEvent <= MaxEvents
  BY Bounds DEF Tables
<1>2. drafts[d] \in Draft(lastEvent)
  BY DEF DraftsHold, GoodDraft
<1> QED BY <1>1, <1>2 DEF Draft

\* The latest event of a draft is the largest id, or -1 before the first edit.
LEMMA LatestIs ==
  ASSUME Tables, DraftsHold, NEW d \in Ids
  PROVE  /\ LatestEvent(d) \in -1 .. lastEvent
         /\ \A e \in drafts[d].events : e <= LatestEvent(d)
<1> DEFINE S == drafts[d].events \cup {-1}
<1>1. lastEvent \in Nat /\ drafts[d].events \in SUBSET (1 .. lastEvent)
  BY DraftFields
<1>2. S \in SUBSET (-1 .. lastEvent) /\ S # {} /\ -1 \in Int /\ lastEvent \in Int
  BY <1>1
<1>3. Max(S) \in S /\ \A x \in S : Max(S) >= x
  <2> HIDE DEF S
  <2> QED BY <1>2, MaxProperties
<1>4. LatestEvent(d) = Max(S)
  BY DEF LatestEvent
<1> HIDE DEF S
<1>5. LatestEvent(d) \in -1 .. lastEvent
  BY <1>2, <1>3, <1>4
<1>6. ASSUME NEW e \in drafts[d].events PROVE e <= LatestEvent(d)
  <2>1. e \in S /\ e \in Int
    BY <1>1 DEF S
  <2> QED BY <1>3, <1>4, <1>5, <2>1
<1> QED BY <1>5, <1>6

\* A draft loads on top of one of its snapshots, if it has any.
LEMMA BaseIs ==
  ASSUME Tables, DraftsHold, NEW d \in Ids
  PROVE  /\ drafts[d].snaps # {} => Base(d) \in drafts[d].snaps
         /\ drafts[d].snaps = {} => Base(d) = [upTo |-> -1, text |-> {}]
         /\ Base(d).upTo \in -1 .. lastEvent /\ Base(d).text \in Texts
<1> DEFINE snaps == drafts[d].snaps
           best  == {s \in snaps : \A t \in snaps : t.upTo <= s.upTo}
           ends  == {s.upTo : s \in snaps}
<1>1. lastEvent \in Nat /\ snaps \in SUBSET Snapshots /\ \A s \in snaps : s.upTo <= lastEvent
  BY DraftFields DEF DraftsHold, GoodDraft
<1>2. \A s \in snaps : s.upTo \in -1 .. lastEvent /\ s.text \in Texts
  BY <1>1, SnapshotFields, Bounds
<1>3. ASSUME snaps # {} PROVE best # {}
  <2>1. ends \in SUBSET (-1 .. lastEvent) /\ ends # {} /\ -1 \in Int /\ lastEvent \in Int
    BY <1>1, <1>2, <1>3
  <2>2. \E m \in ends : \A x \in ends : m >= x
    <3> HIDE DEF ends
    <3> QED BY <2>1, LargestExists
  <2>3. PICK s \in snaps : \A t \in snaps : s.upTo >= t.upTo
    BY <2>2
  <2>4. \A t \in snaps : t.upTo <= s.upTo
    BY <1>2, <2>3
  <2> QED BY <2>4
<1>4. Base(d) = IF best = {} THEN [upTo |-> -1, text |-> {}] ELSE CHOOSE s \in best : TRUE
  BY DEF Base
<1>5. snaps # {} => Base(d) \in snaps
  BY <1>3, <1>4
<1>6. snaps = {} => Base(d) = [upTo |-> -1, text |-> {}]
  BY <1>4
<1>7. Base(d).upTo \in -1 .. lastEvent /\ Base(d).text \in Texts
  <2>1. CASE snaps = {}
    <3>1. Base(d).upTo = -1 /\ Base(d).text = {}
      BY <1>6, <2>1
    <3> QED BY <1>1, <3>1 DEF Texts
  <2>2. CASE snaps # {}
    <3> HIDE DEF snaps
    <3> QED BY <1>2, <1>5, <2>2
  <2> QED BY <2>1, <2>2
<1> QED BY <1>5, <1>6, <1>7

\* What is loaded, and the event it is taken for, are in range.
LEMMA LoadedInRange ==
  ASSUME Tables, DraftsHold, NEW d \in Ids
  PROVE  Loaded(d) \in Texts /\ LoadedUpTo(d) \in -1 .. lastEvent
<1>1. /\ lastEvent \in Nat /\ lastEvent <= MaxEvents
      /\ drafts[d].events \in SUBSET (1 .. lastEvent)
  BY DraftFields
<1>2. Base(d).upTo \in -1 .. lastEvent /\ Base(d).text \in Texts
  BY BaseIs
<1>3. Tail(d) \in SUBSET (1 .. lastEvent)
  BY <1>1 DEF Tail
<1>4. Loaded(d) \in Texts
  BY <1>1, <1>2, <1>3, Bounds DEF Loaded, Texts
<1>5. ASSUME Tail(d) # {} PROVE Max(Tail(d)) \in 1 .. lastEvent
  <2>1. 1 \in Int /\ lastEvent \in Int
    BY <1>1
  <2> QED BY <1>3, <1>5, <2>1, MaxProperties
<1>6. LoadedUpTo(d) \in -1 .. lastEvent
  BY <1>1, <1>2, <1>5 DEF LoadedUpTo
<1> QED BY <1>4, <1>6

\* A draft with a labeled seed loads with what was written in it.
LEMMA KeptLoads ==
  ASSUME Tables, DraftsHold, NEW d \in Ids, ~drafts[d].plain
  PROVE  Loaded(d) = drafts[d].text
<1>1. drafts[d].events \in SUBSET (1 .. lastEvent) /\ lastEvent \in Nat
  BY DraftFields
<1>2. CASE drafts[d].snaps = {}
  <2>1. Base(d).upTo = -1 /\ Base(d).text = {}
    BY <1>2, BaseIs
  <2>2. Tail(d) = drafts[d].events
    BY <1>1, <2>1 DEF Tail
  <2>3. drafts[d].text = drafts[d].events
    BY <1>2 DEF Kept, DraftsHold, GoodDraft
  <2> QED BY <2>1, <2>2, <2>3 DEF Loaded
<1>3. CASE drafts[d].snaps # {}
  <2>1. Base(d) \in drafts[d].snaps
    BY <1>3, BaseIs
  <2>2. Covers(drafts[d], Base(d))
    BY <2>1 DEF Kept, DraftsHold, GoodDraft
  <2> QED BY <2>2 DEF Covers, Loaded, Tail
<1> QED BY <1>2, <1>3

\* The invariant gives the types and keeps labeled seeds loadable.
LEMMA InvLoads == LibraryInv => SeedsHold
<1> SUFFICES ASSUME Tables, DraftsHold PROVE SeedsHold
  BY DEF LibraryInv
<1>1. PICK n \in Nat : Ids = 1 .. n
  BY DEF DraftsHold
<1>2. Cardinality(Ids) = n
  BY <1>1, FS_Interval
<1>3. TypeOK
  BY <1>1, <1>2, DraftFields DEF TypeOK, Tables
<1>4. NamedSeedsLoad
  BY KeptLoads DEF NamedSeedsLoad
<1> QED BY <1>3, <1>4 DEF SeedsHold

\* A draft that has one snapshot and no edits loads as that snapshot.
FreshLoads ==
  \A d \in Ids : \A s \in drafts[d].snaps :
    drafts[d].snaps = {s} /\ drafts[d].events = {} => Loaded(d) = s.text

\* It always does.
LEMMA FreshLoad == LibraryInv => FreshLoads
<1> SUFFICES ASSUME Tables, DraftsHold, NEW d \in Ids, NEW s \in drafts[d].snaps,
                    drafts[d].snaps = {s}, drafts[d].events = {}
             PROVE  Loaded(d) = s.text
  BY DEF LibraryInv, FreshLoads
<1>1. Base(d) = s
  BY BaseIs
<1>2. Tail(d) = {}
  BY DEF Tail
<1> QED BY <1>1, <1>2 DEF Loaded

-----------------------------------------------------------------------------
(* What an operation does to one draft *)

\* What a snapshot taken now holds.
LEMMA SnapshotTaken ==
  ASSUME Tables, NEW upTo \in -1 .. MaxEvents, NEW named \in BOOLEAN, NEW text \in Texts
  PROVE  /\ Snapshot(upTo, named, text) \in Snapshots
         /\ Snapshot(upTo, named, text).upTo = upTo
         /\ Snapshot(upTo, named, text).named = named
         /\ Snapshot(upTo, named, text).text = text
BY DEF Tables, Snapshot, Snapshots

\* The fields of a good draft.
LEMMA GoodFields ==
  ASSUME NEW last, NEW draft, GoodDraft(draft, last)
  PROVE  /\ draft.doc \in 1 .. MaxDocs /\ draft.tabLive \in BOOLEAN
         /\ draft.events \in SUBSET (1 .. last) /\ draft.snaps \in SUBSET Snapshots
         /\ draft.text \in Texts /\ draft.plain \in BOOLEAN
BY DEF GoodDraft, Draft

\* A draft stays good when another one is edited.
LEMMA GoodLater ==
  ASSUME NEW last \in Nat, NEW then \in Nat, last <= then, NEW draft, GoodDraft(draft, last)
  PROVE  GoodDraft(draft, then)
<1>1. draft.events \in SUBSET (1 .. then)
  BY GoodFields
<1>2. draft \in Draft(then)
  BY <1>1 DEF GoodDraft, Draft
<1>3. \A s \in draft.snaps : s \in Snapshots /\ s.upTo <= last
  BY GoodFields DEF GoodDraft
<1>4. \A s \in draft.snaps : s.upTo <= then
  <2> TAKE s \in draft.snaps
  <2>1. s.upTo \in Int /\ s.upTo <= last
    BY <1>3, SnapshotFields, Bounds
  <2> QED BY <2>1
<1> QED BY <1>2, <1>4 DEF GoodDraft

\* delete_tab touches nothing of its drafts.
LEMMA TabGone ==
  ASSUME NEW last, NEW draft, GoodDraft(draft, last)
  PROVE  GoodDraft([draft EXCEPT !.tabLive = FALSE], last)
<1> DEFINE r == [draft EXCEPT !.tabLive = FALSE]
<1>1. r \in Draft(last)
  BY DEF GoodDraft, Draft
<1>2. r.events = draft.events /\ r.snaps = draft.snaps /\ r.text = draft.text
      /\ r.plain = draft.plain
  BY DEF GoodDraft, Draft
<1> HIDE DEF r
<1>3. Kept(r)
  BY <1>2 DEF GoodDraft, Kept, Covers
<1> QED BY <1>1, <1>2, <1>3 DEF GoodDraft, r

\* Losing snapshots without a label leaves what the others cover.
LEMMA FewerSnapshots ==
  ASSUME NEW last, NEW draft, GoodDraft(draft, last), NEW keep \in SUBSET draft.snaps,
         \A s \in draft.snaps : s.named => s \in keep
  PROVE  GoodDraft([draft EXCEPT !.snaps = keep], last)
<1> DEFINE r == [draft EXCEPT !.snaps = keep]
<1>1. r \in Draft(last)
  BY DEF GoodDraft, Draft
<1>2. r.events = draft.events /\ r.snaps = keep /\ r.text = draft.text /\ r.plain = draft.plain
  BY DEF GoodDraft, Draft
<1> HIDE DEF r
<1>3. Kept(r)
  BY <1>2 DEF GoodDraft, Kept, Covers
<1> QED BY <1>1, <1>2, <1>3 DEF GoodDraft, r

\* A snapshot of the whole text, or a label on one that is there, covers the draft.
LEMMA MoreSnapshots ==
  ASSUME NEW last, NEW draft, GoodDraft(draft, last), NEW snaps \in SUBSET Snapshots,
         \A s \in snaps : s.upTo <= last /\ (~draft.plain => Covers(draft, s)),
         \A s \in draft.snaps : s.named => s \in snaps
  PROVE  GoodDraft([draft EXCEPT !.snaps = snaps], last)
<1> DEFINE r == [draft EXCEPT !.snaps = snaps]
<1>1. r \in Draft(last)
  BY DEF GoodDraft, Draft
<1>2. r.events = draft.events /\ r.snaps = snaps /\ r.text = draft.text /\ r.plain = draft.plain
  BY DEF GoodDraft, Draft
<1> HIDE DEF r
<1>3. Kept(r)
  BY <1>2 DEF GoodDraft, Kept, Covers
<1> QED BY <1>1, <1>2, <1>3 DEF GoodDraft, r

\* An edit adds one event, later than every snapshot, to the events and to the text.
LEMMA Edited ==
  ASSUME NEW last \in Nat, last + 1 <= MaxEvents, NEW draft, GoodDraft(draft, last)
  PROVE  GoodDraft([draft EXCEPT !.events = @ \cup {last + 1}, !.text = @ \cup {last + 1}],
                   last + 1)
<1> DEFINE r == [draft EXCEPT !.events = @ \cup {last + 1}, !.text = @ \cup {last + 1}]
<1>1. /\ draft.events \in SUBSET (1 .. last) /\ draft.snaps \in SUBSET Snapshots
      /\ draft.text \in Texts
  BY GoodFields
<1>2. /\ draft.events \cup {last + 1} \in SUBSET (1 .. (last + 1))
      /\ draft.text \cup {last + 1} \in Texts
  BY <1>1, Bounds DEF Texts
<1>3. r \in Draft(last + 1)
  BY <1>2 DEF GoodDraft, Draft
<1>4. /\ r.events = draft.events \cup {last + 1} /\ r.text = draft.text \cup {last + 1}
      /\ r.snaps = draft.snaps /\ r.plain = draft.plain
  BY DEF GoodDraft, Draft
<1>5. \A s \in draft.snaps : s.upTo \in Int /\ s.upTo <= last /\ last + 1 > s.upTo
  <2> TAKE s \in draft.snaps
  <2>1. s.upTo \in Int /\ s.upTo <= last
    BY <1>1, SnapshotFields, Bounds DEF GoodDraft
  <2> QED BY <2>1
<1> HIDE DEF r
<1>6. ASSUME NEW s \in draft.snaps, Covers(draft, s) PROVE Covers(r, s)
  <2>1. last + 1 > s.upTo
    BY <1>5
  <2> QED BY <1>4, <1>6, <2>1 DEF Covers
<1>7. Kept(r)
  BY <1>4, <1>6 DEF GoodDraft, Kept
<1>8. \A s \in r.snaps : s.upTo <= last + 1
  <2> TAKE s \in r.snaps
  <2>1. s.upTo \in Int /\ s.upTo <= last
    BY <1>4, <1>5
  <2> QED BY <2>1
<1> QED BY <1>3, <1>7, <1>8 DEF GoodDraft, r

\* A new draft is good, and its seed is labeled unless it is the sample's or a copy's.
LEMMA NewIsGood ==
  ASSUME Tables, NEW doc \in 1 .. MaxDocs,
         NEW origin \in {"blank", "sample", "branch", "prompt"}
  PROVE  GoodDraft(FromOrigin(doc, origin), lastEvent)
<1> DEFINE r == FromOrigin(doc, origin)
           written == IF origin = "blank" THEN {} ELSE {0}
           plain == \E s \in Seed(origin) : ~s.named
<1>1. /\ lastEvent \in Nat /\ lastEvent <= MaxEvents
      /\ {0} \in Texts /\ {} \in Texts /\ 0 \in -1 .. MaxEvents /\ -1 \in -1 .. MaxEvents
  BY Bounds DEF Tables, Texts
<1>2. /\ origin = "blank" => Seed(origin) = {}
      /\ origin = "sample" => Seed(origin) = {Snapshot(-1, FALSE, {0})}
      /\ origin = "branch" => Seed(origin) = {Snapshot(-1, TRUE, {0})}
      /\ origin = "prompt" => Seed(origin) = {Snapshot(0, TRUE, {0})}
  BY DEF Seed
<1>3. \A s \in Seed(origin) :
        /\ s \in Snapshots /\ s.upTo <= lastEvent /\ s.text = {0}
        /\ s.named = (origin # "sample")
  <2>1. /\ -1 <= lastEvent /\ 0 <= lastEvent
        /\ FALSE \in BOOLEAN /\ TRUE \in BOOLEAN
    BY <1>1
  <2>2. CASE origin = "sample"
    <3> DEFINE seed == Snapshot(-1, FALSE, {0})
    <3>1. /\ seed \in Snapshots /\ seed.upTo = -1 /\ seed.named = FALSE
          /\ seed.text = {0}
      <4>1. PICK upTo, named, text : upTo = -1 /\ named = FALSE /\ text = {0}
        OBVIOUS
      <4>2. upTo \in -1 .. MaxEvents /\ named \in BOOLEAN /\ text \in Texts
        BY <1>1, <4>1
      <4>3. /\ Snapshot(upTo, named, text) \in Snapshots
            /\ Snapshot(upTo, named, text).upTo = upTo
            /\ Snapshot(upTo, named, text).named = named
            /\ Snapshot(upTo, named, text).text = text
        BY <4>2, SnapshotTaken
      <4>4. seed = Snapshot(upTo, named, text)
        BY <4>1
      <4> HIDE DEF seed
      <4> QED BY <4>1, <4>3, <4>4
    <3>2. Seed(origin) = {seed}
      BY <1>2, <2>2
    <3> HIDE DEF seed
    <3> QED BY <2>1, <2>2, <3>1, <3>2
  <2>3. CASE origin = "branch"
    <3> DEFINE seed == Snapshot(-1, TRUE, {0})
    <3>1. /\ seed \in Snapshots /\ seed.upTo = -1 /\ seed.named = TRUE
          /\ seed.text = {0}
      BY <1>1, <2>1, SnapshotTaken
    <3>2. Seed(origin) = {seed}
      BY <1>2, <2>3
    <3> HIDE DEF seed
    <3> QED BY <2>1, <2>3, <3>1, <3>2
  <2>4. CASE origin = "prompt"
    <3> DEFINE seed == Snapshot(0, TRUE, {0})
    <3>1. /\ seed \in Snapshots /\ seed.upTo = 0 /\ seed.named = TRUE
          /\ seed.text = {0}
      BY <1>1, <2>1, SnapshotTaken
    <3>2. Seed(origin) = {seed}
      BY <1>2, <2>4
    <3> HIDE DEF seed
    <3> QED BY <2>1, <2>4, <3>1, <3>2
  <2> QED BY <1>2, <2>2, <2>3, <2>4
<1>4. r = [doc |-> doc, tabLive |-> TRUE, events |-> {}, snaps |-> Seed(origin), text |-> written,
           plain |-> plain]
  BY DEF FromOrigin, NewDraft
<1>5. written \in Texts /\ plain \in BOOLEAN
  BY <1>1
<1>6. /\ r.events = {} /\ r.snaps = Seed(origin) /\ r.text = written /\ r.plain = plain
      /\ r.doc = doc /\ r.tabLive = TRUE
  <2> HIDE DEF written, plain, r
  <2> QED BY <1>4
<1>7. r \in Draft(lastEvent)
  <2> HIDE DEF written, plain, r
  <2> QED BY <1>3, <1>4, <1>5 DEF Draft
<1>8. Kept(r)
  <2>1. CASE origin = "blank"
    <3>1. r.text = r.events /\ r.snaps = {}
      BY <1>2, <1>6, <2>1
    <3> HIDE DEF r
    <3> QED BY <3>1 DEF Kept
  <2>2. CASE origin = "sample"
    <3>1. Snapshot(-1, FALSE, {0}) \in Seed(origin)
      BY <1>2, <2>2
    <3>2. plain
      BY <1>3, <2>2, <3>1
    <3> HIDE DEF r, plain
    <3> QED BY <1>6, <3>2 DEF Kept
  <2>3. CASE origin \in {"branch", "prompt"}
    <3>1. \E s \in Seed(origin) : s.named
      BY <1>2, <1>3, <2>3
    <3>2. r.text = {0} /\ r.events = {}
      BY <1>6, <2>3
    <3> HIDE DEF r
    <3>3. \A s \in r.snaps : Covers(r, s)
      BY <1>3, <1>6, <3>2 DEF Covers
    <3> QED BY <1>6, <3>1, <3>3 DEF Kept
  <2> QED BY <2>1, <2>2, <2>3
<1> HIDE DEF r
<1>9. \A s \in r.snaps : s.upTo <= lastEvent
  BY <1>3, <1>6
<1> QED BY <1>7, <1>8, <1>9 DEF GoodDraft, r

-----------------------------------------------------------------------------
(* What an operation does to the drafts *)

\* The drafts hold when each is good, the ones there and the ones that come.
LEMMA AllGood ==
  ASSUME Tables', DraftsHold, NEW m \in Nat,
         DOMAIN drafts' = 1 .. m, drafts' = [d \in 1 .. m |-> drafts'[d]],
         \A d \in 1 .. m : GoodDraft(drafts'[d], lastEvent')
  PROVE  DraftsHold'
<1>1. Ids' = 1 .. m
  BY DEF Ids
<1> QED BY <1>1 DEF DraftsHold

\* An operation on one draft.
LEMMA OneChanges ==
  ASSUME Tables, Tables', DraftsHold, lastEvent <= lastEvent', NEW d \in Ids,
         NEW r, GoodDraft(r, lastEvent'), drafts' = [drafts EXCEPT ![d] = r]
  PROVE  /\ DraftsHold' /\ Ids' = Ids /\ drafts'[d] = r
         /\ \A other \in Ids \ {d} : drafts'[other] = drafts[other]
<1>1. PICK n \in Nat : Ids = 1 .. n
  BY DEF DraftsHold
<1>2. /\ Ids' = 1 .. n /\ drafts'[d] = r
      /\ \A other \in Ids \ {d} : drafts'[other] = drafts[other]
      /\ DOMAIN drafts' = 1 .. n /\ drafts' = [e \in 1 .. n |-> drafts'[e]]
  BY <1>1 DEF Ids, DraftsHold
<1>3. lastEvent \in Nat /\ lastEvent' \in Nat
  BY Bounds DEF Tables
<1>4. ASSUME NEW e \in 1 .. n PROVE GoodDraft(drafts'[e], lastEvent')
  <2>1. CASE e = d
    BY <1>2, <2>1
  <2>2. CASE e # d
    <3>1. GoodDraft(drafts[e], lastEvent)
      BY <1>1 DEF DraftsHold
    <3>2. GoodDraft(drafts[e], lastEvent')
      BY <1>3, <3>1, GoodLater
    <3> QED BY <1>1, <1>2, <2>2, <3>2
  <2> QED BY <2>1, <2>2
<1>5. DraftsHold'
  BY <1>2, <1>4, AllGood
<1> QED BY <1>1, <1>2, <1>5

\* New drafts are numbered after the ones there are.
LEMMA Added ==
  ASSUME Tables, Tables', DraftsHold, lastEvent' = lastEvent, NEW m \in Nat, NEW new,
         DOMAIN new = NextDraft .. NextDraft + m - 1,
         \A d \in DOMAIN new : GoodDraft(new[d], lastEvent),
         drafts' = With(new)
  PROVE  /\ DraftsHold' /\ Ids \subseteq Ids' /\ Ids' \ Ids = DOMAIN new
         /\ \A d \in Ids : drafts'[d] = drafts[d]
         /\ \A d \in DOMAIN new : drafts'[d] = new[d]
<1>1. PICK n \in Nat : Ids = 1 .. n
  BY DEF DraftsHold
<1>a. Cardinality(Ids) = n
  BY <1>1, FS_Interval
<1>2. NextDraft = n + 1
  BY <1>a DEF NextDraft
<1>3. DOMAIN new = (n + 1) .. (n + m)
  BY <1>2
<1>4. /\ Ids \cup DOMAIN new = 1 .. (n + m) /\ n + m \in Nat
      /\ Ids \cap DOMAIN new = {}
  <2>1. /\ (1 .. n) \cup ((n + 1) .. (n + m)) = 1 .. (n + m) /\ n + m \in Nat
        /\ (1 .. n) \cap ((n + 1) .. (n + m)) = {}
    OBVIOUS
  <2> QED BY <1>1, <1>3, <2>1
<1>5. drafts' = [d \in 1 .. (n + m) |-> IF d \in Ids THEN drafts[d] ELSE new[d]]
  BY <1>4 DEF With
<1>6. /\ Ids' = 1 .. (n + m) /\ DOMAIN drafts' = 1 .. (n + m)
      /\ drafts' = [d \in 1 .. (n + m) |-> drafts'[d]]
      /\ \A d \in Ids : drafts'[d] = drafts[d]
      /\ \A d \in DOMAIN new : drafts'[d] = new[d]
  BY <1>4, <1>5 DEF Ids
<1>7. ASSUME NEW d \in 1 .. (n + m) PROVE GoodDraft(drafts'[d], lastEvent')
  <2>1. CASE d \in Ids
    BY <1>6, <2>1 DEF DraftsHold
  <2>2. CASE d \in DOMAIN new
    BY <1>6, <2>2
  <2> QED BY <1>4, <2>1, <2>2
<1>8. DraftsHold'
  BY <1>4, <1>6, <1>7, AllGood
<1> QED BY <1>4, <1>6, <1>8

\* One new draft.
LEMMA OneAdded ==
  ASSUME Tables, Tables', DraftsHold, lastEvent' = lastEvent, NEW r,
         GoodDraft(r, lastEvent), drafts' = With([d \in {NextDraft} |-> r])
  PROVE  /\ DraftsHold' /\ Ids \subseteq Ids'
         /\ \A d \in Ids : drafts'[d] = drafts[d]
<1> DEFINE new == [d \in {NextDraft} |-> r]
<1>1. PICK n \in Nat : Ids = 1 .. n
  BY DEF DraftsHold
<1>a. Cardinality(Ids) = n
  BY <1>1, FS_Interval
<1>2. NextDraft = n + 1
  BY <1>a DEF NextDraft
<1>3. {NextDraft} = NextDraft .. NextDraft + 1 - 1
  BY <1>2
<1>4. DOMAIN new = NextDraft .. NextDraft + 1 - 1
  BY <1>3
<1>5. \A d \in DOMAIN new : GoodDraft(new[d], lastEvent)
  OBVIOUS
<1> HIDE DEF new
<1>6. drafts' = With(new)
  BY DEF new
<1>7. 1 \in Nat
  OBVIOUS
<1> QED BY <1>4, <1>5, <1>6, <1>7, Added

-----------------------------------------------------------------------------
(* What has been read for a copy *)

\* What a draft was as a copy read it.
ReadHolds(c, d) ==
  /\ c.read[d].upTo \in -1 .. lastEvent /\ c.read[d].text \in Texts
  /\ ~drafts[d].plain /\ c.read[d].upTo = LatestEvent(d) => c.read[d].text = drafts[d].text

\* A draft did not change, or its latest event is newer than any that was read.
Overtakes(d) ==
  /\ drafts'[d].plain = drafts[d].plain
  /\ \/ drafts'[d].text = drafts[d].text /\ drafts'[d].events = drafts[d].events
     \/ LatestEvent(d)' > lastEvent

\* What was read before stays as honest as it was.
LEMMA CopyStays ==
  ASSUME Tables, Tables', CopyHonest, copying' = copying, Ids \subseteq Ids',
         lastEvent <= lastEvent', \A d \in Ids : Overtakes(d)
  PROVE  CopyHonest'
<1>1. lastEvent \in Nat /\ lastEvent' \in Nat
  BY Bounds DEF Tables
<1>2. ASSUME NEW c \in copying
      PROVE  /\ c \in [doc : 1 .. MaxDocs, drafts : SUBSET (Ids'), read : {c.read}]
             /\ DOMAIN c.read \subseteq c.drafts
             /\ \A d \in DOMAIN c.read :
                  /\ c.read[d].upTo \in -1 .. lastEvent' /\ c.read[d].text \in Texts
                  /\ ~drafts'[d].plain /\ c.read[d].upTo = LatestEvent(d)'
                       => c.read[d].text = drafts'[d].text
  <2>1. /\ c \in [doc : 1 .. MaxDocs, drafts : SUBSET Ids, read : {c.read}]
        /\ DOMAIN c.read \subseteq c.drafts
    BY DEF CopyHonest
  <2>2. c \in [doc : 1 .. MaxDocs, drafts : SUBSET (Ids'), read : {c.read}]
    BY <2>1
  <2>3. ASSUME NEW d \in DOMAIN c.read
        PROVE  /\ c.read[d].upTo \in -1 .. lastEvent' /\ c.read[d].text \in Texts
               /\ ~drafts'[d].plain /\ c.read[d].upTo = LatestEvent(d)'
                    => c.read[d].text = drafts'[d].text
    <3>1. /\ c.read[d].upTo \in -1 .. lastEvent /\ c.read[d].text \in Texts
          /\ ~drafts[d].plain /\ c.read[d].upTo = LatestEvent(d)
               => c.read[d].text = drafts[d].text
      BY DEF CopyHonest
    <3>2. d \in Ids
      BY <2>1
    <3>3. c.read[d].upTo \in -1 .. lastEvent'
      BY <1>1, <3>1
    <3>4. CASE drafts'[d].text = drafts[d].text /\ drafts'[d].events = drafts[d].events
      <4>1. LatestEvent(d)' = LatestEvent(d)
        BY <3>4 DEF LatestEvent
      <4> QED BY <3>1, <3>2, <3>3, <3>4, <4>1 DEF Overtakes
    <3>5. CASE LatestEvent(d)' > lastEvent
      <4>1. c.read[d].upTo # LatestEvent(d)'
        BY <1>1, <3>1, <3>5
      <4> QED BY <3>1, <3>3, <4>1
    <3> QED BY <3>2, <3>4, <3>5 DEF Overtakes
  <2> QED BY <2>1, <2>2, <2>3
<1> QED BY <1>2 DEF CopyHonest

\* In particular when no draft that was there changed its text or its events.
LEMMA CopyUntouched ==
  ASSUME Tables, Tables', CopyHonest, copying' = copying, Ids \subseteq Ids',
         lastEvent' = lastEvent,
         \A d \in Ids : /\ drafts'[d].plain = drafts[d].plain
                        /\ drafts'[d].text = drafts[d].text
                        /\ drafts'[d].events = drafts[d].events
  PROVE  CopyHonest'
<1>1. lastEvent <= lastEvent'
  BY Bounds DEF Tables
<1>2. \A d \in Ids : Overtakes(d)
  BY DEF Overtakes
<1> QED BY <1>1, <1>2, CopyStays

-----------------------------------------------------------------------------
(* The operations.  Each keeps the drafts good and what was read for a copy  *)
(* honest, and takes no named version away.                                  *)

NamedStay == \A d \in Ids : \A s \in drafts[d].snaps : s.named => s \in drafts'[d].snaps
StepKeeps == DraftsHold' /\ CopyHonest' /\ NamedStay

\* Nothing happens to the drafts: the clock, the trash and a copy that fails.
LEMMA DraftsAlone ==
  ASSUME LibraryInv, Tables', UNCHANGED <<drafts, lastEvent>>
  PROVE  /\ DraftsHold' /\ NamedStay
         /\ copying' = copying => CopyHonest'
<1>1. /\ DraftsHold' /\ Ids' = Ids /\ NamedStay
  BY DEF LibraryInv, DraftsHold, NamedStay, Ids
<1>2. copying' = copying => CopyHonest'
  BY <1>1, CopyUntouched DEF LibraryInv
<1> QED BY <1>1, <1>2

\* The free numbers of documents are numbers of documents.
LEMMA NewDocIs ==
  ASSUME NewDoc # {}
  PROVE  Min(NewDoc) \in 1 .. MaxDocs /\ docs[Min(NewDoc)].state = "none"
<1>1. NewDoc \in SUBSET (1 .. MaxDocs) /\ 1 \in Int /\ MaxDocs \in Int
  BY Bounds DEF NewDoc
<1>2. Min(NewDoc) \in NewDoc
  BY <1>1, MinProperties
<1> QED BY <1>2 DEF NewDoc

\* CreateDocument and CreateTab add a draft with its seed.
LEMMA SeedAdded ==
  ASSUME LibraryInv, Tables', UNCHANGED <<lastEvent, copying>>, NEW doc \in 1 .. MaxDocs,
         NEW origin \in {"blank", "sample", "branch", "prompt"},
         drafts' = With([d \in {NextDraft} |-> FromOrigin(doc, origin)])
  PROVE  StepKeeps
<1>1. PICK r : r = FromOrigin(doc, origin)
  OBVIOUS
<1>2. GoodDraft(r, lastEvent)
  BY <1>1, NewIsGood DEF LibraryInv
<1>3. drafts' = With([d \in {NextDraft} |-> r])
  BY <1>1
<1>4. DraftsHold' /\ Ids \subseteq Ids' /\ \A d \in Ids : drafts'[d] = drafts[d]
  BY <1>2, <1>3, OneAdded DEF LibraryInv
<1>5. CopyHonest'
  BY <1>4, CopyUntouched DEF LibraryInv
<1> QED BY <1>4, <1>5 DEF StepKeeps, NamedStay

\* An operation on one draft that leaves its text and its events alone.
LEMMA OneSettled ==
  ASSUME LibraryInv, Tables', UNCHANGED <<lastEvent, copying>>, NEW d \in Ids,
         NEW r, GoodDraft(r, lastEvent), drafts' = [drafts EXCEPT ![d] = r],
         r.text = drafts[d].text, r.events = drafts[d].events, r.plain = drafts[d].plain,
         \A s \in drafts[d].snaps : s.named => s \in r.snaps
  PROVE  StepKeeps
<1>1. lastEvent <= lastEvent' /\ GoodDraft(r, lastEvent')
  BY Bounds DEF LibraryInv, Tables
<1>2. /\ DraftsHold' /\ Ids' = Ids /\ drafts'[d] = r
      /\ \A other \in Ids \ {d} : drafts'[other] = drafts[other]
  BY <1>1, OneChanges DEF LibraryInv
<1>3. CopyHonest'
  BY <1>2, CopyUntouched DEF LibraryInv
<1>4. NamedStay
  BY <1>2 DEF NamedStay
<1> QED BY <1>2, <1>3, <1>4 DEF StepKeeps

\* DeleteTab.
LEMMA DeleteTabKeeps ==
  ASSUME LibraryInv, Tables', NEW d \in Ids, DeleteTab(d)
  PROVE  StepKeeps
<1>1. PICK r : r = [drafts[d] EXCEPT !.tabLive = FALSE]
  OBVIOUS
<1>2. GoodDraft(drafts[d], lastEvent)
  BY DEF LibraryInv, DraftsHold
<1>3. GoodDraft(r, lastEvent)
  BY <1>1, <1>2, TabGone
<1>4. /\ r.text = drafts[d].text /\ r.events = drafts[d].events /\ r.plain = drafts[d].plain
      /\ r.snaps = drafts[d].snaps
  BY <1>1, <1>2 DEF GoodDraft, Draft
<1>5. drafts' = [drafts EXCEPT ![d] = r] /\ UNCHANGED <<lastEvent, copying>>
  BY <1>1 DEF DeleteTab
<1> QED BY <1>3, <1>4, <1>5, OneSettled

\* Edit.
LEMMA EditKeeps ==
  ASSUME LibraryInv, Tables', NEW d \in Ids, Edit(d)
  PROVE  StepKeeps
<1>1. PICK r : r = [drafts[d] EXCEPT !.events = @ \cup {lastEvent + 1},
                                     !.text = @ \cup {lastEvent + 1}]
  OBVIOUS
<1>2. GoodDraft(drafts[d], lastEvent)
  BY DEF LibraryInv, DraftsHold
<1>3. lastEvent \in Nat /\ lastEvent + 1 <= MaxEvents /\ lastEvent' = lastEvent + 1
  BY Bounds DEF LibraryInv, Tables, Edit
<1>a. GoodDraft([drafts[d] EXCEPT !.events = @ \cup {lastEvent + 1},
                                  !.text = @ \cup {lastEvent + 1}], lastEvent + 1)
  BY <1>2, <1>3, Edited
<1>4. GoodDraft(r, lastEvent') /\ lastEvent <= lastEvent'
  BY <1>1, <1>3, <1>a
<1>5. /\ r.events = drafts[d].events \cup {lastEvent + 1} /\ r.plain = drafts[d].plain
      /\ r.snaps = drafts[d].snaps
  BY <1>1, <1>2 DEF GoodDraft, Draft
<1>6. drafts' = [drafts EXCEPT ![d] = r] /\ copying' = copying
  BY <1>1, <1>3 DEF Edit
<1>7. /\ DraftsHold' /\ Ids' = Ids /\ drafts'[d] = r
      /\ \A other \in Ids \ {d} : drafts'[other] = drafts[other]
  BY <1>4, <1>6, OneChanges DEF LibraryInv
<1>8. LatestEvent(d)' > lastEvent
  <2>1. PICK S : S = drafts[d].events \cup {lastEvent + 1} \cup {-1}
    OBVIOUS
  <2>2. LatestEvent(d)' = Max(S)
    BY <1>5, <1>7, <2>1 DEF LatestEvent
  <2>3. drafts[d].events \in SUBSET (1 .. lastEvent)
    BY <1>2, GoodFields
  <2>4. /\ S \in SUBSET (-1 .. (lastEvent + 1)) /\ S # {} /\ -1 \in Int /\ lastEvent + 1 \in Int
        /\ lastEvent + 1 \in S
    BY <1>3, <2>1, <2>3
  <2>5. Max(S) \in S /\ \A x \in S : Max(S) >= x
    BY <2>4, MaxProperties
  <2>6. PICK m \in S : m = Max(S) /\ m >= lastEvent + 1
    BY <2>4, <2>5
  <2>7. m \in Int
    BY <2>4
  <2> QED BY <1>3, <2>2, <2>6, <2>7
<1>9. \A e \in Ids : Overtakes(e)
  BY <1>5, <1>7, <1>8 DEF Overtakes
<1>10. CopyHonest'
  BY <1>4, <1>6, <1>7, <1>9, CopyStays DEF LibraryInv
<1>11. NamedStay
  BY <1>5, <1>7 DEF NamedStay
<1> QED BY <1>7, <1>10, <1>11 DEF StepKeeps

\* An operation that changes only the snapshots of one draft.
LEMMA SnapshotsChange ==
  ASSUME LibraryInv, Tables', UNCHANGED <<lastEvent, copying>>, NEW d \in Ids, NEW snaps,
         drafts' = [drafts EXCEPT ![d].snaps = snaps],
         GoodDraft([drafts[d] EXCEPT !.snaps = snaps], lastEvent),
         \A s \in drafts[d].snaps : s.named => s \in snaps
  PROVE  StepKeeps
<1>1. PICK r : r = [drafts[d] EXCEPT !.snaps = snaps]
  OBVIOUS
<1>2. GoodDraft(drafts[d], lastEvent)
  BY DEF LibraryInv, DraftsHold
<1>3. GoodDraft(r, lastEvent)
  BY <1>1
<1>4. /\ r.text = drafts[d].text /\ r.events = drafts[d].events /\ r.plain = drafts[d].plain
      /\ r.snaps = snaps
  BY <1>1, <1>2 DEF GoodDraft, Draft
<1>5. drafts' = [drafts EXCEPT ![d] = r]
  BY <1>1
<1> QED BY <1>3, <1>4, <1>5, OneSettled

\* SaveVersion.
LEMMA SaveVersionKeeps ==
  ASSUME LibraryInv, Tables', NEW d \in Ids, NEW named \in BOOLEAN, SaveVersion(d, named)
  PROVE  StepKeeps
<1>1. PICK new : new = Snapshot(LatestEvent(d), named, drafts[d].text)
  OBVIOUS
<1>2. PICK snaps : snaps = drafts[d].snaps \cup {new}
  OBVIOUS
<1>3. GoodDraft(drafts[d], lastEvent) /\ lastEvent \in Nat /\ lastEvent <= MaxEvents
  BY Bounds DEF LibraryInv, DraftsHold, Tables
<1>4. /\ LatestEvent(d) \in -1 .. lastEvent
      /\ \A e \in drafts[d].events : e <= LatestEvent(d)
  BY LatestIs DEF LibraryInv
<1>5. /\ drafts[d].text \in Texts /\ drafts[d].snaps \in SUBSET Snapshots
      /\ drafts[d].events \in SUBSET (1 .. lastEvent)
  BY <1>3, GoodFields
<1>6. LatestEvent(d) \in -1 .. MaxEvents
  BY <1>3, <1>4, Bounds
<1>7. new \in Snapshots /\ new.upTo = LatestEvent(d) /\ new.text = drafts[d].text
  BY <1>1, <1>5, <1>6, SnapshotTaken DEF LibraryInv
<1>8. Covers(drafts[d], new)
  <2>1. {e \in drafts[d].events : e > new.upTo} = {}
    BY <1>4, <1>5, <1>7
  <2> QED BY <1>7, <2>1 DEF Covers
<1>9. \A s \in drafts[d].snaps : s.upTo <= lastEvent /\ (~drafts[d].plain => Covers(drafts[d], s))
  BY <1>3 DEF GoodDraft, Kept
<1>10. new.upTo <= lastEvent
  BY <1>3, <1>4, <1>7
<1>11. /\ snaps \in SUBSET Snapshots
       /\ \A s \in snaps : s.upTo <= lastEvent /\ (~drafts[d].plain => Covers(drafts[d], s))
       /\ \A s \in drafts[d].snaps : s.named => s \in snaps
  BY <1>2, <1>5, <1>7, <1>8, <1>9, <1>10
<1>12. GoodDraft([drafts[d] EXCEPT !.snaps = snaps], lastEvent)
  BY <1>3, <1>11, MoreSnapshots
<1>13. drafts' = [drafts EXCEPT ![d].snaps = snaps] /\ UNCHANGED <<lastEvent, copying>>
  BY <1>1, <1>2 DEF SaveVersion
<1> QED BY <1>11, <1>12, <1>13, SnapshotsChange

\* LabelSnapshot.
LEMMA LabelSnapshotKeeps ==
  ASSUME LibraryInv, Tables', NEW d \in Ids, NEW s \in drafts[d].snaps, LabelSnapshot(d, s)
  PROVE  StepKeeps
<1>1. PICK new : new = [s EXCEPT !.named = TRUE]
  OBVIOUS
<1>2. PICK snaps : snaps = (drafts[d].snaps \ {s}) \cup {new}
  OBVIOUS
<1>3. GoodDraft(drafts[d], lastEvent)
  BY DEF LibraryInv, DraftsHold
<1>4. drafts[d].snaps \in SUBSET Snapshots
  BY <1>3, GoodFields
<1>5. new \in Snapshots /\ new.upTo = s.upTo /\ new.text = s.text
  BY <1>1, <1>4 DEF Snapshots
<1>6. \A t \in drafts[d].snaps : t.upTo <= lastEvent /\ (~drafts[d].plain => Covers(drafts[d], t))
  BY <1>3 DEF GoodDraft, Kept
<1>7. new.upTo <= lastEvent /\ (~drafts[d].plain => Covers(drafts[d], new))
  BY <1>5, <1>6 DEF Covers
<1>8. ~s.named
  BY DEF LabelSnapshot
<1>9. /\ snaps \in SUBSET Snapshots
      /\ \A t \in snaps : t.upTo <= lastEvent /\ (~drafts[d].plain => Covers(drafts[d], t))
      /\ \A t \in drafts[d].snaps : t.named => t \in snaps
  BY <1>2, <1>4, <1>5, <1>6, <1>7, <1>8
<1>10. GoodDraft([drafts[d] EXCEPT !.snaps = snaps], lastEvent)
  BY <1>3, <1>9, MoreSnapshots
<1>11. drafts' = [drafts EXCEPT ![d].snaps = snaps] /\ UNCHANGED <<lastEvent, copying>>
  BY <1>1, <1>2 DEF LabelSnapshot
<1> QED BY <1>9, <1>10, <1>11, SnapshotsChange

\* A prune of one draft that takes no snapshot with a label.
LEMMA PruneKeeps ==
  ASSUME LibraryInv, Tables', UNCHANGED <<lastEvent, copying>>, NEW d \in Ids, NEW out,
         drafts' = [drafts EXCEPT ![d].snaps = @ \ out], \A s \in out : ~s.named
  PROVE  StepKeeps
<1>1. PICK snaps : snaps = drafts[d].snaps \ out
  OBVIOUS
<1>2. GoodDraft(drafts[d], lastEvent)
  BY DEF LibraryInv, DraftsHold
<1>3. snaps \in SUBSET drafts[d].snaps /\ \A s \in drafts[d].snaps : s.named => s \in snaps
  BY <1>1
<1>4. GoodDraft([drafts[d] EXCEPT !.snaps = snaps], lastEvent)
  BY <1>2, <1>3, FewerSnapshots
<1>5. drafts' = [drafts EXCEPT ![d].snaps = snaps]
  BY <1>1
<1> QED BY <1>3, <1>4, <1>5, SnapshotsChange

\* PruneOlderThan and PruneKeepLast.
LEMMA PrunesKeep ==
  ASSUME LibraryInv, Tables', NEW d \in Ids,
         (\E days \in Ages : PruneOlderThan(d, days)) \/ (\E n \in Keeps : PruneKeepLast(d, n))
  PROVE  StepKeeps
<1>1. ASSUME NEW days \in Ages, PruneOlderThan(d, days) PROVE StepKeeps
  <2>1. PICK out : out = OlderThan(d, days)
    OBVIOUS
  <2>2. \A s \in out : ~s.named
    BY <2>1 DEF OlderThan
  <2>3. drafts' = [drafts EXCEPT ![d].snaps = @ \ out] /\ UNCHANGED <<lastEvent, copying>>
    BY <1>1, <2>1 DEF PruneOlderThan
  <2> QED BY <2>2, <2>3, PruneKeeps
<1>2. ASSUME NEW n \in Keeps, PruneKeepLast(d, n) PROVE StepKeeps
  <2>1. PICK kept : drafts' = [drafts EXCEPT ![d].snaps =
                                 @ \ ({s \in drafts[d].snaps : ~s.named} \ kept)]
    BY <1>2 DEF PruneKeepLast
  <2>2. PICK out : out = {s \in drafts[d].snaps : ~s.named} \ kept
    OBVIOUS
  <2>3. \A s \in out : ~s.named
    BY <2>2
  <2>4. drafts' = [drafts EXCEPT ![d].snaps = @ \ out] /\ UNCHANGED <<lastEvent, copying>>
    BY <1>2, <2>1, <2>2 DEF PruneKeepLast
  <2> QED BY <2>3, <2>4, PruneKeeps
<1> QED BY <1>1, <1>2

\* Startup prunes every draft; a duplication in progress dies.
LEMMA StartupKeeps ==
  ASSUME LibraryInv, Tables', NEW purgeAge, NEW pruneAge, Startup(purgeAge, pruneAge)
  PROVE  StepKeeps
<1>1. PICK n \in Nat : Ids = 1 .. n
  BY DEF LibraryInv, DraftsHold
<1>2. /\ drafts' = [d \in Ids |-> [drafts[d] EXCEPT !.snaps = @ \ OlderThan(d, pruneAge)]]
      /\ copying' = {} /\ lastEvent' = lastEvent
  BY DEF Startup, NoCopy
<1>3. ASSUME NEW d \in Ids
      PROVE  /\ GoodDraft(drafts'[d], lastEvent')
             /\ \A s \in drafts[d].snaps : s.named => s \in drafts'[d].snaps
  <2>1. PICK keep : keep = drafts[d].snaps \ OlderThan(d, pruneAge)
    OBVIOUS
  <2>2. drafts'[d] = [drafts[d] EXCEPT !.snaps = keep]
    BY <1>2, <2>1
  <2>3. GoodDraft(drafts[d], lastEvent)
    BY DEF LibraryInv, DraftsHold
  <2>4. keep \in SUBSET drafts[d].snaps /\ \A s \in drafts[d].snaps : s.named => s \in keep
    BY <2>1 DEF OlderThan
  <2>5. GoodDraft(drafts'[d], lastEvent')
    BY <1>2, <2>2, <2>3, <2>4, FewerSnapshots
  <2>6. drafts'[d].snaps = keep
    BY <2>2, <2>3 DEF GoodDraft, Draft
  <2> QED BY <2>4, <2>5, <2>6
<1>4. DOMAIN drafts' = 1 .. n /\ drafts' = [d \in 1 .. n |-> drafts'[d]]
  BY <1>1, <1>2
<1>5. DraftsHold'
  BY <1>1, <1>3, <1>4, AllGood DEF LibraryInv
<1>6. CopyHonest'
  BY <1>2 DEF CopyHonest
<1>7. NamedStay
  BY <1>3 DEF NamedStay
<1> QED BY <1>5, <1>6, <1>7 DEF StepKeeps

\* StartCopy lists the drafts and has read none.
LEMMA StartCopyKeeps ==
  ASSUME LibraryInv, Tables', NEW doc \in DOMAIN docs, StartCopy(doc)
  PROVE  StepKeeps
<1>1. UNCHANGED <<drafts, lastEvent>> /\ copying' = {[doc |-> doc, drafts |-> DraftsOf(doc),
                                                     read |-> << >>]}
  BY DEF StartCopy
<1>2. DraftsHold' /\ NamedStay /\ Ids' = Ids
  BY <1>1, DraftsAlone DEF Ids
<1>3. doc \in 1 .. MaxDocs /\ DraftsOf(doc) \in SUBSET Ids
  BY DEF LibraryInv, Tables, DraftsOf
<1>4. ASSUME NEW c \in copying'
      PROVE  /\ c \in [doc : 1 .. MaxDocs, drafts : SUBSET (Ids'), read : {c.read}]
             /\ DOMAIN c.read = {}
  <2>1. c = [doc |-> doc, drafts |-> DraftsOf(doc), read |-> << >>]
    BY <1>1
  <2>2. c.read = << >> /\ DOMAIN << >> = {}
    BY <2>1
  <2> QED BY <1>2, <1>3, <2>1, <2>2
<1>5. CopyHonest'
  BY <1>4 DEF CopyHonest
<1> QED BY <1>2, <1>5 DEF StepKeeps

\* ReadForCopy takes a draft as it loads at this moment.
LEMMA ReadForCopyKeeps ==
  ASSUME LibraryInv, Tables', NEW d \in Ids, ReadForCopy(d)
  PROVE  StepKeeps
<1>1. PICK c \in copying :
        /\ d \in c.drafts \ DOMAIN c.read
        /\ copying' = {[c EXCEPT !.read =
                          [e \in DOMAIN @ \cup {d} |->
                             IF e = d THEN [upTo |-> LoadedUpTo(d), text |-> Loaded(d)]
                             ELSE @[e]]]}
  BY DEF ReadForCopy
<1>2. UNCHANGED <<drafts, lastEvent>>
  BY DEF ReadForCopy
<1>3. DraftsHold' /\ NamedStay /\ Ids' = Ids
  BY <1>2, DraftsAlone DEF Ids
<1>4. PICK state : state = [upTo |-> LoadedUpTo(d), text |-> Loaded(d)]
  OBVIOUS
<1>5. /\ state.upTo \in -1 .. lastEvent /\ state.text \in Texts
      /\ ~drafts[d].plain => state.text = drafts[d].text
  BY <1>4, LoadedInRange, KeptLoads DEF LibraryInv
<1>6. PICK read : read = [e \in DOMAIN c.read \cup {d} |-> IF e = d THEN state ELSE c.read[e]]
  OBVIOUS
<1>7. copying' = {[c EXCEPT !.read = read]}
  BY <1>1, <1>4, <1>6
<1>8. /\ c \in [doc : 1 .. MaxDocs, drafts : SUBSET Ids, read : {c.read}]
      /\ DOMAIN c.read \subseteq c.drafts
  BY DEF LibraryInv, CopyHonest
<1>9. PICK then : then = [c EXCEPT !.read = read]
  OBVIOUS
<1>10. /\ then.doc = c.doc /\ then.drafts = c.drafts /\ then.read = read
       /\ then \in [doc : 1 .. MaxDocs, drafts : SUBSET Ids, read : {read}]
  BY <1>8, <1>9
<1>11. DOMAIN read \subseteq c.drafts
  BY <1>1, <1>6, <1>8
<1>12. ASSUME NEW e \in DOMAIN read
       PROVE  /\ read[e].upTo \in -1 .. lastEvent /\ read[e].text \in Texts
              /\ ~drafts[e].plain /\ read[e].upTo = LatestEvent(e) => read[e].text = drafts[e].text
  <2>1. CASE e = d
    BY <1>5, <1>6, <2>1
  <2>2. CASE e # d
    <3>1. e \in DOMAIN c.read /\ read[e] = c.read[e]
      BY <1>6, <2>2
    <3>2. /\ c.read[e].upTo \in -1 .. lastEvent /\ c.read[e].text \in Texts
          /\ ~drafts[e].plain /\ c.read[e].upTo = LatestEvent(e)
               => c.read[e].text = drafts[e].text
      BY <3>1 DEF LibraryInv, CopyHonest
    <3> QED BY <3>1, <3>2
  <2> QED BY <2>1, <2>2
<1>13. \A e : LatestEvent(e)' = LatestEvent(e)
  BY <1>2 DEF LatestEvent
<1>14. copying' = {then}
  BY <1>7, <1>9
<1>15. CopyHonest'
  BY <1>2, <1>3, <1>10, <1>11, <1>12, <1>13, <1>14 DEF CopyHonest
<1> QED BY <1>3, <1>15 DEF StepKeeps

\* The snapshot a copy starts from.
CopySeed(text) == Snapshot(-1, FALSE, text)

\* It covers no event and has no label.
LEMMA CopySeedIs ==
  ASSUME Tables, NEW text \in Texts
  PROVE  /\ CopySeed(text) \in Snapshots /\ CopySeed(text).upTo = -1
         /\ ~CopySeed(text).named /\ CopySeed(text).text = text
<1>1. PICK upTo, named : upTo = -1 /\ named = FALSE
  OBVIOUS
<1>2. upTo \in -1 .. MaxEvents /\ named \in BOOLEAN
  <2>1. upTo \in -1 .. MaxEvents
    BY <1>1, Bounds
  <2>2. named \in BOOLEAN
    BY <1>1
  <2> QED BY <2>1, <2>2
<1>3. /\ Snapshot(upTo, named, text) \in Snapshots
      /\ Snapshot(upTo, named, text).upTo = upTo
      /\ Snapshot(upTo, named, text).named = named
      /\ Snapshot(upTo, named, text).text = text
  BY <1>2, SnapshotTaken
<1>4. CopySeed(text) = Snapshot(upTo, named, text)
  BY <1>1 DEF CopySeed
<1> QED BY <1>1, <1>3, <1>4

\* The copies are numbered after the drafts, each made of a state that was read.
LEMMA CopiesAre ==
  ASSUME LibraryInv, NEW c \in copying, NEW doc \in 1 .. MaxDocs
  PROVE  \E m \in Nat :
           /\ DOMAIN Copies(c, doc) = NextDraft .. NextDraft + m - 1
           /\ \A n \in DOMAIN Copies(c, doc) : \E e \in DOMAIN c.read :
                Copies(c, doc)[n] =
                  NewDraft(doc, {CopySeed(c.read[e].text)}, drafts[e].text)
<1> DEFINE R == DOMAIN c.read
           m == Cardinality(R)
           source(n) == CHOOSE e \in R : Cardinality({x \in R : x <= e}) = n - NextDraft + 1
<1>1. PICK n0 \in Nat : Ids = 1 .. n0
  BY DEF LibraryInv, DraftsHold
<1>2. Cardinality(Ids) = n0 /\ IsFiniteSet(Ids)
  BY <1>1, FS_Interval
<1>3. NextDraft = n0 + 1
  BY <1>2 DEF NextDraft
<1>4. R \in SUBSET Ids
  BY DEF LibraryInv, CopyHonest
<1>5. R \in SUBSET Int /\ IsFiniteSet(R) /\ m \in Nat
  <2> HIDE DEF R
  <2>1. IsFiniteSet(R)
    BY <1>2, <1>4, FS_Subset
  <2> QED BY <1>1, <1>4, <2>1, FS_CardinalityType
<1>6. Copies(c, doc) = [n \in NextDraft .. NextDraft + m - 1 |->
                          NewDraft(doc, {CopySeed(c.read[source(n)].text)},
                                   drafts[source(n)].text)]
  BY DEF Copies, CopySeed
<1>7. ASSUME NEW n \in NextDraft .. NextDraft + m - 1 PROVE source(n) \in R
  <2>1. n - NextDraft + 1 \in 1 .. m
    BY <1>3, <1>5
  <2>2. PICK k \in 1 .. Cardinality(R) : k = n - NextDraft + 1
    BY <2>1
  <2>3. \E e \in R : Cardinality({x \in R : x <= e}) = k
    <3> HIDE DEF R
    <3> QED BY <1>5, RankIsTaken
  <2> QED BY <2>2, <2>3
<1> HIDE DEF m, source
<1>8. DOMAIN Copies(c, doc) = NextDraft .. NextDraft + m - 1
  BY <1>6
<1>9. \A n \in DOMAIN Copies(c, doc) : \E e \in R :
        Copies(c, doc)[n] = NewDraft(doc, {CopySeed(c.read[e].text)}, drafts[e].text)
  BY <1>6, <1>7, <1>8
<1> QED BY <1>5, <1>8, <1>9

\* A draft put together of parts of the right kinds.
LEMMA PartsMakeDraft ==
  ASSUME NEW last, NEW doc \in 1 .. MaxDocs, NEW tabLive \in BOOLEAN,
         NEW events \in SUBSET (1 .. last), NEW snaps \in SUBSET Snapshots, NEW text \in Texts,
         NEW plain \in BOOLEAN
  PROVE  [doc |-> doc, tabLive |-> tabLive, events |-> events, snaps |-> snaps, text |-> text,
          plain |-> plain] \in Draft(last)
BY DEF Draft

\* The copy of a draft: one snapshot without a label, no events, the text of its source.
CopyOf(doc, read, text) == NewDraft(doc, {CopySeed(read)}, text)
IsCopy(r, read, text) ==
  /\ r.events = {} /\ r.text = text
  /\ \E s \in r.snaps : r.snaps = {s} /\ s.text = read

\* It is a good draft.
LEMMA CopyIs ==
  ASSUME LibraryInv, NEW doc \in 1 .. MaxDocs, NEW read \in Texts, NEW text \in Texts
  PROVE  /\ GoodDraft(CopyOf(doc, read, text), lastEvent)
         /\ IsCopy(CopyOf(doc, read, text), read, text)
<1> DEFINE r == CopyOf(doc, read, text)
<1>1. lastEvent \in Nat /\ lastEvent <= MaxEvents
  BY Bounds DEF LibraryInv, Tables
<1>2. PICK s : s = CopySeed(read)
  OBVIOUS
<1>3. s \in Snapshots /\ s.upTo = -1 /\ ~s.named /\ s.text = read
  BY <1>2, CopySeedIs DEF LibraryInv
<1>4. r = [doc |-> doc, tabLive |-> TRUE, events |-> {}, snaps |-> {s}, text |-> text,
           plain |-> TRUE]
  <2>1. (\E t \in {s} : ~t.named) = TRUE
    BY <1>3
  <2> QED BY <1>2, <2>1 DEF CopyOf, NewDraft
<1>5. r \in Draft(lastEvent)
  <2>1. {s} \in SUBSET Snapshots /\ {} \in SUBSET (1 .. lastEvent) /\ TRUE \in BOOLEAN
    BY <1>3
  <2>2. PICK snaps, events, yes : snaps = {s} /\ events = {} /\ yes = TRUE
    OBVIOUS
  <2>3. [doc |-> doc, tabLive |-> yes, events |-> events, snaps |-> snaps, text |-> text,
         plain |-> yes] \in Draft(lastEvent)
    <3>1. yes \in BOOLEAN
      BY <2>2
    <3>2. snaps \in SUBSET Snapshots /\ events \in SUBSET (1 .. lastEvent)
      BY <2>1, <2>2
    <3> QED BY <3>1, <3>2, PartsMakeDraft
  <2>4. r = [doc |-> doc, tabLive |-> yes, events |-> events, snaps |-> snaps, text |-> text,
             plain |-> yes]
    BY <1>4, <2>2
  <2> HIDE DEF r
  <2> QED BY <2>3, <2>4
<1> HIDE DEF r
<1>6. r.plain /\ r.snaps = {s} /\ r.events = {} /\ r.text = text
  BY <1>4
<1>7. \A t \in r.snaps : t.upTo <= lastEvent
  BY <1>1, <1>3, <1>6
<1>8. Kept(r)
  BY <1>6 DEF Kept
<1>9. GoodDraft(r, lastEvent)
  BY <1>5, <1>7, <1>8 DEF GoodDraft
<1> QED BY <1>3, <1>6, <1>9 DEF r, IsCopy

\* FinishCopy, when the transaction accepts the copy.
LEMMA CopyAccepted ==
  ASSUME LibraryInv, Tables', lastEvent' = lastEvent, NEW c \in copying,
         NEW doc \in 1 .. MaxDocs, drafts' = With(Copies(c, doc))
  PROVE  /\ DraftsHold' /\ NamedStay
         /\ \A n \in Ids' \ Ids : \E e \in DOMAIN c.read :
              /\ drafts'[n].events = {} /\ drafts'[n].text = drafts[e].text
              /\ \E s \in drafts'[n].snaps : drafts'[n].snaps = {s} /\ s.text = c.read[e].text
<1>1. PICK new : new = Copies(c, doc)
  OBVIOUS
<1>2. PICK m \in Nat :
        /\ DOMAIN new = NextDraft .. NextDraft + m - 1
        /\ \A n \in DOMAIN new : \E e \in DOMAIN c.read :
             new[n] = NewDraft(doc, {CopySeed(c.read[e].text)}, drafts[e].text)
  BY <1>1, CopiesAre
<1>3. ASSUME NEW n \in DOMAIN new
      PROVE  /\ GoodDraft(new[n], lastEvent)
             /\ \E e \in DOMAIN c.read :
                  /\ new[n].events = {} /\ new[n].text = drafts[e].text
                  /\ \E s \in new[n].snaps : new[n].snaps = {s} /\ s.text = c.read[e].text
  <2>1. PICK e \in DOMAIN c.read :
          new[n] = NewDraft(doc, {CopySeed(c.read[e].text)}, drafts[e].text)
    BY <1>2
  <2>2. PICK r : r = new[n]
    OBVIOUS
  <2>3. r = NewDraft(doc, {CopySeed(c.read[e].text)}, drafts[e].text)
    BY <2>1, <2>2
  <2>4. /\ GoodDraft(r, lastEvent)
        /\ r.events = {} /\ r.text = drafts[e].text
        /\ \E s \in r.snaps : r.snaps = {s} /\ s.text = c.read[e].text
    <3>1. e \in Ids /\ c.read[e].text \in Texts
      BY DEF LibraryInv, CopyHonest
    <3>2. drafts[e].text \in Texts
      BY <3>1, DraftFields DEF LibraryInv
    <3>3. PICK read \in Texts, text \in Texts :
            read = c.read[e].text /\ text = drafts[e].text
      BY <3>1, <3>2
    <3>4. r = CopyOf(doc, read, text)
      BY <2>3, <3>3 DEF CopyOf
    <3>5. GoodDraft(r, lastEvent) /\ IsCopy(r, read, text)
      BY <3>4, CopyIs
    <3> QED BY <3>3, <3>5 DEF IsCopy
  <2> QED BY <2>2, <2>4
<1>4. /\ DraftsHold' /\ Ids \subseteq Ids' /\ Ids' \ Ids = DOMAIN new
      /\ \A d \in Ids : drafts'[d] = drafts[d]
      /\ \A d \in DOMAIN new : drafts'[d] = new[d]
  <2>1. drafts' = With(new)
    BY <1>1
  <2> QED BY <1>2, <1>3, <2>1, Added DEF LibraryInv
<1>5. NamedStay
  BY <1>4 DEF NamedStay
<1> QED BY <1>3, <1>4, <1>5

\* FinishCopy.
LEMMA FinishCopyKeeps ==
  ASSUME LibraryInv, Tables', FinishCopy
  PROVE  StepKeeps
<1>1. PICK c \in copying :
        /\ NewDoc # {} /\ copying' = NoCopy
        /\ IF Accepted(c) THEN drafts' = With(Copies(c, Min(NewDoc))) ELSE drafts' = drafts
  BY DEF FinishCopy
<1>2. lastEvent' = lastEvent
  BY DEF FinishCopy
<1>3. CopyHonest'
  BY <1>1 DEF CopyHonest, NoCopy
<1>4. DraftsHold' /\ NamedStay
  <2>1. CASE Accepted(c)
    <3>1. PICK doc \in 1 .. MaxDocs : doc = Min(NewDoc)
      BY <1>1, NewDocIs
    <3>2. drafts' = With(Copies(c, doc))
      BY <1>1, <2>1, <3>1
    <3> QED BY <1>2, <3>2, CopyAccepted
  <2>2. CASE ~Accepted(c)
    BY <1>1, <1>2, <2>2, DraftsAlone
  <2> QED BY <2>1, <2>2
<1> QED BY <1>3, <1>4 DEF StepKeeps

-----------------------------------------------------------------------------
(* The theorems *)

\* Lists grow stale by a restore only.
LEMMA StaleKeeps ==
  ASSUME LibraryInv, [Next]_vars
  PROVE  stale' \subseteq 1 .. MaxDocs
<1>1. stale \subseteq 1 .. MaxDocs /\ DOMAIN docs = 1 .. MaxDocs
  BY DEF LibraryInv, Tables
<1>2. stale' \subseteq stale \/ \E doc \in DOMAIN docs : stale' = stale \cup {doc}
  <2>1. CASE Tick
    BY <2>1 DEF Tick
  <2>2. CASE Documents
    BY <2>2 DEF Documents, ReadLists, CreateDocument, CreateTab, Trash, Restore, DeleteForGood,
       StartCopy
  <2>3. CASE Writing
    BY <2>3 DEF Writing, DeleteTab, Edit, SaveVersion, LabelSnapshot, ReadForCopy
  <2>4. CASE Pruning
    BY <2>4 DEF Pruning, PruneOlderThan, PruneKeepLast, Startup
  <2>5. CASE FinishCopy
    BY <2>5 DEF FinishCopy
  <2>6. CASE UNCHANGED vars
    BY <2>6 DEF vars
  <2> QED BY <2>1, <2>2, <2>3, <2>4, <2>5, <2>6 DEF Next
<1> QED BY <1>1, <1>2

\* A document in use goes only because a page that has not seen it restored deletes it.
DeletedStale(doc) ==
  docs[doc].state = "live" /\ docs'[doc].state = "gone" => doc \in stale /\ DeleteForGood(doc)

\* The tables keep their types, and documents in use stay but for that.
LEMMA TablesKeep ==
  ASSUME LibraryInv, [Next]_vars
  PROVE  Tables' /\ \A doc \in DOMAIN docs : DeletedStale(doc)
<1> DEFINE Doc == [state : {"none", "live", "trash", "gone"}, at : 0 .. MaxTime]
           Goal == Tables' /\ \A doc \in DOMAIN docs : DeletedStale(doc)
<1> SUFFICES Goal
  OBVIOUS
<1>1. /\ now \in 0 .. MaxTime /\ lastEvent \in 0 .. MaxEvents
      /\ docs \in [1 .. MaxDocs -> Doc] /\ MaxTime \in Nat /\ MaxEvents \in Nat
  BY Bounds DEF LibraryInv, Tables
<1>s. stale' \subseteq 1 .. MaxDocs
  BY StaleKeeps
<1>2. ASSUME now' \in 0 .. MaxTime, lastEvent' \in 0 .. MaxEvents, docs' = docs PROVE Goal
  BY <1>1, <1>s, <1>2 DEF Tables, DeletedStale
<1>3. ASSUME UNCHANGED <<now, lastEvent>>, NEW doc \in 1 .. MaxDocs, NEW to \in Doc,
             docs' = [docs EXCEPT ![doc] = to],
             docs[doc].state = "live" /\ to.state = "gone" => doc \in stale /\ DeleteForGood(doc)
      PROVE  Goal
  <2>1. docs' \in [1 .. MaxDocs -> Doc]
    BY <1>1, <1>3
  <2>2. ASSUME NEW i \in DOMAIN docs PROVE DeletedStale(i)
    BY <1>1, <1>3, <2>2 DEF DeletedStale
  <2> QED BY <1>1, <1>s, <1>3, <2>1, <2>2 DEF Tables
<1>4. ASSUME NewDoc # {}, UNCHANGED <<now, lastEvent>>,
             docs' = [docs EXCEPT ![Min(NewDoc)].state = "live"]
      PROVE  Goal
  <2>1. PICK doc \in 1 .. MaxDocs : doc = Min(NewDoc) /\ docs[doc].state = "none"
    BY <1>4, NewDocIs
  <2>2. PICK to : to = [docs[doc] EXCEPT !.state = "live"]
    OBVIOUS
  <2>3. to \in Doc /\ to.state = "live" /\ docs' = [docs EXCEPT ![doc] = to]
    BY <1>1, <1>4, <2>1, <2>2
  <2> HIDE DEF Goal, Doc
  <2> QED BY <1>3, <1>4, <2>1, <2>3
<1>5. ASSUME NEW doc \in DOMAIN docs, Trash(doc) \/ Restore(doc) \/ DeleteForGood(doc) PROVE Goal
  <2>1. doc \in 1 .. MaxDocs
    BY <1>1
  <2>2. CASE Trash(doc)
    <3>1. PICK to : to = [state |-> "trash", at |-> now]
      OBVIOUS
    <3>2. to \in Doc /\ to.state # "gone" /\ docs' = [docs EXCEPT ![doc] = to]
          /\ UNCHANGED <<now, lastEvent>>
      BY <1>1, <2>2, <3>1 DEF Trash
    <3> HIDE DEF Goal, Doc
    <3> QED BY <1>3, <2>1, <3>2
  <2>3. CASE Restore(doc)
    <3>1. PICK to : to = [state |-> "live", at |-> 0]
      OBVIOUS
    <3>2. to \in Doc /\ to.state # "gone" /\ docs' = [docs EXCEPT ![doc] = to]
          /\ UNCHANGED <<now, lastEvent>>
      BY <1>1, <2>3, <3>1 DEF Restore
    <3> HIDE DEF Goal, Doc
    <3> QED BY <1>3, <2>1, <3>2
  <2>4. CASE DeleteForGood(doc)
    <3>1. PICK to : to = [state |-> "gone", at |-> 0]
      OBVIOUS
    <3>2. to \in Doc /\ (docs[doc].state = "live" => doc \in stale) /\ docs' = [docs EXCEPT ![doc] = to]
          /\ UNCHANGED <<now, lastEvent>>
      BY <1>1, <2>4, <3>1 DEF DeleteForGood
    <3> HIDE DEF Goal, Doc
    <3> QED BY <1>3, <2>1, <2>4, <3>2
  <2> QED BY <1>5, <2>2, <2>3, <2>4
<1>6. ASSUME NEW purgeAge, NEW pruneAge, Startup(purgeAge, pruneAge) PROVE Goal
  <2>1. /\ UNCHANGED <<now, lastEvent>>
        /\ docs' = [i \in DOMAIN docs |->
             IF docs[i].state = "trash" /\ docs[i].at < now - purgeAge * DayLength
             THEN [state |-> "gone", at |-> 0] ELSE docs[i]]
    BY <1>6 DEF Startup
  <2>2. [state |-> "gone", at |-> 0] \in Doc
    BY <1>1
  <2>3. ASSUME NEW i \in 1 .. MaxDocs
        PROVE  docs'[i] \in Doc /\ (docs[i].state = "live" => docs'[i] = docs[i])
    BY <1>1, <2>1, <2>2
  <2>4. docs' \in [1 .. MaxDocs -> Doc]
    <3>1. DOMAIN docs = 1 .. MaxDocs
      BY <1>1
    <3>2. DOMAIN docs' = 1 .. MaxDocs /\ docs' = [i \in 1 .. MaxDocs |-> docs'[i]]
      BY <2>1, <3>1
    <3> HIDE DEF Doc
    <3> QED BY <2>3, <3>2
  <2>5. ASSUME NEW i \in DOMAIN docs PROVE DeletedStale(i)
    BY <1>1, <2>3, <2>5 DEF DeletedStale
  <2> QED BY <1>1, <1>s, <2>1, <2>4, <2>5 DEF Tables
<1>7. CASE Tick
  BY <1>1, <1>2, <1>7 DEF Tick
<1>8. CASE Documents
  <2>1. ASSUME NEW origin, CreateDocument(origin) PROVE Goal
    BY <1>4, <2>1 DEF CreateDocument
  <2>2. ASSUME NEW doc \in DOMAIN docs,
               StartCopy(doc) \/ \E origin \in Origins : CreateTab(doc, origin)
        PROVE  Goal
    BY <1>1, <1>2, <2>2 DEF StartCopy, CreateTab
  <2>3. ASSUME ReadLists PROVE Goal
    BY <1>1, <1>2, <2>3 DEF ReadLists
  <2> HIDE DEF Goal
  <2> QED BY <1>5, <1>8, <2>1, <2>2, <2>3 DEF Documents
<1>9. CASE Writing
  <2>1. PICK d \in Ids : \/ DeleteTab(d) \/ Edit(d) \/ ReadForCopy(d)
                         \/ \E named \in BOOLEAN : SaveVersion(d, named)
                         \/ \E s \in drafts[d].snaps : LabelSnapshot(d, s)
    BY <1>9 DEF Writing
  <2>2. docs' = docs /\ now' = now
    BY <2>1 DEF DeleteTab, Edit, ReadForCopy, SaveVersion, LabelSnapshot
  <2>3. lastEvent' = lastEvent \/ (lastEvent < MaxEvents /\ lastEvent' = lastEvent + 1)
    BY <2>1 DEF DeleteTab, Edit, ReadForCopy, SaveVersion, LabelSnapshot
  <2>4. lastEvent' \in 0 .. MaxEvents
    BY <1>1, <2>3
  <2> QED BY <1>1, <1>2, <2>2, <2>4
<1>10. CASE Pruning
  <2>1. ASSUME NEW d \in Ids, \/ \E days \in Ages : PruneOlderThan(d, days)
                              \/ \E n \in Keeps : PruneKeepLast(d, n)
        PROVE  Goal
    BY <1>1, <1>2, <2>1 DEF PruneOlderThan, PruneKeepLast
  <2> HIDE DEF Goal
  <2> QED BY <1>6, <1>10, <2>1 DEF Pruning
<1>11. CASE FinishCopy
  <2>1. PICK c \in copying : /\ NewDoc # {} /\ UNCHANGED <<now, lastEvent>>
                             /\ \/ docs' = [docs EXCEPT ![Min(NewDoc)].state = "live"]
                                \/ docs' = docs
    BY <1>11 DEF FinishCopy
  <2> QED BY <1>1, <1>2, <1>4, <2>1
<1>12. CASE UNCHANGED vars
  BY <1>1, <1>2, <1>12 DEF vars
<1> HIDE DEF Goal
<1> QED BY <1>7, <1>8, <1>9, <1>10, <1>11, <1>12 DEF Next

\* A database with one document and its first draft.
LEMMA InitHolds == Init => LibraryInv
<1> SUFFICES ASSUME Init PROVE LibraryInv
  OBVIOUS
<1>1. Tables
  BY LibraryAssumption DEF Init, Tables
<1>2. PICK origin \in Origins \cap {"blank", "sample"} :
        drafts = [d \in {1} |-> FromOrigin(1, origin)]
  BY DEF Init
<1>3. 1 \in 1 .. MaxDocs
  BY LibraryAssumption
<1>4. PICK r : r = FromOrigin(1, origin) /\ GoodDraft(r, lastEvent)
  BY <1>1, <1>2, <1>3, NewIsGood
<1>5. drafts = [d \in {1} |-> r]
  BY <1>2, <1>4
<1>6. Ids = 1 .. 1 /\ drafts = [d \in Ids |-> drafts[d]] /\ \A d \in Ids : drafts[d] = r
  BY <1>5 DEF Ids
<1>7. DraftsHold
  <2>1. \A d \in Ids : GoodDraft(drafts[d], lastEvent)
    BY <1>4, <1>6
  <2>2. \E n \in Nat : Ids = 1 .. n
    BY <1>6
  <2> QED BY <1>6, <2>1, <2>2 DEF DraftsHold
<1>8. CopyHonest /\ OneCopy
  BY DEF Init, NoCopy, CopyHonest, OneCopy
<1> QED BY <1>1, <1>7, <1>8 DEF LibraryInv

\* At most one duplication is under way.
LEMMA OneCopyKeeps ==
  ASSUME LibraryInv, [Next]_vars
  PROVE  OneCopy'
<1>1. OneCopy
  BY DEF LibraryInv
<1>2. copying' = copying \/ copying' = {} \/ \E c : copying' = {c}
  <2>1. CASE Tick
    BY <2>1 DEF Tick
  <2>2. CASE Documents
    BY <2>2 DEF Documents, ReadLists, CreateDocument, CreateTab, Trash, Restore, DeleteForGood,
       StartCopy
  <2>3. CASE Writing
    BY <2>3 DEF Writing, DeleteTab, Edit, SaveVersion, LabelSnapshot, ReadForCopy
  <2>4. CASE Pruning
    BY <2>4 DEF Pruning, PruneOlderThan, PruneKeepLast, Startup, NoCopy
  <2>5. CASE FinishCopy
    BY <2>5 DEF FinishCopy, NoCopy
  <2>6. CASE UNCHANGED vars
    BY <2>6 DEF vars
  <2> QED BY <2>1, <2>2, <2>3, <2>4, <2>5, <2>6 DEF Next
<1> QED BY <1>1, <1>2 DEF OneCopy

\* Every step keeps the drafts good and what was read for a copy honest.
LEMMA NextKeeps ==
  ASSUME LibraryInv, [Next]_vars
  PROVE  LibraryInv' /\ NamedStay
<1>1. Tables'
  BY TablesKeep
<1> SUFFICES StepKeeps
  BY <1>1, OneCopyKeeps DEF LibraryInv, StepKeeps
<1>2. ASSUME UNCHANGED <<drafts, lastEvent, copying>> PROVE StepKeeps
  BY <1>1, <1>2, DraftsAlone DEF StepKeeps
<1>3. CASE Tick
  BY <1>2, <1>3 DEF Tick
<1>4. CASE Documents
  <2>1. ASSUME NEW origin \in Origins \cap {"blank", "sample"}, CreateDocument(origin)
        PROVE  StepKeeps
    <3>1. PICK doc \in 1 .. MaxDocs : doc = Min(NewDoc)
      BY <2>1, NewDocIs DEF CreateDocument
    <3>2. drafts' = With([d \in {NextDraft} |-> FromOrigin(doc, origin)])
          /\ UNCHANGED <<lastEvent, copying>>
      BY <2>1, <3>1 DEF CreateDocument
    <3> QED BY <1>1, <2>1, <3>2, SeedAdded
  <2>2. ASSUME NEW doc \in DOMAIN docs,
               Trash(doc) \/ Restore(doc) \/ DeleteForGood(doc)
        PROVE  StepKeeps
    BY <1>2, <2>2 DEF Trash, Restore, DeleteForGood
  <2>3. ASSUME NEW doc \in DOMAIN docs, StartCopy(doc) PROVE StepKeeps
    BY <1>1, <2>3, StartCopyKeeps
  <2>4. ASSUME NEW doc \in DOMAIN docs, NEW origin \in Origins \ {"sample"},
               CreateTab(doc, origin)
        PROVE  StepKeeps
    <3>1. doc \in 1 .. MaxDocs /\ origin \in {"blank", "sample", "branch", "prompt"}
      BY LibraryAssumption DEF LibraryInv, Tables
    <3>2. drafts' = With([d \in {NextDraft} |-> FromOrigin(doc, origin)])
          /\ UNCHANGED <<lastEvent, copying>>
      BY <2>4 DEF CreateTab
    <3> QED BY <1>1, <3>1, <3>2, SeedAdded
  <2>5. ASSUME ReadLists PROVE StepKeeps
    BY <1>2, <2>5 DEF ReadLists
  <2> QED BY <1>4, <2>1, <2>2, <2>3, <2>4, <2>5 DEF Documents
<1>5. CASE Writing
  BY <1>1, <1>5, DeleteTabKeeps, EditKeeps, ReadForCopyKeeps, SaveVersionKeeps,
     LabelSnapshotKeeps DEF Writing
<1>6. CASE Pruning
  BY <1>1, <1>6, PrunesKeep, StartupKeeps DEF Pruning
<1>7. CASE FinishCopy
  BY <1>1, <1>7, FinishCopyKeeps
<1>8. CASE UNCHANGED vars
  BY <1>2, <1>8 DEF vars
<1> QED BY <1>3, <1>4, <1>5, <1>6, <1>7, <1>8 DEF Next

\* In every state what is kept of a draft amounts to what was written in it, and what was
\* read for a copy is the draft's text as long as its event id is the latest.
THEOREM LibraryHolds == Spec => []LibraryInv
<1>1. LibraryInv /\ [Next]_vars => LibraryInv'
  BY NextKeeps
<1> QED BY <1>1, InitHolds, PTL DEF Spec

\* Whatever is pruned, trashed, purged or copied, by age or by number, at any time and at
\* every start, a draft whose seed is labeled loads with everything written in it
\* (prune_snapshots_older_than, prune_snapshots_keep_last, purge_trash, insert_draft).
THEOREM LabeledSeedsLoad == Spec => []SeedsHold
BY LibraryHolds, InvLoads, PTL

\* No operation takes a named version from its draft, and a document that is not in the trash
\* goes only because a page that still shows it there deletes it: no start, prune or
\* duplication takes one (the guards of the prunes and of purge_trash).
THEOREM NamedVersionsStay == Spec => NothingNamedGoes
<1> DEFINE Step == /\ \A d \in Ids :
                        {s \in drafts[d].snaps : s.named} \subseteq drafts'[d].snaps
                   /\ \A doc \in DOMAIN docs :
                        docs[doc].state = "live" /\ docs'[doc].state = "gone"
                          => doc \in stale /\ DeleteForGood(doc)
<1>1. LibraryInv /\ [Next]_vars => Step
  BY NextKeeps, TablesKeep DEF NamedStay, DeletedStale
<1>2. LibraryInv /\ [Next]_vars => [Step]_vars
  BY <1>1
<1> HIDE DEF Step
<1>3. Spec => [][Step]_vars
  BY <1>2, LibraryHolds, PTL DEF Spec
<1> QED BY <1>3 DEF Step, NothingNamedGoes

\* What a step makes of the drafts it adds: it copies them as they are at that moment.
LEMMA CopyingIsCurrent ==
  ASSUME LibraryInv, LibraryInv', FreshLoads', [Next]_vars, NEW c \in copying,
         copying' = NoCopy, \A d \in c.drafts : ~drafts[d].plain,
         NEW d \in DOMAIN drafts' \ Ids
  PROVE  Loaded(d)' = drafts'[d].text
<1>1. copying' # copying
  BY DEF NoCopy
<1>2. FinishCopy \/ \E purgeAge, pruneAge \in Ages : Startup(purgeAge, pruneAge)
  <2>1. CASE Tick
    BY <1>1, <2>1 DEF Tick
  <2>2. CASE Documents
    BY <1>1, <2>2 DEF Documents, ReadLists, CreateDocument, CreateTab, Trash, Restore,
       DeleteForGood, StartCopy, NoCopy
  <2>3. CASE Writing
    BY <1>1, <2>3 DEF Writing, DeleteTab, Edit, SaveVersion, LabelSnapshot, ReadForCopy, NoCopy
  <2>4. CASE Pruning
    BY <1>1, <2>4 DEF Pruning, PruneOlderThan, PruneKeepLast
  <2>5. CASE UNCHANGED vars
    BY <1>1, <2>5 DEF vars
  <2> QED BY <2>1, <2>2, <2>3, <2>4, <2>5 DEF Next
<1>3. FinishCopy
  <2>1. ASSUME NEW purgeAge, NEW pruneAge, Startup(purgeAge, pruneAge) PROVE FALSE
    <3>1. DOMAIN drafts' = Ids
      BY <2>1 DEF Startup
    <3> QED BY <3>1
  <2> QED BY <1>2, <2>1
<1>4. PICK b \in copying :
        /\ NewDoc # {}
        /\ IF Accepted(b) THEN drafts' = With(Copies(b, Min(NewDoc))) ELSE drafts' = drafts
        /\ lastEvent' = lastEvent
  BY <1>3 DEF FinishCopy
<1>5. b = c
  BY DEF LibraryInv, OneCopy
<1>6. Accepted(c)
  BY <1>4, <1>5 DEF Ids
<1>7. PICK doc \in 1 .. MaxDocs : doc = Min(NewDoc)
  BY <1>4, NewDocIs
<1>8. drafts' = With(Copies(c, doc)) /\ lastEvent' = lastEvent /\ Tables'
  BY <1>4, <1>5, <1>6, <1>7 DEF LibraryInv
<1>9. d \in Ids' \ Ids
  BY DEF Ids
<1>10. PICK e \in DOMAIN c.read :
         /\ drafts'[d].events = {} /\ drafts'[d].text = drafts[e].text
         /\ \E s \in drafts'[d].snaps : drafts'[d].snaps = {s} /\ s.text = c.read[e].text
  BY <1>8, <1>9, CopyAccepted
<1>11. PICK s \in drafts'[d].snaps : drafts'[d].snaps = {s} /\ s.text = c.read[e].text
  BY <1>10
<1>12. Loaded(d)' = s.text
  BY <1>9, <1>10, <1>11 DEF FreshLoads
<1>13. c.read[e].text = drafts[e].text
  <2>1. e \in c.drafts
    BY DEF LibraryInv, CopyHonest
  <2>2. ~drafts[e].plain /\ c.read[e].upTo = LatestEvent(e)
    BY <1>6, <2>1 DEF Accepted
  <2> QED BY <2>2 DEF LibraryInv, CopyHonest
<1> QED BY <1>10, <1>11, <1>12, <1>13

\* A copy holds what was written in its source at the moment the copy is made: an edit, a new
\* draft or a trashing while the drafts are read is noticed (the checks of duplicate_document).
THEOREM CopiesAreCurrent == Spec => CopyIsCurrent
<1> DEFINE Step == \A c \in copying :
                     copying' = NoCopy /\ (\A d \in c.drafts : ~drafts[d].plain)
                       => \A d \in DOMAIN drafts' \ Ids : Loaded(d)' = drafts'[d].text
<1>1. LibraryInv /\ LibraryInv' /\ FreshLoads' /\ [Next]_vars => Step
  BY CopyingIsCurrent
<1>2. LibraryInv /\ LibraryInv' /\ FreshLoads' /\ [Next]_vars => [Step]_vars
  BY <1>1
<1> HIDE DEF Step
<1>3. Spec => [][Step]_vars
  BY <1>2, LibraryHolds, FreshLoad, PTL DEF Spec
<1> QED BY <1>3 DEF Step, CopyIsCurrent
=============================================================================
