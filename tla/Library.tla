------------------------------- MODULE Library --------------------------------
(* Documents and the snapshots their drafts start from: creation, duplication *)
(* (read draft by draft, committed in one transaction), trash and purge,      *)
(* labels, and the three ways of pruning snapshots.                           *)
(*                                                                           *)
(* A draft is alone in its tab (DraftTree has the tree).  Its text is the set *)
(* of things written in it: the ids of its events, and 0 for what it was      *)
(* created with.                                                              *)
EXTENDS Integers, FiniteSets, FiniteSetsExt

CONSTANTS
  MaxDocs,    \* bound on documents ever created
  MaxDrafts,  \* bound on drafts ever created
  MaxEvents,  \* bound on edits
  MaxSnaps,   \* bound on the snapshots a draft has when another is taken
  MaxTime,    \* bound on the clock, in units of which a day has DayLength
  DayLength,
  MaxInt,     \* the largest i64
  Ages,       \* days the user enters for a prune or picks for retention
  Keeps,      \* numbers the user enters for "keep last"
  Origins,    \* how drafts are created: "blank", "sample", "branch", "prompt"
  TabsGo      \* whether tabs are deleted

ASSUME LibraryAssumption ==
  /\ {MaxDocs, MaxDrafts, DayLength} \subseteq Nat \ {0}
  /\ {MaxEvents, MaxSnaps, MaxTime, MaxInt} \subseteq Nat
  /\ Ages \subseteq Nat /\ Keeps \subseteq Nat
  /\ Origins \subseteq {"blank", "sample", "branch", "prompt"} /\ TabsGo \in BOOLEAN

VARIABLES
  now,       \* now_ms()
  docs,      \* the documents: "none", "live", "trash" or "gone", and deleted_at
  drafts,    \* the drafts created so far, with their events and snapshots
  lastEvent, \* the last event id
  copying,   \* a duplication being prepared, or {}
  stale      \* documents a library page shows in the trash, though another
             \* window has restored them

vars == <<now, docs, drafts, lastEvent, copying, stale>>

Texts     == SUBSET (0 .. MaxEvents)
Snapshots == [upTo : -1 .. MaxEvents, named : BOOLEAN, at : 0 .. MaxTime, text : Texts]
Ids       == DOMAIN drafts

-----------------------------------------------------------------------------
LatestEvent(d) == Max(drafts[d].events \cup {-1})

\* load_document_state: the snapshot that covers most, and the events after it.
Base(d) ==
  LET best == {s \in drafts[d].snaps : \A t \in drafts[d].snaps : t.upTo <= s.upTo}
  IN IF best = {} THEN [upTo |-> -1, text |-> {}] ELSE CHOOSE s \in best : TRUE
Tail(d)   == {e \in drafts[d].events : e > Base(d).upTo}
Loaded(d) == Base(d).text \cup Tail(d)

\* The event id duplicateLibraryDocument takes the state for.
LoadedUpTo(d) == IF Tail(d) = {} THEN Base(d).upTo ELSE Max(Tail(d))

DraftsOf(doc) == {d \in Ids : drafts[d].doc = doc}   \* list_drafts
Writable(d) == docs[drafts[d].doc].state = "live" /\ drafts[d].tabLive

Snapshot(upTo, named, text) == [upTo |-> upTo, named |-> named, at |-> now, text |-> text]

\* What a new draft starts from: nothing, the sample, the state it branches
\* off, or a college prompt, which is stored as covering event 0.
Seed(origin) ==
  CASE origin = "blank"  -> {}
    [] origin = "sample" -> {Snapshot(-1, FALSE, {0})}
    [] origin = "branch" -> {Snapshot(-1, TRUE, {0})}
    [] origin = "prompt" -> {Snapshot(0, TRUE, {0})}

\* plain: the seed has no label.  text: what was written, which the database
\* does not store as such.
NewDraft(doc, snaps, text) ==
  [doc |-> doc, tabLive |-> TRUE, events |-> {}, snaps |-> snaps, text |-> text,
   plain |-> \E s \in snaps : ~s.named]

FromOrigin(doc, origin) ==
  NewDraft(doc, Seed(origin), IF origin = "blank" THEN {} ELSE {0})

NextDraft == Cardinality(Ids) + 1

\* The drafts with the ones of `new' among them.
With(new) == [d \in Ids \cup DOMAIN new |-> IF d \in Ids THEN drafts[d] ELSE new[d]]

-----------------------------------------------------------------------------
TypeOK ==
  /\ now \in 0 .. MaxTime
  /\ docs \in [1 .. MaxDocs -> [state : {"none", "live", "trash", "gone"}, at : 0 .. MaxTime]]
  /\ Ids = 1 .. Cardinality(Ids)
  /\ \A d \in Ids :
       /\ drafts[d].doc \in 1 .. MaxDocs /\ drafts[d].tabLive \in BOOLEAN
       /\ drafts[d].snaps \subseteq Snapshots
       /\ drafts[d].events \subseteq 1 .. lastEvent
  /\ lastEvent \in 0 .. MaxEvents
  /\ stale \subseteq DOMAIN docs

NoCopy == {}

Init ==
  /\ now = 0 /\ lastEvent = 0 /\ copying = NoCopy /\ stale = {}
  /\ docs = [i \in 1 .. MaxDocs |->
               [state |-> IF i = 1 THEN "live" ELSE "none", at |-> 0]]
  /\ \E origin \in Origins \cap {"blank", "sample"} :
       drafts = [d \in {1} |-> FromOrigin(1, origin)]

NewDoc == {i \in 1 .. MaxDocs : docs[i].state = "none"}

\* create_document and its first draft.
CreateDocument(origin) ==
  /\ NewDoc # {} /\ NextDraft <= MaxDrafts
  /\ docs' = [docs EXCEPT ![Min(NewDoc)].state = "live"]
  /\ drafts' = With([d \in {NextDraft} |-> FromOrigin(Min(NewDoc), origin)])
  /\ UNCHANGED <<now, stale, lastEvent, copying>>

\* A tab with its root draft: empty, split off another draft, or a college tab.
CreateTab(doc, origin) ==
  /\ docs[doc].state = "live" /\ NextDraft <= MaxDrafts
  /\ drafts' = With([d \in {NextDraft} |-> FromOrigin(doc, origin)])
  /\ UNCHANGED <<now, stale, docs, lastEvent, copying>>

\* delete_tab leaves the tab's drafts as they are.
DeleteTab(d) ==
  /\ TabsGo /\ Writable(d)
  /\ \E other \in DraftsOf(drafts[d].doc) \ {d} : drafts[other].tabLive
  /\ drafts' = [drafts EXCEPT ![d].tabLive = FALSE]
  /\ UNCHANGED <<now, stale, docs, lastEvent, copying>>

Edit(d) ==
  /\ Writable(d) /\ lastEvent < MaxEvents
  /\ lastEvent' = lastEvent + 1
  /\ drafts' = [drafts EXCEPT ![d].events = @ \cup {lastEvent'},
                              ![d].text = @ \cup {lastEvent'}]
  /\ UNCHANGED <<now, stale, docs, copying>>

\* An automatic snapshot, or a named version, of a draft that has been saved.
SaveVersion(d, named) ==
  /\ Writable(d) /\ drafts[d].events # {} /\ Cardinality(drafts[d].snaps) < MaxSnaps
  /\ drafts' = [drafts EXCEPT ![d].snaps =
                  @ \cup {Snapshot(LatestEvent(d), named, drafts[d].text)}]
  /\ UNCHANGED <<now, stale, docs, lastEvent, copying>>

LabelSnapshot(d, s) ==
  /\ Writable(d) /\ ~s.named
  /\ drafts' = [drafts EXCEPT ![d].snaps = (@ \ {s}) \cup {[s EXCEPT !.named = TRUE]}]
  /\ UNCHANGED <<now, stale, docs, lastEvent, copying>>

Tick ==
  /\ now < MaxTime /\ now' = now + 1
  /\ UNCHANGED <<stale, docs, drafts, lastEvent, copying>>

-----------------------------------------------------------------------------
(* Trash.  Each window has a library page with lists of its own, read when it *)
(* is opened and after its own commands; the commands only take an id.       *)

Trash(doc) ==
  /\ docs[doc].state = "live"
  /\ docs' = [docs EXCEPT ![doc] = [state |-> "trash", at |-> now]]
  /\ stale' = stale \ {doc}
  /\ UNCHANGED <<now, drafts, lastEvent, copying>>

\* The page that restores reads its lists again; one of another window may not.
Restore(doc) ==
  /\ docs[doc].state = "trash"
  /\ docs' = [docs EXCEPT ![doc] = [state |-> "live", at |-> 0]]
  /\ stale' \in {stale, stale \cup {doc}}
  /\ UNCHANGED <<now, drafts, lastEvent, copying>>

\* A page is opened or uses a command of its own; other pages stay as they are.
ReadLists ==
  /\ stale' \in SUBSET stale \ {stale}
  /\ UNCHANGED <<now, docs, drafts, lastEvent, copying>>

\* A page offers this for what it shows in the trash; delete_document does not
\* ask whether the document is there.
DeleteForGood(doc) ==
  /\ docs[doc].state = "trash" \/ doc \in stale
  /\ docs' = [docs EXCEPT ![doc] = [state |-> "gone", at |-> 0]]
  /\ stale' = stale \ {doc}
  /\ UNCHANGED <<now, drafts, lastEvent, copying>>

-----------------------------------------------------------------------------
(* Pruning *)

\* The age in milliseconds is computed in 64 bits; an age too large for them
\* gives the present as the cutoff.
Cutoff(days) == IF days * DayLength > MaxInt THEN now ELSE now - days * DayLength

OlderThan(d, days) == {s \in drafts[d].snaps : ~s.named /\ s.at < Cutoff(days)}

PruneOlderThan(d, days) ==
  /\ Writable(d)
  /\ drafts' = [drafts EXCEPT ![d].snaps = @ \ OlderThan(d, days)]
  /\ UNCHANGED <<now, stale, docs, lastEvent, copying>>

\* Mutant: a labeled snapshot counts as one of the last.
PruneKeepLastOfAll(d, n) ==
  /\ Writable(d)
  /\ \E kept \in SUBSET drafts[d].snaps :
       /\ Cardinality(kept) = Min({n, Cardinality(drafts[d].snaps)})
       /\ \A s \in drafts[d].snaps \ kept, k \in kept : s.at <= k.at
       /\ drafts' = [drafts EXCEPT ![d].snaps = kept]
  /\ UNCHANGED <<now, stale, docs, lastEvent, copying>>

\* The newest by time of creation are kept; equal times fall either way.
PruneKeepLast(d, n) ==
  LET plain == {s \in drafts[d].snaps : ~s.named}
  IN /\ Writable(d)
     /\ \E kept \in SUBSET plain :
          /\ Cardinality(kept) = Min({n, Cardinality(plain)})
          /\ \A s \in plain \ kept, k \in kept : s.at <= k.at
          /\ drafts' = [drafts EXCEPT ![d].snaps = @ \ (plain \ kept)]
     /\ UNCHANGED <<now, stale, docs, lastEvent, copying>>

\* Mutant: the purge does not ask whether the document is in the trash.
StartupPurgesAll(purgeAge, pruneAge) ==
  /\ docs' = [i \in DOMAIN docs |->
       IF docs[i].state \in {"live", "trash"} /\ docs[i].at < now - purgeAge * DayLength
       THEN [state |-> "gone", at |-> 0] ELSE docs[i]]
  /\ drafts' = [d \in Ids |-> [drafts[d] EXCEPT !.snaps = @ \ OlderThan(d, pruneAge)]]
  /\ copying' = NoCopy /\ stale' = {}
  /\ UNCHANGED <<now, lastEvent>>

\* A start of the program: purge the expired trash, then prune every draft by
\* age, also those of documents in the trash.  A duplication in progress dies.
Startup(purgeAge, pruneAge) ==
  /\ docs' = [i \in DOMAIN docs |->
       IF docs[i].state = "trash" /\ docs[i].at < now - purgeAge * DayLength
       THEN [state |-> "gone", at |-> 0] ELSE docs[i]]
  /\ drafts' = [d \in Ids |-> [drafts[d] EXCEPT !.snaps = @ \ OlderThan(d, pruneAge)]]
  /\ copying' = NoCopy /\ stale' = {}
  /\ UNCHANGED <<now, lastEvent>>

-----------------------------------------------------------------------------
(* Duplication.  The drafts are listed, then read one by one while the user  *)
(* goes on; one transaction checks that nothing changed and writes the copy. *)

StartCopy(doc) ==
  /\ copying = NoCopy /\ docs[doc].state = "live"
  /\ copying' = {[doc |-> doc, drafts |-> DraftsOf(doc), read |-> << >>]}
  /\ UNCHANGED <<now, stale, docs, drafts, lastEvent>>

ReadForCopy(d) ==
  \E c \in copying :
    /\ d \in c.drafts \ DOMAIN c.read
    /\ copying' = {[c EXCEPT !.read =
                     [e \in DOMAIN @ \cup {d} |->
                        IF e = d THEN [upTo |-> LoadedUpTo(d), text |-> Loaded(d)] ELSE @[e]]]}
    /\ UNCHANGED <<now, stale, docs, drafts, lastEvent>>

\* Mutant: the states are not compared with the latest events.
AcceptedUnchecked(c) ==
  /\ docs[c.doc].state = "live" /\ DOMAIN c.read = DraftsOf(c.doc)
  /\ \A d \in DOMAIN c.read : drafts[d].tabLive

\* The checks of duplicate_document: a live source, one state for each live
\* draft, no event since it was read, and every draft in a live tab.
Accepted(c) ==
  /\ docs[c.doc].state = "live" /\ DOMAIN c.read = DraftsOf(c.doc)
  /\ \A d \in DOMAIN c.read : c.read[d].upTo = LatestEvent(d) /\ drafts[d].tabLive

\* The copies, in the order of their sources, each with one snapshot.
Copies(c, doc) ==
  LET position(d) == Cardinality({e \in DOMAIN c.read : e <= d})
  IN [n \in NextDraft .. NextDraft + Cardinality(DOMAIN c.read) - 1 |->
        LET d == CHOOSE e \in DOMAIN c.read : position(e) = n - NextDraft + 1
        IN NewDraft(doc, {Snapshot(-1, FALSE, c.read[d].text)}, drafts[d].text)]

FinishCopy ==
  \E c \in copying :
    /\ DOMAIN c.read = c.drafts
    /\ NewDoc # {} /\ Cardinality(Ids) + Cardinality(c.drafts) <= MaxDrafts
    /\ copying' = NoCopy
    /\ IF Accepted(c)
       THEN /\ docs' = [docs EXCEPT ![Min(NewDoc)].state = "live"]
            /\ drafts' = With(Copies(c, Min(NewDoc)))
       ELSE UNCHANGED <<docs, drafts>>
    /\ UNCHANGED <<now, stale, lastEvent>>

-----------------------------------------------------------------------------
Documents ==
  \/ ReadLists
  \/ \E origin \in Origins \cap {"blank", "sample"} : CreateDocument(origin)
  \/ \E doc \in DOMAIN docs :
       \/ Trash(doc) \/ Restore(doc) \/ DeleteForGood(doc) \/ StartCopy(doc)
       \/ \E origin \in Origins \ {"sample"} : CreateTab(doc, origin)

Writing ==
  \E d \in Ids :
    \/ DeleteTab(d) \/ Edit(d) \/ ReadForCopy(d)
    \/ \E named \in BOOLEAN : SaveVersion(d, named)
    \/ \E s \in drafts[d].snaps : LabelSnapshot(d, s)

Pruning ==
  \/ \E d \in Ids : \/ \E days \in Ages : PruneOlderThan(d, days)
                    \/ \E n \in Keeps : PruneKeepLast(d, n)
  \/ \E purgeAge, pruneAge \in Ages : Startup(purgeAge, pruneAge)

Next == Tick \/ Documents \/ Writing \/ Pruning \/ FinishCopy

Spec == Init /\ [][Next]_vars

-----------------------------------------------------------------------------
(* Properties *)

\* Whatever is pruned, by age or by number, at any time and at every start,
\* and whatever it was branched or split from, a draft whose seed is labeled
\* loads with everything written in it (prune_snapshots_*, insert_draft).
NamedSeedsLoad == \A d \in Ids : ~drafts[d].plain => Loaded(d) = drafts[d].text

\* Seeds under labels are safe from every pruning (NamedSeedsLoad).
SeedsHold == TypeOK /\ NamedSeedsLoad

\* A copy holds what was written in its source at the moment the copy is made:
\* an edit, a new draft or a trashing while the drafts are read is noticed.
\* (Of sources with labeled seeds, which pruning cannot have emptied.)
CopyIsCurrent ==
  [][\A c \in copying :
       copying' = NoCopy /\ (\A d \in c.drafts : ~drafts[d].plain)
         => \A d \in DOMAIN drafts' \ Ids : Loaded(d)' = drafts'[d].text]_vars

\* Named versions go only with their document, and a document goes only out of the
\* trash, or because a page that has not seen it restored deletes it.  No start of
\* the program, no prune and no duplication takes one away.
NothingNamedGoes ==
  [][/\ \A d \in Ids :
          {s \in drafts[d].snaps : s.named} \subseteq drafts'[d].snaps
     /\ \A doc \in DOMAIN docs :
          docs[doc].state = "live" /\ docs'[doc].state = "gone"
            => doc \in stale /\ DeleteForGood(doc)]_vars

\* The comment in insert_draft: the seed state of a draft can never be garbage
\* collected out from under it.
SeedsStay == \A d \in Ids : Loaded(d) = drafts[d].text

\* duplicate_document copies the live structure: a document nobody touches in
\* between can be duplicated.
CopyIsPossible ==
  \A c \in copying :
    docs[c.doc].state = "live" /\ c.drafts = DraftsOf(c.doc)
      /\ c.read = [d \in c.drafts |-> [upTo |-> LoadedUpTo(d), text |-> Loaded(d)]]
      => Accepted(c)

\* The comment in prune_snapshots_older_than: an age too large to compute never
\* deletes everything.  A larger age never prunes more.
OlderPrunesLess ==
  \A d \in Ids, less, more \in Ages :
    less <= more => OlderThan(d, more) \subseteq OlderThan(d, less)
=============================================================================
