---------------------------- MODULE Annotations ----------------------------
\* Comments, suggestions and revisions of one document, the groups that link
\* versions of different revisions, and the editor's undo history
\* (src/packages/share/src/core/annotationField.ts, versionGroupField.ts and
\* the desktop's plugins/annotations).
\*
\* The document is a sequence of letters and an annotation covers a range of it.
\* A revision holds several versions of its range; the document shows the active
\* one. A transaction carries replacements and effects; the field maps every
\* range through the replacements, applies the effects, and copies the text
\* under a revision into its active version. Undo replays the inverse
\* replacements with the inverse effects computed when the transaction was made.
\*
\* Left out: labels, threads beyond the first message, provenance, annotations
\* inside a version, several selections, joining adjacent typing into one undo
\* step, and edits of a live session (whose editor has no such history).
EXTENDS Integers, Sequences, SequencesExt, FiniteSets, FiniteSetsExt, TLC

CONSTANTS
    Starts,     \* the documents as loaded: names of "Loaded"
    Careless,   \* what the writer does not avoid: "overlap": branching a suggestion
                \* that overlaps a revision; "touch": switching linked versions of
                \* revisions that touch (the code guards neither)
    MaxOps,     \* bound: commands of the writer other than undo and redo
    MaxTurns,   \* bound: undos and redos
    MaxLen      \* bound: letters of the document and of a version

VARIABLES
    doc,        \* the text
    anns,       \* id -> annotation (annotationField)
    groups,     \* group id -> sequence of members (versionGroupField)
    done,       \* history events that can be undone
    undone,     \* history events that can be redone
    fresh,      \* next unused version id, lineage or group id
    ops,        \* commands given so far
    turns       \* undos and redos so far

vars == <<doc, anns, groups, done, undone, fresh, ops, turns>>
Content == <<doc, anns, groups>>

----------------------------------------------------------------------------
(* Replacements of a document, in order and disjoint, as CodeMirror maps
   positions and ranges through them. *)

Slice(d, from, to) == SubSeq(d, from + 1, to)
Grow(r) == Len(r.ins) - (r.to - r.from)
Change(from, to, ins) ==
    IF from = to /\ ins = <<>> THEN <<>>
    ELSE <<[from |-> from, to |-> to, ins |-> ins]>>

Patched(d, changes) ==
    FoldRight(LAMBDA r, rest :
                  Slice(rest, 0, r.from) \o r.ins \o Slice(rest, r.to, Len(rest)),
              changes, d)

Shift(changes, Passed(_)) ==
    FoldLeft(LAMBDA n, r : IF Passed(r) THEN n + Grow(r) ELSE n, 0, changes)

MapPos(pos, assoc, changes) ==
    LET shift == Shift(changes, LAMBDA r :
                          r.to <= pos /\ ~(assoc < 0 /\ r.from = pos))
        over  == {r \in Range(changes) : r.from <= pos /\ pos < r.to}
    IN  IF over = {} THEN pos + shift
        ELSE LET r == CHOOSE r \in over : TRUE
             IN  r.from + shift
                   + (IF pos = r.from \/ assoc < 0 THEN 0 ELSE Len(r.ins))

Empty(a) == a.from = a.to
MapRange(a, assoc, changes) ==
    IF Empty(a)
    THEN LET p == MapPos(a.from, assoc, changes) IN [a EXCEPT !.from = p, !.to = p]
    ELSE [a EXCEPT !.from = MapPos(a.from, 1, changes), !.to = MapPos(a.to, -1, changes)]

Inverted(changes, d) ==
    [i \in DOMAIN changes |->
        LET at == changes[i].from + Shift(SubSeq(changes, 1, i - 1), LAMBDA r : TRUE)
        IN  [from |-> at, to |-> at + Len(changes[i].ins),
             ins |-> Slice(d, changes[i].from, changes[i].to)]]

----------------------------------------------------------------------------
(* Annotations, versions and groups. *)

Revision(a) == a.type = "revision"
Ids == DOMAIN anns
Put(map, a) == [i \in DOMAIN map \cup {a.id} |-> IF i = a.id THEN a ELSE map[i]]
Without(map, ids) == Restrict(map, DOMAIN map \ ids)
NewId(map) == IF DOMAIN map = {} THEN 0 ELSE Max(DOMAIN map) + 1

VersionIds(a) == {a.versions[i].id : i \in DOMAIN a.versions}
IndexOf(a, v) == CHOOSE i \in DOMAIN a.versions : a.versions[i].id = v
ActiveIndex(a) == IF a.active \in VersionIds(a) THEN IndexOf(a, a.active) ELSE 1
TextOf(a, v) == a.versions[IndexOf(a, v)].text
ActiveText(a) == a.versions[ActiveIndex(a)].text
WithText(a, i, text) == [a EXCEPT !.versions[i].text = text]
Spanning(a, from, to) == [a EXCEPT !.from = from, !.to = to]

Members(g) == Range(g)
GroupOf(gs, m) == {g \in DOMAIN gs : m \in Members(gs[g])}
Partners(gs, m) ==
    UNION {{n \in Members(gs[g]) : n.rev # m.rev} : g \in GroupOf(gs, m)}

----------------------------------------------------------------------------
(* annotationField.update: what a transaction makes of the annotations. *)

Effects(tr, kinds) == {e \in Range(tr.effects) : e.k \in kinds}
NestedIds(tr) == tr.nested \cup {e.id : e \in Effects(tr, {"nested"})}

\* On which side of an insertion a range's ends stay.
Association(a, old, tr) ==
    IF ~Revision(a) THEN 0
    ELSE IF /\ Empty(a) /\ a.id \notin NestedIds(tr)
            /\ \E t \in NestedIds(tr) \cap DOMAIN old :
                  Revision(old[t]) /\ ~Empty(old[t]) /\ old[t].from = a.from
         THEN -1 ELSE 1

\* Phase 1: ranges follow the text; what has no text left goes, save revisions.
Remapped(old, tr) ==
    LET moved == [i \in DOMAIN old |->
                     MapRange(old[i], Association(old[i], old, tr), tr.changes)]
        kept  == {i \in DOMAIN old : \/ moved[i].from < moved[i].to
                                     \/ (Revision(old[i]) /\ Empty(moved[i]))}
    IN  Restrict(moved, kept)

SameLineage(a, b) == a.id = b.id /\ a.type = b.type /\ a.lineage = b.lineage

RestoreApplies(e, old) ==
    IF e.expected = {} THEN e.ann.id \notin DOMAIN old
    ELSE IF e.ann.id \notin DOMAIN old THEN e.ifMissing
    ELSE \A x \in e.expected : SameLineage(old[e.ann.id], x)

\* A survivor takes back its place and its text, and keeps the rest.
Merged(current, desired) ==
    LET placed == Spanning(current, desired.from, desired.to)
    IN  IF Revision(current) /\ desired.active \in VersionIds(current)
        THEN WithText(placed, IndexOf(current, desired.active), TextOf(desired, desired.active))
        ELSE placed

Restored(s, e, old, tr, text) ==
    LET want == IF Revision(e.ann) /\ tr.changes # <<>>
                THEN WithText(e.ann, ActiveIndex(e.ann), Slice(text, e.ann.from, e.ann.to))
                ELSE e.ann
        id   == want.id
        here == (IF id \in DOMAIN s.anns THEN {s.anns[id]}
                 ELSE IF id \in DOMAIN old THEN {old[id]} ELSE {})
        got  == IF e.expected # {} /\ here # {}
                THEN Merged(CHOOSE c \in here : TRUE, want) ELSE want
    IN  IF (~RestoreApplies(e, old)) \/ (e.expected = {} /\ here # {}) THEN s
        ELSE [anns     |-> Put(s.anns, got),
              explicit |-> s.explicit \cup (IF Revision(got) THEN {id} ELSE {}),
              placed   |-> s.placed \cup (IF Revision(got) THEN {id} ELSE {})]

\* The range rebuilt from the old start and the length of the text put there.
Rebuilt(a, old, tr, text, length) ==
    LET from == IF a.id \in DOMAIN old
                THEN MapPos(old[a.id].from, -1, tr.changes) ELSE a.from
        at   == Min({from, Len(text)})
    IN  Spanning(a, at, Min({at + length, Len(text)}))

VersionAdded(a, e) ==
    [a EXCEPT !.versions = InsertAt(a.versions, Min({e.at, Len(a.versions) + 1}), e.version),
              !.active = IF e.activate THEN e.version.id ELSE a.active]

VersionDeleted(a, v) ==
    LET left == SelectSeq(a.versions, LAMBDA x : x.id # v)
        next == IF v \in VersionIds(a) THEN Min({IndexOf(a, v), Len(left)}) ELSE 1
    IN  [a EXCEPT !.versions = left,
                  !.active = IF v = a.active /\ left # <<>> THEN left[next].id ELSE a.active]

VersionSet(a, e, old, tr, text, to) ==
    LET b == WithText(a, IndexOf(a, e.version), to)
    IN  IF a.active = e.version /\ tr.changes # <<>>
        THEN Rebuilt(b, old, tr, text, Len(to)) ELSE b

\* What undo puts back of a version that a command had set: the old text, unless
\* the command had not changed it; the active one is read off the document.
VersionMerged(a, e, old, tr, text) ==
    LET now  == TextOf(a, e.version)
        to   == IF e.from = e.to THEN now ELSE e.to
        b    == Rebuilt(a, old, tr, text, Len(to))
        span == Spanning(b, b.from, Min({Max({a.to, b.from + Len(to)}), Len(text)}))
    IN  IF a.active = e.version /\ tr.changes # <<>>
        THEN WithText(span, IndexOf(a, e.version), Slice(text, span.from, span.to))
        ELSE WithText(a, IndexOf(a, e.version), to)

\* Phase 2, one effect: s holds the annotations, the revisions an effect touched
\* and those whose range an effect rebuilt.
Applied(s, e, old, tr, text) ==
    LET known   == "id" \in DOMAIN e /\ e.id \in DOMAIN s.anns
        rev     == known /\ Revision(s.anns[e.id])
        a       == s.anns[e.id]
        has     == e.version \in VersionIds(a)
        With(b, placed) ==
            [anns |-> Put(s.anns, b), explicit |-> s.explicit \cup {b.id},
             placed |-> s.placed \cup (IF placed THEN {b.id} ELSE {})]
    IN  CASE e.k = "add" ->
                 IF Revision(e.ann) THEN With(e.ann, TRUE)
                 ELSE [s EXCEPT !.anns = Put(s.anns, e.ann)]
          [] e.k = "restore" -> Restored(s, e, old, tr, text)
          [] e.k \in {"remove", "removeById", "applied"} ->
                 [s EXCEPT !.anns = Without(s.anns, {e.id})]
          [] e.k = "thread" /\ known ->
                 [s EXCEPT !.anns = Put(s.anns, [a EXCEPT !.thread = e.thread,
                     !.status = IF e.thread > 0 THEN "active" ELSE a.status])]
          [] e.k = "addVersion" /\ rev -> With(VersionAdded(a, e), FALSE)
          [] e.k = "deleteVersion" /\ rev -> With(VersionDeleted(a, e.version), FALSE)
          [] e.k = "activate" /\ rev ->
                 With([(IF has /\ e.id \in DOMAIN old
                        THEN Rebuilt(a, old, tr, text, Len(TextOf(a, e.version))) ELSE a)
                       EXCEPT !.active = e.version], TRUE)
          [] e.k = "setVersion" /\ rev ->
                 IF has THEN With(VersionSet(a, e, old, tr, text, e.to),
                                  a.active = e.version /\ tr.changes # <<>>)
                 ELSE [s EXCEPT !.explicit = @ \cup {e.id}]
          [] e.k = "mergeVersion" /\ rev ->
                 IF has THEN With(VersionMerged(a, e, old, tr, text),
                                  a.active = e.version /\ tr.changes # <<>>)
                 ELSE [s EXCEPT !.explicit = @ \cup {e.id}]
          [] OTHER -> s

\* Phase 3: a nested edit's revision takes in what was typed at its edges, and
\* the text under a revision no effect touched becomes its active version's.
Widened(s, old, tr) ==
    LET erasing == tr.kind = "undo" /\ \A r \in Range(tr.changes) : r.ins = <<>>
        targets == IF erasing THEN {}
                   ELSE {i \in (NestedIds(tr) \ s.placed) \cap DOMAIN old \cap DOMAIN s.anns :
                            Revision(s.anns[i])}
    IN  [i \in DOMAIN s.anns |->
            IF i \in targets
            THEN Spanning(s.anns[i], MapPos(old[i].from, -1, tr.changes),
                                     MapPos(old[i].to, 1, tr.changes))
            ELSE s.anns[i]]

\* Mutant: the version takes in typing in the revision's own editor only.
PulledWhenNested(a, s, tr, text) ==
    IF Revision(a) /\ a.id \notin s.explicit /\ NestedIds(tr) # {}
    THEN WithText(a, ActiveIndex(a), Slice(text, a.from, a.to)) ELSE a

Pulled(a, s, tr, text) ==
    IF Revision(a) /\ a.id \notin s.explicit /\ ~(Empty(a) /\ NestedIds(tr) = {})
    THEN WithText(a, ActiveIndex(a), Slice(text, a.from, a.to)) ELSE a

AfterEffects(old, tr, text) ==
    FoldLeft(LAMBDA s, e : Applied(s, e, old, tr, text),
             [anns |-> Remapped(old, tr), explicit |-> {}, placed |-> {}], tr.effects)

Annotated(s, old, tr, text) ==
    LET wide == Widened(s, old, tr)
    IN  IF tr.changes = <<>> THEN s.anns
        ELSE [i \in DOMAIN s.anns |-> Pulled(wide[i], s, tr, text)]

----------------------------------------------------------------------------
(* versionGroupField.update: what a transaction makes of the groups. *)

MayJoin(g, m) == \A n \in Members(g) : n.rev = m.rev => n = m
Left(gs, m) == [g \in DOMAIN gs |-> SelectSeq(gs[g], LAMBDA n : n # m)]

\* Mutant: a member joins a group without leaving its own.
JoinedTwice(gs, e) ==
    IF e.group \notin DOMAIN gs \/ e.member \in Members(gs[e.group]) THEN gs
    ELSE IF ~MayJoin(gs[e.group], e.member) THEN gs
    ELSE [gs EXCEPT ![e.group] = InsertAt(@, Min({e.at, Len(@) + 1}), e.member)]

Joined(gs, e) ==
    IF e.group \in DOMAIN gs /\ ~MayJoin(gs[e.group], e.member) THEN gs
    ELSE LET out == Left(gs, e.member)
         IN  IF e.group \notin DOMAIN gs THEN out
             ELSE [out EXCEPT ![e.group] =
                      InsertAt(@, Min({e.at, Len(@) + 1}), e.member)]

GroupApplied(gs, e) ==
    CASE e.k = "gCreate" -> [g \in DOMAIN gs \cup {e.group} |->
                                IF g = e.group THEN <<>> ELSE gs[g]]
      [] e.k = "gDelete" -> Without(gs, {e.group})
      [] e.k = "gJoin"   -> Joined(gs, e)
      [] e.k = "gLeave" /\ e.group \in DOMAIN gs ->
             [gs EXCEPT ![e.group] = SelectSeq(@, LAMBDA n : n # e.member)]
      [] OTHER -> gs

\* Members whose revision or version this transaction's effects take away leave
\* with it, and a group of fewer than two is dissolved.
Pruned(gs, tr) ==
    LET gone(m) == \/ \E e \in Effects(tr, {"remove"}) : e.id = m.rev
                   \/ \E e \in Effects(tr, {"deleteVersion"}) :
                         e.id = m.rev /\ e.version = m.ver
    IN  [g \in DOMAIN gs |-> SelectSeq(gs[g], LAMBDA m : ~gone(m))]

Grouped(gs, tr) ==
    LET next == Pruned(FoldLeft(GroupApplied, gs, tr.effects), tr)
    IN  Restrict(next, {g \in DOMAIN next : Len(next[g]) >= 2})

----------------------------------------------------------------------------
(* The effects an undo of a transaction replays (invertedEffects). *)

Restoring(a, expected, ifMissing) ==
    [k |-> "restore", ann |-> a, expected |-> expected, ifMissing |-> ifMissing]
Now(map, id) == IF id \in DOMAIN map THEN {map[id]} ELSE {}
Sorted(ids) == SetToSortSeq(ids, <)

Managed(tr) ==
    NestedIds(tr)
      \cup {e.ann.id : e \in Effects(tr, {"add", "restore"})}
      \cup {e.id : e \in Effects(tr, {"remove", "removeById", "applied", "addVersion",
                                      "deleteVersion", "activate", "setVersion",
                                      "mergeVersion"})}

\* Mutant: a range is taken to survive whenever its annotation does.
LossyIfGone(a, old, tr, back) == FALSE

\* Mapping the range forth and back does not find it again.
Lossy(a, old, tr, back) ==
    LET side == Association(a, old, tr)
    IN  MapRange(MapRange(a, side, tr.changes), side, back) # a

TouchesTarget(a, old, tr) ==
    /\ Revision(a) /\ Empty(a)
    /\ \E t \in NestedIds(tr) \cap DOMAIN old :
          /\ Revision(old[t]) /\ ~Empty(old[t])
          /\ a.from \in {old[t].from, old[t].to}

\* A snapshot of each annotation the text change alone has altered.
Snapshots(tr, old, new, back) ==
    LET Altered(i) ==
            \/ i \notin DOMAIN new
            \/ Lossy(old[i], old, tr, back)
            \/ (Revision(old[i]) /\ ActiveText(old[i]) # ActiveText(new[i]))
            \/ TouchesTarget(old[i], old, tr)
        MayGo(i) == i \in DOMAIN new => /\ Revision(old[i]) /\ ~Empty(old[i])
                                        /\ Empty(new[i])
        ids == {i \in DOMAIN old \ Managed(tr) : Altered(i)}
    IN  IF tr.changes = <<>> THEN <<>>
        ELSE [n \in 1..Cardinality(ids) |->
                 LET i == Sorted(ids)[n] IN Restoring(old[i], Now(new, i), MayGo(i))]

Activate(id, v) == [k |-> "activate", id |-> id, version |-> v]
Deleting(id, v) == [k |-> "deleteVersion", id |-> id, version |-> v]
Removing(a) == [k |-> "remove", id |-> a.id, ann |-> a]
RemovingId(id) == [k |-> "removeById", id |-> id]
Adding(a) == [k |-> "add", ann |-> a]
Threaded(id, n) == [k |-> "thread", id |-> id, thread |-> n]
Merging(id, v, from, to) ==
    [k |-> "mergeVersion", id |-> id, version |-> v, from |-> from, to |-> to]

NestedInverse(e, tr, old, new) ==
    LET a == old[e.id]
        restoresRange == \E x \in Effects(tr, {"restore"}) : x.ann.id = e.id
        restoresText  == \E x \in Effects(tr, {"setVersion", "mergeVersion"}) :
                            x.id = e.id /\ x.version = a.active
        turned == \E b \in Now(new, e.id) : Revision(b) /\ Empty(a) # Empty(b)
    IN  <<e>>
        \o IF e.id \notin DOMAIN old \/ ~Revision(a) THEN <<>>
           ELSE (IF restoresText \/ a.active \notin VersionIds(a) THEN <<>>
                 ELSE <<[k |-> "setVersion", id |-> e.id, version |-> a.active,
                         to |-> TextOf(a, a.active)]>>)
                \o (IF restoresRange \/ ~turned THEN <<>>
                    ELSE <<Restoring(a, Now(new, e.id), FALSE)>>)

EffectInverse(e, tr, old, new) ==
    LET moves == tr.changes # <<>>
        was   == "id" \in DOMAIN e /\ e.id \in DOMAIN old
        a     == old[e.id]
        rev   == was /\ Revision(a)
        has   == e.version \in VersionIds(a)
    IN  CASE e.k = "add" ->
                 IF moves THEN <<RemovingId(e.ann.id)>> ELSE <<Removing(e.ann)>>
          [] e.k = "restore" /\ RestoreApplies(e, old) ->
                 IF e.ann.id \notin DOMAIN old THEN <<RemovingId(e.ann.id)>>
                 ELSE IF e.ann.id \in DOMAIN new
                 THEN <<Restoring(old[e.ann.id], Now(new, e.ann.id), FALSE)>> ELSE <<>>
          [] e.k \in {"removeById", "applied"} /\ was -> <<Restoring(a, {}, TRUE)>>
          [] e.k = "remove" ->
                 LET gone == IF was THEN a ELSE e.ann
                 IN  IF moves THEN <<Restoring(gone, {}, TRUE)>> ELSE <<Adding(gone)>>
          [] e.k = "thread" /\ was ->
                 \* The first message of a pending comment: undo discards the comment.
                 IF /\ a.type = "comment" /\ a.status = "pending"
                    /\ e.id \in DOMAIN new /\ new[e.id].status = "active"
                 THEN <<Removing(new[e.id])>> ELSE <<Threaded(e.id, a.thread)>>
          [] e.k = "addVersion" /\ rev ->
                 <<Deleting(e.id, e.version.id)>>
                 \o (IF e.activate THEN <<Activate(e.id, a.active)>> ELSE <<>>)
          [] e.k = "deleteVersion" /\ rev /\ has ->
                 <<[k |-> "addVersion", id |-> e.id, at |-> IndexOf(a, e.version),
                    version |-> a.versions[IndexOf(a, e.version)],
                    activate |-> a.active = e.version]>>
          [] e.k = "activate" /\ rev -> <<Activate(e.id, a.active)>>
          [] e.k = "setVersion" /\ rev /\ has ->
                 <<Merging(e.id, e.version, e.to, TextOf(a, e.version))>>
          [] e.k = "mergeVersion" /\ rev /\ has /\ e.id \in DOMAIN new ->
                 IF e.version \in VersionIds(new[e.id])
                 THEN <<Merging(e.id, e.version, TextOf(new[e.id], e.version),
                                TextOf(a, e.version))>>
                 ELSE <<>>
          [] e.k = "nested" -> NestedInverse(e, tr, old, new)
          [] OTHER -> <<>>

\* Last, the exact range of each revision a command gave another text.
ExactRestores(tr, old, new) ==
    LET ids == {e.id : e \in Effects(tr, {"addVersion", "deleteVersion", "activate"})}
                 \cap DOMAIN old \cap DOMAIN new
    IN  IF tr.changes = <<>> \/ tr.kind # "edit" THEN <<>>
        ELSE [n \in 1..Cardinality(ids) |->
                 LET i == Sorted(ids)[n] IN Restoring(old[i], {new[i]}, FALSE)]

InvertedAnnotations(tr, old, new, back) ==
    Snapshots(tr, old, new, back)
      \o FlattenSeq([n \in DOMAIN tr.effects |-> EffectInverse(tr.effects[n], tr, old, new)])
      \o ExactRestores(tr, old, new)

\* Mutant: the members a group lost are not put back.
InvertedGroupsOnce(before, after) ==
    LET gone == DOMAIN after \ DOMAIN before
    IN  [n \in 1..Cardinality(gone) |-> [k |-> "gDelete", group |-> Sorted(gone)[n]]]

InvertedGroups(before, after) ==
    LET Each(S, Op(_)) == FlattenSeq([n \in 1..Cardinality(S) |-> Op(Sorted(S)[n])])
        Leave(g) == LET new == SelectSeq(after[g], LAMBDA m : m \notin Members(before[g]))
                    IN  [n \in DOMAIN new |->
                            [k |-> "gLeave", group |-> g, member |-> new[n]]]
        Join(g, known) ==
            SelectSeq([n \in DOMAIN before[g] |->
                          [k |-> "gJoin", group |-> g, member |-> before[g][n], at |-> n]],
                      LAMBDA e : e.member \notin known)
        both == DOMAIN before \cap DOMAIN after
    IN  Each(DOMAIN after \ both, LAMBDA g : <<[k |-> "gDelete", group |-> g]>>)
        \o Each(both, Leave)
        \o Each(DOMAIN before \ both,
                LAMBDA g : <<[k |-> "gCreate", group |-> g]>> \o Join(g, {}))
        \o Each(both, LAMBDA g : Join(g, Members(after[g])))

----------------------------------------------------------------------------
(* A transaction and the history. *)

\* Revisions a text change has emptied are removed in a microtask, outside the
\* history, before anything else happens (collapsedRevisionResolver).
Replacing(tr) == Effects(tr, {"nested", "addVersion", "deleteVersion", "activate",
                              "setVersion", "mergeVersion"}) # {}
Collapsed(tr, old, new) ==
    IF tr.changes = <<>> \/ tr.internal \/ Replacing(tr) \/ tr.nested # {} THEN {}
    ELSE {i \in DOMAIN new \cap DOMAIN old :
             Revision(new[i]) /\ Empty(new[i]) /\ ~Empty(old[i])}
Cleanup(ids, map) ==
    [kind |-> "edit", changes |-> <<>>, nested |-> {}, internal |-> FALSE, used |-> 0,
     effects |-> [n \in 1..Cardinality(ids) |-> Removing(map[Sorted(ids)[n]])]]

\* Revisions that go because their text does, without an effect that removes them.
LostByText(tr, old, new) ==
    Collapsed(tr, old, new)
      \cup {i \in DOMAIN old \ DOMAIN new : Revision(old[i]) /\ i \notin Managed(tr)}

\* The history event of a transaction, if it has anything to undo. The last three
\* fields are history variables: what the event's undo should bring back, the
\* links it leaves, and whether it lost a revision by its text.
Event(tr, new, links, back, before) ==
    LET effects == InvertedAnnotations(tr, anns, new, back) \o InvertedGroups(groups, links)
    IN  IF back = <<>> /\ effects = <<>> THEN <<>>
        ELSE <<[changes |-> back, effects |-> effects, before |-> before,
                after |-> links, unlinked |-> LostByText(tr, anns, new) # {}]>>

\* One transaction: text, annotations and groups change together, the cleanup
\* follows, and the event goes where "Record" puts it.
Dispatch(tr, before, Record(_)) ==
    \E text \in {Patched(doc, tr.changes)}, links \in {Grouped(groups, tr)} :
    \E effected \in {AfterEffects(anns, tr, text)} :
    \E new \in {Annotated(effected, anns, tr, text)} :
    \E gone \in {Collapsed(tr, anns, new)},
       event \in {Event(tr, new, links, Inverted(tr.changes, doc), before)} :
        /\ doc' = text
        /\ anns' = Without(new, gone)
        /\ groups' = IF gone = {} THEN links ELSE Grouped(links, Cleanup(gone, new))
        /\ Record(event)

Command(tr) ==
    LET Record(event) == /\ done' = done \o event
                         /\ undone' = IF event = <<>> THEN undone ELSE <<>>
    IN  /\ ops < MaxOps
        /\ Len(Patched(doc, tr.changes)) <= MaxLen
        /\ Dispatch(tr, Content, Record)
        /\ ops' = ops + 1
        /\ fresh' = fresh + tr.used
        /\ UNCHANGED turns

Edits(changes, effects, used) ==
    [kind |-> "edit", changes |-> changes, effects |-> effects,
     nested |-> {}, internal |-> FALSE, used |-> used]
Internal(changes, effects, used) == [Edits(changes, effects, used) EXCEPT !.internal = TRUE]
Replay(kind, event) ==
    [Edits(event.changes, event.effects, 0) EXCEPT !.kind = kind]

Undo ==
    LET Record(event) == done' = Front(done) /\ undone' = undone \o event
    IN  /\ done # <<>> /\ turns < MaxTurns
        /\ \E tr \in {Replay("undo", Last(done))} : Dispatch(tr, Content, Record)
        /\ turns' = turns + 1
        /\ UNCHANGED <<fresh, ops>>

Redo ==
    LET Record(event) == undone' = Front(undone) /\ done' = done \o event
    IN  /\ undone # <<>> /\ turns < MaxTurns
        /\ \E tr \in {Replay("redo", Last(undone))} : Dispatch(tr, Content, Record)
        /\ turns' = turns + 1
        /\ UNCHANGED <<fresh, ops>>

----------------------------------------------------------------------------
(* The transactions the writer can have the editor dispatch now: each set is
   one transaction builder with the conditions under which it is offered. *)

Insertions == {<<>>, <<"x">>}
Replacement == <<"y">>
Ranges == {r \in [from : 0..Len(doc), to : 0..Len(doc)] : r.from < r.to}
Revisions == {i \in Ids : Revision(anns[i])}
AllMembers == UNION {{[rev |-> i, ver |-> v] : v \in VersionIds(anns[i])} : i \in Revisions}
Suggestions == {i \in Ids : anns[i].type = "suggestion"}
Overlap(a, b) == a.from < b.to /\ a.to > b.from
Apart(a, b) == a.to < b.from \/ b.to < a.from
Note(type, from, to, status) ==
    [id |-> NewId(anns), type |-> type, from |-> from, to |-> to, status |-> status,
     thread |-> 0, versions |-> <<>>, active |-> 0, lineage |-> fresh]

\* Typing, erasing or replacing in the editor, wherever the range lies.
Replacements(text) ==
    {r \in [from : 0..Len(text), to : 0..Len(text), ins : Insertions] :
        r.from <= r.to /\ Change(r.from, r.to, r.ins) # <<>>}
Typing == {Edits(<<r>>, <<>>, 0) : r \in Replacements(doc)}

\* Typing in the editor of a revision (translateAndDispatch).
NestedTyping ==
    LET Typed(a, r) ==
            [Edits(Change(a.from + r.from, a.from + r.to, r.ins),
                   <<[k |-> "nested", id |-> a.id],
                     [k |-> "setVersion", id |-> a.id, to |-> Patched(ActiveText(a), <<r>>),
                      version |-> a.versions[ActiveIndex(a)].id]>>, 0)
             EXCEPT !.nested = {a.id}]
    IN  UNION {{Typed(anns[i], r) : r \in {x \in Replacements(ActiveText(anns[i])) :
                                              anns[i].from + x.to <= Len(doc)}} : i \in Revisions}

\* One comment at a time may wait for its first message.
AddingComments ==
    IF \E i \in Ids : anns[i].status = "pending" THEN {}
    ELSE {Edits(<<>>, <<Adding(Note("comment", r.from, r.to, "pending"))>>, 1) : r \in Ranges}

PostingComments ==
    {Edits(<<>>, <<Threaded(i, 1)>>, 0) : i \in {i \in Ids : anns[i].status = "pending"}}

\* Cancelling or resolving a comment, dismissing a suggestion, unwrapping a
\* revision (collapseRevision): the text stays.
Removals == {Edits(<<>>, <<Removing(anns[i])>>, 0) : i \in Ids}

\* A revision takes in the annotations its range contains. A blank one opens on
\* a second, empty version.
AddingRevisions ==
    LET Free(r) == \A i \in Revisions : ~Overlap(r, anns[i])
        Swallowed(r) == Sorted({i \in Ids : r.from <= anns[i].from /\ anns[i].to <= r.to})
        New(r, versions, to) ==
            [n \in DOMAIN Swallowed(r) |-> Removing(anns[Swallowed(r)[n]])]
              \o <<Adding([Note("revision", r.from, to, "active")
                           EXCEPT !.versions = versions, !.active = Last(versions).id])>>
        Old(r) == [id |-> fresh, text |-> Slice(doc, r.from, r.to)]
        Blank == [id |-> fresh + 1, text |-> <<>>]
    IN  UNION {{Edits(<<>>, New(r, <<Old(r)>>, r.to), 2),
                Internal(Change(r.from, r.to, <<>>), New(r, <<Old(r), Blank>>, r.from), 2)} :
               r \in {r \in Ranges : Free(r)}}

AddingSuggestions ==
    {Edits(<<>>, <<Adding(Note("suggestion", r.from, r.to, "active"))>>, 1) :
        r \in {r \in Ranges : \A i \in Suggestions : ~Overlap(r, anns[i])}}

ApplyingSuggestions ==
    {Edits(Change(anns[i].from, anns[i].to, Replacement), <<[k |-> "applied", id |-> i]>>, 0) :
        i \in Suggestions}

\* A suggestion becomes a revision of the text as it was and as suggested.
BranchingSuggestions ==
    LET Branch(a) ==
            [Note("revision", a.from, a.from + Len(Replacement), "active")
             EXCEPT !.versions = <<[id |-> fresh, text |-> Slice(doc, a.from, a.to)],
                                   [id |-> fresh + 1, text |-> Replacement]>>,
                    !.active = fresh + 1]
    IN  {Internal(Change(anns[i].from, anns[i].to, Replacement),
                  <<Removing(anns[i]), Adding(Branch(anns[i]))>>, 2) :
            i \in {i \in Suggestions : \/ "overlap" \in Careless
                                       \/ \A j \in Revisions : ~Overlap(anns[i], anns[j])}}

\* Several replacements in one transaction, insertions at one place joined.
Before(r, s) == r.from < s.from \/ (r.from = s.from /\ r.to < s.to)
Together(changes) ==
    LET order == SetToSortSeq(DOMAIN changes,
                     LAMBDA i, j : \/ Before(changes[i], changes[j])
                                   \/ (~Before(changes[j], changes[i]) /\ i < j))
        Add(seq, i) ==
            LET r == changes[i]
            IN  IF seq # <<>> /\ r.from = r.to /\ Last(seq).from = r.from /\ Last(seq).to = r.to
                THEN Front(seq) \o <<[Last(seq) EXCEPT !.ins = @ \o r.ins]>>
                ELSE Append(seq, r)
    IN  FoldLeft(Add, <<>>, order)

\* Choosing a version puts its text in place, and with it the linked versions.
SwitchingVersions ==
    LET With(i, v) ==
            <<[rev |-> i, ver |-> v]>>
              \o SetToSortSeq({m \in Partners(groups, [rev |-> i, ver |-> v]) :
                                  /\ m.rev \in Revisions /\ anns[m.rev].active # m.ver
                                  /\ m.ver \in VersionIds(anns[m.rev])},
                              LAMBDA m, n : m.rev < n.rev)
        Shown(m) == Change(anns[m.rev].from, anns[m.rev].to, TextOf(anns[m.rev], m.ver))
        Avoided(all) == /\ "touch" \notin Careless
                        /\ \E m, n \in Range(all) :
                              m # n /\ ~Apart(anns[m.rev], anns[n.rev])
        Switch(all) ==
            Internal(Together(FlattenSeq([n \in DOMAIN all |-> Shown(all[n])])),
                     [n \in DOMAIN all |-> Activate(all[n].rev, all[n].ver)], 0)
        offered == {With(m.rev, m.ver) : m \in {m \in AllMembers : anns[m.rev].active # m.ver}}
    IN  {Switch(all) : all \in {all \in offered : ~Avoided(all)}}

\* A new, empty version in place of the text (createNewRevision).
NewVersions ==
    {Internal(Change(anns[i].from, anns[i].to, <<>>),
              <<[k |-> "addVersion", id |-> i, activate |-> TRUE,
                 at |-> Len(anns[i].versions) + 1,
                 version |-> [id |-> fresh, text |-> <<>>]]>>, 1) : i \in Revisions}

Erased(a) == Internal(Change(a.from, a.to, <<>>), <<Removing(a)>>, 0)

\* Deleting the version shown shows a neighbour; the last takes the revision along.
DeletingVersions ==
    LET Neighbour(a, v) == VersionDeleted(a, v).active
        Deleted(a, v) ==
            IF Len(a.versions) = 1 THEN Erased(a)
            ELSE IF v # a.active THEN Internal(<<>>, <<Deleting(a.id, v)>>, 0)
            ELSE Internal(Change(a.from, a.to, TextOf(a, Neighbour(a, v))),
                          <<Deleting(a.id, v), Activate(a.id, Neighbour(a, v))>>, 0)
    IN  {Deleted(anns[m.rev], m.ver) : m \in AllMembers}

\* Backspace or Delete at a revision's edge takes it whole.
DeletingAdjacent == {Erased(anns[i]) : i \in {i \in Revisions : ~Empty(anns[i])}}

\* Linking a version to one of another revision: into its group, or a new group.
Linking ==
    LET Joining(g, x) == [k |-> "gJoin", group |-> g, member |-> x, at |-> 99]
        Pair(m, n) == <<[k |-> "gCreate", group |-> fresh], Joining(fresh, m), Joining(fresh, n)>>
    IN  UNION {{Edits(<<>>, Pair(p[1], p[2]), 1)}
                 \cup {Edits(<<>>, <<Joining(g, p[2])>>, 0) : g \in GroupOf(groups, p[1])} :
               p \in {p \in AllMembers \X AllMembers : p[1].rev # p[2].rev}}

Unlinking ==
    UNION {{Edits(<<>>, <<[k |-> "gLeave", group |-> g, member |-> m]>>, 0) :
               g \in GroupOf(groups, m)} : m \in AllMembers}

----------------------------------------------------------------------------
(* The document as it was loaded. *)

Loaded(start) ==
    LET Rev(id, from, to, texts, active) ==
            [id |-> id, type |-> "revision", from |-> from, to |-> to, status |-> "active",
             thread |-> 0, active |-> 3 * id + active, lineage |-> id,
             versions |-> [n \in DOMAIN texts |-> [id |-> 3 * id + n, text |-> texts[n]]]]
        Pair(a, b) == (0 :> a) @@ (1 :> b)
        Tie(v, w) == <<[rev |-> 0, ver |-> v], [rev |-> 1, ver |-> 3 + w]>>
    IN  CASE start = "blank" -> << <<"a", "b">>, <<>>, <<>> >>
          [] start = "revised" ->
                 << <<"a", "b", "c">>, (0 :> Rev(0, 1, 2, << <<"b">>, <<"y", "z">> >>, 1)), <<>> >>
          [] start = "linked" ->
                 << <<"a", "b", "c">>,
                   Pair(Rev(0, 0, 1, << <<"a">>, <<>> >>, 1), Rev(1, 2, 3, << <<"c">>, <<"z">> >>, 1)),
                   (0 :> Tie(1, 1)) @@ (1 :> Tie(2, 2)) >>
          [] start = "adjacent" ->
                 << <<"a", "b">>,
                   Pair(Rev(0, 0, 1, << <<"a">>, <<>> >>, 1), Rev(1, 1, 2, << <<"b">>, <<"z">> >>, 1)),
                   (0 :> Tie(1, 1)) @@ (1 :> Tie(2, 2)) >>

\* A linked document has used one of its commands to be linked.
Init ==
    \E start \in Starts :
        /\ doc = Loaded(start)[1] /\ anns = Loaded(start)[2] /\ groups = Loaded(start)[3]
        /\ ops = IF groups = <<>> THEN 0 ELSE 1
        /\ done = <<>> /\ undone = <<>> /\ fresh = 10 /\ turns = 0

Transactions ==
    UNION {Typing, NestedTyping, AddingComments, PostingComments, Removals, AddingRevisions,
           AddingSuggestions, ApplyingSuggestions, BranchingSuggestions, SwitchingVersions,
           NewVersions, DeletingVersions, DeletingAdjacent, Linking, Unlinking}

Next ==
    \/ \E tr \in Transactions : Command(tr)
    \/ Undo
    \/ Redo

Spec == Init /\ [][Next]_vars

----------------------------------------------------------------------------
(* Properties. *)

\* The type invariant: annotations lie in the document, only a revision may be
\* empty, and a revision's active version is one of its versions.
RangesOK ==
    \A i \in Ids :
        LET a == anns[i]
        IN  /\ a.id = i /\ 0 <= a.from /\ a.to <= Len(doc)
            /\ IF Revision(a) THEN a.from <= a.to ELSE a.from < a.to
            /\ Revision(a) => a.active \in VersionIds(a)

\* After any sequence of edits, switches, undos and redos the document shows the
\* active version of every revision, letter by letter, in that revision's range
\* (annotationField.update keeps range, text and version in step along three
\* different paths), and no letter belongs to two revisions.
RevisionsOK ==
    /\ \A i \in Revisions : ActiveText(anns[i]) = Slice(doc, anns[i].from, anns[i].to)
    /\ \A i, j \in Revisions : i # j => ~Overlap(anns[i], anns[j])

\* Every revision and range is what the document shows (RangesOK, RevisionsOK).
AnnotationsOK == RangesOK /\ RevisionsOK

\* A group links at least two versions, of different revisions, and no version is
\* in two groups (versionGroupField.update), also after undo and redo re-create
\* groups and members one by one.
GroupsOK ==
    /\ \A g \in DOMAIN groups :
          /\ Cardinality({m.rev : m \in Members(groups[g])}) = Len(groups[g])
          /\ Len(groups[g]) >= 2
    /\ \A m \in UNION {Members(groups[g]) : g \in DOMAIN groups} :
          Cardinality(GroupOf(groups, m)) = 1

\* What a history event is to restore; a comment not yet posted is not compared,
\* since undoing its first message discards it on purpose.
Kept(content) ==
    <<content[1],
      Restrict(content[2], {i \in DOMAIN content[2] : content[2][i].status # "pending"})>>
Links(gs) == {Members(gs[g]) : g \in DOMAIN gs}
Undone == Len(done') < Len(done)
Redone == ops = ops' /\ Len(undone') < Len(undone)

\* An undo brings back the very text and annotations the undone command found,
\* and a redo those the undo found: the effects computed by invertedEffects
\* together with the inverse text change restore every range, version and status.
HistoryIsExact ==
    [][/\ Undone => Kept(Content') = Kept(Last(done).before)
       /\ Redone => Kept(Content') = Kept(Last(undone).before)]_vars

\* Every member of a group is a version of a revision that exists.
MembersExist ==
    \A g \in DOMAIN groups : \A m \in Members(groups[g]) : m \in AllMembers

Relinks(event) ==
    MembersExist /\ Links(groups) = Links(event.after) /\ ~event.unlinked
        => Links(groups') = Links(event.before[3])

\* Undo and redo also restore the links between versions, unless the command
\* erased the text of a linked revision (see UndoLinks).
LinksFollow ==
    [][(Undone => Relinks(Last(done))) /\ (Redone => Relinks(Last(undone)))]_vars

\* An undo restores the links between versions whatever the command was.
UndoLinks == [][Undone => Links(groups') = Links(Last(done).before[3])]_vars
=============================================================================
