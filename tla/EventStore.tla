------------------------------ MODULE EventStore ------------------------------
(***************************************************************************)
(* The two SQLite tables an editor's text lives in, with the Rust          *)
(* commands that touch them: the append-only `events` log and the          *)
(* `snapshots` table (src-tauri/src/db/events.rs), and the query that      *)
(* reopens a draft from them (load.rs) together with its replay            *)
(* (lib/editor/replay.ts).                                                 *)
(*                                                                         *)
(* Every command holds the one connection's mutex, so each is one step.    *)
(*                                                                         *)
(* Text is abstracted to the set of edits it is made of.  Edits are        *)
(* numbered in the order the editor accepted them.  An event records its   *)
(* edit and the text the edit was made against, because a ChangeSet only   *)
(* applies to the document it was built from.                              *)
(***************************************************************************)
EXTENDS Naturals, Sequences

CONSTANT Drafts

VARIABLES
    events,     \* the event log; an event's AUTOINCREMENT id is its index
    snapshots   \* stored snapshots

EventType == [draft : Drafts, edit : Nat, start : SUBSET Nat]

SnapshotType == [draft : Drafts, upTo : Nat, content : SUBSET Nat]

\* Ids are global: the drafts of a database share one sequence.
IdsOf(d) == {i \in 1..Len(events) : events[i].draft = d}

\* The text the log of d holds up to event n, and in full.
LogUpTo(d, n) == {events[i].edit : i \in {j \in IdsOf(d) : j <= n}}

Log(d) == {events[i].edit : i \in IdsOf(d)}

Logged == {events[i].edit : i \in 1..Len(events)}

SnapshotOf(d, n, content) == [draft |-> d, upTo |-> n, content |-> content]

\* append_event: one INSERT, its id the next AUTOINCREMENT value.
InsertEvent(d, e, start) ==
    events' = Append(events, [draft |-> d, edit |-> e, start |-> start])

\* create_snapshot and create_named_snapshot: one INSERT.  Nothing makes
\* (draft, up_to_event_id) unique; two equal rows are one element here.
InsertSnapshots(S) == snapshots' = snapshots \union S

-------------------------------------------------------------------------------
(* Reopening a draft. *)

SnapshotsOf(d) == {s \in snapshots : s.draft = d}

\* ORDER BY up_to_event_id DESC LIMIT 1: with ties SQLite may return any of
\* them.  A draft with no snapshot starts blank; the code's -1 is 0 here, both
\* lie before the first event id.
LatestSnapshots(d) ==
    IF SnapshotsOf(d) = {}
    THEN {SnapshotOf(d, 0, {})}
    ELSE {s \in SnapshotsOf(d) : \A t \in SnapshotsOf(d) : t.upTo <= s.upTo}

EventsSince(s) == {i \in IdsOf(s.draft) : i > s.upTo}

EditsOf(ids) == {events[i].edit : i \in ids}

\* The tail applies exactly: every event meets the text it was made against.
TailFits(s) ==
    \A i \in EventsSince(s) :
        events[i].start =
            s.content \union EditsOf({j \in EventsSince(s) : j < i})

\* replayEvents catches each failing event and goes on with the next one, so
\* a tail that does not fit may lose any of its events.
Replays(s) == IF TailFits(s) THEN {EventsSince(s)} ELSE SUBSET EventsSince(s)

\* eventsSince.at(-1)?.id ?? snapshotEventId
LatestEventId(s) ==
    IF EventsSince(s) = {}
    THEN s.upTo
    ELSE CHOOSE i \in EventsSince(s) : \A j \in EventsSince(s) : j <= i
===============================================================================
