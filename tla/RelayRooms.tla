------------------------------ MODULE RelayRooms ------------------------------
(* The relay process (packages/relay): the room of one document, from the    *)
(* first connection to the cleanup after the last one, its clients, the      *)
(* debounced log of updates, the snapshot, and shutdown and crash.           *)
(*                                                                           *)
(* A Y.Doc is a grow-only set of operations (merging two is their union):    *)
(* edits, deletions of edits, and schema migrations.  The asynchronous calls *)
(* to storage are steps of their own and may fail, with or without effect.   *)
EXTENDS Naturals, FiniteSets

CONSTANTS
  Sockets,       \* the client connections
  Owners,        \* those made with the owner's account
  MaxEdits,      \* bound on the edits clients send
  MaxFailures,   \* bound on the storage calls that fail
  CanStop,       \* whether the process receives SIGTERM
  CanCrash       \* whether the process may end at any time

ASSUME RelayAssumption ==
  /\ Owners \subseteq Sockets
  /\ MaxEdits \in Nat /\ MaxFailures \in Nat
  /\ CanStop \in BOOLEAN /\ CanCrash \in BOOLEAN

VARIABLES
  phase,      \* of the process: "up", "stopping", "stopped" or "down"
  slot,       \* of the document in rooms: "absent", "opening", "ready", "cleaning"
  stage,      \* the await an opening or a cleaning room is in
  room,       \* the operations of the room's Y.Doc
  timer,      \* room.cleanupTimer is set
  ownerLive,  \* room.isOwnerConnected
  sock,       \* the state of each connection
  queue,      \* batch.updates: accepted updates not yet sent to storage
  batch,      \* the updates of the insert in flight
  draining,   \* batch.inFlight is set
  debounce,   \* batch.timer is set
  snapshot,   \* the row of yjs_documents
  log,        \* the rows of yjs_updates
  edits,      \* how many edits clients have sent
  failures    \* how many storage calls have failed

memory  == <<slot, stage, room, timer, ownerLive, sock>>
writer  == <<queue, batch, draining, debounce>>
storage == <<snapshot, log>>
vars    == <<phase, memory, writer, storage, edits, failures>>

-----------------------------------------------------------------------------
(* Documents.  An edit inside a version that a migration created needs that  *)
(* migration: Yjs holds it back, invisible, where the migration is missing.  *)

Migrations == 1 .. MaxEdits + 1
Edits      == [kind : {"edit"}, id : 0 .. MaxEdits, needs : Migrations \cup {0}]
Clears     == [kind : {"clear"}, deletes : SUBSET (0 .. MaxEdits)]
Schemas    == [kind : {"schema"}, migration : Migrations]

\* A document written by a client of the first schema version.
Legacy == [kind |-> "edit", id |-> 0, needs |-> 0]

EditsOf(d)  == {o \in d : o.kind = "edit"}
SchemasIn(d) == {o.migration : o \in {p \in d : p.kind = "schema"}}
Deleted(d)  == UNION {o.deletes : o \in {p \in d : p.kind = "clear"}}
Integrated(d) == {e \in EditsOf(d) : e.needs \in SchemasIn(d) \cup {0}}
Visible(d)  == {e \in Integrated(d) : e.id \notin Deleted(d)}

Stored == snapshot \cup log

\* clearRoomState: delete what the document shows, under an origin of its own.
Cleared(d) ==
  IF Visible(d) = {} THEN d
  ELSE d \cup {[kind |-> "clear", deletes |-> {e.id : e \in Visible(d)}]}

\* A migration is made by a Y.Doc with a fresh client id.
FreshMigration ==
  CHOOSE n \in Migrations :
    n \notin SchemasIn(Stored) \cup {e.needs : e \in EditsOf(Stored)}

\* migrateYjsDoc: a document without the version stamp is rewritten.
Migrated(d) ==
  IF SchemasIn(d) # {} THEN d
  ELSE d \cup {[kind |-> "schema", migration |-> FreshMigration]}

-----------------------------------------------------------------------------
Members == {c \in Sockets : sock[c] \in {"joined", "kicked"}}  \* room.clients
Waiting == {c \in Sockets : sock[c] = "waiting"}   \* awaiting getOrCreateYjsRoom
Gone    == {c \in Sockets : sock[c] = "gone"}      \* closed while waiting

TypeOK ==
  /\ phase \in {"up", "stopping", "stopped", "down"}
  /\ slot \in {"absent", "opening", "ready", "cleaning"}
  /\ stage \in {"none", "load", "drain", "snapshot", "clear"}
  /\ room \subseteq Edits \cup Clears \cup Schemas
  /\ snapshot \subseteq Edits \cup Clears \cup Schemas
  /\ queue \subseteq Edits /\ batch \subseteq Edits /\ log \subseteq Edits
  /\ sock \in [Sockets -> {"idle", "waiting", "gone", "joined", "kicked"}]
  /\ timer \in BOOLEAN /\ ownerLive \in BOOLEAN
  /\ draining = (batch # {})
  /\ debounce \in BOOLEAN /\ ~(debounce /\ draining)
  /\ edits \in 0 .. MaxEdits /\ failures \in 0 .. MaxFailures

Init ==
  /\ phase = "up" /\ slot = "absent" /\ stage = "none" /\ room = {}
  /\ timer = FALSE /\ ownerLive = FALSE /\ sock = [c \in Sockets |-> "idle"]
  /\ queue = {} /\ batch = {} /\ draining = FALSE /\ debounce = FALSE
  /\ snapshot \in {{}, {Legacy}} /\ log = {}
  /\ edits = 0 /\ failures = 0

Fails == failures < MaxFailures /\ failures' = failures + 1

-----------------------------------------------------------------------------
(* Connections *)

\* The upgrade handler after authentication.  Only the owner may open a room;
\* a joiner needs a ready room whose owner is connected.
Upgrade(c) ==
  /\ phase = "up" /\ sock[c] = "idle"
  /\ c \in Owners \/ (slot = "ready" /\ ownerLive)
  /\ IF slot = "ready"
     THEN /\ sock' = [sock EXCEPT ![c] = "joined"]
          /\ ownerLive' = (ownerLive \/ c \in Owners)
          /\ timer' = FALSE
          /\ UNCHANGED <<slot, stage>>
     ELSE /\ sock' = [sock EXCEPT ![c] = "waiting"]
          /\ slot' = IF slot = "absent" THEN "opening" ELSE slot
          /\ stage' = IF slot = "absent" THEN "load" ELSE stage
          /\ UNCHANGED <<ownerLive, timer>>
  /\ UNCHANGED <<phase, room, writer, storage, edits, failures>>

\* A client closes its socket while the room is still opening or cleaning.
GiveUp(c) ==
  /\ sock[c] = "waiting"
  /\ sock' = [sock EXCEPT ![c] = "gone"]
  /\ UNCHANGED <<phase, slot, stage, room, timer, ownerLive, writer, storage,
                 edits, failures>>

\* The room becomes ready under its waiters: those still connected join it, a
\* closed one may leave the cleanup timer set if it is looked at first.
Settle ==
  LET live == IF phase = "up" THEN Waiting ELSE {}
  IN /\ slot' = "ready" /\ stage' = "none"
     /\ sock' = [c \in Sockets |->
                   IF c \in live THEN "joined"
                   ELSE IF c \in Waiting \cup Gone THEN "idle" ELSE sock[c]]
     /\ ownerLive' = (live # {})
     /\ timer' \in IF live = {} THEN {TRUE}
                   ELSE IF Gone = {} THEN {FALSE} ELSE BOOLEAN

\* An edit arrives from a client of the room.  A client the server has closed
\* stays in the room, and is heard, until its close event.
Message(c) ==
  /\ phase = "up" /\ c \in Members
  /\ edits < MaxEdits /\ edits' = edits + 1
  /\ \E needs \in {0} \cup (IF Legacy \in Visible(room) THEN SchemasIn(room) ELSE {}) :
       LET edit == [kind |-> "edit", id |-> edits + 1, needs |-> needs]
       IN /\ room' = room \cup {edit}
          /\ queue' = queue \cup {edit}
  /\ debounce' = (debounce \/ ~draining)
  /\ UNCHANGED <<phase, slot, stage, timer, ownerLive, sock, batch, draining,
                 storage, failures>>

\* Mutant: the owner's close event leaves the other clients in the room.
LeaveAlone(c) ==
  /\ c \in Members
  /\ sock' = [sock EXCEPT ![c] = "idle"]
  /\ timer' = IF Members = {c} THEN TRUE ELSE timer
  /\ IF c \in Owners
     THEN ownerLive' = FALSE /\ room' = Cleared(room)
     ELSE UNCHANGED <<ownerLive, room>>
  /\ UNCHANGED <<phase, slot, stage, writer, storage, edits, failures>>

\* The close event.  The owner's clears the room and closes everyone else.
Leave(c) ==
  /\ c \in Members
  /\ LET rest == Members \ {c}
     IN /\ sock' = [s \in Sockets |->
                      IF s = c THEN "idle"
                      ELSE IF c \in Owners /\ s \in rest THEN "kicked" ELSE sock[s]]
        /\ timer' = IF rest = {} THEN TRUE ELSE timer
  /\ IF c \in Owners
     THEN ownerLive' = FALSE /\ room' = Cleared(room)
     ELSE UNCHANGED <<ownerLive, room>>
  /\ UNCHANGED <<phase, slot, stage, writer, storage, edits, failures>>

-----------------------------------------------------------------------------
(* Opening: read snapshot and log, migrate, and store what the migration     *)
(* changed; a failed snapshot is ignored, a failed read or clear is not.     *)

OpenFailed ==
  /\ slot' = "absent" /\ stage' = "none" /\ room' = {}
  /\ sock' = [c \in Sockets |-> IF c \in Waiting \cup Gone THEN "idle" ELSE sock[c]]
  /\ UNCHANGED <<timer, ownerLive>>

OpenLoad ==
  /\ slot = "opening" /\ stage = "load"
  /\ room' = Migrated(Stored)
  /\ IF room' = Stored
     THEN Settle
     ELSE stage' = "snapshot" /\ UNCHANGED <<slot, timer, ownerLive, sock>>
  /\ UNCHANGED <<phase, writer, storage, edits, failures>>

OpenLoadFails ==
  /\ slot = "opening" /\ stage = "load" /\ Fails
  /\ OpenFailed
  /\ UNCHANGED <<phase, writer, storage, edits>>

OpenSnapshot ==
  /\ slot = "opening" /\ stage = "snapshot"
  /\ snapshot' = room /\ stage' = "clear"
  /\ UNCHANGED <<phase, slot, room, timer, ownerLive, sock, writer, log, edits,
                 failures>>

\* Mutant: the log is cleared although the snapshot was not written.
OpenSnapshotFailsUnseen ==
  /\ slot = "opening" /\ stage = "snapshot" /\ Fails
  /\ stage' = "clear"
  /\ UNCHANGED <<phase, slot, room, timer, ownerLive, sock, writer, storage, edits>>

OpenSnapshotFails ==
  /\ slot = "opening" /\ stage = "snapshot" /\ Fails
  /\ snapshot' \in {snapshot, room}
  /\ Settle
  /\ UNCHANGED <<phase, room, writer, log, edits>>

OpenClear ==
  /\ slot = "opening" /\ stage = "clear"
  /\ log' = {}
  /\ Settle
  /\ UNCHANGED <<phase, room, writer, snapshot, edits, failures>>

OpenClearFails ==
  /\ slot = "opening" /\ stage = "clear" /\ Fails
  /\ log' \in {log, {}}
  /\ OpenFailed
  /\ UNCHANGED <<phase, writer, snapshot, edits>>

-----------------------------------------------------------------------------
(* Cleanup of an empty room: drain the queue, write the snapshot, clear the  *)
(* log.  Whatever fails puts the room back and sets the timer again.         *)

CleanupFailed == Settle /\ UNCHANGED room

\* flushDocumentUpdates: join the drain in flight or start one.
Flush ==
  /\ debounce' = FALSE
  /\ IF draining \/ queue = {} THEN UNCHANGED <<queue, batch, draining>>
     ELSE batch' = queue /\ queue' = {} /\ draining' = TRUE

\* Also while the process shuts down, which clears no timer of a room.
CleanupTimer ==
  /\ timer /\ timer' = FALSE
  /\ IF slot = "ready" /\ Members = {}
     THEN /\ slot' = "cleaning"
          /\ stage' = IF draining \/ queue # {} THEN "drain" ELSE "snapshot"
          /\ Flush
     ELSE UNCHANGED <<slot, stage, writer>>
  /\ UNCHANGED <<phase, room, ownerLive, sock, storage, edits, failures>>

CleanupSnapshot ==
  /\ slot = "cleaning" /\ stage = "snapshot"
  /\ snapshot' = room /\ stage' = "clear"
  /\ UNCHANGED <<phase, slot, room, timer, ownerLive, sock, writer, log, edits,
                 failures>>

CleanupSnapshotFails ==
  /\ slot = "cleaning" /\ stage = "snapshot" /\ Fails
  /\ snapshot' \in {snapshot, room}
  /\ CleanupFailed
  /\ UNCHANGED <<phase, writer, log, edits>>

\* Mutant: connections that wait for the cleanup are not looked at.
CleanupClearAlone ==
  /\ slot = "cleaning" /\ stage = "clear"
  /\ log' = {} /\ room' = {} /\ slot' = "absent" /\ stage' = "none"
  /\ UNCHANGED <<phase, timer, ownerLive, sock, writer, snapshot, edits, failures>>

\* The room is gone; its waiters loop and open the document again.
CleanupClear ==
  /\ slot = "cleaning" /\ stage = "clear"
  /\ log' = {} /\ room' = {}
  /\ IF Waiting \cup Gone = {}
     THEN slot' = "absent" /\ stage' = "none"
     ELSE slot' = "opening" /\ stage' = "load"
  /\ UNCHANGED <<phase, timer, ownerLive, sock, writer, snapshot, edits, failures>>

CleanupClearFails ==
  /\ slot = "cleaning" /\ stage = "clear" /\ Fails
  /\ log' \in {log, {}}
  /\ CleanupFailed
  /\ UNCHANGED <<phase, writer, snapshot, edits>>

-----------------------------------------------------------------------------
(* The debounced log *)

DebounceTimer ==
  /\ debounce
  /\ Flush
  /\ UNCHANGED <<phase, memory, storage, edits, failures>>

\* An insert succeeds; the drain goes on with what arrived meanwhile.
BatchStored ==
  /\ draining
  /\ log' = log \cup batch
  /\ batch' = queue /\ queue' = {} /\ draining' = (queue # {})
  /\ IF queue = {} /\ slot = "cleaning" /\ stage = "drain"
     THEN stage' = "snapshot" ELSE UNCHANGED stage
  /\ UNCHANGED <<phase, slot, room, timer, ownerLive, sock, debounce, snapshot,
                 edits, failures>>

-----------------------------------------------------------------------------
(* The process *)

\* Everything in memory is gone.
Exit(how) ==
  /\ phase' = how
  /\ slot' = "absent" /\ stage' = "none" /\ room' = {}
  /\ timer' = FALSE /\ ownerLive' = FALSE
  /\ sock' = [c \in Sockets |-> "idle"]
  /\ queue' = {} /\ batch' = {} /\ draining' = FALSE /\ debounce' = FALSE

\* Mutant: the failed batch is dropped.
BatchFailsForgotten ==
  /\ draining /\ Fails /\ phase # "stopping"
  /\ batch' = {} /\ draining' = FALSE
  /\ IF slot = "cleaning" /\ stage = "drain" THEN CleanupFailed ELSE UNCHANGED memory
  /\ UNCHANGED <<phase, queue, debounce, storage, edits>>

\* An insert fails, perhaps after it took effect: the batch goes back in front
\* of what is queued, and who waits for the flush (a cleanup, the shutdown)
\* fails with it.
BatchFails ==
  /\ draining /\ Fails
  /\ log' \in {log, log \cup batch}
  /\ IF phase = "stopping" THEN Exit("down")
     ELSE /\ queue' = batch \cup queue /\ batch' = {} /\ draining' = FALSE
          /\ IF slot = "cleaning" /\ stage = "drain" THEN CleanupFailed
             ELSE UNCHANGED memory
          /\ UNCHANGED <<phase, debounce>>
  /\ UNCHANGED <<snapshot, edits>>

\* SIGTERM: no new connections, no more messages, every client closed, and the
\* queue flushed.
Stop ==
  /\ CanStop /\ phase = "up" /\ phase' = "stopping"
  /\ sock' = [c \in Sockets |-> IF c \in Members THEN "kicked" ELSE sock[c]]
  /\ Flush
  /\ UNCHANGED <<slot, stage, room, timer, ownerLive, storage, edits, failures>>

\* close() resolves once the flush, the initialisations and the sockets are done.
Stopped ==
  /\ phase = "stopping" /\ ~draining /\ queue = {}
  /\ Waiting \cup Gone \cup Members = {}
  /\ Exit("stopped")
  /\ UNCHANGED <<storage, edits, failures>>

\* The process dies, or its shutdown takes longer than ten seconds.
Crash ==
  /\ (CanCrash /\ phase = "up") \/ phase = "stopping"
  /\ Exit("down")
  /\ UNCHANGED <<storage, edits, failures>>

Start ==
  /\ phase \in {"stopped", "down"} /\ phase' = "up"
  /\ UNCHANGED <<memory, writer, storage, edits, failures>>

-----------------------------------------------------------------------------
Opening  == OpenLoad \/ OpenSnapshot \/ OpenClear
Cleaning == CleanupTimer \/ CleanupSnapshot \/ CleanupClear
Faults   == \/ OpenLoadFails \/ OpenSnapshotFails \/ OpenClearFails
            \/ CleanupSnapshotFails \/ CleanupClearFails \/ BatchFails

Next ==
  \/ \E c \in Sockets : Upgrade(c) \/ GiveUp(c) \/ Message(c) \/ Leave(c)
  \/ Opening \/ Cleaning \/ DebounceTimer \/ BatchStored \/ Faults
  \/ Stop \/ Stopped \/ Crash \/ Start

\* Timers fire, storage calls end, and a socket that was closed gets its close
\* event; nothing makes a client connect, type or leave of its own accord.
Fairness ==
  /\ WF_vars(Opening) /\ WF_vars(Cleaning)
  /\ WF_vars(DebounceTimer) /\ WF_vars(BatchStored)
  /\ \A c \in Sockets : WF_vars(sock[c] = "kicked" /\ Leave(c))

Spec == Init /\ [][Next]_vars
FairSpec == Spec /\ Fairness
-----------------------------------------------------------------------------
(* Properties *)

\* Every edit the relay accepted and has in memory is in storage, in the insert
\* in flight or in the queue: failed inserts, joined flushes and cleanups that
\* start over lose none (debouncedUpdates.ts, scheduleRoomCleanup).
AcceptedIsHeld ==
  slot \in {"ready", "cleaning"} => EditsOf(room) \subseteq Stored \cup batch \cup queue

\* No room is opened, cleaned or dropped under a client that is in it, whatever
\* the order of timers, closes and connections (getOrCreateYjsRoom).
ClientsKeepTheirRoom == Members # {} => slot = "ready"

\* A room nobody is in has a cleanup timer: it cannot stay in memory for good.
EmptyRoomHasTimer == slot = "ready" /\ Members = {} => timer

\* A joiner the server has not closed shares the room with a connected owner,
\* although an owner may reconnect before the old connection closes.
JoinersHaveOwner ==
  \A c \in Sockets \ Owners :
    sock[c] = "joined" => ownerLive /\ \E o \in Owners : sock[o] = "joined"

\* A room serves its members as long as it has any, and no longer (ClientsKeepTheirRoom,
\* EmptyRoomHasTimer, JoinersHaveOwner).
RoomsServe == TypeOK /\ ClientsKeepTheirRoom /\ EmptyRoomHasTimer /\ JoinersHaveOwner

\* An accepted edit is never dropped, neither by a failure (AcceptedIsHeld, which
\* holds at first) nor by a shutdown: one that ends without an error has stored
\* every accepted edit.
AcceptedIsKept ==
  [][/\ AcceptedIsHeld'
     /\ phase = "stopping" /\ phase' = "stopped" => EditsOf(room) \subseteq Stored]_vars

\* The relay implements the promise of DurableRoom: while the process runs, nothing
\* leaves the document, however rooms are cleaned, opened and migrated and calls to
\* storage fail; only its end loses something, what storage does not hold.
SharedDoc == IF slot \in {"ready", "cleaning"} THEN room ELSE Stored
Running == phase \in {"up", "stopping"}
Promise == INSTANCE DurableRoom
             WITH shared <- SharedDoc, durable <- Stored, running <- Running
KeepsPromise == Promise!Spec

\* A connection that waits for a room is answered, also when the room it waits
\* for is being cleaned up and the cleanup fails.
WaitersSettle == \A c \in Sockets : sock[c] = "waiting" ~> sock[c] # "waiting"

\* A room everyone has left is released in the end, or someone comes back.
EmptyRoomIsReleased ==
  slot = "ready" /\ Members = {}
    ~> slot \in {"absent", "opening"} \/ Members # {} \/ phase # "up"

\* No connection waits, and no empty room stays, for good (WaitersSettle,
\* EmptyRoomIsReleased).
RoomsSettle == WaitersSettle /\ EmptyRoomIsReleased

\* The comment at the owner's disconnect: clearing the room prevents stale
\* content from the previous session.  Nothing shows up while no owner is there.
NoStaleContent ==
  [][slot = "ready" /\ slot' = "ready" /\ ~ownerLive
       => Visible(room') \subseteq Visible(room)]_vars

\* The comment at persistYjsUpdates: every update is a recovery record of its
\* own.  What is stored is shown when the document is opened again.
StoredEditsReload ==
  slot = "absent" => EditsOf(Stored) \subseteq Integrated(Migrated(Stored))
=============================================================================
