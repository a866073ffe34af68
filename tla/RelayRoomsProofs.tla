--------------------------- MODULE RelayRoomsProofs ---------------------------
(***************************************************************************)
(* Theorems about RelayRooms, for every set of connections and all bounds. *)
(***************************************************************************)
EXTENDS RelayRooms, FiniteSetTheorems, TLAPS

-------------------------------------------------------------------------------
(* The inductive invariant. *)

\* What a room may look like in each state of its slot: only a ready room has
\* members, a timer or an owner, and an empty ready room has its timer.  Those
\* who wait for a room are owners, because only they may open one.
SlotsOK ==
  /\ slot # "ready" => Members = {} /\ ~timer /\ ~ownerLive
  /\ slot \notin {"opening", "cleaning"} => stage = "none" /\ Waiting \cup Gone = {}
  /\ slot = "opening" => stage \in {"load", "snapshot", "clear"}
  /\ slot = "cleaning" => stage \in {"drain", "snapshot", "clear"}
  /\ slot = "ready" /\ Members = {} => timer
  /\ Waiting \cup Gone \subseteq Owners
  /\ phase \in {"stopped", "down"} => slot = "absent"

\* The flag of the owner is backed by a connection, and while the process runs by
\* one the server did not close; a joiner that was not closed has the flag.
OwnersOK ==
  /\ ownerLive => Members \cap Owners # {}
  /\ phase = "up" /\ ownerLive => \E o \in Owners : sock[o] = "joined"
  /\ \A c \in Sockets \ Owners : sock[c] = "joined" => ownerLive /\ phase = "up"

\* No update is queued, in flight or waiting for a timer.
Quiet == queue = {} /\ batch = {} /\ ~debounce

\* A room is only opened, and only snapshot for its cleanup, once everything
\* accepted before is stored.
WriterOK ==
  /\ slot \in {"absent", "opening"} => Quiet
  /\ slot = "cleaning" /\ stage # "drain" => Quiet
  /\ slot = "cleaning" => ~debounce
  /\ slot = "cleaning" /\ stage = "drain" => batch # {}

\* Memory holds whatever is stored or on its way there, and the log is only
\* cleared under a snapshot of all of it.
ContentOK ==
  /\ slot \in {"ready", "cleaning"} => Stored \cup batch \cup queue \subseteq room
  /\ slot = "opening" /\ stage # "load" => Stored \subseteq room
  /\ stage = "clear" => snapshot = room
  /\ slot = "absent" \/ stage = "load" => room = {}
  /\ slot = "opening" => EditsOf(room) \subseteq Stored

\* Edits are told apart by their ids, which count them; the legacy document has
\* no migration in it.
Known(d) ==
  \A e \in EditsOf(d) :
    /\ e.id <= edits /\ (e.id = 0 => e.needs = 0)
    /\ \A f \in EditsOf(d) : e.id = f.id => e = f

KnownOK == Known(room \cup Stored)

RoomInv ==
  /\ TypeOK /\ SlotsOK /\ OwnersOK /\ WriterOK /\ ContentOK
  /\ AcceptedIsHeld /\ KnownOK

-------------------------------------------------------------------------------
(* Steps.  One step per action of Next. *)

\* Every step leaves the room, its members and its timer in agreement.
LEMMA StepSlotsOK == RoomInv /\ [Next]_vars => SlotsOK'
  <1> SUFFICES ASSUME RoomInv, [Next]_vars PROVE SlotsOK'
    OBVIOUS
  <1> USE DEF RoomInv, TypeOK, memory, writer, storage, SlotsOK, Members, Waiting, Gone
  <1>1. ASSUME NEW c \in Sockets, Upgrade(c) PROVE SlotsOK'
    BY <1>1 DEF Upgrade
  <1>2. ASSUME NEW c \in Sockets, GiveUp(c) PROVE SlotsOK'
    BY <1>2 DEF GiveUp
  <1>3. ASSUME NEW c \in Sockets, Message(c) PROVE SlotsOK'
    BY <1>3 DEF Message
  <1>4. ASSUME NEW c \in Sockets, Leave(c) PROVE SlotsOK'
    BY <1>4 DEF Leave
  <1>5. CASE OpenLoad
    BY <1>5 DEF OpenLoad, Settle, Migrated
  <1>6. CASE OpenSnapshot
    BY <1>6 DEF OpenSnapshot
  <1>7. CASE OpenClear
    BY <1>7 DEF OpenClear, Settle
  <1>8. CASE CleanupTimer
    <2>1. CASE slot = "ready" /\ Members = {}
      <3>1. ~ownerLive
        BY <1>8, <2>1, RelayAssumption DEF CleanupTimer, OwnersOK
      <3>2. Members' = {} /\ (Waiting \cup Gone)' = {}
        BY <1>8, <2>1 DEF CleanupTimer
      <3> HIDE DEF Members, Waiting, Gone
      <3> QED
        BY <1>8, <2>1, <3>1, <3>2 DEF CleanupTimer
    <2>2. CASE ~(slot = "ready" /\ Members = {})
      BY <1>8, <2>2 DEF CleanupTimer
    <2> QED
      BY <2>1, <2>2
  <1>9. CASE CleanupSnapshot
    BY <1>9 DEF CleanupSnapshot
  <1>10. CASE CleanupClear
    BY <1>10 DEF CleanupClear
  <1>11. CASE DebounceTimer
    BY <1>11 DEF DebounceTimer, Flush
  <1>12. CASE BatchStored
    BY <1>12 DEF BatchStored
  <1>13. CASE OpenLoadFails
    BY <1>13 DEF OpenLoadFails, OpenFailed, Fails
  <1>14. CASE OpenSnapshotFails
    BY <1>14 DEF OpenSnapshotFails, Settle, Fails
  <1>15. CASE OpenClearFails
    BY <1>15 DEF OpenClearFails, OpenFailed, Fails
  <1>16. CASE CleanupSnapshotFails
    BY <1>16 DEF CleanupSnapshotFails, CleanupFailed, Settle, Fails
  <1>17. CASE CleanupClearFails
    BY <1>17 DEF CleanupClearFails, CleanupFailed, Settle, Fails
  <1>18. CASE BatchFails
    BY <1>18 DEF BatchFails, CleanupFailed, Settle, Fails, Exit
  <1>19. CASE Stop
    BY <1>19 DEF Stop, Flush
  <1>20. CASE Stopped
    BY <1>20 DEF Stopped, Exit
  <1>21. CASE Crash
    BY <1>21 DEF Crash, Exit
  <1>22. CASE Start
    BY <1>22 DEF Start
  <1>23. CASE UNCHANGED vars
    BY <1>23 DEF vars
  <1> QED
    BY <1>1, <1>2, <1>3, <1>4, <1>5, <1>6, <1>7, <1>8, <1>9, <1>10, <1>11, <1>12,
       <1>13, <1>14, <1>15, <1>16, <1>17, <1>18, <1>19, <1>20, <1>21, <1>22, <1>23
    DEF Next, Opening, Cleaning, Faults

\* Every step leaves joiners with an owner: the owner's close event closes them.
LEMMA StepOwnersOK == RoomInv /\ [Next]_vars => OwnersOK'
  <1> SUFFICES ASSUME RoomInv, [Next]_vars PROVE OwnersOK'
    OBVIOUS
  <1> USE DEF RoomInv, TypeOK, memory, writer, storage, OwnersOK, SlotsOK, Members, Waiting, Gone
  <1>1. ASSUME NEW c \in Sockets, Upgrade(c) PROVE OwnersOK'
    <2>1. CASE slot = "ready"
      <3>1. /\ sock' = [sock EXCEPT ![c] = "joined"]
            /\ ownerLive' = (ownerLive \/ c \in Owners) /\ phase = "up" /\ phase' = "up"
            /\ c \in Owners \/ ownerLive
        BY <1>1, <2>1 DEF Upgrade
      <3>2. sock'[c] = "joined" /\ \A s \in Sockets \ {c} : sock'[s] = sock[s]
        BY <3>1
      <3>3. ownerLive
            => \E o \in Owners : sock'[o] = "joined"
        BY <3>1, <3>2, RelayAssumption
      <3>4. ownerLive' => Members' \cap Owners # {}
        BY <3>1, <3>2, <3>3, RelayAssumption
      <3> QED
        BY <3>1, <3>2, <3>3, <3>4
    <2>2. CASE slot # "ready"
      <3>1. /\ sock' = [sock EXCEPT ![c] = "waiting"] /\ ~ownerLive'
            /\ ~ownerLive
        BY <1>1, <2>2 DEF Upgrade
      <3> QED
        BY <3>1
    <2> QED
      BY <2>1, <2>2
  <1>2. ASSUME NEW c \in Sockets, GiveUp(c) PROVE OwnersOK'
    BY <1>2 DEF GiveUp
  <1>3. ASSUME NEW c \in Sockets, Message(c) PROVE OwnersOK'
    BY <1>3 DEF Message
  <1>4. ASSUME NEW c \in Sockets, Leave(c) PROVE OwnersOK'
    <2> DEFINE rest == Members \ {c}
    <2>1. /\ c \in Members /\ phase' = phase
          /\ sock' = [s \in Sockets |->
                        IF s = c THEN "idle"
                        ELSE IF c \in Owners /\ s \in rest THEN "kicked" ELSE sock[s]]
      BY <1>4 DEF Leave
    <2>2. CASE c \in Owners
      <3>1. ~ownerLive'
        BY <1>4, <2>2 DEF Leave
      <3>2. \A s \in Sockets : sock'[s] # "joined"
        BY <2>1, <2>2
      <3> QED
        BY <3>1, <3>2
    <2>3. CASE c \notin Owners
      <3>1. ownerLive' = ownerLive
        BY <1>4, <2>3 DEF Leave
      <3>2. \A s \in Sockets \ {c} : sock'[s] = sock[s]
        BY <2>1, <2>3
      <3>3. sock'[c] = "idle"
        BY <2>1
      <3>4. ownerLive' => Members' \cap Owners # {}
        BY <2>3, <3>1, <3>2, RelayAssumption
      <3> QED
        BY <2>1, <2>3, <3>1, <3>2, <3>3, <3>4, RelayAssumption
    <2> QED
      BY <2>2, <2>3
  <1>5. CASE OpenLoad
    BY <1>5 DEF OpenLoad, Settle, Migrated
  <1>6. CASE OpenSnapshot
    BY <1>6 DEF OpenSnapshot
  <1>7. CASE OpenClear
    BY <1>7 DEF OpenClear, Settle
  <1>8. CASE CleanupTimer
    BY <1>8 DEF CleanupTimer, Flush
  <1>9. CASE CleanupSnapshot
    BY <1>9 DEF CleanupSnapshot
  <1>10. CASE CleanupClear
    BY <1>10 DEF CleanupClear
  <1>11. CASE DebounceTimer
    BY <1>11 DEF DebounceTimer, Flush
  <1>12. CASE BatchStored
    BY <1>12 DEF BatchStored
  <1>13. CASE OpenLoadFails
    BY <1>13 DEF OpenLoadFails, OpenFailed, Fails
  <1>14. CASE OpenSnapshotFails
    BY <1>14 DEF OpenSnapshotFails, Settle, Fails
  <1>15. CASE OpenClearFails
    BY <1>15 DEF OpenClearFails, OpenFailed, Fails
  <1>16. CASE CleanupSnapshotFails
    BY <1>16 DEF CleanupSnapshotFails, CleanupFailed, Settle, Fails
  <1>17. CASE CleanupClearFails
    BY <1>17 DEF CleanupClearFails, CleanupFailed, Settle, Fails
  <1>18. CASE BatchFails
    BY <1>18 DEF BatchFails, CleanupFailed, Settle, Fails, Exit
  <1>19. CASE Stop
    BY <1>19 DEF Stop, Flush
  <1>20. CASE Stopped
    BY <1>20 DEF Stopped, Exit
  <1>21. CASE Crash
    BY <1>21 DEF Crash, Exit
  <1>22. CASE Start
    BY <1>22 DEF Start
  <1>23. CASE UNCHANGED vars
    BY <1>23 DEF vars
  <1> QED
    BY <1>1, <1>2, <1>3, <1>4, <1>5, <1>6, <1>7, <1>8, <1>9, <1>10, <1>11, <1>12,
       <1>13, <1>14, <1>15, <1>16, <1>17, <1>18, <1>19, <1>20, <1>21, <1>22, <1>23
    DEF Next, Opening, Cleaning, Faults

\* Every step keeps updates away from a room that opens or is being released.
LEMMA StepWriterOK == RoomInv /\ [Next]_vars => WriterOK'
  <1> SUFFICES ASSUME RoomInv, [Next]_vars PROVE WriterOK'
    OBVIOUS
  <1> USE DEF RoomInv, TypeOK, memory, writer, storage, WriterOK, SlotsOK, Quiet, Members
  <1>1. ASSUME NEW c \in Sockets, Upgrade(c) PROVE WriterOK'
    BY <1>1 DEF Upgrade
  <1>2. ASSUME NEW c \in Sockets, GiveUp(c) PROVE WriterOK'
    BY <1>2 DEF GiveUp
  <1>3. ASSUME NEW c \in Sockets, Message(c) PROVE WriterOK'
    BY <1>3 DEF Message
  <1>4. ASSUME NEW c \in Sockets, Leave(c) PROVE WriterOK'
    BY <1>4 DEF Leave
  <1>5. CASE OpenLoad
    BY <1>5 DEF OpenLoad, Settle, Migrated
  <1>6. CASE OpenSnapshot
    BY <1>6 DEF OpenSnapshot
  <1>7. CASE OpenClear
    BY <1>7 DEF OpenClear, Settle
  <1>8. CASE CleanupTimer
    BY <1>8 DEF CleanupTimer, Flush
  <1>9. CASE CleanupSnapshot
    BY <1>9 DEF CleanupSnapshot
  <1>10. CASE CleanupClear
    BY <1>10 DEF CleanupClear
  <1>11. CASE DebounceTimer
    BY <1>11 DEF DebounceTimer, Flush
  <1>12. CASE BatchStored
    BY <1>12 DEF BatchStored
  <1>13. CASE OpenLoadFails
    BY <1>13 DEF OpenLoadFails, OpenFailed, Fails
  <1>14. CASE OpenSnapshotFails
    BY <1>14 DEF OpenSnapshotFails, Settle, Fails
  <1>15. CASE OpenClearFails
    BY <1>15 DEF OpenClearFails, OpenFailed, Fails
  <1>16. CASE CleanupSnapshotFails
    BY <1>16 DEF CleanupSnapshotFails, CleanupFailed, Settle, Fails
  <1>17. CASE CleanupClearFails
    BY <1>17 DEF CleanupClearFails, CleanupFailed, Settle, Fails
  <1>18. CASE BatchFails
    BY <1>18 DEF BatchFails, CleanupFailed, Settle, Fails, Exit
  <1>19. CASE Stop
    BY <1>19 DEF Stop, Flush
  <1>20. CASE Stopped
    BY <1>20 DEF Stopped, Exit
  <1>21. CASE Crash
    BY <1>21 DEF Crash, Exit
  <1>22. CASE Start
    BY <1>22 DEF Start
  <1>23. CASE UNCHANGED vars
    BY <1>23 DEF vars
  <1> QED
    BY <1>1, <1>2, <1>3, <1>4, <1>5, <1>6, <1>7, <1>8, <1>9, <1>10, <1>11, <1>12,
       <1>13, <1>14, <1>15, <1>16, <1>17, <1>18, <1>19, <1>20, <1>21, <1>22, <1>23
    DEF Next, Opening, Cleaning, Faults

\* Every step leaves memory holding what storage holds.
LEMMA StepContentOK == RoomInv /\ [Next]_vars => ContentOK'
  <1> SUFFICES ASSUME RoomInv, [Next]_vars PROVE ContentOK'
    OBVIOUS
  <1> USE DEF RoomInv, TypeOK, memory, writer, storage, ContentOK, WriterOK, SlotsOK,
              Quiet, Stored, Members, EditsOf
  <1>1. ASSUME NEW c \in Sockets, Upgrade(c) PROVE ContentOK'
    BY <1>1 DEF Upgrade
  <1>2. ASSUME NEW c \in Sockets, GiveUp(c) PROVE ContentOK'
    BY <1>2 DEF GiveUp
  <1>3. ASSUME NEW c \in Sockets, Message(c) PROVE ContentOK'
    BY <1>3 DEF Message
  <1>4. ASSUME NEW c \in Sockets, Leave(c) PROVE ContentOK'
    <2>1. slot = "ready" /\ slot' = "ready" /\ stage' = stage /\ stage = "none"
      BY <1>4 DEF Leave
    <2>2. room \subseteq room'
      BY <1>4 DEF Leave, Cleared
    <2>3. UNCHANGED <<writer, storage>>
      BY <1>4 DEF Leave
    <2> QED
      BY <2>1, <2>2, <2>3
  <1>5. CASE OpenLoad
    <2>1. /\ room' = Migrated(Stored) /\ UNCHANGED <<writer, storage>> /\ Quiet
          /\ \/ slot' = "ready" /\ stage' = "none"
             \/ slot' = slot /\ slot = "opening" /\ stage' = "snapshot"
      BY <1>5 DEF OpenLoad, Settle
    <2>2. Stored \subseteq room' /\ EditsOf(room') \subseteq Stored
      BY <2>1 DEF Migrated
    <2> QED
      BY <2>1, <2>2
  <1>6. CASE OpenSnapshot
    BY <1>6 DEF OpenSnapshot
  <1>7. CASE OpenClear
    BY <1>7 DEF OpenClear, Settle
  <1>8. CASE CleanupTimer
    BY <1>8 DEF CleanupTimer, Flush
  <1>9. CASE CleanupSnapshot
    BY <1>9 DEF CleanupSnapshot
  <1>10. CASE CleanupClear
    BY <1>10 DEF CleanupClear
  <1>11. CASE DebounceTimer
    BY <1>11 DEF DebounceTimer, Flush
  <1>12. CASE BatchStored
    BY <1>12 DEF BatchStored
  <1>13. CASE OpenLoadFails
    BY <1>13 DEF OpenLoadFails, OpenFailed, Fails
  <1>14. CASE OpenSnapshotFails
    BY <1>14 DEF OpenSnapshotFails, Settle, Fails
  <1>15. CASE OpenClearFails
    BY <1>15 DEF OpenClearFails, OpenFailed, Fails
  <1>16. CASE CleanupSnapshotFails
    BY <1>16 DEF CleanupSnapshotFails, CleanupFailed, Settle, Fails
  <1>17. CASE CleanupClearFails
    BY <1>17 DEF CleanupClearFails, CleanupFailed, Settle, Fails
  <1>18. CASE BatchFails
    BY <1>18 DEF BatchFails, CleanupFailed, Settle, Fails, Exit
  <1>19. CASE Stop
    BY <1>19 DEF Stop, Flush
  <1>20. CASE Stopped
    BY <1>20 DEF Stopped, Exit
  <1>21. CASE Crash
    BY <1>21 DEF Crash, Exit
  <1>22. CASE Start
    BY <1>22 DEF Start
  <1>23. CASE UNCHANGED vars
    BY <1>23 DEF vars
  <1> QED
    BY <1>1, <1>2, <1>3, <1>4, <1>5, <1>6, <1>7, <1>8, <1>9, <1>10, <1>11, <1>12,
       <1>13, <1>14, <1>15, <1>16, <1>17, <1>18, <1>19, <1>20, <1>21, <1>22, <1>23
    DEF Next, Opening, Cleaning, Faults

-------------------------------------------------------------------------------
(* Documents. *)

\* Clearing and migrating a document add no edit and remove none.
LEMMA ClearedKeepsEdits ==
  ASSUME NEW d PROVE d \subseteq Cleared(d) /\ EditsOf(Cleared(d)) = EditsOf(d)
  BY DEF Cleared, EditsOf

\* A migration adds to a document and leaves its edits alone.
LEMMA MigratedKeepsEdits ==
  ASSUME NEW d PROVE d \subseteq Migrated(d) /\ EditsOf(Migrated(d)) = EditsOf(d)
  BY DEF Migrated, EditsOf

\* A document of edits, clearings and migrations is typed.
Typed(d) == d \subseteq Edits \cup Clears \cup Schemas

\* The edits of a typed document are typed.
LEMMA EditsAreTyped ==
  ASSUME NEW d, Typed(d), NEW e \in EditsOf(d)
  PROVE  e \in Edits
  BY DEF Typed, Edits, Clears, Schemas, EditsOf

\* What a migration needs is a client id that no stored edit depends on: there
\* are more ids than edits that can depend on one.
LEMMA FreshMigrationExists ==
  ASSUME Typed(Stored), Known(Stored), edits \in 0 .. MaxEdits,
         SchemasIn(Stored) = {}
  PROVE  FreshMigration \in Migrations
  <1> DEFINE E == EditsOf(Stored)
             ids == {i \in 1 .. MaxEdits : \E e \in E : e.id = i}
             f == [i \in ids |-> (CHOOSE e \in E : e.id = i).needs]
             T == {f[i] : i \in ids}
  <1>1. MaxEdits \in Nat
    BY RelayAssumption
  <1>2. IsFiniteSet(ids) /\ Cardinality(ids) <= MaxEdits
    <2>1. IsFiniteSet(1 .. MaxEdits) /\ Cardinality(1 .. MaxEdits) = MaxEdits
      BY <1>1, FS_Interval
    <2>2. ids \in SUBSET (1 .. MaxEdits)
      OBVIOUS
    <2> QED
      BY <2>1, <2>2, FS_Subset
  <1>3. IsFiniteSet(T) /\ Cardinality(T) <= Cardinality(ids)
    <2>1. f \in Surjection(ids, T)
      BY DEF Surjection
    <2> HIDE DEF f, T, ids
    <2> QED
      BY <1>2, <2>1, FS_Surjection
  <1>4. IsFiniteSet(Migrations) /\ Cardinality(Migrations) = MaxEdits + 1
    BY <1>1, FS_Interval DEF Migrations
  <1>5. \A e \in E : e.needs = 0 \/ e.needs \in T
    <2> SUFFICES ASSUME NEW e \in E, e.needs # 0 PROVE e.needs \in T
      OBVIOUS
    <2>1. e \in Edits
      BY EditsAreTyped
    <2>2. e.id \in 1 .. MaxEdits
      BY <2>1, <1>1 DEF Known, Edits
    <2>3. e.id \in ids
      BY <2>2
    <2>4. (CHOOSE g \in E : g.id = e.id) = e
      BY DEF Known
    <2>5. f[e.id] = e.needs
      BY <2>3, <2>4
    <2> QED
      BY <2>3, <2>5
  <1>6. ~(Migrations \subseteq T)
    <2> SUFFICES ASSUME Migrations \in SUBSET T PROVE FALSE
      OBVIOUS
    <2>1. Cardinality(Migrations) <= Cardinality(T)
      BY <1>3, FS_Subset
    <2>2. Cardinality(T) \in Nat /\ Cardinality(ids) \in Nat
      BY <1>2, <1>3, FS_CardinalityType
    <2> HIDE DEF T, ids
    <2> QED
      BY <1>1, <1>2, <1>3, <1>4, <2>1, <2>2
  <1>7. PICK n \in Migrations : n \notin T
    BY <1>6
  <1>8. n # 0
    BY <1>1 DEF Migrations
  <1>9. n \notin {e.needs : e \in E}
    <2> HIDE DEF T
    <2> QED
      BY <1>5, <1>7, <1>8
  <1>10. n \notin SchemasIn(Stored) \cup {e.needs : e \in EditsOf(Stored)}
    BY <1>9
  <1> HIDE DEF T, ids, E
  <1> QED
    BY <1>7, <1>10 DEF FreshMigration
\* Every step preserves the types.
LEMMA StepTypeOK == RoomInv /\ [Next]_vars => TypeOK'
  <1> SUFFICES ASSUME RoomInv, [Next]_vars PROVE TypeOK'
    OBVIOUS
  <1> USE DEF RoomInv, TypeOK, memory, writer, storage, SlotsOK
  <1>f. Fails => failures' \in 0 .. MaxFailures
    BY RelayAssumption DEF Fails
  <1>1. ASSUME NEW c \in Sockets, Upgrade(c) PROVE TypeOK'
    BY <1>1 DEF Upgrade
  <1>2. ASSUME NEW c \in Sockets, GiveUp(c) PROVE TypeOK'
    BY <1>2 DEF GiveUp
  <1>3. ASSUME NEW c \in Sockets, Message(c) PROVE TypeOK'
    <2>1. edits' \in 0 .. MaxEdits
      BY <1>3, RelayAssumption DEF Message
    <2>2. PICK needs \in {0} \cup (IF Legacy \in Visible(room) THEN SchemasIn(room) ELSE {}) :
            LET edit == [kind |-> "edit", id |-> edits + 1, needs |-> needs]
            IN  room' = room \cup {edit} /\ queue' = queue \cup {edit}
      BY <1>3 DEF Message
    <2>3. SchemasIn(room) \subseteq Migrations
      BY DEF SchemasIn, Edits, Clears, Schemas
    <2>4. [kind |-> "edit", id |-> edits + 1, needs |-> needs] \in Edits
      <3>1. needs \in Migrations \cup {0}
        BY <2>2, <2>3
      <3>2. edits + 1 \in 0 .. MaxEdits
        BY <1>3, <2>1 DEF Message
      <3> QED
        BY <3>1, <3>2 DEF Edits
    <2>5. room' \subseteq Edits \cup Clears \cup Schemas /\ queue' \subseteq Edits
      BY <2>2, <2>4
    <2>6. debounce' \in BOOLEAN /\ ~(debounce' /\ draining')
      BY <1>3 DEF Message
    <2>7. UNCHANGED <<phase, slot, stage, timer, ownerLive, sock, batch, draining,
                      storage, failures>>
      BY <1>3 DEF Message
    <2> QED
      BY <2>1, <2>5, <2>6, <2>7
  <1>4. ASSUME NEW c \in Sockets, Leave(c) PROVE TypeOK'
    <2>1. Cleared(room) \subseteq Edits \cup Clears \cup Schemas
      <3>1. \A e \in Visible(room) : e.id \in 0 .. MaxEdits
        BY DEF Visible, Integrated, EditsOf, Edits, Clears, Schemas
      <3>2. [kind |-> "clear", deletes |-> {e.id : e \in Visible(room)}] \in Clears
        BY <3>1 DEF Clears
      <3> QED
        BY <3>2 DEF Cleared
    <2>2. room' \subseteq Edits \cup Clears \cup Schemas
      BY <1>4, <2>1 DEF Leave
    <2>3. timer' \in BOOLEAN /\ ownerLive' \in BOOLEAN
      BY <1>4 DEF Leave
    <2>4. sock' \in [Sockets -> {"idle", "waiting", "gone", "joined", "kicked"}]
      BY <1>4 DEF Leave
    <2>5. UNCHANGED <<phase, slot, stage, writer, storage, edits, failures>>
      BY <1>4 DEF Leave
    <2> QED
      BY <2>2, <2>3, <2>4, <2>5
  <1>5. CASE OpenLoad
    <2>1. Migrated(Stored) \subseteq Edits \cup Clears \cup Schemas
      <3>1. Stored \subseteq Edits \cup Clears \cup Schemas
        BY DEF Stored
      <3>2. CASE SchemasIn(Stored) # {}
        BY <3>1, <3>2 DEF Migrated
      <3>3. CASE SchemasIn(Stored) = {}
        <4>1. Known(Stored)
          BY DEF KnownOK, Known, EditsOf
        <4>2. FreshMigration \in Migrations
          BY <3>1, <3>3, <4>1, FreshMigrationExists DEF Typed
        <4>3. [kind |-> "schema", migration |-> FreshMigration] \in Schemas
          BY <4>2 DEF Schemas
        <4> QED
          BY <3>1, <3>3, <4>3 DEF Migrated
      <3> QED
        BY <3>2, <3>3
    <2>2. room' \subseteq Edits \cup Clears \cup Schemas
      BY <1>5, <2>1 DEF OpenLoad
    <2>3. /\ slot' \in {"ready", slot} /\ stage' \in {"none", "snapshot"}
          /\ timer' \in BOOLEAN /\ ownerLive' \in BOOLEAN
          /\ sock' \in [Sockets -> {"idle", "waiting", "gone", "joined", "kicked"}]
      BY <1>5 DEF OpenLoad, Settle
    <2>4. UNCHANGED <<phase, writer, storage, edits, failures>>
      BY <1>5 DEF OpenLoad
    <2> QED
      BY <2>2, <2>3, <2>4
  <1>6. CASE OpenSnapshot
    BY <1>6 DEF OpenSnapshot
  <1>7. CASE OpenClear
    BY <1>7 DEF OpenClear, Settle
  <1>8. CASE CleanupTimer
    BY <1>8 DEF CleanupTimer, Flush
  <1>9. CASE CleanupSnapshot
    BY <1>9 DEF CleanupSnapshot
  <1>10. CASE CleanupClear
    BY <1>10 DEF CleanupClear
  <1>11. CASE DebounceTimer
    BY <1>11 DEF DebounceTimer, Flush
  <1>12. CASE BatchStored
    BY <1>12 DEF BatchStored
  <1>13. CASE OpenLoadFails
    BY <1>13, <1>f DEF OpenLoadFails, OpenFailed
  <1>14. CASE OpenSnapshotFails
    BY <1>14, <1>f DEF OpenSnapshotFails, Settle
  <1>15. CASE OpenClearFails
    BY <1>15, <1>f DEF OpenClearFails, OpenFailed
  <1>16. CASE CleanupSnapshotFails
    BY <1>16, <1>f DEF CleanupSnapshotFails, CleanupFailed, Settle
  <1>17. CASE CleanupClearFails
    BY <1>17, <1>f DEF CleanupClearFails, CleanupFailed, Settle
  <1>18. CASE BatchFails
    BY <1>18, <1>f DEF BatchFails, CleanupFailed, Settle, Exit
  <1>19. CASE Stop
    BY <1>19 DEF Stop, Flush
  <1>20. CASE Stopped
    BY <1>20 DEF Stopped, Exit
  <1>21. CASE Crash
    BY <1>21 DEF Crash, Exit
  <1>22. CASE Start
    BY <1>22 DEF Start
  <1>23. CASE UNCHANGED vars
    BY <1>23 DEF vars
  <1> QED
    BY <1>1, <1>2, <1>3, <1>4, <1>5, <1>6, <1>7, <1>8, <1>9, <1>10, <1>11, <1>12,
       <1>13, <1>14, <1>15, <1>16, <1>17, <1>18, <1>19, <1>20, <1>21, <1>22, <1>23
    DEF Next, Opening, Cleaning, Faults

\* Every step leaves accepted edits in storage, in flight or queued.
LEMMA StepAcceptedIsHeld == RoomInv /\ [Next]_vars => AcceptedIsHeld'
  <1> SUFFICES ASSUME RoomInv, [Next]_vars PROVE AcceptedIsHeld'
    OBVIOUS
  <1> USE DEF RoomInv, TypeOK, memory, writer, storage, AcceptedIsHeld, ContentOK,
              WriterOK, SlotsOK, Quiet, Stored, Members, EditsOf
  <1>1. ASSUME NEW c \in Sockets, Upgrade(c) PROVE AcceptedIsHeld'
    BY <1>1 DEF Upgrade
  <1>2. ASSUME NEW c \in Sockets, GiveUp(c) PROVE AcceptedIsHeld'
    BY <1>2 DEF GiveUp
  <1>3. ASSUME NEW c \in Sockets, Message(c) PROVE AcceptedIsHeld'
    BY <1>3 DEF Message
  <1>4. ASSUME NEW c \in Sockets, Leave(c) PROVE AcceptedIsHeld'
    <2>1. slot = "ready" /\ UNCHANGED <<slot, writer, storage>>
      BY <1>4 DEF Leave
    <2>2. EditsOf(room') = EditsOf(room)
      BY <1>4, ClearedKeepsEdits DEF Leave
    <2> QED
      BY <2>1, <2>2
  <1>5. CASE OpenLoad
    BY <1>5 DEF OpenLoad, Settle, Migrated
  <1>6. CASE OpenSnapshot
    BY <1>6 DEF OpenSnapshot
  <1>7. CASE OpenClear
    BY <1>7 DEF OpenClear, Settle
  <1>8. CASE CleanupTimer
    BY <1>8 DEF CleanupTimer, Flush
  <1>9. CASE CleanupSnapshot
    BY <1>9 DEF CleanupSnapshot
  <1>10. CASE CleanupClear
    BY <1>10 DEF CleanupClear
  <1>11. CASE DebounceTimer
    BY <1>11 DEF DebounceTimer, Flush
  <1>12. CASE BatchStored
    BY <1>12 DEF BatchStored
  <1>13. CASE OpenLoadFails
    BY <1>13 DEF OpenLoadFails, OpenFailed, Fails
  <1>14. CASE OpenSnapshotFails
    BY <1>14 DEF OpenSnapshotFails, Settle, Fails
  <1>15. CASE OpenClearFails
    BY <1>15 DEF OpenClearFails, OpenFailed, Fails
  <1>16. CASE CleanupSnapshotFails
    BY <1>16 DEF CleanupSnapshotFails, CleanupFailed, Settle, Fails
  <1>17. CASE CleanupClearFails
    BY <1>17 DEF CleanupClearFails, CleanupFailed, Settle, Fails
  <1>18. CASE BatchFails
    BY <1>18 DEF BatchFails, CleanupFailed, Settle, Fails, Exit
  <1>19. CASE Stop
    BY <1>19 DEF Stop, Flush
  <1>20. CASE Stopped
    BY <1>20 DEF Stopped, Exit
  <1>21. CASE Crash
    BY <1>21 DEF Crash, Exit
  <1>22. CASE Start
    BY <1>22 DEF Start
  <1>23. CASE UNCHANGED vars
    BY <1>23 DEF vars
  <1> QED
    BY <1>1, <1>2, <1>3, <1>4, <1>5, <1>6, <1>7, <1>8, <1>9, <1>10, <1>11, <1>12,
       <1>13, <1>14, <1>15, <1>16, <1>17, <1>18, <1>19, <1>20, <1>21, <1>22, <1>23
    DEF Next, Opening, Cleaning, Faults

\* Edits stay known while memory and storage gain none.
LEMMA KnownStays ==
  ASSUME KnownOK, edits' = edits,
         EditsOf(room' \cup Stored') \subseteq EditsOf(room \cup Stored)
  PROVE  KnownOK'
  <1> DEFINE D == EditsOf(room \cup Stored)
             C == EditsOf(room' \cup Stored')
  <1>1. \A e \in C : e \in D
    OBVIOUS
  <1>2. \A e \in D : /\ e.id <= edits' /\ (e.id = 0 => e.needs = 0)
                     /\ \A f \in D : e.id = f.id => e = f
    BY DEF KnownOK, Known
  <1> HIDE DEF D, C
  <1>3. \A e \in C : /\ e.id <= edits' /\ (e.id = 0 => e.needs = 0)
                     /\ \A f \in C : e.id = f.id => e = f
    BY <1>1, <1>2
  <1> QED
    BY <1>3 DEF C, KnownOK, Known

\* Every step leaves edits told apart by their ids.
LEMMA StepKnownOK == RoomInv /\ [Next]_vars => KnownOK'
  <1> SUFFICES ASSUME RoomInv, [Next]_vars PROVE KnownOK'
    OBVIOUS
  <1> USE DEF RoomInv, TypeOK, memory, writer, storage, WriterOK, ContentOK, SlotsOK,
              Quiet, Stored, Members, EditsOf
  <1>1. ASSUME NEW c \in Sockets, Upgrade(c) PROVE KnownOK'
    <2>1. EditsOf(room' \cup Stored') \subseteq EditsOf(room \cup Stored) /\ edits' = edits
      BY <1>1 DEF Upgrade
    <2> QED
      BY <2>1, KnownStays
  <1>2. ASSUME NEW c \in Sockets, GiveUp(c) PROVE KnownOK'
    <2>1. EditsOf(room' \cup Stored') \subseteq EditsOf(room \cup Stored) /\ edits' = edits
      BY <1>2 DEF GiveUp
    <2> QED
      BY <2>1, KnownStays
  <1>3. ASSUME NEW c \in Sockets, Message(c) PROVE KnownOK'
    <2> DEFINE D == EditsOf(room \cup Stored)
    <2>1. PICK needs : LET edit == [kind |-> "edit", id |-> edits + 1, needs |-> needs]
                       IN  room' = room \cup {edit}
      BY <1>3 DEF Message
    <2> DEFINE edit == [kind |-> "edit", id |-> edits + 1, needs |-> needs]
    <2>2. UNCHANGED storage /\ edits' = edits + 1 /\ edits \in Nat
      BY <1>3, RelayAssumption DEF Message
    <2>3. \A e \in D : e.id \in Nat
      BY RelayAssumption DEF Edits, Clears, Schemas
    <2>4. \A e \in D : /\ e.id <= edits /\ (e.id = 0 => e.needs = 0)
                       /\ \A f \in D : e.id = f.id => e = f
      BY DEF KnownOK, Known
    <2>5. EditsOf(room' \cup Stored') = D \cup {edit}
      BY <2>1, <2>2
    <2>6. edit.id = edits + 1
      OBVIOUS
    <2> HIDE DEF D, edit, EditsOf
    <2> SUFFICES ASSUME NEW e \in D \cup {edit}
                 PROVE  /\ e.id <= edits + 1 /\ (e.id = 0 => e.needs = 0)
                        /\ \A f \in D \cup {edit} : e.id = f.id => e = f
      BY <2>2, <2>5 DEF KnownOK, Known
    <2>7. CASE e \in D
      <3>1. e.id # edits + 1
        BY <2>2, <2>3, <2>4, <2>7
      <3> QED
        BY <2>2, <2>3, <2>4, <2>6, <2>7, <3>1
    <2>8. CASE e = edit
      <3>1. \A f \in D : f.id # edits + 1
        BY <2>2, <2>3, <2>4
      <3> QED
        BY <2>2, <2>6, <2>8, <3>1
    <2> QED
      BY <2>7, <2>8
  <1>4. ASSUME NEW c \in Sockets, Leave(c) PROVE KnownOK'
    <2>1. UNCHANGED <<storage, edits>> /\ EditsOf(room') = EditsOf(room)
      BY <1>4, ClearedKeepsEdits DEF Leave
    <2>2. EditsOf(room' \cup Stored') \subseteq EditsOf(room \cup Stored)
      BY <2>1
    <2> QED
      BY <2>1, <2>2, KnownStays
  <1>5. CASE OpenLoad
    <2>1. UNCHANGED <<storage, edits>> /\ EditsOf(room') = EditsOf(Stored)
      BY <1>5, MigratedKeepsEdits DEF OpenLoad
    <2>2. EditsOf(room' \cup Stored') \subseteq EditsOf(room \cup Stored)
      BY <2>1
    <2> QED
      BY <2>1, <2>2, KnownStays
  <1>6. CASE OpenSnapshot
    <2>1. EditsOf(room' \cup Stored') \subseteq EditsOf(room \cup Stored) /\ edits' = edits
      BY <1>6 DEF OpenSnapshot
    <2> QED
      BY <2>1, KnownStays
  <1>7. CASE OpenClear
    <2>1. EditsOf(room' \cup Stored') \subseteq EditsOf(room \cup Stored) /\ edits' = edits
      BY <1>7 DEF OpenClear, Settle
    <2> QED
      BY <2>1, KnownStays
  <1>8. CASE CleanupTimer
    <2>1. EditsOf(room' \cup Stored') \subseteq EditsOf(room \cup Stored) /\ edits' = edits
      BY <1>8 DEF CleanupTimer, Flush
    <2> QED
      BY <2>1, KnownStays
  <1>9. CASE CleanupSnapshot
    <2>1. EditsOf(room' \cup Stored') \subseteq EditsOf(room \cup Stored) /\ edits' = edits
      BY <1>9 DEF CleanupSnapshot
    <2> QED
      BY <2>1, KnownStays
  <1>10. CASE CleanupClear
    <2>1. EditsOf(room' \cup Stored') \subseteq EditsOf(room \cup Stored) /\ edits' = edits
      BY <1>10 DEF CleanupClear
    <2> QED
      BY <2>1, KnownStays
  <1>11. CASE DebounceTimer
    <2>1. EditsOf(room' \cup Stored') \subseteq EditsOf(room \cup Stored) /\ edits' = edits
      BY <1>11 DEF DebounceTimer, Flush
    <2> QED
      BY <2>1, KnownStays
  <1>12. CASE BatchStored
    <2>1. EditsOf(room' \cup Stored') \subseteq EditsOf(room \cup Stored) /\ edits' = edits
      BY <1>12 DEF BatchStored
    <2> QED
      BY <2>1, KnownStays
  <1>13. CASE OpenLoadFails
    <2>1. EditsOf(room' \cup Stored') \subseteq EditsOf(room \cup Stored) /\ edits' = edits
      BY <1>13 DEF OpenLoadFails, OpenFailed, Fails
    <2> QED
      BY <2>1, KnownStays
  <1>14. CASE OpenSnapshotFails
    <2>1. EditsOf(room' \cup Stored') \subseteq EditsOf(room \cup Stored) /\ edits' = edits
      BY <1>14 DEF OpenSnapshotFails, Settle, Fails
    <2> QED
      BY <2>1, KnownStays
  <1>15. CASE OpenClearFails
    <2>1. EditsOf(room' \cup Stored') \subseteq EditsOf(room \cup Stored) /\ edits' = edits
      BY <1>15 DEF OpenClearFails, OpenFailed, Fails
    <2> QED
      BY <2>1, KnownStays
  <1>16. CASE CleanupSnapshotFails
    <2>1. EditsOf(room' \cup Stored') \subseteq EditsOf(room \cup Stored) /\ edits' = edits
      BY <1>16 DEF CleanupSnapshotFails, CleanupFailed, Settle, Fails
    <2> QED
      BY <2>1, KnownStays
  <1>17. CASE CleanupClearFails
    <2>1. EditsOf(room' \cup Stored') \subseteq EditsOf(room \cup Stored) /\ edits' = edits
      BY <1>17 DEF CleanupClearFails, CleanupFailed, Settle, Fails
    <2> QED
      BY <2>1, KnownStays
  <1>18. CASE BatchFails
    <2>1. EditsOf(room' \cup Stored') \subseteq EditsOf(room \cup Stored) /\ edits' = edits
      BY <1>18 DEF BatchFails, CleanupFailed, Settle, Fails, Exit
    <2> QED
      BY <2>1, KnownStays
  <1>19. CASE Stop
    <2>1. EditsOf(room' \cup Stored') \subseteq EditsOf(room \cup Stored) /\ edits' = edits
      BY <1>19 DEF Stop, Flush
    <2> QED
      BY <2>1, KnownStays
  <1>20. CASE Stopped
    <2>1. EditsOf(room' \cup Stored') \subseteq EditsOf(room \cup Stored) /\ edits' = edits
      BY <1>20 DEF Stopped, Exit
    <2> QED
      BY <2>1, KnownStays
  <1>21. CASE Crash
    <2>1. EditsOf(room' \cup Stored') \subseteq EditsOf(room \cup Stored) /\ edits' = edits
      BY <1>21 DEF Crash, Exit
    <2> QED
      BY <2>1, KnownStays
  <1>22. CASE Start
    <2>1. EditsOf(room' \cup Stored') \subseteq EditsOf(room \cup Stored) /\ edits' = edits
      BY <1>22 DEF Start
    <2> QED
      BY <2>1, KnownStays
  <1>23. CASE UNCHANGED vars
    <2>1. edits' = edits /\ EditsOf(room' \cup Stored') \subseteq EditsOf(room \cup Stored)
      BY <1>23 DEF vars
    <2> QED
      BY <2>1, KnownStays
  <1> QED
    BY <1>1, <1>2, <1>3, <1>4, <1>5, <1>6, <1>7, <1>8, <1>9, <1>10, <1>11, <1>12,
       <1>13, <1>14, <1>15, <1>16, <1>17, <1>18, <1>19, <1>20, <1>21, <1>22, <1>23
    DEF Next, Opening, Cleaning, Faults

-------------------------------------------------------------------------------
(* The theorems. *)

\* The initial states satisfy the invariant.
LEMMA InitRoomInv == Init => RoomInv
  <1> SUFFICES ASSUME Init PROVE RoomInv
    OBVIOUS
  <1> USE DEF Init, Members, Waiting, Gone, Quiet, Stored, EditsOf
  <1>1. TypeOK
    <2>1. Legacy \in Edits
      BY RelayAssumption DEF Legacy, Edits
    <2>2. snapshot \subseteq Edits
      BY <2>1
    <2>3. edits \in 0 .. MaxEdits /\ failures \in 0 .. MaxFailures
      BY RelayAssumption
    <2>4. draining = (batch # {})
      OBVIOUS
    <2> QED
      BY <2>2, <2>3, <2>4 DEF TypeOK
  <1>2. SlotsOK /\ OwnersOK /\ WriterOK /\ ContentOK /\ AcceptedIsHeld
    BY DEF SlotsOK, OwnersOK, WriterOK, ContentOK, AcceptedIsHeld
  <1>3. KnownOK
    <2>1. \A e \in EditsOf(room \cup Stored) : e = Legacy
      OBVIOUS
    <2>2. Legacy.id = 0 /\ Legacy.needs = 0
      BY DEF Legacy
    <2> QED
      BY <2>1, <2>2 DEF KnownOK, Known
  <1> QED
    BY <1>1, <1>2, <1>3 DEF RoomInv

\* Every reachable state satisfies it.
LEMMA RoomInvariant == Spec => []RoomInv
  <1>1. RoomInv /\ [Next]_vars => RoomInv'
    BY StepTypeOK, StepSlotsOK, StepOwnersOK, StepWriterOK, StepContentOK,
       StepAcceptedIsHeld, StepKnownOK DEF RoomInv
  <1> QED
    BY InitRoomInv, <1>1, PTL DEF Spec

\* A room serves its members as long as it has any, and no longer: it is never
\* opened, cleaned or dropped under them, an empty one has its cleanup timer, and
\* a joiner shares it with a connected owner.
THEOREM RoomsServeTheirMembers == Spec => []RoomsServe
  <1>1. RoomInv => RoomsServe
    BY DEF RoomInv, RoomsServe, SlotsOK, OwnersOK, ClientsKeepTheirRoom,
           EmptyRoomHasTimer, JoinersHaveOwner
  <1> QED
    BY <1>1, RoomInvariant, PTL

\* No accepted edit is dropped: it stays in storage, in the insert in flight or
\* in the queue, whatever fails, and a shutdown that ends without an error has
\* stored it.
THEOREM AcceptedEditsAreKept == Spec => AcceptedIsKept
  <1>1. RoomInv /\ RoomInv' /\ [Next]_vars
          => [/\ AcceptedIsHeld'
              /\ phase = "stopping" /\ phase' = "stopped"
                   => EditsOf(room) \subseteq Stored]_vars
    <2> SUFFICES ASSUME RoomInv, RoomInv', [Next]_vars,
                        phase = "stopping", phase' = "stopped"
                 PROVE  EditsOf(room) \subseteq Stored
      BY DEF RoomInv
    <2>1. Stopped
      BY DEF Next, vars, Opening, Cleaning, Faults, Upgrade, GiveUp, Message, Leave,
             OpenLoad, OpenSnapshot, OpenClear, CleanupTimer, CleanupSnapshot,
             CleanupClear, DebounceTimer, BatchStored, OpenLoadFails, OpenSnapshotFails,
             OpenClearFails, CleanupSnapshotFails, CleanupClearFails, BatchFails, Stop,
             Crash, Start, Exit
    <2>2. queue = {} /\ batch = {}
      BY <2>1 DEF Stopped, RoomInv, TypeOK
    <2>3. CASE slot \in {"ready", "cleaning"}
      BY <2>2, <2>3 DEF RoomInv, AcceptedIsHeld
    <2>4. CASE slot \notin {"ready", "cleaning"}
      BY <2>4 DEF RoomInv, TypeOK, ContentOK, EditsOf
    <2> QED
      BY <2>3, <2>4
  <1> QED
    BY <1>1, RoomInvariant, PTL DEF Spec, AcceptedIsKept

\* The shared document is what memory holds, or what the next opening will load:
\* the stored operations are always in it.
LEMMA StoredIsShared == RoomInv => Stored \subseteq SharedDoc
  BY DEF RoomInv, ContentOK, SharedDoc

\* The relay implements DurableRoom: what is stored stays stored and is found by
\* the next opening, the document only grows while the process runs, and only the
\* end of the process loses what is not stored.
THEOREM RelayKeepsPromise == Spec => KeepsPromise
  <1>1. Init => Promise!Init
    BY DEF Init, Promise!Init, SharedDoc, Running
  <1>s. RoomInv /\ RoomInv' => Stored \subseteq SharedDoc /\ (Stored \subseteq SharedDoc)'
    BY StoredIsShared, PTL
  <1>2. RoomInv /\ RoomInv' /\ [Next]_vars => [Promise!Next]_(Promise!vars)
    <2> SUFFICES ASSUME RoomInv, RoomInv', Next PROVE [Promise!Next]_(Promise!vars)
      BY DEF vars, memory, storage, SharedDoc, Stored, Running, Promise!vars
    <2> USE DEF RoomInv, ContentOK, SlotsOK, WriterOK, Quiet, Members
    <2>0. Stored \subseteq SharedDoc /\ (Stored \subseteq SharedDoc)'
      BY <1>s
    <2>g. ASSUME Running, Running', SharedDoc \subseteq SharedDoc', Stored \subseteq Stored'
          PROVE  Promise!Next
      BY <2>0, <2>g DEF Promise!Next, Promise!Grow, Running
    <2>l. ASSUME Running, ~Running', Stored \subseteq Stored', Stored' \subseteq SharedDoc,
                 SharedDoc' = Stored'
          PROVE  Promise!Next
      BY <2>l DEF Promise!Next, Promise!Lose, Running
    <2>p. phase \in {"up", "stopping", "stopped", "down"}
      BY DEF TypeOK
    <2>1. ASSUME NEW c \in Sockets, Upgrade(c) PROVE Promise!Next
      <3>r. Running /\ Running'
        BY <2>1, <2>p DEF Upgrade, Running
      <3>1. SharedDoc \subseteq SharedDoc' /\ Stored \subseteq Stored'
        BY <2>1 DEF Upgrade, SharedDoc, Stored, storage
      <3> QED
        BY <3>r, <3>1, <2>g
    <2>2. ASSUME NEW c \in Sockets, GiveUp(c) PROVE Promise!Next
      <3>r. Running /\ Running'
        BY <2>2, <2>p DEF GiveUp, Waiting, Running
      <3>1. SharedDoc \subseteq SharedDoc' /\ Stored \subseteq Stored'
        BY <2>2 DEF GiveUp, SharedDoc, Stored, storage
      <3> QED
        BY <3>r, <3>1, <2>g
    <2>3. ASSUME NEW c \in Sockets, Message(c) PROVE Promise!Next
      <3>r. Running /\ Running'
        BY <2>3, <2>p DEF Message, Running
      <3>1. SharedDoc \subseteq SharedDoc' /\ Stored \subseteq Stored'
        BY <2>3 DEF Message, SharedDoc, Stored, storage
      <3> QED
        BY <3>r, <3>1, <2>g
    <2>4. ASSUME NEW c \in Sockets, Leave(c) PROVE Promise!Next
      <3>r. Running /\ Running'
        BY <2>4, <2>p DEF Leave, Running
      <3>1. room \subseteq room' /\ UNCHANGED <<slot, storage>>
        BY <2>4, ClearedKeepsEdits DEF Leave
      <3>2. SharedDoc \subseteq SharedDoc' /\ Stored \subseteq Stored'
        BY <3>1 DEF SharedDoc, Stored, storage
      <3> QED
        BY <3>r, <3>2, <2>g
    <2>5. CASE OpenLoad
      <3>r. Running /\ Running'
        BY <2>5, <2>p DEF OpenLoad, Running
      <3>1. SharedDoc \subseteq SharedDoc' /\ Stored \subseteq Stored'
        BY <2>5, <2>0, MigratedKeepsEdits DEF OpenLoad, Settle, SharedDoc, Stored, storage, memory
      <3> QED
        BY <3>r, <3>1, <2>g
    <2>6. CASE OpenSnapshot
      <3>r. Running /\ Running'
        BY <2>6, <2>p DEF OpenSnapshot, Running
      <3>1. snapshot \subseteq room /\ log \subseteq room
        BY <2>6 DEF OpenSnapshot, Stored
      <3>2. snapshot' = room /\ log' = log /\ slot' = "opening" /\ slot = "opening"
        BY <2>6 DEF OpenSnapshot
      <3>3. SharedDoc \subseteq SharedDoc' /\ Stored \subseteq Stored'
        BY <3>1, <3>2 DEF SharedDoc, Stored
      <3> QED
        BY <3>r, <3>3, <2>g
    <2>7. CASE OpenClear
      <3>r. Running /\ Running'
        BY <2>7, <2>p DEF OpenClear, Running
      <3>1. snapshot = room /\ log \subseteq room /\ slot = "opening"
        BY <2>7 DEF OpenClear, Stored
      <3>2. snapshot' = snapshot /\ log' = {} /\ room' = room /\ slot' = "ready"
        BY <2>7 DEF OpenClear, Settle
      <3>3. SharedDoc \subseteq SharedDoc' /\ Stored \subseteq Stored'
        BY <3>1, <3>2 DEF SharedDoc, Stored
      <3> QED
        BY <3>r, <3>3, <2>g
    <2>8. CASE CleanupTimer
      <3>r. Running /\ Running'
        BY <2>8, <2>p DEF CleanupTimer, Running
      <3>1. SharedDoc \subseteq SharedDoc' /\ Stored \subseteq Stored'
        BY <2>8, <2>0 DEF CleanupTimer, SharedDoc, Stored, storage, memory
      <3> QED
        BY <3>r, <3>1, <2>g
    <2>9. CASE CleanupSnapshot
      <3>r. Running /\ Running'
        BY <2>9, <2>p DEF CleanupSnapshot, Running
      <3>1. SharedDoc \subseteq SharedDoc' /\ Stored \subseteq Stored'
        BY <2>9, <2>0 DEF CleanupSnapshot, SharedDoc, Stored, storage, memory
      <3> QED
        BY <3>r, <3>1, <2>g
    <2>10. CASE CleanupClear
      <3>r. Running /\ Running'
        BY <2>10, <2>p DEF CleanupClear, Running
      <3>1. snapshot = room /\ log \subseteq room /\ slot = "cleaning"
        BY <2>10 DEF CleanupClear, Stored
      <3>2. snapshot' = snapshot /\ log' = {} /\ slot' \in {"absent", "opening"}
        BY <2>10 DEF CleanupClear
      <3>3. SharedDoc \subseteq SharedDoc' /\ Stored \subseteq Stored'
        BY <3>1, <3>2 DEF SharedDoc, Stored
      <3> QED
        BY <3>r, <3>3, <2>g
    <2>11. CASE DebounceTimer
      <3>r. Running /\ Running'
        BY <2>11, <2>p DEF DebounceTimer, Running
      <3>1. SharedDoc \subseteq SharedDoc' /\ Stored \subseteq Stored'
        BY <2>11, <2>0 DEF DebounceTimer, SharedDoc, Stored, storage, memory
      <3> QED
        BY <3>r, <3>1, <2>g
    <2>12. CASE BatchStored
      <3>r. Running /\ Running'
        BY <2>12, <2>p DEF BatchStored, TypeOK, Running
      <3>1. SharedDoc \subseteq SharedDoc' /\ Stored \subseteq Stored'
        BY <2>12, <2>0 DEF BatchStored, SharedDoc, Stored, storage, memory
      <3> QED
        BY <3>r, <3>1, <2>g
    <2>13. CASE OpenLoadFails
      <3>r. Running /\ Running'
        BY <2>13, <2>p DEF OpenLoadFails, Running
      <3>1. SharedDoc \subseteq SharedDoc' /\ Stored \subseteq Stored'
        BY <2>13, <2>0 DEF OpenLoadFails, OpenFailed, SharedDoc, Stored, storage, memory
      <3> QED
        BY <3>r, <3>1, <2>g
    <2>14. CASE OpenSnapshotFails
      <3>r. Running /\ Running'
        BY <2>14, <2>p DEF OpenSnapshotFails, Running
      <3>1. SharedDoc \subseteq SharedDoc' /\ Stored \subseteq Stored'
        BY <2>14, <2>0 DEF OpenSnapshotFails, Settle, SharedDoc, Stored, storage, memory
      <3> QED
        BY <3>r, <3>1, <2>g
    <2>15. CASE OpenClearFails
      <3>r. Running /\ Running'
        BY <2>15, <2>p DEF OpenClearFails, Running
      <3>1. snapshot = room /\ log \subseteq room /\ slot = "opening"
        BY <2>15 DEF OpenClearFails, Stored
      <3>2. snapshot' = snapshot /\ slot' = "absent"
        BY <2>15 DEF OpenClearFails, OpenFailed
      <3>3. SharedDoc \subseteq SharedDoc' /\ Stored \subseteq Stored'
        BY <3>1, <3>2 DEF SharedDoc, Stored
      <3> QED
        BY <3>r, <3>3, <2>g
    <2>16. CASE CleanupSnapshotFails
      <3>r. Running /\ Running'
        BY <2>16, <2>p DEF CleanupSnapshotFails, Running
      <3>1. SharedDoc \subseteq SharedDoc' /\ Stored \subseteq Stored'
        BY <2>16, <2>0
           DEF CleanupSnapshotFails, CleanupFailed, Settle, SharedDoc, Stored, storage, memory
      <3> QED
        BY <3>r, <3>1, <2>g
    <2>17. CASE CleanupClearFails
      <3>r. Running /\ Running'
        BY <2>17, <2>p DEF CleanupClearFails, Running
      <3>1. snapshot = room /\ log \subseteq room /\ slot = "cleaning"
        BY <2>17 DEF CleanupClearFails, Stored
      <3>2. snapshot' = snapshot /\ slot' = "ready" /\ room' = room
        BY <2>17 DEF CleanupClearFails, CleanupFailed, Settle
      <3>3. SharedDoc \subseteq SharedDoc' /\ Stored \subseteq Stored'
        BY <3>1, <3>2 DEF SharedDoc, Stored
      <3> QED
        BY <3>r, <3>3, <2>g
    <2>18. CASE BatchFails
      <3>1. CASE phase = "stopping"
        <4>1. Stored' \subseteq Stored \cup batch /\ slot' = "absent" /\ Stored \subseteq Stored'
          BY <2>18, <3>1 DEF BatchFails, CleanupFailed, Settle, Exit, Stored, storage
        <4>2. Stored \cup batch \subseteq SharedDoc
          <5>2. batch # {}
            BY <2>18 DEF BatchFails, TypeOK
          <5>3. slot \in {"ready", "cleaning"}
            BY <5>2 DEF TypeOK
          <5> QED
            BY <5>3, <2>0 DEF SharedDoc
        <4>3. SharedDoc' = Stored'
          BY <4>1 DEF SharedDoc
        <4>4. Running /\ ~Running'
          BY <2>18, <3>1 DEF BatchFails, Exit, Running
        <4> QED
          BY <4>1, <4>2, <4>3, <4>4, <2>l
      <3>2. CASE phase # "stopping"
        <4>1. Stored \subseteq Stored'
          BY <2>18 DEF BatchFails, Stored
        <4>2. slot \in {"ready", "cleaning"} /\ slot' \in {"ready", "cleaning"} /\ room' = room
          <5>1. batch # {}
            BY <2>18 DEF BatchFails, TypeOK
          <5>2. slot \in {"ready", "cleaning"}
            BY <5>1 DEF TypeOK
          <5> QED
            BY <2>18, <3>2, <5>2 DEF BatchFails, CleanupFailed, Settle, memory
        <4>3. SharedDoc \subseteq SharedDoc'
          BY <4>2 DEF SharedDoc
        <4>4. Running /\ Running'
          BY <2>18, <2>p, <3>2, <4>2 DEF BatchFails, Running
        <4> QED
          BY <4>1, <4>3, <4>4, <2>g
      <3> QED
        BY <3>1, <3>2
    <2>19. CASE Stop
      <3>r. Running /\ Running'
        BY <2>19, <2>p DEF Stop, Running
      <3>1. SharedDoc \subseteq SharedDoc' /\ Stored \subseteq Stored'
        BY <2>19, <2>0 DEF Stop, SharedDoc, Stored, storage, memory
      <3> QED
        BY <3>r, <3>1, <2>g
    <2>20. CASE Stopped
      <3>1. Stored \subseteq Stored' /\ Stored' \subseteq SharedDoc /\ SharedDoc' = Stored'
        BY <2>0, <2>20 DEF Stopped, Exit, SharedDoc, Stored, storage
      <3>r. Running /\ ~Running'
        BY <2>20 DEF Stopped, Exit, Running
      <3> QED
        BY <3>r, <3>1, <2>l
    <2>21. CASE Crash
      <3>1. Stored \subseteq Stored' /\ Stored' \subseteq SharedDoc /\ SharedDoc' = Stored'
        BY <2>0, <2>21 DEF Crash, Exit, SharedDoc, Stored, storage
      <3>r. Running /\ ~Running'
        BY <2>21 DEF Crash, Exit, Running
      <3> QED
        BY <3>r, <3>1, <2>l
    <2>22. CASE Start
      <3>1. ~Running /\ Running' /\ UNCHANGED <<SharedDoc, Stored>>
        BY <2>22 DEF Start, Running, SharedDoc, Stored, storage, memory
      <3> QED
        BY <3>1 DEF Promise!Next, Promise!Begin, Running
    <2> QED
      BY <2>1, <2>2, <2>3, <2>4, <2>5, <2>6, <2>7, <2>8, <2>9, <2>10, <2>11, <2>12,
         <2>13, <2>14, <2>15, <2>16, <2>17, <2>18, <2>19, <2>20, <2>21, <2>22
            DEF Next, Opening, Cleaning, Faults
  <1> QED
    BY <1>1, <1>2, RoomInvariant, PTL DEF Spec, KeepsPromise, Promise!Spec
===============================================================================
