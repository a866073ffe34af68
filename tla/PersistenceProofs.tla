--------------------------- MODULE PersistenceProofs ---------------------------
(***************************************************************************)
(* Theorems about Persistence, for every value of its constants.           *)
(***************************************************************************)
EXTENDS Persistence, SequenceTheorems, TLAPS

-------------------------------------------------------------------------------
(* Type correctness. *)

\* A queued job belongs to a bookkeeping that exists and, unless it is a
\* checkpoint, to a draft.
JobsOK ==
    \A i \in 1..Len(queue) :
        /\ queue[i].book \in 1..Len(books)
        /\ queue[i].kind # "checkpoint" => queue[i].draft \in Drafts

\* A draft with events has a last one.  (The prover has no induction over
\* sets of numbers; here it is an induction over behaviours.)
LastEvents ==
    \A d \in Drafts : IdsOf(d) # {} =>
        \E m \in IdsOf(d) : \A i \in IdsOf(d) : i <= m

\* At most one queued flush answers a load, and that load waits for it.
LoadWaits ==
    \A i \in 1..Len(queue) : queue[i].caller = "load" =>
        /\ load.phase = "flush"
        /\ \A j \in 1..Len(queue) : queue[j].caller = "load" => i = j

TypeInv == TypeOK /\ JobsOK /\ LastEvents /\ LoadWaits

\* The initial state has its type.
LEMMA InitTypeInv == Init => TypeInv
  <1> SUFFICES ASSUME Init PROVE TypeInv
    OBVIOUS
  <1> USE DEF Init, NoView, NoLoad, NotClosing, Book, BookType
  <1>1. books \in Seq(BookType) /\ books # <<>>
    OBVIOUS
  <1>2. TypeOK
    BY <1>1 DEF TypeOK
  <1>3. JobsOK
    BY DEF JobsOK
  <1>4. LastEvents
    BY DEF LastEvents, IdsOf
  <1>5. LoadWaits
    BY DEF LoadWaits
  <1> QED
    BY <1>2, <1>3, <1>4, <1>5 DEF TypeInv

\* A sequence of as many books as there are.
AsManyBooks(B) == B \in Seq(BookType) /\ Len(B) = Len(books) /\ B # <<>>

\* A queued job keeps the queue well formed.
LEMMA EnqueueType ==
  ASSUME TypeInv, Len(books') \in Nat, Len(books) <= Len(books'),
         NEW job \in JobType, job.book \in 1..Len(books'),
         job.kind # "checkpoint" => job.draft \in Drafts,
         NEW close \in [phase : {"no", "flush", "check"}, barrier : BOOLEAN],
         Enqueue(job, close)
  PROVE  /\ queue' \in Seq(JobType)
         /\ JobsOK'
         /\ closing' \in [phase : {"no", "flush", "check"}, barrier : BOOLEAN]
  <1>1. queue' \in Seq(JobType) /\ Len(queue') = Len(queue) + 1
    BY DEF TypeInv, TypeOK, Enqueue
  <1>2. \A i \in 1..Len(queue') : queue'[i] = IF i <= Len(queue) THEN queue[i] ELSE job
    BY DEF TypeInv, TypeOK, Enqueue
  <1>3. JobsOK'
    <2> SUFFICES ASSUME NEW i \in 1..Len(queue')
                 PROVE  /\ queue'[i].book \in 1..Len(books')
                        /\ queue'[i].kind # "checkpoint" => queue'[i].draft \in Drafts
      BY DEF JobsOK
    <2>1. Len(queue) \in Nat /\ Len(books) \in Nat
      BY DEF TypeInv, TypeOK
    <2>2. CASE i <= Len(queue)
      BY <1>2, <2>1, <2>2 DEF TypeInv, JobsOK
    <2>3. CASE i > Len(queue)
      BY <1>1, <1>2, <2>1, <2>3
    <2> QED
      BY <1>1, <2>1, <2>2, <2>3
  <1>4. closing' \in [phase : {"no", "flush", "check"}, barrier : BOOLEAN]
    BY DEF Enqueue
  <1> QED
    BY <1>1, <1>3, <1>4

\* The running job and its bookkeeping have their types.
LEMMA RunningType ==
  ASSUME TypeInv, queue # <<>>
  PROVE  /\ running \in JobType
         /\ running.book \in 1..Len(books)
         /\ book \in BookType
         /\ running.kind # "checkpoint" => running.draft \in Drafts
         /\ running.caller = "load" => load.phase = "flush"
  BY DEF TypeInv, TypeOK, JobsOK, LoadWaits, running, book

\* So does finishing the running job.
LEMMA FinishType ==
  ASSUME TypeInv, queue # <<>>, Finish, AsManyBooks(books')
  PROVE  queue' \in Seq(JobType) /\ JobsOK' /\ step' \in {"start", "append", "after"}
  <1>1. queue' \in Seq(JobType) /\ Len(queue') = Len(queue) - 1
    BY DEF TypeInv, TypeOK, Finish
  <1>2. \A i \in 1..Len(queue') : queue'[i] = queue[i + 1]
    BY DEF TypeInv, TypeOK, Finish
  <1>3. JobsOK'
    <2> SUFFICES ASSUME NEW i \in 1..Len(queue')
                 PROVE  /\ queue'[i].book \in 1..Len(books')
                        /\ queue'[i].kind # "checkpoint" => queue'[i].draft \in Drafts
      BY DEF JobsOK
    <2>1. Len(queue) \in Nat /\ i + 1 \in 1..Len(queue)
      BY <1>1 DEF TypeInv, TypeOK
    <2> QED
      BY <1>2, <2>1 DEF TypeInv, JobsOK, AsManyBooks
  <1> QED
    BY <1>1, <1>3 DEF Finish

\* Only a load under way has a flush in the queue.
LEMMA EnqueueWaits ==
  ASSUME TypeInv, NEW job \in JobType, NEW close, Enqueue(job, close),
         \/ job.caller # "load" /\ load'.phase = load.phase
         \/ job.caller # "load" /\ load.phase # "flush"
         \/ load.phase # "flush" /\ load'.phase = "flush"
  PROVE  LoadWaits'
  <1>1. Len(queue) \in Nat /\ Len(queue') = Len(queue) + 1
    BY DEF TypeInv, TypeOK, Enqueue
  <1>2. \A i \in 1..Len(queue') : queue'[i] = IF i <= Len(queue) THEN queue[i] ELSE job
    BY DEF TypeInv, TypeOK, Enqueue
  <1> SUFFICES ASSUME NEW i \in 1..Len(queue'), queue'[i].caller = "load"
               PROVE  /\ load'.phase = "flush"
                      /\ \A j \in 1..Len(queue') : queue'[j].caller = "load" => i = j
    BY DEF LoadWaits
  <1>3. \A j \in 1..Len(queue') : j > Len(queue) => j = Len(queue')
    BY <1>1
  <1>4. \A j \in 1..Len(queue') : j <= Len(queue) => j \in 1..Len(queue)
    BY <1>1
  <1>5. CASE i <= Len(queue)
    BY <1>1, <1>2, <1>3, <1>4, <1>5 DEF TypeInv, LoadWaits
  <1>6. CASE i > Len(queue)
    BY <1>1, <1>2, <1>3, <1>4, <1>6 DEF TypeInv, LoadWaits
  <1> QED
    BY <1>1, <1>5, <1>6

LEMMA FinishWaits ==
  ASSUME TypeInv, queue # <<>>, Finish,
         load'.phase = load.phase \/ running.caller = "load"
  PROVE  LoadWaits'
  <1>1. Len(queue) \in Nat /\ Len(queue') = Len(queue) - 1
    BY DEF TypeInv, TypeOK, Finish
  <1>2. \A i \in 1..Len(queue') : queue'[i] = queue[i + 1]
    BY DEF TypeInv, TypeOK, Finish
  <1>3. \A i \in 1..Len(queue') : i + 1 \in 1..Len(queue) /\ i + 1 # 1
    BY <1>1
  <1>4. 1 \in 1..Len(queue) /\ running = queue[1]
    BY DEF running, TypeInv, TypeOK
  <1>5. \A i \in 1..Len(queue') : queue'[i].caller = "load" => running.caller # "load"
    BY <1>2, <1>3, <1>4 DEF TypeInv, LoadWaits
  <1> SUFFICES ASSUME NEW i \in 1..Len(queue'), queue'[i].caller = "load"
               PROVE  /\ load'.phase = "flush"
                      /\ \A j \in 1..Len(queue') : queue'[j].caller = "load" => i = j
    BY DEF LoadWaits
  <1>6. load'.phase = "flush"
    BY <1>2, <1>3, <1>5 DEF TypeInv, LoadWaits
  <1>7. \A j \in 1..Len(queue') : queue'[j].caller = "load" => i + 1 = j + 1
    BY <1>2, <1>3 DEF TypeInv, LoadWaits
  <1> QED
    BY <1>1, <1>6, <1>7

\* Inserting an event keeps the log well formed.
LEMMA InsertEventType ==
  ASSUME TypeInv, NEW d \in Drafts, NEW e \in Nat, NEW start \in SUBSET Nat,
         InsertEvent(d, e, start)
  PROVE  events' \in Seq(EventType) /\ LastEvents'
  <1>1. /\ events' \in Seq(EventType)
        /\ Len(events') = Len(events) + 1
        /\ Len(events) \in Nat
        /\ \A i \in 1..Len(events) : events'[i] = events[i]
    BY DEF TypeInv, TypeOK, InsertEvent, EventType
  <1>2. LastEvents'
    <2> SUFFICES ASSUME NEW c \in Drafts, IdsOf(c)' # {}
                 PROVE  \E m \in IdsOf(c)' : \A i \in IdsOf(c)' : i <= m
      BY DEF LastEvents
    <2>1. CASE Len(events) + 1 \in IdsOf(c)'
      BY <1>1, <2>1 DEF IdsOf
    <2>2. CASE Len(events) + 1 \notin IdsOf(c)'
      <3>1. IdsOf(c)' = IdsOf(c)
        BY <1>1, <2>2 DEF IdsOf
      <3> QED
        BY <3>1 DEF TypeInv, LastEvents
    <2> QED
      BY <2>1, <2>2
  <1> QED
    BY <1>1, <1>2

\* What LatestSnapshots, Replays and LatestEventId return.
LEMMA ReadType ==
  ASSUME TypeInv, NEW d \in Drafts, NEW s \in LatestSnapshots(d),
         NEW replayed \in Replays(s)
  PROVE  /\ s \in SnapshotType /\ s.draft = d
         /\ replayed \subseteq EventsSince(s)
         /\ EditsOf(replayed) \subseteq Nat
         /\ LatestEventId(s) \in Nat
  <1>1. s \in SnapshotType /\ s.draft = d
    BY DEF TypeInv, TypeOK, LatestSnapshots, SnapshotsOf, SnapshotOf, SnapshotType
  <1>2. replayed \subseteq EventsSince(s)
    BY DEF Replays
  <1>3. EventsSince(s) \subseteq 1..Len(events)
    BY DEF EventsSince, IdsOf
  <1>4. EditsOf(replayed) \subseteq Nat
    <2>1. \A i \in 1..Len(events) : events[i] \in EventType
      BY DEF TypeInv, TypeOK
    <2>2. \A i \in 1..Len(events) : events[i].edit \in Nat
      BY <2>1 DEF EventType
    <2> QED
      BY <1>2, <1>3, <2>2 DEF EditsOf
  <1>5. LatestEventId(s) \in Nat
    <2>1. CASE EventsSince(s) = {}
      BY <1>1, <2>1 DEF LatestEventId, SnapshotType
    <2>2. CASE EventsSince(s) # {}
      <3>1. PICK m \in IdsOf(d) : \A i \in IdsOf(d) : i <= m
        BY <1>1, <2>2 DEF TypeInv, LastEvents, EventsSince
      <3>2. Len(events) \in Nat /\ s.upTo \in Nat
        BY <1>1 DEF TypeInv, TypeOK, SnapshotType
      <3>3. m \in EventsSince(s) /\ \A i \in EventsSince(s) : i <= m
        BY <1>1, <2>2, <3>1, <3>2 DEF EventsSince, IdsOf
      <3>4. LatestEventId(s) \in EventsSince(s)
        BY <2>2, <3>3 DEF LatestEventId
      <3> QED
        BY <1>3, <3>2, <3>4
    <2> QED
      BY <2>1, <2>2
  <1> QED
    BY <1>1, <1>2, <1>4, <1>5

\* Jobs and callers have their types.
LEMMA JobTypes ==
  ASSUME TypeInv
  PROVE  /\ view.draft # NoDraft =>
               /\ AppendJob \in JobType /\ NamedJob \in JobType
               /\ view.draft \in Drafts
         /\ AppendJob.book = current /\ AppendJob.draft = view.draft
         /\ NamedJob.book = current /\ NamedJob.draft = view.draft
         /\ AppendJob.caller = "idle" /\ NamedJob.caller = "idle"
         /\ current \in 1..Len(books)
         /\ \A caller \in Callers, b \in Nat \ {0}, need \in SUBSET Nat :
               /\ CheckpointJob(caller, b, need) \in JobType
               /\ CheckpointJob(caller, b, need).book = b
               /\ CheckpointJob(caller, b, need).caller = caller
               /\ CheckpointJob(caller, b, need).kind = "checkpoint"
  <1>1. current \in 1..Len(books)
    BY DEF TypeInv, TypeOK, current
  <1>2. view.draft # NoDraft => view.draft \in Drafts
    BY DEF TypeInv, TypeOK
  <1>3. view.draft # NoDraft => AppendJob \in JobType /\ NamedJob \in JobType
    BY <1>1, <1>2 DEF TypeInv, TypeOK, AppendJob, NamedJob, JobType, Callers
  <1>4. \A caller \in Callers, b \in Nat \ {0}, need \in SUBSET Nat :
             CheckpointJob(caller, b, need) \in JobType
    BY DEF TypeInv, TypeOK, CheckpointJob, JobType
  <1> QED
    BY <1>1, <1>2, <1>3, <1>4 DEF AppendJob, NamedJob, CheckpointJob

\* Changing a field of a book leaves as many books.
LEMMA BooksType ==
  ASSUME TypeInv, NEW b \in 1..Len(books)
  PROVE  /\ AsManyBooks(books)
         /\ \A f \in BOOLEAN : AsManyBooks([books EXCEPT ![b].failure = f])
         /\ \A f \in BOOLEAN : AsManyBooks([books EXCEPT ![b].idleTimer = f])
         /\ \A n \in Nat : AsManyBooks([books EXCEPT ![b].lastEventId = n])
         /\ \A p \in SUBSET SnapshotType :
                AsManyBooks([books EXCEPT ![b].pendingCheckpoint = p])
         /\ \A n \in Nat, p \in SUBSET SnapshotType :
                AsManyBooks([books EXCEPT ![b].lastEventId = n,
                                          ![b].pendingCheckpoint = p])
  <1>1. books \in Seq(BookType) /\ books[b] \in BookType /\ Len(books) > 0
    BY DEF TypeInv, TypeOK
  <1>2. \A e \in BookType : AsManyBooks([books EXCEPT ![b] = e])
    <2> SUFFICES ASSUME NEW e \in BookType PROVE AsManyBooks([books EXCEPT ![b] = e])
      OBVIOUS
    <2>1. [books EXCEPT ![b] = e] \in Seq(BookType)
          /\ Len([books EXCEPT ![b] = e]) = Len(books)
      BY <1>1, ExceptSeq
    <2> QED
      BY <1>1, <2>1 DEF AsManyBooks
  <1>3. /\ \A f \in BOOLEAN : [books[b] EXCEPT !.failure = f] \in BookType
        /\ \A f \in BOOLEAN : [books[b] EXCEPT !.idleTimer = f] \in BookType
        /\ \A n \in Nat : [books[b] EXCEPT !.lastEventId = n] \in BookType
        /\ \A p \in SUBSET SnapshotType :
               [books[b] EXCEPT !.pendingCheckpoint = p] \in BookType
        /\ \A n \in Nat, p \in SUBSET SnapshotType :
               [books[b] EXCEPT !.lastEventId = n, !.pendingCheckpoint = p] \in BookType
    BY <1>1 DEF BookType
  <1>4. AsManyBooks(books)
    BY <1>1 DEF TypeInv, TypeOK, AsManyBooks
  <1>5. ASSUME NEW f \in BOOLEAN
        PROVE  /\ AsManyBooks([books EXCEPT ![b].failure = f])
               /\ AsManyBooks([books EXCEPT ![b].idleTimer = f])
    <2>1. /\ AsManyBooks([books EXCEPT ![b] = [books[b] EXCEPT !.failure = f]])
          /\ AsManyBooks([books EXCEPT ![b] = [books[b] EXCEPT !.idleTimer = f]])
      BY <1>2, <1>3
    <2> QED
      BY <1>1, <2>1
  <1>6. ASSUME NEW n \in Nat, NEW p \in SUBSET SnapshotType
        PROVE  /\ AsManyBooks([books EXCEPT ![b].lastEventId = n])
               /\ AsManyBooks([books EXCEPT ![b].pendingCheckpoint = p])
               /\ AsManyBooks([books EXCEPT ![b].lastEventId = n,
                                            ![b].pendingCheckpoint = p])
    <2>1. /\ AsManyBooks([books EXCEPT ![b] = [books[b] EXCEPT !.lastEventId = n]])
          /\ AsManyBooks([books EXCEPT ![b] = [books[b] EXCEPT !.pendingCheckpoint = p]])
          /\ AsManyBooks([books EXCEPT ![b] = [books[b] EXCEPT !.lastEventId = n,
                                                               !.pendingCheckpoint = p]])
      BY <1>2, <1>3
    <2> QED
      BY <1>1, <2>1
  <1> QED
    BY <1>4, <1>5, <1>6

\* AcceptEdit preserves the types.
LEMMA AcceptEditType == ASSUME TypeInv, AcceptEdit PROVE TypeInv'
  <1>1. view.draft # NoDraft /\ view.draft \in Drafts
    BY DEF AcceptEdit, TypeInv, TypeOK
  <1>2. AsManyBooks(books')
    BY JobTypes, BooksType DEF AcceptEdit
  <1>3. /\ queue' \in Seq(JobType) /\ JobsOK' /\ LoadWaits'
        /\ closing' \in [phase : {"no", "flush", "check"}, barrier : BOOLEAN]
    <2>1. Enqueue(AppendJob, closing)
      BY DEF AcceptEdit
    <2>2. closing \in [phase : {"no", "flush", "check"}, barrier : BOOLEAN]
      BY DEF TypeInv, TypeOK
    <2>3. Len(books) \in Nat /\ Len(books') = Len(books)
      BY <1>2 DEF AsManyBooks, TypeInv, TypeOK
    <2>4. LoadWaits'
      BY <1>1, <2>1, JobTypes, EnqueueWaits DEF AcceptEdit
    <2> QED
      BY <1>1, <2>1, <2>2, <2>3, <2>4, JobTypes, EnqueueType
  <1>4. view' \in [draft : Drafts \union {NoDraft}, content : SUBSET Nat]
    BY DEF AcceptEdit, TypeInv, TypeOK
  <1>5. LastEvents'
    BY DEF AcceptEdit, dbVars, TypeInv, LastEvents, IdsOf
  <1>6. nextEdit' \in Nat /\ mine' \subseteq Nat
    BY DEF AcceptEdit, TypeInv, TypeOK
  <1> QED
    BY <1>2, <1>3, <1>4, <1>5, <1>6
       DEF AcceptEdit, AsManyBooks, dbVars, historyVars, TypeInv, TypeOK

\* What a step that leaves the log, or the queue, alone keeps.
LEMMA Kept ==
  ASSUME TypeInv
  PROVE  /\ UNCHANGED events => events' \in Seq(EventType) /\ LastEvents'
         /\ UNCHANGED queue /\ AsManyBooks(books') =>
               queue' \in Seq(JobType) /\ JobsOK'
         /\ UNCHANGED queue /\ (load'.phase = load.phase \/ load.phase # "flush") =>
               LoadWaits'
  <1>1. UNCHANGED events => events' \in Seq(EventType) /\ LastEvents'
    BY DEF TypeInv, TypeOK, LastEvents, IdsOf
  <1>2. UNCHANGED queue /\ AsManyBooks(books') => queue' \in Seq(JobType) /\ JobsOK'
    BY DEF TypeInv, TypeOK, JobsOK, AsManyBooks
  <1>3. UNCHANGED queue /\ (load'.phase = load.phase \/ load.phase # "flush") => LoadWaits'
    BY DEF TypeInv, LoadWaits
  <1> QED
    BY <1>1, <1>2, <1>3

\* The steps of the running append preserve the types.
LEMMA SnapshotBeforeChangeType ==
  ASSUME TypeInv, NEW kept \in BOOLEAN, NEW guarded \in BOOLEAN,
         SnapshotBeforeChange(kept, guarded)
  PROVE  TypeInv'
  <1>1. queue # <<>> /\ running.kind = "append"
    BY DEF SnapshotBeforeChange, Running
  <1>2. SnapshotOf(running.draft, book.lastEventId, running.content) \in SnapshotType
    BY <1>1, RunningType DEF SnapshotOf, SnapshotType, JobType, BookType
  <1>3. snapshots' \subseteq SnapshotType /\ inflight' \subseteq SnapshotType
    BY <1>2 DEF SnapshotBeforeChange, InsertSnapshots, TypeInv, TypeOK
  <1>4. AsManyBooks(books') /\ UNCHANGED <<events, queue>>
    BY BooksType, JobTypes DEF SnapshotBeforeChange
  <1>5. step' \in {"start", "append", "after"}
    BY DEF SnapshotBeforeChange
  <1> QED
    BY <1>3, <1>4, <1>5, Kept
       DEF SnapshotBeforeChange, AsManyBooks, editVars, historyVars, TypeInv, TypeOK

LEMMA AppendSucceedsType == ASSUME TypeInv, AppendSucceeds PROVE TypeInv'
  <1> DEFINE n == Len(events) + 1
  <1>1. queue # <<>> /\ running.kind = "append"
    BY DEF AppendSucceeds, Running
  <1>2. /\ running \in JobType /\ running.draft \in Drafts
        /\ running.book \in 1..Len(books)
    BY <1>1, RunningType
  <1>3. n \in Nat /\ AfterChange(n) \in SnapshotType
    BY <1>2 DEF TypeInv, TypeOK, AfterChange, SnapshotOf, SnapshotType, JobType
  <1>4. events' \in Seq(EventType) /\ LastEvents'
    BY <1>2, InsertEventType DEF AppendSucceeds, JobType
  <1>5. AsManyBooks(books')
    <2>1. AsManyBooks([books EXCEPT ![running.book].lastEventId = n])
      BY <1>2, <1>3, BooksType
    <2>2. AsManyBooks([books EXCEPT ![running.book].lastEventId = n,
                             ![running.book].pendingCheckpoint = {AfterChange(n)}])
      BY <1>2, <1>3, BooksType
    <2> QED
      BY <2>1, <2>2 DEF AppendSucceeds
  <1>6. queue' \in Seq(JobType) /\ JobsOK' /\ LoadWaits' /\ step' \in {"start", "append", "after"}
    BY <1>1, <1>5, FinishType, FinishWaits, Kept DEF AppendSucceeds
  <1> QED
    BY <1>4, <1>5, <1>6
       DEF AppendSucceeds, AsManyBooks, editVars, historyVars, TypeInv, TypeOK

LEMMA AppendFailsType ==
  ASSUME TypeInv, NEW inserted \in BOOLEAN, AppendFails(inserted) PROVE TypeInv'
  <1>1. queue # <<>> /\ running.kind = "append"
    BY DEF AppendFails, Running
  <1>2. /\ running \in JobType /\ running.draft \in Drafts
        /\ running.book \in 1..Len(books)
    BY <1>1, RunningType
  <1>3. events' \in Seq(EventType) /\ LastEvents'
    BY <1>2, InsertEventType, Kept DEF AppendFails, JobType
  <1>4. AsManyBooks(books')
    BY <1>2, BooksType DEF AppendFails
  <1>5. queue' \in Seq(JobType) /\ JobsOK' /\ LoadWaits' /\ step' \in {"start", "append", "after"}
    BY <1>1, <1>4, FinishType, FinishWaits DEF AppendFails
  <1>6. lost' \subseteq Nat /\ faults' \in Nat
    BY <1>2 DEF AppendFails, JobType, TypeInv, TypeOK
  <1> QED
    BY <1>3, <1>4, <1>5, <1>6 DEF AppendFails, AsManyBooks, editVars, TypeInv, TypeOK

LEMMA SnapshotAfterChangeType ==
  ASSUME TypeInv, NEW saved \in BOOLEAN, SnapshotAfterChange(saved) PROVE TypeInv'
  <1>1. queue # <<>> /\ running.kind = "append"
    BY DEF SnapshotAfterChange, Running
  <1>2. /\ running \in JobType /\ running.draft \in Drafts
        /\ running.book \in 1..Len(books) /\ book \in BookType
    BY <1>1, RunningType
  <1>3. AfterChange(book.lastEventId) \in SnapshotType
    BY <1>2 DEF AfterChange, SnapshotOf, SnapshotType, JobType, BookType
  <1>4. snapshots' \subseteq SnapshotType
    BY <1>3 DEF SnapshotAfterChange, InsertSnapshots, TypeInv, TypeOK
  <1>5. AsManyBooks(books')
    <2>1. Uncleared(book.pendingCheckpoint, running.draft, book.lastEventId)
              \in SUBSET SnapshotType
      BY <1>2 DEF Uncleared, BookType
    <2>2. AsManyBooks([books EXCEPT ![running.book].pendingCheckpoint =
              Uncleared(book.pendingCheckpoint, running.draft, book.lastEventId)])
      BY <1>2, <2>1, BooksType
    <2> QED
      BY <1>2, <2>2, BooksType DEF SnapshotAfterChange, book
  <1>6. queue' \in Seq(JobType) /\ JobsOK' /\ LoadWaits' /\ step' \in {"start", "append", "after"}
    BY <1>1, <1>5, FinishType, FinishWaits DEF SnapshotAfterChange
  <1> QED
    BY <1>4, <1>5, <1>6, Kept
       DEF SnapshotAfterChange, AsManyBooks, editVars, historyVars, TypeInv, TypeOK

\* Named versions and late recovery snapshots preserve the types.
LEMMA RecoverySnapshotSettlesType ==
  ASSUME TypeInv, NEW s \in inflight, NEW saved \in BOOLEAN,
         RecoverySnapshotSettles(s, saved)
  PROVE  TypeInv'
  <1>1. AsManyBooks(books') /\ UNCHANGED <<events, queue>>
    BY BooksType, JobTypes DEF RecoverySnapshotSettles
  <1>2. snapshots' \subseteq SnapshotType /\ inflight' \subseteq SnapshotType
    BY DEF RecoverySnapshotSettles, InsertSnapshots, TypeInv, TypeOK
  <1> QED
    BY <1>1, <1>2, Kept
       DEF RecoverySnapshotSettles, AsManyBooks, editVars, historyVars, TypeInv, TypeOK

LEMMA NameVersionType == ASSUME TypeInv, NameVersion PROVE TypeInv'
  <1>1. view.draft # NoDraft /\ view.draft \in Drafts
    BY DEF NameVersion, TypeInv, TypeOK
  <1>2. AsManyBooks(books') /\ UNCHANGED events
    BY BooksType, JobTypes DEF NameVersion, dbVars
  <1>3. /\ queue' \in Seq(JobType) /\ JobsOK' /\ LoadWaits'
        /\ closing' \in [phase : {"no", "flush", "check"}, barrier : BOOLEAN]
    <2>1. Enqueue(NamedJob, closing)
      BY DEF NameVersion
    <2>2. closing \in [phase : {"no", "flush", "check"}, barrier : BOOLEAN]
      BY DEF TypeInv, TypeOK
    <2>3. Len(books) \in Nat /\ Len(books') = Len(books)
      BY <1>2 DEF AsManyBooks, TypeInv, TypeOK
    <2>4. LoadWaits'
      BY <1>1, <2>1, JobTypes, EnqueueWaits DEF NameVersion
    <2> QED
      BY <1>1, <2>1, <2>2, <2>3, <2>4, JobTypes, EnqueueType
  <1> QED
    BY <1>2, <1>3, Kept
       DEF NameVersion, AsManyBooks, dbVars, editVars, historyVars, TypeInv, TypeOK

LEMMA NamedVersionRefusedType == ASSUME TypeInv, NamedVersionRefused PROVE TypeInv'
  <1>1. AsManyBooks(books') /\ UNCHANGED events /\ queue # <<>>
    BY BooksType, JobTypes DEF NamedVersionRefused, Running, dbVars
  <1>2. queue' \in Seq(JobType) /\ JobsOK' /\ LoadWaits' /\ step' \in {"start", "append", "after"}
    BY <1>1, FinishType, FinishWaits DEF NamedVersionRefused
  <1> QED
    BY <1>1, <1>2, Kept
       DEF NamedVersionRefused, AsManyBooks, dbVars, editVars, historyVars, TypeInv, TypeOK

LEMMA NamedVersionSavedType == ASSUME TypeInv, NamedVersionSaved PROVE TypeInv'
  <1>1. queue # <<>> /\ running.kind = "named"
    BY DEF NamedVersionSaved, Running
  <1>2. /\ running \in JobType /\ running.draft \in Drafts
        /\ running.book \in 1..Len(books) /\ book \in BookType
    BY <1>1, RunningType
  <1>3. SnapshotOf(running.draft, book.lastEventId, running.content) \in SnapshotType
    BY <1>2 DEF SnapshotOf, SnapshotType, JobType, BookType
  <1>4. snapshots' \subseteq SnapshotType
    BY <1>3 DEF NamedVersionSaved, InsertSnapshots, TypeInv, TypeOK
  <1>5. AsManyBooks(books')
    <2>1. Uncleared(book.pendingCheckpoint, running.draft, book.lastEventId)
              \in SUBSET SnapshotType
      BY <1>2 DEF Uncleared, BookType
    <2>2. AsManyBooks([books EXCEPT ![running.book].pendingCheckpoint =
              Uncleared(book.pendingCheckpoint, running.draft, book.lastEventId)])
      BY <1>2, <2>1, BooksType
    <2> QED
      BY <1>2, <2>2 DEF NamedVersionSaved, book
  <1>6. queue' \in Seq(JobType) /\ JobsOK' /\ LoadWaits' /\ step' \in {"start", "append", "after"}
    BY <1>1, <1>5, FinishType, FinishWaits DEF NamedVersionSaved
  <1> QED
    BY <1>4, <1>5, <1>6, Kept
       DEF NamedVersionSaved, AsManyBooks, editVars, historyVars, TypeInv, TypeOK

\* Queueing a checkpoint keeps the queue well formed, as does a flush.
LEMMA CheckpointJobType ==
  ASSUME TypeInv, AsManyBooks(books'), NEW caller \in Callers, NEW need \in SUBSET Nat,
         NEW close \in [phase : {"no", "flush", "check"}, barrier : BOOLEAN],
         Enqueue(CheckpointJob(caller, current, need), close),
         \/ caller # "load" /\ load' = load
         \/ load.phase = "none" /\ load'.phase = "flush"
  PROVE  /\ queue' \in Seq(JobType) /\ JobsOK' /\ LoadWaits'
         /\ closing' \in [phase : {"no", "flush", "check"}, barrier : BOOLEAN]
  <1>1. current \in 1..Len(books) /\ current \in Nat \ {0}
    BY JobTypes DEF TypeInv, TypeOK
  <1>2. /\ CheckpointJob(caller, current, need) \in JobType
        /\ CheckpointJob(caller, current, need).book = current
        /\ CheckpointJob(caller, current, need).kind = "checkpoint"
        /\ CheckpointJob(caller, current, need).caller = caller
    BY <1>1, JobTypes
  <1>3. Len(books) \in Nat /\ Len(books') = Len(books)
    BY DEF AsManyBooks, TypeInv, TypeOK
  <1>4. LoadWaits'
    BY <1>2, EnqueueWaits
  <1> QED
    BY <1>1, <1>2, <1>3, <1>4, EnqueueType

LEMMA FlushType ==
  ASSUME TypeInv, NEW caller \in Callers,
         NEW close \in [phase : {"no", "flush", "check"}, barrier : BOOLEAN],
         Flush(caller, close),
         \/ caller # "load" /\ load' = load
         \/ load.phase = "none" /\ load'.phase = "flush"
  PROVE  /\ AsManyBooks(books')
         /\ queue' \in Seq(JobType) /\ JobsOK' /\ LoadWaits'
         /\ closing' \in [phase : {"no", "flush", "check"}, barrier : BOOLEAN]
  <1>1. AsManyBooks(books')
    BY JobTypes, BooksType DEF Flush
  <1>2. mine \in SUBSET Nat
    BY DEF TypeInv, TypeOK
  <1> QED
    BY <1>1, <1>2, CheckpointJobType DEF Flush

\* Asking for a checkpoint preserves the types.
LEMMA IdleCheckpointType == ASSUME TypeInv, IdleCheckpoint PROVE TypeInv'
  <1>1. AsManyBooks(books') /\ UNCHANGED events
    BY BooksType, JobTypes DEF IdleCheckpoint, dbVars
  <1>2. closing \in [phase : {"no", "flush", "check"}, barrier : BOOLEAN]
    BY DEF TypeInv, TypeOK
  <1>3. /\ queue' \in Seq(JobType) /\ JobsOK' /\ LoadWaits'
        /\ closing' \in [phase : {"no", "flush", "check"}, barrier : BOOLEAN]
    BY <1>1, <1>2, CheckpointJobType DEF IdleCheckpoint, Callers
  <1> QED
    BY <1>1, <1>3, Kept
       DEF IdleCheckpoint, AsManyBooks, dbVars, editVars, historyVars, TypeInv, TypeOK

LEMMA FlushPersistenceType == ASSUME TypeInv, FlushPersistence PROVE TypeInv'
  <1>1. closing \in [phase : {"no", "flush", "check"}, barrier : BOOLEAN]
    BY DEF TypeInv, TypeOK
  <1>2. /\ AsManyBooks(books')
        /\ queue' \in Seq(JobType) /\ JobsOK' /\ LoadWaits'
        /\ closing' \in [phase : {"no", "flush", "check"}, barrier : BOOLEAN]
    BY <1>1, FlushType DEF FlushPersistence, Callers
  <1> QED
    BY <1>2, Kept
       DEF FlushPersistence, AsManyBooks, dbVars, editVars, historyVars, TypeInv, TypeOK

LEMMA StartLoadType ==
  ASSUME TypeInv, NEW d \in Drafts, StartLoad(d) PROVE TypeInv'
  <1>1. closing \in [phase : {"no", "flush", "check"}, barrier : BOOLEAN]
    BY DEF TypeInv, TypeOK
  <1>2. /\ AsManyBooks(books')
        /\ queue' \in Seq(JobType) /\ JobsOK' /\ LoadWaits'
        /\ closing' \in [phase : {"no", "flush", "check"}, barrier : BOOLEAN]
    <2>1. load.phase = "none" /\ load'.phase = "flush"
      BY DEF StartLoad, NoLoad
    <2> QED
      BY <1>1, <2>1, FlushType DEF StartLoad, Callers
  <1>3. /\ load' \in [phase : {"none", "flush", "read", "commit"},
                      draft : Drafts \union {NoDraft}, content : SUBSET Nat,
                      latestEventId : Nat, recovered : BOOLEAN]
        /\ load'.draft \in Drafts
    BY DEF StartLoad, NoLoad
  <1> QED
    BY <1>2, <1>3, Kept
       DEF StartLoad, AsManyBooks, dbVars, editVars, historyVars, TypeInv, TypeOK

LEMMA RequestCloseType == ASSUME TypeInv, RequestClose PROVE TypeInv'
  <1>1. [closing EXCEPT !.phase = "flush"]
            \in [phase : {"no", "flush", "check"}, barrier : BOOLEAN]
    BY DEF TypeInv, TypeOK
  <1>2. /\ AsManyBooks(books')
        /\ queue' \in Seq(JobType) /\ JobsOK' /\ LoadWaits'
        /\ closing' \in [phase : {"no", "flush", "check"}, barrier : BOOLEAN]
    BY <1>1, FlushType DEF RequestClose, Callers
  <1> QED
    BY <1>2, Kept
       DEF RequestClose, AsManyBooks, dbVars, editVars, historyVars, TypeInv, TypeOK

LEMMA CloseAgainType == ASSUME TypeInv, CloseAgain PROVE TypeInv'
  <1>1. [closing EXCEPT !.phase = "flush"]
            \in [phase : {"no", "flush", "check"}, barrier : BOOLEAN]
    BY DEF TypeInv, TypeOK
  <1>2. /\ AsManyBooks(books')
        /\ queue' \in Seq(JobType) /\ JobsOK' /\ LoadWaits'
        /\ closing' \in [phase : {"no", "flush", "check"}, barrier : BOOLEAN]
    BY <1>1, FlushType DEF CloseAgain, Callers
  <1> QED
    BY <1>2, Kept
       DEF CloseAgain, AsManyBooks, dbVars, editVars, historyVars, TypeInv, TypeOK

\* A checkpoint that settles preserves the types, whoever waits for it.
LEMMA CheckpointSucceedsType == ASSUME TypeInv, CheckpointSucceeds PROVE TypeInv'
  <1>1. queue # <<>>
    BY DEF CheckpointSucceeds, Running
  <1>2. running \in JobType /\ running.book \in 1..Len(books) /\ book \in BookType
    BY <1>1, RunningType
  <1>3. AsManyBooks(books')
    BY <1>2, BooksType DEF CheckpointSucceeds
  <1>4. queue' \in Seq(JobType) /\ JobsOK' /\ LoadWaits' /\ step' \in {"start", "append", "after"}
    BY <1>1, <1>3, FinishType, FinishWaits DEF CheckpointSucceeds, Resolve
  <1>5. snapshots' \subseteq SnapshotType
    BY <1>2 DEF CheckpointSucceeds, InsertSnapshots, BookType, TypeInv, TypeOK
  <1>6. /\ load' \in [phase : {"none", "flush", "read", "commit"},
                      draft : Drafts \union {NoDraft}, content : SUBSET Nat,
                      latestEventId : Nat, recovered : BOOLEAN]
        /\ load'.phase # "none" => load'.draft \in Drafts
        /\ closing' \in [phase : {"no", "flush", "check"}, barrier : BOOLEAN]
        /\ promised' \subseteq Nat
    BY <1>1, <1>2, RunningType DEF CheckpointSucceeds, Resolve, JobType, TypeInv, TypeOK
  <1> QED
    BY <1>3, <1>4, <1>5, <1>6, Kept
       DEF CheckpointSucceeds, AsManyBooks, editVars, TypeInv, TypeOK

LEMMA CheckpointFailsType == ASSUME TypeInv, CheckpointFails PROVE TypeInv'
  <1>1. AsManyBooks(books') /\ UNCHANGED events /\ queue # <<>>
    BY BooksType, JobTypes DEF CheckpointFails, Running, dbVars
  <1>2. queue' \in Seq(JobType) /\ JobsOK' /\ LoadWaits' /\ step' \in {"start", "append", "after"}
    BY <1>1, FinishType, FinishWaits DEF CheckpointFails, Reject
  <1>3. /\ load' \in [phase : {"none", "flush", "read", "commit"},
                      draft : Drafts \union {NoDraft}, content : SUBSET Nat,
                      latestEventId : Nat, recovered : BOOLEAN]
        /\ load'.phase # "none" => load'.draft \in Drafts
        /\ closing' \in [phase : {"no", "flush", "check"}, barrier : BOOLEAN]
        /\ promised' \subseteq Nat
    BY DEF CheckpointFails, Reject, NoLoad, NotClosing, TypeInv, TypeOK
  <1> QED
    BY <1>1, <1>2, <1>3, Kept
       DEF CheckpointFails, AsManyBooks, dbVars, editVars, TypeInv, TypeOK

\* The loader preserves the types.
LEMMA ReadDraftType ==
  ASSUME TypeInv, NEW s \in LatestSnapshots(load.draft), NEW replayed \in Replays(s),
         ReadDraft(s, replayed)
  PROVE  TypeInv'
  <1>1. load.draft \in Drafts
    BY DEF ReadDraft, TypeInv, TypeOK
  <1>2. /\ s \in SnapshotType /\ EditsOf(replayed) \subseteq Nat
        /\ LatestEventId(s) \in Nat
    BY <1>1, ReadType
  <1>3. s.content \union EditsOf(replayed) \in SUBSET Nat
    BY <1>2 DEF SnapshotType
  <1>4. /\ load' \in [phase : {"none", "flush", "read", "commit"},
                      draft : Drafts \union {NoDraft}, content : SUBSET Nat,
                      latestEventId : Nat, recovered : BOOLEAN]
        /\ load'.draft \in Drafts
    BY <1>1, <1>2, <1>3 DEF ReadDraft, TypeInv, TypeOK
  <1>5. AsManyBooks(books') /\ UNCHANGED <<events, queue>>
    BY BooksType, JobTypes DEF ReadDraft, dbVars
  <1> QED
    BY <1>4, <1>5, Kept
       DEF ReadDraft, AsManyBooks, dbVars, editVars, historyVars, TypeInv, TypeOK

LEMMA AbandonLoadType == ASSUME TypeInv, AbandonLoad PROVE TypeInv'
  <1>1. AsManyBooks(books') /\ UNCHANGED <<events, queue>>
    BY BooksType, JobTypes DEF AbandonLoad, dbVars
  <1> QED
    BY <1>1, Kept
       DEF AbandonLoad, NoLoad, AsManyBooks, dbVars, editVars, historyVars, TypeInv, TypeOK

LEMMA CommitLoadType == ASSUME TypeInv, CommitLoad PROVE TypeInv'
  <1> DEFINE recovered == IF load.recovered
                          THEN {SnapshotOf(load.draft, load.latestEventId, load.content)}
                          ELSE {}
             old == [books EXCEPT ![current].idleTimer = FALSE]
             new == Book(load.latestEventId, recovered)
  <1>1. load.draft \in Drafts /\ load.latestEventId \in Nat /\ load.content \in SUBSET Nat
    BY DEF CommitLoad, TypeInv, TypeOK
  <1>2. recovered \in SUBSET SnapshotType
    BY <1>1 DEF SnapshotOf, SnapshotType
  <1>3. new \in BookType
    BY <1>1, <1>2 DEF Book, BookType
  <1>4. AsManyBooks(old)
    BY JobTypes, BooksType
  <1>5. books' = Append(old, new)
    BY DEF CommitLoad
  <1>6. books' \in Seq(BookType) /\ books' # <<>> /\ Len(books') = Len(books) + 1
    BY <1>3, <1>4, <1>5, AppendProperties DEF AsManyBooks
  <1>7. Len(books) \in Nat /\ Len(queue) \in Nat
    BY DEF TypeInv, TypeOK
  <1>8. /\ queue' \in Seq(JobType) /\ JobsOK' /\ LoadWaits'
        /\ closing' \in [phase : {"no", "flush", "check"}, barrier : BOOLEAN]
    <2>1. CASE load.recovered
      <3> DEFINE job == CheckpointJob("flush", current + 1, {})
      <3>1. current + 1 \in Nat \ {0} /\ current + 1 \in 1..Len(books')
        BY <1>6, <1>7 DEF current
      <3>2. job \in JobType /\ job.book = current + 1
            /\ job.kind = "checkpoint" /\ job.caller = "flush"
        BY <3>1, JobTypes DEF Callers
      <3>3. closing \in [phase : {"no", "flush", "check"}, barrier : BOOLEAN]
        BY DEF TypeInv, TypeOK
      <3>4. Enqueue(job, closing)
        BY <2>1 DEF CommitLoad
      <3> HIDE DEF job
      <3>5. LoadWaits'
        BY <3>2, <3>4, EnqueueWaits DEF CommitLoad
      <3> QED
        BY <1>6, <1>7, <3>1, <3>2, <3>3, <3>4, <3>5, EnqueueType
    <2>2. CASE ~load.recovered
      <3>1. UNCHANGED <<queue, closing>> /\ load.phase # "flush"
        BY <2>2 DEF CommitLoad
      <3>2. \A b \in 1..Len(books) : b \in 1..Len(books')
        BY <1>6, <1>7
      <3>3. JobsOK'
        BY <3>1, <3>2 DEF TypeInv, JobsOK
      <3> QED
        BY <3>1, <3>3, Kept DEF TypeInv, TypeOK
    <2> QED
      BY <2>1, <2>2
  <1>9. view' \in [draft : Drafts \union {NoDraft}, content : SUBSET Nat]
    BY <1>1 DEF CommitLoad
  <1> QED
    BY <1>6, <1>8, <1>9, Kept
       DEF CommitLoad, NoLoad, dbVars, historyVars, TypeInv, TypeOK

\* So do the end of the process and the start of the next one.
LEMMA RestartType ==
  ASSUME TypeInv, Restart, promised' \subseteq Nat PROVE TypeInv'
  <1>1. books' \in Seq(BookType) /\ books' # <<>> /\ queue' = <<>>
    BY DEF Restart, Book, BookType
  <1>2. queue' \in Seq(JobType) /\ JobsOK' /\ LoadWaits'
    BY <1>1 DEF JobsOK, LoadWaits
  <1> QED
    BY <1>1, <1>2, Kept
       DEF Restart, NoView, NoLoad, NotClosing, dbVars, TypeInv, TypeOK

LEMMA CloseWindowType == ASSUME TypeInv, CloseWindow PROVE TypeInv'
  BY RestartType DEF CloseWindow, TypeInv, TypeOK

LEMMA CrashType == ASSUME TypeInv, Crash PROVE TypeInv'
  BY RestartType DEF Crash, TypeInv, TypeOK

\* Every step preserves the types.
LEMMA NextTypeInv == TypeInv /\ [Next]_vars => TypeInv'
  <1> SUFFICES ASSUME TypeInv, [Next]_vars PROVE TypeInv'
    OBVIOUS
  <1>1. CASE AcceptEdit
    BY <1>1, AcceptEditType
  <1>2. CASE QueueStep
    BY <1>2, SnapshotBeforeChangeType, AppendSucceedsType, AppendFailsType,
       SnapshotAfterChangeType, NamedVersionRefusedType, NamedVersionSavedType,
       CheckpointSucceedsType, CheckpointFailsType DEF QueueStep
  <1>3. CASE \E s \in inflight, saved \in BOOLEAN : RecoverySnapshotSettles(s, saved)
    BY <1>3, RecoverySnapshotSettlesType
  <1>4. CASE NameVersion
    BY <1>4, NameVersionType
  <1>5. CASE IdleCheckpoint
    BY <1>5, IdleCheckpointType
  <1>6. CASE FlushPersistence
    BY <1>6, FlushPersistenceType
  <1>7. CASE \E d \in Drafts : StartLoad(d)
    BY <1>7, StartLoadType
  <1>8. CASE LoaderStep
    BY <1>8, ReadDraftType, CommitLoadType, AbandonLoadType DEF LoaderStep
  <1>9. CASE RequestClose \/ CloseAgain \/ CloseWindow \/ Crash
    BY <1>9, RequestCloseType, CloseAgainType, CloseWindowType, CrashType
  <1>10. CASE UNCHANGED vars
    <2>1. AsManyBooks(books') /\ UNCHANGED <<events, queue, load>>
      BY <1>10, BooksType, JobTypes DEF vars
    <2> QED
      BY <1>10, <2>1, Kept DEF vars, TypeInv, TypeOK
  <1> QED
    BY <1>1, <1>2, <1>3, <1>4, <1>5, <1>6, <1>7, <1>8, <1>9, <1>10 DEF Next

\* The state of the save path keeps its types, for any drafts and bounds.
THEOREM TypeCorrect == Spec => []TypeOK
  <1>1. TypeInv => TypeOK
    BY DEF TypeInv
  <1> QED
    BY <1>1, InitTypeInv, NextTypeInv, PTL DEF Spec


-------------------------------------------------------------------------------
(* Flushes tell the truth: the inductive invariant of FlushedIsDurable.    *)
(*                                                                         *)
(* A checkpoint answers for the edits its caller had accepted.  Each is in *)
(* the log, or the bookkeeping has a failure that makes the checkpoint     *)
(* fail, or its append is ahead of the checkpoint in the queue.            *)

\* One of the first n jobs of queue q appends e under bookkeeping b.
AppendQueued(e, b, n, q) ==
    \E k \in 1..n : q[k].kind = "append" /\ q[k].edit = e /\ q[k].book = b

\* So L, B and q are the logged edits, the bookkeepings and the queue.
Covered(e, b, n, L, B, q) ==
    e \in L \/ B[b].failure \/ AppendQueued(e, b, n, q)

CheckpointsCovered ==
    \A i \in 1..Len(queue) : queue[i].kind = "checkpoint" =>
        \A e \in queue[i].content :
            Covered(e, queue[i].book, i - 1, Logged, books, queue)

MineCovered ==
    \A e \in mine : Covered(e, current, Len(queue), Logged, books, queue)

\* A job past its append has its edit in the log.
AfterLogged ==
    step = "after" =>
        queue # <<>> /\ running.kind = "append" /\ running.edit \in Logged

\* One flush in the queue answers the close handler; while the barrier stands
\* it is the last job and covers every edit, and once it has resolved they are
\* all in the log.
CloseWaits ==
    /\ \A i \in 1..Len(queue) : queue[i].caller = "close" =>
           /\ queue[i].kind = "checkpoint"
           /\ closing.phase = "flush"
           /\ \A j \in 1..Len(queue) : queue[j].caller = "close" => i = j
    /\ closing.phase = "flush" /\ closing.barrier =>
           /\ queue # <<>>
           /\ queue[Len(queue)].caller = "close"
           /\ mine \subseteq queue[Len(queue)].content
    /\ closing.phase = "check" /\ closing.barrier => mine \subseteq Logged

DurableInv ==
    /\ TypeInv
    /\ CheckpointsCovered
    /\ MineCovered
    /\ AfterLogged
    /\ CloseWaits
    /\ FlushedIsDurable

\* What no step takes back: logged edits and failures.
Monotone ==
    /\ Logged \subseteq Logged'
    /\ \A b \in 1..Len(books) : books[b].failure => books'[b].failure

\* Covered edits stay so behind the same jobs, and behind one job less when
\* that job has done its part.
LEMMA CoveredKept ==
  ASSUME NEW e, NEW b, NEW n \in Nat, NEW L, NEW B, NEW q, NEW M, NEW C, NEW r,
         L \subseteq M, B[b].failure => C[b].failure, \A k \in 1..n : r[k] = q[k],
         Covered(e, b, n, L, B, q)
  PROVE  Covered(e, b, n, M, C, r)
  BY DEF Covered, AppendQueued

LEMMA CoveredLonger ==
  ASSUME NEW e, NEW b, NEW n \in Nat, NEW L, NEW B, NEW q,
         Covered(e, b, n, L, B, q)
  PROVE  Covered(e, b, n + 1, L, B, q)
  BY DEF Covered, AppendQueued

LEMMA CoveredShift ==
  ASSUME NEW e, NEW b, NEW n \in Nat, n > 0,
         NEW L, NEW B, NEW q, NEW M, NEW C, NEW r,
         L \subseteq M, B[b].failure => C[b].failure,
         \A k \in 1..(n - 1) : r[k] = q[k + 1],
         q[1].kind = "append" => q[1].edit \in M \/ C[q[1].book].failure,
         Covered(e, b, n, L, B, q)
  PROVE  Covered(e, b, n - 1, M, C, r)
  <1>1. CASE e \in L \/ B[b].failure
    BY <1>1 DEF Covered
  <1>2. CASE AppendQueued(e, b, n, q)
    <2>1. PICK k \in 1..n : q[k].kind = "append" /\ q[k].edit = e /\ q[k].book = b
      BY <1>2 DEF AppendQueued
    <2>2. CASE k = 1
      BY <2>1, <2>2 DEF Covered
    <2>3. CASE k # 1
      <3>1. k - 1 \in 1..(n - 1) /\ r[k - 1] = q[(k - 1) + 1] /\ (k - 1) + 1 = k
        BY <2>3
      <3> QED
        BY <2>1, <3>1 DEF Covered, AppendQueued
    <2> QED
      BY <2>2, <2>3
  <1> QED
    BY <1>1, <1>2 DEF Covered

\* The log only grows.
LEMMA InsertEventLogs ==
  ASSUME TypeInv, NEW d, NEW e, NEW start, InsertEvent(d, e, start)
  PROVE  Logged' = Logged \union {e}
  <1>1. /\ Len(events) \in Nat /\ Len(events') = Len(events) + 1
        /\ \A i \in 1..Len(events) : events'[i] = events[i]
        /\ events'[Len(events) + 1].edit = e
    BY DEF TypeInv, TypeOK, InsertEvent
  <1>2. Logged' \subseteq Logged \union {e}
    BY <1>1 DEF Logged
  <1>3. Logged \union {e} \subseteq Logged'
    BY <1>1 DEF Logged
  <1> QED
    BY <1>2, <1>3

\* What a job appended to the chain, the end of the running job and a step that
\* leaves the chain alone do to the coverage of checkpoints.
LEMMA EnqueueCovers ==
  ASSUME DurableInv, NEW job \in JobType, NEW close, Enqueue(job, close), Monotone,
         job.kind = "checkpoint" =>
             \A e \in job.content :
                 Covered(e, job.book, Len(queue), Logged', books', queue)
  PROVE  /\ CheckpointsCovered'
         /\ \A e : \A b \in 1..Len(books) :
               Covered(e, b, Len(queue), Logged, books, queue)
                   => Covered(e, b, Len(queue'), Logged', books', queue')
  <1>1. Len(queue) \in Nat /\ Len(queue') = Len(queue) + 1
    BY DEF DurableInv, TypeInv, TypeOK, Enqueue
  <1>2. \A k \in 1..Len(queue) : queue'[k] = queue[k]
    BY DEF DurableInv, TypeInv, TypeOK, Enqueue
  <1>3. queue'[Len(queue) + 1] = job
    BY DEF DurableInv, TypeInv, TypeOK, Enqueue
  <1>4. CheckpointsCovered'
    <2> SUFFICES ASSUME NEW i \in 1..Len(queue'), queue'[i].kind = "checkpoint",
                        NEW e \in queue'[i].content
                 PROVE  Covered(e, queue'[i].book, i - 1, Logged', books', queue')
      BY DEF CheckpointsCovered
    <2>1. CASE i \in 1..Len(queue)
      <3>1. /\ queue'[i] = queue[i] /\ queue[i].book \in 1..Len(books)
            /\ Covered(e, queue[i].book, i - 1, Logged, books, queue)
        BY <1>2, <2>1 DEF DurableInv, TypeInv, JobsOK, CheckpointsCovered
      <3>2. i - 1 \in Nat /\ \A k \in 1..(i - 1) : queue'[k] = queue[k]
        BY <1>1, <1>2, <2>1
      <3> QED
        BY <3>1, <3>2, CoveredKept DEF Monotone
    <2>2. CASE i = Len(queue) + 1
      <3>1. Covered(e, job.book, Len(queue), Logged', books', queue)
        BY <1>3, <2>2
      <3>2. Covered(e, job.book, Len(queue), Logged', books', queue')
        BY <1>1, <1>2, <3>1, CoveredKept
      <3> QED
        BY <1>1, <1>3, <2>2, <3>2
    <2> QED
      BY <1>1, <2>1, <2>2
  <1>5. ASSUME NEW e, NEW b \in 1..Len(books),
               Covered(e, b, Len(queue), Logged, books, queue)
        PROVE  Covered(e, b, Len(queue'), Logged', books', queue')
    <2>1. Covered(e, b, Len(queue), Logged', books', queue')
      BY <1>1, <1>2, <1>5, CoveredKept DEF Monotone
    <2> QED
      BY <1>1, <2>1, CoveredLonger
  <1> QED
    BY <1>4, <1>5

LEMMA FinishCovers ==
  ASSUME DurableInv, queue # <<>>, Finish, Monotone, AsManyBooks(books'), UNCHANGED mine,
         running.kind = "append" =>
             running.edit \in Logged' \/ books'[running.book].failure
  PROVE  CheckpointsCovered' /\ MineCovered' /\ AfterLogged'
  <1>1. Len(queue) \in Nat /\ Len(queue) > 0 /\ Len(queue') = Len(queue) - 1
    BY DEF DurableInv, TypeInv, TypeOK, Finish
  <1>2. \A k \in 1..Len(queue') : queue'[k] = queue[k + 1]
    BY DEF DurableInv, TypeInv, TypeOK, Finish
  <1>3. queue[1].kind = "append" =>
            queue[1].edit \in Logged' \/ books'[queue[1].book].failure
    BY DEF running, DurableInv, TypeInv, TypeOK
  <1>4. CheckpointsCovered'
    <2> SUFFICES ASSUME NEW i \in 1..Len(queue'), queue'[i].kind = "checkpoint",
                        NEW e \in queue'[i].content
                 PROVE  Covered(e, queue'[i].book, i - 1, Logged', books', queue')
      BY DEF CheckpointsCovered
    <2>1. i + 1 \in 1..Len(queue) /\ (i + 1) - 1 = i /\ i \in Nat /\ i > 0
      BY <1>1
    <2>2. /\ queue[i + 1].book \in 1..Len(books)
          /\ Covered(e, queue[i + 1].book, i, Logged, books, queue)
      BY <1>2, <2>1 DEF DurableInv, TypeInv, JobsOK, CheckpointsCovered
    <2>3. \A k \in 1..(i - 1) : queue'[k] = queue[k + 1]
      BY <1>1, <1>2
    <2>4. Covered(e, queue[i + 1].book, i - 1, Logged', books', queue')
      BY <1>3, <2>1, <2>2, <2>3, CoveredShift DEF Monotone
    <2> QED
      BY <1>2, <2>4
  <1>5. MineCovered'
    <2> SUFFICES ASSUME NEW e \in mine
                 PROVE  Covered(e, current, Len(queue) - 1, Logged', books', queue')
      BY <1>1 DEF MineCovered, current, AsManyBooks
    <2>1. current \in 1..Len(books)
      BY JobTypes DEF DurableInv
    <2>2. Covered(e, current, Len(queue), Logged, books, queue)
      BY DEF DurableInv, MineCovered
    <2>3. \A k \in 1..(Len(queue) - 1) : queue'[k] = queue[k + 1]
      BY <1>1, <1>2
    <2> QED
      BY <1>1, <1>3, <2>1, <2>2, <2>3, CoveredShift DEF Monotone
  <1>6. AfterLogged'
    BY DEF AfterLogged, Finish
  <1> QED
    BY <1>4, <1>5, <1>6

LEMMA KeptCovers ==
  ASSUME DurableInv, UNCHANGED queue, Monotone, AsManyBooks(books'), UNCHANGED mine
  PROVE  CheckpointsCovered' /\ MineCovered'
  <1>1. Len(queue) \in Nat
    BY DEF DurableInv, TypeInv, TypeOK
  <1>2. CheckpointsCovered'
    <2> SUFFICES ASSUME NEW i \in 1..Len(queue), queue[i].kind = "checkpoint",
                        NEW e \in queue[i].content
                 PROVE  Covered(e, queue[i].book, i - 1, Logged', books', queue)
      BY DEF CheckpointsCovered
    <2>1. /\ queue[i].book \in 1..Len(books) /\ i - 1 \in Nat
          /\ Covered(e, queue[i].book, i - 1, Logged, books, queue)
      BY <1>1 DEF DurableInv, TypeInv, JobsOK, CheckpointsCovered
    <2> QED
      BY <2>1, CoveredKept DEF Monotone
  <1>3. MineCovered'
    <2> SUFFICES ASSUME NEW e \in mine
                 PROVE  Covered(e, current, Len(queue), Logged', books', queue)
      BY DEF MineCovered, current, AsManyBooks
    <2>1. current \in 1..Len(books)
      BY JobTypes DEF DurableInv
    <2>2. Covered(e, current, Len(queue), Logged, books, queue)
      BY DEF DurableInv, MineCovered
    <2> QED
      BY <1>1, <2>1, <2>2, CoveredKept DEF Monotone
  <1> QED
    BY <1>2, <1>3

\* A job past its append keeps its place in front, and a kept promise is kept.
LEMMA AfterKept ==
  ASSUME DurableInv, UNCHANGED <<step, promised>>, Logged \subseteq Logged',
         NEW job, queue' = queue \/ queue' = Append(queue, job)
  PROVE  AfterLogged' /\ FlushedIsDurable'
  <1>1. ASSUME queue # <<>> PROVE queue' # <<>> /\ running' = running
    BY <1>1 DEF running, DurableInv, TypeInv, TypeOK
  <1> QED
    BY <1>1 DEF DurableInv, AfterLogged, FlushedIsDurable

\* What the close handler waits for: after a job of someone else is queued,
\* after its own, after a job of someone else ends, after its own ends, and
\* after a step that leaves the chain alone.
LEMMA EnqueueCloses ==
  ASSUME DurableInv, NEW job \in JobType, job.caller # "close", Enqueue(job, closing)
  PROVE  CloseWaits'
  <1>1. Len(queue) \in Nat /\ Len(queue') = Len(queue) + 1
    BY DEF DurableInv, TypeInv, TypeOK, Enqueue
  <1>2. \A k \in 1..Len(queue) : queue'[k] = queue[k]
    BY DEF DurableInv, TypeInv, TypeOK, Enqueue
  <1>3. queue'[Len(queue) + 1] = job
    BY DEF DurableInv, TypeInv, TypeOK, Enqueue
  <1>4. closing'.phase = closing.phase /\ closing'.barrier = FALSE
    BY DEF DurableInv, TypeInv, TypeOK, Enqueue
  <1>5. \A i \in 1..Len(queue') : queue'[i].caller = "close" =>
            i \in 1..Len(queue) /\ queue[i].caller = "close" /\ queue'[i] = queue[i]
    BY <1>1, <1>2, <1>3
  <1> QED
    BY <1>4, <1>5 DEF DurableInv, CloseWaits

LEMMA FlushCloses ==
  ASSUME DurableInv, closing.phase # "flush", UNCHANGED mine,
         Enqueue(CheckpointJob("close", current, mine), [closing EXCEPT !.phase = "flush"])
  PROVE  CloseWaits'
  <1> DEFINE job == CheckpointJob("close", current, mine)
  <1>1. Len(queue) \in Nat /\ Len(queue') = Len(queue) + 1
    BY DEF DurableInv, TypeInv, TypeOK, Enqueue
  <1>2. \A k \in 1..Len(queue) : queue'[k] = queue[k]
    BY DEF DurableInv, TypeInv, TypeOK, Enqueue
  <1>3. queue'[Len(queue) + 1] = job
    BY DEF DurableInv, TypeInv, TypeOK, Enqueue
  <1>4. job.kind = "checkpoint" /\ job.caller = "close" /\ job.content = mine
    BY DEF CheckpointJob
  <1>5. closing'.phase = "flush"
    BY DEF DurableInv, TypeInv, TypeOK, Enqueue
  <1>6. \A i \in 1..Len(queue') : queue'[i].caller = "close" => i = Len(queue) + 1
    BY <1>1, <1>2 DEF DurableInv, CloseWaits
  <1>7. queue' # <<>>
    BY <1>1
  <1> HIDE DEF job
  <1> QED
    BY <1>1, <1>3, <1>4, <1>5, <1>6, <1>7 DEF CloseWaits

LEMMA FinishCloses ==
  ASSUME DurableInv, queue # <<>>, Finish, running.caller # "close",
         UNCHANGED <<mine, closing>>, Logged \subseteq Logged'
  PROVE  CloseWaits'
  <1>1. Len(queue) \in Nat /\ Len(queue) > 0 /\ Len(queue') = Len(queue) - 1
    BY DEF DurableInv, TypeInv, TypeOK, Finish
  <1>2. \A k \in 1..Len(queue') : queue'[k] = queue[k + 1] /\ k + 1 \in 1..Len(queue)
    BY <1>1 DEF DurableInv, TypeInv, TypeOK, Finish
  <1>3. \A i \in 1..Len(queue') : queue'[i].caller = "close" =>
            /\ queue'[i].kind = "checkpoint"
            /\ closing'.phase = "flush"
            /\ \A j \in 1..Len(queue') : queue'[j].caller = "close" => i = j
    <2> SUFFICES ASSUME NEW i \in 1..Len(queue'), queue'[i].caller = "close"
                 PROVE  /\ queue'[i].kind = "checkpoint"
                        /\ closing'.phase = "flush"
                        /\ \A j \in 1..Len(queue') : queue'[j].caller = "close" => i = j
      OBVIOUS
    <2>1. queue'[i].kind = "checkpoint" /\ closing'.phase = "flush"
      BY <1>2 DEF DurableInv, CloseWaits
    <2>2. \A j \in 1..Len(queue') : queue'[j].caller = "close" => i + 1 = j + 1
      BY <1>2 DEF DurableInv, CloseWaits
    <2> QED
      BY <1>1, <2>1, <2>2
  <1>4. ASSUME closing.phase = "flush", closing.barrier
        PROVE  /\ queue' # <<>>
               /\ queue'[Len(queue')].caller = "close"
               /\ mine \subseteq queue'[Len(queue')].content
    <2>1. /\ queue[Len(queue)].caller = "close"
          /\ mine \subseteq queue[Len(queue)].content
      BY <1>4 DEF DurableInv, CloseWaits
    <2>2. Len(queue) # 1
      BY <2>1 DEF running, DurableInv, TypeInv, TypeOK
    <2>3. Len(queue') \in 1..Len(queue') /\ Len(queue') + 1 = Len(queue)
      BY <1>1, <2>2
    <2> QED
      BY <1>2, <2>1, <2>3
  <1> QED
    BY <1>3, <1>4 DEF DurableInv, CloseWaits

LEMMA CloseSettles ==
  ASSUME DurableInv, queue # <<>>, Finish, running.caller = "close",
         UNCHANGED mine, Logged \subseteq Logged',
         \/ closing' = NotClosing
         \/ closing' = [closing EXCEPT !.phase = "check"] /\ running.content \subseteq Logged'
  PROVE  CloseWaits'
  <1>1. Len(queue) \in Nat /\ Len(queue) > 0 /\ Len(queue') = Len(queue) - 1
    BY DEF DurableInv, TypeInv, TypeOK, Finish
  <1>2. \A k \in 1..Len(queue') : queue'[k] = queue[k + 1] /\ k + 1 \in 1..Len(queue)
    BY <1>1 DEF DurableInv, TypeInv, TypeOK, Finish
  <1>3. 1 \in 1..Len(queue) /\ queue[1] = running
    BY <1>1 DEF running, DurableInv, TypeInv, TypeOK
  <1>4. \A j \in 1..Len(queue) : queue[j].caller = "close" => j = 1
    BY <1>3 DEF DurableInv, CloseWaits
  <1>5. \A i \in 1..Len(queue') : queue'[i].caller # "close"
    <2> SUFFICES ASSUME NEW i \in 1..Len(queue'), queue'[i].caller = "close" PROVE FALSE
      OBVIOUS
    <2>1. i + 1 = 1
      BY <1>2, <1>4
    <2> QED
      BY <1>1, <2>1
  <1>6. closing.phase = "flush"
    BY <1>3 DEF DurableInv, CloseWaits
  <1>7. closing' = NotClosing \/ closing' = [closing EXCEPT !.phase = "check"]
    OBVIOUS
  <1>8. closing'.phase # "flush"
    BY <1>7 DEF NotClosing, DurableInv, TypeInv, TypeOK
  <1>9. ASSUME closing'.phase = "check", closing'.barrier PROVE mine \subseteq Logged'
    <2>1. closing.barrier /\ running.content \subseteq Logged'
      BY <1>9 DEF NotClosing, DurableInv, TypeInv, TypeOK
    <2>2. /\ queue[Len(queue)].caller = "close"
          /\ mine \subseteq queue[Len(queue)].content
      BY <1>6, <2>1 DEF DurableInv, CloseWaits
    <2>3. Len(queue) = 1
      BY <1>1, <1>4, <2>2
    <2> QED
      BY <1>3, <2>1, <2>2, <2>3
  <1> QED
    BY <1>5, <1>8, <1>9 DEF CloseWaits

LEMMA KeptCloses ==
  ASSUME DurableInv, UNCHANGED <<queue, closing>>, mine' \subseteq mine,
         Logged \subseteq Logged'
  PROVE  CloseWaits'
  BY DEF DurableInv, CloseWaits

\* The initial state satisfies the invariant.
LEMMA InitDurable == Init => DurableInv
  <1> SUFFICES ASSUME Init PROVE DurableInv
    OBVIOUS
  <1>1. queue = <<>> /\ mine = {} /\ promised = {} /\ step = "start"
        /\ closing = NotClosing
    BY DEF Init
  <1> QED
    BY <1>1, InitTypeInv
       DEF DurableInv, CheckpointsCovered, MineCovered, AfterLogged, CloseWaits,
           FlushedIsDurable, NotClosing

\* Three kinds of step preserve it: a job other than the close flush is queued,
\* a job other than a checkpoint ends, and the chain is left alone.
LEMMA EnqueueDurable ==
  ASSUME DurableInv, TypeInv', NEW job \in JobType, job.caller # "close",
         Enqueue(job, closing), Monotone, AsManyBooks(books'),
         UNCHANGED <<step, promised, mine>>,
         job.kind = "checkpoint" =>
             job.content = {} \/ (job.content = mine /\ job.book = current)
  PROVE  DurableInv'
  <1>1. Len(queue) \in Nat
    BY DEF DurableInv, TypeInv, TypeOK
  <1>2. current \in 1..Len(books)
    BY JobTypes DEF DurableInv
  <1>3. \A e \in mine : Covered(e, current, Len(queue), Logged', books', queue)
    BY <1>1, <1>2, CoveredKept DEF DurableInv, MineCovered, Monotone
  <1>4. /\ CheckpointsCovered'
        /\ \A e : \A b \in 1..Len(books) :
               Covered(e, b, Len(queue), Logged, books, queue)
                   => Covered(e, b, Len(queue'), Logged', books', queue')
    BY <1>3, EnqueueCovers
  <1>5. MineCovered'
    BY <1>2, <1>4 DEF DurableInv, MineCovered, current, AsManyBooks
  <1>6. AfterLogged' /\ FlushedIsDurable'
    BY AfterKept DEF Enqueue, Monotone
  <1>7. CloseWaits'
    BY EnqueueCloses
  <1> QED
    BY <1>4, <1>5, <1>6, <1>7 DEF DurableInv

LEMMA FinishDurable ==
  ASSUME DurableInv, TypeInv', queue # <<>>, running.kind # "checkpoint", Finish,
         Monotone, AsManyBooks(books'), UNCHANGED <<mine, closing, promised>>,
         running.kind = "append" =>
             running.edit \in Logged' \/ books'[running.book].failure
  PROVE  DurableInv'
  <1>1. running.caller # "close"
    <2>1. 1 \in 1..Len(queue) /\ queue[1] = running
      BY DEF running, DurableInv, TypeInv, TypeOK
    <2> QED
      BY <2>1 DEF DurableInv, CloseWaits
  <1>2. CheckpointsCovered' /\ MineCovered' /\ AfterLogged'
    BY FinishCovers
  <1>3. CloseWaits'
    BY <1>1, FinishCloses DEF Monotone
  <1>4. FlushedIsDurable'
    BY DEF DurableInv, FlushedIsDurable, Monotone
  <1> QED
    BY <1>2, <1>3, <1>4 DEF DurableInv

LEMMA KeptDurable ==
  ASSUME DurableInv, TypeInv', Monotone, AsManyBooks(books'), AfterLogged',
         UNCHANGED <<queue, closing, mine, promised>>
  PROVE  DurableInv'
  <1>1. CheckpointsCovered' /\ MineCovered'
    BY KeptCovers
  <1>2. CloseWaits'
    BY KeptCloses DEF Monotone
  <1>3. FlushedIsDurable'
    BY DEF DurableInv, FlushedIsDurable, Monotone
  <1> QED
    BY <1>1, <1>2, <1>3 DEF DurableInv

\* The log and the failures after a change to a book's other fields.
LEMMA BookChange ==
  ASSUME TypeInv, NEW b \in 1..Len(books), UNCHANGED events,
         \/ books' = books
         \/ \E f \in BOOLEAN : books' = [books EXCEPT ![b].idleTimer = f]
         \/ \E p \in SUBSET SnapshotType :
                books' = [books EXCEPT ![b].pendingCheckpoint = p]
  PROVE  Monotone /\ AsManyBooks(books') /\ Logged' = Logged
  <1>1. AsManyBooks(books')
    BY BooksType
  <1>2. Logged' = Logged
    BY DEF Logged
  <1>3. \A i \in 1..Len(books) : books[i] \in BookType
    BY DEF TypeInv, TypeOK
  <1>4. books \in Seq(BookType)
    BY DEF TypeInv, TypeOK
  <1>5. ASSUME NEW i \in 1..Len(books), books[i].failure PROVE books'[i].failure
    <2>1. CASE books' = books
      BY <1>5, <2>1
    <2>2. ASSUME NEW f \in BOOLEAN, books' = [books EXCEPT ![b].idleTimer = f]
          PROVE  books'[i].failure
      BY <1>3, <1>4, <1>5, <2>2 DEF BookType
    <2>3. ASSUME NEW p \in SUBSET SnapshotType,
                 books' = [books EXCEPT ![b].pendingCheckpoint = p]
          PROVE  books'[i].failure
      BY <1>3, <1>4, <1>5, <2>3 DEF BookType
    <2> QED
      BY <2>1, <2>2, <2>3
  <1> QED
    BY <1>1, <1>2, <1>5 DEF Monotone

\* The same after the running append has inserted its event or failed.
LEMMA AppendLogs ==
  ASSUME TypeInv, Running("append"), NEW n \in Nat,
         InsertEvent(running.draft, running.edit, running.content),
         \/ books' = [books EXCEPT ![running.book].lastEventId = n]
         \/ books' = [books EXCEPT ![running.book].lastEventId = n,
                                   ![running.book].pendingCheckpoint = {AfterChange(n)}]
         \/ books' = [books EXCEPT ![running.book].failure = TRUE]
  PROVE  Monotone /\ running.edit \in Logged'
  <1>1. Logged' = Logged \union {running.edit}
    BY InsertEventLogs
  <1>2. running.book \in 1..Len(books)
    BY RunningType DEF Running
  <1>3. books \in Seq(BookType) /\ \A i \in 1..Len(books) : books[i] \in BookType
    BY DEF TypeInv, TypeOK
  <1>4. ASSUME NEW i \in 1..Len(books), books[i].failure PROVE books'[i].failure
    <2>1. CASE books' = [books EXCEPT ![running.book].lastEventId = n]
      BY <1>2, <1>3, <1>4, <2>1 DEF BookType
    <2>2. CASE books' = [books EXCEPT ![running.book].lastEventId = n,
                              ![running.book].pendingCheckpoint = {AfterChange(n)}]
      BY <1>2, <1>3, <1>4, <2>2 DEF BookType
    <2>3. CASE books' = [books EXCEPT ![running.book].failure = TRUE]
      BY <1>2, <1>3, <1>4, <2>3 DEF BookType
    <2> QED
      BY <2>1, <2>2, <2>3
  <1> QED
    BY <1>1, <1>4 DEF Monotone

LEMMA FailureSet ==
  ASSUME TypeInv, queue # <<>>,
         books' = [books EXCEPT ![running.book].failure = TRUE]
  PROVE  /\ books'[running.book].failure
         /\ \A i \in 1..Len(books) : books[i].failure => books'[i].failure
  <1>1. running.book \in 1..Len(books)
    BY RunningType
  <1>2. books \in Seq(BookType) /\ \A i \in 1..Len(books) : books[i] \in BookType
    BY DEF TypeInv, TypeOK
  <1> QED
    BY <1>1, <1>2 DEF BookType

\* Each action preserves the invariant.
LEMMA AcceptEditDurable == ASSUME DurableInv, AcceptEdit PROVE DurableInv'
  <1>1. TypeInv'
    BY AcceptEditType DEF DurableInv
  <1>2. Monotone /\ AsManyBooks(books') /\ Logged' = Logged
    BY BookChange, JobTypes DEF AcceptEdit, dbVars, DurableInv
  <1>3. /\ AppendJob \in JobType /\ AppendJob.caller # "close"
        /\ AppendJob.kind = "append" /\ AppendJob.edit = nextEdit
        /\ AppendJob.book = current
    BY JobTypes DEF AcceptEdit, AppendJob, DurableInv
  <1>4. Enqueue(AppendJob, closing) /\ mine' = mine \union {nextEdit}
        /\ UNCHANGED <<step, promised>>
    BY DEF AcceptEdit, historyVars
  <1> DEFINE job == AppendJob
  <1>5. job \in JobType /\ job.caller # "close" /\ job.kind = "append"
        /\ job.edit = nextEdit /\ job.book = current /\ Enqueue(job, closing)
    BY <1>3, <1>4
  <1> HIDE DEF job
  <1>6. /\ CheckpointsCovered'
        /\ \A e : \A b \in 1..Len(books) :
               Covered(e, b, Len(queue), Logged, books, queue)
                   => Covered(e, b, Len(queue'), Logged', books', queue')
    BY <1>2, <1>5, EnqueueCovers
  <1>7. MineCovered'
    <2>1. current' = current /\ current \in 1..Len(books)
      BY <1>2, JobTypes DEF AsManyBooks, current, DurableInv
    <2>2. \A e \in mine : Covered(e, current, Len(queue'), Logged', books', queue')
      BY <1>6, <2>1 DEF DurableInv, MineCovered
    <2>3. Len(queue') \in 1..Len(queue') /\ queue'[Len(queue')] = job
      BY <1>5 DEF Enqueue, DurableInv, TypeInv, TypeOK
    <2>4. Covered(nextEdit, current, Len(queue'), Logged', books', queue')
      BY <1>5, <2>3 DEF Covered, AppendQueued
    <2> QED
      BY <1>4, <2>1, <2>2, <2>4 DEF MineCovered
  <1>8. AfterLogged' /\ FlushedIsDurable'
    BY <1>2, <1>4, <1>5, AfterKept DEF Enqueue
  <1>9. CloseWaits'
    BY <1>5, EnqueueCloses
  <1> QED
    BY <1>1, <1>6, <1>7, <1>8, <1>9 DEF DurableInv

LEMMA SnapshotBeforeChangeDurable ==
  ASSUME DurableInv, NEW kept \in BOOLEAN, NEW guarded \in BOOLEAN,
         SnapshotBeforeChange(kept, guarded)
  PROVE  DurableInv'
  <1>1. TypeInv'
    BY SnapshotBeforeChangeType DEF DurableInv
  <1>2. Monotone /\ AsManyBooks(books')
    BY BookChange, JobTypes DEF SnapshotBeforeChange, DurableInv
  <1>3. AfterLogged'
    BY DEF SnapshotBeforeChange, AfterLogged
  <1> QED
    BY <1>1, <1>2, <1>3, KeptDurable DEF SnapshotBeforeChange, editVars, historyVars

LEMMA AppendSucceedsDurable == ASSUME DurableInv, AppendSucceeds PROVE DurableInv'
  <1> DEFINE n == Len(events) + 1
  <1>1. TypeInv /\ TypeInv' /\ queue # <<>> /\ running.kind = "append"
    BY AppendSucceedsType DEF DurableInv, AppendSucceeds, Running
  <1>2. /\ n \in Nat /\ AfterChange(n) \in SnapshotType
        /\ running.book \in 1..Len(books)
    <2>1. /\ running \in JobType /\ running.draft \in Drafts
          /\ running.book \in 1..Len(books)
      BY <1>1, RunningType
    <2> QED
      BY <1>1, <2>1 DEF TypeInv, TypeOK, AfterChange, SnapshotOf, SnapshotType, JobType
  <1>3. Monotone /\ running.edit \in Logged'
    <2>1. Running("append") /\ InsertEvent(running.draft, running.edit, running.content)
      BY DEF AppendSucceeds
    <2>2. \/ books' = [books EXCEPT ![running.book].lastEventId = n]
          \/ books' = [books EXCEPT ![running.book].lastEventId = n,
                                    ![running.book].pendingCheckpoint = {AfterChange(n)}]
      BY DEF AppendSucceeds
    <2> HIDE DEF n
    <2> QED
      BY <1>1, <1>2, <2>1, <2>2, AppendLogs
  <1>4. AsManyBooks(books')
    <2>1. AsManyBooks([books EXCEPT ![running.book].lastEventId = n])
      BY <1>1, <1>2, BooksType
    <2>2. AsManyBooks([books EXCEPT ![running.book].lastEventId = n,
                             ![running.book].pendingCheckpoint = {AfterChange(n)}])
      BY <1>1, <1>2, BooksType
    <2> QED
      BY <2>1, <2>2 DEF AppendSucceeds
  <1>5. UNCHANGED <<mine, closing, promised>>
    BY DEF AppendSucceeds, editVars, historyVars
  <1>6. CASE book.failure
    BY <1>1, <1>3, <1>4, <1>5, <1>6, FinishDurable DEF AppendSucceeds
  <1>7. CASE ~book.failure
    <2>1. UNCHANGED queue
      BY <1>7 DEF AppendSucceeds
    <2>2. AfterLogged'
      BY <1>1, <1>3, <2>1 DEF AfterLogged, running
    <2> QED
      BY <1>1, <1>3, <1>4, <1>5, <2>1, <2>2, KeptDurable
  <1> QED
    BY <1>6, <1>7

LEMMA AppendFailsDurable ==
  ASSUME DurableInv, NEW inserted \in BOOLEAN, AppendFails(inserted) PROVE DurableInv'
  <1>1. TypeInv /\ TypeInv' /\ queue # <<>> /\ running.kind = "append"
        /\ running.book \in 1..Len(books)
    BY AppendFailsType, RunningType DEF DurableInv, AppendFails, Running
  <1>2. AsManyBooks(books')
    BY <1>1, BooksType DEF AppendFails
  <1>3. Logged \subseteq Logged'
    <2>1. CASE inserted
      BY <1>1, <2>1, InsertEventLogs DEF AppendFails
    <2>2. CASE ~inserted
      BY <2>2 DEF AppendFails, Logged
    <2> QED
      BY <2>1, <2>2
  <1>4. /\ books'[running.book].failure
        /\ \A i \in 1..Len(books) : books[i].failure => books'[i].failure
    BY <1>1, FailureSet DEF AppendFails
  <1> QED
    BY <1>1, <1>2, <1>3, <1>4, FinishDurable DEF Monotone, AppendFails, editVars

LEMMA SnapshotAfterChangeDurable ==
  ASSUME DurableInv, NEW saved \in BOOLEAN, SnapshotAfterChange(saved) PROVE DurableInv'
  <1>1. TypeInv /\ TypeInv' /\ queue # <<>> /\ running.kind = "append"
        /\ running.book \in 1..Len(books) /\ book \in BookType
    BY SnapshotAfterChangeType, RunningType DEF DurableInv, SnapshotAfterChange, Running
  <1>2. Uncleared(book.pendingCheckpoint, running.draft, book.lastEventId)
            \in SUBSET SnapshotType
    BY <1>1 DEF Uncleared, BookType
  <1>3. Monotone /\ AsManyBooks(books') /\ Logged' = Logged
    BY <1>1, <1>2, BookChange DEF SnapshotAfterChange, book
  <1>4. running.edit \in Logged'
    BY <1>3 DEF DurableInv, AfterLogged, SnapshotAfterChange
  <1> QED
    BY <1>1, <1>3, <1>4, FinishDurable DEF SnapshotAfterChange, editVars, historyVars

LEMMA RecoverySnapshotSettlesDurable ==
  ASSUME DurableInv, NEW s \in inflight, NEW saved \in BOOLEAN,
         RecoverySnapshotSettles(s, saved)
  PROVE  DurableInv'
  <1>1. TypeInv'
    BY RecoverySnapshotSettlesType DEF DurableInv
  <1>2. Monotone /\ AsManyBooks(books') /\ Logged' = Logged
    BY BookChange, JobTypes DEF RecoverySnapshotSettles, DurableInv
  <1>3. AfterLogged'
    BY <1>2 DEF RecoverySnapshotSettles, AfterLogged, running, DurableInv
  <1> QED
    BY <1>1, <1>2, <1>3, KeptDurable DEF RecoverySnapshotSettles, editVars, historyVars

LEMMA NameVersionDurable == ASSUME DurableInv, NameVersion PROVE DurableInv'
  <1>1. TypeInv'
    BY NameVersionType DEF DurableInv
  <1>2. Monotone /\ AsManyBooks(books')
    BY BookChange, JobTypes DEF NameVersion, dbVars, DurableInv
  <1>3. NamedJob \in JobType /\ NamedJob.caller # "close" /\ NamedJob.kind # "checkpoint"
    BY JobTypes DEF NameVersion, NamedJob, DurableInv
  <1> QED
    BY <1>1, <1>2, <1>3, EnqueueDurable DEF NameVersion, editVars, historyVars

LEMMA NamedVersionRefusedDurable ==
  ASSUME DurableInv, NamedVersionRefused PROVE DurableInv'
  <1>1. TypeInv' /\ queue # <<>> /\ running.kind = "named"
    BY NamedVersionRefusedType DEF DurableInv, NamedVersionRefused, Running
  <1>2. Monotone /\ AsManyBooks(books')
    BY BookChange, JobTypes DEF NamedVersionRefused, dbVars, DurableInv
  <1> QED
    BY <1>1, <1>2, FinishDurable DEF NamedVersionRefused, editVars, historyVars

LEMMA NamedVersionSavedDurable ==
  ASSUME DurableInv, NamedVersionSaved PROVE DurableInv'
  <1>1. TypeInv /\ TypeInv' /\ queue # <<>> /\ running.kind = "named"
        /\ running.book \in 1..Len(books) /\ book \in BookType
    BY NamedVersionSavedType, RunningType DEF DurableInv, NamedVersionSaved, Running
  <1>2. Uncleared(book.pendingCheckpoint, running.draft, book.lastEventId)
            \in SUBSET SnapshotType
    BY <1>1 DEF Uncleared, BookType
  <1>3. Monotone /\ AsManyBooks(books')
    BY <1>1, <1>2, BookChange DEF NamedVersionSaved, book
  <1> QED
    BY <1>1, <1>3, FinishDurable DEF NamedVersionSaved, editVars, historyVars

LEMMA IdleCheckpointDurable == ASSUME DurableInv, IdleCheckpoint PROVE DurableInv'
  <1>1. TypeInv'
    BY IdleCheckpointType DEF DurableInv
  <1>2. Monotone /\ AsManyBooks(books')
    BY BookChange, JobTypes DEF IdleCheckpoint, dbVars, DurableInv
  <1> DEFINE job == CheckpointJob("idle", current, {})
  <1>3. job \in JobType /\ job.caller # "close" /\ job.content = {}
    BY JobTypes DEF DurableInv, CheckpointJob, Callers
  <1>4. Enqueue(job, closing)
    BY DEF IdleCheckpoint
  <1>5. UNCHANGED <<step, promised, mine>>
    BY DEF IdleCheckpoint, editVars, historyVars
  <1> HIDE DEF job
  <1>6. job.kind = "checkpoint" =>
            job.content = {} \/ (job.content = mine /\ job.book = current)
    BY <1>3
  <1> QED
    BY <1>1, <1>2, <1>3, <1>4, <1>5, <1>6, EnqueueDurable

\* A flush of someone other than the close handler.
LEMMA FlushDurable ==
  ASSUME DurableInv, TypeInv', NEW caller \in Callers, caller # "close",
         Flush(caller, closing), UNCHANGED <<events, step, promised, mine>>
  PROVE  DurableInv'
  <1>1. Monotone /\ AsManyBooks(books')
    BY BookChange, JobTypes DEF Flush, DurableInv
  <1> DEFINE job == CheckpointJob(caller, current, mine)
  <1>2. mine \in SUBSET Nat /\ current \in Nat \ {0}
    BY JobTypes DEF DurableInv, TypeInv, TypeOK
  <1>3. /\ job \in JobType /\ job.caller # "close"
        /\ job.content = mine /\ job.book = current
    <2>1. job \in JobType
      BY <1>2, JobTypes DEF DurableInv
    <2> QED
      BY <2>1 DEF CheckpointJob
  <1>4. Enqueue(job, closing)
    BY DEF Flush
  <1> HIDE DEF job
  <1> QED
    BY <1>1, <1>3, <1>4, EnqueueDurable

LEMMA FlushPersistenceDurable == ASSUME DurableInv, FlushPersistence PROVE DurableInv'
  BY FlushPersistenceType, FlushDurable
     DEF FlushPersistence, DurableInv, Callers, dbVars, editVars, historyVars

LEMMA StartLoadDurable ==
  ASSUME DurableInv, NEW d \in Drafts, StartLoad(d) PROVE DurableInv'
  BY StartLoadType, FlushDurable
     DEF StartLoad, DurableInv, Callers, dbVars, editVars, historyVars

\* A checkpoint that succeeds answers only for edits in the log.
LEMMA CheckpointContent ==
  ASSUME DurableInv, queue # <<>>, running.kind = "checkpoint", ~book.failure
  PROVE  running.content \subseteq Logged
  <1>1. 1 \in 1..Len(queue) /\ queue[1] = running
    BY DEF running, DurableInv, TypeInv, TypeOK
  <1>2. \A e \in running.content :
            Covered(e, running.book, 1 - 1, Logged, books, queue)
    BY <1>1 DEF DurableInv, CheckpointsCovered
  <1>3. \A e : ~AppendQueued(e, running.book, 1 - 1, queue)
    BY DEF AppendQueued
  <1> QED
    BY <1>2, <1>3 DEF Covered, book

LEMMA CheckpointSucceedsDurable ==
  ASSUME DurableInv, CheckpointSucceeds PROVE DurableInv'
  <1>1. TypeInv /\ TypeInv' /\ queue # <<>> /\ running.kind = "checkpoint"
        /\ running.book \in 1..Len(books) /\ ~book.failure /\ Finish
    BY CheckpointSucceedsType, RunningType
       DEF DurableInv, CheckpointSucceeds, Running
  <1>2. Monotone /\ AsManyBooks(books') /\ Logged' = Logged
    BY <1>1, BookChange DEF CheckpointSucceeds
  <1>3. running.content \subseteq Logged
    BY <1>1, CheckpointContent
  <1>4. UNCHANGED mine /\ promised' = promised \union running.content
        /\ closing' = IF running.caller = "close"
                      THEN [closing EXCEPT !.phase = "check"] ELSE closing
    BY DEF CheckpointSucceeds, Resolve, editVars
  <1>5. CheckpointsCovered' /\ MineCovered' /\ AfterLogged'
    BY <1>1, <1>2, <1>4, FinishCovers
  <1>6. CloseWaits'
    <2>1. CASE running.caller = "close"
      BY <1>1, <1>2, <1>3, <1>4, <2>1, CloseSettles
    <2>2. CASE running.caller # "close"
      BY <1>1, <1>2, <1>4, <2>2, FinishCloses
    <2> QED
      BY <2>1, <2>2
  <1>7. FlushedIsDurable'
    BY <1>2, <1>3, <1>4 DEF DurableInv, FlushedIsDurable
  <1> QED
    BY <1>1, <1>5, <1>6, <1>7 DEF DurableInv

LEMMA CheckpointFailsDurable ==
  ASSUME DurableInv, CheckpointFails PROVE DurableInv'
  <1>1. TypeInv /\ TypeInv' /\ queue # <<>> /\ running.kind = "checkpoint" /\ Finish
    BY CheckpointFailsType DEF DurableInv, CheckpointFails, Running
  <1>2. Monotone /\ AsManyBooks(books') /\ Logged' = Logged
    BY <1>1, BookChange, JobTypes DEF CheckpointFails, dbVars
  <1>3. UNCHANGED <<mine, promised>>
        /\ closing' = IF running.caller = "close" THEN NotClosing ELSE closing
    BY DEF CheckpointFails, Reject, editVars
  <1>4. CheckpointsCovered' /\ MineCovered' /\ AfterLogged'
    BY <1>1, <1>2, <1>3, FinishCovers
  <1>5. CloseWaits'
    <2>1. CASE running.caller = "close"
      BY <1>1, <1>2, <1>3, <2>1, CloseSettles
    <2>2. CASE running.caller # "close"
      BY <1>1, <1>2, <1>3, <2>2, FinishCloses
    <2> QED
      BY <2>1, <2>2
  <1>6. FlushedIsDurable'
    BY <1>2, <1>3 DEF DurableInv, FlushedIsDurable
  <1> QED
    BY <1>1, <1>4, <1>5, <1>6 DEF DurableInv

LEMMA ReadDraftDurable ==
  ASSUME DurableInv, NEW s \in LatestSnapshots(load.draft), NEW replayed \in Replays(s),
         ReadDraft(s, replayed)
  PROVE  DurableInv'
  <1>1. TypeInv'
    BY ReadDraftType DEF DurableInv
  <1>2. Monotone /\ AsManyBooks(books') /\ Logged' = Logged
    BY BookChange, JobTypes DEF ReadDraft, dbVars, DurableInv
  <1>3. AfterLogged'
    BY <1>2 DEF ReadDraft, AfterLogged, running, DurableInv
  <1> QED
    BY <1>1, <1>2, <1>3, KeptDurable DEF ReadDraft, editVars, historyVars

LEMMA AbandonLoadDurable == ASSUME DurableInv, AbandonLoad PROVE DurableInv'
  <1>1. TypeInv'
    BY AbandonLoadType DEF DurableInv
  <1>2. Monotone /\ AsManyBooks(books') /\ Logged' = Logged
    BY BookChange, JobTypes DEF AbandonLoad, dbVars, DurableInv
  <1>3. AfterLogged'
    BY <1>2 DEF AbandonLoad, AfterLogged, running, DurableInv
  <1> QED
    BY <1>1, <1>2, <1>3, KeptDurable DEF AbandonLoad, editVars, historyVars

LEMMA CommitLoadDurable == ASSUME DurableInv, CommitLoad PROVE DurableInv'
  <1> DEFINE recovered == IF load.recovered
                          THEN {SnapshotOf(load.draft, load.latestEventId, load.content)}
                          ELSE {}
             old == [books EXCEPT ![current].idleTimer = FALSE]
             new == Book(load.latestEventId, recovered)
             job == CheckpointJob("flush", current + 1, {})
  <1>1. TypeInv /\ TypeInv'
    BY CommitLoadType DEF DurableInv
  <1>2. books' = Append(old, new) /\ mine' = {} /\ UNCHANGED <<events, step, promised>>
    BY DEF CommitLoad, dbVars, historyVars
  <1>3. Monotone
    <2>1. Logged' = Logged
      BY <1>2 DEF Logged
    <2>2. current \in 1..Len(books)
      BY <1>1, JobTypes
    <2>3. books \in Seq(BookType) /\ \A i \in 1..Len(books) : books[i] \in BookType
      BY <1>1 DEF TypeInv, TypeOK
    <2>4. AsManyBooks(old)
      BY <1>1, <2>2, BooksType
    <2>5. \A i \in 1..Len(books) : books'[i] = old[i]
      BY <1>2, <2>4, AppendProperties DEF AsManyBooks
    <2>6. \A i \in 1..Len(books) : old[i].failure = books[i].failure
      BY <2>2, <2>3 DEF BookType
    <2> QED
      BY <2>1, <2>5, <2>6 DEF Monotone
  <1>4. MineCovered'
    BY <1>2 DEF MineCovered
  <1>5. Logged \subseteq Logged'
    BY <1>3 DEF Monotone
  <1>6. CASE load.recovered
    <2>1. current + 1 \in Nat \ {0}
      BY <1>1, JobTypes
    <2>2. job \in JobType /\ job.caller # "close" /\ job.content = {}
      BY <1>1, <2>1, JobTypes DEF CheckpointJob, Callers
    <2>3. Enqueue(job, closing)
      BY <1>6 DEF CommitLoad
    <2> HIDE DEF job
    <2>4. CheckpointsCovered'
      BY <1>3, <2>2, <2>3, EnqueueCovers
    <2>5. CloseWaits'
      BY <2>2, <2>3, EnqueueCloses
    <2>6. AfterLogged' /\ FlushedIsDurable'
      BY <1>2, <1>5, <2>3, AfterKept DEF Enqueue
    <2> QED
      BY <1>1, <1>4, <2>4, <2>5, <2>6 DEF DurableInv
  <1>7. CASE ~load.recovered
    <2>1. UNCHANGED <<queue, closing>>
      BY <1>7 DEF CommitLoad
    <2>2. CheckpointsCovered'
      <3> SUFFICES ASSUME NEW i \in 1..Len(queue), queue[i].kind = "checkpoint",
                          NEW e \in queue[i].content
                   PROVE  Covered(e, queue[i].book, i - 1, Logged', books', queue)
        BY <2>1 DEF CheckpointsCovered
      <3>1. /\ queue[i].book \in 1..Len(books) /\ i - 1 \in Nat
            /\ Covered(e, queue[i].book, i - 1, Logged, books, queue)
        BY <1>1 DEF DurableInv, TypeInv, TypeOK, JobsOK, CheckpointsCovered
      <3> QED
        BY <1>3, <3>1, CoveredKept DEF Monotone
    <2>3. CloseWaits'
      BY <1>2, <1>5, <2>1, KeptCloses
    <2>4. AfterLogged' /\ FlushedIsDurable'
      BY <1>2, <1>5, <2>1, AfterKept
    <2> QED
      BY <1>1, <1>4, <2>2, <2>3, <2>4 DEF DurableInv
  <1> QED
    BY <1>6, <1>7

\* The first close flush and every further one.
LEMMA CloseFlushDurable ==
  ASSUME DurableInv, TypeInv', closing.phase # "flush",
         Flush("close", [closing EXCEPT !.phase = "flush"]),
         UNCHANGED <<events, step, promised, mine>>
  PROVE  DurableInv'
  <1>1. Monotone /\ AsManyBooks(books')
    BY BookChange, JobTypes DEF Flush, DurableInv
  <1> DEFINE job == CheckpointJob("close", current, mine)
             close == [closing EXCEPT !.phase = "flush"]
  <1>2. mine \in SUBSET Nat /\ current \in Nat \ {0} /\ current \in 1..Len(books)
        /\ Len(queue) \in Nat
    BY JobTypes DEF DurableInv, TypeInv, TypeOK
  <1>3. job \in JobType /\ job.content = mine /\ job.book = current
    BY <1>2, JobTypes DEF DurableInv, CheckpointJob, Callers
  <1>4. Enqueue(job, close)
    BY DEF Flush
  <1>5. CloseWaits'
    BY <1>4, FlushCloses
  <1> HIDE DEF job, close
  <1>6. \A e \in mine : Covered(e, current, Len(queue), Logged', books', queue)
    BY <1>1, <1>2, CoveredKept DEF DurableInv, MineCovered, Monotone
  <1>7. /\ CheckpointsCovered'
        /\ \A e : \A b \in 1..Len(books) :
               Covered(e, b, Len(queue), Logged, books, queue)
                   => Covered(e, b, Len(queue'), Logged', books', queue')
    BY <1>1, <1>3, <1>4, <1>6, EnqueueCovers
  <1>8. MineCovered'
    BY <1>1, <1>2, <1>7 DEF DurableInv, MineCovered, current, AsManyBooks
  <1>9. AfterLogged' /\ FlushedIsDurable'
    BY <1>1, <1>4, AfterKept DEF Enqueue, Monotone
  <1> QED
    BY <1>5, <1>7, <1>8, <1>9 DEF DurableInv

LEMMA RequestCloseDurable == ASSUME DurableInv, RequestClose PROVE DurableInv'
  BY RequestCloseType, CloseFlushDurable
     DEF RequestClose, DurableInv, dbVars, editVars, historyVars

LEMMA CloseAgainDurable == ASSUME DurableInv, CloseAgain PROVE DurableInv'
  BY CloseAgainType, CloseFlushDurable
     DEF CloseAgain, DurableInv, dbVars, editVars, historyVars

\* The end of the process, and the start of the next one.
LEMMA RestartDurable ==
  ASSUME DurableInv, TypeInv', Restart, promised' \subseteq Logged PROVE DurableInv'
  <1>1. queue' = <<>> /\ mine' = {} /\ step' = "start" /\ closing' = NotClosing
        /\ UNCHANGED events
    BY DEF Restart, dbVars
  <1>2. FlushedIsDurable'
    BY <1>1 DEF FlushedIsDurable, Logged
  <1> QED
    BY <1>1, <1>2
       DEF DurableInv, CheckpointsCovered, MineCovered, AfterLogged, CloseWaits, NotClosing

LEMMA CloseWindowDurable == ASSUME DurableInv, CloseWindow PROVE DurableInv'
  BY CloseWindowType, RestartDurable
     DEF CloseWindow, DurableInv, CloseWaits, FlushedIsDurable

LEMMA CrashDurable == ASSUME DurableInv, Crash PROVE DurableInv'
  BY CrashType, RestartDurable DEF Crash, DurableInv, FlushedIsDurable

\* Every step preserves the invariant.
LEMMA NextDurable == DurableInv /\ [Next]_vars => DurableInv'
  <1> SUFFICES ASSUME DurableInv, [Next]_vars PROVE DurableInv'
    OBVIOUS
  <1>1. CASE AcceptEdit
    BY <1>1, AcceptEditDurable
  <1>2. CASE QueueStep
    BY <1>2, SnapshotBeforeChangeDurable, AppendSucceedsDurable, AppendFailsDurable,
       SnapshotAfterChangeDurable, NamedVersionRefusedDurable, NamedVersionSavedDurable,
       CheckpointSucceedsDurable, CheckpointFailsDurable DEF QueueStep
  <1>3. CASE \E s \in inflight, saved \in BOOLEAN : RecoverySnapshotSettles(s, saved)
    BY <1>3, RecoverySnapshotSettlesDurable
  <1>4. CASE NameVersion
    BY <1>4, NameVersionDurable
  <1>5. CASE IdleCheckpoint
    BY <1>5, IdleCheckpointDurable
  <1>6. CASE FlushPersistence
    BY <1>6, FlushPersistenceDurable
  <1>7. CASE \E d \in Drafts : StartLoad(d)
    BY <1>7, StartLoadDurable
  <1>8. CASE LoaderStep
    BY <1>8, ReadDraftDurable, CommitLoadDurable, AbandonLoadDurable DEF LoaderStep
  <1>9. CASE RequestClose \/ CloseAgain \/ CloseWindow \/ Crash
    BY <1>9, RequestCloseDurable, CloseAgainDurable, CloseWindowDurable, CrashDurable
  <1>10. CASE UNCHANGED vars
    <2>1. TypeInv'
      BY <1>10, NextTypeInv DEF DurableInv
    <2>2. Monotone /\ AsManyBooks(books') /\ Logged' = Logged
      BY <1>10, BookChange, JobTypes DEF vars, DurableInv
    <2>3. AfterLogged'
      BY <1>10, <2>2 DEF vars, AfterLogged, running, DurableInv
    <2> QED
      BY <1>10, <2>1, <2>2, <2>3, KeptDurable DEF vars
  <1> QED
    BY <1>1, <1>2, <1>3, <1>4, <1>5, <1>6, <1>7, <1>8, <1>9, <1>10 DEF Next

\* A flush that resolves, and a window that closes, leave in the log every edit
\* accepted under that bookkeeping before, for any drafts and bounds.
THEOREM FlushedDurable == Spec => []FlushedIsDurable
  <1>1. DurableInv => FlushedIsDurable
    BY DEF DurableInv
  <1> QED
    BY <1>1, InitDurable, NextDurable, PTL DEF Spec

-------------------------------------------------------------------------------
(***************************************************************************)
(* The text in the log: theorems about Persistence that a draft's events   *)
(* can be replayed, that no snapshot misleads and that the screen shows    *)
(* what the log and the queue hold, for every value of the constants.      *)
(*                                                                         *)
(* The invariant follows an edit from the screen to the table.  Each job   *)
(* in the queue, and the screen, holds a text; every edit of that text is  *)
(* logged, lost, or still ahead of it in the queue, and when one is lost   *)
(* the bookkeeping the job belongs to has a failure.                       *)
(***************************************************************************)

(* The order of edits. *)

\* The running append has inserted its event.
Inserted == step = "after"

\* Edits are logged in the order in which they were accepted, across all drafts:
\* the queue holds them in that order, each later than what is logged or lost,
\* except the one whose event has just been inserted.
OrderOK ==
    /\ 1 <= nextEdit
    /\ \A i, j \in 1..Len(events) : i < j => events[i].edit < events[j].edit
    /\ \A i \in 1..Len(events) : events[i].edit < nextEdit
    /\ \A k \in 1..Len(queue) :
          /\ queue[k].edit <= nextEdit
          /\ queue[k].kind = "append" => queue[k].edit < nextEdit
    /\ \A k, m \in 1..Len(queue) : k < m =>
          /\ queue[k].edit <= queue[m].edit
          /\ queue[k].kind = "append" => queue[k].edit < queue[m].edit
    /\ \A i \in 1..Len(events), k \in 1..Len(queue) :
          events[i].edit < queue[k].edit \/ (Inserted /\ k = 1)

LostOK ==
    /\ \A e \in lost : e < nextEdit /\ e \notin Logged
    /\ \A e \in lost, k \in 1..Len(queue) : e < queue[k].edit

\* What the running append has inserted.
InsertedOK == Inserted =>
    /\ queue # <<>> /\ running.kind = "append"
    /\ running.edit \in Log(running.draft)

\* Jobs that write a draft's text, and the appends whose row is not there yet.
Writes == {queue[k] : k \in {j \in 1..Len(queue) : queue[j].kind # "checkpoint"}}

Pending == {queue[k] : k \in {j \in 1..Len(queue) :
                                queue[j].kind = "append" /\ ~(j = 1 /\ Inserted)}}

\* Loading.  What a draft being loaded still has in the queue precedes the load's
\* own flush; once that is answered, nothing is left.
LoadOrder ==
    load.phase # "none" =>
        /\ load.draft # view.draft
        /\ \A k \in 1..Len(queue) :
              queue[k].kind # "checkpoint" /\ queue[k].draft = load.draft
                => \E m \in 1..Len(queue) : k < m /\ queue[m].caller = "load"

\* A draft's writes all belong to one bookkeeping, that of the screen if it is shown.
OneBook ==
    /\ \A v, w \in Writes : v.draft = w.draft => v.book = w.book
    /\ \A w \in Writes : w.draft = view.draft => w.book = current

\* The edits of a draft that are logged or will be.
Known(d) == Log(d) \union QueuedEdits(d)

\* A text that an edit numbered e may be made against, under bookkeeping b: it
\* consists of earlier edits each of which is logged, lost or on its way; if none
\* is lost and the log is whole, it is all of the draft's earlier edits; if one is
\* lost, or will be, the bookkeeping knows.
Traced(c, e) ==
    \A f \in c : f < e /\ (f \in Logged \/ f \in lost \/ \E w \in Pending : w.edit = f)
Complete(d, c, e) ==
    c \intersect lost = {} /\ ~Torn(d) => c = {f \in Known(d) : f < e}
Blamed(b, c) ==
    /\ c \intersect lost # {} => books[b].failure
    /\ \A w \in Pending : w.edit \in c => w.book = b
\* Without a failure the bookkeeping's event id is behind no event of its draft.
UpToDate(b, d) == ~books[b].failure => \A i \in IdsOf(d) : i <= books[b].lastEventId

Sound(b, d, c, e) == Traced(c, e) /\ Complete(d, c, e) /\ Blamed(b, c) /\ UpToDate(b, d)

WritesSound == \A w \in Writes : Sound(w.book, w.draft, w.content, w.edit)

ViewSound == view.draft # NoDraft => Sound(current, view.draft, view.content, nextEdit)

BooksKnow == \A b \in 1..Len(books) : books[b].lastEventId <= Len(events)

\* A snapshot that does not mislead.
Honest(s) ==
    /\ s.upTo <= Len(events) /\ s.content \subseteq Logged
    /\ TornBefore(s.draft, s.upTo) \/ s.content = LogUpTo(s.draft, s.upTo)

StoredHonest ==
    /\ \A s \in snapshots : Honest(s)
    /\ \A s \in inflight : Honest(s)
    /\ \A b \in 1..Len(books) : \A s \in books[b].pendingCheckpoint : Honest(s)

\* The one the running append may write once it has inserted its event.
AfterHonest == Inserted => ~book.failure /\ Honest(AfterChange(book.lastEventId))

\* What a load has read is the draft's log.
LoadRead == load.phase = "commit" =>
    /\ load.content \subseteq Logged
    /\ ~Torn(load.draft) => load.content = Log(load.draft)
    /\ \A i \in IdsOf(load.draft) : i <= load.latestEventId
    /\ load.latestEventId <= Len(events)

Ordered == OrderOK /\ LostOK /\ InsertedOK

LogInv ==
    /\ TypeInv /\ Ordered /\ LoadOrder
    /\ OneBook /\ WritesSound /\ ViewSound /\ BooksKnow
    /\ LogIsChain /\ StoredHonest /\ AfterHonest /\ LoadRead

-------------------------------------------------------------------------------
(* What steps do to the queue and to the log. *)

\* A job is chained, the running job ends, an event is inserted; the log only
\* grows.
Chained(job) ==
    /\ Len(queue) \in Nat /\ Len(queue') = Len(queue) + 1
    /\ \A k \in 1..Len(queue) : queue'[k] = queue[k]
    /\ queue'[Len(queue) + 1] = job

Ended ==
    /\ Len(queue) \in Nat /\ Len(queue) > 0 /\ Len(queue') = Len(queue) - 1
    /\ \A k \in 1..Len(queue') : queue'[k] = queue[k + 1]
    /\ running = queue[1]

Extended ==
    /\ Len(events) \in Nat /\ Len(events') \in Nat /\ Len(events) <= Len(events')
    /\ \A i \in 1..Len(events) : events'[i] = events[i]

Written(d, e, c) ==
    /\ Extended /\ Len(events') = Len(events) + 1
    /\ events'[Len(events) + 1].draft = d
    /\ events'[Len(events) + 1].edit = e
    /\ events'[Len(events) + 1].start = c

\* Enqueueing a job leaves the queue chained.
LEMMA ChainedShape ==
  ASSUME TypeInv, NEW job \in JobType, NEW close, Enqueue(job, close)
  PROVE  Chained(job)
  BY DEF Chained, TypeInv, TypeOK, Enqueue

\* Settling the running job takes it off the queue.
LEMMA EndedShape == ASSUME TypeInv, queue # <<>>, Finish PROVE Ended
  BY DEF Ended, TypeInv, TypeOK, Finish, running

\* An insert extends the log by one event of the running job.
LEMMA WrittenShape ==
  ASSUME TypeInv, NEW d, NEW e, NEW c, InsertEvent(d, e, c)
  PROVE  Written(d, e, c)
  BY DEF Written, Extended, TypeInv, TypeOK, InsertEvent

\* A step that leaves the log alone extends it by nothing.
LEMMA SameShape == ASSUME TypeInv, UNCHANGED events PROVE Extended
  BY DEF Extended, TypeInv, TypeOK

\* Edits are numbers, and jobs have their types.
LEMMA Numbers ==
  ASSUME TypeInv
  PROVE  /\ Len(events) \in Nat /\ Len(queue) \in Nat /\ nextEdit \in Nat
         /\ \A i \in 1..Len(events) :
               /\ events[i].edit \in Nat /\ events[i].draft \in Drafts
               /\ events[i].start \subseteq Nat
         /\ \A k \in 1..Len(queue) :
               /\ queue[k] \in JobType /\ queue[k].edit \in Nat
               /\ queue[k].content \subseteq Nat
               /\ queue[k].book \in 1..Len(books)
         /\ queue # <<>> => Len(queue) > 0 /\ running = queue[1]
  <1>1. \A i \in 1..Len(events) : events[i] \in EventType
    BY DEF TypeInv, TypeOK
  <1>2. \A k \in 1..Len(queue) : queue[k] \in JobType
    BY DEF TypeInv, TypeOK
  <1> QED
    BY <1>1, <1>2 DEF TypeInv, TypeOK, JobsOK, EventType, JobType, running

\* Logged edits stay logged, and torn drafts stay torn.
LEMMA LogGrows ==
  ASSUME Extended, lost \subseteq lost'
  PROVE  /\ Logged \subseteq Logged'
         /\ \A d : Log(d) \subseteq Log(d)'
         /\ \A d : \A n : TornBefore(d, n) => TornBefore(d, n)'
         /\ \A d : Torn(d) => Torn(d)'
         /\ \A d : \A n \in 0..Len(events) : LogUpTo(d, n)' = LogUpTo(d, n)
         /\ \A d : IdsOf(d) \subseteq IdsOf(d)'
  <1>1. \A d : IdsOf(d) \subseteq IdsOf(d)'
    BY DEF Extended, IdsOf
  <1>2. \A d : \A i \in IdsOf(d) : i \in Nat /\ i <= Len(events) /\ events'[i] = events[i]
    BY DEF Extended, IdsOf
  <1>3. Logged \subseteq Logged'
    BY DEF Extended, Logged
  <1>4. \A d : Log(d) \subseteq Log(d)'
    BY <1>1, <1>2 DEF Log
  <1>5. \A d : \A n : TornBefore(d, n) => TornBefore(d, n)'
    BY <1>1, <1>2 DEF TornBefore
  <1>6. ASSUME NEW d, Torn(d) PROVE Torn(d)'
    <2>1. PICK i \in IdsOf(d) : i <= Len(events) /\ events[i].start \intersect lost # {}
      BY <1>6 DEF Torn, TornBefore
    <2>2. i \in IdsOf(d)' /\ events'[i] = events[i] /\ i \in Nat
      BY <1>1, <1>2
    <2>3. i <= Len(events')
      BY <2>1, <2>2 DEF Extended
    <2> QED
      BY <2>1, <2>2, <2>3 DEF Torn, TornBefore
  <1>7. ASSUME NEW d, NEW n \in 0..Len(events)
        PROVE  LogUpTo(d, n)' = LogUpTo(d, n)
    <2>1. \A j : j \in IdsOf(d)' /\ j <= n <=> j \in IdsOf(d) /\ j <= n
      BY DEF Extended, IdsOf
    <2> QED
      BY <1>2, <2>1 DEF LogUpTo
  <1> QED
    BY <1>1, <1>3, <1>4, <1>5, <1>6, <1>7

\* What an inserted event adds.
LEMMA LogWritten ==
  ASSUME TypeInv, NEW d, NEW e, NEW c, Written(d, e, c)
  PROVE  /\ Logged' = Logged \union {e}
         /\ Log(d)' = Log(d) \union {e}
         /\ \A a : a # d => Log(a)' = Log(a) /\ IdsOf(a)' = IdsOf(a)
         /\ IdsOf(d)' = IdsOf(d) \union {Len(events) + 1}
  <1> DEFINE n == Len(events) + 1
  <1>1. /\ \A i \in 1..Len(events) : events'[i] = events[i]
        /\ events'[n].draft = d /\ events'[n].edit = e
        /\ \A i : i \in 1..Len(events') <=> i \in 1..Len(events) \/ i = n
        /\ n \notin 1..Len(events)
    BY DEF Written, Extended
  <1> HIDE DEF n
  <1>2. \A a : a # d => IdsOf(a)' = IdsOf(a)
    BY <1>1 DEF IdsOf
  <1>3. IdsOf(d)' = IdsOf(d) \union {n}
    BY <1>1 DEF IdsOf
  <1>4. \A a : \A i \in IdsOf(a) : events'[i] = events[i]
    BY <1>1 DEF IdsOf
  <1>5. Logged' = Logged \union {e}
    BY <1>1 DEF Logged
  <1>6. Log(d)' = Log(d) \union {e}
    BY <1>1, <1>3, <1>4 DEF Log
  <1>7. \A a : a # d => Log(a)' = Log(a)
    BY <1>2, <1>4 DEF Log
  <1> QED
    BY <1>2, <1>3, <1>5, <1>6, <1>7 DEF n

-------------------------------------------------------------------------------
(* The order of the queue. *)

\* A chained job carries the number of the next edit.
LEMMA ChainedOrdered ==
  ASSUME TypeInv, TypeInv', Ordered, NEW job \in JobType, Chained(job),
         job.edit = nextEdit, UNCHANGED <<events, lost, step>>,
         nextEdit' = IF job.kind = "append" THEN nextEdit + 1 ELSE nextEdit
  PROVE  Ordered'
  <1>1. \A k \in 1..Len(queue') : k \in 1..Len(queue) \/ k = Len(queue) + 1
    BY DEF Chained
  <1>2. nextEdit' \in Nat /\ nextEdit <= nextEdit'
        /\ (job.kind = "append" => nextEdit < nextEdit')
    BY Numbers
  <1>3. Logged' = Logged
    BY DEF Logged
  <1>4. OrderOK'
    <2>1. \A i, j \in 1..Len(events) : i < j => events[i].edit < events[j].edit
      BY DEF Ordered, OrderOK
    <2>2. \A i \in 1..Len(events) : events[i].edit < nextEdit'
      BY <1>2, Numbers DEF Ordered, OrderOK
    <2>3. \A k \in 1..Len(queue') :
              /\ queue'[k].edit <= nextEdit'
              /\ queue'[k].kind = "append" => queue'[k].edit < nextEdit'
      BY <1>1, <1>2, Numbers DEF Ordered, OrderOK, Chained
    <2>4. \A k, m \in 1..Len(queue') : k < m =>
              /\ queue'[k].edit <= queue'[m].edit
              /\ queue'[k].kind = "append" => queue'[k].edit < queue'[m].edit
      <3> SUFFICES ASSUME NEW k \in 1..Len(queue'), NEW m \in 1..Len(queue'), k < m
                   PROVE  /\ queue'[k].edit <= queue'[m].edit
                          /\ queue'[k].kind = "append" => queue'[k].edit < queue'[m].edit
        OBVIOUS
      <3>1. k \in 1..Len(queue)
        BY <1>1 DEF Chained
      <3> QED
        BY <1>1, <3>1, Numbers DEF Ordered, OrderOK, Chained
    <2>5. \A i \in 1..Len(events), k \in 1..Len(queue') :
              events[i].edit < queue'[k].edit \/ (Inserted /\ k = 1)
      BY <1>1, Numbers DEF Ordered, OrderOK, Chained
    <2>6. 1 <= nextEdit'
      BY <1>2, Numbers DEF Ordered, OrderOK
    <2> QED
      BY <2>1, <2>2, <2>3, <2>4, <2>5, <2>6 DEF OrderOK, Inserted
  <1>5. LostOK'
    <2>1. \A e \in lost : e < nextEdit'
      <3>1. \A e \in lost : e \in Nat
        BY DEF TypeInv, TypeOK
      <3> QED
        BY <1>2, <3>1, Numbers DEF Ordered, LostOK
    <2>2. \A e \in lost, k \in 1..Len(queue') : e < queue'[k].edit
      BY <1>1 DEF Ordered, LostOK, Chained
    <2> QED
      BY <1>3, <2>1, <2>2 DEF Ordered, LostOK
  <1>6. InsertedOK'
    <2>1. ASSUME queue # <<>> PROVE queue' # <<>> /\ running' = running
      <3>1. 1 \in 1..Len(queue) /\ running = queue[1]
        BY <2>1, Numbers
      <3>2. queue' # <<>> => running' = queue'[1]
        BY DEF running, TypeInv, TypeOK
      <3> QED
        BY <3>1, <3>2 DEF Chained
    <2>2. \A d : Log(d)' = Log(d)
      BY DEF Log, IdsOf
    <2> QED
      BY <2>1, <2>2 DEF Ordered, InsertedOK, Inserted
  <1> QED
    BY <1>4, <1>5, <1>6 DEF Ordered

\* What the running job may have done when it ends, or inserts its event: nothing
\* to the log (it is no append, or had inserted before), an insertion, a loss.
Quiet == UNCHANGED <<events, lost>> /\ (running.kind # "append" \/ Inserted)
Wrote ==
    /\ running.kind = "append" /\ ~Inserted /\ UNCHANGED lost
    /\ Written(running.draft, running.edit, running.content)
Lost ==
    /\ running.kind = "append" /\ ~Inserted /\ UNCHANGED events
    /\ lost' = lost \union {running.edit}

\* Settling a job, having logged its edit, lost it, or neither, keeps the order.
LEMMA EndedOrdered ==
  ASSUME TypeInv, TypeInv', Ordered, Ended, ~Inserted', UNCHANGED nextEdit,
         Quiet \/ Wrote \/ Lost
  PROVE  Ordered'
  <1>1. \A k \in 1..Len(queue') : k + 1 \in 1..Len(queue) /\ k + 1 # 1
                                  /\ queue'[k] = queue[k + 1]
    BY DEF Ended
  <1>2. 1 \in 1..Len(queue) /\ running = queue[1]
    BY DEF Ended
  <1>3. \A k \in 1..Len(queue') : running.edit <= queue'[k].edit
                                  /\ (running.kind = "append" => running.edit < queue'[k].edit)
    BY <1>1, <1>2 DEF Ended, Ordered, OrderOK
  <1>4. \A k, m \in 1..Len(queue') : k < m =>
              /\ queue'[k].edit <= queue'[m].edit
              /\ queue'[k].kind = "append" => queue'[k].edit < queue'[m].edit
    <2> SUFFICES ASSUME NEW k \in 1..Len(queue'), NEW m \in 1..Len(queue'), k < m
                 PROVE  /\ queue'[k].edit <= queue'[m].edit
                        /\ queue'[k].kind = "append" => queue'[k].edit < queue'[m].edit
      OBVIOUS
    <2>1. k + 1 < m + 1
      BY DEF Ended
    <2> QED
      BY <1>1, <2>1 DEF Ordered, OrderOK
  <1>5. \A k \in 1..Len(queue') :
              /\ queue'[k].edit <= nextEdit
              /\ queue'[k].kind = "append" => queue'[k].edit < nextEdit
    BY <1>1 DEF Ordered, OrderOK
  <1>6. \A i \in 1..Len(events), k \in 1..Len(queue') : events[i].edit < queue'[k].edit
    BY <1>1 DEF Ordered, OrderOK
  <1>7. \A e \in lost, k \in 1..Len(queue') : e < queue'[k].edit
    BY <1>1 DEF Ordered, LostOK
  <1>8. InsertedOK'
    BY DEF InsertedOK
  <1>9. CASE UNCHANGED events
    <2>1. OrderOK'
      BY <1>4, <1>5, <1>6, <1>9 DEF Ordered, OrderOK
    <2>2. Logged' = Logged
      BY <1>9 DEF Logged
    <2>3. LostOK'
      <3>1. CASE UNCHANGED lost
        BY <1>7, <2>2, <3>1 DEF Ordered, LostOK
      <3>2. CASE Lost
        <4>1. running.edit < nextEdit
          BY <1>2, <3>2 DEF Lost, Ordered, OrderOK
        <4>2. running.edit \notin Logged
          <5>1. \A i \in 1..Len(events) : events[i].edit < running.edit
            BY <1>2, <3>2 DEF Lost, Ordered, OrderOK
          <5>2. \A i \in 1..Len(events) : events[i].edit # running.edit
            BY <1>2, <5>1, Numbers
          <5> QED
            BY <5>2 DEF Logged
        <4> QED
          BY <1>3, <1>7, <2>2, <3>2, <4>1, <4>2 DEF Lost, Ordered, LostOK
      <3>3. ~Wrote
        BY <1>9 DEF Wrote, Written, Extended
      <3> QED
        BY <3>1, <3>2, <3>3 DEF Quiet
    <2> QED
      BY <1>8, <2>1, <2>3 DEF Ordered
  <1>10. CASE Wrote
    <2>1. \A i \in 1..Len(events') : i \in 1..Len(events) \/ i = Len(events) + 1
      BY <1>10 DEF Wrote, Written, Extended
    <2>2. \A i \in 1..Len(events) : events[i].edit < running.edit
      BY <1>2, <1>10 DEF Wrote, Ordered, OrderOK
    <2>3. running.edit < nextEdit
      BY <1>2, <1>10 DEF Wrote, Ordered, OrderOK
    <2>4. \A i, j \in 1..Len(events') : i < j => events'[i].edit < events'[j].edit
      <3> SUFFICES ASSUME NEW i \in 1..Len(events'), NEW j \in 1..Len(events'), i < j
                   PROVE  events'[i].edit < events'[j].edit
        OBVIOUS
      <3>1. i \in 1..Len(events)
        BY <2>1, <1>10 DEF Wrote, Written, Extended
      <3> QED
        BY <1>10, <2>1, <2>2, <3>1 DEF Wrote, Written, Extended, Ordered, OrderOK
    <2>5. \A i \in 1..Len(events') : events'[i].edit < nextEdit
      BY <1>10, <2>1, <2>3 DEF Wrote, Written, Extended, Ordered, OrderOK
    <2>6. \A i \in 1..Len(events'), k \in 1..Len(queue') : events'[i].edit < queue'[k].edit
      BY <1>3, <1>6, <1>10, <2>1 DEF Wrote, Written, Extended
    <2>7. OrderOK'
      <3>1. 1 <= nextEdit'
        BY DEF Ordered, OrderOK
      <3> QED
        BY <1>4, <1>5, <2>4, <2>5, <2>6, <3>1 DEF OrderOK
    <2>8. Logged' = Logged \union {running.edit}
      BY <1>10, LogWritten DEF Wrote
    <2>9. running.edit \notin lost
      <3>1. \A e \in lost : e \in Nat /\ e < running.edit
        BY <1>2 DEF Ordered, LostOK, TypeInv, TypeOK
      <3> QED
        BY <1>2, <3>1, Numbers
    <2>10. LostOK'
      BY <1>7, <1>10, <2>8, <2>9 DEF Wrote, Ordered, LostOK
    <2> QED
      BY <1>8, <2>7, <2>10 DEF Ordered
  <1> QED
    BY <1>9, <1>10 DEF Quiet, Lost

\* The running append inserts its event and goes on.
LEMMA InsertedOrdered ==
  ASSUME TypeInv, TypeInv', Ordered, queue # <<>>, Wrote, Inserted',
         UNCHANGED <<queue, nextEdit>>
  PROVE  Ordered'
  <1>1. 1 \in 1..Len(queue) /\ running = queue[1]
    BY Numbers
  <1>2. \A i \in 1..Len(events') : i \in 1..Len(events) \/ i = Len(events) + 1
    BY DEF Wrote, Written, Extended
  <1>3. \A i \in 1..Len(events) : events[i].edit < running.edit
    BY <1>1 DEF Wrote, Ordered, OrderOK
  <1>4. running.edit < nextEdit
    BY <1>1 DEF Wrote, Ordered, OrderOK
  <1>5. \A i, j \in 1..Len(events') : i < j => events'[i].edit < events'[j].edit
    <2> SUFFICES ASSUME NEW i \in 1..Len(events'), NEW j \in 1..Len(events'), i < j
                 PROVE  events'[i].edit < events'[j].edit
      OBVIOUS
    <2>1. i \in 1..Len(events)
      BY <1>2 DEF Wrote, Written, Extended
    <2> QED
      BY <1>2, <1>3, <2>1 DEF Wrote, Written, Extended, Ordered, OrderOK
  <1>6. \A i \in 1..Len(events') : events'[i].edit < nextEdit
    BY <1>2, <1>4 DEF Wrote, Written, Extended, Ordered, OrderOK
  <1>7. \A i \in 1..Len(events'), k \in 1..Len(queue) :
            events'[i].edit < queue[k].edit \/ k = 1
    <2> SUFFICES ASSUME NEW i \in 1..Len(events'), NEW k \in 1..Len(queue), k # 1
                 PROVE  events'[i].edit < queue[k].edit
      OBVIOUS
    <2>1. running.edit < queue[k].edit
      <3>1. 1 < k
        BY Numbers
      <3> QED
        BY <1>1, <3>1 DEF Wrote, Ordered, OrderOK
    <2>2. i \in 1..Len(events) => events[i].edit < queue[k].edit
      BY DEF Wrote, Ordered, OrderOK
    <2>3. CASE i \in 1..Len(events)
      BY <2>2, <2>3 DEF Wrote, Written, Extended
    <2>4. CASE i = Len(events) + 1
      <3>1. events'[i].edit = running.edit
        BY <2>4 DEF Wrote, Written
      <3> QED
        BY <2>1, <3>1
    <2> QED
      BY <1>2, <2>3, <2>4
  <1>8. OrderOK'
    BY <1>5, <1>6, <1>7 DEF Ordered, OrderOK
  <1>9. /\ Logged' = Logged \union {running.edit}
        /\ \A d : d = running.draft => running.edit \in Log(d)'
    BY LogWritten DEF Wrote
  <1>10. running.edit \notin lost
    <2>1. \A e \in lost : e \in Nat /\ e < running.edit
      BY <1>1 DEF Ordered, LostOK, TypeInv, TypeOK
    <2> QED
      BY <1>1, <2>1, Numbers
  <1>11. LostOK'
    BY <1>9, <1>10 DEF Wrote, Ordered, LostOK
  <1>12. InsertedOK'
    <2>1. running' = running
      BY DEF running
    <2>2. \A d : d = running.draft => running.edit \in Log(d)'
      BY <1>9
    <2>3. running'.edit \in Log(running.draft)'
      BY <2>1, <2>2
    <2> QED
      BY <2>1, <2>3 DEF InsertedOK, Wrote
  <1> QED
    BY <1>8, <1>11, <1>12 DEF Ordered

\* Other steps.
LEMMA KeptOrdered ==
  ASSUME TypeInv, Ordered, UNCHANGED <<events, lost, queue, nextEdit>>,
         Inserted' = Inserted
  PROVE  Ordered'
  <1>1. Logged' = Logged /\ \A d : Log(d)' = Log(d)
    BY DEF Logged, Log, IdsOf
  <1>2. OrderOK'
    BY DEF Ordered, OrderOK
  <1>3. LostOK'
    BY <1>1 DEF Ordered, LostOK
  <1>4. InsertedOK'
    BY <1>1 DEF Ordered, InsertedOK, running
  <1> QED
    BY <1>2, <1>3, <1>4 DEF Ordered

-------------------------------------------------------------------------------
(* The jobs of the queue as sets. *)

\* What is in them.
LEMMA WritesView ==
  ASSUME TypeInv, NEW w \in Writes
  PROVE  /\ w \in JobType /\ w.kind # "checkpoint" /\ w.draft \in Drafts
         /\ w.book \in 1..Len(books) /\ w.edit \in Nat
  <1>1. PICK k \in 1..Len(queue) : queue[k].kind # "checkpoint" /\ w = queue[k]
    BY DEF Writes
  <1> QED
    BY <1>1, Numbers DEF TypeInv, JobsOK

\* An append on its way is older than the text on the screen.
LEMMA PendingView ==
  ASSUME TypeInv, Ordered, NEW w \in Pending
  PROVE  /\ w \in Writes /\ w.kind = "append" /\ w.edit < nextEdit
         /\ w.edit \notin Logged /\ w.edit \notin lost
         /\ w.edit \in QueuedEdits(w.draft)
  <1>1. PICK k \in 1..Len(queue) :
              queue[k].kind = "append" /\ ~(k = 1 /\ Inserted) /\ w = queue[k]
    BY DEF Pending
  <1>2. w \in Writes /\ w.edit \in QueuedEdits(w.draft)
    BY <1>1 DEF Writes, QueuedEdits
  <1>3. w.edit < nextEdit
    BY <1>1 DEF Ordered, OrderOK
  <1>4. \A i \in 1..Len(events) : events[i].edit # w.edit
    <2>1. \A i \in 1..Len(events) : events[i].edit < queue[k].edit
      BY <1>1 DEF Ordered, OrderOK
    <2> QED
      BY <1>1, <2>1, Numbers
  <1>5. \A e \in lost : e \in Nat /\ e < w.edit
    BY <1>1 DEF Ordered, LostOK, TypeInv, TypeOK
  <1> QED
    BY <1>1, <1>2, <1>3, <1>4, <1>5, Numbers DEF Logged

\* The screen's text is made after every queued edit.
LEMMA QueuedView ==
  ASSUME TypeInv, Ordered, NEW d, NEW e \in QueuedEdits(d)
  PROVE  /\ e \in Nat /\ e < nextEdit /\ e \notin lost
         /\ e \in Log(d) \/ \E w \in Pending : w.edit = e /\ w.draft = d
  <1>1. PICK k \in 1..Len(queue) :
              queue[k].kind = "append" /\ queue[k].draft = d /\ e = queue[k].edit
    BY DEF QueuedEdits
  <1>2. e \in Nat /\ e < nextEdit
    BY <1>1, Numbers DEF Ordered, OrderOK
  <1>3. \A f \in lost : f \in Nat /\ f < e
    BY <1>1 DEF Ordered, LostOK, TypeInv, TypeOK
  <1>4. CASE k = 1 /\ Inserted
    <2>1. running = queue[1]
      BY <1>4, Numbers DEF Ordered, InsertedOK
    <2> QED
      BY <1>1, <1>2, <1>3, <1>4, <2>1 DEF Ordered, InsertedOK
  <1>5. CASE ~(k = 1 /\ Inserted)
    <2>1. queue[k] \in Pending
      BY <1>1, <1>5 DEF Pending
    <2> QED
      BY <1>1, <1>2, <1>3, <2>1
  <1> QED
    BY <1>4, <1>5

\* What is logged is older than the next edit and not lost.
LEMMA LoggedView ==
  ASSUME TypeInv, Ordered
  PROVE  /\ \A e \in Logged : e \in Nat /\ e < nextEdit /\ e \notin lost
         /\ \A d : Log(d) \subseteq Logged
         /\ \A e \in lost : e \in Nat /\ e < nextEdit
         /\ \A d : Known(d) \subseteq Nat
  <1>1. \A e \in Logged : e \in Nat /\ e < nextEdit /\ e \notin lost
    BY Numbers DEF Ordered, OrderOK, LostOK, Logged
  <1>2. \A d : Log(d) \subseteq Logged
    BY DEF Log, Logged, IdsOf
  <1>3. \A e \in lost : e \in Nat /\ e < nextEdit
    BY DEF Ordered, LostOK, TypeInv, TypeOK
  <1>4. \A d : Known(d) \subseteq Nat
    BY <1>1, <1>2, QueuedView DEF Known
  <1> QED
    BY <1>1, <1>2, <1>3, <1>4

\* Known edits are numbers.
LEMMA KnownNumbers == TypeInv /\ Ordered => \A d : Known(d) \subseteq Nat
  BY LoggedView

\* The same in the next state (a state lemma, primed).
LEMMA KnownNext == (TypeInv /\ Ordered)' => (\A d : Known(d) \subseteq Nat)'
  BY KnownNumbers, PTL

\* The running job comes before every append still ahead.
LEMMA RunningFirst ==
  ASSUME TypeInv, Ordered, queue # <<>>, running.kind # "checkpoint"
  PROVE  /\ running \in Writes
         /\ running.kind = "append" /\ ~Inserted => running \in Pending
         /\ \A w \in Pending : running.edit <= w.edit
         /\ \A d : \A e \in QueuedEdits(d) : running.edit <= e
         /\ ~Inserted => \A e \in Logged : e < running.edit
  <1>1. 1 \in 1..Len(queue) /\ running = queue[1]
    BY Numbers
  <1>2. \A k \in 1..Len(queue) : running.edit <= queue[k].edit
    BY <1>1, Numbers DEF Ordered, OrderOK
  <1>3. running \in Writes
    BY <1>1 DEF Writes
  <1>4. running.kind = "append" /\ ~Inserted => running \in Pending
    BY <1>1 DEF Pending
  <1>5. \A w \in Pending : running.edit <= w.edit
    BY <1>2 DEF Pending
  <1>6. \A d : \A e \in QueuedEdits(d) : running.edit <= e
    BY <1>2 DEF QueuedEdits
  <1>7. ~Inserted => \A e \in Logged : e < running.edit
    BY <1>1 DEF Ordered, OrderOK, Logged
  <1> QED
    BY <1>3, <1>4, <1>5, <1>6, <1>7

\* The running job is done with: it has left the queue or inserted its event.
Consumed ==
    /\ Writes' \subseteq Writes
    /\ Pending' \subseteq Pending
    /\ \A w \in Pending :
           w \in Pending' \/ (w = running /\ running.kind = "append" /\ ~Inserted)
    /\ \A d : QueuedEdits(d)' \subseteq QueuedEdits(d)
    /\ \A d : \A e \in QueuedEdits(d) :
           \/ e \in QueuedEdits(d)'
           \/ running.kind = "append" /\ running.draft = d /\ running.edit = e

\* Settling a job consumes it: no text and no edit joins the queue.
LEMMA EndedSets == ASSUME Ended, ~Inserted' PROVE Consumed
  <1>1. \A k \in 1..Len(queue') : k + 1 \in 1..Len(queue) /\ k + 1 # 1
                                  /\ queue'[k] = queue[k + 1]
    BY DEF Ended
  <1>2. \A k \in 1..Len(queue) :
            k = 1 \/ (k - 1 \in 1..Len(queue') /\ queue'[k - 1] = queue[k])
    <2> SUFFICES ASSUME NEW k \in 1..Len(queue), k # 1
                 PROVE  k - 1 \in 1..Len(queue') /\ queue'[k - 1] = queue[k]
      OBVIOUS
    <2>1. k - 1 \in 1..Len(queue') /\ (k - 1) + 1 = k
      BY DEF Ended
    <2> QED
      BY <1>1, <2>1
  <1>3. running = queue[1]
    BY DEF Ended
  <1>4. Writes' \subseteq Writes
    BY <1>1 DEF Writes
  <1>5. Pending' \subseteq Pending
    BY <1>1 DEF Pending
  <1>6. ASSUME NEW w \in Pending
        PROVE  w \in Pending' \/ (w = running /\ running.kind = "append" /\ ~Inserted)
    <2>1. PICK k \in 1..Len(queue) :
                queue[k].kind = "append" /\ ~(k = 1 /\ Inserted) /\ w = queue[k]
      BY DEF Pending
    <2>2. CASE k = 1
      BY <1>3, <2>1, <2>2
    <2>3. CASE k # 1
      BY <1>2, <2>1, <2>3 DEF Pending
    <2> QED
      BY <2>2, <2>3
  <1>7. \A d : QueuedEdits(d)' \subseteq QueuedEdits(d)
    BY <1>1 DEF QueuedEdits
  <1>8. ASSUME NEW d, NEW e \in QueuedEdits(d)
        PROVE  \/ e \in QueuedEdits(d)'
               \/ running.kind = "append" /\ running.draft = d /\ running.edit = e
    <2>1. PICK k \in 1..Len(queue) :
                queue[k].kind = "append" /\ queue[k].draft = d /\ e = queue[k].edit
      BY DEF QueuedEdits
    <2>2. CASE k = 1
      BY <1>3, <2>1, <2>2
    <2>3. CASE k # 1
      BY <1>2, <2>1, <2>3 DEF QueuedEdits
    <2> QED
      BY <2>2, <2>3
  <1> QED
    BY <1>4, <1>5, <1>6, <1>7, <1>8 DEF Consumed

\* So does inserting its row: the edit is no longer on its way.
LEMMA InsertedSets ==
  ASSUME TypeInv, queue # <<>>, running.kind = "append", ~Inserted, Inserted',
         UNCHANGED queue
  PROVE  Consumed
  <1>1. running = queue[1]
    BY Numbers
  <1>2. Writes' = Writes /\ \A d : QueuedEdits(d)' = QueuedEdits(d)
    BY DEF Writes, QueuedEdits
  <1>3. Pending' \subseteq Pending
    BY DEF Pending
  <1>4. \A w \in Pending :
            w \in Pending' \/ (w = running /\ running.kind = "append" /\ ~Inserted)
    BY <1>1 DEF Pending
  <1> QED
    BY <1>2, <1>3, <1>4 DEF Consumed

\* A job has joined the queue.
Joined(job) ==
    /\ \A w \in Writes' : w \in Writes \/ (w = job /\ job.kind # "checkpoint")
    /\ Pending \subseteq Pending'
    /\ \A w \in Pending' : w \in Pending \/ (w = job /\ job.kind = "append")
    /\ job.kind = "append" => job \in Pending'
    /\ \A d : QueuedEdits(d) \subseteq QueuedEdits(d)'
    /\ \A d : \A e \in QueuedEdits(d)' :
           \/ e \in QueuedEdits(d)
           \/ job.kind = "append" /\ job.draft = d /\ job.edit = e
    /\ job.kind = "append" => \A d : d = job.draft => job.edit \in QueuedEdits(d)'

\* Chaining a job to the queue joins its text and edit, and nothing else.
LEMMA ChainedSets ==
  ASSUME TypeInv, Ordered, NEW job, Chained(job), Inserted' = Inserted
  PROVE  Joined(job)
  <1>1. \A k \in 1..Len(queue') : k \in 1..Len(queue) \/ k = Len(queue) + 1
    BY DEF Chained
  <1>2. \A k \in 1..Len(queue) : k \in 1..Len(queue') /\ queue'[k] = queue[k]
    BY DEF Chained
  <1>3. Len(queue) + 1 \in 1..Len(queue') /\ queue'[Len(queue) + 1] = job
    BY DEF Chained
  <1>4. Inserted => Len(queue) + 1 # 1
    BY Numbers DEF Ordered, InsertedOK
  <1> DEFINE n == Len(queue) + 1
  <1> HIDE DEF n
  <1>5. /\ \A k \in 1..Len(queue') : k \in 1..Len(queue) \/ k = n
        /\ n \in 1..Len(queue') /\ queue'[n] = job
        /\ Inserted => n # 1
    BY <1>1, <1>3, <1>4 DEF n
  <1>6. \A w \in Writes' : w \in Writes \/ (w = job /\ job.kind # "checkpoint")
    BY <1>2, <1>5 DEF Writes
  <1>7. Pending \subseteq Pending'
    BY <1>2, <1>5 DEF Pending
  <1>8. \A w \in Pending' : w \in Pending \/ (w = job /\ job.kind = "append")
    BY <1>2, <1>5 DEF Pending
  <1>9. job.kind = "append" => job \in Pending'
    BY <1>5 DEF Pending
  <1>10. \A d : QueuedEdits(d) \subseteq QueuedEdits(d)'
    BY <1>2, <1>5 DEF QueuedEdits
  <1>11. \A d : \A e \in QueuedEdits(d)' :
             \/ e \in QueuedEdits(d)
             \/ job.kind = "append" /\ job.draft = d /\ job.edit = e
    BY <1>2, <1>5 DEF QueuedEdits
  <1>12. job.kind = "append" => \A d : d = job.draft => job.edit \in QueuedEdits(d)'
    BY <1>5 DEF QueuedEdits
  <1> QED
    BY <1>6, <1>7, <1>8, <1>9, <1>10, <1>11, <1>12 DEF Joined

\* With queue and insertion unchanged, the queued texts and edits are.
LEMMA KeptSets ==
  ASSUME UNCHANGED queue, Inserted' = Inserted
  PROVE  /\ Writes' = Writes /\ Pending' = Pending
         /\ \A d : QueuedEdits(d)' = QueuedEdits(d)
  BY DEF Writes, Pending, QueuedEdits

-------------------------------------------------------------------------------
(* Texts stay sound. *)

\* What every step carries over: edits on their way arrive, are lost or stay on
\* their way, new ones carry new numbers, and a loss is known to its bookkeeping.
FailuresStay == \A b \in 1..Len(books) : books[b].failure => books'[b].failure

Carried ==
    /\ Extended /\ lost \subseteq lost' /\ FailuresStay
    /\ \A w \in Pending : w \in Pending' \/ w.edit \in Logged' \/ w.edit \in lost'
    /\ \A w \in Pending' : w \in Pending \/ nextEdit <= w.edit
    /\ \A d : \A f \in Known(d) : f \in Known(d)' \/ f \in lost'
    /\ \A d : \A f \in Known(d)' : f \in Known(d) \/ nextEdit <= f
    /\ \A f \in lost' : f \in lost \/ \E w \in Pending : w.edit = f /\ books'[w.book].failure

\* A sound text stays sound while edits only move forward to the log or to the lost ones.
LEMMA SoundStays ==
  ASSUME TypeInv, TypeInv', Ordered, Ordered', Carried,
         NEW b \in 1..Len(books), NEW d, NEW c, NEW e \in Nat,
         e <= nextEdit, Sound(b, d, c, e), UpToDate(b, d)'
  PROVE  Sound(b, d, c, e)'
  <1>1. Logged \subseteq Logged' /\ (Torn(d) => Torn(d)')
    BY LogGrows DEF Carried
  <1>2. Traced(c, e) /\ Complete(d, c, e) /\ Blamed(b, c)
    BY DEF Sound
  <1>3. \A f \in c : f \in Nat /\ f < e /\ ~(nextEdit <= f)
    <2>1. \A f \in c : f \in Nat
      BY <1>2, LoggedView, PendingView, WritesView DEF Traced
    <2> QED
      BY <1>2, <2>1, Numbers DEF Traced
  <1>4. Traced(c, e)'
    BY <1>1, <1>2 DEF Traced, Carried
  <1>5. Complete(d, c, e)'
    <2> SUFFICES ASSUME c \intersect lost' = {}, ~Torn(d)'
                 PROVE  c = {f \in Known(d)' : f < e}
      BY DEF Complete
    <2>1. c = {f \in Known(d) : f < e}
      BY <1>1, <1>2 DEF Complete, Carried
    <2>2. ASSUME NEW f \in c PROVE f \in Known(d)' /\ f < e
      BY <1>3, <2>1, <2>2 DEF Carried
    <2>3. ASSUME NEW f \in Known(d)', f < e PROVE f \in c
      <3>1. f \in Known(d) \/ nextEdit <= f
        BY DEF Carried
      <3>2. CASE f \in Known(d)
        BY <2>1, <2>3, <3>2
      <3>3. CASE nextEdit <= f
        <4>1. f \in Nat
          BY KnownNext
        <4> QED
          BY <2>3, <3>3, <4>1, Numbers
      <3> QED
        BY <3>1, <3>2, <3>3
    <2> QED
      BY <2>2, <2>3
  <1>6. Blamed(b, c)'
    <2>1. ASSUME NEW w \in Pending', w.edit \in c PROVE w.book = b
      BY <1>2, <1>3, <2>1 DEF Blamed, Carried
    <2>2. ASSUME NEW f \in c, f \in lost' PROVE books'[b].failure
      <3>1. CASE f \in lost
        BY <1>2, <2>2, <3>1 DEF Blamed, Carried, FailuresStay
      <3>2. CASE f \notin lost
        <4>1. PICK w \in Pending : w.edit = f /\ books'[w.book].failure
          BY <2>2, <3>2 DEF Carried
        <4>2. w.book = b
          BY <1>2, <4>1 DEF Blamed
        <4> QED
          BY <4>1, <4>2
      <3> QED
        BY <3>1, <3>2
    <2> QED
      BY <2>1, <2>2 DEF Blamed
  <1> QED
    BY <1>4, <1>5, <1>6 DEF Sound

\* Every edit of every text is carried over when the running job is done with,
\* when a job joins the queue, and when neither happens.
LEMMA ConsumedCarries ==
  ASSUME TypeInv, Ordered, queue # <<>>, Consumed, FailuresStay,
         Quiet \/ Wrote \/ (Lost /\ books'[running.book].failure)
  PROVE  Carried
  <1>1. Extended /\ lost \subseteq lost'
    BY SameShape DEF Quiet, Wrote, Lost, Written
  <1>2. Logged \subseteq Logged' /\ \A d : Log(d) \subseteq Log(d)'
    BY <1>1, LogGrows
  <1>3. \A w \in Pending : w \in Pending' \/ w.edit \in Logged' \/ w.edit \in lost'
    <2>1. CASE Quiet
      BY <2>1 DEF Consumed, Quiet
    <2>2. CASE Wrote
      <3>1. running.edit \in Logged'
        BY <2>2, LogWritten DEF Wrote
      <3> QED
        BY <3>1 DEF Consumed
    <2>3. CASE Lost
      BY <2>3 DEF Consumed, Lost
    <2> QED
      BY <2>1, <2>2, <2>3
  <1>4. ASSUME NEW d, NEW f \in Known(d) PROVE f \in Known(d)' \/ f \in lost'
    <2>1. CASE f \in Log(d)
      BY <1>2, <2>1 DEF Known
    <2>2. CASE f \in QueuedEdits(d)'
      BY <2>2 DEF Known
    <2>3. CASE /\ f \in QueuedEdits(d) /\ running.kind = "append"
               /\ running.draft = d /\ running.edit = f
      <3>1. CASE Quiet
        <4>1. f \in Log(d)
          BY <2>3, <3>1 DEF Quiet, Ordered, InsertedOK
        <4> QED
          BY <1>2, <4>1 DEF Known
      <3>2. CASE Wrote
        <4>1. f \in Log(d)'
          BY <2>3, <3>2, LogWritten DEF Wrote
        <4> QED
          BY <4>1 DEF Known
      <3>3. CASE Lost
        BY <2>3, <3>3 DEF Lost
      <3> QED
        BY <3>1, <3>2, <3>3
    <2> QED
      BY <1>4, <2>1, <2>2, <2>3 DEF Known, Consumed
  <1>5. ASSUME NEW d, NEW f \in Known(d)' PROVE f \in Known(d)
    <2>1. CASE f \in QueuedEdits(d)'
      BY <2>1 DEF Known, Consumed
    <2>2. CASE f \in Log(d)' /\ UNCHANGED events
      BY <2>2 DEF Known, Log, IdsOf
    <2>3. CASE f \in Log(d)' /\ Wrote
      <3>1. running.edit \in QueuedEdits(running.draft)
        <4>1. 1 \in 1..Len(queue) /\ running = queue[1]
          BY Numbers
        <4> QED
          BY <2>3, <4>1 DEF Wrote, QueuedEdits
      <3>2. CASE d = running.draft
        <4>1. Log(d)' = Log(d) \union {running.edit}
          BY <2>3, <3>2, LogWritten DEF Wrote
        <4> QED
          BY <2>3, <3>1, <3>2, <4>1 DEF Known
      <3>3. CASE d # running.draft
        <4>1. Log(d)' = Log(d)
          BY <2>3, <3>3, LogWritten DEF Wrote
        <4> QED
          BY <2>3, <4>1 DEF Known
      <3> QED
        BY <3>2, <3>3
    <2> QED
      BY <1>5, <2>1, <2>2, <2>3 DEF Known, Quiet, Lost
  <1>6. ASSUME NEW f \in lost', f \notin lost
        PROVE  \E w \in Pending : w.edit = f /\ books'[w.book].failure
    <2>1. Lost /\ f = running.edit /\ books'[running.book].failure
      BY <1>6 DEF Quiet, Wrote, Lost
    <2>2. running \in Pending
      BY <2>1, RunningFirst DEF Lost
    <2> QED
      BY <2>1, <2>2
  <1> QED
    BY <1>1, <1>3, <1>4, <1>5, <1>6 DEF Carried, Consumed

\* A job made of the screen's text joins the queue: everything carries over.
LEMMA JoinedCarries ==
  ASSUME TypeInv, NEW job, Joined(job), job.edit = nextEdit,
         UNCHANGED <<events, lost>>, FailuresStay
  PROVE  Carried
  <1>1. Extended
    BY SameShape
  <1>2. \A d : Log(d)' = Log(d)
    BY DEF Log, IdsOf
  <1>3. nextEdit <= nextEdit
    BY Numbers
  <1>4. \A d : \A f \in Known(d) : f \in Known(d)'
    BY <1>2 DEF Known, Joined
  <1>5. \A d : \A f \in Known(d)' : f \in Known(d) \/ nextEdit <= f
    BY <1>2, <1>3 DEF Known, Joined
  <1> QED
    BY <1>1, <1>3, <1>4, <1>5 DEF Carried, Joined

\* So it does when queue, log and lost edits stay as they are.
LEMMA KeptCarries ==
  ASSUME TypeInv, UNCHANGED <<events, lost, queue>>, Inserted' = Inserted, FailuresStay
  PROVE  Carried
  <1>1. Extended
    BY SameShape
  <1>2. \A d : Known(d)' = Known(d)
    BY KeptSets DEF Known, Log, IdsOf
  <1> QED
    BY <1>1, <1>2, KeptSets DEF Carried

-------------------------------------------------------------------------------
(* Bookkeepings. *)

\* No event id and no failure changes, and no pending checkpoint appears.
SameBooks ==
    \A b \in 1..Len(books) :
        /\ b \in 1..Len(books')
        /\ books'[b].lastEventId = books[b].lastEventId
        /\ books'[b].failure = books[b].failure

FewerCheckpoints ==
    /\ Len(books') = Len(books)
    /\ \A b \in 1..Len(books) :
           books'[b].pendingCheckpoint \subseteq books[b].pendingCheckpoint

\* Restarting a timer or setting a checkpoint aside keeps event ids and failures.
LEMMA BookKept ==
  ASSUME TypeInv, NEW b \in 1..Len(books),
         \/ books' = books
         \/ \E f \in BOOLEAN : books' = [books EXCEPT ![b].idleTimer = f]
         \/ \E p \in SUBSET books[b].pendingCheckpoint :
                books' = [books EXCEPT ![b].pendingCheckpoint = p]
  PROVE  SameBooks /\ FewerCheckpoints /\ FailuresStay
  <1>1. books \in Seq(BookType) /\ \A i \in 1..Len(books) : books[i] \in BookType
    BY DEF TypeInv, TypeOK
  <1>2. CASE books' = books
    BY <1>2 DEF SameBooks, FewerCheckpoints, FailuresStay
  <1>3. ASSUME NEW f \in BOOLEAN, books' = [books EXCEPT ![b].idleTimer = f]
        PROVE  SameBooks /\ FewerCheckpoints /\ FailuresStay
    BY <1>1, <1>3 DEF SameBooks, FewerCheckpoints, FailuresStay, BookType
  <1>4. ASSUME NEW p \in SUBSET books[b].pendingCheckpoint,
               books' = [books EXCEPT ![b].pendingCheckpoint = p]
        PROVE  SameBooks /\ FewerCheckpoints /\ FailuresStay
    BY <1>1, <1>4 DEF SameBooks, FewerCheckpoints, FailuresStay, BookType
  <1> QED
    BY <1>2, <1>3, <1>4

-------------------------------------------------------------------------------
(* Snapshots stay honest. *)

\* A snapshot that tells the truth still does after the log has grown.
LEMMA HonestStays ==
  ASSUME Extended, lost \subseteq lost', NEW s, s.upTo \in Nat, Honest(s)
  PROVE  Honest(s)'
  <1>1. s.upTo \in 0..Len(events) /\ s.upTo <= Len(events')
    BY DEF Honest, Extended
  <1>2. s.content \subseteq Logged'
    BY LogGrows DEF Honest
  <1>3. TornBefore(s.draft, s.upTo) => TornBefore(s.draft, s.upTo)'
    BY LogGrows
  <1>4. LogUpTo(s.draft, s.upTo)' = LogUpTo(s.draft, s.upTo)
    BY <1>1, LogGrows
  <1> QED
    BY <1>1, <1>2, <1>3, <1>4 DEF Honest

\* Snapshots stay honest when no new one is made.
LEMMA StoredStays ==
  ASSUME TypeInv, StoredHonest, Extended, lost \subseteq lost',
         \A s \in snapshots' :
             \/ s \in snapshots \union inflight
             \/ \E b \in 1..Len(books) : s \in books[b].pendingCheckpoint
             \/ Honest(s)',
         \A s \in inflight' : s \in inflight \/ Honest(s)',
         \A b \in 1..Len(books') : \A s \in books'[b].pendingCheckpoint :
             \/ b \in 1..Len(books) /\ s \in books[b].pendingCheckpoint
             \/ Honest(s)'
  PROVE  StoredHonest'
  <1>1. /\ \A s \in snapshots \union inflight : s.upTo \in Nat
        /\ \A b \in 1..Len(books) : \A s \in books[b].pendingCheckpoint : s.upTo \in Nat
    <2>1. \A b \in 1..Len(books) : books[b] \in BookType
      BY DEF TypeInv, TypeOK
    <2> QED
      BY <2>1 DEF TypeInv, TypeOK, BookType, SnapshotType
  <1>2. \A s \in snapshots \union inflight : Honest(s)'
    BY <1>1, HonestStays DEF StoredHonest
  <1>3. \A b \in 1..Len(books) : \A s \in books[b].pendingCheckpoint : Honest(s)'
    BY <1>1, HonestStays DEF StoredHonest
  <1> QED
    BY <1>2, <1>3 DEF StoredHonest

\* An event id behind no event of its draft stands for the whole log.
LEMMA WholeLog ==
  ASSUME NEW d, NEW n, \A i \in IdsOf(d) : i <= n
  PROVE  LogUpTo(d, n) = Log(d) /\ (Torn(d) => TornBefore(d, n))
  BY DEF LogUpTo, Log, Torn, TornBefore

\* The text of the running job: if nothing of it was lost it is what its draft's
\* log holds, and without a failure nothing of it was.
LEMMA RunningText ==
  ASSUME LogInv, queue # <<>>, running.kind # "checkpoint", ~Inserted
  PROVE  /\ running.content \intersect lost # {}
            \/ Torn(running.draft)
            \/ running.content = Log(running.draft)
         /\ ~book.failure =>
               /\ running.content \subseteq Logged
               /\ running.content \intersect lost = {}
               /\ \A i \in IdsOf(running.draft) : i <= book.lastEventId
         /\ book.lastEventId \in Nat /\ book.lastEventId <= Len(events)
  <1> USE DEF LogInv
  <1> DEFINE c == running.content
             d == running.draft
             e == running.edit
  <1>1. running \in Writes
    BY RunningFirst
  <1>2. Sound(running.book, d, c, e)
    BY <1>1 DEF WritesSound
  <1>3. running.book \in 1..Len(books) /\ book \in BookType
    BY RunningType
  <1>4. book.lastEventId \in Nat /\ book.lastEventId <= Len(events)
    BY <1>3 DEF BookType, BooksKnow, book
  <1> HIDE DEF c, d, e
  <1>5. \A f \in QueuedEdits(d) : e <= f /\ f \in Nat
    BY RunningFirst, QueuedView DEF e
  <1>6. \A f \in Log(d) : f < e
    BY RunningFirst, LoggedView DEF e
  <1>7. e \in Nat
    BY <1>1, WritesView DEF e
  <1>8. {f \in Known(d) : f < e} = Log(d)
    BY <1>5, <1>6, <1>7 DEF Known
  <1>9. c \intersect lost # {} \/ Torn(d) \/ c = Log(d)
    BY <1>2, <1>8 DEF Sound, Complete
  <1>10. ASSUME ~book.failure
         PROVE  c \subseteq Logged /\ c \intersect lost = {}
                /\ \A i \in IdsOf(d) : i <= book.lastEventId
    <2>1. c \intersect lost = {} /\ \A i \in IdsOf(d) : i <= book.lastEventId
      BY <1>2, <1>10 DEF Sound, Blamed, UpToDate, book
    <2>2. \A w \in Pending : e <= w.edit /\ w.edit \in Nat
      BY RunningFirst, PendingView, WritesView DEF e
    <2>3. c \subseteq Logged
      BY <1>2, <1>7, <2>1, <2>2 DEF Sound, Traced
    <2> QED
      BY <2>1, <2>3
  <1> QED
    BY <1>4, <1>9, <1>10 DEF c, d, e

\* The snapshot of a running write, before its row is inserted, tells the truth.
LEMMA RunningHonest ==
  ASSUME LogInv, queue # <<>>, running.kind # "checkpoint", ~Inserted, ~book.failure
  PROVE  Honest(SnapshotOf(running.draft, book.lastEventId, running.content))
  <1>1. /\ running.content \subseteq Logged
        /\ Torn(running.draft) \/ running.content = Log(running.draft)
        /\ book.lastEventId <= Len(events)
        /\ \A i \in IdsOf(running.draft) : i <= book.lastEventId
    BY RunningText
  <1>2. /\ LogUpTo(running.draft, book.lastEventId) = Log(running.draft)
        /\ Torn(running.draft) => TornBefore(running.draft, book.lastEventId)
    BY <1>1, WholeLog
  <1> QED
    BY <1>1, <1>2 DEF Honest, SnapshotOf

\* An event made against all of its draft's log, or after a loss, continues the
\* chain.
LEMMA ChainGrows ==
  ASSUME LogIsChain, NEW d, NEW e, NEW c, NEW n \in Nat, n = Len(events) + 1,
         Written(d, e, c), lost \subseteq lost',
         c \intersect lost # {} \/ Torn(d) \/ c = Log(d)
  PROVE  LogIsChain'
  <1>1. /\ Extended /\ n \in 1..Len(events')
        /\ events'[n].draft = d /\ events'[n].start = c
        /\ Len(events') = n /\ n - 1 = Len(events)
        /\ Len(events) \in Nat /\ n - 1 \in 0..Len(events)
    BY DEF Written, Extended
  <1>2. LogUpTo(d, n - 1) = Log(d)
    <2>1. \A i \in IdsOf(d) : i <= n - 1
      BY <1>1 DEF IdsOf
    <2> QED
      BY <2>1, WholeLog
  <1>3. LogUpTo(d, n - 1)' = Log(d)
    BY <1>1, <1>2, LogGrows
  <1> SUFFICES ASSUME NEW i \in 1..Len(events'), NEW a, a = events'[i].draft
               PROVE  TornBefore(a, i)' \/ events'[i].start = LogUpTo(a, i - 1)'
    BY DEF LogIsChain
  <1>4. CASE i = n
    <2>1. a = d
      BY <1>1, <1>4
    <2>2. CASE c = Log(d)
      BY <1>1, <1>3, <1>4, <2>1, <2>2
    <2>3. CASE c \intersect lost # {}
      <3>1. n \in IdsOf(d)'
        BY <1>1 DEF IdsOf
      <3> QED
        BY <1>1, <1>4, <2>1, <2>3, <3>1 DEF TornBefore
    <2>4. CASE Torn(d)
      <3>1. PICK j \in IdsOf(d) : j <= Len(events) /\ events[j].start \intersect lost # {}
        BY <2>4 DEF Torn, TornBefore
      <3>2. j \in IdsOf(d)' /\ events'[j] = events[j] /\ j <= n
        BY <1>1, <3>1 DEF IdsOf, Extended
      <3> QED
        BY <1>4, <2>1, <3>1, <3>2 DEF TornBefore
    <2> QED
      BY <2>2, <2>3, <2>4
  <1>5. CASE i # n
    <2>1. i \in 1..Len(events) /\ events'[i] = events[i] /\ i - 1 \in 0..Len(events)
      BY <1>1, <1>5 DEF Extended
    <2>2. TornBefore(a, i) \/ events[i].start = LogUpTo(a, i - 1)
      BY <2>1 DEF LogIsChain
    <2>3. /\ TornBefore(a, i) => TornBefore(a, i)'
          /\ LogUpTo(a, i - 1)' = LogUpTo(a, i - 1)
      BY <1>1, <2>1, LogGrows
    <2> QED
      BY <2>1, <2>2, <2>3
  <1> QED
    BY <1>4, <1>5

\* The log stays a chain when it does not grow.
LEMMA ChainStays ==
  ASSUME LogIsChain, UNCHANGED events, lost \subseteq lost' PROVE LogIsChain'
  BY DEF LogIsChain, TornBefore, LogUpTo, IdsOf

\* The text it leads to is honest as a snapshot.
LEMMA WrittenHonest ==
  ASSUME TypeInv, NEW d, NEW e, NEW c, NEW n \in Nat, n = Len(events) + 1,
         Written(d, e, c), lost \subseteq lost',
         c \subseteq Logged, Torn(d) \/ c = Log(d)
  PROVE  Honest(SnapshotOf(d, n, c \union {e}))'
  <1>1. Extended /\ Len(events') = n
    BY DEF Written, Extended
  <1>2. Logged' = Logged \union {e} /\ Log(d)' = Log(d) \union {e}
    BY LogWritten
  <1>3. \A i \in IdsOf(d)' : i <= n
    BY <1>1 DEF IdsOf
  <1>4. LogUpTo(d, n)' = Log(d)'
    BY <1>3 DEF LogUpTo, Log
  <1>5. Torn(d) => TornBefore(d, n)'
    <2>1. Torn(d) => Torn(d)'
      BY <1>1, LogGrows
    <2> QED
      BY <1>3, <2>1 DEF Torn, TornBefore
  <1>6. Honest([draft |-> d, upTo |-> n, content |-> c \union {e}])'
    BY <1>1, <1>2, <1>4, <1>5 DEF Honest
  <1> QED
    BY <1>6 DEF SnapshotOf

-------------------------------------------------------------------------------
(* Loads. *)

\* A load under way keeps its draft.
SameLoad == load'.phase = "none" \/ (load.phase # "none" /\ load'.draft = load.draft)

\* Enqueueing keeps the order of loads.
LEMMA ChainedLoads ==
  ASSUME LoadOrder, NEW job, Chained(job), view'.draft = view.draft,
         \/ SameLoad /\ (job.kind # "checkpoint" => job.draft = view.draft)
         \/ job.kind = "checkpoint" /\ job.caller = "load" /\ load'.draft # view.draft
  PROVE  LoadOrder'
  <1>1. \A k \in 1..Len(queue') : k \in 1..Len(queue) \/ k = Len(queue) + 1
    BY DEF Chained
  <1>2. \A k \in 1..Len(queue) : k \in 1..Len(queue') /\ queue'[k] = queue[k]
    BY DEF Chained
  <1>3. /\ Len(queue) + 1 \in 1..Len(queue') /\ queue'[Len(queue) + 1] = job
        /\ \A k \in 1..Len(queue) : k < Len(queue) + 1
    BY DEF Chained
  <1> DEFINE n == Len(queue) + 1
  <1>4. /\ \A k \in 1..Len(queue') : k \in 1..Len(queue) \/ k = n
        /\ n \in 1..Len(queue') /\ queue'[n] = job
        /\ \A k \in 1..Len(queue) : k < n
    BY <1>1, <1>3
  <1> HIDE DEF n
  <1>5. CASE SameLoad /\ (job.kind # "checkpoint" => job.draft = view.draft)
    BY <1>2, <1>4, <1>5 DEF LoadOrder, SameLoad
  <1>6. CASE job.kind = "checkpoint" /\ job.caller = "load" /\ load'.draft # view.draft
    BY <1>2, <1>4, <1>6 DEF LoadOrder
  <1> QED
    BY <1>5, <1>6

\* Settling a job keeps the order of loads.
LEMMA EndedLoads ==
  ASSUME LoadOrder, Ended, view'.draft = view.draft, SameLoad
  PROVE  LoadOrder'
  <1> SUFFICES ASSUME load'.phase # "none"
               PROVE  /\ load'.draft # view'.draft
                      /\ \A k \in 1..Len(queue') :
                            queue'[k].kind # "checkpoint" /\ queue'[k].draft = load'.draft
                              => \E m \in 1..Len(queue') : k < m /\ queue'[m].caller = "load"
    BY DEF LoadOrder
  <1>1. load.phase # "none" /\ load'.draft = load.draft
    BY DEF SameLoad
  <1>2. ASSUME NEW k \in 1..Len(queue'),
               queue'[k].kind # "checkpoint", queue'[k].draft = load'.draft
        PROVE  \E m \in 1..Len(queue') : k < m /\ queue'[m].caller = "load"
    <2>1. k + 1 \in 1..Len(queue) /\ queue'[k] = queue[k + 1]
      BY DEF Ended
    <2>2. PICK m \in 1..Len(queue) : k + 1 < m /\ queue[m].caller = "load"
      BY <1>1, <1>2, <2>1 DEF LoadOrder
    <2>3. m - 1 \in 1..Len(queue') /\ k < m - 1 /\ (m - 1) + 1 = m
      BY <2>2 DEF Ended
    <2>4. queue'[m - 1] = queue[m]
      BY <2>3 DEF Ended
    <2> QED
      BY <2>2, <2>3, <2>4
  <1> QED
    BY <1>1, <1>2 DEF LoadOrder

\* A step that leaves queue and load alone keeps it.
LEMMA KeptLoads ==
  ASSUME LoadOrder, UNCHANGED queue, view'.draft = view.draft, SameLoad
  PROVE  LoadOrder'
  BY DEF LoadOrder, SameLoad

\* A load whose flush has been answered finds no job of its draft in the queue.
LEMMA NothingQueued ==
  ASSUME TypeInv, LoadOrder, load.phase \in {"read", "commit"}
  PROVE  /\ \A w \in Writes : w.draft # load.draft
         /\ QueuedEdits(load.draft) = {}
  <1>1. \A k \in 1..Len(queue) :
            queue[k].kind # "checkpoint" => queue[k].draft # load.draft
    BY DEF TypeInv, LoadWaits, LoadOrder
  <1> QED
    BY <1>1 DEF Writes, QueuedEdits

\* What a load has read stays the log of its draft.
LEMMA ReadStays ==
  ASSUME TypeInv, Ordered, LoadOrder, LoadRead, lost \subseteq lost',
         load' = load \/ load'.phase # "commit",
         UNCHANGED events \/ (queue # <<>> /\ Wrote)
  PROVE  LoadRead'
  <1> SUFFICES ASSUME load' = load, load.phase = "commit" PROVE LoadRead'
    BY DEF LoadRead
  <1> DEFINE d == load.draft
  <1>1. /\ load.content \subseteq Logged /\ (~Torn(d) => load.content = Log(d))
        /\ \A i \in IdsOf(d) : i <= load.latestEventId
        /\ load.latestEventId <= Len(events) /\ load.latestEventId \in Nat
    BY DEF LoadRead, TypeInv, TypeOK
  <1> SUFFICES ASSUME NEW a, a = d
               PROVE  /\ load.content \subseteq Logged'
                      /\ ~Torn(a)' => load.content = Log(a)'
                      /\ \A i \in IdsOf(a)' : i <= load.latestEventId
                      /\ load.latestEventId <= Len(events')
    BY DEF LoadRead
  <1> HIDE DEF d
  <1>2. Extended
    BY SameShape DEF Wrote, Written
  <1>3. Logged \subseteq Logged' /\ (Torn(a) => Torn(a)')
    BY <1>2, LogGrows
  <1>4. Log(a)' = Log(a) /\ IdsOf(a)' = IdsOf(a)
    <2>1. CASE UNCHANGED events
      BY <2>1 DEF Log, IdsOf
    <2>2. CASE queue # <<>> /\ Wrote
      <3>1. running \in Writes
        BY <2>2, RunningFirst DEF Wrote
      <3>2. a # running.draft
        BY <3>1, NothingQueued DEF d
      <3> QED
        BY <2>2, <3>2, LogWritten DEF Wrote
    <2> QED
      BY <2>1, <2>2
  <1>5. load.latestEventId <= Len(events')
    BY <1>1, <1>2 DEF Extended
  <1> QED
    BY <1>1, <1>3, <1>4, <1>5

-------------------------------------------------------------------------------
(* The parts of the invariant together. *)

\* A job with the text on screen.
OfScreen(w) ==
    /\ view.draft # NoDraft
    /\ w.book = current /\ w.draft = view.draft
    /\ w.content = view.content /\ w.edit = nextEdit

\* The bookkeepings that jobs and the screen use stay up to date.
Watched(b, d) ==
    \/ \E w \in Writes : w.book = b /\ w.draft = d
    \/ b = current /\ d = view.draft /\ view.draft # NoDraft

WatchedStay ==
    \A b \in 1..Len(books) : \A d : Watched(b, d) /\ UpToDate(b, d) => UpToDate(b, d)'

\* Queued texts stay sound.
LEMMA WritesStay ==
  ASSUME LogInv, TypeInv', Ordered', Carried, WatchedStay,
         \A w \in Writes' : w \in Writes \/ OfScreen(w)
  PROVE  WritesSound'
  <1> SUFFICES ASSUME NEW w \in Writes' PROVE Sound(w.book, w.draft, w.content, w.edit)'
    BY DEF WritesSound
  <1>1. current \in 1..Len(books) /\ nextEdit \in Nat /\ nextEdit <= nextEdit
    BY JobTypes, Numbers DEF LogInv
  <1>2. CASE w \in Writes
    <2>1. w.book \in 1..Len(books) /\ w.edit \in Nat /\ w.edit <= nextEdit
      <3>1. PICK k \in 1..Len(queue) : w = queue[k]
        BY <1>2 DEF Writes
      <3> QED
        BY <1>2, <3>1, WritesView DEF LogInv, Ordered, OrderOK
    <2>2. Sound(w.book, w.draft, w.content, w.edit)
      BY <1>2 DEF LogInv, WritesSound
    <2>3. UpToDate(w.book, w.draft)'
      BY <1>2, <2>1, <2>2 DEF WatchedStay, Watched, Sound
    <2> QED
      BY <2>1, <2>2, <2>3, SoundStays DEF LogInv
  <1>3. CASE OfScreen(w)
    <2>1. Sound(w.book, w.draft, w.content, w.edit)
      BY <1>3 DEF LogInv, ViewSound, OfScreen
    <2>2. UpToDate(w.book, w.draft)'
      BY <1>1, <1>3, <2>1 DEF WatchedStay, Watched, Sound, OfScreen
    <2>3. w.book \in 1..Len(books) /\ w.edit \in Nat /\ w.edit <= nextEdit
      BY <1>1, <1>3 DEF OfScreen
    <2> QED
      BY <2>1, <2>2, <2>3, SoundStays DEF LogInv
  <1> QED
    BY <1>2, <1>3

\* The screen's text stays sound.
LEMMA ScreenStays ==
  ASSUME LogInv, TypeInv', Ordered', Carried, WatchedStay,
         NEW b, b = current, NEW d, d = view.draft, NEW c, c = view.content,
         NEW e, e = nextEdit, view.draft # NoDraft
  PROVE  Sound(b, d, c, e)'
  <1>1. b \in 1..Len(books) /\ e \in Nat /\ e <= nextEdit
    BY JobTypes, Numbers DEF LogInv
  <1>2. Sound(b, d, c, e)
    BY DEF LogInv, ViewSound
  <1>3. UpToDate(b, d)'
    BY <1>1, <1>2 DEF WatchedStay, Watched, Sound
  <1> QED
    BY <1>1, <1>2, <1>3, SoundStays DEF LogInv

\* A draft's writes stay with one bookkeeping.
LEMMA OneBookStays ==
  ASSUME OneBook, current' = current, view'.draft = view.draft,
         \A w \in Writes' : w \in Writes \/ (w.book = current /\ w.draft = view.draft)
  PROVE  OneBook'
  BY DEF OneBook

\* The bookkeepings, the screen and the texts after a step that leaves the screen
\* alone.
LEMMA TextsStay ==
  ASSUME LogInv, TypeInv', Ordered', Carried, WatchedStay,
         Len(books') = Len(books), UNCHANGED <<view, nextEdit>>,
         \A w \in Writes' : w \in Writes \/ OfScreen(w)
  PROVE  WritesSound' /\ ViewSound' /\ OneBook'
  <1>1. current' = current
    BY DEF current
  <1>2. ViewSound'
    <2> SUFFICES ASSUME view.draft # NoDraft,
                        NEW b, b = current, NEW d, d = view.draft, NEW c, c = view.content,
                        NEW e, e = nextEdit
                 PROVE  Sound(b, d, c, e)'
      BY <1>1 DEF ViewSound
    <2> QED
      BY ScreenStays
  <1>3. OneBook'
    BY <1>1, OneBookStays DEF LogInv, OfScreen
  <1> QED
    BY <1>2, <1>3, WritesStay

\* With books and log unchanged, what is watched is unchanged.
LEMMA SameWatched == ASSUME SameBooks, UNCHANGED events PROVE WatchedStay
  BY DEF SameBooks, WatchedStay, UpToDate, IdsOf

\* Event ids that bookkeepings keep stay those of existing events.
LEMMA KnowStays ==
  ASSUME BooksKnow, SameBooks, Len(books') = Len(books), UNCHANGED events
  PROVE  BooksKnow'
  BY DEF BooksKnow, SameBooks

\* A snapshot after the change stays due.
LEMMA AfterStays ==
  ASSUME TypeInv, AfterHonest, Extended, lost \subseteq lost', SameBooks,
         Inserted' => Inserted /\ queue # <<>> /\ running' = running
  PROVE  AfterHonest'
  <1> SUFFICES ASSUME Inserted'
               PROVE  ~book'.failure /\ Honest(AfterChange(book.lastEventId))'
    BY DEF AfterHonest
  <1>1. /\ Inserted /\ queue # <<>> /\ running' = running
        /\ running.book \in 1..Len(books) /\ book \in BookType
    BY RunningType
  <1>2. book'.lastEventId = book.lastEventId /\ book'.failure = book.failure
    BY <1>1 DEF book, SameBooks
  <1>3. ~book'.failure
    BY <1>1, <1>2 DEF AfterHonest
  <1> SUFFICES ASSUME NEW s, s = AfterChange(book.lastEventId) PROVE Honest(s)'
    BY <1>1, <1>2, <1>3 DEF AfterChange
  <1>4. Honest(s) /\ s.upTo \in Nat
    BY <1>1, <1>2 DEF AfterHonest, AfterChange, SnapshotOf, BookType
  <1> QED
    BY <1>4, HonestStays

\* A step that neither writes nor loses an edit, and shows no other draft.
Uneventful ==
    /\ UNCHANGED <<events, lost, view, nextEdit>>
    /\ SameBooks /\ FewerCheckpoints
    /\ load' = load \/ load'.phase # "commit"
    /\ \A s \in snapshots' :
           \/ s \in snapshots \union inflight
           \/ \E b \in 1..Len(books) : s \in books[b].pendingCheckpoint
           \/ Honest(s)
    /\ \A s \in inflight' : s \in inflight \/ Honest(s)

\* A step that logs nothing and makes no new text keeps the whole invariant.
LEMMA UneventfulLog ==
  ASSUME LogInv, TypeInv', Ordered', LoadOrder', Carried, Uneventful,
         \A w \in Writes' : w \in Writes \/ OfScreen(w),
         Inserted' => Inserted /\ queue # <<>> /\ running' = running
  PROVE  LogInv'
  <1> USE DEF LogInv
  <1>1. Extended /\ lost \subseteq lost' /\ Len(books') = Len(books)
    BY DEF Carried, Uneventful, FewerCheckpoints
  <1>2. WritesSound' /\ ViewSound' /\ OneBook'
    <2>1. WatchedStay
      BY SameWatched DEF Uneventful
    <2>2. UNCHANGED <<view, nextEdit>>
      BY DEF Uneventful
    <2> QED
      BY <1>1, <2>1, <2>2, TextsStay
  <1>3. BooksKnow' /\ LogIsChain'
    BY <1>1, KnowStays, ChainStays DEF Uneventful
  <1>4. StoredHonest'
    <2>1. \A s : Honest(s) => Honest(s)'
      BY DEF Uneventful, Honest, Logged, TornBefore, LogUpTo, IdsOf
    <2>2. \A b \in 1..Len(books') : \A s \in books'[b].pendingCheckpoint :
              b \in 1..Len(books) /\ s \in books[b].pendingCheckpoint
      BY DEF Uneventful, FewerCheckpoints
    <2> QED
      BY <1>1, <2>1, <2>2, StoredStays DEF Uneventful
  <1>5. AfterHonest'
    BY <1>1, AfterStays DEF Uneventful
  <1>6. LoadRead' \/ (load' # load /\ load'.phase = "commit")
    BY <1>1, ReadStays DEF Uneventful
  <1> QED
    BY <1>2, <1>3, <1>4, <1>5, <1>6 DEF Uneventful

-------------------------------------------------------------------------------
(* The steps, one by one. *)

\* The empty database satisfies the invariant.
LEMMA InitLog == Init => LogInv
  <1> SUFFICES ASSUME Init PROVE LogInv
    OBVIOUS
  <1>1. TypeInv
    BY InitTypeInv
  <1>2. /\ events = <<>> /\ queue = <<>> /\ snapshots = {} /\ inflight = {}
        /\ nextEdit = 1 /\ lost = {} /\ ~Inserted /\ Len(events) = 0 /\ Len(queue) = 0
        /\ load.phase = "none" /\ view.draft = NoDraft
        /\ Len(books) = 1 /\ books[1] = Book(0, {})
    BY DEF Init, NoLoad, NoView, Inserted
  <1>3. Ordered
    BY <1>2 DEF Ordered, OrderOK, LostOK, InsertedOK
  <1>4. Writes = {}
    BY <1>2 DEF Writes
  <1>5. LoadOrder /\ OneBook /\ WritesSound /\ ViewSound /\ LoadRead
    BY <1>2, <1>4 DEF LoadOrder, OneBook, WritesSound, ViewSound, LoadRead
  <1>6. BooksKnow /\ LogIsChain /\ StoredHonest /\ AfterHonest
    BY <1>2 DEF BooksKnow, LogIsChain, StoredHonest, AfterHonest, Book
  <1> QED
    BY <1>1, <1>3, <1>5, <1>6 DEF LogInv

\* A checkpoint or a named version joins the queue.
LEMMA ChainedLog ==
  ASSUME LogInv, TypeInv', NEW job \in JobType, NEW close, Enqueue(job, close),
         job.edit = nextEdit, job.kind # "append",
         UNCHANGED <<events, snapshots, inflight, lost, view, nextEdit, step>>,
         SameBooks, FewerCheckpoints, FailuresStay,
         job.kind # "checkpoint" => OfScreen(job),
         \/ load' = load
         \/ /\ job.kind = "checkpoint" /\ job.caller = "load"
            /\ load'.phase = "flush" /\ load'.draft # view.draft
  PROVE  LogInv'
  <1> USE DEF LogInv
  <1>1. Chained(job) /\ Inserted' = Inserted
    BY ChainedShape DEF Inserted
  <1>2. Ordered'
    BY <1>1, ChainedOrdered
  <1>3. Joined(job)
    BY <1>1, ChainedSets
  <1>4. Carried
    BY <1>3, JoinedCarries
  <1>5. LoadOrder'
    <2>1. CASE load' = load
      <3>1. SameLoad
        BY <2>1 DEF SameLoad
      <3> QED
        BY <1>1, <3>1, ChainedLoads DEF OfScreen
    <2>2. CASE /\ job.kind = "checkpoint" /\ job.caller = "load"
               /\ load'.phase = "flush" /\ load'.draft # view.draft
      BY <1>1, <2>2, ChainedLoads
    <2> QED
      BY <2>1, <2>2
  <1>6. Uneventful
    BY DEF Uneventful
  <1>7. \A w \in Writes' : w \in Writes \/ OfScreen(w)
    BY <1>3 DEF Joined
  <1>8. Inserted' => Inserted /\ queue # <<>> /\ running' = running
    <2>1. queue # <<>> => running' = running
      <3> SUFFICES ASSUME queue # <<>> PROVE running' = running
        OBVIOUS
      <3>1. 1 \in 1..Len(queue) /\ running = queue[1]
        BY Numbers
      <3>2. queue' # <<>> /\ running' = queue'[1]
        BY <1>1, <3>1 DEF Chained, running, TypeInv, TypeOK
      <3> QED
        BY <1>1, <3>1, <3>2 DEF Chained
    <2> QED
      BY <1>1, <2>1 DEF Ordered, InsertedOK
  <1> QED
    BY <1>2, <1>4, <1>5, <1>6, <1>7, <1>8, UneventfulLog

\* The running job ends without having touched the log in this step.
LEMMA EndedLog ==
  ASSUME LogInv, TypeInv', queue # <<>>, Finish, Quiet, Uneventful, FailuresStay, SameLoad
  PROVE  LogInv'
  <1> USE DEF LogInv
  <1>1. Ended /\ ~Inserted'
    BY EndedShape DEF Finish, Inserted
  <1>2. Ordered'
    BY <1>1, EndedOrdered DEF Uneventful
  <1>3. Consumed
    BY <1>1, EndedSets
  <1>4. Carried
    BY <1>3, ConsumedCarries
  <1>5. LoadOrder'
    BY <1>1, EndedLoads DEF Uneventful
  <1>6. \A w \in Writes' : w \in Writes
    BY <1>3 DEF Consumed
  <1> QED
    BY <1>1, <1>2, <1>4, <1>5, <1>6, UneventfulLog

\* The queue is left alone.
LEMMA KeptLog ==
  ASSUME LogInv, TypeInv', UNCHANGED queue, Inserted' = Inserted, Uneventful,
         FailuresStay, SameLoad
  PROVE  LogInv'
  <1> USE DEF LogInv
  <1>1. Ordered'
    BY KeptOrdered DEF Uneventful
  <1>2. Carried
    BY KeptCarries DEF Uneventful
  <1>3. LoadOrder'
    BY KeptLoads DEF Uneventful
  <1>4. Writes' = Writes
    BY KeptSets
  <1>5. Inserted' => Inserted /\ queue # <<>> /\ running' = running
    BY DEF Ordered, InsertedOK, running
  <1> QED
    BY <1>1, <1>2, <1>3, <1>4, <1>5, UneventfulLog

\* Nothing but the queue and the loader.
LEMMA SameUneventful ==
  ASSUME UNCHANGED <<events, lost, view, nextEdit, snapshots, inflight>>,
         SameBooks, FewerCheckpoints, load' = load \/ load'.phase # "commit"
  PROVE  Uneventful
  BY DEF Uneventful

\* The checkpoint of the screen's text is a job numbered with the next edit.
LEMMA CheckpointJobView ==
  ASSUME LogInv, NEW caller \in Callers, NEW need \in SUBSET Nat,
         NEW job, job = CheckpointJob(caller, current, need)
  PROVE  /\ job \in JobType /\ job.kind = "checkpoint" /\ job.edit = nextEdit
         /\ job.caller = caller
  <1>1. current \in Nat \ {0}
    BY JobTypes, Numbers DEF LogInv, TypeInv, TypeOK
  <1> QED
    BY <1>1, JobTypes DEF LogInv, CheckpointJob

\* Flushing, by whomever it is asked for, keeps the invariant.
LEMMA FlushLog ==
  ASSUME LogInv, TypeInv', NEW caller \in Callers, NEW close, Flush(caller, close),
         UNCHANGED <<events, snapshots, inflight, lost, view, nextEdit, step>>,
         \/ load' = load
         \/ caller = "load" /\ load'.phase = "flush" /\ load'.draft # view.draft
  PROVE  LogInv'
  <1>1. PICK job : job = CheckpointJob(caller, current, mine)
    OBVIOUS
  <1>2. mine \in SUBSET Nat
    BY DEF LogInv, TypeInv, TypeOK
  <1>3. /\ job \in JobType /\ job.kind = "checkpoint" /\ job.edit = nextEdit
        /\ job.caller = caller
    BY <1>1, <1>2, CheckpointJobView
  <1>4. SameBooks /\ FewerCheckpoints /\ FailuresStay
    BY BookKept, JobTypes DEF Flush, LogInv
  <1>5. Enqueue(job, close)
    BY <1>1 DEF Flush
  <1> QED
    BY <1>3, <1>4, <1>5, ChainedLog

\* The idle timer's checkpoint keeps it.
LEMMA IdleCheckpointLog == ASSUME LogInv, IdleCheckpoint PROVE LogInv'
  <1>1. PICK job : job = CheckpointJob("idle", current, {})
    OBVIOUS
  <1>2. /\ job \in JobType /\ job.kind = "checkpoint" /\ job.edit = nextEdit
    BY <1>1, CheckpointJobView DEF Callers
  <1>3. SameBooks /\ FewerCheckpoints /\ FailuresStay
    BY BookKept, JobTypes DEF IdleCheckpoint, LogInv
  <1>4. Enqueue(job, closing)
    BY <1>1 DEF IdleCheckpoint
  <1>5. /\ UNCHANGED <<events, snapshots, inflight, lost, view, nextEdit, step>>
        /\ load' = load
    BY DEF IdleCheckpoint, dbVars, editVars, historyVars
  <1>6. TypeInv'
    BY IdleCheckpointType DEF LogInv
  <1> QED
    BY <1>2, <1>3, <1>4, <1>5, <1>6, ChainedLog

\* FlushPersistence keeps the invariant.
LEMMA FlushPersistenceLog == ASSUME LogInv, FlushPersistence PROVE LogInv'
  <1>1. TypeInv'
    BY FlushPersistenceType DEF LogInv
  <1> QED
    BY <1>1, FlushLog DEF FlushPersistence, dbVars, editVars, historyVars, Callers

\* StartLoad keeps the invariant.
LEMMA StartLoadLog == ASSUME LogInv, NEW d \in Drafts, StartLoad(d) PROVE LogInv'
  <1>1. TypeInv'
    BY StartLoadType DEF LogInv
  <1>2. load'.phase = "flush" /\ load'.draft # view.draft
    BY DEF StartLoad, NoLoad
  <1> QED
    BY <1>1, <1>2, FlushLog DEF StartLoad, dbVars, editVars, historyVars, Callers

\* RequestClose keeps the invariant.
LEMMA RequestCloseLog == ASSUME LogInv, RequestClose PROVE LogInv'
  <1>1. TypeInv'
    BY RequestCloseType DEF LogInv
  <1> QED
    BY <1>1, FlushLog DEF RequestClose, dbVars, editVars, historyVars, Callers

\* CloseAgain keeps the invariant.
LEMMA CloseAgainLog == ASSUME LogInv, CloseAgain PROVE LogInv'
  <1>1. TypeInv'
    BY CloseAgainType DEF LogInv
  <1> QED
    BY <1>1, FlushLog DEF CloseAgain, dbVars, editVars, historyVars, Callers

\* NameVersion keeps the invariant.
LEMMA NameVersionLog == ASSUME LogInv, NameVersion PROVE LogInv'
  <1>1. PICK job : job = NamedJob
    OBVIOUS
  <1>2. /\ job \in JobType /\ job.kind = "named" /\ job.edit = nextEdit
        /\ OfScreen(job)
    BY <1>1, JobTypes DEF NameVersion, OfScreen, NamedJob, LogInv
  <1>3. SameBooks /\ FewerCheckpoints /\ FailuresStay
    BY BookKept, JobTypes DEF NameVersion, LogInv
  <1>4. Enqueue(job, closing)
    BY <1>1 DEF NameVersion
  <1>5. /\ UNCHANGED <<events, snapshots, inflight, lost, view, nextEdit, step>>
        /\ load' = load
    BY DEF NameVersion, dbVars, editVars, historyVars
  <1>6. TypeInv'
    BY NameVersionType DEF LogInv
  <1> QED
    BY <1>2, <1>3, <1>4, <1>5, <1>6, ChainedLog

\* NamedVersionRefused keeps the invariant.
LEMMA NamedVersionRefusedLog == ASSUME LogInv, NamedVersionRefused PROVE LogInv'
  <1>1. TypeInv' /\ queue # <<>> /\ Finish /\ Quiet /\ SameLoad
    BY NamedVersionRefusedType
       DEF LogInv, NamedVersionRefused, Running, Quiet, SameLoad, dbVars, historyVars
  <1>2. SameBooks /\ FewerCheckpoints /\ FailuresStay
    BY BookKept, JobTypes DEF NamedVersionRefused, LogInv
  <1>3. Uneventful
    BY <1>2, SameUneventful DEF NamedVersionRefused, dbVars, editVars, historyVars
  <1> QED
    BY <1>1, <1>2, <1>3, EndedLog

\* NamedVersionSaved keeps the invariant.
LEMMA NamedVersionSavedLog == ASSUME LogInv, NamedVersionSaved PROVE LogInv'
  <1>1. TypeInv' /\ queue # <<>> /\ Finish /\ Quiet /\ SameLoad
    BY NamedVersionSavedType
       DEF LogInv, NamedVersionSaved, Running, Quiet, SameLoad, historyVars
  <1>2. SameBooks /\ FewerCheckpoints /\ FailuresStay
    <2>1. running.book \in 1..Len(books)
      BY <1>1, RunningType DEF LogInv
    <2>2. Uncleared(books[running.book].pendingCheckpoint, running.draft, book.lastEventId)
              \in SUBSET books[running.book].pendingCheckpoint
      BY DEF Uncleared
    <2> QED
      BY <2>1, <2>2, BookKept DEF NamedVersionSaved, LogInv
  <1>3. Honest(SnapshotOf(running.draft, book.lastEventId, running.content))
    <2>1. ~Inserted
      BY DEF LogInv, Ordered, InsertedOK, NamedVersionSaved, Running
    <2> QED
      BY <1>1, <2>1, RunningHonest DEF NamedVersionSaved, Running
  <1>4. Uneventful
    BY <1>2, <1>3 DEF Uneventful, NamedVersionSaved, InsertSnapshots, editVars, historyVars
  <1> QED
    BY <1>1, <1>2, <1>4, EndedLog

\* CheckpointSucceeds keeps the invariant.
LEMMA CheckpointSucceedsLog == ASSUME LogInv, CheckpointSucceeds PROVE LogInv'
  <1>1. TypeInv' /\ queue # <<>> /\ Finish /\ Quiet
    BY CheckpointSucceedsType DEF LogInv, CheckpointSucceeds, Running, Quiet
  <1>2. load' = load \/ (load'.phase = "read" /\ load'.draft = load.draft
                         /\ load.phase = "flush")
    <2>1. running.caller = "load" => load.phase = "flush"
      BY <1>1, RunningType DEF LogInv
    <2> QED
      BY <2>1 DEF CheckpointSucceeds, Resolve, LogInv, TypeInv, TypeOK
  <1>3. SameLoad /\ (load' = load \/ load'.phase # "commit")
    BY <1>2 DEF SameLoad
  <1>4. running.book \in 1..Len(books)
    BY <1>1, RunningType DEF LogInv
  <1>5. SameBooks /\ FewerCheckpoints /\ FailuresStay
    <2>1. {} \in SUBSET books[running.book].pendingCheckpoint
      OBVIOUS
    <2> QED
      BY <1>4, <2>1, BookKept DEF CheckpointSucceeds, LogInv
  <1>6. Uneventful
    BY <1>3, <1>4, <1>5 DEF Uneventful, CheckpointSucceeds, InsertSnapshots, editVars, book
  <1> QED
    BY <1>1, <1>3, <1>5, <1>6, EndedLog

\* CheckpointFails keeps the invariant.
LEMMA CheckpointFailsLog == ASSUME LogInv, CheckpointFails PROVE LogInv'
  <1>1. TypeInv' /\ queue # <<>> /\ Finish /\ Quiet
    BY CheckpointFailsType DEF LogInv, CheckpointFails, Running, Quiet, dbVars
  <1>2. load' = load \/ load'.phase = "none"
    BY DEF CheckpointFails, Reject, NoLoad
  <1>3. SameLoad
    BY <1>2 DEF SameLoad
  <1>4. SameBooks /\ FewerCheckpoints /\ FailuresStay
    BY BookKept, JobTypes DEF CheckpointFails, LogInv
  <1>5. Uneventful
    BY <1>2, <1>4, SameUneventful DEF CheckpointFails, dbVars, editVars
  <1> QED
    BY <1>1, <1>3, <1>4, <1>5, EndedLog

\* SnapshotBeforeChange keeps the invariant.
LEMMA SnapshotBeforeChangeLog ==
  ASSUME LogInv, NEW kept \in BOOLEAN, NEW guarded \in BOOLEAN,
         SnapshotBeforeChange(kept, guarded)
  PROVE  LogInv'
  <1>1. /\ TypeInv' /\ UNCHANGED queue /\ ~Inserted /\ Inserted' = Inserted
        /\ queue # <<>> /\ SameLoad
    BY SnapshotBeforeChangeType
       DEF LogInv, SnapshotBeforeChange, Running, Inserted, SameLoad
  <1>2. SameBooks /\ FewerCheckpoints /\ FailuresStay
    BY BookKept, JobTypes DEF SnapshotBeforeChange, LogInv
  <1>3. Honest(SnapshotOf(running.draft, book.lastEventId, running.content))
    BY <1>1, RunningHonest DEF SnapshotBeforeChange, Running
  <1>4. Uneventful
    BY <1>2, <1>3
       DEF Uneventful, SnapshotBeforeChange, InsertSnapshots, editVars, historyVars
  <1> QED
    BY <1>1, <1>2, <1>4, KeptLog

\* SnapshotAfterChange keeps the invariant.
LEMMA SnapshotAfterChangeLog ==
  ASSUME LogInv, NEW saved \in BOOLEAN, SnapshotAfterChange(saved) PROVE LogInv'
  <1>1. TypeInv' /\ queue # <<>> /\ Finish /\ Quiet /\ SameLoad /\ Inserted
    BY SnapshotAfterChangeType
       DEF LogInv, SnapshotAfterChange, Running, Quiet, Inserted, SameLoad, historyVars
  <1>2. SameBooks /\ FewerCheckpoints /\ FailuresStay
    <2>1. running.book \in 1..Len(books)
      BY <1>1, RunningType DEF LogInv
    <2>2. Uncleared(books[running.book].pendingCheckpoint, running.draft, book.lastEventId)
              \in SUBSET books[running.book].pendingCheckpoint
      BY DEF Uncleared
    <2> QED
      BY <2>1, <2>2, BookKept DEF SnapshotAfterChange, LogInv
  <1>3. Honest(AfterChange(book.lastEventId))
    BY <1>1 DEF LogInv, AfterHonest
  <1>4. Uneventful
    BY <1>2, <1>3
       DEF Uneventful, SnapshotAfterChange, InsertSnapshots, editVars, historyVars
  <1> QED
    BY <1>1, <1>2, <1>4, EndedLog

\* RecoverySnapshotSettles keeps the invariant.
LEMMA RecoverySnapshotSettlesLog ==
  ASSUME LogInv, NEW s \in inflight, NEW saved \in BOOLEAN,
         RecoverySnapshotSettles(s, saved)
  PROVE  LogInv'
  <1>1. TypeInv' /\ UNCHANGED queue /\ Inserted' = Inserted /\ SameLoad
    BY RecoverySnapshotSettlesType
       DEF LogInv, RecoverySnapshotSettles, Inserted, SameLoad
  <1>2. SameBooks /\ FewerCheckpoints /\ FailuresStay
    BY BookKept, JobTypes DEF RecoverySnapshotSettles, LogInv
  <1>3. Uneventful
    BY <1>2 DEF Uneventful, RecoverySnapshotSettles, InsertSnapshots, editVars, historyVars
  <1> QED
    BY <1>1, <1>2, <1>3, KeptLog

\* AbandonLoad keeps the invariant.
LEMMA AbandonLoadLog == ASSUME LogInv, AbandonLoad PROVE LogInv'
  <1>1. TypeInv' /\ UNCHANGED queue /\ Inserted' = Inserted /\ load'.phase = "none"
    BY AbandonLoadType DEF LogInv, AbandonLoad, Inserted, NoLoad
  <1>2. SameBooks /\ FewerCheckpoints /\ FailuresStay
    BY BookKept, JobTypes DEF AbandonLoad, LogInv
  <1>3. Uneventful
    BY <1>1, <1>2, SameUneventful DEF AbandonLoad, dbVars, editVars, historyVars
  <1> QED
    BY <1>1, <1>2, <1>3, KeptLog DEF SameLoad

\* The writer's next edit: the text on screen and its append grow together.
LEMMA SoundGrows ==
  TypeInv /\ Ordered =>
    \A b, d, c : \A e \in Nat : \A job \in Pending :
        /\ Sound(b, d, c, e)
        /\ job.edit = e /\ job.book = b /\ job.draft = d
        => Sound(b, d, c \union {e}, e + 1)
  <1> SUFFICES ASSUME TypeInv, Ordered, NEW b, NEW d, NEW c, NEW e \in Nat,
                      NEW job \in Pending, Sound(b, d, c, e),
                      job.edit = e, job.book = b, job.draft = d
               PROVE  Sound(b, d, c \union {e}, e + 1)
    OBVIOUS
  <1>1. Traced(c, e) /\ Complete(d, c, e) /\ Blamed(b, c) /\ UpToDate(b, d)
    BY DEF Sound
  <1>2. Traced(c \union {e}, e + 1)
    <2>1. \A f \in c : f \in Nat
      BY <1>1, LoggedView, PendingView, WritesView DEF Traced
    <2> QED
      BY <1>1, <2>1 DEF Traced
  <1>3. e \in Known(d) /\ e \notin lost
    BY PendingView DEF Known
  <1>4. Complete(d, c \union {e}, e + 1)
    <2> SUFFICES ASSUME (c \union {e}) \intersect lost = {}, ~Torn(d)
                 PROVE  c \union {e} = {f \in Known(d) : f < e + 1}
      BY DEF Complete
    <2>1. c = {f \in Known(d) : f < e}
      BY <1>1 DEF Complete
    <2>2. \A f \in Known(d) : f \in Nat
      BY LoggedView
    <2>3. \A f \in Known(d) : f < e + 1 <=> f < e \/ f = e
      BY <2>2
    <2> QED
      BY <1>3, <2>1, <2>3
  <1>5. \A w \in Pending : w.edit = e => w.book = b
    <2> SUFFICES ASSUME NEW w \in Pending, w.edit = e PROVE w = job
      OBVIOUS
    <2>1. PICK k \in 1..Len(queue) : queue[k].kind = "append" /\ w = queue[k]
      BY DEF Pending
    <2>2. PICK m \in 1..Len(queue) : queue[m].kind = "append" /\ job = queue[m]
      BY DEF Pending
    <2>3. ~(k < m) /\ ~(m < k)
      BY <2>1, <2>2, Numbers DEF Ordered, OrderOK
    <2>4. k = m
      BY <2>3, Numbers
    <2> QED
      BY <2>1, <2>2, <2>4
  <1>6. Blamed(b, c \union {e})
    BY <1>1, <1>3, <1>5 DEF Blamed
  <1> QED
    BY <1>1, <1>2, <1>4, <1>6 DEF Sound

\* SoundGrows in the next state (a state lemma, primed).
LEMMA SoundGrowsNext ==
  (TypeInv /\ Ordered)' =>
    (\A b, d, c : \A e \in Nat : \A job \in Pending :
        /\ Sound(b, d, c, e)
        /\ job.edit = e /\ job.book = b /\ job.draft = d
        => Sound(b, d, c \union {e}, e + 1))'
  BY SoundGrows, PTL

\* AcceptEdit keeps the invariant.
LEMMA AcceptEditLog == ASSUME LogInv, AcceptEdit PROVE LogInv'
  <1> USE DEF LogInv
  <1>1. PICK job : job = AppendJob
    OBVIOUS
  <1>2. /\ job \in JobType /\ job.kind = "append" /\ job.edit = nextEdit
        /\ OfScreen(job)
    BY <1>1, JobTypes DEF AcceptEdit, OfScreen, AppendJob
  <1>3. SameBooks /\ FewerCheckpoints /\ FailuresStay
    BY BookKept, JobTypes DEF AcceptEdit
  <1>4. /\ Enqueue(job, closing) /\ load' = load /\ nextEdit' = nextEdit + 1
        /\ view'.draft = view.draft /\ view'.content = view.content \union {nextEdit}
        /\ UNCHANGED <<events, snapshots, inflight, lost, step>>
    BY <1>1 DEF AcceptEdit, dbVars, historyVars, TypeInv, TypeOK
  <1>5. TypeInv'
    BY AcceptEditType
  <1>6. Chained(job) /\ Inserted' = Inserted /\ Extended
    BY <1>2, <1>4, ChainedShape, SameShape DEF Inserted
  <1>7. Ordered'
    BY <1>2, <1>4, <1>5, <1>6, ChainedOrdered
  <1>8. Joined(job)
    BY <1>6, ChainedSets
  <1>9. Carried
    BY <1>2, <1>3, <1>4, <1>8, JoinedCarries
  <1>10. LoadOrder'
    BY <1>2, <1>4, <1>6, ChainedLoads DEF SameLoad, OfScreen
  <1>11. WatchedStay
    BY <1>3, <1>4, SameWatched
  <1>12. \A w \in Writes' : w \in Writes \/ OfScreen(w)
    BY <1>2, <1>8 DEF Joined
  <1>13. WritesSound'
    BY <1>5, <1>7, <1>9, <1>11, <1>12, WritesStay
  <1>14. current' = current
    BY <1>3 DEF current, FewerCheckpoints
  <1>15. OneBook'
    BY <1>4, <1>12, <1>14, OneBookStays DEF OfScreen
  <1>16. ViewSound'
    <2> SUFFICES ASSUME NEW b, b = current, NEW d, d = view.draft, NEW c, c = view.content,
                        NEW e, e = nextEdit
                 PROVE  Sound(b, d, c \union {e}, e + 1)'
      BY <1>4, <1>14 DEF ViewSound
    <2>1. view.draft # NoDraft /\ e \in Nat
      BY Numbers DEF AcceptEdit
    <2>2. Sound(b, d, c, e)'
      BY <1>5, <1>7, <1>9, <1>11, <2>1, ScreenStays
    <2>3. job \in Pending' /\ job.edit = e /\ job.book = b /\ job.draft = d
      BY <1>2, <1>8 DEF Joined, OfScreen
    <2> QED
      BY <1>5, <1>7, <2>1, <2>2, <2>3, SoundGrowsNext
  <1>17. BooksKnow' /\ LogIsChain'
    BY <1>3, <1>4, KnowStays, ChainStays DEF FewerCheckpoints
  <1>18. StoredHonest'
    <2>1. \A b \in 1..Len(books') : \A s \in books'[b].pendingCheckpoint :
              b \in 1..Len(books) /\ s \in books[b].pendingCheckpoint
      BY <1>3 DEF FewerCheckpoints
    <2> QED
      BY <1>4, <1>6, <2>1, StoredStays
  <1>19. AfterHonest'
    <2>1. queue # <<>> => running' = running
      <3> SUFFICES ASSUME queue # <<>> PROVE running' = running
        OBVIOUS
      <3>1. 1 \in 1..Len(queue) /\ running = queue[1]
        BY Numbers
      <3>2. queue' # <<>> /\ running' = queue'[1]
        BY <1>5, <1>6, <3>1 DEF Chained, running, TypeInv, TypeOK
      <3> QED
        BY <1>6, <3>1, <3>2 DEF Chained
    <2>2. Inserted' => Inserted /\ queue # <<>> /\ running' = running
      BY <1>6, <2>1 DEF Ordered, InsertedOK
    <2> QED
      BY <1>3, <1>4, <1>6, <2>2, AfterStays
  <1>20. LoadRead'
    BY <1>4, ReadStays
  <1> QED
    BY <1>5, <1>7, <1>10, <1>13, <1>15, <1>16, <1>17, <1>18, <1>19, <1>20

-------------------------------------------------------------------------------
(* The append itself. *)

\* Only the running append's bookkeeping learns of it.
OtherBooks ==
    /\ Len(books') = Len(books) /\ FailuresStay
    /\ \A b \in 1..Len(books) : b # running.book => books'[b] = books[b]

\* What an append's answer changes of the running bookkeeping, and what it does not.
LEMMA AppendBooks ==
  ASSUME TypeInv, queue # <<>>, NEW n \in Nat, NEW p \in SUBSET SnapshotType
  PROVE  /\ books' = [books EXCEPT ![running.book].lastEventId = n] =>
               /\ OtherBooks
               /\ books'[running.book].lastEventId = n
               /\ books'[running.book].failure = book.failure
               /\ books'[running.book].pendingCheckpoint = book.pendingCheckpoint
         /\ books' = [books EXCEPT ![running.book].lastEventId = n,
                                   ![running.book].pendingCheckpoint = p] =>
               /\ OtherBooks
               /\ books'[running.book].lastEventId = n
               /\ books'[running.book].failure = book.failure
               /\ books'[running.book].pendingCheckpoint = p
         /\ books' = [books EXCEPT ![running.book].failure = TRUE] =>
               /\ OtherBooks
               /\ books'[running.book].lastEventId = book.lastEventId
               /\ books'[running.book].failure
               /\ books'[running.book].pendingCheckpoint = book.pendingCheckpoint
  <1>1. running.book \in 1..Len(books)
    BY RunningType
  <1>2. books \in Seq(BookType) /\ \A i \in 1..Len(books) : books[i] \in BookType
    BY DEF TypeInv, TypeOK
  <1> USE DEF OtherBooks, FailuresStay, book
  <1>3. ASSUME books' = [books EXCEPT ![running.book].lastEventId = n]
        PROVE  /\ OtherBooks
               /\ books'[running.book].lastEventId = n
               /\ books'[running.book].failure = book.failure
               /\ books'[running.book].pendingCheckpoint = book.pendingCheckpoint
    BY <1>1, <1>2, <1>3 DEF BookType
  <1>4. ASSUME books' = [books EXCEPT ![running.book].lastEventId = n,
                                      ![running.book].pendingCheckpoint = p]
        PROVE  /\ OtherBooks
               /\ books'[running.book].lastEventId = n
               /\ books'[running.book].failure = book.failure
               /\ books'[running.book].pendingCheckpoint = p
    BY <1>1, <1>2, <1>4 DEF BookType
  <1>5. ASSUME books' = [books EXCEPT ![running.book].failure = TRUE]
        PROVE  /\ OtherBooks
               /\ books'[running.book].lastEventId = book.lastEventId
               /\ books'[running.book].failure
               /\ books'[running.book].pendingCheckpoint = book.pendingCheckpoint
    BY <1>1, <1>2, <1>5 DEF BookType
  <1> QED
    BY <1>3, <1>4, <1>5

\* The bookkeeping of a draft that is being written is the running append's.
LEMMA RunningWatched ==
  ASSUME TypeInv, Ordered, OneBook, queue # <<>>, running.kind = "append", NEW b,
         Watched(b, running.draft)
  PROVE  b = running.book
  BY RunningFirst DEF Watched, OneBook

\* After a row is inserted its bookkeeping has failed or knows the new event.
LEMMA WroteWatched ==
  ASSUME LogInv, queue # <<>>, Wrote, OtherBooks,
         books'[running.book].failure \/ books'[running.book].lastEventId = Len(events) + 1
  PROVE  WatchedStay
  <1> USE DEF LogInv
  <1>1. /\ Len(events) \in Nat
        /\ \A d : \A i \in IdsOf(d) : i \in Nat /\ i <= Len(events)
        /\ \A d : \A i \in IdsOf(d)' : i \in Nat /\ i <= Len(events) + 1
        /\ \A d : d # running.draft => IdsOf(d)' = IdsOf(d)
    BY LogWritten DEF Wrote, Written, Extended, IdsOf
  <1> SUFFICES ASSUME NEW b \in 1..Len(books), NEW d, Watched(b, d), UpToDate(b, d),
                      ~books'[b].failure, NEW i \in IdsOf(d)'
               PROVE  i <= books'[b].lastEventId
    BY DEF WatchedStay, UpToDate
  <1>2. CASE b = running.book
    BY <1>1, <1>2
  <1>3. CASE b # running.book
    <2>1. d # running.draft
      BY <1>3, RunningWatched DEF Wrote
    <2>2. books'[b] = books[b]
      BY <1>3 DEF OtherBooks
    <2> QED
      BY <1>1, <2>1, <2>2 DEF UpToDate
  <1> QED
    BY <1>2, <1>3

\* What remains to be shown of a step that inserts the running append's event.
LEMMA WroteLog ==
  ASSUME LogInv, TypeInv', Ordered', LoadOrder', Consumed, queue # <<>>, Wrote,
         OtherBooks, UNCHANGED <<view, nextEdit, load, snapshots, inflight>>,
         books'[running.book].failure \/ books'[running.book].lastEventId = Len(events) + 1,
         books'[running.book].lastEventId \in {book.lastEventId, Len(events) + 1},
         \/ books'[running.book].pendingCheckpoint = book.pendingCheckpoint
         \/ \A s \in books'[running.book].pendingCheckpoint : Honest(s)',
         AfterHonest'
  PROVE  LogInv'
  <1> USE DEF LogInv
  <1>1. Carried /\ Extended /\ lost \subseteq lost'
    BY ConsumedCarries DEF OtherBooks, Carried
  <1>2. WatchedStay
    BY WroteWatched
  <1>3. WritesSound' /\ ViewSound' /\ OneBook'
    BY <1>1, <1>2, TextsStay DEF Consumed, OtherBooks
  <1>4. BooksKnow'
    <2>1. Len(events') = Len(events) + 1 /\ Len(events) \in Nat
      BY DEF Wrote, Written, Extended
    <2>2. \A b \in 1..Len(books) : books[b].lastEventId \in Nat
      <3>1. \A b \in 1..Len(books) : books[b] \in BookType
        BY DEF TypeInv, TypeOK
      <3> QED
        BY <3>1 DEF BookType
    <2>3. running.book \in 1..Len(books)
      BY RunningType
    <2> QED
      BY <2>1, <2>2, <2>3 DEF BooksKnow, OtherBooks, book
  <1>5. LogIsChain'
    <2>1. PICK d, e, c, n : /\ d = running.draft /\ e = running.edit /\ c = running.content
                            /\ n = Len(events) + 1
      OBVIOUS
    <2>2. c \intersect lost # {} \/ Torn(d) \/ c = Log(d)
      BY <2>1, RunningText DEF Wrote
    <2>3. Written(d, e, c) /\ n \in Nat
      BY <2>1 DEF Wrote, Written, Extended
    <2> QED
      BY <1>1, <2>1, <2>2, <2>3, ChainGrows
  <1>6. StoredHonest'
    <2>1. \A b \in 1..Len(books') : \A s \in books'[b].pendingCheckpoint :
              \/ b \in 1..Len(books) /\ s \in books[b].pendingCheckpoint
              \/ Honest(s)'
      BY DEF OtherBooks, book
    <2> QED
      BY <1>1, <2>1, StoredStays
  <1>7. LoadRead'
    BY <1>1, ReadStays
  <1> QED
    BY <1>3, <1>4, <1>5, <1>6, <1>7

\* AppendSucceeds keeps the invariant.
LEMMA AppendSucceedsLog == ASSUME LogInv, AppendSucceeds PROVE LogInv'
  <1> USE DEF LogInv
  <1>1. PICK n : n = Len(events) + 1
    OBVIOUS
  <1>2. /\ TypeInv' /\ queue # <<>> /\ running.kind = "append" /\ ~Inserted
        /\ n \in Nat
        /\ InsertEvent(running.draft, running.edit, running.content)
        /\ UNCHANGED <<view, nextEdit, load, snapshots, inflight, lost>>
    BY <1>1, AppendSucceedsType, Numbers
       DEF AppendSucceeds, Running, Inserted, editVars, historyVars
  <1>3. Wrote
    BY <1>2, WrittenShape DEF Wrote
  <1>4. SameLoad
    BY <1>2 DEF SameLoad
  <1>5. CASE book.failure
    <2>1. Finish /\ books' = [books EXCEPT ![running.book].lastEventId = n]
      BY <1>1, <1>5 DEF AppendSucceeds
    <2>2. /\ OtherBooks /\ books'[running.book].lastEventId = n
          /\ books'[running.book].pendingCheckpoint = book.pendingCheckpoint
      BY <1>2, <2>1, AppendBooks
    <2>3. Ended /\ ~Inserted'
      BY <1>2, <2>1, EndedShape DEF Finish, Inserted
    <2>4. Ordered' /\ Consumed /\ LoadOrder'
      BY <1>2, <1>3, <1>4, <2>3, EndedOrdered, EndedSets, EndedLoads
    <2>5. AfterHonest'
      BY <2>3 DEF AfterHonest
    <2> QED
      BY <1>1, <1>2, <1>3, <2>2, <2>4, <2>5, WroteLog
  <1>6. CASE ~book.failure
    <2>1. PICK d, e, c : d = running.draft /\ e = running.edit /\ c = running.content
      OBVIOUS
    <2>2. /\ books' = [books EXCEPT ![running.book].lastEventId = n,
                                    ![running.book].pendingCheckpoint = {AfterChange(n)}]
          /\ UNCHANGED queue /\ Inserted'
      BY <1>1, <1>6 DEF AppendSucceeds, Inserted
    <2>3. AfterChange(n) = SnapshotOf(d, n, c \union {e})
      BY <2>1 DEF AfterChange
    <2>4. {AfterChange(n)} \in SUBSET SnapshotType
      <3>1. running \in JobType /\ running.draft \in Drafts
        BY <1>2, RunningType
      <3> QED
        BY <1>2, <3>1 DEF AfterChange, SnapshotOf, SnapshotType, JobType
    <2>5. /\ OtherBooks /\ books'[running.book].lastEventId = n
          /\ books'[running.book].failure = book.failure
          /\ books'[running.book].pendingCheckpoint = {AfterChange(n)}
      BY <1>2, <2>2, <2>4, AppendBooks
    <2>6. Honest(SnapshotOf(d, n, c \union {e}))'
      <3>1. c \subseteq Logged /\ (Torn(d) \/ c = Log(d))
        BY <1>2, <1>6, <2>1, RunningText
      <3>2. Written(d, e, c)
        BY <1>3, <2>1 DEF Wrote
      <3> QED
        BY <1>1, <1>2, <3>1, <3>2, WrittenHonest
    <2>7. \A s \in books'[running.book].pendingCheckpoint : Honest(s)'
      BY <2>3, <2>5, <2>6
    <2>8. AfterHonest'
      <3>1. running' = running
        BY <2>2 DEF running
      <3>2. book'.lastEventId = n /\ ~book'.failure
        BY <1>6, <2>5, <3>1 DEF book
      <3>3. AfterChange(book.lastEventId)' = SnapshotOf(d, n, c \union {e})
        BY <2>1, <3>1, <3>2 DEF AfterChange
      <3> SUFFICES ASSUME NEW s, s = SnapshotOf(d, n, c \union {e}) PROVE Honest(s)'
        BY <3>2, <3>3 DEF AfterHonest
      <3> QED
        BY <2>6
    <2>9. Ordered' /\ Consumed /\ LoadOrder'
      BY <1>2, <1>3, <1>4, <2>2, InsertedOrdered, InsertedSets, KeptLoads
    <2> QED
      BY <1>1, <1>2, <1>3, <2>5, <2>7, <2>8, <2>9, WroteLog
  <1> QED
    BY <1>5, <1>6

\* AppendFails keeps the invariant.
LEMMA AppendFailsLog ==
  ASSUME LogInv, NEW inserted \in BOOLEAN, AppendFails(inserted) PROVE LogInv'
  <1> USE DEF LogInv
  <1>1. /\ TypeInv' /\ queue # <<>> /\ running.kind = "append" /\ ~Inserted /\ Finish
        /\ UNCHANGED <<view, nextEdit, load, snapshots, inflight>>
        /\ books' = [books EXCEPT ![running.book].failure = TRUE]
    BY AppendFailsType DEF AppendFails, Running, Inserted, editVars
  <1>2. /\ OtherBooks /\ books'[running.book].failure
        /\ books'[running.book].lastEventId = book.lastEventId
        /\ books'[running.book].pendingCheckpoint = book.pendingCheckpoint
    BY <1>1, AppendBooks
  <1>3. Ended /\ ~Inserted' /\ SameLoad
    BY <1>1, EndedShape DEF Finish, Inserted, SameLoad
  <1>4. Consumed /\ LoadOrder' /\ AfterHonest'
    BY <1>1, <1>3, EndedSets, EndedLoads DEF AfterHonest
  <1>5. CASE inserted
    <2>1. Wrote
      BY <1>1, <1>5, WrittenShape DEF AppendFails, Wrote
    <2>2. Ordered'
      BY <1>1, <1>3, <2>1, EndedOrdered
    <2> QED
      BY <1>1, <1>2, <1>4, <2>1, <2>2, WroteLog
  <1>6. CASE ~inserted
    <2>1. Lost
      BY <1>1, <1>6 DEF AppendFails, Lost
    <2>2. Ordered'
      BY <1>1, <1>3, <2>1, EndedOrdered
    <2>3. UNCHANGED events /\ lost \subseteq lost' /\ Extended
      BY <2>1, SameShape DEF Lost
    <2>4. Carried
      BY <1>1, <1>2, <1>4, <2>1, ConsumedCarries DEF OtherBooks
    <2>5. WatchedStay
      <3> SUFFICES ASSUME NEW b \in 1..Len(books), NEW d, UpToDate(b, d)
                   PROVE  UpToDate(b, d)'
        BY DEF WatchedStay
      <3>1. IdsOf(d)' = IdsOf(d)
        BY <2>3 DEF IdsOf
      <3> QED
        BY <1>2, <3>1 DEF UpToDate, OtherBooks
    <2>6. WritesSound' /\ ViewSound' /\ OneBook'
      BY <1>1, <1>2, <1>4, <2>2, <2>4, <2>5, TextsStay DEF Consumed, OtherBooks
    <2>7. BooksKnow' /\ LogIsChain'
      BY <1>2, <2>3, ChainStays DEF BooksKnow, OtherBooks, book
    <2>8. StoredHonest'
      <3>1. \A b \in 1..Len(books') : \A s \in books'[b].pendingCheckpoint :
                b \in 1..Len(books) /\ s \in books[b].pendingCheckpoint
        BY <1>2 DEF OtherBooks, book
      <3> QED
        BY <1>1, <2>3, <3>1, StoredStays
    <2>9. LoadRead'
      BY <1>1, <2>3, ReadStays
    <2> QED
      BY <1>1, <1>4, <2>2, <2>6, <2>7, <2>8, <2>9
  <1> QED
    BY <1>5, <1>6

-------------------------------------------------------------------------------
(* Reading a draft, showing it, and starting again. *)

\* The text a read arrives at, from any of the latest snapshots and whichever
\* events its replay gets through.
LEMMA ReadText ==
  ASSUME TypeInv, LogIsChain, StoredHonest, NEW d \in Drafts,
         NEW s \in LatestSnapshots(d), NEW replayed \in Replays(s)
  PROVE  /\ s.content \union EditsOf(replayed) \subseteq Logged
         /\ ~Torn(d) => s.content \union EditsOf(replayed) = Log(d)
         /\ \A i \in IdsOf(d) : i <= LatestEventId(s)
         /\ LatestEventId(s) <= Len(events)
  <1>1. s.draft = d /\ s.upTo \in Nat
    BY ReadType DEF SnapshotType
  <1>2. replayed \subseteq EventsSince(s)
    BY ReadType
  <1>3. \A i \in IdsOf(d) : i \in 1..Len(events) /\ i \in Nat /\ events[i].draft = d
    BY Numbers DEF IdsOf
  <1>4. EventsSince(s) = {i \in IdsOf(d) : i > s.upTo}
    BY <1>1 DEF EventsSince
  <1>5. /\ s.upTo <= Len(events) /\ s.content \subseteq Logged
        /\ TornBefore(d, s.upTo) \/ s.content = LogUpTo(d, s.upTo)
    <2>1. CASE SnapshotsOf(d) = {}
      <3>1. s = SnapshotOf(d, 0, {})
        BY <2>1 DEF LatestSnapshots
      <3>2. s.upTo = 0 /\ s.content = {}
        BY <3>1 DEF SnapshotOf
      <3>3. LogUpTo(d, 0) = {}
        BY <1>3 DEF LogUpTo
      <3> QED
        BY <3>2, <3>3, Numbers
    <2>2. CASE SnapshotsOf(d) # {}
      <3>1. s \in snapshots
        BY <2>2 DEF LatestSnapshots, SnapshotsOf
      <3> QED
        BY <1>1, <3>1 DEF StoredHonest, Honest
    <2> QED
      BY <2>1, <2>2
  <1>6. s.content \union EditsOf(replayed) \subseteq Logged
    BY <1>2, <1>3, <1>4, <1>5 DEF EditsOf, Logged
  <1>7. ASSUME ~Torn(d) PROVE s.content \union EditsOf(replayed) = Log(d)
    <2>1. s.content = LogUpTo(d, s.upTo)
      <3>1. ~TornBefore(d, s.upTo)
        BY <1>3, <1>7 DEF Torn, TornBefore
      <3> QED
        BY <1>5, <3>1
    <2>2. TailFits(s)
      <3> SUFFICES ASSUME NEW i \in EventsSince(s)
                   PROVE  events[i].start =
                              s.content \union EditsOf({j \in EventsSince(s) : j < i})
        BY DEF TailFits
      <3>1. i \in IdsOf(d) /\ i > s.upTo /\ i \in 1..Len(events) /\ i \in Nat
            /\ events[i].draft = d
        BY <1>3, <1>4
      <3>2. ~TornBefore(d, i)
        BY <1>3, <1>7 DEF Torn, TornBefore
      <3>3. events[i].start = LogUpTo(d, i - 1)
        BY <3>1, <3>2 DEF LogIsChain
      <3>4. {j \in IdsOf(d) : j <= i - 1} =
                {j \in IdsOf(d) : j <= s.upTo} \union {j \in EventsSince(s) : j < i}
        BY <1>1, <1>3, <1>4, <3>1
      <3>5. LogUpTo(d, i - 1) = LogUpTo(d, s.upTo) \union
                                    EditsOf({j \in EventsSince(s) : j < i})
        BY <3>4 DEF LogUpTo, EditsOf
      <3> QED
        BY <2>1, <3>3, <3>5
    <2>3. replayed = EventsSince(s)
      BY <2>2 DEF Replays
    <2>4. IdsOf(d) = {j \in IdsOf(d) : j <= s.upTo} \union EventsSince(s)
      BY <1>1, <1>3, <1>4
    <2> QED
      BY <2>1, <2>3, <2>4 DEF LogUpTo, EditsOf, Log
  <1>8. /\ \A i \in IdsOf(d) : i <= LatestEventId(s)
        /\ LatestEventId(s) <= Len(events)
    <2>1. CASE EventsSince(s) = {}
      <3>1. LatestEventId(s) = s.upTo
        BY <2>1 DEF LatestEventId
      <3> QED
        BY <1>1, <1>3, <1>4, <1>5, <2>1, <3>1
    <2>2. CASE EventsSince(s) # {}
      <3>1. PICK m \in IdsOf(d) : \A i \in IdsOf(d) : i <= m
        BY <1>4, <2>2 DEF TypeInv, LastEvents
      <3>2. m \in EventsSince(s) /\ \A i \in EventsSince(s) : i <= m
        BY <1>1, <1>3, <1>4, <2>2, <3>1
      <3>3. LatestEventId(s) \in EventsSince(s)
            /\ \A i \in EventsSince(s) : i <= LatestEventId(s)
        BY <2>2, <3>2 DEF LatestEventId
      <3>4. LatestEventId(s) = m
        BY <1>3, <1>4, <3>2, <3>3
      <3> QED
        BY <1>3, <3>1, <3>4, Numbers
    <2> QED
      BY <2>1, <2>2
  <1> QED
    BY <1>6, <1>7, <1>8

\* ReadDraft keeps the invariant.
LEMMA ReadDraftLog ==
  ASSUME LogInv, NEW s \in LatestSnapshots(load.draft), NEW replayed \in Replays(s),
         ReadDraft(s, replayed)
  PROVE  LogInv'
  <1> USE DEF LogInv
  <1>1. /\ TypeInv' /\ UNCHANGED <<queue, events, lost, view, nextEdit, books>>
        /\ UNCHANGED <<snapshots, inflight>>
        /\ Inserted' = Inserted /\ load.phase = "read"
    BY ReadDraftType DEF ReadDraft, Inserted, dbVars, editVars, historyVars
  <1>2. /\ load'.draft = load.draft /\ load.draft \in Drafts
        /\ load'.content = s.content \union EditsOf(replayed)
        /\ load'.latestEventId = LatestEventId(s)
    BY <1>1 DEF ReadDraft, TypeInv, TypeOK
  <1>3. SameBooks /\ FewerCheckpoints /\ FailuresStay /\ Extended
    BY <1>1, BookKept, JobTypes, SameShape
  <1>4. Ordered' /\ Carried /\ LoadOrder'
    BY <1>1, <1>2, <1>3, KeptOrdered, KeptCarries, KeptLoads DEF SameLoad
  <1>5. WritesSound' /\ ViewSound' /\ OneBook'
    <2>1. WatchedStay /\ Writes' = Writes
      BY <1>1, <1>3, SameWatched, KeptSets
    <2> QED
      BY <1>1, <1>4, <2>1, TextsStay
  <1>6. BooksKnow' /\ LogIsChain'
    BY <1>1, ChainStays DEF BooksKnow
  <1>7. StoredHonest'
    BY <1>1, <1>3, StoredStays
  <1>8. AfterHonest'
    <2>1. Inserted' => Inserted /\ queue # <<>> /\ running' = running
      BY <1>1 DEF Ordered, InsertedOK, running
    <2> QED
      BY <1>1, <1>3, <2>1, AfterStays
  <1>9. LoadRead'
    <2>1. /\ s.content \union EditsOf(replayed) \subseteq Logged
          /\ ~Torn(load.draft) => s.content \union EditsOf(replayed) = Log(load.draft)
          /\ \A i \in IdsOf(load.draft) : i <= LatestEventId(s)
          /\ LatestEventId(s) <= Len(events)
      BY <1>2, ReadText
    <2> SUFFICES ASSUME NEW d, d = load.draft
                 PROVE  /\ load'.content \subseteq Logged'
                        /\ ~Torn(d)' => load'.content = Log(d)'
                        /\ \A i \in IdsOf(d)' : i <= load'.latestEventId
                        /\ load'.latestEventId <= Len(events')
      BY <1>2 DEF LoadRead
    <2>2. Logged' = Logged /\ Log(d)' = Log(d) /\ IdsOf(d)' = IdsOf(d)
          /\ (Torn(d) => Torn(d)')
      BY <1>1 DEF Logged, Log, IdsOf, Torn, TornBefore
    <2> QED
      BY <1>1, <1>2, <2>1, <2>2
  <1> QED
    BY <1>1, <1>4, <1>5, <1>6, <1>7, <1>8, <1>9

\* The bookkeepings after #commit: the old ones, and a new one.
LEMMA CommitBooks ==
  ASSUME TypeInv, NEW new \in BookType,
         books' = Append([books EXCEPT ![current].idleTimer = FALSE], new)
  PROVE  /\ Len(books') = Len(books) + 1 /\ books'[Len(books) + 1] = new
         /\ SameBooks /\ FailuresStay
         /\ \A b \in 1..Len(books) :
                books'[b].pendingCheckpoint = books[b].pendingCheckpoint
  <1> DEFINE old == [books EXCEPT ![current].idleTimer = FALSE]
  <1>1. current \in 1..Len(books)
    BY JobTypes
  <1>2. books \in Seq(BookType) /\ \A b \in 1..Len(books) : books[b] \in BookType
    BY DEF TypeInv, TypeOK
  <1>3. old \in Seq(BookType) /\ Len(old) = Len(books)
    BY <1>1, BooksType DEF AsManyBooks
  <1>4. \A b \in 1..Len(books) :
            /\ old[b].lastEventId = books[b].lastEventId
            /\ old[b].failure = books[b].failure
            /\ old[b].pendingCheckpoint = books[b].pendingCheckpoint
    BY <1>1, <1>2 DEF BookType
  <1>5. books' = Append(old, new)
    OBVIOUS
  <1> HIDE DEF old
  <1>6. /\ Len(books') = Len(books) + 1 /\ books'[Len(books) + 1] = new
        /\ \A b \in 1..Len(books) : books'[b] = old[b]
        /\ Len(books) \in Nat
    <2>1. /\ Len(Append(old, new)) = Len(old) + 1
          /\ \A b \in 1..Len(old) : Append(old, new)[b] = old[b]
          /\ Append(old, new)[Len(old) + 1] = new
      BY <1>3, AppendProperties
    <2>2. Len(books) \in Nat
      BY <1>2
    <2> QED
      BY <1>3, <1>5, <2>1, <2>2
  <1> QED
    BY <1>4, <1>6 DEF SameBooks, FailuresStay

\* The text on screen after #commit.
LEMMA CommittedText ==
  ASSUME TypeInv, Ordered, LoadOrder, LoadRead, load.phase = "commit",
         NEW d, d = load.draft, NEW c, c = load.content, NEW e, e = nextEdit
  PROVE  /\ Traced(c, e) /\ Complete(d, c, e) /\ c \intersect lost = {}
         /\ \A w \in Pending : w.edit \notin c
         /\ \A i \in IdsOf(d) : i <= load.latestEventId
  <1>1. /\ c \subseteq Logged /\ (~Torn(d) => c = Log(d))
        /\ \A i \in IdsOf(d) : i <= load.latestEventId
    BY DEF LoadRead
  <1>2. QueuedEdits(d) = {}
    BY NothingQueued
  <1>3. {f \in Known(d) : f < e} = Log(d)
    BY <1>2, LoggedView DEF Known
  <1> QED
    BY <1>1, <1>3, LoggedView, PendingView DEF Traced, Complete

\* CommitLoad keeps the invariant.
LEMMA CommitLoadLog == ASSUME LogInv, CommitLoad PROVE LogInv'
  <1> USE DEF LogInv
  <1> DEFINE recovered == IF load.recovered
                          THEN {SnapshotOf(load.draft, load.latestEventId, load.content)}
                          ELSE {}
             new == Book(load.latestEventId, recovered)
  <1>1. /\ TypeInv' /\ load.phase = "commit" /\ load'.phase = "none"
        /\ view'.draft = load.draft /\ view'.content = load.content
        /\ UNCHANGED <<events, snapshots, inflight, lost, nextEdit, step>>
        /\ Inserted' = Inserted
    BY CommitLoadType DEF CommitLoad, NoLoad, dbVars, historyVars, Inserted
  <1>2. recovered \in SUBSET SnapshotType /\ new \in BookType
        /\ new.lastEventId = load.latestEventId /\ new.pendingCheckpoint = recovered
        /\ new.failure = FALSE
    BY <1>1 DEF TypeInv, TypeOK, SnapshotOf, SnapshotType, Book, BookType
  <1>3. /\ Len(books') = Len(books) + 1 /\ books'[Len(books) + 1] = new
        /\ SameBooks /\ FailuresStay
        /\ \A b \in 1..Len(books) :
               books'[b].pendingCheckpoint = books[b].pendingCheckpoint
    <2>1. books' = Append([books EXCEPT ![current].idleTimer = FALSE], new)
      BY DEF CommitLoad
    <2> HIDE DEF new
    <2> QED
      BY <1>2, <2>1, CommitBooks
  <1> HIDE DEF new
  <1>4. Extended /\ lost \subseteq lost' /\ Len(books) \in Nat
    BY <1>1, SameShape DEF TypeInv, TypeOK
  <1>5. /\ Ordered' /\ Carried /\ Writes' \subseteq Writes /\ Pending' = Pending
        /\ \A d : QueuedEdits(d)' = QueuedEdits(d)
        /\ Inserted' => Inserted /\ queue # <<>> /\ running' = running
    <2>1. CASE load.recovered
      <3>1. PICK job : job = CheckpointJob("flush", current + 1, {})
        OBVIOUS
      <3>2. job \in JobType /\ job.kind = "checkpoint" /\ job.edit = nextEdit
        <4>1. current + 1 \in Nat \ {0} /\ {} \in SUBSET Nat
          BY <1>4 DEF current
        <4> QED
          BY <3>1, <4>1, JobTypes DEF CheckpointJob, Callers
      <3>3. Enqueue(job, closing)
        BY <2>1, <3>1 DEF CommitLoad
      <3>4. Chained(job)
        BY <3>2, <3>3, ChainedShape
      <3>5. Ordered'
        BY <1>1, <3>2, <3>4, ChainedOrdered
      <3>6. Joined(job)
        BY <1>1, <3>4, ChainedSets
      <3>7. Carried
        BY <1>1, <1>3, <3>2, <3>6, JoinedCarries
      <3>8. queue # <<>> => running' = running
        <4> SUFFICES ASSUME queue # <<>> PROVE running' = running
          OBVIOUS
        <4>1. 1 \in 1..Len(queue) /\ running = queue[1]
          BY Numbers
        <4>2. queue' # <<>> /\ running' = queue'[1]
          BY <1>1, <3>4, <4>1 DEF Chained, running, TypeInv, TypeOK
        <4> QED
          BY <3>4, <4>1, <4>2 DEF Chained
      <3>9. Inserted' => Inserted /\ queue # <<>> /\ running' = running
        BY <1>1, <3>8 DEF Ordered, InsertedOK
      <3> QED
        BY <3>2, <3>5, <3>6, <3>7, <3>9 DEF Joined
    <2>2. CASE ~load.recovered
      <3>1. UNCHANGED queue
        BY <2>2 DEF CommitLoad
      <3>2. Inserted' => Inserted /\ queue # <<>> /\ running' = running
        BY <1>1, <3>1 DEF Ordered, InsertedOK, running
      <3> QED
        BY <1>1, <1>3, <3>1, <3>2, KeptOrdered, KeptCarries, KeptSets
    <2> QED
      BY <2>1, <2>2
  <1>6. WritesSound'
    <2>1. WatchedStay
      BY <1>1, <1>3, SameWatched
    <2> QED
      BY <1>1, <1>5, <2>1, WritesStay
  <1>7. LoadOrder' /\ LoadRead'
    BY <1>1 DEF LoadOrder, LoadRead
  <1>8. OneBook'
    <2>1. \A w \in Writes' : w.draft # view'.draft
      BY <1>1, <1>5, NothingQueued
    <2> QED
      BY <1>5, <2>1 DEF OneBook
  <1>9. BooksKnow'
    <2>1. load.latestEventId <= Len(events)
      BY <1>1 DEF LoadRead
    <2> QED
      BY <1>1, <1>2, <1>3, <1>4, <2>1 DEF BooksKnow, SameBooks
  <1>10. LogIsChain' /\ AfterHonest'
    BY <1>1, <1>3, <1>4, <1>5, ChainStays, AfterStays
  <1>11. ViewSound'
    <2> SUFFICES ASSUME NEW b, b = Len(books) + 1, NEW d, d = load.draft,
                        NEW c, c = load.content, NEW e, e = nextEdit
                 PROVE  Sound(b, d, c, e)'
      BY <1>1, <1>3 DEF ViewSound, current
    <2>1. /\ Traced(c, e) /\ Complete(d, c, e) /\ c \intersect lost = {}
          /\ \A w \in Pending : w.edit \notin c
          /\ \A i \in IdsOf(d) : i <= load.latestEventId
      BY <1>1, CommittedText
    <2>2. Logged' = Logged /\ Known(d)' = Known(d) /\ IdsOf(d)' = IdsOf(d)
          /\ Torn(d)' = Torn(d) /\ lost' = lost
      BY <1>1, <1>5 DEF Logged, Known, Log, IdsOf, Torn, TornBefore
    <2>3. Traced(c, e)'
      BY <1>5, <2>1, <2>2 DEF Traced
    <2>4. Complete(d, c, e)'
      BY <2>1, <2>2 DEF Complete
    <2>5. Blamed(b, c)'
      BY <1>5, <2>1, <2>2 DEF Blamed
    <2>6. UpToDate(b, d)'
      BY <1>2, <1>3, <2>1, <2>2 DEF UpToDate
    <2> QED
      BY <2>3, <2>4, <2>5, <2>6 DEF Sound
  <1>12. StoredHonest'
    <2>1. \A s \in recovered : Honest(s)'
      <3> SUFFICES ASSUME NEW s, s = SnapshotOf(load.draft, load.latestEventId, load.content)
                   PROVE  Honest(s)'
        OBVIOUS
      <3>1. /\ s.draft = load.draft /\ s.upTo = load.latestEventId
            /\ s.content = load.content
        BY DEF SnapshotOf
      <3>2. /\ load.content \subseteq Logged
            /\ Torn(load.draft) \/ load.content = Log(load.draft)
            /\ \A i \in IdsOf(load.draft) : i <= load.latestEventId
            /\ load.latestEventId <= Len(events) /\ load.latestEventId \in Nat
        BY <1>1 DEF LoadRead, TypeInv, TypeOK
      <3>3. Honest(s)
        BY <3>1, <3>2, WholeLog DEF Honest
      <3> QED
        BY <1>4, <3>1, <3>2, <3>3, HonestStays
    <2>2. \A b \in 1..Len(books') : \A s \in books'[b].pendingCheckpoint :
              \/ b \in 1..Len(books) /\ s \in books[b].pendingCheckpoint
              \/ Honest(s)'
      <3> SUFFICES ASSUME NEW b \in 1..Len(books'), b \notin 1..Len(books)
                   PROVE  books'[b].pendingCheckpoint = recovered
        BY <1>3, <2>1
      <3>1. b = Len(books) + 1
        BY <1>3, <1>4
      <3> QED
        BY <1>2, <1>3, <3>1
    <2> QED
      BY <1>1, <1>4, <2>2, StoredStays
  <1> QED
    BY <1>1, <1>5, <1>6, <1>7, <1>8, <1>9, <1>10, <1>11, <1>12

\* The process ends: the database keeps its honesty.
LEMMA RestartLog == ASSUME LogInv, TypeInv', Restart PROVE LogInv'
  <1> USE DEF LogInv
  <1>1. /\ UNCHANGED <<events, snapshots, nextEdit, lost>>
        /\ queue' = <<>> /\ ~Inserted' /\ Len(queue') = 0
        /\ load'.phase = "none" /\ view'.draft = NoDraft /\ inflight' = {}
        /\ Len(books') = 1 /\ books'[1] = Book(0, {})
    BY DEF Restart, NoLoad, NoView, Inserted, dbVars
  <1>2. Logged' = Logged
    BY <1>1 DEF Logged
  <1>3. Ordered'
    BY <1>1, <1>2 DEF Ordered, OrderOK, LostOK, InsertedOK
  <1>4. Writes' = {}
    BY <1>1 DEF Writes
  <1>5. LoadOrder' /\ OneBook' /\ WritesSound' /\ ViewSound' /\ LoadRead' /\ AfterHonest'
    BY <1>1, <1>4 DEF LoadOrder, OneBook, WritesSound, ViewSound, LoadRead, AfterHonest
  <1>6. BooksKnow'
    BY <1>1, Numbers DEF BooksKnow, Book
  <1>7. LogIsChain'
    BY <1>1, ChainStays
  <1>8. StoredHonest'
    <2>1. \A s \in snapshots : Honest(s)'
      BY <1>1 DEF StoredHonest, Honest, Logged, TornBefore, LogUpTo, IdsOf
    <2> QED
      BY <1>1, <2>1 DEF StoredHonest, Book
  <1> QED
    BY <1>3, <1>5, <1>6, <1>7, <1>8

\* Every step preserves the invariant.
LEMMA NextLog == LogInv /\ [Next]_vars => LogInv'
  <1> SUFFICES ASSUME LogInv, [Next]_vars PROVE LogInv'
    OBVIOUS
  <1>1. TypeInv'
    BY NextTypeInv DEF LogInv
  <1>2. CASE QueueStep
    BY <1>2, SnapshotBeforeChangeLog, AppendSucceedsLog, AppendFailsLog,
       SnapshotAfterChangeLog, NamedVersionRefusedLog, NamedVersionSavedLog,
       CheckpointSucceedsLog, CheckpointFailsLog DEF QueueStep
  <1>3. CASE LoaderStep
    BY <1>3, ReadDraftLog, CommitLoadLog, AbandonLoadLog DEF LoaderStep
  <1>4. CASE CloseWindow \/ Crash
    BY <1>1, <1>4, RestartLog DEF CloseWindow, Crash
  <1>5. CASE UNCHANGED vars
    <2>1. /\ UNCHANGED <<events, lost, view, nextEdit, snapshots, inflight>>
          /\ UNCHANGED <<queue, books, load>> /\ Inserted' = Inserted
      BY <1>5 DEF vars, Inserted
    <2>2. SameBooks /\ FewerCheckpoints /\ FailuresStay
      BY <2>1, BookKept, JobTypes DEF LogInv
    <2>3. Uneventful /\ SameLoad
      BY <2>1, <2>2, SameUneventful DEF SameLoad
    <2> QED
      BY <1>1, <2>1, <2>2, <2>3, KeptLog
  <1> QED
    BY <1>2, <1>3, <1>4, <1>5, AcceptEditLog, RecoverySnapshotSettlesLog, NameVersionLog,
       IdleCheckpointLog, FlushPersistenceLog, StartLoadLog, RequestCloseLog, CloseAgainLog
       DEF Next

\* The invariant holds in every reachable state.
LEMMA LogInvariant == Spec => []LogInv
  BY InitLog, NextLog, PTL DEF Spec

-------------------------------------------------------------------------------

\* A draft can be replayed: each of its events was recorded against exactly the
\* text the events before it lead to (the ChangeSets of append_event compose),
\* across loads, flushes, failures and crashes; only an append reported as
\* failed while its text stayed on screen can break the chain.
THEOREM LogReplays == Spec => []LogIsChain
  BY LogInvariant, PTL DEF LogInv

\* No snapshot misleads a reader: whichever job wrote it and however late, it
\* holds the text of the log up to the event it names, and no lost edit.
THEOREM SnapshotsTellTruth == Spec => []SnapshotsHonest
  <1>1. LogInv => SnapshotsHonest
    <2> SUFFICES ASSUME LogInv PROVE SnapshotsHonest
      OBVIOUS
    <2>1. \A s \in snapshots : Honest(s)
      BY DEF LogInv, StoredHonest
    <2>2. SnapshotsFaithful
      BY <2>1 DEF SnapshotsFaithful, Honest
    <2>3. NoSnapshotOverLostEdit
      BY <2>1, LoggedView DEF NoSnapshotOverLostEdit, Honest, LogInv
    <2> QED
      BY <2>2, <2>3 DEF SnapshotsHonest
  <1> QED
    BY <1>1, LogInvariant, PTL

\* The writer sees what storage will hold: without a failure, the text on screen
\* is the draft's log and the edits still in the queue, neither more nor less.
THEOREM ScreenTellsTruth == Spec => []ViewMatchesLog
  <1>1. LogInv => ViewMatchesLog
    <2> SUFFICES ASSUME LogInv, view.draft # NoDraft, ~books[current].failure,
                        ~Torn(view.draft)
                 PROVE  view.content = Log(view.draft) \union QueuedEdits(view.draft)
      BY DEF ViewMatchesLog
    <2>1. Sound(current, view.draft, view.content, nextEdit)
      BY DEF LogInv, ViewSound
    <2>2. view.content = {f \in Known(view.draft) : f < nextEdit}
      BY <2>1 DEF Sound, Blamed, Complete
    <2>3. \A f \in Known(view.draft) : f < nextEdit
      BY LoggedView, QueuedView DEF Known, LogInv
    <2> QED
      BY <2>2, <2>3 DEF Known
  <1> QED
    BY <1>1, LogInvariant, PTL

-------------------------------------------------------------------------------
(* The save path implements WriteBehind. *)

TextIs(d) == Log(d) \union QueuedEdits(d)

\* A step that changes no draft's text or log is a step of WriteBehind if it
\* answers for logged edits only.
LEMMA AnswerRefined ==
  ASSUME TypeInv, \A d \in Drafts : TextIs(d)' = TextIs(d) /\ Log(d)' = Log(d),
         promised \subseteq promised', promised' \subseteq Logged
  PROVE  WB!Next
  <1>1. \A e \in Logged : \E d \in Drafts : e \in Log(d)
    BY Numbers DEF Logged, Log, IdsOf
  <1>2. promised' \subseteq UNION {Log(d) : d \in Drafts}
    BY <1>1
  <1>3. UNION {[a \in Drafts |-> Log(a)][d] : d \in Drafts} = UNION {Log(d) : d \in Drafts}
    OBVIOUS
  <1>4. /\ [d \in Drafts |-> Log(d)]' = [d \in Drafts |-> Log(d)]
        /\ [d \in Drafts |-> Log(d) \union QueuedEdits(d)]' =
               [d \in Drafts |-> Log(d) \union QueuedEdits(d)]
    BY DEF TextIs
  <1>5. WB!Answer
    BY <1>2, <1>3, <1>4 DEF WB!Answer, WB!Answering, WB!Everywhere
  <1> QED
    BY <1>5 DEF WB!Next

\* Accepting, saving and losing an edit, and starting again.
LEMMA AcceptRefined ==
  ASSUME TypeInv, Ordered, NEW d \in Drafts, NEW e, e = nextEdit, e \in 1..MaxEdits,
         \A a \in Drafts :
             /\ TextIs(a)' = IF a = d THEN TextIs(a) \union {e} ELSE TextIs(a)
             /\ Log(a)' = Log(a),
         UNCHANGED promised
  PROVE  WB!Next
  <1>1. \A a : \A f \in TextIs(a) : f < e
    BY LoggedView, QueuedView DEF TextIs
  <1> DEFINE text == [a \in Drafts |-> Log(a) \union QueuedEdits(a)]
  <1>2. \A f \in UNION {text[a] : a \in Drafts} : f < e
    BY <1>1 DEF TextIs
  <1>3. text' = [text EXCEPT ![d] = @ \union {e}]
    BY DEF TextIs
  <1>4. [a \in Drafts |-> Log(a)]' = [a \in Drafts |-> Log(a)]
    OBVIOUS
  <1>5. WB!Accept(d, e)
    BY <1>2, <1>3, <1>4 DEF WB!Accept, WB!Everywhere
  <1> QED
    BY <1>5 DEF WB!Next

\* The running append's edit is the oldest of its draft on its way.
LEMMA RunningOldest ==
  ASSUME TypeInv, Ordered, queue # <<>>, running.kind = "append", ~Inserted,
         NEW d \in Drafts, d = running.draft, NEW e, e = running.edit
  PROVE  WB!Oldest(d, e) /\ e \in [a \in Drafts |-> Log(a) \union QueuedEdits(a)][d]
  <1>1. running \in Pending
    BY RunningFirst
  <1>2. e \in QueuedEdits(d) /\ e \notin Log(d)
    BY <1>1, PendingView, LoggedView
  <1>3. \A f \in QueuedEdits(d) : e <= f
    BY RunningFirst
  <1> QED
    BY <1>2, <1>3 DEF WB!Oldest

\* Logging an edit is a Save of the promise.
LEMMA SaveRefined ==
  ASSUME TypeInv, Ordered, queue # <<>>, Wrote, Consumed, UNCHANGED promised
  PROVE  WB!Next
  <1>1. PICK d, e : d \in Drafts /\ d = running.draft /\ e = running.edit
    BY RunningType DEF Wrote
  <1> DEFINE text == [a \in Drafts |-> Log(a) \union QueuedEdits(a)]
             saved == [a \in Drafts |-> Log(a)]
  <1>2. WB!Oldest(d, e) /\ e \in text[d]
    BY <1>1, RunningOldest DEF Wrote
  <1>3. Log(d)' = Log(d) \union {e} /\ \A a : a # d => Log(a)' = Log(a)
    BY <1>1, LogWritten DEF Wrote
  <1>4. e \in QueuedEdits(d)
    BY <1>1, RunningFirst, PendingView DEF Wrote
  <1>5. \A a \in Drafts : TextIs(a)' = TextIs(a)
    BY <1>1, <1>3, <1>4 DEF TextIs, Consumed
  <1>6. text' = text
    BY <1>5 DEF TextIs
  <1>7. saved' = [saved EXCEPT ![d] = @ \union {e}]
    BY <1>3
  <1>8. WB!Save(d, e)
    BY <1>2, <1>6, <1>7 DEF WB!Save
  <1> QED
    BY <1>1, <1>2, <1>8 DEF WB!Next

\* Losing an edit is a Lose of the promise.
LEMMA LoseRefined ==
  ASSUME TypeInv, Ordered, queue # <<>>, Lost, Consumed, Ended, ~Inserted',
         UNCHANGED promised
  PROVE  WB!Next
  <1>1. PICK d, e : d \in Drafts /\ d = running.draft /\ e = running.edit
    BY RunningType DEF Lost
  <1> DEFINE text == [a \in Drafts |-> Log(a) \union QueuedEdits(a)]
             saved == [a \in Drafts |-> Log(a)]
  <1>2. WB!Oldest(d, e) /\ e \in text[d]
    BY <1>1, RunningOldest DEF Lost
  <1>3. \A a : Log(a)' = Log(a)
    BY DEF Lost, Log, IdsOf
  <1>4. running \in Pending /\ e \notin Log(d)
    BY <1>1, RunningFirst, PendingView, LoggedView DEF Lost
  <1>5. e \notin QueuedEdits(d)'
    <2>1. \A k \in 1..Len(queue') : k + 1 \in 1..Len(queue) /\ 1 < k + 1
                                    /\ queue'[k] = queue[k + 1]
      BY DEF Ended
    <2>2. 1 \in 1..Len(queue) /\ running = queue[1]
      BY DEF Ended
    <2>3. \A k \in 1..Len(queue') : e < queue'[k].edit /\ queue'[k].edit \in Nat
      BY <1>1, <2>1, <2>2, Numbers DEF Lost, Ordered, OrderOK
    <2> QED
      BY <1>1, <2>2, <2>3, Numbers DEF QueuedEdits
  <1>6. \A a \in Drafts : TextIs(a)' = IF a = d THEN TextIs(a) \ {e} ELSE TextIs(a)
    BY <1>1, <1>3, <1>4, <1>5 DEF TextIs, Consumed
  <1>7. text' = [text EXCEPT ![d] = @ \ {e}]
    BY <1>6 DEF TextIs
  <1>8. saved' = saved
    BY <1>3
  <1>9. WB!Lose(d, e)
    BY <1>2, <1>7, <1>8 DEF WB!Lose
  <1> QED
    BY <1>1, <1>2, <1>9 DEF WB!Next

\* A restart of the program is a Restart of the promise.
LEMMA RestartRefined ==
  ASSUME TypeInv, Restart, promised \subseteq promised', promised' \subseteq Logged
  PROVE  WB!Next
  <1> DEFINE text == [a \in Drafts |-> Log(a) \union QueuedEdits(a)]
             saved == [a \in Drafts |-> Log(a)]
  <1>1. \A a : Log(a)' = Log(a) /\ QueuedEdits(a)' = {}
    BY DEF Restart, Log, IdsOf, QueuedEdits, dbVars
  <1>2. text' = saved /\ saved' = saved
    BY <1>1
  <1>3. \A e \in Logged : \E d \in Drafts : e \in Log(d)
    BY Numbers DEF Logged, Log, IdsOf
  <1>4. promised' \subseteq UNION {saved[d] : d \in Drafts}
    BY <1>3
  <1>5. WB!Restart
    BY <1>2, <1>4 DEF WB!Restart, WB!Answering, WB!Everywhere
  <1> QED
    BY <1>5 DEF WB!Next

\* Steps that leave every text alone: the running job ends having done nothing
\* to the log, a job without an edit joins the queue, the queue is left alone.
LEMMA EndedTexts ==
  ASSUME Ordered, Consumed, Quiet
  PROVE  \A d : TextIs(d)' = TextIs(d) /\ Log(d)' = Log(d)
  <1>1. \A d : Log(d)' = Log(d)
    BY DEF Quiet, Log, IdsOf
  <1>2. ASSUME NEW d, NEW f \in TextIs(d) PROVE f \in TextIs(d)'
    BY <1>1, <1>2 DEF TextIs, Consumed, Quiet, Ordered, InsertedOK
  <1>3. ASSUME NEW d, NEW f \in TextIs(d)' PROVE f \in TextIs(d)
    BY <1>1, <1>3 DEF TextIs, Consumed
  <1> QED
    BY <1>1, <1>2, <1>3

\* Enqueueing shows nobody another text.
LEMMA ChainedTexts ==
  ASSUME NEW job, Joined(job), job.kind # "append", UNCHANGED events
  PROVE  \A d : TextIs(d)' = TextIs(d) /\ Log(d)' = Log(d)
  <1>1. \A d : Log(d)' = Log(d)
    BY DEF Log, IdsOf
  <1> QED
    BY <1>1 DEF TextIs, Joined

\* Leaving queue and log alone shows nobody another text.
LEMMA KeptTexts ==
  ASSUME UNCHANGED <<events, queue>>
  PROVE  \A d : TextIs(d)' = TextIs(d) /\ Log(d)' = Log(d)
  BY DEF TextIs, Log, IdsOf, QueuedEdits

\* Nor does asking for a flush.
LEMMA FlushTexts ==
  ASSUME LogInv, NEW caller \in Callers, NEW close, Flush(caller, close),
         UNCHANGED <<events, step>>
  PROVE  \A d : TextIs(d)' = TextIs(d) /\ Log(d)' = Log(d)
  <1>1. PICK job : job = CheckpointJob(caller, current, mine)
    OBVIOUS
  <1>2. job \in JobType /\ job.kind = "checkpoint"
    BY <1>1, CheckpointJobView DEF LogInv, TypeInv, TypeOK
  <1>3. Enqueue(job, close)
    BY <1>1 DEF Flush
  <1>4. Joined(job)
    BY <1>2, <1>3, ChainedShape, ChainedSets DEF LogInv, Inserted
  <1> QED
    BY <1>2, <1>4, ChainedTexts

\* Every step is a step of the promise or leaves it as it is.
LEMMA StepRefined ==
  ASSUME LogInv, FlushedIsDurable, FlushedIsDurable', Next
  PROVE  WB!Next
  <1> USE DEF LogInv
  <1>1a. promised \subseteq Logged
    BY DEF FlushedIsDurable
  <1>1b. ASSUME \A d : TextIs(d)' = TextIs(d) /\ Log(d)' = Log(d),
                UNCHANGED <<events, promised>>
        PROVE  WB!Next
    BY <1>1a, <1>1b, AnswerRefined
  <1>1. CASE AcceptEdit
    <2>1. PICK job, d, e : job = AppendJob /\ d = view.draft /\ e = nextEdit
      OBVIOUS
    <2>2. /\ job \in JobType /\ job.kind = "append" /\ job.edit = e /\ job.draft = d
          /\ d \in Drafts
      BY <1>1, <2>1, JobTypes DEF AcceptEdit, AppendJob
    <2>3. /\ Enqueue(job, closing) /\ UNCHANGED <<events, step, promised>>
          /\ e <= MaxEdits
      BY <1>1, <2>1 DEF AcceptEdit, dbVars, historyVars
    <2>4. Joined(job)
      BY <2>2, <2>3, ChainedShape, ChainedSets DEF Inserted
    <2>5. \A a : Log(a)' = Log(a)
      BY <2>3 DEF Log, IdsOf
    <2>6. \A a : TextIs(a)' = IF a = d THEN TextIs(a) \union {e} ELSE TextIs(a)
      BY <2>2, <2>4, <2>5 DEF TextIs, Joined
    <2>7. e \in 1..MaxEdits
      BY <2>1, <2>3, Numbers DEF Ordered, OrderOK
    <2> QED
      BY <2>1, <2>2, <2>3, <2>5, <2>6, <2>7, AcceptRefined
  <1>2. ASSUME NEW kept \in BOOLEAN, NEW guarded \in BOOLEAN,
               SnapshotBeforeChange(kept, guarded)
        PROVE  WB!Next
    BY <1>2, <1>1b, KeptTexts DEF SnapshotBeforeChange, historyVars
  <1>3. CASE AppendSucceeds
    <2>1. /\ queue # <<>> /\ running.kind = "append" /\ ~Inserted /\ UNCHANGED <<lost, promised>>
          /\ InsertEvent(running.draft, running.edit, running.content)
      BY <1>3 DEF AppendSucceeds, Running, Inserted, historyVars
    <2>2. Wrote
      BY <2>1, WrittenShape DEF Wrote
    <2>3. Consumed
      <3>1. CASE Finish
        BY <2>1, <3>1, EndedShape, EndedSets DEF Finish, Inserted
      <3>2. CASE UNCHANGED queue /\ Inserted'
        BY <2>1, <3>2, InsertedSets
      <3> QED
        BY <1>3, <3>1, <3>2 DEF AppendSucceeds, Inserted
    <2> QED
      BY <2>1, <2>2, <2>3, SaveRefined
  <1>4. ASSUME NEW inserted \in BOOLEAN, AppendFails(inserted) PROVE WB!Next
    <2>1. /\ queue # <<>> /\ running.kind = "append" /\ ~Inserted /\ Finish
          /\ UNCHANGED promised
      BY <1>4 DEF AppendFails, Running, Inserted
    <2>2. Ended /\ ~Inserted'
      BY <2>1, EndedShape DEF Finish, Inserted
    <2>3. Consumed
      BY <2>2, EndedSets
    <2>4. CASE inserted
      <3>1. Wrote
        BY <1>4, <2>1, <2>4, WrittenShape DEF AppendFails, Wrote
      <3> QED
        BY <2>1, <2>3, <3>1, SaveRefined
    <2>5. CASE ~inserted
      <3>1. Lost
        BY <1>4, <2>1, <2>5 DEF AppendFails, Lost
      <3> QED
        BY <2>1, <2>2, <2>3, <3>1, LoseRefined
    <2> QED
      BY <2>4, <2>5
  <1>5. ASSUME queue # <<>>, Finish, Quiet
        PROVE  \A d : TextIs(d)' = TextIs(d) /\ Log(d)' = Log(d)
    <2>1. Consumed
      BY <1>5, EndedShape, EndedSets DEF Finish, Inserted
    <2> QED
      BY <1>5, <2>1, EndedTexts
  <1>6. ASSUME NEW saved \in BOOLEAN, SnapshotAfterChange(saved) PROVE WB!Next
    <2>1. queue # <<>> /\ Finish /\ Quiet /\ UNCHANGED <<events, promised>>
      BY <1>6 DEF SnapshotAfterChange, Running, Quiet, Inserted, historyVars
    <2> QED
      BY <2>1, <1>5, <1>1b
  <1>7. CASE NamedVersionRefused \/ NamedVersionSaved
    <2>1. queue # <<>> /\ Finish /\ Quiet /\ UNCHANGED <<events, promised>>
      BY <1>7 DEF NamedVersionRefused, NamedVersionSaved, Running, Quiet, historyVars, dbVars
    <2> QED
      BY <2>1, <1>5, <1>1b
  <1>8. CASE CheckpointSucceeds
    <2>1. /\ queue # <<>> /\ Finish /\ Quiet /\ UNCHANGED events
          /\ promised \subseteq promised'
      BY <1>8 DEF CheckpointSucceeds, Running, Quiet, Resolve
    <2>2. promised' \subseteq Logged
      BY <2>1 DEF FlushedIsDurable, Logged
    <2> QED
      BY <2>1, <2>2, <1>5, AnswerRefined
  <1>9. CASE CheckpointFails
    <2>1. queue # <<>> /\ Finish /\ Quiet /\ UNCHANGED <<events, promised>>
      BY <1>9 DEF CheckpointFails, Running, Quiet, Reject, dbVars
    <2> QED
      BY <2>1, <1>5, <1>1b
  <1>10. ASSUME NEW s \in inflight, NEW saved \in BOOLEAN, RecoverySnapshotSettles(s, saved)
         PROVE  WB!Next
    BY <1>10, <1>1b, KeptTexts DEF RecoverySnapshotSettles, historyVars
  <1>11. CASE NameVersion
    <2>1. PICK job : job = NamedJob
      OBVIOUS
    <2>2. job \in JobType /\ job.kind = "named"
      BY <1>11, <2>1, JobTypes DEF NameVersion, NamedJob
    <2>3. /\ Enqueue(job, closing) /\ UNCHANGED <<events, step, promised>>
      BY <1>11, <2>1 DEF NameVersion, dbVars, historyVars
    <2>4. Joined(job)
      BY <2>2, <2>3, ChainedShape, ChainedSets DEF Inserted
    <2> QED
      BY <2>2, <2>3, <2>4, <1>1b, ChainedTexts
  <1>12. CASE IdleCheckpoint
    <2>1. PICK job : job = CheckpointJob("idle", current, {})
      OBVIOUS
    <2>2. job \in JobType /\ job.kind = "checkpoint"
      BY <2>1, CheckpointJobView DEF Callers
    <2>3. /\ Enqueue(job, closing) /\ UNCHANGED <<events, step, promised>>
      BY <1>12, <2>1 DEF IdleCheckpoint, dbVars, historyVars
    <2>4. Joined(job)
      BY <2>2, <2>3, ChainedShape, ChainedSets DEF Inserted
    <2> QED
      BY <2>2, <2>3, <2>4, <1>1b, ChainedTexts
  <1>13. CASE FlushPersistence
    BY <1>13, <1>1b, FlushTexts DEF FlushPersistence, dbVars, historyVars, Callers
  <1>14. ASSUME NEW d \in Drafts, StartLoad(d) PROVE WB!Next
    BY <1>14, <1>1b, FlushTexts DEF StartLoad, dbVars, historyVars, Callers
  <1>15. CASE RequestClose
    BY <1>15, <1>1b, FlushTexts DEF RequestClose, dbVars, historyVars, Callers
  <1>16. CASE CloseAgain
    BY <1>16, <1>1b, FlushTexts DEF CloseAgain, dbVars, historyVars, Callers
  <1>17. CASE AbandonLoad
    BY <1>17, <1>1b, KeptTexts DEF AbandonLoad, dbVars, historyVars
  <1>18. ASSUME NEW s \in LatestSnapshots(load.draft), NEW replayed \in Replays(s),
                ReadDraft(s, replayed)
         PROVE  WB!Next
    BY <1>18, <1>1b, KeptTexts DEF ReadDraft, dbVars, historyVars
  <1>19. CASE CommitLoad
    <2>1. UNCHANGED <<events, step, promised>>
      BY <1>19 DEF CommitLoad, dbVars, historyVars
    <2>2. CASE load.recovered
      <3>1. PICK job : job = CheckpointJob("flush", current + 1, {})
        OBVIOUS
      <3>2. job \in JobType /\ job.kind = "checkpoint"
        <4>1. current + 1 \in Nat \ {0} /\ {} \in SUBSET Nat
          BY DEF current, TypeInv, TypeOK
        <4> QED
          BY <3>1, <4>1, JobTypes DEF Callers
      <3>3. Enqueue(job, closing)
        BY <1>19, <2>2, <3>1 DEF CommitLoad
      <3>4. Joined(job)
        BY <2>1, <3>2, <3>3, ChainedShape, ChainedSets DEF Inserted
      <3> QED
        BY <2>1, <3>2, <3>4, <1>1b, ChainedTexts
    <2>3. CASE ~load.recovered
      BY <1>19, <2>1, <2>3, <1>1b, KeptTexts DEF CommitLoad
    <2> QED
      BY <2>2, <2>3
  <1>20. CASE CloseWindow \/ Crash
    <2>1. Restart /\ promised \subseteq promised' /\ UNCHANGED events
      BY <1>20 DEF CloseWindow, Crash, Restart, dbVars
    <2>2. promised' \subseteq Logged
      BY <2>1 DEF FlushedIsDurable, Logged
    <2> QED
      BY <2>1, <2>2, RestartRefined
  <1> QED
    BY <1>1, <1>2, <1>3, <1>4, <1>6, <1>7, <1>8, <1>9, <1>10, <1>11, <1>12, <1>13, <1>14,
       <1>15, <1>16, <1>17, <1>18, <1>19, <1>20 DEF Next, QueueStep, LoaderStep

\* The save path implements WriteBehind: edits are accepted at once and saved in
\* the order of acceptance, only edits on their way are lost, and a resolved
\* flush is never taken back (persistTransaction, doAppend, flushPersistence).
THEOREM SavePathWritesBehind == Spec => WritesBehind
  <1>1. Init => WB!Init
    <2> SUFFICES ASSUME Init PROVE WB!Init
      OBVIOUS
    <2>1. \A d : Log(d) = {} /\ QueuedEdits(d) = {}
      BY DEF Init, Log, IdsOf, QueuedEdits
    <2> QED
      BY <2>1 DEF WB!Init, Init
  <1>2. /\ LogInv /\ FlushedIsDurable /\ FlushedIsDurable' /\ [Next]_vars
        => [WB!Next]_(WB!vars)
    <2> SUFFICES ASSUME LogInv, FlushedIsDurable, FlushedIsDurable', [Next]_vars
                 PROVE  [WB!Next]_(WB!vars)
      OBVIOUS
    <2>1. CASE Next
      BY <2>1, StepRefined
    <2>2. CASE UNCHANGED vars
      <3>1. UNCHANGED <<events, queue, promised>>
        BY <2>2 DEF vars
      <3>2. \A d : TextIs(d)' = TextIs(d) /\ Log(d)' = Log(d)
        BY <3>1, KeptTexts
      <3> QED
        BY <3>1, <3>2 DEF WB!vars, TextIs
    <2> QED
      BY <2>1, <2>2
  <1> QED
    BY <1>1, <1>2, LogInvariant, FlushedDurable, PTL DEF Spec, WritesBehind, WB!Spec

-------------------------------------------------------------------------------
(***************************************************************************)
(* A flush that resolves leaves what it covers in a snapshot, for every    *)
(* value of the constants: theorem FlushedCheckpointed.  Its invariant     *)
(* rests on those of PersistenceProofs (a flush covers logged edits) and   *)
(* PersistenceLogProofs (the order of edits).                              *)
(***************************************************************************)

(* The inductive invariant. *)

\* The edits that some snapshot holds.
Saved == UNION {s.content : s \in snapshots}

\* Queued texts that no event has been inserted for, and queued checkpoints.
Waiting == {w \in Writes : w.kind = "named" \/ w \in Pending}

Checks == {queue[k] : k \in {j \in 1..Len(queue) : queue[j].kind = "checkpoint"}}

\* Under one bookkeeping texts only grow: from the pending checkpoint to the
\* queued texts, from each queued append to what was queued after it, and on to
\* the screen.
TextsGrow ==
    /\ \A w \in Waiting : \A s \in books[w.book].pendingCheckpoint : s.content \subseteq w.content
    /\ \A s \in books[current].pendingCheckpoint : s.content \subseteq view.content
    /\ \A p \in Pending, w \in Waiting : p.book = w.book /\ p.edit < w.edit =>
           p.content \union {p.edit} \subseteq w.content
    /\ \A p \in Pending : p.book = current => p.content \union {p.edit} \subseteq view.content

\* The running append, its event inserted, has left its text to the next checkpoint.
AfterPending ==
    Inserted => book.pendingCheckpoint = {AfterChange(book.lastEventId)}

\* Edit e, once logged, is in a snapshot or will be in the next checkpoint of
\* bookkeeping b, unless a failure forbids checkpoints.
Secured(e, b) ==
    \/ e \in Saved
    \/ books[b].failure
    \/ \E s \in books[b].pendingCheckpoint : e \in s.content

FlushKept == \A c \in Checks : \A e \in c.content : e \in Logged => Secured(e, c.book)

MineKept == \A e \in mine : e \in Logged => Secured(e, current)

\* The close handler's last flush has left every edit in a snapshot.
CloseKept == closing.phase = "check" /\ closing.barrier => mine \subseteq Saved

SnapshotInv ==
    /\ TextsGrow /\ AfterPending /\ FlushKept /\ MineKept /\ CloseKept
    /\ FlushedIsCheckpointed

\* What is already known of every state.
KnownInv == LogInv /\ DurableInv

-------------------------------------------------------------------------------
(* The queue as sets. *)

\* Queued texts and appends have their types and numbers.
LEMMA WaitingView ==
  ASSUME KnownInv, NEW w \in Waiting
  PROVE  /\ w \in Writes /\ w.kind \in {"append", "named"}
         /\ w.book \in 1..Len(books) /\ w.edit \in Nat /\ w.edit <= nextEdit
  <1>1. w \in Writes /\ w \in JobType /\ w.kind # "checkpoint"
        /\ w.book \in 1..Len(books) /\ w.edit \in Nat
    BY WritesView DEF Waiting, KnownInv, LogInv
  <1>2. PICK k \in 1..Len(queue) : w = queue[k]
    BY <1>1 DEF Writes
  <1> QED
    BY <1>1, <1>2 DEF JobType, KnownInv, LogInv, Ordered, OrderOK

\* A checkpoint belongs to a bookkeeping that exists.
LEMMA ChecksView ==
  ASSUME KnownInv, NEW c \in Checks PROVE c.book \in 1..Len(books)
  BY Numbers DEF Checks, KnownInv, LogInv

\* Settling a job takes it away, chaining one adds it.
LEMMA EndedChecks ==
  ASSUME Ended, Consumed
  PROVE  Checks' \subseteq Checks /\ Waiting' \subseteq Waiting /\ Pending' \subseteq Pending
  <1>1. \A k \in 1..Len(queue') : k + 1 \in 1..Len(queue) /\ queue'[k] = queue[k + 1]
    BY DEF Ended
  <1>2. Checks' \subseteq Checks
    BY <1>1 DEF Checks
  <1> QED
    BY <1>2 DEF Consumed, Waiting

\* Chaining a job adds at most that job to the texts and checkpoints.
LEMMA ChainedChecks ==
  ASSUME NEW job, Chained(job), Joined(job)
  PROVE  /\ \A c \in Checks' : c \in Checks \/ (c = job /\ job.kind = "checkpoint")
         /\ \A w \in Waiting' : w \in Waiting \/ (w = job /\ job.kind # "checkpoint")
         /\ \A p \in Pending' : p \in Pending \/ (p = job /\ job.kind = "append")
  <1>1. \A k \in 1..Len(queue') : \/ k \in 1..Len(queue) /\ queue'[k] = queue[k]
                                  \/ queue'[k] = job
    BY DEF Chained
  <1>2. \A c \in Checks' : c \in Checks \/ (c = job /\ job.kind = "checkpoint")
    BY <1>1 DEF Checks
  <1> QED
    BY <1>2 DEF Joined, Waiting

\* The running append is older than all that waits behind it.
LEMMA RunningOlder ==
  ASSUME KnownInv, queue # <<>>, running.kind = "append", ~Inserted,
         NEW w \in Waiting
  PROVE  w = running \/ running.edit < w.edit
  <1>1. 1 \in 1..Len(queue) /\ running = queue[1]
    BY Numbers DEF KnownInv, LogInv
  <1>2. PICK k \in 1..Len(queue) : w = queue[k]
    BY WaitingView DEF Writes
  <1>3. k = 1 \/ 1 < k
    BY <1>1
  <1> QED
    BY <1>1, <1>2, <1>3 DEF KnownInv, LogInv, Ordered, OrderOK

\* Once it has inserted its event it waits no longer.
LEMMA InsertedOlder ==
  ASSUME KnownInv, queue # <<>>, running.kind = "append", Inserted',
         UNCHANGED queue, NEW w \in Waiting'
  PROVE  running.edit < w.edit
  <1>1. 1 \in 1..Len(queue) /\ running = queue[1]
    BY Numbers DEF KnownInv, LogInv
  <1>2. w \in Writes' /\ (w.kind = "named" \/ w \in Pending')
    BY DEF Waiting
  <1>3. PICK k \in 1..Len(queue) : w = queue[k] /\ k # 1
    <2>1. CASE w \in Pending'
      BY <2>1 DEF Pending
    <2>2. CASE w.kind = "named"
      BY <1>1, <1>2, <2>2 DEF Writes
    <2> QED
      BY <1>2, <2>1, <2>2
  <1>4. 1 < k
    BY <1>3
  <1> QED
    BY <1>1, <1>3, <1>4 DEF KnownInv, LogInv, Ordered, OrderOK

-------------------------------------------------------------------------------
(* What a step has to respect. *)

\* No snapshot is deleted, no failure forgotten, and a pending checkpoint is
\* written or replaced by a longer one.
Upheld ==
    /\ Len(books) \in Nat /\ Len(books) <= Len(books')
    /\ Saved \subseteq Saved' /\ FailuresStay
    /\ \A b \in 1..Len(books) : \A s \in books[b].pendingCheckpoint :
           \/ s.content \subseteq Saved'
           \/ \E t \in books'[b].pendingCheckpoint : s.content \subseteq t.content

SamePending ==
    \A b \in 1..Len(books) : books'[b].pendingCheckpoint = books[b].pendingCheckpoint

\* An edit that is secured stays so.
LEMMA SecuredStays ==
  ASSUME Upheld, NEW b \in 1..Len(books), NEW e, Secured(e, b)
  PROVE  Secured(e, b)'
  BY DEF Upheld, Secured, FailuresStay

\* An edit that the running append logs is covered only by flushes of its own
\* bookkeeping, or by such as fail.
LEMMA OwnBook ==
  ASSUME KnownInv, queue # <<>>, running.kind = "append", ~Inserted
  PROVE  /\ \A c \in Checks : running.edit \in c.content =>
                books[c.book].failure \/ c.book = running.book
         /\ running.edit \in mine => books[current].failure \/ current = running.book
  <1>1. 1 \in 1..Len(queue) /\ running = queue[1] /\ Len(queue) \in Nat
    BY Numbers DEF KnownInv, LogInv
  <1>2. running.edit \notin Logged
    <2>1. \A e \in Logged : e < running.edit /\ e \in Nat
      BY RunningFirst, LoggedView DEF KnownInv, LogInv
    <2>2. running.edit \in Nat
      BY <1>1, Numbers DEF KnownInv, LogInv
    <2> QED
      BY <2>1, <2>2
  <1>3. ASSUME NEW b, NEW n \in 0..Len(queue), AppendQueued(running.edit, b, n, queue)
        PROVE  b = running.book
    <2>1. PICK k \in 1..n : queue[k].kind = "append" /\ queue[k].edit = running.edit
                            /\ queue[k].book = b
      BY <1>3 DEF AppendQueued
    <2>2. k \in 1..Len(queue) /\ (k = 1 \/ 1 < k)
      BY <1>1
    <2>3. CASE 1 < k
      <3>1. queue[1].edit < queue[k].edit
        BY <1>1, <2>2, <2>3 DEF KnownInv, LogInv, Ordered, OrderOK
      <3> QED
        BY <1>1, <2>1, <2>2, <3>1, Numbers DEF KnownInv, LogInv
    <2> QED
      BY <1>1, <2>1, <2>2, <2>3
  <1>4. ASSUME NEW c \in Checks, running.edit \in c.content
        PROVE  books[c.book].failure \/ c.book = running.book
    <2>1. PICK k \in 1..Len(queue) : queue[k].kind = "checkpoint" /\ c = queue[k]
      BY DEF Checks
    <2>2. Covered(running.edit, c.book, k - 1, Logged, books, queue)
      BY <1>4, <2>1 DEF KnownInv, DurableInv, CheckpointsCovered
    <2>3. k - 1 \in 0..Len(queue)
      BY <1>1
    <2> QED
      BY <1>2, <1>3, <2>2, <2>3 DEF Covered
  <1>5. ASSUME running.edit \in mine
        PROVE  books[current].failure \/ current = running.book
    <2>1. Covered(running.edit, current, Len(queue), Logged, books, queue)
      BY <1>5 DEF KnownInv, DurableInv, MineCovered
    <2>2. Len(queue) \in 0..Len(queue)
      BY <1>1
    <2> QED
      BY <1>2, <1>3, <2>1, <2>2 DEF Covered
  <1> QED
    BY <1>4, <1>5

\* No edit is logged but by the running append, which leaves it to its bookkeeping.
LogsItsOwn ==
    \A e \in Logged' :
        \/ e \in Logged
        \/ /\ queue # <<>> /\ running.kind = "append" /\ ~Inserted
           /\ e = running.edit /\ \E b : b = running.book /\ Secured(e, b)'

\* New checkpoints cover what the current bookkeeping has accepted, or nothing.
NewChecks ==
    \A c \in Checks' :
        c \in Checks \/ c.content = {} \/ (c.content = mine /\ c.book = current)

\* Flushes keep what they cover: what is newly logged is left to the bookkeeping
\* that the flushes covering it belong to.
LEMMA FlushesStay ==
  ASSUME KnownInv, FlushKept, MineKept, Upheld, LogsItsOwn, NewChecks
  PROVE  /\ FlushKept'
         /\ \A b : b = current => \A e \in mine : e \in Logged' => Secured(e, b)'
  <1>1. current \in 1..Len(books)
    BY JobTypes DEF KnownInv, LogInv
  <1>2. ASSUME NEW b, b = current, NEW e \in mine, e \in Logged'
        PROVE  Secured(e, b)'
    <2>1. CASE e \in Logged
      BY <1>1, <1>2, <2>1, SecuredStays DEF MineKept
    <2>2. CASE e \notin Logged
      <3>1. PICK r : /\ queue # <<>> /\ running.kind = "append" /\ ~Inserted
                     /\ e = running.edit /\ r = running.book /\ Secured(e, r)'
        BY <1>2, <2>2 DEF LogsItsOwn
      <3>2. books[b].failure \/ b = running.book
        BY <1>2, <3>1, OwnBook
      <3>3. CASE books[b].failure
        BY <1>1, <1>2, <3>3 DEF Upheld, FailuresStay, Secured
      <3>4. CASE b = running.book
        BY <3>1, <3>4
      <3> QED
        BY <3>2, <3>3, <3>4
    <2> QED
      BY <2>1, <2>2
  <1>3. ASSUME NEW c \in Checks', NEW e \in c.content, e \in Logged'
        PROVE  Secured(e, c.book)'
    <2>1. CASE c \in Checks
      <3>1. c.book \in 1..Len(books)
        BY <2>1, ChecksView
      <3>2. CASE e \in Logged
        BY <2>1, <3>1, <3>2, SecuredStays DEF FlushKept
      <3>3. CASE e \notin Logged
        <4>1. PICK r : /\ queue # <<>> /\ running.kind = "append" /\ ~Inserted
                       /\ e = running.edit /\ r = running.book /\ Secured(e, r)'
          BY <1>3, <3>3 DEF LogsItsOwn
        <4>2. books[c.book].failure \/ c.book = running.book
          BY <1>3, <2>1, <4>1, OwnBook
        <4>3. CASE books[c.book].failure
          BY <3>1, <4>3 DEF Upheld, FailuresStay, Secured
        <4>4. CASE c.book = running.book
          BY <4>1, <4>4
        <4> QED
          BY <4>2, <4>3, <4>4
      <3> QED
        BY <3>2, <3>3
    <2>2. CASE c.content = mine /\ c.book = current
      BY <1>2, <1>3, <2>2
    <2>3. CASE c.content = {}
      BY <1>3, <2>3
    <2> QED
      BY <2>1, <2>2, <2>3 DEF NewChecks
  <1> QED
    BY <1>2, <1>3 DEF FlushKept

\* Texts that leave the queue or copy the screen keep the order of texts.
LEMMA TextsKeep ==
  ASSUME KnownInv, TextsGrow, FewerCheckpoints, UNCHANGED view, Pending' \subseteq Pending,
         \A w \in Waiting' : w \in Waiting \/ OfScreen(w)
  PROVE  TextsGrow'
  <1>1. current' = current /\ current \in 1..Len(books)
    BY JobTypes DEF FewerCheckpoints, current, KnownInv, LogInv
  <1>2. ASSUME NEW w \in Waiting', NEW s \in books'[w.book].pendingCheckpoint
        PROVE  s.content \subseteq w.content
    <2>1. CASE w \in Waiting
      BY <1>2, <2>1, WaitingView DEF TextsGrow, FewerCheckpoints
    <2>2. CASE OfScreen(w)
      BY <1>1, <1>2, <2>2 DEF TextsGrow, FewerCheckpoints, OfScreen
    <2> QED
      BY <2>1, <2>2
  <1>3. ASSUME NEW s \in books'[current].pendingCheckpoint
        PROVE  s.content \subseteq view'.content
    BY <1>1, <1>3 DEF TextsGrow, FewerCheckpoints
  <1>4. ASSUME NEW p \in Pending', NEW w \in Waiting', p.book = w.book, p.edit < w.edit
        PROVE  p.content \union {p.edit} \subseteq w.content
    <2>1. CASE w \in Waiting
      BY <1>4, <2>1 DEF TextsGrow
    <2>2. CASE OfScreen(w)
      BY <1>4, <2>2 DEF TextsGrow, OfScreen
    <2> QED
      BY <2>1, <2>2
  <1>5. ASSUME NEW p \in Pending', p.book = current
        PROVE  p.content \union {p.edit} \subseteq view'.content
    BY <1>5 DEF TextsGrow
  <1> QED
    BY <1>1, <1>2, <1>3, <1>4, <1>5 DEF TextsGrow

\* The running append's text stays with the next checkpoint.
LEMMA AfterPendingStays ==
  ASSUME KnownInv, AfterPending, SameBooks, SamePending,
         Inserted' => Inserted /\ queue # <<>> /\ running' = running
  PROVE  AfterPending'
  <1> SUFFICES ASSUME Inserted'
               PROVE  book'.pendingCheckpoint = {AfterChange(book.lastEventId)}'
    BY DEF AfterPending
  <1>1. /\ Inserted /\ queue # <<>> /\ running' = running
        /\ running.book \in 1..Len(books)
    BY RunningType DEF KnownInv, LogInv
  <1>2. book' = books'[running.book] /\ book = books[running.book]
    BY <1>1 DEF book
  <1>3. book.pendingCheckpoint = {AfterChange(book.lastEventId)}
    BY <1>1 DEF AfterPending
  <1>4. book'.lastEventId = book.lastEventId
        /\ book'.pendingCheckpoint = book.pendingCheckpoint
    BY <1>1, <1>2 DEF SameBooks, SamePending
  <1> QED
    BY <1>1, <1>3, <1>4 DEF AfterChange

\* Neither the close handler nor the other callers are told anything.
Untold ==
    /\ UNCHANGED <<mine, promised>>
    /\ closing' = closing \/ closing'.phase # "check" \/ ~closing'.barrier

\* A step that respects all this keeps the invariant.
LEMMA Steady ==
  ASSUME KnownInv, SnapshotInv, Upheld, FewerCheckpoints, LogsItsOwn, NewChecks,
         UNCHANGED view, Untold, Pending' \subseteq Pending,
         \A w \in Waiting' : w \in Waiting \/ OfScreen(w),
         AfterPending'
  PROVE  SnapshotInv'
  <1>1. TextsGrow'
    BY TextsKeep DEF SnapshotInv
  <1>2. FlushKept' /\ MineKept'
    <2>1. current' = current
      BY DEF FewerCheckpoints, current
    <2>2. /\ FlushKept'
          /\ \A b : b = current => \A e \in mine : e \in Logged' => Secured(e, b)'
      BY FlushesStay DEF SnapshotInv
    <2> QED
      BY <2>1, <2>2 DEF MineKept, Untold
  <1>3. CloseKept' /\ FlushedIsCheckpointed'
    BY DEF SnapshotInv, CloseKept, FlushedIsCheckpointed, Untold, Upheld, Saved
  <1> QED
    BY <1>1, <1>2, <1>3 DEF SnapshotInv

-------------------------------------------------------------------------------
(* The steps, one by one. *)

\* Nothing is queued, saved or promised at the start.
LEMMA InitSnapshot == Init => SnapshotInv
  <1> SUFFICES ASSUME Init PROVE SnapshotInv
    OBVIOUS
  <1>1. /\ events = <<>> /\ queue = <<>> /\ Len(queue) = 0 /\ Len(books) = 1
        /\ books[1] = Book(0, {}) /\ mine = {} /\ promised = {} /\ ~Inserted
        /\ closing.phase = "no"
    BY DEF Init, NotClosing, Inserted
  <1>2. Writes = {} /\ Pending = {} /\ Checks = {}
    BY <1>1 DEF Writes, Pending, Checks
  <1> QED
    BY <1>1, <1>2
       DEF SnapshotInv, TextsGrow, AfterPending, FlushKept, MineKept, CloseKept,
           FlushedIsCheckpointed, Waiting, Book, current

\* Timers leave the pending checkpoints alone.
LEMMA TimerKept ==
  ASSUME TypeInv, NEW b \in 1..Len(books),
         \/ books' = books
         \/ \E f \in BOOLEAN : books' = [books EXCEPT ![b].idleTimer = f]
  PROVE  SameBooks /\ FewerCheckpoints /\ FailuresStay /\ SamePending
  <1>1. SameBooks /\ FewerCheckpoints /\ FailuresStay
    BY BookKept
  <1>2. books \in Seq(BookType) /\ \A i \in 1..Len(books) : books[i] \in BookType
    BY DEF TypeInv, TypeOK
  <1>3. ASSUME books' = books PROVE SamePending
    BY <1>3 DEF SamePending
  <1>4. ASSUME NEW f \in BOOLEAN, books' = [books EXCEPT ![b].idleTimer = f]
        PROVE  SamePending
    BY <1>2, <1>4 DEF SamePending, BookType
  <1> QED
    BY <1>1, <1>3, <1>4

\* No step deletes a snapshot; one that keeps the pending checkpoints upholds them.
LEMMA PendingUpheld ==
  ASSUME TypeInv, FailuresStay, SamePending, snapshots \subseteq snapshots',
         Len(books) <= Len(books')
  PROVE  Upheld
  <1>1. Len(books) \in Nat
    BY DEF TypeInv, TypeOK
  <1>2. Saved \subseteq Saved'
    BY DEF Saved
  <1>3. \A b \in 1..Len(books) : \A s \in books[b].pendingCheckpoint :
            \E t \in books'[b].pendingCheckpoint : s.content \subseteq t.content
    BY DEF SamePending
  <1> QED
    BY <1>1, <1>2, <1>3 DEF Upheld

\* Steps that insert no event.
LEMMA NothingLogged == ASSUME UNCHANGED events PROVE LogsItsOwn
  BY DEF LogsItsOwn, Logged

\* The first job stays first when another one is chained.
LEMMA ChainedFirst ==
  ASSUME TypeInv, TypeInv', NEW job, Chained(job), queue # <<>>
  PROVE  queue' # <<>> /\ running' = running
  <1>1. 1 \in 1..Len(queue) /\ running = queue[1]
    BY Numbers
  <1>2. queue' # <<>> /\ running' = queue'[1]
    BY <1>1 DEF Chained, running, TypeInv, TypeOK
  <1> QED
    BY <1>1, <1>2 DEF Chained

\* A named version or a checkpoint joins the queue.
LEMMA ChainedSnapshot ==
  ASSUME KnownInv, KnownInv', SnapshotInv, NEW job \in JobType, NEW close, Enqueue(job, close),
         job.caller = "close" => close.phase # "check",
         close \in [phase : {"no", "flush", "check"}, barrier : BOOLEAN],
         UNCHANGED <<events, snapshots, step, view, mine, promised>>,
         SameBooks, FewerCheckpoints, FailuresStay, SamePending,
         \/ job.kind = "named" /\ OfScreen(job)
         \/ job.kind = "checkpoint" /\ job.content = {}
         \/ job.kind = "checkpoint" /\ job.content = mine /\ job.book = current
  PROVE  SnapshotInv'
  <1> USE DEF KnownInv, LogInv
  <1>1. Chained(job) /\ Inserted' = Inserted
    BY ChainedShape DEF Inserted
  <1>2. Joined(job)
    BY <1>1, ChainedSets
  <1>3. /\ \A c \in Checks' : c \in Checks \/ (c = job /\ job.kind = "checkpoint")
        /\ \A w \in Waiting' : w \in Waiting \/ (w = job /\ job.kind # "checkpoint")
        /\ \A p \in Pending' : p \in Pending \/ (p = job /\ job.kind = "append")
    BY <1>1, <1>2, ChainedChecks
  <1>4. NewChecks /\ Pending' \subseteq Pending
        /\ \A w \in Waiting' : w \in Waiting \/ OfScreen(w)
    BY <1>3 DEF NewChecks
  <1>5. Upheld
    BY PendingUpheld DEF FewerCheckpoints, TypeInv, TypeOK
  <1>6. Untold
    BY DEF Untold, Enqueue
  <1>7. AfterPending'
    <2>1. Inserted' => Inserted /\ queue # <<>> /\ running' = running
      BY <1>1, ChainedFirst DEF Ordered, InsertedOK
    <2> QED
      BY <2>1, AfterPendingStays DEF SnapshotInv
  <1> QED
    BY <1>4, <1>5, <1>6, <1>7, NothingLogged, Steady

\* A flush does.
LEMMA FlushSnapshot ==
  ASSUME KnownInv, KnownInv', SnapshotInv, NEW caller \in Callers, NEW close,
         close \in [phase : {"no", "flush", "check"}, barrier : BOOLEAN],
         caller = "close" => close.phase # "check", Flush(caller, close),
         UNCHANGED <<events, snapshots, step, view, mine, promised>>
  PROVE  SnapshotInv'
  <1>1. PICK job : job = CheckpointJob(caller, current, mine)
    OBVIOUS
  <1>2. mine \in SUBSET Nat
    BY DEF KnownInv, LogInv, TypeInv, TypeOK
  <1>3. /\ job \in JobType /\ job.kind = "checkpoint" /\ job.caller = caller
        /\ job.content = mine /\ job.book = current
    BY <1>1, <1>2, CheckpointJobView DEF KnownInv, CheckpointJob
  <1>4. SameBooks /\ FewerCheckpoints /\ FailuresStay /\ SamePending
    BY TimerKept, JobTypes DEF Flush, KnownInv, LogInv
  <1>5. Enqueue(job, close)
    BY <1>1 DEF Flush
  <1> QED
    BY <1>3, <1>4, <1>5, ChainedSnapshot

\* flushPersistence keeps the invariant,
LEMMA FlushPersistenceSnapshot ==
  ASSUME KnownInv, KnownInv', SnapshotInv, FlushPersistence PROVE SnapshotInv'
  <1>1. closing \in [phase : {"no", "flush", "check"}, barrier : BOOLEAN]
    BY DEF KnownInv, LogInv, TypeInv, TypeOK
  <1> QED
    BY <1>1, FlushSnapshot DEF FlushPersistence, dbVars, editVars, historyVars, Callers

\* so does the flush that a load begins with,
LEMMA StartLoadSnapshot ==
  ASSUME KnownInv, KnownInv', SnapshotInv, NEW d \in Drafts, StartLoad(d) PROVE SnapshotInv'
  <1>1. closing \in [phase : {"no", "flush", "check"}, barrier : BOOLEAN]
    BY DEF KnownInv, LogInv, TypeInv, TypeOK
  <1> QED
    BY <1>1, FlushSnapshot DEF StartLoad, dbVars, editVars, historyVars, Callers

\* those of the close handler,
LEMMA CloseFlushSnapshot ==
  ASSUME KnownInv, KnownInv', SnapshotInv, RequestClose \/ CloseAgain PROVE SnapshotInv'
  <1>1. PICK close : close = [closing EXCEPT !.phase = "flush"]
    OBVIOUS
  <1>2. close \in [phase : {"no", "flush", "check"}, barrier : BOOLEAN]
        /\ close.phase = "flush"
    BY <1>1 DEF KnownInv, LogInv, TypeInv, TypeOK
  <1>3. Flush("close", close)
        /\ UNCHANGED <<events, snapshots, step, view, mine, promised>>
    BY <1>1 DEF RequestClose, CloseAgain, dbVars, editVars, historyVars
  <1> QED
    BY <1>2, <1>3, FlushSnapshot DEF Callers

\* the idle timer's checkpoint,
LEMMA IdleCheckpointSnapshot ==
  ASSUME KnownInv, KnownInv', SnapshotInv, IdleCheckpoint PROVE SnapshotInv'
  <1>1. PICK job : job = CheckpointJob("idle", current, {})
    OBVIOUS
  <1>2. /\ job \in JobType /\ job.kind = "checkpoint" /\ job.caller = "idle"
        /\ job.content = {}
    BY <1>1, CheckpointJobView DEF Callers, KnownInv, CheckpointJob
  <1>3. SameBooks /\ FewerCheckpoints /\ FailuresStay /\ SamePending
    BY TimerKept, JobTypes DEF IdleCheckpoint, KnownInv, LogInv
  <1>4. /\ Enqueue(job, closing)
        /\ UNCHANGED <<events, snapshots, step, view, mine, promised>>
    BY <1>1 DEF IdleCheckpoint, dbVars, editVars, historyVars
  <1>5. closing \in [phase : {"no", "flush", "check"}, barrier : BOOLEAN]
    BY DEF KnownInv, LogInv, TypeInv, TypeOK
  <1> QED
    BY <1>2, <1>3, <1>4, <1>5, ChainedSnapshot

\* and a named version, which carries the text of the screen.
LEMMA NameVersionSnapshot ==
  ASSUME KnownInv, KnownInv', SnapshotInv, NameVersion PROVE SnapshotInv'
  <1>1. PICK job : job = NamedJob
    OBVIOUS
  <1>2. /\ job \in JobType /\ job.kind = "named" /\ job.caller = "idle" /\ OfScreen(job)
    BY <1>1, JobTypes DEF NameVersion, OfScreen, NamedJob, KnownInv, LogInv
  <1>3. SameBooks /\ FewerCheckpoints /\ FailuresStay /\ SamePending
    BY TimerKept, JobTypes DEF NameVersion, KnownInv, LogInv
  <1>4. /\ Enqueue(job, closing)
        /\ UNCHANGED <<events, snapshots, step, view, mine, promised>>
    BY <1>1 DEF NameVersion, dbVars, editVars, historyVars
  <1>5. closing \in [phase : {"no", "flush", "check"}, barrier : BOOLEAN]
    BY DEF KnownInv, LogInv, TypeInv, TypeOK
  <1> QED
    BY <1>2, <1>3, <1>4, <1>5, ChainedSnapshot

\* The queue is left alone, and nothing is logged.
LEMMA KeptSnapshot ==
  ASSUME KnownInv, KnownInv', SnapshotInv, UNCHANGED <<queue, events, view, mine, promised>>,
         Inserted' = Inserted, snapshots \subseteq snapshots',
         closing' = closing, books' = books
  PROVE  SnapshotInv'
  <1> USE DEF KnownInv, LogInv
  <1>1. SameBooks /\ FewerCheckpoints /\ FailuresStay /\ SamePending
    BY TimerKept, JobTypes
  <1>2. Upheld
    BY <1>1, PendingUpheld DEF FewerCheckpoints, TypeInv, TypeOK
  <1>3. Writes' = Writes /\ Pending' = Pending /\ Checks' = Checks
    BY KeptSets DEF Checks
  <1>4. Waiting' = Waiting
    BY <1>3 DEF Waiting
  <1>5. AfterPending'
    <2>1. Inserted' => Inserted /\ queue # <<>> /\ running' = running
      BY DEF Ordered, InsertedOK, running
    <2> QED
      BY <1>1, <2>1, AfterPendingStays DEF SnapshotInv
  <1> QED
    BY <1>1, <1>2, <1>3, <1>4, <1>5, NothingLogged, Steady DEF NewChecks, Untold

\* The snapshots around a destructive change only add to what is saved.
LEMMA SnapshotBeforeChangeSnapshot ==
  ASSUME KnownInv, KnownInv', SnapshotInv, NEW kept \in BOOLEAN, NEW guarded \in BOOLEAN,
         SnapshotBeforeChange(kept, guarded)
  PROVE  SnapshotInv'
  BY KeptSnapshot
     DEF SnapshotBeforeChange, InsertSnapshots, Inserted, editVars, historyVars

\* So does a recovery snapshot that settles late.
LEMMA RecoverySnapshotSettlesSnapshot ==
  ASSUME KnownInv, KnownInv', SnapshotInv, NEW s \in inflight, NEW saved \in BOOLEAN,
         RecoverySnapshotSettles(s, saved)
  PROVE  SnapshotInv'
  BY KeptSnapshot
     DEF RecoverySnapshotSettles, InsertSnapshots, Inserted, editVars, historyVars

\* Reading a draft, or giving a load up, touches nothing of this.
LEMMA ReadDraftSnapshot ==
  ASSUME KnownInv, KnownInv', SnapshotInv, NEW s, NEW replayed, ReadDraft(s, replayed)
  PROVE  SnapshotInv'
  BY KeptSnapshot DEF ReadDraft, Inserted, dbVars, editVars, historyVars

\* A load given up leaves queue and snapshots as they are.
LEMMA AbandonLoadSnapshot ==
  ASSUME KnownInv, KnownInv', SnapshotInv, AbandonLoad PROVE SnapshotInv'
  BY KeptSnapshot DEF AbandonLoad, Inserted, dbVars, editVars, historyVars

\* The running job leaves the queue, and nothing is logged.
LEMMA EndedSnapshot ==
  ASSUME KnownInv, KnownInv', SnapshotInv, queue # <<>>, Finish,
         running.kind # "append" \/ Inserted,
         UNCHANGED <<events, view>>, Upheld, FewerCheckpoints
  PROVE  /\ TextsGrow' /\ AfterPending' /\ FlushKept'
         /\ UNCHANGED mine => MineKept'
         /\ Untold => SnapshotInv'
  <1> USE DEF KnownInv, LogInv
  <1>1. Ended /\ ~Inserted'
    BY EndedShape DEF Inserted, Finish
  <1>2. Consumed
    BY <1>1, EndedSets
  <1>3. Checks' \subseteq Checks /\ Waiting' \subseteq Waiting /\ Pending' \subseteq Pending
    BY <1>1, <1>2, EndedChecks
  <1>4. TextsGrow'
    BY <1>3, TextsKeep DEF SnapshotInv
  <1>5. AfterPending'
    BY <1>1 DEF AfterPending
  <1>6. LogsItsOwn /\ NewChecks
    BY <1>3, NothingLogged DEF NewChecks
  <1>7. /\ FlushKept'
        /\ \A b : b = current => \A e \in mine : e \in Logged' => Secured(e, b)'
    BY <1>6, FlushesStay DEF SnapshotInv
  <1>8. UNCHANGED mine => MineKept'
    BY <1>7 DEF MineKept, FewerCheckpoints, current
  <1>9. Untold => SnapshotInv'
    BY <1>3, <1>5, <1>6, Steady
  <1> QED
    BY <1>4, <1>5, <1>7, <1>8, <1>9

\* It does when the pending checkpoints are kept,
LEMMA EndedUnwritten ==
  ASSUME KnownInv, KnownInv', SnapshotInv, queue # <<>>, Finish,
         running.kind # "append" \/ Inserted,
         UNCHANGED <<events, snapshots, view, books>>, Untold
  PROVE  SnapshotInv'
  <1>1. SameBooks /\ FewerCheckpoints /\ FailuresStay /\ SamePending
    BY TimerKept, JobTypes DEF KnownInv, LogInv
  <1>2. Upheld
    BY <1>1, PendingUpheld DEF FewerCheckpoints, KnownInv, LogInv, TypeInv, TypeOK
  <1> QED
    BY <1>1, <1>2, EndedSnapshot

\* and when one is dropped because a snapshot has been written.
LEMMA PendingWritten ==
  ASSUME KnownInv, queue # <<>>, snapshots \subseteq snapshots',
         NEW p \in SUBSET book.pendingCheckpoint,
         books' = [books EXCEPT ![running.book].pendingCheckpoint = p],
         \A s \in book.pendingCheckpoint : s \in p \/ s.content \subseteq Saved'
  PROVE  Upheld /\ FewerCheckpoints
  <1>1. running.book \in 1..Len(books) /\ TypeInv
    BY RunningType DEF KnownInv, LogInv
  <1>2. SameBooks /\ FewerCheckpoints /\ FailuresStay
    BY <1>1, BookKept DEF book
  <1>3. books \in Seq(BookType) /\ \A i \in 1..Len(books) : books[i] \in BookType
        /\ Len(books) \in Nat
    BY <1>1 DEF TypeInv, TypeOK
  <1>4. /\ books'[running.book].pendingCheckpoint = p
        /\ \A b \in 1..Len(books) : b # running.book => books'[b] = books[b]
    BY <1>1, <1>3 DEF BookType
  <1>5. Saved \subseteq Saved'
    BY DEF Saved
  <1>6. \A b \in 1..Len(books) : \A s \in books[b].pendingCheckpoint :
           \/ s.content \subseteq Saved'
           \/ \E t \in books'[b].pendingCheckpoint : s.content \subseteq t.content
    <2> SUFFICES ASSUME NEW b \in 1..Len(books), NEW s \in books[b].pendingCheckpoint
                 PROVE  \/ s.content \subseteq Saved'
                        \/ s \in books'[b].pendingCheckpoint
      OBVIOUS
    <2>1. CASE b = running.book
      BY <1>4, <2>1 DEF book
    <2>2. CASE b # running.book
      BY <1>4, <2>2
    <2> QED
      BY <2>1, <2>2
  <1> QED
    BY <1>2, <1>3, <1>5, <1>6 DEF Upheld, FewerCheckpoints

\* The pending checkpoint of the running text's bookkeeping is part of that text.
LEMMA PendingInText ==
  ASSUME KnownInv, SnapshotInv, queue # <<>>, running.kind \in {"append", "named"}, ~Inserted
  PROVE  /\ running \in Waiting
         /\ \A s \in book.pendingCheckpoint : s.content \subseteq running.content
  <1>1. running \in Waiting
    <2>1. running \in Writes /\ (running.kind = "append" => running \in Pending)
      BY RunningFirst DEF KnownInv, LogInv
    <2> QED
      BY <2>1 DEF Waiting
  <1> QED
    BY <1>1 DEF SnapshotInv, TextsGrow, book

\* What is in a new snapshot is saved.
LEMMA NewlySaved ==
  ASSUME NEW S, InsertSnapshots(S)
  PROVE  snapshots \subseteq snapshots' /\ \A s \in S : s.content \subseteq Saved'
  BY DEF InsertSnapshots, Saved

\* The snapshot after a change is the pending checkpoint itself.
LEMMA SnapshotAfterChangeSnapshot ==
  ASSUME KnownInv, KnownInv', SnapshotInv, NEW saved \in BOOLEAN, SnapshotAfterChange(saved)
  PROVE  SnapshotInv'
  <1>1. /\ queue # <<>> /\ Finish /\ Inserted /\ UNCHANGED <<events, view>> /\ Untold
    BY DEF SnapshotAfterChange, Running, Inserted, Untold, editVars, historyVars
  <1>2. CASE ~saved
    BY <1>1, <1>2, EndedUnwritten DEF SnapshotAfterChange, InsertSnapshots
  <1>3. CASE saved
    <2>1. PICK n, p : n = book.lastEventId
                      /\ p = Uncleared(book.pendingCheckpoint, running.draft, n)
      OBVIOUS
    <2>2. p \in SUBSET book.pendingCheckpoint
      BY <2>1 DEF Uncleared
    <2>3. InsertSnapshots({AfterChange(n)})
          /\ books' = [books EXCEPT ![running.book].pendingCheckpoint = p]
      BY <1>3, <2>1 DEF SnapshotAfterChange, book
    <2>4. \A s \in book.pendingCheckpoint : s = AfterChange(n)
      BY <1>1, <2>1 DEF SnapshotInv, AfterPending
    <2>5. snapshots \subseteq snapshots'
          /\ \A s \in {AfterChange(n)} : s.content \subseteq Saved'
      BY <2>3, NewlySaved
    <2>6. \A s \in book.pendingCheckpoint : s \in p \/ s.content \subseteq Saved'
      BY <2>4, <2>5
    <2>7. Upheld /\ FewerCheckpoints
      BY <1>1, <2>2, <2>3, <2>5, <2>6, PendingWritten
    <2> QED
      BY <1>1, <2>7, EndedSnapshot
  <1> QED
    BY <1>2, <1>3

\* A named version that is refused writes nothing and drops nothing.
LEMMA NamedVersionRefusedSnapshot ==
  ASSUME KnownInv, KnownInv', SnapshotInv, NamedVersionRefused PROVE SnapshotInv'
  BY EndedUnwritten DEF NamedVersionRefused, Running, Untold, dbVars, editVars, historyVars

\* A named version that is saved holds the pending checkpoint it may drop.
LEMMA NamedVersionSavedSnapshot ==
  ASSUME KnownInv, KnownInv', SnapshotInv, NamedVersionSaved PROVE SnapshotInv'
  <1>1. /\ queue # <<>> /\ Finish /\ running.kind = "named"
        /\ UNCHANGED <<events, view>> /\ Untold
    BY DEF NamedVersionSaved, Running, Untold, editVars, historyVars
  <1>2. ~Inserted
    BY <1>1 DEF KnownInv, LogInv, Ordered, InsertedOK
  <1>3. PICK n, p, s : /\ n = book.lastEventId
                       /\ p = Uncleared(book.pendingCheckpoint, running.draft, n)
                       /\ s = SnapshotOf(running.draft, n, running.content)
    OBVIOUS
  <1>4. p \in SUBSET book.pendingCheckpoint /\ s.content = running.content
    BY <1>3 DEF Uncleared, SnapshotOf
  <1>5. InsertSnapshots({s})
        /\ books' = [books EXCEPT ![running.book].pendingCheckpoint = p]
    BY <1>3 DEF NamedVersionSaved, book
  <1>6. snapshots \subseteq snapshots' /\ \A t \in {s} : t.content \subseteq Saved'
    BY <1>5, NewlySaved
  <1>7. \A t \in book.pendingCheckpoint : t.content \subseteq Saved'
    BY <1>1, <1>2, <1>4, <1>6, PendingInText
  <1>8. Upheld /\ FewerCheckpoints
    BY <1>1, <1>4, <1>5, <1>6, <1>7, PendingWritten
  <1> QED
    BY <1>1, <1>8, EndedSnapshot

\* A checkpoint that fails promises nothing.
LEMMA CheckpointFailsSnapshot ==
  ASSUME KnownInv, KnownInv', SnapshotInv, CheckpointFails PROVE SnapshotInv'
  <1>1. closing' = closing \/ closing'.phase # "check"
    BY DEF CheckpointFails, Reject, NotClosing
  <1> QED
    BY <1>1, EndedUnwritten DEF CheckpointFails, Running, Untold, Reject, dbVars, editVars

\* The close handler's own flush is the last job and covers every edit.
LEMMA CloseCovers ==
  ASSUME KnownInv, queue # <<>>, running.caller = "close", closing.barrier
  PROVE  mine \subseteq running.content
  <1>1. 1 \in 1..Len(queue) /\ queue[1] = running /\ Len(queue) \in 1..Len(queue)
    BY Numbers DEF KnownInv, LogInv
  <1>2. closing.phase = "flush" /\ \A j \in 1..Len(queue) : queue[j].caller = "close" => 1 = j
    BY <1>1 DEF KnownInv, DurableInv, CloseWaits
  <1>3. /\ queue[Len(queue)].caller = "close"
        /\ mine \subseteq queue[Len(queue)].content
    BY <1>2 DEF KnownInv, DurableInv, CloseWaits
  <1> QED
    BY <1>1, <1>2, <1>3

\* A checkpoint that succeeds has saved what it answers for: all of it was
\* logged, and what no snapshot had was in the pending checkpoint.
LEMMA CheckpointSucceedsSnapshot ==
  ASSUME KnownInv, KnownInv', SnapshotInv, CheckpointSucceeds PROVE SnapshotInv'
  <1>1. /\ queue # <<>> /\ Finish /\ running.kind = "checkpoint" /\ ~book.failure
        /\ UNCHANGED <<events, view, mine>>
        /\ InsertSnapshots(book.pendingCheckpoint)
        /\ books' = [books EXCEPT ![running.book].pendingCheckpoint = {}]
    BY DEF CheckpointSucceeds, Running, editVars
  <1>2. /\ promised' = promised \union running.content
        /\ closing' = IF running.caller = "close"
                      THEN [closing EXCEPT !.phase = "check"] ELSE closing
    BY DEF CheckpointSucceeds, Resolve
  <1>3. PICK pending : pending = book.pendingCheckpoint
    OBVIOUS
  <1>4. snapshots \subseteq snapshots'
        /\ \A s \in book.pendingCheckpoint : s.content \subseteq Saved'
    <2>1. InsertSnapshots(pending)
      BY <1>1, <1>3
    <2>2. snapshots \subseteq snapshots' /\ \A s \in pending : s.content \subseteq Saved'
      BY <2>1, NewlySaved
    <2> QED
      BY <1>3, <2>2
  <1>5. Upheld /\ FewerCheckpoints
    <2>1. PICK none \in SUBSET book.pendingCheckpoint : none = {}
      OBVIOUS
    <2>2. books' = [books EXCEPT ![running.book].pendingCheckpoint = none]
          /\ \A s \in book.pendingCheckpoint : s \in none \/ s.content \subseteq Saved'
      BY <1>1, <1>4, <2>1
    <2> QED
      BY <1>1, <1>4, <2>2, PendingWritten
  <1>6. TextsGrow' /\ AfterPending' /\ FlushKept' /\ MineKept'
    BY <1>1, <1>5, EndedSnapshot
  <1>7. running.content \subseteq Saved'
    <2>1. running.content \subseteq Logged
      BY <1>1, CheckpointContent DEF KnownInv
    <2>2. running \in Checks
      BY <1>1, Numbers DEF Checks, KnownInv, LogInv
    <2>3. \A e \in running.content : Secured(e, running.book)
      BY <2>1, <2>2 DEF SnapshotInv, FlushKept
    <2> QED
      BY <1>1, <1>4, <1>5, <2>3 DEF Secured, Upheld, book
  <1>8. CloseKept'
    <2>1. CASE running.caller = "close"
      <3>1. closing'.barrier = closing.barrier
        BY <1>2, <2>1 DEF KnownInv, LogInv, TypeInv, TypeOK
      <3> QED
        BY <1>1, <1>7, <2>1, <3>1, CloseCovers DEF CloseKept
    <2>2. CASE running.caller # "close"
      BY <1>1, <1>2, <1>5, <2>2 DEF SnapshotInv, CloseKept, Upheld
    <2> QED
      BY <2>1, <2>2
  <1>9. FlushedIsCheckpointed'
    BY <1>2, <1>5, <1>7 DEF SnapshotInv, FlushedIsCheckpointed, Upheld, Saved
  <1> QED
    BY <1>6, <1>8, <1>9 DEF SnapshotInv


\* A new edit: its append joins the queue with the text of the screen.
LEMMA AcceptEditSnapshot ==
  ASSUME KnownInv, KnownInv', SnapshotInv, AcceptEdit PROVE SnapshotInv'
  <1> USE DEF KnownInv, LogInv
  <1>1. PICK job, e : job = AppendJob /\ e = nextEdit
    OBVIOUS
  <1>2. /\ job \in JobType /\ job.kind = "append" /\ job.caller = "idle"
        /\ OfScreen(job) /\ job.edit = e /\ e \in Nat
    BY <1>1, JobTypes, Numbers DEF AcceptEdit, OfScreen, AppendJob
  <1>3. SameBooks /\ FewerCheckpoints /\ FailuresStay /\ SamePending
    BY TimerKept, JobTypes DEF AcceptEdit
  <1>4. /\ Enqueue(job, closing) /\ mine' = mine \union {e}
        /\ view'.content = view.content \union {e}
        /\ UNCHANGED <<events, snapshots, step, promised>>
    BY <1>1 DEF AcceptEdit, dbVars, historyVars, TypeInv, TypeOK
  <1>5. Chained(job) /\ Inserted' = Inserted
    BY <1>2, <1>4, ChainedShape DEF Inserted
  <1>6. Joined(job)
    BY <1>5, ChainedSets
  <1>7. /\ \A c \in Checks' : c \in Checks \/ (c = job /\ job.kind = "checkpoint")
        /\ \A w \in Waiting' : w \in Waiting \/ (w = job /\ job.kind # "checkpoint")
        /\ \A p \in Pending' : p \in Pending \/ (p = job /\ job.kind = "append")
    BY <1>5, <1>6, ChainedChecks
  <1>8. Upheld
    BY <1>3, <1>4, PendingUpheld DEF FewerCheckpoints, TypeInv, TypeOK
  <1>9. current' = current /\ current \in 1..Len(books)
    BY <1>3, JobTypes DEF FewerCheckpoints, current
  <1>10. TextsGrow'
    <2>1. ASSUME NEW w \in Waiting', NEW s \in books'[w.book].pendingCheckpoint
          PROVE  s.content \subseteq w.content
      <3>1. CASE w \in Waiting
        BY <1>3, <2>1, <3>1, WaitingView DEF SnapshotInv, TextsGrow, FewerCheckpoints
      <3>2. CASE w = job
        BY <1>2, <1>3, <1>9, <2>1, <3>2
           DEF SnapshotInv, TextsGrow, FewerCheckpoints, OfScreen
      <3> QED
        BY <1>7, <3>1, <3>2
    <2>2. ASSUME NEW s \in books'[current].pendingCheckpoint
          PROVE  s.content \subseteq view'.content
      BY <1>3, <1>4, <1>9, <2>2 DEF SnapshotInv, TextsGrow, FewerCheckpoints
    <2>3. ASSUME NEW p \in Pending', NEW w \in Waiting', p.book = w.book, p.edit < w.edit
          PROVE  p.content \union {p.edit} \subseteq w.content
      <3>1. CASE p = job
        <4>1. w.edit \in Nat /\ w.edit <= e
          BY <1>1, <1>2, <1>7, WaitingView
        <4> QED
          BY <1>2, <2>3, <3>1, <4>1
      <3>2. CASE p \in Pending /\ w \in Waiting
        BY <2>3, <3>2 DEF SnapshotInv, TextsGrow
      <3>3. CASE p \in Pending /\ w = job
        BY <1>2, <2>3, <3>3 DEF SnapshotInv, TextsGrow, OfScreen
      <3> QED
        BY <1>7, <3>1, <3>2, <3>3
    <2>4. ASSUME NEW p \in Pending', p.book = current
          PROVE  p.content \union {p.edit} \subseteq view'.content
      <3>1. CASE p = job
        BY <1>2, <1>4, <3>1 DEF OfScreen
      <3>2. CASE p \in Pending
        BY <1>4, <2>4, <3>2 DEF SnapshotInv, TextsGrow
      <3> QED
        BY <1>7, <3>1, <3>2
    <2> QED
      BY <1>9, <2>1, <2>2, <2>3, <2>4 DEF TextsGrow
  <1>11. AfterPending'
    <2>1. Inserted' => Inserted /\ queue # <<>> /\ running' = running
      BY <1>5, ChainedFirst DEF Ordered, InsertedOK
    <2> QED
      BY <1>3, <2>1, AfterPendingStays DEF SnapshotInv
  <1>12. /\ FlushKept'
         /\ \A b : b = current => \A f \in mine : f \in Logged' => Secured(f, b)'
    <2>1. NewChecks
      BY <1>2, <1>7 DEF NewChecks
    <2> QED
      BY <1>4, <1>8, <2>1, NothingLogged, FlushesStay DEF SnapshotInv
  <1>13. MineKept'
    <2>1. e \notin Logged'
      BY <1>1, <1>2, <1>4, LoggedView DEF Logged
    <2> QED
      BY <1>4, <1>9, <1>12, <2>1 DEF MineKept
  <1>14. CloseKept' /\ FlushedIsCheckpointed'
    BY <1>2, <1>4
       DEF SnapshotInv, CloseKept, FlushedIsCheckpointed, Enqueue, TypeInv, TypeOK
  <1> QED
    BY <1>10, <1>11, <1>12, <1>13, <1>14 DEF SnapshotInv

\* An append ends under a failure: its bookkeeping writes no checkpoint any more.
LEMMA FailedAppendSnapshot ==
  ASSUME KnownInv, KnownInv', SnapshotInv, queue # <<>>, Finish, running.kind = "append",
         ~Inserted, OtherBooks, books'[running.book].failure,
         books'[running.book].pendingCheckpoint = book.pendingCheckpoint,
         Logged' \subseteq Logged \union {running.edit},
         UNCHANGED <<snapshots, view, mine, promised, closing>>
  PROVE  SnapshotInv'
  <1> USE DEF KnownInv, LogInv
  <1>1. Ended /\ ~Inserted'
    BY EndedShape DEF Inserted, Finish
  <1>2. Consumed
    BY <1>1, EndedSets
  <1>3. Checks' \subseteq Checks /\ Waiting' \subseteq Waiting /\ Pending' \subseteq Pending
    BY <1>1, <1>2, EndedChecks
  <1>4. SamePending /\ FewerCheckpoints /\ FailuresStay
    BY DEF OtherBooks, SamePending, FewerCheckpoints, book
  <1>5. Upheld
    BY <1>4, PendingUpheld DEF FewerCheckpoints, TypeInv, TypeOK
  <1>6. LogsItsOwn
    <2> SUFFICES ASSUME NEW e \in Logged', e \notin Logged
                 PROVE  e = running.edit /\ \E b : b = running.book /\ Secured(e, b)'
      BY DEF LogsItsOwn
    <2>1. PICK b : b = running.book
      OBVIOUS
    <2>2. Secured(e, b)'
      BY <2>1 DEF Secured
    <2> QED
      BY <2>1, <2>2
  <1>7. NewChecks /\ Untold /\ AfterPending'
    BY <1>1, <1>3 DEF NewChecks, Untold, AfterPending
  <1> QED
    BY <1>3, <1>4, <1>5, <1>6, <1>7, Steady

\* The log has the running append's edit and the rest of it.
LEMMA WroteLogged == ASSUME Wrote PROVE Logged' \subseteq Logged \union {running.edit}
  <1>1. \A i \in 1..Len(events') : \/ i \in 1..Len(events) /\ events'[i] = events[i]
                                   \/ events'[i].edit = running.edit
    BY DEF Wrote, Written, Extended
  <1> QED
    BY <1>1 DEF Logged

\* An append succeeds: its text becomes the pending checkpoint.
LEMMA AppendSucceedsSnapshot ==
  ASSUME KnownInv, KnownInv', SnapshotInv, AppendSucceeds PROVE SnapshotInv'
  <1> USE DEF KnownInv, LogInv
  <1>1. PICK n : n = Len(events) + 1
    OBVIOUS
  <1>2. /\ queue # <<>> /\ running.kind = "append" /\ ~Inserted /\ n \in Nat
        /\ InsertEvent(running.draft, running.edit, running.content)
        /\ UNCHANGED <<snapshots, view, mine, promised, closing, lost>>
    BY <1>1, Numbers DEF AppendSucceeds, Running, Inserted, editVars, historyVars
  <1>3. Logged' \subseteq Logged \union {running.edit}
    BY <1>2, WrittenShape, WroteLogged DEF Wrote
  <1>4. CASE book.failure
    <2>1. Finish /\ books' = [books EXCEPT ![running.book].lastEventId = n]
      BY <1>1, <1>4 DEF AppendSucceeds
    <2>2. /\ OtherBooks /\ books'[running.book].failure
          /\ books'[running.book].pendingCheckpoint = book.pendingCheckpoint
      BY <1>2, <1>4, <2>1, AppendBooks
    <2> QED
      BY <1>2, <1>3, <2>1, <2>2, FailedAppendSnapshot
  <1>5. CASE ~book.failure
    <2>1. PICK r, after : r = running /\ after = AfterChange(n)
      OBVIOUS
    <2>2. after.content = r.content \union {r.edit} /\ after \in SnapshotType
      <3>1. running \in JobType /\ running.draft \in Drafts
        BY <1>2, RunningType
      <3> QED
        BY <1>2, <2>1, <3>1 DEF AfterChange, SnapshotOf, SnapshotType, JobType
    <2>3. /\ books' = [books EXCEPT ![running.book].lastEventId = n,
                                    ![running.book].pendingCheckpoint = {after}]
          /\ UNCHANGED queue /\ Inserted' /\ running' = running
      BY <1>1, <1>5, <2>1 DEF AppendSucceeds, Inserted, running
    <2>4. /\ OtherBooks /\ books'[r.book].lastEventId = n
          /\ books'[r.book].pendingCheckpoint = {after}
      <3>1. {after} \in SUBSET SnapshotType
        BY <2>2
      <3> QED
        BY <1>2, <2>1, <2>3, <3>1, AppendBooks
    <2>5. Consumed /\ UNCHANGED Checks /\ Waiting' \subseteq Waiting
          /\ Pending' \subseteq Pending
      BY <1>2, <2>3, InsertedSets DEF Checks, Waiting, Consumed
    <2>6. /\ r \in Waiting /\ r \in Pending
          /\ \A s \in book.pendingCheckpoint : s.content \subseteq r.content
      BY <1>2, <2>1, PendingInText, RunningFirst
    <2>7. Upheld
      <3>1. \A b \in 1..Len(books) : \A s \in books[b].pendingCheckpoint :
                \E t \in books'[b].pendingCheckpoint : s.content \subseteq t.content
        <4> SUFFICES ASSUME NEW b \in 1..Len(books), NEW s \in books[b].pendingCheckpoint
                     PROVE  \E t \in books'[b].pendingCheckpoint : s.content \subseteq t.content
          OBVIOUS
        <4>1. CASE b = r.book
          <5>1. s.content \subseteq after.content
            BY <2>1, <2>2, <2>6, <4>1 DEF book
          <5> QED
            BY <2>4, <4>1, <5>1
        <4>2. CASE b # r.book
          BY <2>1, <2>4, <4>2 DEF OtherBooks
        <4> QED
          BY <4>1, <4>2
      <3>2. Len(books) \in Nat
        BY DEF TypeInv, TypeOK
      <3> QED
        BY <1>2, <2>4, <3>1, <3>2 DEF Upheld, OtherBooks, Saved
    <2>8. LogsItsOwn
      <3> SUFFICES ASSUME NEW e \in Logged', e \notin Logged
                   PROVE  e = running.edit /\ \E b : b = running.book /\ Secured(e, b)'
        BY <1>2 DEF LogsItsOwn
      <3>1. PICK b : b = running.book
        OBVIOUS
      <3>2. e = running.edit
        BY <1>3
      <3>3. Secured(e, b)'
        BY <2>1, <2>2, <2>4, <3>1, <3>2 DEF Secured
      <3> QED
        BY <3>1, <3>2, <3>3
    <2>9. FlushKept' /\ MineKept'
      <3>1. NewChecks /\ current' = current
        BY <2>4, <2>5 DEF NewChecks, OtherBooks, current
      <3>2. /\ FlushKept'
            /\ \A b : b = current => \A e \in mine : e \in Logged' => Secured(e, b)'
        BY <2>7, <2>8, <3>1, FlushesStay DEF SnapshotInv
      <3> QED
        BY <1>2, <3>1, <3>2 DEF MineKept
    <2>10. AfterPending'
      <3>1. book' = books'[r.book]
        BY <2>1, <2>3 DEF book
      <3>2. AfterChange(book.lastEventId)' = after
        BY <2>1, <2>3, <2>4, <3>1 DEF AfterChange
      <3> QED
        BY <2>4, <3>1, <3>2 DEF AfterPending
    <2>11. TextsGrow'
      <3>1. ASSUME NEW w \in Waiting', NEW s \in books'[w.book].pendingCheckpoint
            PROVE  s.content \subseteq w.content
        <4>1. CASE w.book = r.book
          <5>1. r.edit < w.edit
            BY <1>2, <2>1, <2>3, InsertedOlder
          <5> QED
            BY <2>2, <2>4, <2>5, <2>6, <3>1, <4>1, <5>1 DEF SnapshotInv, TextsGrow
        <4>2. CASE w.book # r.book
          BY <2>1, <2>4, <2>5, <3>1, <4>2, WaitingView
             DEF SnapshotInv, TextsGrow, OtherBooks
        <4> QED
          BY <4>1, <4>2
      <3>2. current' = current /\ current \in 1..Len(books)
        BY <2>4, JobTypes DEF OtherBooks, current
      <3>3. ASSUME NEW s \in books'[current].pendingCheckpoint
            PROVE  s.content \subseteq view.content
        <4>1. CASE current = r.book
          BY <2>2, <2>4, <2>6, <3>3, <4>1 DEF SnapshotInv, TextsGrow
        <4>2. CASE current # r.book
          BY <2>1, <2>4, <3>2, <3>3, <4>2 DEF SnapshotInv, TextsGrow, OtherBooks
        <4> QED
          BY <4>1, <4>2
      <3>4. /\ \A p \in Pending', w \in Waiting' : p.book = w.book /\ p.edit < w.edit =>
                   p.content \union {p.edit} \subseteq w.content
            /\ \A p \in Pending' : p.book = current =>
                   p.content \union {p.edit} \subseteq view.content
        BY <2>5 DEF SnapshotInv, TextsGrow
      <3> QED
        BY <1>2, <3>1, <3>2, <3>3, <3>4 DEF TextsGrow
    <2>12. CloseKept' /\ FlushedIsCheckpointed'
      BY <1>2 DEF SnapshotInv, CloseKept, FlushedIsCheckpointed, Saved
    <2> QED
      BY <2>9, <2>10, <2>11, <2>12 DEF SnapshotInv
  <1> QED
    BY <1>4, <1>5

\* An append fails, whether or not its event is in the log.
LEMMA AppendFailsSnapshot ==
  ASSUME KnownInv, KnownInv', SnapshotInv, NEW inserted \in BOOLEAN, AppendFails(inserted)
  PROVE  SnapshotInv'
  <1> USE DEF KnownInv, LogInv
  <1>1. /\ queue # <<>> /\ running.kind = "append" /\ ~Inserted /\ Finish
        /\ UNCHANGED <<snapshots, view, mine, promised, closing>>
        /\ books' = [books EXCEPT ![running.book].failure = TRUE]
    BY DEF AppendFails, Running, Inserted, editVars
  <1>2. /\ OtherBooks /\ books'[running.book].failure
        /\ books'[running.book].pendingCheckpoint = book.pendingCheckpoint
    BY <1>1, AppendBooks
  <1>3. Logged' \subseteq Logged \union {running.edit}
    <2>1. CASE inserted
      BY <1>1, <2>1, WrittenShape, WroteLogged DEF AppendFails, Wrote
    <2>2. CASE ~inserted
      BY <2>2 DEF AppendFails, Logged
    <2> QED
      BY <2>1, <2>2
  <1> QED
    BY <1>1, <1>2, <1>3, FailedAppendSnapshot

\* A loaded draft is shown: the new bookkeeping starts with the text on screen.
LEMMA CommitLoadSnapshot ==
  ASSUME KnownInv, KnownInv', SnapshotInv, CommitLoad PROVE SnapshotInv'
  <1> USE DEF KnownInv, LogInv
  <1>1. PICK recovered, new :
            /\ recovered = IF load.recovered
                           THEN {SnapshotOf(load.draft, load.latestEventId, load.content)}
                           ELSE {}
            /\ new = Book(load.latestEventId, recovered)
    OBVIOUS
  <1>2. /\ load.phase = "commit" /\ view'.content = load.content /\ mine' = {}
        /\ UNCHANGED <<events, snapshots, step, promised>> /\ Inserted' = Inserted
        /\ books' = Append([books EXCEPT ![current].idleTimer = FALSE], new)
    BY <1>1 DEF CommitLoad, dbVars, historyVars, Inserted
  <1>3. recovered \in SUBSET SnapshotType /\ new \in BookType
        /\ new.pendingCheckpoint = recovered
        /\ \A s \in recovered : s.content = view'.content
    BY <1>1, <1>2 DEF TypeInv, TypeOK, SnapshotOf, SnapshotType, Book, BookType
  <1>4. /\ Len(books') = Len(books) + 1 /\ books'[Len(books) + 1] = new
        /\ SameBooks /\ FailuresStay /\ SamePending
    BY <1>2, <1>3, CommitBooks DEF SamePending
  <1>5. Len(books) \in Nat /\ current' = Len(books) + 1
    BY <1>4 DEF TypeInv, TypeOK, current
  <1>6. Upheld
    BY <1>2, <1>4, <1>5, PendingUpheld
  <1>7. /\ \A c \in Checks' : c \in Checks \/ c.content = {}
        /\ Waiting' \subseteq Waiting /\ Pending' \subseteq Pending
        /\ Inserted' => Inserted /\ queue # <<>> /\ running' = running
    <2>1. CASE load.recovered
      <3>1. PICK job : job = CheckpointJob("flush", current + 1, {})
        OBVIOUS
      <3>2. job \in JobType /\ job.kind = "checkpoint" /\ job.content = {}
        <4>1. current + 1 \in Nat \ {0} /\ {} \in SUBSET Nat
          BY <1>5 DEF current
        <4> QED
          BY <3>1, <4>1, JobTypes DEF CheckpointJob, Callers
      <3>3. Enqueue(job, closing)
        BY <2>1, <3>1 DEF CommitLoad
      <3>4. Chained(job)
        BY <3>2, <3>3, ChainedShape
      <3>5. Joined(job)
        BY <1>2, <3>4, ChainedSets
      <3>6. /\ \A c \in Checks' : c \in Checks \/ (c = job /\ job.kind = "checkpoint")
            /\ \A w \in Waiting' : w \in Waiting \/ (w = job /\ job.kind # "checkpoint")
            /\ \A p \in Pending' : p \in Pending \/ (p = job /\ job.kind = "append")
        BY <3>4, <3>5, ChainedChecks
      <3>7. Inserted' => Inserted /\ queue # <<>> /\ running' = running
        BY <1>2, <3>4, ChainedFirst DEF Ordered, InsertedOK
      <3> QED
        BY <3>2, <3>6, <3>7
    <2>2. CASE ~load.recovered
      <3>1. UNCHANGED queue
        BY <2>2 DEF CommitLoad
      <3>2. Writes' = Writes /\ Pending' = Pending /\ Checks' = Checks
        BY <1>2, <3>1, KeptSets DEF Checks
      <3>3. Inserted' => Inserted /\ queue # <<>> /\ running' = running
        BY <1>2, <3>1 DEF Ordered, InsertedOK, running
      <3> QED
        BY <3>2, <3>3 DEF Waiting
    <2> QED
      BY <2>1, <2>2
  <1>8. FlushKept'
    <2>1. NewChecks
      BY <1>7 DEF NewChecks
    <2> QED
      BY <1>2, <1>6, <2>1, NothingLogged, FlushesStay DEF SnapshotInv
  <1>9. TextsGrow'
    <2>1. ASSUME NEW w \in Waiting
          PROVE  w.book \in 1..Len(books) /\ w.book # Len(books) + 1
      BY <1>5, <2>1, WaitingView
    <2>2. \A w \in Waiting' : \A s \in books'[w.book].pendingCheckpoint :
              s.content \subseteq w.content
      BY <1>4, <1>7, <2>1 DEF SnapshotInv, TextsGrow, SamePending
    <2>3. \A s \in books'[Len(books) + 1].pendingCheckpoint : s.content \subseteq view'.content
      BY <1>3, <1>4
    <2>4. \A p \in Pending', w \in Waiting' : p.book = w.book /\ p.edit < w.edit =>
              p.content \union {p.edit} \subseteq w.content
      BY <1>7 DEF SnapshotInv, TextsGrow
    <2>5. \A p \in Pending' : p.book # Len(books) + 1
      <3>1. \A p \in Pending : p \in Waiting
        BY PendingView DEF Waiting
      <3> QED
        BY <1>7, <2>1, <3>1
    <2> QED
      BY <1>5, <2>2, <2>3, <2>4, <2>5 DEF TextsGrow
  <1>10. AfterPending'
    BY <1>4, <1>7, AfterPendingStays DEF SnapshotInv
  <1>11. MineKept' /\ CloseKept' /\ FlushedIsCheckpointed'
    BY <1>2 DEF SnapshotInv, MineKept, CloseKept, FlushedIsCheckpointed, Saved
  <1> QED
    BY <1>8, <1>9, <1>10, <1>11 DEF SnapshotInv

\* The process ends: nothing waits any more.
LEMMA RestartSnapshot ==
  ASSUME Restart, promised' \subseteq Saved PROVE SnapshotInv'
  <1>1. /\ UNCHANGED snapshots /\ Len(queue') = 0 /\ ~Inserted' /\ mine' = {}
        /\ Len(books') = 1 /\ books'[1].pendingCheckpoint = {} /\ closing'.phase = "no"
    BY DEF Restart, Inserted, NotClosing, Book, dbVars
  <1>2. Writes' = {} /\ Pending' = {} /\ Checks' = {}
    BY <1>1 DEF Writes, Pending, Checks
  <1> QED
    BY <1>1, <1>2
       DEF SnapshotInv, TextsGrow, AfterPending, FlushKept, MineKept, CloseKept,
           FlushedIsCheckpointed, Waiting, Saved, current

\* Every step preserves the invariant.
LEMMA NextSnapshot == KnownInv /\ KnownInv' /\ SnapshotInv /\ [Next]_vars => SnapshotInv'
  <1> SUFFICES ASSUME KnownInv, KnownInv', SnapshotInv, [Next]_vars PROVE SnapshotInv'
    OBVIOUS
  <1>1. CASE QueueStep
    BY <1>1, SnapshotBeforeChangeSnapshot, AppendSucceedsSnapshot, AppendFailsSnapshot,
       SnapshotAfterChangeSnapshot, NamedVersionRefusedSnapshot, NamedVersionSavedSnapshot,
       CheckpointSucceedsSnapshot, CheckpointFailsSnapshot DEF QueueStep
  <1>2. CASE LoaderStep
    BY <1>2, ReadDraftSnapshot, CommitLoadSnapshot, AbandonLoadSnapshot DEF LoaderStep
  <1>3. CASE CloseWindow
    BY <1>3, RestartSnapshot
       DEF CloseWindow, SnapshotInv, CloseKept, FlushedIsCheckpointed, Saved
  <1>4. CASE Crash
    BY <1>4, RestartSnapshot DEF Crash, SnapshotInv, FlushedIsCheckpointed, Saved
  <1>5. CASE UNCHANGED vars
    BY <1>5, KeptSnapshot DEF vars, Inserted
  <1> QED
    BY <1>1, <1>2, <1>3, <1>4, <1>5, AcceptEditSnapshot, RecoverySnapshotSettlesSnapshot,
       NameVersionSnapshot, IdleCheckpointSnapshot, FlushPersistenceSnapshot,
       StartLoadSnapshot, CloseFlushSnapshot DEF Next

-------------------------------------------------------------------------------

\* A flush that resolves, and a window that closes, leave every edit accepted
\* before in some snapshot: the pending checkpoint of a bookkeeping holds all
\* that was logged under it and is in no snapshot yet, whatever edits, named
\* versions, loads and failures fell between.
THEOREM FlushedCheckpointed == Spec => []FlushedIsCheckpointed
  <1>1. Init => KnownInv
    BY InitLog, InitDurable DEF KnownInv
  <1>2. KnownInv /\ [Next]_vars => KnownInv'
    BY NextLog, NextDurable DEF KnownInv
  <1>3. SnapshotInv => FlushedIsCheckpointed
    BY DEF SnapshotInv
  <1> QED
    BY <1>1, <1>2, <1>3, InitSnapshot, NextSnapshot, PTL DEF Spec
===============================================================================
