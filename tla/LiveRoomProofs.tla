--------------------------- MODULE LiveRoomProofs ---------------------------
(***************************************************************************)
(* Theorems about LiveRoom, for every set of joiners and all bounds.       *)
(***************************************************************************)
EXTENDS LiveRoom, SequenceTheorems, TLAPS

-----------------------------------------------------------------------------
(* The inductive invariant. *)

\* The messages of a queue, and what they say together.
Said(q) == {q[k] : k \in DOMAIN q}
Within(a, b) == a.ins \subseteq b.ins /\ a.del \subseteq b.del
All(q) == [ins |-> {x \in Items : \E m \in Said(q) : x \in m.doc.ins},
           del |-> {x \in Items : \E m \in Said(q) : x \in m.doc.del}]

Connection == [who : Clients, used : BOOLEAN, alive : BOOLEAN, held : BOOLEAN,
               closing : BOOLEAN, up : Seq(Messages), down : Seq(Messages)]

Shape ==
  /\ phase \in [Clients -> {"idle", "opening", "live"}]
  /\ text \in [Clients -> SUBSET Items] /\ prior \in [Clients -> SUBSET Items]
  /\ isJoiner \in [Clients -> BOOLEAN] /\ logged \in [Clients -> SUBSET Items]
  /\ doc \in [Clients -> Docs]
  /\ provider \in [Clients -> {"none", "dialing", "open", "synced"}]
  /\ attempts \in [Clients -> 0 .. MaxAttempts] /\ cur \in [Clients -> 0 .. MaxConns]
  /\ conn \in [Conns -> Connection]
  /\ room \in Docs /\ ownerHere \in BOOLEAN
  /\ typed \in 0 .. MaxEdits /\ erased \in SUBSET (1 .. MaxEdits)

\* The first sync of a connection is over: what it was seeded with may be about.
NoHello(q) == \A m \in Said(q) : m.type # "hello"
Greeted(k) == k.used /\ NoHello(k.down)

\* The items there can be so far: typed, and copied by a connection that was greeted.
Known == {x \in Items : x.edit <= typed /\ (x.copy # 0 => Greeted(conn[x.copy]))}
DocOf(d, items) == d.del \subseteq d.ins /\ d.ins \subseteq items
QueueOf(q, items) == \A m \in Said(q) : DocOf(m.doc, items)

\* What a client, its connection and the room know of each other: what the client sent it
\* has, and what it has is in the room or on its way there; what the room sent it has, and
\* what it has is with the client or on its way there, unless the session is over.
InStep(d, k, r, p) ==
  /\ Within(All(k.up), d) /\ Within(All(k.down), r)
  /\ p = "synced" => Within(d, Merge(r, All(k.up)))
  /\ ~k.closing => Within(r, Merge(d, All(k.down)))
  /\ k.closing => k.down # << >> /\ k.down[Len(k.down)].type = "ownerLeft"
  /\ p = "open" => k.down # << >> /\ Head(k.down).type = "hello" /\ NoHello(Tail(k.down))
  /\ p = "synced" => NoHello(k.down)

\* The items a client has are known.
OwnKnown(c) == DocOf(doc[c], Known) /\ \A x \in text[c] \cup prior[c] : x.edit <= typed

\* The phases of a client, the states of its provider and its connection go together.
LinkHolds(c) ==
  /\ cur[c] # 0 => conn[cur[c]].alive /\ conn[cur[c]].who = c
  /\ cur[c] # 0 <=> provider[c] \in {"open", "synced"}
  /\ phase[c] = "idle" => provider[c] = "none"
  /\ phase[c] = "opening" => provider[c] # "synced"
  /\ phase[c] = "live" => provider[c] # "none"
  /\ phase[c] # "live" => doc[c] = EmptyDoc

StepsTogether(c) == cur[c] # 0 => InStep(doc[c], conn[cur[c]], room, provider[c])
Bound(c) == phase[c] = "live" => text[c] = Shows(doc[c])

\* A joiner's own text is what its log says, or it is put aside and its log says so.
NoTrace(c) ==
  c # Owner =>
    /\ provider[c] # "none" => isJoiner[c]
    /\ phase[c] = "idle" => ~isJoiner[c]
    /\ isJoiner[c] => prior[c] = logged[c]
    /\ ~isJoiner[c] => text[c] = logged[c]

ClientOK(c) == OwnKnown(c) /\ LinkHolds(c) /\ StepsTogether(c) /\ Bound(c) /\ NoTrace(c)

\* A connection carries what is known, and is open while its client's provider has it.
ConnOK(n) ==
  /\ QueueOf(conn[n].up, Known) /\ QueueOf(conn[n].down, Known)
  /\ \A m \in Said(conn[n].up) : m.type = "update"
  /\ conn[n].alive => conn[n].used /\ conn[n].held /\ cur[conn[n].who] = n
  /\ ~conn[n].alive => conn[n].down = << >>

LiveInv ==
  /\ Shape /\ DocOf(room, Known)
  /\ \A c \in Clients : ClientOK(c)
  /\ \A n \in Conns : ConnOK(n)

-----------------------------------------------------------------------------
(* Queues and documents. *)

\* An empty queue says nothing.
LEMMA EmptyQueue == Said(<< >>) = {} /\ All(<< >>) = EmptyDoc /\ NoHello(<< >>)
  <1>1. Said(<< >>) = {}
    BY DEF Said
  <1> QED
    BY <1>1 DEF NoHello, All, EmptyDoc

\* Appending a message adds it to what is said.
LEMMA AppendSaid ==
  ASSUME NEW q \in Seq(Messages), NEW m \in Messages
  PROVE  /\ Append(q, m) \in Seq(Messages) /\ Append(q, m) # << >>
         /\ Said(Append(q, m)) = Said(q) \cup {m}
         /\ Append(q, m)[Len(Append(q, m))] = m
         /\ q # << >> => Head(Append(q, m)) = Head(q) /\ Tail(Append(q, m)) = Append(Tail(q), m)
  <1>1. /\ Append(q, m) \in Seq(Messages) /\ Len(Append(q, m)) = Len(q) + 1
        /\ \A k \in 1 .. Len(q) : Append(q, m)[k] = q[k]
        /\ Append(q, m)[Len(q) + 1] = m
        /\ DOMAIN Append(q, m) = 1 .. (Len(q) + 1) /\ DOMAIN q = 1 .. Len(q) /\ Len(q) \in Nat
    OBVIOUS
  <1>2. Said(Append(q, m)) = Said(q) \cup {m}
    BY <1>1 DEF Said
  <1>3. ASSUME q # << >> PROVE Head(Append(q, m)) = Head(q) /\ Tail(Append(q, m)) = Append(Tail(q), m)
    <2>1. Head(Append(q, m)) = Head(q)
      BY <1>1, <1>3
    <2>2. Tail(q) \in Seq(Messages) /\ Len(Tail(q)) = Len(q) - 1 /\ Len(q) # 0
      BY <1>3
    <2>3. Tail(Append(q, m)) \in Seq(Messages) /\ Append(Tail(q), m) \in Seq(Messages)
      BY <1>1, <2>2
    <2>4. Len(Tail(Append(q, m))) = Len(q) /\ Len(Append(Tail(q), m)) = Len(q)
      BY <1>1, <2>2
    <2>5. ASSUME NEW k \in 1 .. Len(q) PROVE Tail(Append(q, m))[k] = Append(Tail(q), m)[k]
      <3>1. Tail(Append(q, m))[k] = Append(q, m)[k + 1] /\ k \in 1 .. Len(Tail(q)) + 1
        BY <1>1, <2>2, HeadTailProperties
      <3>2. CASE k = Len(q)
        BY <1>1, <2>2, <3>1, <3>2, AppendProperties
      <3>3. CASE k # Len(q)
        <4>0. \A n \in Nat : \A t, i \in Int : t = n - 1 /\ i \in 1 .. n /\ i # n => i \in 1 .. t /\ i + 1 \in 1 .. n
          OBVIOUS
        <4>4. Len(Tail(q)) \in Int /\ Len(Tail(q)) = Len(q) - 1 /\ Len(q) \in Nat /\ k \in Int
          BY <1>1, <2>2
        <4>1. k \in 1 .. Len(Tail(q)) /\ k + 1 \in 1 .. Len(q)
          BY <3>3, <4>0, <4>4
        <4>2. Append(Tail(q), m)[k] = Tail(q)[k] /\ Tail(q)[k] = q[k + 1]
          BY <2>2, <4>1, AppendProperties, HeadTailProperties
        <4> QED
          BY <1>1, <3>1, <4>1, <4>2
      <3> QED
        BY <3>2, <3>3
    <2> QED
      BY <2>1, <2>3, <2>4, <2>5, SeqEqual
  <1> QED
    BY <1>1, <1>2, <1>3

\* Taking the first message of a queue.
LEMMA TailSaid ==
  ASSUME NEW q \in Seq(Messages), q # << >>
  PROVE  /\ Head(q) \in Messages /\ Tail(q) \in Seq(Messages)
         /\ Said(q) = {Head(q)} \cup Said(Tail(q))
         /\ Tail(q) # << >> => Tail(q)[Len(Tail(q))] = q[Len(q)]
         /\ Tail(q) = << >> => q[Len(q)] = Head(q)
  <1>1. /\ Tail(q) \in Seq(Messages) /\ Len(Tail(q)) = Len(q) - 1 /\ Len(q) \in Nat /\ Len(q) # 0
        /\ \A k \in 1 .. Len(Tail(q)) : Tail(q)[k] = q[k + 1]
        /\ DOMAIN q = 1 .. Len(q) /\ DOMAIN Tail(q) = 1 .. Len(Tail(q))
        /\ Head(q) = q[1] /\ Head(q) \in Messages
    OBVIOUS
  <1>2. ASSUME NEW x \in Said(q) PROVE x \in {Head(q)} \cup Said(Tail(q))
    <2>1. PICK k \in 1 .. Len(q) : x = q[k]
      BY <1>1 DEF Said
    <2>2. CASE k = 1
      BY <1>1, <2>1, <2>2
    <2>3. CASE k # 1
      <3>1. k - 1 \in 1 .. Len(Tail(q)) /\ (k - 1) + 1 = k
        BY <1>1, <2>1, <2>3
      <3> QED
        BY <1>1, <2>1, <3>1 DEF Said
    <2> QED
      BY <2>2, <2>3
  <1>3. ASSUME NEW x \in {Head(q)} \cup Said(Tail(q)) PROVE x \in Said(q)
    <2>1. CASE x = Head(q)
      BY <1>1, <2>1 DEF Said
    <2>2. CASE x \in Said(Tail(q))
      <3>1. PICK k \in 1 .. Len(Tail(q)) : x = Tail(q)[k]
        BY <1>1, <2>2 DEF Said
      <3>2. x = q[k + 1] /\ k + 1 \in 1 .. Len(q)
        BY <1>1, <3>1
      <3> QED
        BY <1>1, <3>2 DEF Said
    <2> QED
      BY <1>3, <2>1, <2>2
  <1>4. Said(q) = {Head(q)} \cup Said(Tail(q))
    BY <1>2, <1>3
  <1>5. Tail(q) # << >> => Tail(q)[Len(Tail(q))] = q[Len(q)]
    BY <1>1
  <1>6. ASSUME Tail(q) = << >> PROVE q[Len(q)] = Head(q)
    <2>0. Len(<< >>) = 0
      OBVIOUS
    <2>2. \A a, b \in Nat : b = 0 /\ b = a - 1 => a = 1
      OBVIOUS
    <2>3. Len(Tail(q)) = 0 /\ Len(Tail(q)) = Len(q) - 1 /\ Len(q) \in Nat
      BY <1>1, <1>6, <2>0
    <2>1. Len(q) = 1
      BY <2>2, <2>3
    <2> QED
      BY <1>1, <2>1
  <1> QED
    BY <1>1, <1>4, <1>5, <1>6

\* What a queue says is a document.
LEMMA AllDoc == ASSUME NEW q \in Seq(Messages) PROVE All(q) \in Docs /\ Said(q) \subseteq Messages
  <1>1. Said(q) \subseteq Messages
    BY DEF Said
  <1> QED
    BY <1>1 DEF All, Docs

\* A message appended is merged into what the queue says.
LEMMA AllAppend ==
  ASSUME NEW q \in Seq(Messages), NEW m \in Messages
  PROVE  All(Append(q, m)) = Merge(All(q), m.doc)
  <1>1. Said(Append(q, m)) = Said(q) \cup {m}
    BY AppendSaid
  <1>2. m.doc.ins \subseteq Items /\ m.doc.del \subseteq Items
    BY DEF Messages, Docs
  <1> QED
    BY <1>1, <1>2 DEF All, Merge

\* A queue says what its first message and its other messages say.
LEMMA AllTail ==
  ASSUME NEW q \in Seq(Messages), q # << >>
  PROVE  All(q) = Merge(All(Tail(q)), Head(q).doc)
  <1>1. Said(q) = {Head(q)} \cup Said(Tail(q)) /\ Head(q) \in Messages
    BY TailSaid
  <1>2. Head(q).doc.ins \subseteq Items /\ Head(q).doc.del \subseteq Items
    BY <1>1 DEF Messages, Docs
  <1> QED
    BY <1>1, <1>2 DEF All, Merge

\* Merging documents gives a document that holds both.
LEMMA MergeDocs ==
  ASSUME NEW a \in Docs, NEW b \in Docs
  PROVE  Merge(a, b) \in Docs /\ Within(a, Merge(a, b)) /\ Within(b, Merge(a, b))
  BY DEF Docs, Merge, Within

-----------------------------------------------------------------------------
(* A client, its connection and the room stay in step. *)

\* The client writes: what it gains it sends.
LEMMA WriteInStep ==
  ASSUME NEW d \in Docs, NEW d2 \in Docs, NEW r \in Docs, NEW k \in Connection, NEW k2 \in Connection,
         NEW p, NEW m \in Messages,
         InStep(d, k, r, p), Within(d, d2), Within(m.doc, d2), Within(d2, Merge(d, m.doc)),
         k2.up = Append(k.up, m), k2.down = k.down, k2.closing = k.closing
  PROVE  InStep(d2, k2, r, p)
  <1>1. k.up \in Seq(Messages) /\ k.down \in Seq(Messages)
    BY DEF Connection
  <1>2. All(k2.up) = Merge(All(k.up), m.doc)
    BY <1>1, AllAppend
  <1>3. Within(All(k2.up), d2)
    BY <1>2 DEF InStep, Within, Merge
  <1>4. p = "synced" => Within(d2, Merge(r, All(k2.up)))
    BY <1>2 DEF InStep, Within, Merge
  <1>5. ~k.closing => Within(r, Merge(d2, All(k.down)))
    BY DEF InStep, Within, Merge
  <1> QED
    BY <1>3, <1>4, <1>5 DEF InStep

\* A client that has a message left after the owner's leaving has it last.
LEMMA TakeClosing ==
  ASSUME NEW d, NEW k \in Connection, NEW r, NEW p, NEW k2 \in Connection,
         InStep(d, k, r, p), k.down # << >>, Head(k.down).type # "ownerLeft",
         k2.down = Tail(k.down), k2.closing = k.closing
  PROVE  k2.closing => k2.down # << >> /\ k2.down[Len(k2.down)].type = "ownerLeft"
  <1>1. k.down \in Seq(Messages)
    BY DEF Connection
  <1>2. /\ Tail(k.down) # << >> => Tail(k.down)[Len(Tail(k.down))] = k.down[Len(k.down)]
        /\ Tail(k.down) = << >> => k.down[Len(k.down)] = Head(k.down)
    BY <1>1, TailSaid
  <1> QED
    BY <1>2 DEF InStep

\* A synced client takes an update.
LEMMA TakeInStep ==
  ASSUME NEW d \in Docs, NEW r \in Docs, NEW k \in Connection, NEW k2 \in Connection, NEW p,
         InStep(d, k, r, p), p = "synced", k.down # << >>, Head(k.down).type # "ownerLeft",
         k2.up = k.up, k2.down = Tail(k.down), k2.closing = k.closing
  PROVE  InStep(Merge(d, Head(k.down).doc), k2, r, p)
  <1> DEFINE h == Head(k.down).doc
             d2 == Merge(d, h)
  <1>1. k.down \in Seq(Messages) /\ k.up \in Seq(Messages)
    BY DEF Connection
  <1>2. All(k.down) = Merge(All(k2.down), h)
    BY <1>1, AllTail
  <1>3. Said(k2.down) \subseteq Said(k.down) /\ NoHello(k2.down)
    BY <1>1, TailSaid DEF InStep, NoHello
  <1> HIDE DEF h
  <1>4. Within(All(k2.up), d2) /\ Within(All(k2.down), r)
    BY <1>2 DEF InStep, Within, Merge
  <1>5. Within(d2, Merge(r, All(k2.up)))
    BY <1>2 DEF InStep, Within, Merge
  <1>6. ~k2.closing => Within(r, Merge(d2, All(k2.down)))
    BY <1>2 DEF InStep, Within, Merge
  <1>7. k2.closing => k2.down # << >> /\ k2.down[Len(k2.down)].type = "ownerLeft"
    BY TakeClosing
  <1>8. InStep(d2, k2, r, p)
    BY <1>3, <1>4, <1>5, <1>6, <1>7 DEF InStep
  <1> QED
    BY <1>8 DEF h

\* The first sync of a client that had nothing.
LEMMA EnterInStep ==
  ASSUME NEW d \in Docs, NEW r \in Docs, NEW k \in Connection, NEW k2 \in Connection, NEW p, NEW p2,
         InStep(d, k, r, p), p = "open", p2 = "synced", d = EmptyDoc,
         k2.up = k.up, k2.down = Tail(k.down), k2.closing = k.closing
  PROVE  InStep(Merge(d, Head(k.down).doc), k2, r, p2)
  <1> DEFINE h == Head(k.down).doc
             d2 == Merge(d, h)
  <1>1. k.down \in Seq(Messages) /\ k.up \in Seq(Messages) /\ k.down # << >> /\ Head(k.down).type = "hello"
    BY DEF Connection, InStep
  <1>2. All(k.down) = Merge(All(k2.down), h)
    BY <1>1, AllTail
  <1>3. NoHello(k2.down)
    BY DEF InStep
  <1>7. k2.closing => k2.down # << >> /\ k2.down[Len(k2.down)].type = "ownerLeft"
    BY <1>1, TakeClosing
  <1> HIDE DEF h
  <1>4. Within(All(k2.up), d2) /\ Within(All(k2.down), r)
    BY <1>2 DEF InStep, Within, Merge
  <1>5. Within(d2, Merge(r, All(k2.up)))
    BY <1>2 DEF InStep, Within, Merge, EmptyDoc
  <1>6. ~k2.closing => Within(r, Merge(d2, All(k2.down)))
    BY <1>2 DEF InStep, Within, Merge
  <1>8. InStep(d2, k2, r, p2)
    BY <1>3, <1>4, <1>5, <1>6, <1>7 DEF InStep
  <1> QED
    BY <1>8 DEF h

\* The first sync of a client that answers it.
LEMMA AnswerInStep ==
  ASSUME NEW d \in Docs, NEW d2 \in Docs, NEW r \in Docs, NEW k \in Connection, NEW k2 \in Connection,
         NEW p, NEW p2, NEW m \in Messages,
         InStep(d, k, r, p), p = "open", p2 = "synced",
         Within(Merge(d, Head(k.down).doc), d2), Within(m.doc, d2),
         Within(d2, Merge(m.doc, Head(k.down).doc)),
         k2.up = Append(k.up, m), k2.down = Tail(k.down), k2.closing = k.closing
  PROVE  InStep(d2, k2, r, p2)
  <1> DEFINE h == Head(k.down).doc
  <1>1. k.down \in Seq(Messages) /\ k.up \in Seq(Messages) /\ k.down # << >> /\ Head(k.down).type = "hello"
    BY DEF Connection, InStep
  <1>2. All(k.down) = Merge(All(k2.down), h) /\ All(k2.up) = Merge(All(k.up), m.doc)
    BY <1>1, AllTail, AllAppend
  <1>3. NoHello(k2.down)
    BY DEF InStep
  <1>4. Within(Merge(d, h), d2) /\ Within(d2, Merge(m.doc, h))
    OBVIOUS
  <1>7. k2.closing => k2.down # << >> /\ k2.down[Len(k2.down)].type = "ownerLeft"
    BY <1>1, TakeClosing
  <1> HIDE DEF h
  <1>5. Within(All(k2.up), d2) /\ Within(All(k2.down), r) /\ Within(d2, Merge(r, All(k2.up)))
    BY <1>2, <1>4 DEF InStep, Within, Merge
  <1>6. ~k2.closing => Within(r, Merge(d2, All(k2.down)))
    BY <1>2, <1>4 DEF InStep, Within, Merge
  <1> QED
    BY <1>3, <1>5, <1>6, <1>7 DEF InStep

\* The room merges what the client sent.
LEMMA MergedInStep ==
  ASSUME NEW d \in Docs, NEW r \in Docs, NEW k \in Connection, NEW k2 \in Connection, NEW p,
         InStep(d, k, r, p), k.up # << >>,
         k2.up = Tail(k.up), k2.down = k.down, k2.closing = k.closing
  PROVE  InStep(d, k2, Merge(r, Head(k.up).doc), p)
  <1> DEFINE h == Head(k.up).doc
             r2 == Merge(r, h)
  <1>1. k.up \in Seq(Messages)
    BY DEF Connection
  <1>2. All(k.up) = Merge(All(k2.up), h)
    BY <1>1, AllTail
  <1> HIDE DEF h
  <1>3. Within(All(k2.up), d) /\ Within(All(k2.down), r2)
    BY <1>2 DEF InStep, Within, Merge
  <1>4. p = "synced" => Within(d, Merge(r2, All(k2.up)))
    BY <1>2 DEF InStep, Within, Merge
  <1>5. ~k2.closing => Within(r2, Merge(d, All(k2.down)))
    BY <1>2 DEF InStep, Within, Merge
  <1>6. InStep(d, k2, r2, p)
    BY <1>3, <1>4, <1>5 DEF InStep
  <1> QED
    BY <1>6 DEF h

\* The room merges an update and passes it on to a client.
LEMMA PassedInStep ==
  ASSUME NEW d \in Docs, NEW r \in Docs, NEW k \in Connection, NEW k2 \in Connection, NEW p,
         NEW m \in Messages, m.type = "update", ~k.closing,
         InStep(d, k, r, p), k2.up = k.up, k2.down = Append(k.down, m), k2.closing = k.closing
  PROVE  InStep(d, k2, Merge(r, m.doc), p)
  <1> DEFINE r2 == Merge(r, m.doc)
  <1>1. k.down \in Seq(Messages)
    BY DEF Connection
  <1>2. All(k2.down) = Merge(All(k.down), m.doc)
    BY <1>1, AllAppend
  <1>3. Within(All(k2.up), d) /\ Within(All(k2.down), r2)
    BY <1>2 DEF InStep, Within, Merge
  <1>4. p = "synced" => Within(d, Merge(r2, All(k2.up)))
    BY <1>2 DEF InStep, Within, Merge
  <1>5. Within(r2, Merge(d, All(k2.down)))
    BY <1>2 DEF InStep, Within, Merge
  <1>6. p = "synced" => NoHello(k2.down)
    BY <1>1, AppendSaid DEF InStep, NoHello
  <1>7. ASSUME p = "open" PROVE k2.down # << >> /\ Head(k2.down).type = "hello" /\ NoHello(Tail(k2.down))
    <2>1. k.down # << >> /\ Head(k.down).type = "hello" /\ NoHello(Tail(k.down))
      BY <1>7 DEF InStep
    <2>2. Head(k2.down) = Head(k.down) /\ Tail(k2.down) = Append(Tail(k.down), m) /\ k2.down # << >>
      BY <1>1, <2>1, AppendSaid
    <2>3. Tail(k.down) \in Seq(Messages)
      BY <1>1, <2>1, TailSaid
    <2>4. Said(Append(Tail(k.down), m)) = Said(Tail(k.down)) \cup {m}
      BY <2>3, AppendSaid
    <2> QED
      BY <2>1, <2>2, <2>4 DEF NoHello
  <1> QED
    BY <1>3, <1>4, <1>5, <1>6, <1>7 DEF InStep

\* A client the relay is closing gets nothing more, and loses nothing of what it has.
LEMMA ClosingInStep ==
  ASSUME NEW d \in Docs, NEW r \in Docs, NEW r2 \in Docs, NEW k \in Connection, NEW p,
         InStep(d, k, r, p), k.closing, Within(r, r2)
  PROVE  InStep(d, k, r2, p)
  <1>1. Within(All(k.down), r2)
    BY DEF InStep, Within
  <1>2. p = "synced" => Within(d, Merge(r2, All(k.up)))
    BY DEF InStep, Within, Merge
  <1> QED
    BY <1>1, <1>2 DEF InStep

\* The relay tells a client that the owner left.
LEMMA ToldInStep ==
  ASSUME NEW d \in Docs, NEW r \in Docs, NEW r2 \in Docs, NEW k \in Connection, NEW k2 \in Connection, NEW p,
         InStep(d, k, r, p), Within(r, r2), k2.closing,
         k2.up = k.up, k2.down = Append(k.down, Msg("ownerLeft", EmptyDoc))
  PROVE  InStep(d, k2, r2, p)
  <1> DEFINE m == Msg("ownerLeft", EmptyDoc)
  <1>1. m \in Messages /\ m.type = "ownerLeft" /\ m.doc = EmptyDoc
    BY DEF Messages, Msg, EmptyDoc, Docs
  <1>2. k2.down = Append(k.down, m) /\ k.down \in Seq(Messages)
    BY DEF Connection
  <1> HIDE DEF m
  <1>3. All(k2.down) = Merge(All(k.down), EmptyDoc)
    BY <1>1, <1>2, AllAppend
  <1>4. Within(All(k2.up), d) /\ Within(All(k2.down), r2)
    BY <1>3 DEF InStep, Within, Merge, EmptyDoc
  <1>5. p = "synced" => Within(d, Merge(r2, All(k2.up)))
    BY <1>2 DEF InStep, Within, Merge
  <1>6. p = "synced" => NoHello(k2.down)
    BY <1>1, <1>2, AppendSaid DEF InStep, NoHello
  <1>7. k2.down # << >> /\ k2.down[Len(k2.down)].type = "ownerLeft"
    BY <1>1, <1>2, AppendSaid
  <1>8. ASSUME p = "open" PROVE Head(k2.down).type = "hello" /\ NoHello(Tail(k2.down))
    <2>1. k.down # << >> /\ Head(k.down).type = "hello" /\ NoHello(Tail(k.down))
      BY <1>8 DEF InStep
    <2>2. Head(k2.down) = Head(k.down) /\ Tail(k2.down) = Append(Tail(k.down), m)
      BY <1>1, <1>2, <2>1, AppendSaid
    <2>3. Tail(k.down) \in Seq(Messages)
      BY <1>2, <2>1, TailSaid
    <2>4. Said(Append(Tail(k.down), m)) = Said(Tail(k.down)) \cup {m}
      BY <1>1, <2>3, AppendSaid
    <2> QED
      BY <1>1, <2>1, <2>2, <2>4 DEF NoHello
  <1> QED
    BY <1>4, <1>5, <1>6, <1>7, <1>8 DEF InStep

\* A new connection starts with the whole room on its way to the client.
LEMMA DialedInStep ==
  ASSUME NEW d \in Docs, NEW r \in Docs, NEW k \in Connection, NEW p, p = "open",
         ~k.closing, k.up = << >>, k.down = << Msg("hello", r) >>
  PROVE  InStep(d, k, r, p)
  <1> DEFINE m == Msg("hello", r)
  <1>1. m \in Messages /\ m.type = "hello" /\ m.doc = r
    BY DEF Messages, Msg
  <1>2. k.down = << m >>
    OBVIOUS
  <1> HIDE DEF m
  <1>3. k.down # << >> /\ Head(k.down) = m /\ Tail(k.down) = << >> /\ k.down \in Seq(Messages)
    BY <1>1, <1>2
  <1>4. All(k.down) = Merge(All(<< >>), r)
    BY <1>1, <1>3, AllTail
  <1>5. Within(All(k.up), d) /\ Within(All(k.down), r) /\ Within(r, Merge(d, All(k.down)))
    BY <1>4, EmptyQueue DEF Within, Merge, EmptyDoc, Docs
  <1> QED
    BY <1>1, <1>3, <1>5, EmptyQueue DEF InStep

-----------------------------------------------------------------------------
(* What the model's operators do to the connections. *)

\* A change of one connection, which stays the same connection.
Changed(f, n) ==
  /\ f \in [Conns -> Connection]
  /\ \A k \in Conns : k # n => f[k] = conn[k]
SameLine(k2, k) ==
  k2.who = k.who /\ k2.used = k.used /\ k2.alive = k.alive /\ k2.held = k.held /\ k2.closing = k.closing

\* An update of a connected client is queued behind what it sent before.
LEMMA SentUpdate ==
  ASSUME Shape, NEW c \in Clients, NEW d \in Docs, cur[c] # 0 => conn[cur[c]].alive
  PROVE  /\ Changed(Sent(c, d), cur[c])
         /\ cur[c] = 0 => Sent(c, d) = conn
         /\ cur[c] # 0 => /\ cur[c] \in Conns /\ SameLine(Sent(c, d)[cur[c]], conn[cur[c]])
                          /\ Sent(c, d)[cur[c]].up = Append(conn[cur[c]].up, Msg("update", d))
                          /\ Sent(c, d)[cur[c]].down = conn[cur[c]].down
         /\ Msg("update", d) \in Messages
  <1> DEFINE m == Msg("update", d)
  <1>1. m \in Messages
    BY DEF Msg, Messages
  <1>2. CASE cur[c] = 0
    BY <1>1, <1>2 DEF Shape, Sent, Changed
  <1>3. CASE cur[c] # 0
    <2>1. PICK n \in Conns : n = cur[c]
      BY <1>3 DEF Shape, Conns
    <2>2. conn[n] \in Connection /\ conn[n].up \in Seq(Messages)
      BY DEF Shape, Connection
    <2>3. PICK q \in Seq(Messages) : q = Append(conn[n].up, m)
      BY <1>1, <2>2, AppendSaid
    <2>4. Sent(c, d) = [conn EXCEPT ![n] = [conn[n] EXCEPT !.up = q]]
      BY <1>3, <2>1, <2>3 DEF Sent, Shape
    <2>5. [conn[n] EXCEPT !.up = q] \in Connection
      BY <2>2 DEF Connection
    <2> HIDE DEF m
    <2> QED
      BY <1>1, <1>3, <2>1, <2>2, <2>3, <2>4, <2>5 DEF Changed, SameLine, Shape, Connection, m
  <1> QED
    BY <1>2, <1>3

\* A connection that is hung up is dead and delivers nothing more.
LEMMA HungUp ==
  ASSUME Shape, NEW c \in Clients
  PROVE  /\ Changed(Hung(c), cur[c])
         /\ cur[c] = 0 => Hung(c) = conn
         /\ cur[c] # 0 => /\ cur[c] \in Conns
                          /\ ~Hung(c)[cur[c]].alive /\ Hung(c)[cur[c]].used = conn[cur[c]].used
                          /\ Hung(c)[cur[c]].up = conn[cur[c]].up /\ Hung(c)[cur[c]].down = << >>
  <1>2. CASE cur[c] = 0
    BY <1>2 DEF Shape, Hung, Changed
  <1>3. CASE cur[c] # 0
    <2>1. PICK n \in Conns : n = cur[c]
      BY <1>3 DEF Shape, Conns
    <2>2. conn[n] \in Connection
      BY DEF Shape
    <2>4. Hung(c) = [conn EXCEPT ![n] = [conn[n] EXCEPT !.alive = FALSE, !.down = << >>]]
      BY <1>3, <2>1 DEF Hung, Shape
    <2>3. << >> \in Seq(Messages)
      OBVIOUS
    <2>5. [conn[n] EXCEPT !.alive = FALSE, !.down = << >>] \in Connection
      BY <2>2, <2>3 DEF Connection
    <2> QED
      BY <1>3, <2>1, <2>2, <2>4, <2>5 DEF Changed, Shape, Connection
  <1> QED
    BY <1>2, <1>3

\* The first message of the client's connection.
LEMMA ArrivesFacts ==
  ASSUME Shape, NEW c \in Clients, NEW type, Arrives(c, type)
  PROVE  /\ cur[c] \in Conns /\ Mine(c) = conn[cur[c]] /\ Mine(c) \in Connection /\ Mine(c).alive
         /\ Mine(c).down \in Seq(Messages) /\ Mine(c).down # << >> /\ Mine(c).up \in Seq(Messages)
         /\ Head(Mine(c).down).type = type
         /\ Head(Mine(c).down) \in Messages /\ Head(Mine(c).down).doc \in Docs
         /\ Tail(Mine(c).down) \in Seq(Messages)
         /\ Said(Mine(c).down) = {Head(Mine(c).down)} \cup Said(Tail(Mine(c).down))
  <1>1. cur[c] \in Conns
    BY DEF Shape, Arrives, Conns
  <1>2. Mine(c) \in Connection /\ Mine(c) = conn[cur[c]]
    BY <1>1 DEF Shape, Mine
  <1>3. Mine(c).down \in Seq(Messages) /\ Mine(c).down # << >> /\ Mine(c).up \in Seq(Messages)
    BY <1>2 DEF Connection, Arrives
  <1>4. \A m \in Messages : m.doc \in Docs
    BY DEF Messages
  <1> QED
    BY <1>1, <1>2, <1>3, <1>4, TailSaid DEF Arrives

\* A message is taken from the client's connection, and one may be sent in answer.
LEMMA TakenOff ==
  ASSUME Shape, NEW c \in Clients, NEW type, Arrives(c, type), NEW n, n = cur[c]
  PROVE  /\ Changed(Taken(c), n) /\ SameLine(Taken(c)[n], conn[n])
         /\ Taken(c)[n].up = conn[n].up /\ Taken(c)[n].down = Tail(conn[n].down)
  <1>1. n \in Conns /\ conn[n] \in Connection /\ Tail(conn[n].down) \in Seq(Messages)
    BY ArrivesFacts
  <1>2. PICK q \in Seq(Messages) : q = Tail(conn[n].down)
    BY <1>1
  <1>3. Taken(c) = [conn EXCEPT ![n] = [conn[n] EXCEPT !.down = q]]
    BY <1>1, <1>2 DEF Taken, Shape
  <1>4. [conn[n] EXCEPT !.down = q] \in Connection
    BY <1>1 DEF Connection
  <1> QED
    BY <1>1, <1>2, <1>3, <1>4 DEF Changed, SameLine, Shape, Connection

AnswerConn(n, d) == [conn EXCEPT ![n].down = Tail(@), ![n].up = Append(@, Msg("update", d))]

\* A message is taken from the client's connection, and an answer is queued.
LEMMA Answered ==
  ASSUME Shape, NEW c \in Clients, NEW type, Arrives(c, type), NEW n, n = cur[c],
         NEW d \in Docs, NEW f, f = AnswerConn(n, d)
  PROVE  /\ Changed(f, n) /\ SameLine(f[n], conn[n])
         /\ f[n].up = Append(conn[n].up, Msg("update", d)) /\ f[n].down = Tail(conn[n].down)
         /\ Msg("update", d) \in Messages
  <1>0. Msg("update", d) \in Messages
    BY DEF Msg, Messages
  <1>1. n \in Conns /\ conn[n] \in Connection /\ Tail(conn[n].down) \in Seq(Messages)
        /\ conn[n].up \in Seq(Messages)
    BY ArrivesFacts
  <1>2. PICK q \in Seq(Messages) : q = Tail(conn[n].down)
    BY <1>1
  <1>3. PICK u \in Seq(Messages) : u = Append(conn[n].up, Msg("update", d))
    BY <1>0, <1>1, AppendSaid
  <1>4. f = [conn EXCEPT ![n] = [conn[n] EXCEPT !.down = q, !.up = u]]
    BY <1>1, <1>2, <1>3 DEF Shape, AnswerConn
  <1>5. [conn[n] EXCEPT !.down = q, !.up = u] \in Connection
    BY <1>1 DEF Connection
  <1> QED
    BY <1>0, <1>1, <1>2, <1>3, <1>4, <1>5 DEF Changed, SameLine, Shape, Connection

-----------------------------------------------------------------------------
(* A step of one client. *)

\* More items make no document and no queue ill-formed.
LEMMA MoreItems ==
  ASSUME NEW K, NEW K2, K \subseteq K2
  PROVE  /\ \A d : DocOf(d, K) => DocOf(d, K2)
         /\ \A q : QueueOf(q, K) => QueueOf(q, K2)
  BY DEF DocOf, QueueOf

\* What is known stays known while connections stay greeted.
LEMMA KnownStays ==
  ASSUME Shape, Shape', typed <= typed',
         \A n \in Conns : Greeted(conn[n]) => Greeted(conn'[n])
  PROVE  Known \subseteq Known'
  <1> SUFFICES ASSUME NEW x \in Known PROVE x \in Known'
    OBVIOUS
  <1>1. x \in Items /\ x.edit <= typed /\ (x.copy # 0 => Greeted(conn[x.copy]))
    BY DEF Known
  <1>2. x.edit \in Nat /\ typed \in Nat /\ typed' \in Nat
    BY LiveConstants, <1>1 DEF Items, Shape
  <1>3. x.edit <= typed'
    BY <1>1, <1>2
  <1>4. x.copy # 0 => x.copy \in Conns
    BY LiveConstants, <1>1 DEF Items, Conns
  <1>5. x.copy # 0 => Greeted(conn'[x.copy])
    BY <1>1, <1>4
  <1>6. Known' = {y \in Items : y.edit <= typed' /\ (y.copy # 0 => Greeted(conn'[y.copy]))}
    BY DEF Known
  <1> QED
    BY <1>1, <1>3, <1>5, <1>6

\* Nothing of the other clients changes.
Others(c) ==
  \A x \in Clients : x # c =>
    /\ phase'[x] = phase[x] /\ text'[x] = text[x] /\ prior'[x] = prior[x]
    /\ isJoiner'[x] = isJoiner[x] /\ logged'[x] = logged[x] /\ doc'[x] = doc[x]
    /\ provider'[x] = provider[x] /\ cur'[x] = cur[x]

\* The connection a step of the client may change: its own, or a fresh one.
Own(c, n) == n = cur[c] \/ (cur[c] = 0 /\ n \in Conns /\ ~conn[n].used)

\* A step of one client and its connection.
Only(c, n) ==
  /\ Others(c) /\ room' = room /\ typed <= typed' /\ Own(c, n)
  /\ \A k \in Conns : k # n => conn'[k] = conn[k]
  /\ n \in Conns => (Greeted(conn[n]) => Greeted(conn'[n]))

\* Nobody else uses that connection.
LEMMA OwnLine ==
  ASSUME LiveInv, NEW c \in Clients, NEW n \in Conns, Own(c, n), NEW x \in Clients, x # c
  PROVE  cur[x] # n
  <1> SUFFICES ASSUME cur[x] = n PROVE FALSE
    OBVIOUS
  <1>0. n # 0
    BY DEF Conns
  <1>1. conn[n].alive /\ conn[n].who = x
    BY <1>0 DEF LiveInv, ClientOK, LinkHolds
  <1>2. conn[n].used
    BY <1>1 DEF LiveInv, ConnOK
  <1>3. n = cur[c]
    BY <1>2 DEF Own
  <1>4. conn[n].who = c
    BY <1>0, <1>3 DEF LiveInv, ClientOK, LinkHolds
  <1> QED
    BY <1>1, <1>4

\* A step of one client keeps the invariant if it keeps the client's part and its
\* connection's.
LEMMA OnlyStep ==
  ASSUME LiveInv, Shape', NEW c \in Clients, NEW n, Only(c, n),
         ClientOK(c)', n \in Conns => ConnOK(n)'
  PROVE  LiveInv'
  <1>1. \A k \in Conns : Greeted(conn[k]) => Greeted(conn'[k])
    BY DEF Only
  <1>2. Known \subseteq Known'
    BY <1>1, KnownStays DEF Only, LiveInv
  <1>3. DocOf(room, Known)'
    <2>1. DocOf(room', Known')
      BY <1>2, MoreItems DEF Only, LiveInv
    <2> QED
      BY <2>1 DEF DocOf
  <1>4. ASSUME NEW x \in Clients, x # c PROVE ClientOK(x)'
    <2>1. /\ phase'[x] = phase[x] /\ text'[x] = text[x] /\ prior'[x] = prior[x]
          /\ isJoiner'[x] = isJoiner[x] /\ logged'[x] = logged[x] /\ doc'[x] = doc[x]
          /\ provider'[x] = provider[x] /\ cur'[x] = cur[x]
      BY <1>4 DEF Only, Others
    <2>2. ClientOK(x) /\ Shape
      BY DEF LiveInv
    <2>3. cur[x] # 0 => conn'[cur[x]] = conn[cur[x]]
      <3> SUFFICES ASSUME cur[x] # 0 PROVE conn'[cur[x]] = conn[cur[x]]
        OBVIOUS
      <3>1. cur[x] \in Conns
        BY <2>2 DEF Shape, Conns
      <3>2. cur[x] # n
        BY <1>4, <3>1, OwnLine DEF Only
      <3> QED
        BY <3>1, <3>2 DEF Only
    <2>4. OwnKnown(x)'
      <3>1. DocOf(doc[x], Known)
        BY <2>2 DEF ClientOK, OwnKnown
      <3>2. DocOf(doc'[x], Known')
        BY <1>2, <2>1, <3>1, MoreItems
      <3>3. ASSUME NEW y \in text[x] \cup prior[x] PROVE y.edit <= typed'
        <4>1. y.edit <= typed /\ y \in Items
          BY <2>2 DEF ClientOK, OwnKnown, Shape
        <4>2. y.edit \in Nat /\ typed \in Nat /\ typed' \in Nat /\ typed <= typed'
          BY LiveConstants, <2>2, <4>1 DEF Items, Shape, Only
        <4> QED
          BY <4>1, <4>2
      <3> QED
        BY <2>1, <3>2, <3>3 DEF OwnKnown, DocOf
    <2>5. LinkHolds(x)'
      BY <2>1, <2>2, <2>3 DEF ClientOK, LinkHolds
    <2>6. StepsTogether(x)'
      <3> SUFFICES ASSUME cur[x] # 0 PROVE InStep(doc[x], conn[cur[x]], room, provider[x])'
        BY <2>1 DEF StepsTogether
      <3>1. InStep(doc[x], conn[cur[x]], room, provider[x])
        BY <2>2 DEF ClientOK, StepsTogether
      <3>2. doc'[x] = doc[x] /\ conn'[cur'[x]] = conn[cur[x]] /\ room' = room /\ provider'[x] = provider[x]
        BY <2>1, <2>3 DEF Only
      <3>3. InStep(doc'[x], conn'[cur'[x]], room', provider'[x])
        BY <3>1, <3>2
      <3> QED
        BY <3>3 DEF InStep
    <2>7. Bound(x)'
      BY <2>1, <2>2 DEF ClientOK, Bound, Shows
    <2>8. NoTrace(x)'
      BY <2>1, <2>2 DEF ClientOK, NoTrace
    <2> QED
      BY <2>4, <2>5, <2>6, <2>7, <2>8 DEF ClientOK
  <1>5. ASSUME NEW k \in Conns, k # n PROVE ConnOK(k)'
    <2>1. conn'[k] = conn[k] /\ ConnOK(k) /\ conn[k] \in Connection
      BY <1>5 DEF Only, LiveInv, Shape
    <2>2. QueueOf(conn'[k].up, Known') /\ QueueOf(conn'[k].down, Known')
      BY <1>2, <2>1, MoreItems DEF ConnOK
    <2>3. conn[k].alive => cur'[conn[k].who] = k
      <3> SUFFICES ASSUME conn[k].alive PROVE cur'[conn[k].who] = k
        OBVIOUS
      <3>1. cur[conn[k].who] = k /\ conn[k].who \in Clients /\ conn[k].used /\ k # 0
        BY <2>1 DEF ConnOK, Connection, Conns
      <3>2. conn[k].who # c
        BY <1>5, <3>1 DEF Only, Own
      <3> QED
        BY <3>1, <3>2 DEF Only, Others
    <2> QED
      BY <2>1, <2>2, <2>3 DEF ConnOK, QueueOf
  <1>6. \A x \in Clients : ClientOK(x)'
    BY <1>4
  <1>7. \A k \in Conns : ConnOK(k)'
    BY <1>5
  <1> QED
    BY <1>3, <1>6, <1>7 DEF LiveInv

-----------------------------------------------------------------------------
(* Shapes. *)

\* The documents the steps write.
LEMMA SmallDocs ==
  ASSUME NEW x \in Items
  PROVE  [ins |-> {x}, del |-> {}] \in Docs /\ [ins |-> {x}, del |-> {x}] \in Docs /\ EmptyDoc \in Docs
  BY DEF Docs, EmptyDoc

\* A typed item is an item.
LEMMA TypedItem ==
  ASSUME Shape, typed < MaxEdits
  PROVE  /\ [edit |-> typed + 1, copy |-> 0] \in Items
         /\ typed + 1 \in 0 .. MaxEdits /\ typed <= typed + 1
  BY LiveConstants DEF Shape, Items

\* The document an owner seeds the room with.
SeedOf(t, n) == {[edit |-> x.edit, copy |-> n] : x \in t}

\* The seed is made of items, and the document it makes is one.
LEMMA SeedShape ==
  ASSUME NEW t \in SUBSET Items, NEW n \in Conns, NEW w \in Docs
  PROVE  SeedOf(t, n) \subseteq Items /\ [ins |-> w.ins \cup SeedOf(t, n), del |-> w.ins] \in Docs
  <1>1. SeedOf(t, n) \subseteq Items
    BY LiveConstants DEF SeedOf, Items, Conns
  <1> QED
    BY <1>1 DEF Docs

\* Disconnecting, hanging up and giving up keep the shapes.
LEMMA DisconnectShape ==
  ASSUME Shape, NEW c \in Clients, Disconnect(c)
  PROVE  /\ conn' \in [Conns -> Connection]
         /\ provider' \in [Clients -> {"none", "dialing", "open", "synced"}]
         /\ attempts' \in [Clients -> 0 .. MaxAttempts] /\ cur' \in [Clients -> 0 .. MaxConns]
         /\ doc' \in [Clients -> Docs]
  <1>1. conn' \in [Conns -> Connection]
    BY HungUp DEF Disconnect, Changed
  <1>2. EmptyDoc \in Docs /\ 0 \in 0 .. MaxAttempts /\ 0 \in 0 .. MaxConns
    BY LiveConstants DEF EmptyDoc, Docs
  <1> QED
    BY <1>1, <1>2 DEF Disconnect, Shape

\* Ending a session keeps the shapes.
LEMMA DisableShape ==
  ASSUME Shape, NEW c \in Clients, Disable(c)
  PROVE  /\ conn' \in [Conns -> Connection]
         /\ provider' \in [Clients -> {"none", "dialing", "open", "synced"}]
         /\ attempts' \in [Clients -> 0 .. MaxAttempts] /\ cur' \in [Clients -> 0 .. MaxConns]
         /\ doc' \in [Clients -> Docs]
         /\ text' \in [Clients -> SUBSET Items] /\ prior' \in [Clients -> SUBSET Items]
         /\ isJoiner' \in [Clients -> BOOLEAN] /\ logged' \in [Clients -> SUBSET Items]
  <1>1. Disconnect(c)
    BY DEF Disable
  <1>2. /\ text' \in [Clients -> SUBSET Items] /\ prior' \in [Clients -> SUBSET Items]
        /\ isJoiner' \in [Clients -> BOOLEAN] /\ logged' \in [Clients -> SUBSET Items]
    BY DEF Disable, Shown, Shape
  <1> QED
    BY <1>1, <1>2, DisconnectShape

\* A retry after the connection was lost.
Retries(c, a) ==
  /\ attempts' = [attempts EXCEPT ![c] = a]
  /\ provider' = [provider EXCEPT ![c] = "dialing"]
  /\ cur' = [cur EXCEPT ![c] = 0] /\ conn' = Hung(c)
  /\ UNCHANGED <<phase, editor, doc>>

\* Retrying keeps the shapes.
LEMMA RetryShape ==
  ASSUME Shape, NEW c \in Clients, NEW a \in 0 .. MaxAttempts, Retries(c, a), UNCHANGED <<relay, users>>
  PROVE  Shape'
  <1>1. conn' \in [Conns -> Connection]
    BY HungUp DEF Retries, Changed
  <1>2. 0 \in 0 .. MaxConns
    BY LiveConstants
  <1> QED
    BY <1>1, <1>2 DEF Retries, Shape, editor, relay, users

\* A failed dial retries, or gives up.
LEMMA FailedCases ==
  ASSUME Shape, NEW c \in Clients, Failed(c)
  PROVE  \/ \E a \in 0 .. MaxAttempts : Retries(c, a)
         \/ Disable(c) /\ phase' = [phase EXCEPT ![c] = IF @ = "live" THEN "idle" ELSE @]
  <1>1. CASE attempts[c] + 1 < MaxAttempts
    <2>1. attempts[c] + 1 \in 0 .. MaxAttempts
      BY <1>1, LiveConstants DEF Shape
    <2>2. attempts' = [attempts EXCEPT ![c] = attempts[c] + 1]
      BY <1>1 DEF Failed
    <2> QED
      BY <1>1, <2>1, <2>2 DEF Failed, Retries
  <1>2. CASE ~(attempts[c] + 1 < MaxAttempts)
    BY <1>2 DEF Failed
  <1> QED
    BY <1>1, <1>2

\* A lost connection is retried, or the session is given up.
LEMMA DropCases ==
  ASSUME Shape, NEW c \in Clients, Drop(c)
  PROVE  \/ \E a \in 0 .. MaxAttempts : Retries(c, a)
         \/ Disable(c) /\ phase' = [phase EXCEPT ![c] = IF @ = "live" THEN "idle" ELSE @]
  <1>1. CASE attempts[c] = 0
    <2>1. 1 \in 0 .. MaxAttempts
      BY LiveConstants
    <2> QED
      BY <1>1, <2>1 DEF Drop, Retries
  <1>2. CASE attempts[c] # 0
    BY <1>2, FailedCases DEF Drop
  <1> QED
    BY <1>1, <1>2

\* Giving up keeps the shapes.
LEMMA GivenUpShape ==
  ASSUME Shape, NEW c \in Clients, Disable(c), UNCHANGED <<relay, users>>,
         phase' = [phase EXCEPT ![c] = IF @ = "live" THEN "idle" ELSE @]
  PROVE  Shape'
  <1>1. phase' \in [Clients -> {"idle", "opening", "live"}]
    BY DEF Shape
  <1> QED
    BY <1>1, DisableShape DEF Shape, relay, users

\* Every client whose connection is open has it alive.
LEMMA OpenIsAlive ==
  ASSUME LiveInv, NEW c \in Clients, cur[c] # 0
  PROVE  cur[c] \in Conns /\ conn[cur[c]].alive /\ conn[cur[c]] \in Connection
  BY DEF LiveInv, ClientOK, LinkHolds, Shape, Conns

\* What merging and showing gives.
LEMMA ShowsItems == \A d \in Docs : Shows(d) \subseteq Items
  BY DEF Docs, Shows

\* Typing and erasing keep the shapes.
LEMMA WriteShape ==
  ASSUME LiveInv, NEW c \in Clients, NEW t \in SUBSET Items, NEW d \in Docs, Shown(c, t),
         \/ doc' = [doc EXCEPT ![c] = Merge(@, d)] /\ conn' = Sent(c, d)
         \/ UNCHANGED <<doc, conn>>,
         UNCHANGED <<phase, prior, isJoiner, link, relay>>,
         typed' \in 0 .. MaxEdits, erased' \in SUBSET (1 .. MaxEdits)
  PROVE  Shape'
  <1>1. Shape
    BY DEF LiveInv
  <1>2. text' \in [Clients -> SUBSET Items] /\ logged' \in [Clients -> SUBSET Items]
    BY <1>1 DEF Shown, Shape
  <1>3. doc' \in [Clients -> Docs] /\ conn' \in [Conns -> Connection]
    <2>1. CASE doc' = [doc EXCEPT ![c] = Merge(@, d)] /\ conn' = Sent(c, d)
      <3>1. Merge(doc[c], d) \in Docs
        BY <1>1, MergeDocs DEF Shape
      <3>2. doc' = [doc EXCEPT ![c] = Merge(doc[c], d)]
        BY <2>1
      <3>3. Sent(c, d) \in [Conns -> Connection]
        BY <1>1, SentUpdate, OpenIsAlive DEF Changed
      <3> QED
        BY <1>1, <2>1, <3>1, <3>2, <3>3 DEF Shape
    <2>2. CASE UNCHANGED <<doc, conn>>
      BY <1>1, <2>2 DEF Shape
    <2> QED
      BY <2>1, <2>2
  <1> QED
    BY <1>1, <1>2, <1>3 DEF Shape, link, relay

\* Taking a message keeps the shapes.
LEMMA TakeShape ==
  ASSUME LiveInv, NEW c \in Clients, NEW d \in Docs,
         phase' \in [Clients -> {"idle", "opening", "live"}],
         doc' = [doc EXCEPT ![c] = d], Shown(c, Shows(d)) \/ UNCHANGED <<text, logged>>,
         conn' \in [Conns -> Connection], Synced(c) \/ UNCHANGED <<provider, attempts>>,
         UNCHANGED <<prior, isJoiner, cur, relay, users>>
  PROVE  Shape'
  <1>1. Shape
    BY DEF LiveInv
  <1>2. text' \in [Clients -> SUBSET Items] /\ logged' \in [Clients -> SUBSET Items]
    BY <1>1, ShowsItems DEF Shown, Shape
  <1>3. doc' \in [Clients -> Docs]
    BY <1>1 DEF Shape
  <1>4. 0 \in 0 .. MaxAttempts
    BY LiveConstants
  <1>5. provider' \in [Clients -> {"none", "dialing", "open", "synced"}] /\ attempts' \in [Clients -> 0 .. MaxAttempts]
    BY <1>1, <1>4 DEF Synced, Shape
  <1> QED
    BY <1>1, <1>2, <1>3, <1>5 DEF Shape, relay, users

\* What the owner seeds the room with.
Before == Merge(doc[Owner], Head(Mine(Owner).down).doc)
SeededDoc == [ins |-> Before.ins \cup SeedOf(prior[Owner], cur[Owner]), del |-> Before.ins]

\* What the owner seeds the room with is a document.
LEMMA SeedFacts ==
  ASSUME LiveInv, Arrives(Owner, "hello")
  PROVE  /\ Before \in Docs /\ SeededDoc \in Docs
         /\ SeedOf(prior[Owner], cur[Owner]) \subseteq Items
  <1>1. Shape /\ Owner \in Clients
    BY DEF LiveInv, Clients
  <1>2. Head(Mine(Owner).down).doc \in Docs /\ cur[Owner] \in Conns
    BY <1>1, ArrivesFacts
  <1>3. Before \in Docs
    BY <1>1, <1>2, MergeDocs DEF Before, Shape
  <1>4. prior[Owner] \in SUBSET Items
    BY <1>1 DEF Shape
  <1> QED
    BY <1>2, <1>3, <1>4, SeedShape DEF SeededDoc

\* The owner's first sync in these terms.
LEMMA OwnerSeedsFacts ==
  ASSUME LiveInv, OwnerSeeds
  PROVE  /\ Arrives(Owner, "hello") /\ phase[Owner] = "opening"
         /\ doc' = [doc EXCEPT ![Owner] = SeededDoc]
         /\ Shown(Owner, SeedOf(prior[Owner], cur[Owner]))
         /\ conn' = [conn EXCEPT ![cur[Owner]].down = Tail(@), ![cur[Owner]].up = Append(@, Msg("update", SeededDoc))]
         /\ phase' = [phase EXCEPT ![Owner] = "live"] /\ Synced(Owner)
         /\ UNCHANGED <<prior, isJoiner, cur, relay, users>>
  BY DEF OwnerSeeds, SeededDoc, SeedOf, Before

\* The relay's steps keep the shapes.
RelayedConn(n, m) ==
  [k \in Conns |->
     IF k = n THEN [conn[k] EXCEPT !.up = Tail(@)]
     ELSE IF Merge(room, m.doc) # room /\ conn[k].held /\ conn[k].alive /\ ~conn[k].closing
     THEN [conn[k] EXCEPT !.down = Append(@, Msg("update", m.doc))]
     ELSE conn[k]]

\* A message the relay passes on, appended to the queue of one connection.
LEMMA PassedOn ==
  ASSUME NEW k \in Connection, NEW m \in Messages
  PROVE  [k EXCEPT !.down = Append(@, m)] \in Connection
  <1>1. PICK q \in Seq(Messages) : q = Append(k.down, m)
    BY AppendSaid DEF Connection
  <1>2. [k EXCEPT !.down = q] \in Connection
    BY DEF Connection
  <1> QED
    BY <1>1, <1>2

\* The relay's message handler in these terms.
LEMMA RelaysFacts ==
  ASSUME LiveInv, NEW n \in Conns, Relays(n)
  PROVE  /\ conn[n].up # << >> /\ conn[n].held /\ conn[n] \in Connection
         /\ Head(conn[n].up) \in Messages /\ Head(conn[n].up).doc \in Docs /\ Tail(conn[n].up) \in Seq(Messages)
         /\ room' = Merge(room, Head(conn[n].up).doc) /\ room' \in Docs
         /\ conn' = RelayedConn(n, Head(conn[n].up)) /\ conn' \in [Conns -> Connection]
         /\ UNCHANGED <<phase, editor, doc, link, ownerHere, users>>
  <1>1. Shape
    BY DEF LiveInv
  <1>2. conn[n] \in Connection /\ conn[n].up # << >> /\ conn[n].up \in Seq(Messages) /\ conn[n].held
    BY <1>1 DEF Shape, Relays, Connection
  <1>3. Head(conn[n].up) \in Messages /\ Tail(conn[n].up) \in Seq(Messages)
    BY <1>2, TailSaid
  <1>4. PICK m \in Messages : m = Head(conn[n].up)
    BY <1>3
  <1>5. PICK q \in Seq(Messages) : q = Tail(conn[n].up)
    BY <1>3
  <1>6. m.doc \in Docs /\ Msg("update", m.doc) \in Messages
    BY DEF Messages, Msg
  <1>7. conn' = RelayedConn(n, m) /\ room' = Merge(room, m.doc)
        /\ UNCHANGED <<phase, editor, doc, link, ownerHere, users>>
    BY <1>4 DEF Relays, RelayedConn
  <1>8. room' \in Docs
    BY <1>1, <1>6, <1>7, MergeDocs DEF Shape
  <1>9. ASSUME NEW k \in Conns PROVE conn'[k] \in Connection
    <2>1. conn[k] \in Connection
      BY <1>1 DEF Shape
    <2>2. CASE k = n
      <3>1. conn'[k] = [conn[n] EXCEPT !.up = q]
        BY <1>4, <1>5, <1>7, <2>2 DEF RelayedConn
      <3> QED
        BY <1>2, <3>1 DEF Connection
    <2>3. CASE k # n
      <3>1. PICK k2 \in Connection : k2 = [conn[k] EXCEPT !.down = Append(@, Msg("update", m.doc))]
        BY <1>6, <2>1, PassedOn
      <3>2. conn'[k] = k2 \/ conn'[k] = conn[k]
        BY <1>7, <2>3, <3>1 DEF RelayedConn
      <3> QED
        BY <2>1, <3>2
    <2> QED
      BY <2>2, <2>3
  <1>10. conn' \in [Conns -> Connection]
    <2>1. conn' = [k \in Conns |-> conn'[k]]
      BY <1>7 DEF RelayedConn
    <2> QED
      BY <1>9, <2>1
  <1> QED
    BY <1>2, <1>3, <1>4, <1>6, <1>7, <1>8, <1>10

\* What the relay does to the connections when the owner's is closed.
Told == Msg("ownerLeft", EmptyDoc)
ClosedConn(n) ==
  [k \in Conns |->
     IF k = n THEN [conn[k] EXCEPT !.held = FALSE]
     ELSE IF conn[k].held /\ ~conn[k].closing
     THEN [conn[k] EXCEPT !.closing = TRUE,
                          !.down = IF conn[k].alive THEN Append(@, Told) ELSE @]
     ELSE conn[k]]

\* The relay's close handler in these terms.
LEMMA ClosedFacts ==
  ASSUME LiveInv, NEW n \in Conns, Closed(n)
  PROVE  /\ conn[n].held /\ ~conn[n].alive /\ conn[n] \in Connection
         /\ conn' \in [Conns -> Connection] /\ room' \in Docs /\ ownerHere' \in BOOLEAN
         /\ \/ conn' = [conn EXCEPT ![n].held = FALSE] /\ room' = room
            \/ conn' = ClosedConn(n) /\ room' = [room EXCEPT !.del = room.ins]
         /\ UNCHANGED <<phase, editor, doc, link, users>>
  <1>1. Shape
    BY DEF LiveInv
  <1>2. conn[n] \in Connection /\ conn[n].held /\ ~conn[n].alive
    BY <1>1 DEF Shape, Closed
  <1>3. [conn[n] EXCEPT !.held = FALSE] \in Connection
    BY <1>2 DEF Connection
  <1>4. UNCHANGED <<phase, editor, doc, link, users>>
    BY DEF Closed
  <1>5. CASE conn[n].who # Owner
    <2>1. conn' = [conn EXCEPT ![n].held = FALSE] /\ room' = room /\ ownerHere' = ownerHere
      BY <1>5 DEF Closed
    <2> QED
      BY <1>1, <1>2, <1>3, <1>4, <2>1 DEF Shape
  <1>6. CASE ~(conn[n].who # Owner)
    <2>1. conn' = ClosedConn(n) /\ room' = [room EXCEPT !.del = room.ins] /\ ownerHere' = FALSE
      BY <1>6 DEF Closed, ClosedConn, Told
    <2>2. room' \in Docs
      BY <1>1, <2>1 DEF Shape, Docs
    <2>3. ASSUME NEW k \in Conns PROVE conn'[k] \in Connection
      <3>1. conn[k] \in Connection /\ Told \in Messages
        BY <1>1 DEF Shape, Told, Msg, Messages, EmptyDoc, Docs
      <3>2. PICK q \in Seq(Messages) : q = IF conn[k].alive THEN Append(conn[k].down, Told) ELSE conn[k].down
        BY <3>1, AppendSaid DEF Connection
      <3>3. [conn[k] EXCEPT !.closing = TRUE, !.down = q] \in Connection /\ [conn[k] EXCEPT !.held = FALSE] \in Connection
        BY <3>1 DEF Connection
      <3>4. \/ conn'[k] = [conn[k] EXCEPT !.closing = TRUE, !.down = q]
            \/ conn'[k] = [conn[k] EXCEPT !.held = FALSE] \/ conn'[k] = conn[k]
        BY <2>1, <3>2 DEF ClosedConn
      <3> QED
        BY <3>1, <3>3, <3>4
    <2>4. conn' \in [Conns -> Connection]
      <3>1. conn' = [k \in Conns |-> conn'[k]]
        BY <2>1 DEF ClosedConn
      <3> QED
        BY <2>3, <3>1
    <2> QED
      BY <1>2, <1>4, <2>1, <2>2, <2>4
  <1> QED
    BY <1>5, <1>6

-----------------------------------------------------------------------------
(* Clients start, stop, and lose their connections. *)

\* What the invariant says of a client and of its connection.
LEMMA ClientFacts ==
  ASSUME LiveInv, NEW c \in Clients
  PROVE  Shape /\ OwnKnown(c) /\ LinkHolds(c) /\ StepsTogether(c) /\ Bound(c) /\ NoTrace(c)
  BY DEF LiveInv, ClientOK

\* A client whose connection was hung up.
LEMMA HungUpStep ==
  ASSUME LiveInv, Shape', NEW c \in Clients,
         conn' = Hung(c), cur' = [cur EXCEPT ![c] = 0], Others(c), UNCHANGED <<relay, users>>,
         Known \subseteq Known' => ClientOK(c)'
  PROVE  LiveInv'
  <1>1. Shape
    BY DEF LiveInv
  <1>2. PICK n \in 0 .. MaxConns : n = cur[c]
    BY <1>1 DEF Shape
  <1>3. n \in Conns => (Greeted(conn[n]) => Greeted(conn'[n]))
    BY <1>1, <1>2, HungUp, EmptyQueue DEF Greeted, Conns
  <1>4. typed <= typed'
    BY LiveConstants, <1>1 DEF Shape, users
  <1>5. Only(c, n)
    BY <1>1, <1>2, <1>3, <1>4, HungUp DEF Only, Own, Changed, relay
  <1>6. Known \subseteq Known'
    BY <1>1, <1>4, <1>5, KnownStays DEF Only
  <1>7. ASSUME n \in Conns PROVE ConnOK(n)'
    <2>1. n # 0 /\ ConnOK(n)
      BY <1>7 DEF Conns, LiveInv
    <2>2. /\ conn' = Hung(c) /\ ~Hung(c)[n].alive
          /\ Hung(c)[n].up = conn[n].up /\ Hung(c)[n].down = << >>
      BY <1>1, <1>2, <2>1, HungUp
    <2>3. QueueOf(conn'[n].up, Known') /\ QueueOf(conn'[n].down, Known')
      BY <1>6, <2>1, <2>2, MoreItems, EmptyQueue DEF ConnOK, QueueOf
    <2> QED
      BY <2>1, <2>2, <2>3 DEF ConnOK, QueueOf
  <1> QED
    BY <1>5, <1>6, <1>7, OnlyStep

\* A provider that is destroyed.
LEMMA DisconnectStep ==
  ASSUME LiveInv, Shape', NEW c \in Clients, Disconnect(c), Others(c), UNCHANGED <<relay, users>>,
         phase'[c] # "live",
         text'[c] \cup prior'[c] \subseteq text[c] \cup prior[c],
         c # Owner => /\ phase'[c] = "idle" => ~isJoiner'[c]
                      /\ isJoiner'[c] => prior'[c] = logged'[c]
                      /\ ~isJoiner'[c] => text'[c] = logged'[c]
  PROVE  LiveInv'
  <1>1. /\ Shape /\ OwnKnown(c)
        /\ provider'[c] = "none" /\ cur'[c] = 0 /\ doc'[c] = EmptyDoc
    BY ClientFacts DEF Disconnect, Shape
  <1>2. ASSUME Known \subseteq Known' PROVE ClientOK(c)'
    <2>1. OwnKnown(c)'
      <3>1. DocOf(doc'[c], Known')
        BY <1>1 DEF DocOf, EmptyDoc
      <3>2. \A x \in text'[c] \cup prior'[c] : x.edit <= typed'
        BY <1>1 DEF OwnKnown, users
      <3> QED
        BY <3>1, <3>2 DEF OwnKnown, DocOf
    <2>2. LinkHolds(c)'
      BY <1>1 DEF LinkHolds, EmptyDoc
    <2>3. StepsTogether(c)' /\ Bound(c)' /\ NoTrace(c)'
      BY <1>1 DEF StepsTogether, Bound, NoTrace
    <2> QED
      BY <2>1, <2>2, <2>3 DEF ClientOK
  <1> QED
    BY <1>2, HungUpStep DEF Disconnect

\* A client whose session ends.
LEMMA DisableStep ==
  ASSUME LiveInv, NEW c \in Clients, Disable(c), UNCHANGED <<relay, users>>,
         phase' = [phase EXCEPT ![c] = "idle"]
           \/ (phase[c] # "idle" /\ phase' = [phase EXCEPT ![c] = IF @ = "live" THEN "idle" ELSE @])
  PROVE  LiveInv'
  <1>1. Shape /\ NoTrace(c)
    BY ClientFacts
  <1>2. Shape'
    <2>1. phase' \in [Clients -> {"idle", "opening", "live"}]
      BY <1>1 DEF Shape
    <2> QED
      BY <1>1, <2>1, DisableShape DEF Shape, relay, users
  <1>3. Others(c)
    BY <1>1 DEF Others, Disable, Disconnect, Shown, Shape
  <1>4. phase'[c] # "live"
    BY <1>1 DEF Shape
  <1>5. /\ text'[c] \cup prior'[c] \subseteq text[c] \cup prior[c]
        /\ ~isJoiner'[c] /\ (c # Owner => text'[c] = logged'[c])
    BY <1>1 DEF Disable, Shown, Shape, NoTrace
  <1> QED
    BY <1>2, <1>3, <1>4, <1>5, DisconnectStep DEF Disable

\* A client that retries keeps its document.
LEMMA RetryStep ==
  ASSUME LiveInv, NEW c \in Clients, NEW a \in 0 .. MaxAttempts, Retries(c, a), UNCHANGED <<relay, users>>,
         provider[c] # "none"
  PROVE  LiveInv'
  <1>1. Shape /\ OwnKnown(c) /\ LinkHolds(c) /\ Bound(c) /\ NoTrace(c)
    BY ClientFacts
  <1>2. Shape'
    BY <1>1, RetryShape
  <1>3. Others(c)
    BY <1>1 DEF Others, Retries, Shape, editor
  <1>4. provider'[c] = "dialing" /\ cur'[c] = 0 /\ UNCHANGED <<phase, text, prior, isJoiner, logged, doc, typed>>
    BY <1>1 DEF Retries, Shape, editor, users
  <1>5. ASSUME Known \subseteq Known' PROVE ClientOK(c)'
    <2>1. DocOf(doc'[c], Known')
      BY <1>1, <1>4, <1>5, MoreItems DEF OwnKnown
    <2>2. OwnKnown(c)'
      BY <1>1, <1>4, <2>1 DEF OwnKnown, DocOf
    <2>3. LinkHolds(c)'
      BY <1>1, <1>4 DEF LinkHolds
    <2>4. StepsTogether(c)' /\ Bound(c)' /\ NoTrace(c)'
      BY <1>1, <1>4 DEF StepsTogether, Bound, NoTrace, Shows
    <2> QED
      BY <2>2, <2>3, <2>4 DEF ClientOK
  <1> QED
    BY <1>2, <1>3, <1>5, HungUpStep DEF Retries

\* A session that starts puts the joiner's text aside, with its log.
LEMMA StartStep == ASSUME LiveInv, NEW c \in Clients, Start(c) PROVE LiveInv'
  <1>1. Shape /\ OwnKnown(c) /\ LinkHolds(c) /\ NoTrace(c)
    BY ClientFacts
  <1>2. Shape'
    BY <1>1 DEF Start, Shape, relay, users
  <1>3. Others(c)
    BY <1>1 DEF Others, Start, Shape
  <1>4. cur[c] = 0 /\ cur' = cur /\ conn' = conn /\ doc[c] = EmptyDoc /\ room' = room /\ typed' = typed
    BY <1>1 DEF Start, LinkHolds, relay, users
  <1>5. typed <= typed'
    BY LiveConstants, <1>1, <1>4 DEF Shape
  <1>6. Only(c, 0)
    BY <1>3, <1>4, <1>5 DEF Only, Own
  <1>7. Known \subseteq Known'
    BY <1>1, <1>2, <1>4, <1>5, KnownStays
  <1>8. /\ phase'[c] = "opening" /\ provider'[c] = "dialing" /\ prior'[c] = text[c] /\ text' = text
        /\ logged' = logged /\ doc' = doc /\ (c # Owner => isJoiner'[c]) /\ phase[c] = "idle"
    BY <1>1 DEF Start, Shape
  <1>9. OwnKnown(c)'
    <2>1. DocOf(doc'[c], Known')
      BY <1>1, <1>7, <1>8, MoreItems DEF OwnKnown
    <2> QED
      BY <1>1, <1>4, <1>8, <2>1 DEF OwnKnown, DocOf
  <1>10. LinkHolds(c)'
    BY <1>4, <1>8 DEF LinkHolds
  <1>11. StepsTogether(c)' /\ Bound(c)' /\ NoTrace(c)'
    BY <1>1, <1>4, <1>8 DEF StepsTogether, Bound, NoTrace
  <1>12. ClientOK(c)'
    BY <1>9, <1>10, <1>11 DEF ClientOK
  <1>13. 0 \notin Conns
    BY DEF Conns
  <1> QED
    BY <1>2, <1>6, <1>12, <1>13, OnlyStep

\* A session that is stopped, or was not synced in time.
LEMMA StopStep == ASSUME LiveInv, NEW c \in Clients, Stop(c) \/ Timeout(c) PROVE LiveInv'
  BY DisableStep DEF Stop, Timeout

\* A client that is dialing or connected is not idle.
LEMMA FailingStep ==
  ASSUME LiveInv, NEW c \in Clients, Drop(c) \/ DialFails(c)
  PROVE  LiveInv'
  <1>1. Shape /\ LinkHolds(c)
    BY ClientFacts
  <1>2. provider[c] # "none" /\ phase[c] # "idle"
    BY <1>1 DEF LinkHolds, Drop, DialFails
  <1>3. UNCHANGED <<relay, users>>
    BY DEF Drop, DialFails
  <1>4. \/ \E a \in 0 .. MaxAttempts : Retries(c, a)
        \/ Disable(c) /\ phase' = [phase EXCEPT ![c] = IF @ = "live" THEN "idle" ELSE @]
    BY <1>1, DropCases, FailedCases DEF DialFails
  <1> QED
    BY <1>2, <1>3, <1>4, RetryStep, DisableStep

\* A client hears that the owner left.
LEMMA OwnerLeftStep == ASSUME LiveInv, NEW c \in Clients, OwnerLeft(c) PROVE LiveInv'
  <1>1. Shape /\ LinkHolds(c) /\ NoTrace(c)
    BY ClientFacts
  <1>2. UNCHANGED <<relay, users>>
    BY DEF OwnerLeft
  <1>3. CASE phase[c] = "live"
    BY <1>2, <1>3, DisableStep DEF OwnerLeft
  <1>4. CASE phase[c] # "live"
    <2>1. Disconnect(c) /\ UNCHANGED <<phase, text, prior, isJoiner, logged>>
      BY <1>4 DEF OwnerLeft, editor
    <2>2. Shape'
      BY <1>1, <1>2, <2>1, DisconnectShape DEF Shape, relay, users
    <2>3. Others(c)
      BY <1>1, <2>1 DEF Others, Disconnect, Shape
    <2> QED
      BY <1>1, <1>2, <1>4, <2>1, <2>2, <2>3, DisconnectStep DEF NoTrace
  <1> QED
    BY <1>3, <1>4

-----------------------------------------------------------------------------
(* Clients connect and write. *)

\* A connection that a step leaves alone.
LEMMA ConnKept ==
  ASSUME NEW n, ConnOK(n), conn'[n] = conn[n], cur' = cur, Known \subseteq Known'
  PROVE  ConnOK(n)'
  <1>1. QueueOf(conn'[n].up, Known') /\ QueueOf(conn'[n].down, Known')
    BY MoreItems DEF ConnOK
  <1> QED
    BY <1>1 DEF ConnOK, QueueOf

\* A connection as the relay admits it.
Fresh(c, q) == [NoConn EXCEPT !.who = c, !.used = TRUE, !.alive = TRUE, !.held = TRUE, !.down = q]

\* It is a connection, open, with nothing said by the client.
LEMMA FreshConn ==
  ASSUME NEW c \in Clients, NEW q \in Seq(Messages), NEW k2, k2 = Fresh(c, q)
  PROVE  /\ k2 \in Connection /\ k2.who = c /\ k2.used /\ k2.alive /\ k2.held /\ ~k2.closing
         /\ k2.up = << >> /\ k2.down = q
  <1>1. NoConn \in Connection /\ ~NoConn.closing /\ NoConn.up = << >>
    <2>1. << >> \in Seq(Messages)
      OBVIOUS
    <2> QED
      BY <2>1 DEF NoConn, Connection, Clients
  <1> QED
    BY <1>1 DEF Connection, Fresh

\* The relay admits a connection.
LEMMA DialStep == ASSUME LiveInv, NEW c \in Clients, NEW n \in Conns, Dial(c, n) PROVE LiveInv'
  <1> DEFINE k2 == [NoConn EXCEPT !.who = c, !.used = TRUE, !.alive = TRUE, !.held = TRUE,
                                  !.down = << Msg("hello", room) >>]
  <1>1. Shape /\ OwnKnown(c) /\ LinkHolds(c) /\ Bound(c) /\ NoTrace(c)
    BY ClientFacts
  <1>2. /\ provider[c] = "dialing" /\ ~conn[n].used /\ conn' = [conn EXCEPT ![n] = k2]
        /\ cur' = [cur EXCEPT ![c] = n] /\ provider' = [provider EXCEPT ![c] = "open"]
        /\ UNCHANGED <<phase, text, prior, isJoiner, logged, doc, attempts, room, typed, erased>>
        /\ ownerHere' = (ownerHere \/ c = Owner)
    BY DEF Dial, editor, users
  <1>3. room \in Docs /\ Msg("hello", room) \in Messages
    BY <1>1 DEF Shape, Msg, Messages
  <1>4. PICK q \in Seq(Messages) : q = << Msg("hello", room) >>
    <2>1. \A m \in Messages : << m >> \in Seq(Messages)
      OBVIOUS
    <2> QED
      BY <1>3, <2>1
  <1>5. /\ k2 \in Connection /\ k2.who = c /\ k2.used /\ k2.alive /\ k2.held /\ ~k2.closing
        /\ k2.up = << >> /\ k2.down = q
    <2>1. k2 = Fresh(c, q)
      BY <1>4 DEF Fresh
    <2> HIDE DEF k2
    <2> QED
      BY <2>1, FreshConn
  <1>6. k2 \in Connection
    BY <1>5
  <1>7. conn' \in [Conns -> Connection] /\ conn'[n] = k2 /\ \A k \in Conns : k # n => conn'[k] = conn[k]
    BY <1>1, <1>2, <1>6 DEF Shape
  <1> HIDE DEF k2
  <1>8. Shape'
    <2>1. n \in 0 .. MaxConns
      BY LiveConstants DEF Conns
    <2>2. cur' \in [Clients -> 0 .. MaxConns] /\ provider' \in [Clients -> {"none", "dialing", "open", "synced"}]
      BY <1>1, <1>2, <2>1 DEF Shape
    <2> QED
      BY <1>1, <1>2, <1>7, <2>2 DEF Shape
  <1>9. cur[c] = 0
    BY <1>1, <1>2 DEF LinkHolds
  <1>10. typed <= typed'
    BY <1>1, <1>2, LiveConstants DEF Shape
  <1>11. Only(c, n)
    BY <1>1, <1>2, <1>7, <1>9, <1>10 DEF Only, Own, Others, Greeted, Shape
  <1>12. Known \subseteq Known'
    BY <1>1, <1>8, <1>10, <1>11, KnownStays DEF Only
  <1>13. /\ cur'[c] = n /\ provider'[c] = "open" /\ n # 0
         /\ conn'[n].who = c /\ conn'[n].used /\ conn'[n].alive /\ conn'[n].held /\ ~conn'[n].closing
         /\ conn'[n].up = << >> /\ conn'[n].down = q
    BY <1>1, <1>2, <1>5, <1>7 DEF Shape, Conns
  <1>14. OwnKnown(c)'
    <2>1. DocOf(doc'[c], Known')
      BY <1>1, <1>2, <1>12, MoreItems DEF OwnKnown
    <2> QED
      BY <1>1, <1>2, <2>1 DEF OwnKnown, DocOf
  <1>15. LinkHolds(c)'
    BY <1>1, <1>2, <1>13 DEF LinkHolds
  <1>16. StepsTogether(c)'
    <2>1. doc'[c] \in Docs /\ room' = room /\ conn'[n] \in Connection
      BY <1>1, <1>2, <1>7 DEF Shape
    <2>2. InStep(doc'[c], conn'[n], room', provider'[c])
      BY <1>3, <1>4, <1>13, <2>1, DialedInStep
    <2> QED
      BY <1>13, <2>2 DEF StepsTogether, InStep
  <1>17. Bound(c)' /\ NoTrace(c)'
    BY <1>1, <1>2, <1>13 DEF Bound, NoTrace, Shows
  <1>18. ConnOK(n)'
    <2>1. DocOf(room, Known')
      BY <1>12, MoreItems DEF LiveInv
    <2>2. Said(q) = {Msg("hello", room)}
      BY <1>3, <1>4 DEF Said
    <2>3. Msg("hello", room).doc = room
      BY DEF Msg
    <2>4. QueueOf(conn'[n].down, Known') /\ QueueOf(conn'[n].up, Known') /\ Said(conn'[n].up) = {}
      BY <1>13, <2>1, <2>2, <2>3, EmptyQueue DEF QueueOf
    <2> QED
      BY <1>13, <2>4 DEF ConnOK, QueueOf
  <1>19. ClientOK(c)'
    BY <1>14, <1>15, <1>16, <1>17 DEF ClientOK
  <1> QED
    BY <1>8, <1>11, <1>18, <1>19, OnlyStep

\* A client whose editor is live writes to its document and its connection.
LEMMA WriteStep ==
  ASSUME LiveInv, Shape', NEW c \in Clients, phase[c] = "live", NEW d \in Docs, NEW t,
         Shown(c, t), t = Shows(Merge(doc[c], d)),
         doc' = [doc EXCEPT ![c] = Merge(@, d)], conn' = Sent(c, d),
         UNCHANGED <<phase, prior, isJoiner, link, relay>>, typed <= typed',
         Known \subseteq Known' => DocOf(d, Known')
  PROVE  LiveInv'
  <1>1. Shape /\ OwnKnown(c) /\ LinkHolds(c) /\ StepsTogether(c) /\ NoTrace(c)
    BY ClientFacts
  <1>2. PICK n \in 0 .. MaxConns : n = cur[c]
    BY <1>1 DEF Shape
  <1>3. /\ UNCHANGED <<phase, prior, isJoiner, provider, cur, room>>
        /\ doc'[c] = Merge(doc[c], d) /\ text'[c] = t
    BY <1>1 DEF link, relay, Shown, Shape
  <1>4. /\ Changed(conn', n)
        /\ n = 0 => conn' = conn
        /\ n # 0 => /\ n \in Conns /\ SameLine(conn'[n], conn[n])
                    /\ conn'[n].up = Append(conn[n].up, Msg("update", d)) /\ conn'[n].down = conn[n].down
        /\ Msg("update", d) \in Messages
    BY <1>1, <1>2, SentUpdate, OpenIsAlive
  <1>5. Msg("update", d).type = "update" /\ Msg("update", d).doc = d
    BY DEF Msg
  <1>6. Others(c)
    BY <1>1, <1>3 DEF Others, Shown, Shape
  <1>7. n \in Conns => (Greeted(conn[n]) => Greeted(conn'[n]))
    BY <1>4 DEF Greeted, SameLine, Conns
  <1>8. Only(c, n)
    BY <1>2, <1>3, <1>4, <1>6, <1>7 DEF Only, Own, Changed
  <1>9. Known \subseteq Known'
    BY <1>1, <1>8, KnownStays DEF Only
  <1>10. doc[c] \in Docs /\ doc'[c] \in Docs /\ DocOf(d, Known')
    BY <1>1, <1>3, <1>9, MergeDocs DEF Shape
  <1>11. DocOf(doc'[c], Known')
    <2>1. DocOf(doc[c], Known')
      BY <1>1, <1>9, MoreItems DEF OwnKnown
    <2> QED
      BY <1>3, <1>10, <2>1 DEF DocOf, Merge
  <1>12. OwnKnown(c)'
    <2>1. \A x \in Known' : x.edit <= typed'
      BY DEF Known
    <2>2. ASSUME NEW x \in text'[c] PROVE x.edit <= typed'
      <3>1. x \in doc'[c].ins
        BY <1>3, <2>2 DEF Shows
      <3> QED
        BY <1>11, <2>1, <3>1 DEF DocOf
    <2>3. ASSUME NEW x \in prior[c] PROVE x.edit <= typed'
      <3>1. x.edit <= typed /\ x \in Items
        BY <1>1, <2>3 DEF OwnKnown, Shape
      <3>2. x.edit \in Nat /\ typed \in Nat /\ typed' \in Nat
        BY LiveConstants, <1>1, <3>1 DEF Items, Shape
      <3> QED
        BY <3>1, <3>2
    <2> QED
      BY <1>3, <1>11, <2>2, <2>3 DEF OwnKnown, DocOf
  <1>13. LinkHolds(c)'
    BY <1>1, <1>2, <1>3, <1>4 DEF LinkHolds, SameLine
  <1>14. StepsTogether(c)'
    <2> SUFFICES ASSUME n # 0 PROVE InStep(doc'[c], conn'[n], room', provider'[c])
      BY <1>2, <1>3 DEF StepsTogether, InStep
    <2>1. /\ InStep(doc[c], conn[n], room, provider[c])
          /\ conn[n] \in Connection /\ conn'[n] \in Connection /\ room \in Docs
      BY <1>1, <1>2, <1>4 DEF StepsTogether, Shape
    <2>2. Within(doc[c], doc'[c]) /\ Within(d, doc'[c]) /\ Within(doc'[c], Merge(doc[c], d))
      BY <1>3, <1>10 DEF Within, Merge
    <2>3. PICK k \in Connection, k2 \in Connection : k = conn[n] /\ k2 = conn'[n]
      BY <2>1
    <2>4. PICK d1 \in Docs, d2 \in Docs, m \in Messages :
            d1 = doc[c] /\ d2 = doc'[c] /\ m = Msg("update", d)
      BY <1>4, <1>10
    <2>5. PICK r \in Docs : r = room
      BY <2>1
    <2>6. PICK p : p = provider[c]
      OBVIOUS
    <2>7. /\ InStep(d1, k, r, p) /\ Within(d1, d2) /\ Within(m.doc, d2) /\ Within(d2, Merge(d1, m.doc))
          /\ k2.up = Append(k.up, m) /\ k2.down = k.down /\ k2.closing = k.closing
      BY <1>4, <1>5, <2>1, <2>2, <2>3, <2>4, <2>5, <2>6 DEF SameLine
    <2>8. InStep(d2, k2, r, p)
      BY <2>7, WriteInStep
    <2> QED
      BY <1>3, <2>3, <2>4, <2>5, <2>6, <2>8
  <1>15. Bound(c)' /\ NoTrace(c)'
    <2>1. Bound(c)'
      BY <1>3 DEF Bound, Shows
    <2>2. NoTrace(c)'
      BY <1>1, <1>3 DEF NoTrace, LinkHolds, Shown
    <2> QED
      BY <2>1, <2>2
  <1>16. ASSUME n \in Conns PROVE ConnOK(n)'
    <2>1. n # 0 /\ ConnOK(n) /\ conn[n] \in Connection /\ conn[n].up \in Seq(Messages)
      BY <1>1, <1>16 DEF Conns, LiveInv, Shape, Connection
    <2>2. Said(conn'[n].up) = Said(conn[n].up) \cup {Msg("update", d)}
      BY <1>4, <2>1, AppendSaid
    <2>3. QueueOf(conn[n].up, Known') /\ QueueOf(conn[n].down, Known')
      BY <1>9, <2>1, MoreItems DEF ConnOK
    <2>4. QueueOf(conn'[n].up, Known') /\ QueueOf(conn'[n].down, Known')
      BY <1>4, <1>5, <1>10, <2>1, <2>2, <2>3 DEF QueueOf
    <2>5. \A m \in Said(conn'[n].up) : m.type = "update"
      BY <1>5, <2>1, <2>2 DEF ConnOK
    <2> QED
      BY <1>3, <1>4, <2>1, <2>4, <2>5 DEF ConnOK, QueueOf, SameLine
  <1>17. ClientOK(c)'
    BY <1>12, <1>13, <1>14, <1>15 DEF ClientOK
  <1> QED
    BY <1>8, <1>16, <1>17, OnlyStep

\* The next item is new, and known once it is typed.
LEMMA NewItem ==
  ASSUME LiveInv, typed < MaxEdits, NEW x, x = [edit |-> typed + 1, copy |-> 0]
  PROVE  x \in Items /\ x \notin Known /\ (typed' = typed + 1 => x \in Known')
  <1>1. Shape /\ typed \in Nat
    BY LiveConstants DEF LiveInv, Shape
  <1>2. x \in Items /\ x.edit = typed + 1 /\ x.copy = 0
    BY <1>1, TypedItem
  <1>3. x \notin Known
    BY <1>1, <1>2 DEF Known
  <1>4. ASSUME typed' = typed + 1 PROVE x \in Known'
    <2>1. x.edit <= typed'
      BY <1>1, <1>2, <1>4
    <2> QED
      BY <1>2, <2>1 DEF Known
  <1> QED
    BY <1>2, <1>3, <1>4

\* Typing in an editor that is not live touches only the text and its log.
LEMMA TypeAloneStep ==
  ASSUME LiveInv, Shape', NEW c \in Clients, phase[c] # "live", NEW t, Shown(c, t),
         UNCHANGED <<doc, conn, phase, prior, isJoiner, link, relay>>, typed <= typed',
         \A x \in t : x.edit <= typed'
  PROVE  LiveInv'
  <1>1. Shape /\ OwnKnown(c) /\ LinkHolds(c) /\ StepsTogether(c) /\ NoTrace(c)
    BY ClientFacts
  <1>2. PICK n \in 0 .. MaxConns : n = cur[c]
    BY <1>1 DEF Shape
  <1>3. UNCHANGED <<doc, conn, phase, prior, isJoiner, provider, cur, room>> /\ text'[c] = t
    BY <1>1 DEF link, relay, Shown, Shape
  <1>4. Others(c)
    BY <1>1, <1>3 DEF Others, Shown, Shape
  <1>5. Only(c, n)
    BY <1>2, <1>3, <1>4 DEF Only, Own
  <1>6. Known \subseteq Known'
    BY <1>1, <1>5, KnownStays DEF Only
  <1>7. OwnKnown(c)'
    <2>1. DocOf(doc'[c], Known')
      BY <1>1, <1>3, <1>6, MoreItems DEF OwnKnown
    <2>2. ASSUME NEW x \in prior[c] PROVE x.edit <= typed'
      <3>1. x.edit <= typed /\ x \in Items
        BY <1>1, <2>2 DEF OwnKnown, Shape
      <3>2. x.edit \in Nat /\ typed \in Nat /\ typed' \in Nat
        BY LiveConstants, <1>1, <3>1 DEF Items, Shape
      <3> QED
        BY <3>1, <3>2
    <2> QED
      BY <1>3, <2>1, <2>2 DEF OwnKnown, DocOf
  <1>8. LinkHolds(c)'
    BY <1>1, <1>3 DEF LinkHolds
  <1>9. StepsTogether(c)'
    BY <1>1, <1>3 DEF StepsTogether, InStep
  <1>10. Bound(c)' /\ NoTrace(c)'
    BY <1>1, <1>3 DEF Bound, NoTrace, Shown, Shape
  <1>11. ClientOK(c)'
    BY <1>7, <1>8, <1>9, <1>10 DEF ClientOK
  <1>12. n \in Conns => ConnOK(n)'
    BY <1>3, <1>6, ConnKept DEF LiveInv
  <1> QED
    BY <1>5, <1>11, <1>12, OnlyStep

\* Typing: the item is new, so the document has not deleted it.
LEMMA TypeStep == ASSUME LiveInv, NEW c \in Clients, Type(c) PROVE LiveInv'
  <1>1. Shape /\ OwnKnown(c) /\ Bound(c)
    BY ClientFacts
  <1>2. PICK x : x = [edit |-> typed + 1, copy |-> 0]
    OBVIOUS
  <1>3. PICK d : d = [ins |-> {x}, del |-> {}]
    OBVIOUS
  <1>4. /\ typed < MaxEdits /\ typed' = typed + 1 /\ Shown(c, text[c] \cup {x})
        /\ IF phase[c] = "live"
           THEN doc' = [doc EXCEPT ![c] = Merge(@, d)] /\ conn' = Sent(c, d)
           ELSE UNCHANGED <<doc, conn>>
        /\ UNCHANGED <<phase, prior, isJoiner, link, relay, erased>>
    BY <1>2, <1>3 DEF Type
  <1>5. x \in Items /\ x \notin Known /\ x \in Known'
    BY <1>2, <1>4, NewItem
  <1>6. d \in Docs /\ DocOf(d, Known') /\ d.ins = {x} /\ d.del = {}
    BY <1>3, <1>5, SmallDocs DEF DocOf
  <1>7. typed' \in 0 .. MaxEdits /\ typed <= typed'
    BY <1>1, <1>4, TypedItem
  <1>8. PICK t \in SUBSET Items : t = text[c] \cup {x}
    BY <1>1, <1>5 DEF Shape
  <1>9. Shape'
    <2>1. erased' \in SUBSET (1 .. MaxEdits)
      BY <1>1, <1>4 DEF Shape
    <2> QED
      BY <1>4, <1>6, <1>7, <1>8, <2>1, WriteShape
  <1>10. CASE phase[c] = "live"
    <2>1. t = Shows(Merge(doc[c], d))
      <3>1. x \notin doc[c].del /\ text[c] = Shows(doc[c])
        BY <1>1, <1>5, <1>10 DEF OwnKnown, DocOf, Bound
      <3> QED
        BY <1>6, <1>8, <3>1 DEF Shows, Merge
    <2> QED
      BY <1>4, <1>6, <1>7, <1>8, <1>9, <1>10, <2>1, WriteStep
  <1>11. CASE phase[c] # "live"
    <2>1. ASSUME NEW y \in t PROVE y.edit <= typed'
      <3>1. CASE y = x
        BY <1>5, <3>1 DEF Known
      <3>2. CASE y \in text[c]
        <4>1. y.edit <= typed /\ y \in Items
          BY <1>1, <3>2 DEF OwnKnown, Shape
        <4>2. y.edit \in Nat /\ typed \in Nat
          BY LiveConstants, <1>1, <4>1 DEF Items, Shape
        <4> QED
          BY <1>4, <4>1, <4>2
      <3> QED
        BY <1>8, <2>1, <3>1, <3>2
    <2> QED
      BY <1>4, <1>7, <1>8, <1>9, <1>11, <2>1, TypeAloneStep
  <1> QED
    BY <1>10, <1>11

\* Erasing: the item is known.
LEMMA EraseStep == ASSUME LiveInv, NEW c \in Clients, NEW x \in Items, Erase(c, x) PROVE LiveInv'
  <1>1. Shape /\ OwnKnown(c) /\ Bound(c)
    BY ClientFacts
  <1>2. PICK d : d = [ins |-> {x}, del |-> {x}]
    OBVIOUS
  <1>3. /\ phase[c] = "live" /\ x \in text[c] /\ x.copy = 0 /\ Shown(c, text[c] \ {x})
        /\ doc' = [doc EXCEPT ![c] = Merge(@, d)] /\ conn' = Sent(c, d)
        /\ erased' = erased \cup {x.edit} /\ typed' = typed
        /\ UNCHANGED <<phase, prior, isJoiner, link, relay>>
    BY <1>2 DEF Erase
  <1>4. d \in Docs /\ d.ins = {x} /\ d.del = {x}
    BY <1>2, SmallDocs
  <1>5. x \in Known
    BY <1>1, <1>3 DEF OwnKnown, Known
  <1>6. Known \subseteq Known' => DocOf(d, Known')
    BY <1>4, <1>5 DEF DocOf
  <1>7. PICK t \in SUBSET Items : t = text[c] \ {x}
    BY <1>1 DEF Shape
  <1>8. t = Shows(Merge(doc[c], d))
    BY <1>1, <1>3, <1>4, <1>7 DEF Bound, Shows, Merge
  <1>9. typed' \in 0 .. MaxEdits /\ typed <= typed' /\ erased' \in SUBSET (1 .. MaxEdits)
    <2>1. x.edit \in 1 .. MaxEdits
      BY DEF Items
    <2>2. typed' \in 0 .. MaxEdits /\ typed <= typed'
      BY LiveConstants, <1>1, <1>3 DEF Shape
    <2>3. erased \in SUBSET (1 .. MaxEdits)
      BY <1>1 DEF Shape
    <2>4. erased' \in SUBSET (1 .. MaxEdits)
      BY <1>3, <2>1, <2>3
    <2> QED
      BY <2>2, <2>4
  <1>10. Shape'
    BY <1>3, <1>4, <1>7, <1>9, WriteShape
  <1> QED
    BY <1>3, <1>4, <1>6, <1>7, <1>8, <1>9, <1>10, WriteStep

-----------------------------------------------------------------------------
(* Messages arrive at a client. *)

\* An answer that is queued, if there is one.
Queued(k2, k, items) ==
  \/ k2.up = k.up
  \/ \E m \in Messages : k2.up = Append(k.up, m) /\ m.type = "update" /\ DocOf(m.doc, items)

\* A client that takes a message is live and synced after it.
LEMMA TakeStep ==
  ASSUME LiveInv, Shape', NEW c \in Clients, NEW type, Arrives(c, type), NEW n, n = cur[c],
         Changed(conn', n), SameLine(conn'[n], conn[n]), conn'[n].down = Tail(conn[n].down),
         Known \subseteq Known' => Queued(conn'[n], conn[n], Known') /\ DocOf(doc'[c], Known'),
         Others(c), UNCHANGED <<room, typed, cur, prior, isJoiner>>,
         phase'[c] = "live", provider'[c] = "synced", text'[c] = Shows(doc'[c]),
         isJoiner[c] => logged'[c] = logged[c],
         InStep(doc'[c], conn'[n], room, provider'[c])
  PROVE  LiveInv'
  <1>1. Shape /\ OwnKnown(c) /\ LinkHolds(c) /\ StepsTogether(c) /\ NoTrace(c)
    BY ClientFacts
  <1>2. /\ n \in Conns /\ conn[n] \in Connection /\ conn[n].alive /\ conn[n].down \in Seq(Messages)
        /\ Said(conn[n].down) = {Head(conn[n].down)} \cup Said(Tail(conn[n].down))
        /\ conn[n].up \in Seq(Messages)
    BY <1>1, ArrivesFacts
  <1>3. n # 0 /\ ConnOK(n)
    BY <1>2 DEF Conns, LiveInv
  <1>4. typed <= typed'
    BY LiveConstants, <1>1 DEF Shape
  <1>5. Greeted(conn'[n])
    BY <1>2, <1>3 DEF Greeted, InStep, SameLine, ConnOK
  <1>6. Only(c, n)
    BY <1>4, <1>5 DEF Only, Own, Changed
  <1>7. Known \subseteq Known'
    BY <1>1, <1>4, <1>6, KnownStays DEF Only
  <1>8. DocOf(doc'[c], Known') /\ Queued(conn'[n], conn[n], Known')
    BY <1>7
  <1>9. OwnKnown(c)'
    <2>1. \A x \in Known' : x.edit <= typed'
      BY DEF Known
    <2>2. ASSUME NEW x \in text'[c] PROVE x.edit <= typed'
      BY <1>8, <2>1, <2>2 DEF Shows, DocOf
    <2>3. \A x \in prior'[c] : x.edit <= typed'
      BY <1>1 DEF OwnKnown
    <2> QED
      BY <1>8, <2>2, <2>3 DEF OwnKnown, DocOf
  <1>10. LinkHolds(c)'
    BY <1>1, <1>2, <1>3 DEF LinkHolds, SameLine
  <1>11. StepsTogether(c)'
    BY DEF StepsTogether, InStep
  <1>12. Bound(c)' /\ NoTrace(c)'
    <2>1. Bound(c)'
      BY DEF Bound, Shows
    <2>2. NoTrace(c)'
      BY <1>1, <1>3 DEF NoTrace, LinkHolds
    <2> QED
      BY <2>1, <2>2
  <1>13. ClientOK(c)'
    BY <1>9, <1>10, <1>11, <1>12 DEF ClientOK
  <1>14. ConnOK(n)'
    <2>1. QueueOf(conn[n].up, Known') /\ QueueOf(conn[n].down, Known')
      BY <1>3, <1>7, MoreItems DEF ConnOK
    <2>2. QueueOf(conn'[n].down, Known')
      BY <1>2, <2>1 DEF QueueOf
    <2>3. QueueOf(conn'[n].up, Known') /\ \A m \in Said(conn'[n].up) : m.type = "update"
      <3>1. CASE conn'[n].up = conn[n].up
        BY <1>3, <2>1, <3>1 DEF ConnOK
      <3>2. CASE conn'[n].up # conn[n].up
        <4>1. PICK m \in Messages : conn'[n].up = Append(conn[n].up, m) /\ m.type = "update" /\ DocOf(m.doc, Known')
          BY <1>8, <3>2 DEF Queued
        <4>2. Said(conn'[n].up) = Said(conn[n].up) \cup {m}
          BY <1>2, <4>1, AppendSaid
        <4> QED
          BY <1>3, <2>1, <4>1, <4>2 DEF ConnOK, QueueOf
      <3> QED
        BY <3>1, <3>2
    <2> QED
      BY <1>2, <1>3, <2>2, <2>3 DEF ConnOK, SameLine, QueueOf
  <1> QED
    BY <1>6, <1>13, <1>14, OnlyStep

\* What the invariant says of a message that arrives.
LEMMA ArrivedFacts ==
  ASSUME LiveInv, NEW c \in Clients, NEW type, Arrives(c, type), NEW n, n = cur[c], NEW h, h = Head(conn[n].down)
  PROVE  /\ n \in Conns /\ n # 0 /\ conn[n] \in Connection /\ doc[c] \in Docs /\ room \in Docs
         /\ Head(Mine(c).down) = h
         /\ h \in Messages /\ h.type = type /\ h.doc \in Docs /\ conn[n].down # << >>
         /\ DocOf(h.doc, Known) /\ DocOf(doc[c], Known)
         /\ InStep(doc[c], conn[n], room, provider[c])
         /\ type = "hello" => ~Greeted(conn[n]) /\ provider[c] = "open"
         /\ type = "update" => provider[c] = "synced" /\ phase[c] = "live"
  <1>1. Shape /\ OwnKnown(c) /\ LinkHolds(c) /\ StepsTogether(c)
    BY ClientFacts
  <1>2. /\ n \in Conns /\ conn[n] \in Connection /\ h \in Messages /\ h.type = type /\ h.doc \in Docs
        /\ h \in Said(conn[n].down) /\ conn[n].down # << >> /\ Head(Mine(c).down) = h
    BY <1>1, ArrivesFacts
  <1>3. n # 0 /\ ConnOK(n)
    BY <1>2 DEF Conns, LiveInv
  <1>4. InStep(doc[c], conn[n], room, provider[c])
    BY <1>1, <1>3 DEF StepsTogether
  <1>5. provider[c] \in {"open", "synced"}
    BY <1>1, <1>3 DEF LinkHolds
  <1>6. type = "hello" => ~Greeted(conn[n]) /\ provider[c] = "open"
    BY <1>2, <1>4, <1>5 DEF Greeted, NoHello, InStep
  <1>7. type = "update" => provider[c] = "synced"
    BY <1>2, <1>4, <1>5 DEF InStep
  <1>8. provider[c] = "synced" => phase[c] = "live"
    BY <1>1 DEF LinkHolds, Shape
  <1> QED
    BY <1>1, <1>2, <1>3, <1>4, <1>6, <1>7, <1>8 DEF OwnKnown, Shape, ConnOK, QueueOf

\* Merging two documents of known items.
LEMMA MergedOf ==
  ASSUME NEW K, NEW a, NEW b, DocOf(a, K), DocOf(b, K)
  PROVE  DocOf(Merge(a, b), K)
  BY DEF DocOf, Merge

\* A remote update arrives, which only a live client gets.
LEMMA RemoteStep == ASSUME LiveInv, NEW c \in Clients, Remote(c) PROVE LiveInv'
  <1>1. Shape
    BY DEF LiveInv
  <1>2. Arrives(c, "update")
    BY DEF Remote
  <1>3. PICK n : n = cur[c]
    OBVIOUS
  <1>4. PICK h : h = Head(conn[n].down)
    OBVIOUS
  <1>5. /\ n \in Conns /\ n # 0 /\ conn[n] \in Connection /\ doc[c] \in Docs /\ room \in Docs
        /\ Head(Mine(c).down) = h
        /\ h \in Messages /\ h.type = "update" /\ h.doc \in Docs /\ conn[n].down # << >>
        /\ DocOf(h.doc, Known) /\ DocOf(doc[c], Known)
        /\ InStep(doc[c], conn[n], room, provider[c]) /\ provider[c] = "synced" /\ phase[c] = "live"
    BY <1>2, <1>3, <1>4, ArrivedFacts
  <1>6. PICK d \in Docs : d = Merge(doc[c], h.doc)
    BY <1>5, MergeDocs
  <1>7. /\ doc' = [doc EXCEPT ![c] = d] /\ doc'[c] = d /\ Shown(c, Shows(d)) /\ conn' = Taken(c)
        /\ UNCHANGED <<phase, prior, isJoiner, link, relay, users>>
    BY <1>1, <1>5, <1>6 DEF Remote, Shape
  <1>8. /\ Changed(conn', n) /\ SameLine(conn'[n], conn[n])
        /\ conn'[n].up = conn[n].up /\ conn'[n].down = Tail(conn[n].down)
    BY <1>1, <1>2, <1>3, <1>7, TakenOff
  <1>9. Shape'
    <2>1. conn' \in [Conns -> Connection] /\ phase' \in [Clients -> {"idle", "opening", "live"}]
      BY <1>1, <1>7, <1>8 DEF Changed, Shape
    <2> QED
      BY <1>7, <2>1, TakeShape DEF link
  <1>10. Others(c) /\ text'[c] = Shows(doc'[c]) /\ (isJoiner[c] => logged'[c] = logged[c])
    BY <1>1, <1>7 DEF Others, Shown, Shape, link
  <1>11. InStep(doc'[c], conn'[n], room, provider'[c])
    <2>1. PICK k2 \in Connection : k2 = conn'[n]
      BY <1>5, <1>9 DEF Shape
    <2>2. PICK k \in Connection, d1 \in Docs, r \in Docs : k = conn[n] /\ d1 = doc[c] /\ r = room
      BY <1>5
    <2>3. PICK p : p = provider[c]
      OBVIOUS
    <2>4. /\ InStep(d1, k, r, p) /\ p = "synced" /\ k.down # << >> /\ Head(k.down).type # "ownerLeft"
          /\ k2.up = k.up /\ k2.down = Tail(k.down) /\ k2.closing = k.closing
      BY <1>4, <1>5, <1>8, <2>1, <2>2, <2>3 DEF SameLine
    <2>5. InStep(Merge(d1, Head(k.down).doc), k2, r, p)
      BY <2>4, TakeInStep
    <2> QED
      BY <1>4, <1>6, <1>7, <2>1, <2>2, <2>3, <2>5 DEF link
  <1>12. ASSUME Known \subseteq Known' PROVE DocOf(doc'[c], Known')
    BY <1>5, <1>6, <1>7, <1>12, MoreItems, MergedOf
  <1>13. \A K : Queued(conn'[n], conn[n], K)
    BY <1>8 DEF Queued
  <1>14. UNCHANGED <<room, typed, cur, prior, isJoiner>> /\ phase'[c] = "live" /\ provider'[c] = "synced"
    BY <1>5, <1>7 DEF link, relay, users
  <1> QED
    BY <1>2, <1>3, <1>8, <1>9, <1>10, <1>11, <1>12, <1>13, <1>14, TakeStep

\* A joiner's first sync.
LEMMA JoinerEntersStep == ASSUME LiveInv, NEW c \in Clients, JoinerEnters(c) PROVE LiveInv'
  <1>1. Shape /\ LinkHolds(c)
    BY ClientFacts
  <1>2. Arrives(c, "hello") /\ c # Owner /\ phase[c] = "opening"
    BY DEF JoinerEnters
  <1>3. PICK n : n = cur[c]
    OBVIOUS
  <1>4. PICK h : h = Head(conn[n].down)
    OBVIOUS
  <1>5. /\ n \in Conns /\ n # 0 /\ conn[n] \in Connection /\ doc[c] \in Docs /\ room \in Docs
        /\ Head(Mine(c).down) = h
        /\ h \in Messages /\ h.type = "hello" /\ h.doc \in Docs /\ conn[n].down # << >>
        /\ DocOf(h.doc, Known) /\ DocOf(doc[c], Known)
        /\ InStep(doc[c], conn[n], room, provider[c]) /\ provider[c] = "open"
    BY <1>2, <1>3, <1>4, ArrivedFacts
  <1>6. PICK d \in Docs : d = Merge(doc[c], h.doc)
    BY <1>5, MergeDocs
  <1>7. /\ doc' = [doc EXCEPT ![c] = d] /\ doc'[c] = d /\ Shown(c, Shows(d)) /\ conn' = Taken(c)
        /\ phase' = [phase EXCEPT ![c] = "live"] /\ Synced(c)
        /\ UNCHANGED <<prior, isJoiner, cur, relay, users>>
    BY <1>1, <1>5, <1>6 DEF JoinerEnters, Shape
  <1>8. /\ Changed(conn', n) /\ SameLine(conn'[n], conn[n])
        /\ conn'[n].up = conn[n].up /\ conn'[n].down = Tail(conn[n].down)
    BY <1>1, <1>2, <1>3, <1>7, TakenOff
  <1>9. Shape'
    <2>1. conn' \in [Conns -> Connection] /\ phase' \in [Clients -> {"idle", "opening", "live"}]
      BY <1>1, <1>7, <1>8 DEF Changed, Shape
    <2> QED
      BY <1>7, <2>1, TakeShape
  <1>10. /\ Others(c) /\ text'[c] = Shows(doc'[c]) /\ (isJoiner[c] => logged'[c] = logged[c])
         /\ phase'[c] = "live" /\ provider'[c] = "synced"
    BY <1>1, <1>7 DEF Others, Shown, Shape, Synced
  <1>11. InStep(doc'[c], conn'[n], room, provider'[c])
    <2>1. PICK k2 \in Connection : k2 = conn'[n]
      BY <1>5, <1>9 DEF Shape
    <2>2. PICK k \in Connection, d1 \in Docs, r \in Docs : k = conn[n] /\ d1 = doc[c] /\ r = room
      BY <1>5
    <2>3. PICK p, p2 : p = provider[c] /\ p2 = provider'[c]
      OBVIOUS
    <2>4. /\ InStep(d1, k, r, p) /\ p = "open" /\ p2 = "synced" /\ d1 = EmptyDoc
          /\ k2.up = k.up /\ k2.down = Tail(k.down) /\ k2.closing = k.closing
      BY <1>1, <1>2, <1>5, <1>8, <1>10, <2>1, <2>2, <2>3 DEF SameLine, LinkHolds
    <2>5. InStep(Merge(d1, Head(k.down).doc), k2, r, p2)
      BY <2>4, EnterInStep
    <2> QED
      BY <1>4, <1>6, <1>7, <2>1, <2>2, <2>3, <2>5
  <1>12. ASSUME Known \subseteq Known' PROVE DocOf(doc'[c], Known')
    BY <1>5, <1>6, <1>7, <1>12, MoreItems, MergedOf
  <1>13. \A K : Queued(conn'[n], conn[n], K)
    BY <1>8 DEF Queued
  <1>14. UNCHANGED <<room, typed, cur, prior, isJoiner>>
    BY <1>7 DEF relay, users
  <1> QED
    BY <1>2, <1>3, <1>8, <1>9, <1>10, <1>11, <1>12, <1>13, <1>14, TakeStep

\* A client that answers the room's first sync.
LEMMA AnswerStep ==
  ASSUME LiveInv, NEW c \in Clients, Arrives(c, "hello"), NEW n, n = cur[c], NEW h, h = Head(conn[n].down),
         NEW d2 \in Docs, NEW e \in Docs,
         conn' = [conn EXCEPT ![n].down = Tail(@), ![n].up = Append(@, Msg("update", e))],
         doc' = [doc EXCEPT ![c] = d2], Shown(c, Shows(d2)),
         phase' = [phase EXCEPT ![c] = "live"], Synced(c),
         UNCHANGED <<prior, isJoiner, cur, relay, users>>,
         Within(Merge(doc[c], h.doc), d2), Within(e, d2), Within(d2, Merge(e, h.doc)),
         Known \subseteq Known' /\ Greeted(conn'[n]) => DocOf(d2, Known') /\ DocOf(e, Known')
  PROVE  LiveInv'
  <1>1. Shape /\ LinkHolds(c)
    BY ClientFacts
  <1>5. /\ n \in Conns /\ n # 0 /\ conn[n] \in Connection /\ doc[c] \in Docs /\ room \in Docs
        /\ h \in Messages /\ h.type = "hello" /\ h.doc \in Docs /\ conn[n].down # << >>
        /\ InStep(doc[c], conn[n], room, provider[c]) /\ provider[c] = "open"
    BY ArrivedFacts
  <1>6. PICK m : m = Msg("update", e)
    OBVIOUS
  <1>7. m \in Messages /\ m.type = "update" /\ m.doc = e
    BY <1>6 DEF Msg, Messages
  <1>8. /\ Changed(conn', n) /\ SameLine(conn'[n], conn[n])
        /\ conn'[n].up = Append(conn[n].up, m) /\ conn'[n].down = Tail(conn[n].down)
    <2>1. PICK f : f = conn'
      OBVIOUS
    <2>2. f = AnswerConn(n, e)
      BY <2>1 DEF AnswerConn
    <2>3. /\ Changed(f, n) /\ SameLine(f[n], conn[n])
          /\ f[n].up = Append(conn[n].up, Msg("update", e)) /\ f[n].down = Tail(conn[n].down)
      BY <1>1, <2>2, Answered
    <2> QED
      BY <1>6, <2>1, <2>3
  <1>9. Shape'
    <2>1. conn' \in [Conns -> Connection] /\ phase' \in [Clients -> {"idle", "opening", "live"}]
      BY <1>1, <1>8 DEF Changed, Shape
    <2> QED
      BY <2>1, TakeShape
  <1>10. /\ Others(c) /\ text'[c] = Shows(doc'[c]) /\ doc'[c] = d2 /\ (isJoiner[c] => logged'[c] = logged[c])
         /\ phase'[c] = "live" /\ provider'[c] = "synced"
    BY <1>1 DEF Others, Shown, Shape, Synced
  <1>11. InStep(doc'[c], conn'[n], room, provider'[c])
    <2>1. PICK k2 \in Connection : k2 = conn'[n]
      BY <1>5, <1>9 DEF Shape
    <2>2. PICK k \in Connection, d1 \in Docs, r \in Docs : k = conn[n] /\ d1 = doc[c] /\ r = room
      BY <1>5
    <2>3. PICK p, p2 : p = provider[c] /\ p2 = provider'[c]
      OBVIOUS
    <2>4. /\ InStep(d1, k, r, p) /\ p = "open" /\ p2 = "synced"
          /\ k2.up = Append(k.up, m) /\ k2.down = Tail(k.down) /\ k2.closing = k.closing
          /\ Within(Merge(d1, Head(k.down).doc), d2) /\ Within(m.doc, d2)
          /\ Within(d2, Merge(m.doc, Head(k.down).doc))
      BY <1>5, <1>7, <1>8, <1>10, <2>1, <2>2, <2>3 DEF SameLine
    <2>5. InStep(d2, k2, r, p2)
      BY <1>7, <2>4, AnswerInStep
    <2> QED
      BY <1>10, <2>1, <2>2, <2>3, <2>5
  <1>12. Greeted(conn'[n])
    <2>1. conn[n].used
      BY <1>1, <1>5 DEF LinkHolds, LiveInv, ConnOK
    <2> QED
      BY <1>8, <1>10, <1>11, <2>1 DEF Greeted, InStep, SameLine
  <1>13. ASSUME Known \subseteq Known'
         PROVE  DocOf(doc'[c], Known') /\ Queued(conn'[n], conn[n], Known')
    BY <1>7, <1>8, <1>10, <1>12, <1>13 DEF Queued
  <1>14. UNCHANGED <<room, typed, cur, prior, isJoiner>>
    BY DEF relay, users
  <1> QED
    BY <1>8, <1>9, <1>10, <1>11, <1>13, <1>14, TakeStep

\* A sync after a reconnection.
LEMMA ResyncStep == ASSUME LiveInv, NEW c \in Clients, Resync(c) PROVE LiveInv'
  <1>1. Shape
    BY DEF LiveInv
  <1>2. Arrives(c, "hello") /\ phase[c] = "live"
    BY DEF Resync
  <1>3. PICK n : n = cur[c]
    OBVIOUS
  <1>4. PICK h : h = Head(conn[n].down)
    OBVIOUS
  <1>5. /\ doc[c] \in Docs /\ Head(Mine(c).down) = h /\ h.doc \in Docs
        /\ DocOf(h.doc, Known) /\ DocOf(doc[c], Known)
    BY <1>2, <1>3, <1>4, ArrivedFacts
  <1>6. PICK d2 \in Docs, e \in Docs : d2 = Merge(doc[c], h.doc) /\ e = doc[c]
    BY <1>5, MergeDocs
  <1>7. /\ conn' = [conn EXCEPT ![n].down = Tail(@), ![n].up = Append(@, Msg("update", e))]
        /\ doc' = [doc EXCEPT ![c] = d2] /\ Shown(c, Shows(d2)) /\ Synced(c)
        /\ UNCHANGED <<phase, prior, isJoiner, cur, relay, users>>
    BY <1>3, <1>5, <1>6 DEF Resync
  <1>8. phase' = [phase EXCEPT ![c] = "live"]
    BY <1>1, <1>2, <1>7 DEF Shape
  <1>9. Within(Merge(doc[c], h.doc), d2) /\ Within(e, d2) /\ Within(d2, Merge(e, h.doc))
    BY <1>6 DEF Within, Merge
  <1>10. ASSUME Known \subseteq Known' PROVE DocOf(d2, Known') /\ DocOf(e, Known')
    BY <1>5, <1>6, <1>10, MoreItems, MergedOf
  <1> QED
    BY <1>2, <1>3, <1>4, <1>7, <1>8, <1>9, <1>10, AnswerStep

\* The seed of a session is in no document yet: its items carry the connection, which has
\* not been greeted.
LEMMA SeedIsNew ==
  ASSUME NEW n \in Conns, ~Greeted(conn[n]), NEW t
  PROVE  SeedOf(t, n) \cap Known = {}
  <1> SUFFICES ASSUME NEW x \in SeedOf(t, n), x \in Known PROVE FALSE
    OBVIOUS
  <1>1. x.copy = n /\ n # 0
    BY DEF SeedOf, Conns
  <1> QED
    BY <1>1 DEF Known

\* The owner's first sync: the editor shows the seed, since no document had it.
LEMMA OwnerSeedsStep == ASSUME LiveInv, OwnerSeeds PROVE LiveInv'
  <1>0. Owner \in Clients
    BY DEF Clients
  <1>1. Shape /\ LinkHolds(Owner) /\ OwnKnown(Owner)
    BY <1>0, ClientFacts
  <1>2. /\ Arrives(Owner, "hello") /\ phase[Owner] = "opening"
        /\ doc' = [doc EXCEPT ![Owner] = SeededDoc]
        /\ Shown(Owner, SeedOf(prior[Owner], cur[Owner]))
        /\ conn' = [conn EXCEPT ![cur[Owner]].down = Tail(@), ![cur[Owner]].up = Append(@, Msg("update", SeededDoc))]
        /\ phase' = [phase EXCEPT ![Owner] = "live"] /\ Synced(Owner)
        /\ UNCHANGED <<prior, isJoiner, cur, relay, users>>
    BY OwnerSeedsFacts
  <1>3. PICK n : n = cur[Owner]
    OBVIOUS
  <1>4. PICK h : h = Head(conn[n].down)
    OBVIOUS
  <1>5. /\ n \in Conns /\ doc[Owner] \in Docs /\ Head(Mine(Owner).down) = h /\ h.doc \in Docs
        /\ DocOf(h.doc, Known) /\ DocOf(doc[Owner], Known) /\ ~Greeted(conn[n])
    BY <1>0, <1>2, <1>3, <1>4, ArrivedFacts
  <1>6. PICK b \in Docs : b = Merge(doc[Owner], h.doc) /\ b = Before
    BY <1>5, MergeDocs DEF Before
  <1>7. PICK seed \in SUBSET Items : seed = SeedOf(prior[Owner], n)
    BY <1>2, <1>3, SeedFacts
  <1>8. PICK d2 \in Docs : d2 = SeededDoc
    BY <1>2, SeedFacts
  <1>9. d2.ins = b.ins \cup seed /\ d2.del = b.ins
    BY <1>3, <1>6, <1>7, <1>8 DEF SeededDoc
  <1>10. DocOf(b, Known)
    BY <1>5, <1>6, MergedOf
  <1>11. seed = Shows(d2)
    <2>1. seed \cap Known = {}
      BY <1>5, <1>7, SeedIsNew
    <2>2. b.ins \subseteq Known
      BY <1>10 DEF DocOf
    <2> QED
      BY <1>9, <2>1, <2>2 DEF Shows
  <1>12. Within(Merge(doc[Owner], h.doc), d2) /\ Within(d2, d2) /\ Within(d2, Merge(d2, h.doc))
    <2>1. b.del \subseteq b.ins
      BY <1>10 DEF DocOf
    <2>2. Within(b, d2) /\ Within(d2, d2) /\ Within(d2, Merge(d2, h.doc))
      BY <1>9, <2>1 DEF Within, Merge
    <2> QED
      BY <1>6, <2>2
  <1>13. ASSUME Known \subseteq Known', Greeted(conn'[n]) PROVE DocOf(d2, Known')
    <2>1. ASSUME NEW x \in seed PROVE x \in Known'
      <3>1. PICK y \in prior[Owner] : x = [edit |-> y.edit, copy |-> n]
        BY <1>7, <2>1 DEF SeedOf
      <3>2. x.edit = y.edit /\ x.copy = n /\ y.edit <= typed
        BY <1>1, <3>1 DEF OwnKnown
      <3>3. typed' = typed /\ x \in Items
        BY <1>2, <2>1 DEF users
      <3> QED
        BY <1>13, <3>2, <3>3 DEF Known
    <2>2. b.ins \subseteq Known'
      BY <1>10, <1>13 DEF DocOf
    <2> QED
      BY <1>9, <2>1, <2>2 DEF DocOf
  <1>14. Shown(Owner, Shows(d2))
    BY <1>2, <1>3, <1>7, <1>11
  <1>15. /\ doc' = [doc EXCEPT ![Owner] = d2]
         /\ conn' = [conn EXCEPT ![n].down = Tail(@), ![n].up = Append(@, Msg("update", d2))]
    BY <1>2, <1>3, <1>8
  <1> QED
    BY <1>0, <1>2, <1>3, <1>4, <1>12, <1>13, <1>14, <1>15, AnswerStep

-----------------------------------------------------------------------------
(* Steps of the relay. *)

\* What a step of the relay may do to a connection.
Served(k2, k, items) ==
  /\ k2.who = k.who /\ k2.used = k.used /\ k2.alive = k.alive
  /\ k.alive => k2.held
  /\ ~k.alive => k2.down = k.down
  /\ NoHello(k.down) => NoHello(k2.down)
  /\ QueueOf(k2.up, items) /\ QueueOf(k2.down, items)
  /\ \A m \in Said(k2.up) : m.type = "update"

\* A step of the relay keeps the invariant if it serves each connection and keeps the
\* clients in step.
LEMMA RelayStep ==
  ASSUME LiveInv, Shape', UNCHANGED <<phase, editor, doc, link, users>>,
         \A k \in Conns : Served(conn'[k], conn[k], Known),
         \A x \in Clients : cur[x] # 0 => InStep(doc[x], conn'[cur[x]], room', provider[x]),
         DocOf(room', Known)
  PROVE  LiveInv'
  <1>1. Shape /\ UNCHANGED <<phase, text, prior, isJoiner, logged, doc, provider, cur, typed>>
    BY DEF LiveInv, editor, link, users
  <1>2. Known \subseteq Known'
    <2>1. typed <= typed'
      BY LiveConstants, <1>1 DEF Shape
    <2>2. \A n \in Conns : Greeted(conn[n]) => Greeted(conn'[n])
      BY DEF Served, Greeted
    <2> QED
      BY <1>1, <2>1, <2>2, KnownStays
  <1>3. ASSUME NEW c \in Clients PROVE ClientOK(c)'
    <2>1. OwnKnown(c) /\ LinkHolds(c) /\ Bound(c) /\ NoTrace(c)
      BY ClientFacts
    <2>2. OwnKnown(c)'
      <3>1. DocOf(doc'[c], Known')
        BY <1>1, <1>2, <2>1, MoreItems DEF OwnKnown
      <3> QED
        BY <1>1, <2>1, <3>1 DEF OwnKnown, DocOf
    <2>3. LinkHolds(c)'
      <3>1. cur[c] # 0 => cur[c] \in Conns
        BY <1>1 DEF Shape, Conns
      <3>2. cur[c] # 0 => conn'[cur[c]].alive /\ conn'[cur[c]].who = c
        BY <2>1, <3>1 DEF LinkHolds, Served
      <3> QED
        BY <1>1, <2>1, <3>2 DEF LinkHolds
    <2>4. StepsTogether(c)'
      BY <1>1 DEF StepsTogether, InStep
    <2>5. Bound(c)' /\ NoTrace(c)'
      BY <1>1, <2>1 DEF Bound, NoTrace, Shows
    <2> QED
      BY <2>2, <2>3, <2>4, <2>5 DEF ClientOK
  <1>4. ASSUME NEW n \in Conns PROVE ConnOK(n)'
    <2>1. Served(conn'[n], conn[n], Known) /\ ConnOK(n)
      BY DEF LiveInv
    <2>2. QueueOf(conn'[n].up, Known') /\ QueueOf(conn'[n].down, Known')
      BY <1>2, <2>1, MoreItems DEF Served
    <2> QED
      BY <1>1, <2>1, <2>2 DEF ConnOK, Served, QueueOf
  <1>5. DocOf(room', Known')
    BY <1>2, MoreItems
  <1>6. DocOf(room, Known)'
    BY <1>5 DEF DocOf
  <1> QED
    BY <1>3, <1>4, <1>6 DEF LiveInv

\* A connection the relay leaves as it is.
LEMMA LeftAsIs ==
  ASSUME LiveInv, NEW k \in Conns
  PROVE  Served(conn[k], conn[k], Known)
  BY DEF LiveInv, ConnOK, Served

\* A message the relay sends is no first sync.
LEMMA SentDown ==
  ASSUME NEW k \in Connection, NEW k2 \in Connection, NEW m \in Messages, NEW K,
         Served(k, k, K), k.alive, m.type # "hello", DocOf(m.doc, K),
         k2.who = k.who, k2.used = k.used, k2.alive = k.alive, k2.held = k.held, k2.up = k.up,
         k2.down = Append(k.down, m)
  PROVE  Served(k2, k, K)
  <1>1. k.down \in Seq(Messages)
    BY DEF Connection
  <1>2. Said(k2.down) = Said(k.down) \cup {m}
    BY <1>1, AppendSaid
  <1>3. QueueOf(k2.down, K) /\ (NoHello(k.down) => NoHello(k2.down))
    BY <1>2 DEF Served, QueueOf, NoHello
  <1> QED
    BY <1>3 DEF Served

\* The relay merges an update and passes it on.
LEMMA RelaysStep == ASSUME LiveInv, NEW n \in Conns, Relays(n) PROVE LiveInv'
  <1>1. Shape
    BY DEF LiveInv
  <1>2. /\ conn[n].up # << >> /\ conn[n] \in Connection
        /\ Head(conn[n].up) \in Messages /\ Head(conn[n].up).doc \in Docs /\ Tail(conn[n].up) \in Seq(Messages)
        /\ room' = Merge(room, Head(conn[n].up).doc) /\ room' \in Docs
        /\ conn' = RelayedConn(n, Head(conn[n].up)) /\ conn' \in [Conns -> Connection]
        /\ UNCHANGED <<phase, editor, doc, link, ownerHere, users>>
    BY RelaysFacts
  <1>3. PICK h \in Messages : h = Head(conn[n].up)
    BY <1>2
  <1>4. PICK m : m = Msg("update", h.doc)
    OBVIOUS
  <1>5. h.doc \in Docs /\ m \in Messages /\ m.type = "update" /\ m.doc = h.doc
    BY <1>2, <1>3, <1>4 DEF Msg, Messages
  <1>6. Shape'
    BY <1>1, <1>2 DEF Shape, editor, link, users
  <1>7. /\ Said(conn[n].up) = {h} \cup Said(Tail(conn[n].up))
        /\ conn[n].up \in Seq(Messages)
    BY <1>2, <1>3, TailSaid DEF Connection
  <1>8. DocOf(h.doc, Known) /\ DocOf(room, Known)
    BY <1>7 DEF LiveInv, ConnOK, QueueOf
  <1>9. DocOf(room', Known)
    BY <1>2, <1>3, <1>8, MergedOf
  <1>10. /\ conn'[n].who = conn[n].who /\ conn'[n].used = conn[n].used /\ conn'[n].alive = conn[n].alive
         /\ conn'[n].held = conn[n].held /\ conn'[n].closing = conn[n].closing
         /\ conn'[n].down = conn[n].down /\ conn'[n].up = Tail(conn[n].up)
    <2>1. PICK q \in Seq(Messages) : q = Tail(conn[n].up)
      BY <1>2
    <2>2. conn'[n] = [conn[n] EXCEPT !.up = q]
      BY <1>2, <2>1 DEF RelayedConn
    <2> QED
      BY <1>2, <2>1, <2>2 DEF Connection
  <1>11. ASSUME NEW k \in Conns, k # n
         PROVE  \/ /\ room' # room /\ conn[k].held /\ conn[k].alive /\ ~conn[k].closing
                   /\ SameLine(conn'[k], conn[k]) /\ conn'[k].up = conn[k].up
                   /\ conn'[k].down = Append(conn[k].down, m)
                \/ /\ ~(room' # room /\ conn[k].held /\ conn[k].alive /\ ~conn[k].closing)
                   /\ conn'[k] = conn[k]
    <2>1. conn[k] \in Connection
      BY <1>1 DEF Shape
    <2>2. conn'[k] = IF room' # room /\ conn[k].held /\ conn[k].alive /\ ~conn[k].closing
                     THEN [conn[k] EXCEPT !.down = Append(@, m)] ELSE conn[k]
      BY <1>2, <1>3, <1>4, <1>11 DEF RelayedConn
    <2>3. PICK q \in Seq(Messages) : q = Append(conn[k].down, m)
      BY <1>5, <2>1, AppendSaid DEF Connection
    <2>4. CASE room' # room /\ conn[k].held /\ conn[k].alive /\ ~conn[k].closing
      <3>1. conn'[k] = [conn[k] EXCEPT !.down = q]
        BY <2>2, <2>3, <2>4
      <3> QED
        BY <2>1, <2>3, <2>4, <3>1 DEF Connection, SameLine
    <2>5. CASE ~(room' # room /\ conn[k].held /\ conn[k].alive /\ ~conn[k].closing)
      BY <2>2, <2>5
    <2> QED
      BY <2>4, <2>5
  <1>12. ASSUME NEW k \in Conns PROVE Served(conn'[k], conn[k], Known)
    <2>1. Served(conn[k], conn[k], Known) /\ conn[k] \in Connection /\ conn'[k] \in Connection
      BY <1>1, <1>2, LeftAsIs DEF Shape
    <2>2. CASE k = n
      BY <1>7, <1>10, <2>1, <2>2 DEF Served, QueueOf
    <2>3. CASE k # n
      <3>1. CASE conn'[k] = conn[k]
        BY <2>1, <3>1
      <3>2. CASE conn'[k] # conn[k]
        BY <1>5, <1>8, <1>11, <2>1, <2>3, <3>2, SentDown DEF SameLine
      <3> QED
        BY <3>1, <3>2
    <2> QED
      BY <2>2, <2>3
  <1>13. ASSUME NEW x \in Clients, cur[x] # 0 PROVE InStep(doc[x], conn'[cur[x]], room', provider[x])
    <2>1. PICK c \in Conns : c = cur[x]
      BY <1>1, <1>13 DEF Shape, Conns
    <2>2. PICK k \in Connection, k2 \in Connection : k = conn[c] /\ k2 = conn'[c]
      BY <1>1, <1>2 DEF Shape
    <2>3. PICK d \in Docs, r \in Docs : d = doc[x] /\ r = room
      BY <1>1 DEF Shape
    <2>4. PICK p : p = provider[x]
      OBVIOUS
    <2>5. InStep(d, k, r, p) /\ k.alive /\ k.held
      BY <1>13, <2>1, <2>2, <2>3, <2>4, ClientFacts DEF StepsTogether, LinkHolds, LiveInv, ConnOK
    <2>6. PICK r2 \in Docs : r2 = room' /\ r2 = Merge(r, m.doc)
      BY <1>2, <1>3, <1>5, <2>3
    <2>7. CASE c = n
      <3>1. k.up # << >> /\ k2.up = Tail(k.up) /\ k2.down = k.down /\ k2.closing = k.closing /\ Head(k.up).doc = m.doc
        BY <1>2, <1>3, <1>5, <1>10, <2>2, <2>7
      <3>2. InStep(d, k2, Merge(r, Head(k.up).doc), p)
        BY <2>5, <3>1, MergedInStep
      <3> QED
        BY <2>1, <2>2, <2>3, <2>4, <2>6, <3>1, <3>2
    <2>8. CASE c # n
      <3>0. SUFFICES InStep(d, k2, r2, p)
        BY <2>1, <2>2, <2>3, <2>4, <2>6
      <3>1. CASE k.closing
        <4>1. k2 = k
          BY <1>11, <2>2, <2>8, <3>1
        <4>2. Within(r, r2)
          BY <1>5, <2>6, MergeDocs
        <4> QED
          BY <2>5, <3>1, <4>1, <4>2, ClosingInStep
      <3>2. CASE ~k.closing /\ r2 = r
        BY <1>11, <2>2, <2>3, <2>5, <2>6, <2>8, <3>2
      <3>3. CASE ~k.closing /\ r2 # r
        <4>1. k2.up = k.up /\ k2.down = Append(k.down, m) /\ k2.closing = k.closing
          BY <1>11, <2>2, <2>3, <2>5, <2>6, <2>8, <3>3 DEF SameLine
        <4>2. InStep(d, k2, Merge(r, m.doc), p)
          BY <1>5, <2>5, <3>3, <4>1, PassedInStep
        <4> QED
          BY <2>6, <4>2
      <3> QED
        BY <3>1, <3>2, <3>3
    <2> QED
      BY <2>7, <2>8
  <1> QED
    BY <1>2, <1>6, <1>9, <1>12, <1>13, RelayStep

\* The relay closes a connection, and the session with the owner's.
LEMMA ClosedStep == ASSUME LiveInv, NEW n \in Conns, Closed(n) PROVE LiveInv'
  <1>1. Shape
    BY DEF LiveInv
  <1>2. /\ conn[n].held /\ ~conn[n].alive /\ conn[n] \in Connection
        /\ conn' \in [Conns -> Connection] /\ room' \in Docs /\ ownerHere' \in BOOLEAN
        /\ \/ conn' = [conn EXCEPT ![n].held = FALSE] /\ room' = room
           \/ conn' = ClosedConn(n) /\ room' = [room EXCEPT !.del = room.ins]
        /\ UNCHANGED <<phase, editor, doc, link, users>>
    BY ClosedFacts
  <1>3. Shape'
    BY <1>1, <1>2 DEF Shape, editor, link, users
  <1>4. DocOf(room', Known) /\ Within(room, room')
    BY <1>1, <1>2 DEF LiveInv, DocOf, Within, Shape, Docs
  <1>5. /\ conn'[n].who = conn[n].who /\ conn'[n].used = conn[n].used /\ conn'[n].alive = conn[n].alive
        /\ conn'[n].down = conn[n].down /\ conn'[n].up = conn[n].up
    <2>1. conn'[n] = [conn[n] EXCEPT !.held = FALSE]
      BY <1>1, <1>2 DEF ClosedConn, Shape
    <2> QED
      BY <1>2, <2>1 DEF Connection
  <1>6. Told \in Messages /\ Told.type = "ownerLeft" /\ Told.doc = EmptyDoc
    BY DEF Told, Msg, Messages, EmptyDoc, Docs
  <1>7. ASSUME NEW k \in Conns, k # n
        PROVE  \/ conn'[k] = conn[k] /\ (room' = room \/ conn[k].closing \/ ~conn[k].held)
               \/ /\ conn[k].held /\ conn'[k].closing
                  /\ conn'[k].who = conn[k].who /\ conn'[k].used = conn[k].used
                  /\ conn'[k].alive = conn[k].alive /\ conn'[k].held = conn[k].held
                  /\ conn'[k].up = conn[k].up
                  /\ conn'[k].down = IF conn[k].alive THEN Append(conn[k].down, Told) ELSE conn[k].down
    <2>1. conn[k] \in Connection
      BY <1>1 DEF Shape
    <2>2. CASE conn' = [conn EXCEPT ![n].held = FALSE] /\ room' = room
      BY <1>1, <1>7, <2>2 DEF Shape
    <2>3. CASE conn' = ClosedConn(n)
      <3>1. PICK q \in Seq(Messages) : q = IF conn[k].alive THEN Append(conn[k].down, Told) ELSE conn[k].down
        BY <1>6, <2>1, AppendSaid DEF Connection
      <3>2. CASE conn[k].held /\ ~conn[k].closing
        <4>1. conn'[k] = [conn[k] EXCEPT !.closing = TRUE, !.down = q]
          BY <1>7, <2>3, <3>1, <3>2 DEF ClosedConn
        <4> QED
          BY <2>1, <3>1, <3>2, <4>1 DEF Connection
      <3>3. CASE ~(conn[k].held /\ ~conn[k].closing)
        BY <1>7, <2>3, <3>3 DEF ClosedConn
      <3> QED
        BY <3>2, <3>3
    <2> QED
      BY <1>2, <2>2, <2>3
  <1>8. ASSUME NEW k \in Conns PROVE Served(conn'[k], conn[k], Known)
    <2>1. Served(conn[k], conn[k], Known) /\ conn[k] \in Connection /\ conn'[k] \in Connection
      BY <1>1, <1>2, LeftAsIs DEF Shape
    <2>2. CASE k = n
      BY <1>2, <1>5, <2>1, <2>2 DEF Served
    <2>3. CASE k # n /\ conn'[k] = conn[k]
      BY <2>1, <2>3
    <2>4. CASE k # n /\ conn'[k] # conn[k]
      <3>1. /\ conn'[k].who = conn[k].who /\ conn'[k].used = conn[k].used
            /\ conn'[k].alive = conn[k].alive /\ conn'[k].held = conn[k].held
            /\ conn'[k].up = conn[k].up
            /\ conn'[k].down = IF conn[k].alive THEN Append(conn[k].down, Told) ELSE conn[k].down
        BY <1>7, <2>4
      <3>2. CASE conn[k].alive
        <4>1. DocOf(Told.doc, Known)
          BY <1>6 DEF DocOf, EmptyDoc
        <4> QED
          BY <1>6, <2>1, <3>1, <3>2, <4>1, SentDown
      <3>3. CASE ~conn[k].alive
        BY <2>1, <3>1, <3>3 DEF Served
      <3> QED
        BY <3>2, <3>3
    <2> QED
      BY <2>2, <2>3, <2>4
  <1>9. ASSUME NEW x \in Clients, cur[x] # 0 PROVE InStep(doc[x], conn'[cur[x]], room', provider[x])
    <2>1. PICK c \in Conns : c = cur[x]
      BY <1>1, <1>9 DEF Shape, Conns
    <2>2. PICK k \in Connection, k2 \in Connection : k = conn[c] /\ k2 = conn'[c]
      BY <1>1, <1>2 DEF Shape
    <2>3. PICK d \in Docs, r \in Docs, r2 \in Docs : d = doc[x] /\ r = room /\ r2 = room'
      BY <1>1, <1>2 DEF Shape
    <2>4. PICK p : p = provider[x]
      OBVIOUS
    <2>5. InStep(d, k, r, p) /\ k.alive /\ k.held
      BY <1>9, <2>1, <2>2, <2>3, <2>4, ClientFacts DEF StepsTogether, LinkHolds, LiveInv, ConnOK
    <2>6. c # n /\ Within(r, r2)
      BY <1>2, <1>4, <2>2, <2>3, <2>5
    <2>7. SUFFICES InStep(d, k2, r2, p)
      BY <2>1, <2>2, <2>3, <2>4
    <2>8. CASE k2 = k /\ r2 = r
      BY <2>5, <2>8
    <2>9. CASE k2 = k /\ k.closing
      BY <2>5, <2>6, <2>9, ClosingInStep
    <2>10. CASE k2.closing /\ k2.up = k.up /\ k2.down = Append(k.down, Told)
      BY <2>5, <2>6, <2>10, ToldInStep DEF Told
    <2> QED
      BY <1>7, <2>2, <2>3, <2>5, <2>6, <2>8, <2>9, <2>10
  <1> QED
    BY <1>2, <1>3, <1>4, <1>8, <1>9, RelayStep

-----------------------------------------------------------------------------
(* The invariant and the theorems. *)

\* The invariant holds at first.
LEMMA LiveInit == Init => LiveInv
  <1> SUFFICES ASSUME Init PROVE LiveInv
    OBVIOUS
  <1>1. EmptyDoc \in Docs /\ Owner \in Clients /\ << >> \in Seq(Messages)
    BY DEF EmptyDoc, Docs, Clients
  <1>2. NoConn \in Connection
    BY <1>1 DEF NoConn, Connection
  <1>3. 0 \in 0 .. MaxAttempts /\ 0 \in 0 .. MaxConns /\ 0 \in 0 .. MaxEdits
    BY LiveConstants
  <1>4. Shape
    BY <1>1, <1>2, <1>3 DEF Init, Shape
  <1>5. \A K : DocOf(EmptyDoc, K) /\ QueueOf(<< >>, K)
    BY EmptyQueue DEF DocOf, EmptyDoc, QueueOf
  <1>6. ASSUME NEW c \in Clients PROVE ClientOK(c)
    BY <1>5 DEF Init, ClientOK, OwnKnown, LinkHolds, StepsTogether, Bound, NoTrace
  <1>7. ASSUME NEW n \in Conns PROVE ConnOK(n)
    <2>1. conn[n].up = << >> /\ conn[n].down = << >> /\ ~conn[n].alive
      BY DEF Init, NoConn
    <2> QED
      BY <1>5, <2>1, EmptyQueue DEF ConnOK
  <1> QED
    BY <1>4, <1>5, <1>6, <1>7 DEF Init, LiveInv

\* The invariant is about these variables only.
LEMMA LiveStutter == LiveInv /\ UNCHANGED vars => LiveInv'
  <1> SUFFICES ASSUME LiveInv, UNCHANGED vars PROVE LiveInv'
    OBVIOUS
  <1>1. /\ UNCHANGED <<phase, text, prior, isJoiner, logged, doc, provider, attempts, cur, conn>>
        /\ UNCHANGED <<room, ownerHere, typed, erased>>
    BY DEF vars, editor, link, relay, users
  <1>2. Known' = Known
    BY <1>1 DEF Known
  <1>3. Shape'
    BY <1>1 DEF LiveInv, Shape
  <1>4. ASSUME NEW c \in Clients PROVE ClientOK(c)'
    <2>1. OwnKnown(c)' /\ LinkHolds(c)' /\ Bound(c)' /\ NoTrace(c)'
      BY <1>1, <1>2, ClientFacts DEF OwnKnown, LinkHolds, Bound, NoTrace, DocOf, Shows
    <2>2. StepsTogether(c)'
      BY <1>1, ClientFacts DEF StepsTogether, InStep
    <2> QED
      BY <2>1, <2>2 DEF ClientOK
  <1>5. ASSUME NEW n \in Conns PROVE ConnOK(n)'
    BY <1>1, <1>2, ConnKept DEF LiveInv
  <1>6. DocOf(room, Known)'
    BY <1>1, <1>2 DEF LiveInv, DocOf
  <1> QED
    BY <1>3, <1>4, <1>5, <1>6 DEF LiveInv

\* Every step keeps the invariant.
LEMMA LiveStep == LiveInv /\ [Next]_vars => LiveInv'
  <1> SUFFICES ASSUME LiveInv, [Next]_vars PROVE LiveInv'
    OBVIOUS
  <1>1. CASE OwnerSeeds
    BY <1>1, OwnerSeedsStep
  <1>2. ASSUME NEW c \in Clients, Timeout(c) \/ Stop(c) PROVE LiveInv'
    BY <1>2, StopStep
  <1>3. ASSUME NEW c \in Clients, DialFails(c) \/ Drop(c) PROVE LiveInv'
    BY <1>3, FailingStep
  <1>4. ASSUME NEW c \in Clients, JoinerEnters(c) PROVE LiveInv'
    BY <1>4, JoinerEntersStep
  <1>5. ASSUME NEW c \in Clients, Resync(c) PROVE LiveInv'
    BY <1>5, ResyncStep
  <1>6. ASSUME NEW c \in Clients, Remote(c) PROVE LiveInv'
    BY <1>6, RemoteStep
  <1>7. ASSUME NEW c \in Clients, OwnerLeft(c) PROVE LiveInv'
    BY <1>7, OwnerLeftStep
  <1>8. ASSUME NEW c \in Clients, NEW n \in Conns, Dial(c, n) PROVE LiveInv'
    BY <1>8, DialStep
  <1>9. ASSUME NEW n \in Conns, Relays(n) PROVE LiveInv'
    BY <1>9, RelaysStep
  <1>10. ASSUME NEW n \in Conns, Closed(n) PROVE LiveInv'
    BY <1>10, ClosedStep
  <1>11. ASSUME NEW c \in Clients, Type(c) PROVE LiveInv'
    BY <1>11, TypeStep
  <1>12. ASSUME NEW c \in Clients, Start(c) PROVE LiveInv'
    BY <1>12, StartStep
  <1>13. ASSUME NEW c \in Clients, NEW x \in Items, Erase(c, x) PROVE LiveInv'
    BY <1>13, EraseStep
  <1>14. CASE UNCHANGED vars
    BY <1>14, LiveStutter
  <1> QED
    BY <1>1, <1>2, <1>3, <1>4, <1>5, <1>6, <1>7, <1>8, <1>9, <1>10, <1>11, <1>12, <1>13, <1>14
    DEF Next, Progress

\* The invariant always holds.
LEMMA LiveAlways == Spec => []LiveInv
  BY LiveInit, LiveStep, PTL DEF Spec

\* Once nothing is on its way, what a connected client has is in the room, and the room's
\* is with the client: the session cannot be ending, because the relay's message would
\* still be on its way.
LEMMA QuietAgrees ==
  ASSUME LiveInv, Quiet, NEW c \in Clients, Connected(c)
  PROVE  text[c] = Shows(room)
  <1>1. Shape /\ LinkHolds(c) /\ StepsTogether(c) /\ Bound(c)
    BY ClientFacts
  <1>2. cur[c] \in Conns /\ cur[c] # 0
    BY <1>1 DEF LinkHolds, Connected, Shape, Conns
  <1>3. conn[cur[c]].up = << >> /\ conn[cur[c]].down = << >>
    BY <1>2 DEF Quiet
  <1>4. All(<< >>) = EmptyDoc
    BY EmptyQueue
  <1>5. Within(doc[c], Merge(room, EmptyDoc)) /\ Within(room, Merge(doc[c], EmptyDoc))
    BY <1>1, <1>2, <1>3, <1>4 DEF StepsTogether, InStep, Connected
  <1>6. doc[c].ins = room.ins /\ doc[c].del = room.del
    BY <1>5 DEF Within, Merge, EmptyDoc
  <1> QED
    BY <1>1, <1>6 DEF Bound, Shows, Connected

\* Editor, Y.Doc and room agree: the binding keeps editor and Y.Doc equal whatever is on
\* its way, and once nothing is, everyone connected sees the room's text, after any number
\* of lost connections, retries and returns.
THEOREM TextsAlwaysAgree == Spec => []TextsAgree
  <1>1. ASSUME LiveInv PROVE TextsAgree
    <2>1. Shape
      BY <1>1 DEF LiveInv
    <2>2. TypeOK
      <3>1. ASSUME NEW c \in Clients PROVE doc[c].ins \subseteq Items /\ doc[c].del \subseteq doc[c].ins
        BY <1>1, <2>1, ClientFacts DEF OwnKnown, DocOf, Shape, Docs
      <3>2. ASSUME NEW n \in Conns
            PROVE  conn[n].who \in Clients /\ \A m \in Said(conn[n].up) : m.type = "update"
        BY <1>1, <2>1 DEF LiveInv, ConnOK, Shape, Connection
      <3>3. room.ins \subseteq Items /\ room.del \subseteq room.ins
        BY <1>1, <2>1 DEF LiveInv, DocOf, Shape, Docs
      <3> QED
        BY <2>1, <3>1, <3>2, <3>3 DEF TypeOK, Shape, Said
    <2>3. BindingHolds
      BY <1>1, ClientFacts DEF BindingHolds, Bound
    <2>4. Converged
      BY <1>1, QuietAgrees DEF Converged
    <2> QED
      BY <2>2, <2>3, <2>4 DEF TextsAgree
  <1>2. LiveInv => TextsAgree
    BY <1>1
  <1> QED
    BY <1>2, LiveAlways, PTL

\* A joiner's log takes nothing of another writer, and its editor is back on its own text
\* whenever it is not a joiner.
LEMMA KeptStep ==
  ASSUME LiveInv, LiveInv', [Next]_vars
  PROVE  /\ JoinerLeavesNoTrace'
         /\ \A c \in Joiners : logged'[c] # logged[c] => ~isJoiner[c] /\ phase[c] # "live"
  <1>1. \A c \in Joiners : c \in Clients /\ c # Owner
    BY LiveConstants DEF Clients
  <1>2. JoinerLeavesNoTrace'
    <2> SUFFICES ASSUME NEW c \in Joiners, ~isJoiner'[c] PROVE text'[c] = logged'[c]
      BY DEF JoinerLeavesNoTrace
    <2>1. NoTrace(c)'
      BY <1>1 DEF LiveInv, ClientOK
    <2> QED
      BY <1>1, <2>1 DEF NoTrace
  <1>3. ASSUME NEW c \in Joiners, logged'[c] # logged[c] PROVE ~isJoiner[c]
    <2>1. Shape /\ c \in Clients /\ c # Owner
      BY <1>1 DEF LiveInv
    <2>2. \A x \in Clients : \A t : Shown(x, t) => (logged'[c] # logged[c] => ~isJoiner[c])
      BY <2>1 DEF Shown, Shape
    <2>3. \A x \in Clients : Disable(x) => ~isJoiner[c]
      BY <1>3, <2>2 DEF Disable
    <2>4. CASE OwnerSeeds
      BY <1>3, <2>1, <2>2, <2>4, OwnerSeedsFacts DEF Clients
    <2>5. ASSUME NEW x \in Clients, Type(x) PROVE ~isJoiner[c]
      BY <1>3, <2>2, <2>5 DEF Type
    <2>6. ASSUME NEW x \in Clients, NEW y \in Items, Erase(x, y) PROVE ~isJoiner[c]
      BY <1>3, <2>2, <2>6 DEF Erase
    <2>7. ASSUME NEW x \in Clients, Start(x) PROVE ~isJoiner[c]
      BY <1>3, <2>7 DEF Start
    <2>8. ASSUME NEW x \in Clients, Stop(x) \/ Timeout(x) PROVE ~isJoiner[c]
      BY <2>3, <2>8 DEF Stop, Timeout
    <2>9. ASSUME NEW x \in Clients, Drop(x) \/ DialFails(x) PROVE ~isJoiner[c]
      <3>1. (\E a \in 0 .. MaxAttempts : Retries(x, a)) \/ Disable(x)
        BY <2>1, <2>9, DropCases, FailedCases DEF DialFails
      <3>2. ASSUME NEW a, Retries(x, a) PROVE FALSE
        BY <1>3, <3>2 DEF Retries, editor
      <3> QED
        BY <2>3, <3>1, <3>2
    <2>10. ASSUME NEW x \in Clients, NEW n \in Conns, Dial(x, n) PROVE ~isJoiner[c]
      BY <1>3, <2>10 DEF Dial, editor
    <2>11. ASSUME NEW x \in Clients, JoinerEnters(x) PROVE ~isJoiner[c]
      BY <1>3, <2>2, <2>11 DEF JoinerEnters
    <2>12. ASSUME NEW x \in Clients, Resync(x) PROVE ~isJoiner[c]
      BY <1>3, <2>2, <2>12 DEF Resync
    <2>13. ASSUME NEW x \in Clients, Remote(x) PROVE ~isJoiner[c]
      BY <1>3, <2>2, <2>13 DEF Remote
    <2>14. ASSUME NEW x \in Clients, OwnerLeft(x) PROVE ~isJoiner[c]
      BY <1>3, <2>3, <2>14 DEF OwnerLeft, editor
    <2>15. ASSUME NEW n \in Conns, Relays(n) \/ Closed(n) PROVE ~isJoiner[c]
      BY <1>3, <2>15 DEF Relays, Closed, editor
    <2>16. CASE UNCHANGED vars
      BY <1>3, <2>16 DEF vars, editor
    <2> QED
      BY <2>4, <2>5, <2>6, <2>7, <2>8, <2>9, <2>10, <2>11, <2>12, <2>13, <2>14, <2>15, <2>16
      DEF Next, Progress
  <1>4. ASSUME NEW c \in Joiners, ~isJoiner[c] PROVE phase[c] # "live"
    BY <1>1, <1>4, ClientFacts DEF NoTrace, LinkHolds
  <1> QED
    BY <1>2, <1>3, <1>4

\* A session touches neither a joiner's own text nor its own log, whether the joiner
\* leaves, is turned away, times out, is dropped or loses its owner.
THEOREM JoinersAlwaysKeepTheirs == Spec => JoinersKeepTheirs
  <1>1. LiveInv /\ LiveInv' /\ [Next]_vars =>
          [/\ JoinerLeavesNoTrace'
           /\ \A c \in Joiners : logged'[c] # logged[c] => ~isJoiner[c] /\ phase[c] # "live"]_vars
    BY KeptStep
  <1> QED
    BY <1>1, LiveAlways, PTL DEF Spec, JoinersKeepTheirs
=============================================================================
