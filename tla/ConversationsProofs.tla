------------------------- MODULE ConversationsProofs -------------------------
(***************************************************************************)
(* Theorems about ConversationSessions, for every set of drafts and all    *)
(* bounds.                                                                 *)
(***************************************************************************)
EXTENDS ConversationSessions, SequenceTheorems, FiniteSetTheorems, WellFoundedInduction, TLAPS

-----------------------------------------------------------------------------
(* The inductive invariant. *)

\* Tasks under way: sends, and operations, which are all the others.
Active(i) == task[i].pc # "done"
IsSend(i) == Active(i) /\ task[i].kind \in Sends
IsOp(i) == Active(i) /\ task[i].kind \notin Sends
Creators == {"new"} \cup Derives
Creating(i) == Active(i) /\ (task[i].kind \in Creators
                             \/ (task[i].kind = "ask" /\ task[i].pc = "create"))

\* Operations of the mounted panel: the latest one, and those it has overtaken.
Mounts(i) == IsOp(i) /\ task[i].panel = Mounted
Latest(i) == Mounts(i) /\ task[i].token = Mine.gen
Stale(i) == Mounts(i) /\ task[i].token # Mine.gen

\* Calls whose answer changes nothing in the panel of a task that was overtaken.
Idly(i) == task[i].pc \in {"list", "get", "create", "mark"}

\* The place of tasks in the queue of calls.
In(q, i) == \E a \in 1..Len(q) : q[a] = i
Ahead(q, i, j) == \E a, b \in 1..Len(q) : a < b /\ q[a] = i /\ q[b] = j
Distinct(q) == \A a, b \in 1..Len(q) : q[a] = q[b] => a = b

\* Ids that a conversation was created with, or that no creation will use any more.
Born == {id \in 1..given : \A i \in Tasks : Creating(i) => task[i].conv # id}

\* An answer follows its prompt; messages of given conversations; what a conversation's
\* messages may become; messages that end in the n-th prompt.
Ordered(msgs) ==
  \A k \in DOMAIN msgs : msgs[k].role = "assistant" => k > 1 /\ msgs[k - 1].n = msgs[k].n
OfIn(msgs, S) == \A k \in DOMAIN msgs : msgs[k].of \in S
Extends(msgs, card) ==
  /\ Len(card.msgs) <= Len(msgs) /\ Ordered(msgs)
  /\ \A k \in 1..Len(msgs) :
       IF k <= Len(card.msgs) THEN msgs[k] = card.msgs[k] ELSE msgs[k].of = card.id
Asks(msgs, n) == msgs # <<>> /\ msgs[Len(msgs)].role = "user" /\ msgs[Len(msgs)].n = n
AnswerOf(t) == [n |-> t.n, role |-> "assistant", of |-> t.conv]

\* A row and a copy of it, but for what archiving and titles change.
Same(row, card) == row.id = card.id /\ row.draft = card.draft /\ row.msgs = card.msgs

Dirt == [id : Convs, msgs : Seq(Message)]
Panel == [gen : Nat, loading : BOOLEAN, busy : BOOLEAN, cur : SUBSET Card, items : SUBSET Card,
          chat : Seq(Message), dirty : SUBSET Dirt]

Shape ==
  /\ scope \in Drafts /\ rows \in SUBSET Card /\ IsFiniteSet(rows)
  /\ panel \in Seq(Panel) /\ Len(panel) \in 1..MaxPanels
  /\ task \in Seq(Task) /\ calls \in Seq(Nat)
  /\ given \in 0..MaxConvs /\ said \in 0..MaxSaid /\ fails \in 0..MaxFails
  /\ \A p \in Panels : \A a, b \in panel[p].cur : a = b

\* The awaits an operation of each kind has.
PcOf(kind) ==
  CASE kind \in {"load", "refresh"} -> {"wait", "resave", "list"}
    [] kind = "open" -> {"wait", "resave", "get"}
    [] kind \in Creators -> {"wait", "resave", "create"}
    [] kind = "remove" -> {"wait", "resave", "delete"}
    [] kind = "dispose" -> {"wait"}
    [] kind = "archive" -> {"mark"}
    [] kind = "ask" -> {"create", "title", "prompt", "stream", "final"}
    [] kind = "again" -> {"stream", "final"}
    [] OTHER -> {}

QueueOK ==
  /\ Distinct(calls)
  /\ \A a \in 1..Len(calls) : calls[a] \in Tasks
  /\ \A i \in Tasks : task[i].pc \in InQueue <=> In(calls, i)

\* What a task of each kind has captured.
TaskOK(i) ==
  /\ task[i].panel \in Panels
  /\ Active(i) => task[i].pc \in PcOf(task[i].kind)
  /\ Active(i) => IF task[i].kind = "dispose" THEN task[i].panel < Mounted
                  ELSE task[i].token <= panel[task[i].panel].gen
  /\ Active(i) /\ Current(i) /\ task[i].kind # "dispose" => task[i].scope = scope
  /\ Active(i) /\ task[i].kind = "edit" => task[i].n >= 1
  /\ Active(i) /\ task[i].kind = "retry" => Asks(task[i].msgs, task[i].n)
  /\ Active(i) /\ task[i].kind = "remove" => task[i].conv \in Born
  /\ Creating(i) => /\ task[i].conv \in 1..given
                    /\ OfIn(task[i].msgs, Born) /\ Ordered(task[i].msgs)
                    /\ \A j \in Tasks : Creating(j) /\ task[j].conv = task[i].conv => i = j
TasksOK == \A i \in Tasks : TaskOK(i)

\* A stored conversation: its copied messages are others', the rest are its own.
RowOK(row) ==
  /\ row.id \in Born /\ OfIn(row.msgs, Born) /\ Ordered(row.msgs) /\ row.copied <= Len(row.msgs)
  /\ \A k \in 1..Len(row.msgs) :
       IF k <= row.copied THEN row.msgs[k].of # row.id ELSE row.msgs[k].of = row.id
RowsOK ==
  /\ \A row \in rows : RowOK(row)
  /\ \A row, other \in rows : row.id = other.id => row = other

\* The panel has been mounted and has not shown anything yet.
Fresh ==
  /\ Mine.items = {} /\ Mine.cur = {} /\ ~Sending(Mounted) /\ Mine.loading
  /\ \A j \in Tasks : Mounts(j) => task[j].kind = "load" /\ task[j].pc \in {"wait", "list"}

\* Nothing is left to save on a panel that was taken down; the saves and deletions it has
\* left are answered before the mounted panel lists anything.
OldOK ==
  /\ \A p \in Panels : p < Mounted => panel[p].dirty = {} /\ ~Sending(p)
  /\ \A i \in Tasks : IsOp(i) /\ task[i].panel < Mounted /\ task[i].pc \in {"resave", "delete"} =>
       /\ Fresh
       /\ \A j \in Tasks : Mounts(j) /\ task[j].pc = "list" => Ahead(calls, i, j)

\* The panel loads while its latest operation is under way.
LoadingOK == Mine.loading <=> \E j \in Tasks : Latest(j)
OneLatest ==
  /\ \A i, j \in Tasks : Latest(i) /\ Latest(j) => i = j
  /\ \A i, j \in Tasks : Stale(i) /\ Latest(j) => i < j

\* What an overtaken operation can still do, it does before the latest one.
WaitsOK ==
  \A i \in Tasks : Stale(i) /\ task[i].pc = "wait" =>
    \/ \E j \in Tasks : Latest(j) /\ task[j].pc = "wait"
    \/ Mine.dirty = {} /\ ~Sending(Mounted)
StaleOK ==
  \A i \in Tasks : Stale(i) /\ task[i].pc \in {"resave", "delete"} =>
    \E j \in Tasks : Latest(j) /\ (task[j].pc = "wait" \/ Ahead(calls, i, j))
\* All but a load begin when nothing else is under way.
AloneOK ==
  \A j \in Tasks : Latest(j) /\ task[j].kind # "load" =>
    \A i \in Tasks : Mounts(i) /\ i # j => Stale(i) /\ Idly(i)

\* During a send, operations wait.
SendsWait ==
  /\ Sending(Mounted) => \A i \in Tasks : Mounts(i) => task[i].pc = "wait" \/ (Stale(i) /\ Idly(i))
  /\ \A i, j \in Tasks : IsSend(i) /\ IsSend(j) => i = j
  /\ Mine.busy <=> Sending(Mounted)

OrderOK == OldOK /\ LoadingOK /\ OneLatest /\ WaitsOK /\ StaleOK /\ AloneOK /\ SendsWait

\* What an operation found when it went on is so until it is answered.
Listed(pn, t) == \E card \in pn.items : card.id = t.conv /\ card.msgs = t.msgs
CleanOK ==
  /\ \A i \in Tasks : Latest(i) /\ task[i].pc \in {"list", "get", "create"} => Mine.dirty = {}
  /\ \A i \in Tasks : Mounts(i) /\ task[i].pc = "delete" => Mine.dirty = {}
  /\ \A i \in Tasks : Mounts(i) /\ task[i].kind = "remove" /\ (Latest(i) \/ task[i].pc = "delete")
       => task[i].was \/ ~Shows(Mine, task[i].conv)
  /\ \A i \in Tasks : Latest(i) /\ task[i].pc = "mark" => Listed(Mine, task[i])

\* A save made once more is for what is to be saved still, or was saved in the meantime.
ResaveOK ==
  \A i \in Tasks : task[i].pc = "resave" => \E d \in task[i].save :
    /\ task[i].save = {d} /\ d.id \in Born
    /\ \/ P(i).dirty = {d}
       \/ P(i).dirty = {} /\ \A row \in rows : row.id = d.id => row.msgs = d.msgs

\* What the panel shows is stored, or is to be saved, or is being said by the send.
SendGood(pn, t) ==
  /\ t.n >= 1
  /\ t.pc = "create" => pn.cur = {} /\ t.msgs = <<>>
  /\ t.pc # "create" => \E card \in pn.cur :
       /\ card.id = t.conv
       /\ t.pc = "title" => pn.chat = <<>> /\ card.msgs = <<>> /\ pn.dirty = {}
       /\ t.pc = "stream" =>
            /\ pn.dirty = {} /\ t.msgs = card.msgs /\ Asks(card.msgs, t.n)
            /\ pn.chat = card.msgs \/ pn.chat = Append(card.msgs, AnswerOf(t))
       /\ t.pc \in {"prompt", "final"} =>
            /\ pn.dirty = {[id |-> card.id, msgs |-> pn.chat]}
            /\ t.msgs = pn.chat /\ Extends(pn.chat, card)
       /\ t.pc = "prompt" => Asks(pn.chat, t.n)
SendOK(i) == SendGood(Mine, task[i])
PanelOK ==
  /\ \A card \in Mine.items \cup Mine.cur : \E row \in rows : Same(row, card)
  /\ Mine.cur = {} => Mine.chat = <<>> /\ Mine.dirty = {}
  /\ ~Sending(Mounted) => \A card \in Mine.cur :
       \/ Mine.dirty = {} /\ Mine.chat = card.msgs
       \/ Mine.dirty = {[id |-> card.id, msgs |-> Mine.chat]} /\ Extends(Mine.chat, card)
  /\ \A i \in Tasks : IsSend(i) => SendOK(i)

ConvInv ==
  /\ Shape /\ QueueOK /\ TasksOK /\ OrderOK
  /\ RowsOK /\ CleanOK /\ ResaveOK /\ PanelOK

-----------------------------------------------------------------------------
(* Sequences and numbers. *)

\* Appending to a queue.
LEMMA AppendIn ==
  ASSUME NEW S, NEW q \in Seq(S), NEW x \in S
  PROVE  /\ Append(q, x) \in Seq(S)
         /\ \A j : In(Append(q, x), j) <=> In(q, j) \/ j = x
         /\ Distinct(q) /\ ~In(q, x) => Distinct(Append(q, x))
         /\ \A i, j : Ahead(q, i, j) => Ahead(Append(q, x), i, j)
         /\ \A i : In(q, i) => Ahead(Append(q, x), i, x)
  <1>1. /\ Append(q, x) \in Seq(S) /\ Len(Append(q, x)) = Len(q) + 1 /\ Len(q) \in Nat
        /\ \A k \in 1..Len(q) : Append(q, x)[k] = q[k]
        /\ Append(q, x)[Len(q) + 1] = x
    OBVIOUS
  <1> DEFINE r == Append(q, x)
  <1> HIDE DEF r
  <1>2. /\ Len(r) = Len(q) + 1 /\ Len(q) \in Nat
        /\ \A k \in 1..Len(q) : r[k] = q[k]
        /\ r[Len(q) + 1] = x
    BY <1>1 DEF r
  <1>3. \A k \in 1..Len(r) : k \in 1..Len(q) \/ k = Len(q) + 1
    BY <1>2
  <1>4. \A k \in 1..Len(q) : k \in 1..Len(r) /\ k < Len(q) + 1
    BY <1>2
  <1>5. Len(q) + 1 \in 1..Len(r)
    BY <1>2
  <1>6. ASSUME NEW j PROVE In(r, j) <=> In(q, j) \/ j = x
    BY <1>2, <1>3, <1>4, <1>5 DEF In
  <1>7. ASSUME Distinct(q), ~In(q, x) PROVE Distinct(r)
    BY <1>2, <1>3, <1>7 DEF Distinct, In
  <1>8. ASSUME NEW i, NEW j, Ahead(q, i, j) PROVE Ahead(r, i, j)
    BY <1>2, <1>4, <1>8 DEF Ahead
  <1>9. ASSUME NEW i, In(q, i) PROVE Ahead(r, i, x)
    <2>1. PICK a \in 1..Len(q) : q[a] = i
      BY <1>9 DEF In
    <2>2. a \in 1..Len(r) /\ a < Len(q) + 1 /\ r[a] = i /\ Len(q) + 1 \in 1..Len(r)
      BY <1>2, <1>4, <1>5, <2>1
    <2> QED
      BY <1>2, <2>2 DEF Ahead
  <1> QED
    BY <1>1, <1>6, <1>7, <1>8, <1>9 DEF r

\* Answering the head of a queue.
LEMMA TailIn ==
  ASSUME NEW S, NEW q \in Seq(S), q # <<>>, Distinct(q)
  PROVE  /\ Tail(q) \in Seq(S) /\ Distinct(Tail(q)) /\ In(q, Head(q))
         /\ \A j : In(Tail(q), j) <=> In(q, j) /\ j # Head(q)
         /\ \A i, j : Ahead(q, i, j) => j # Head(q)
         /\ \A i, j : Ahead(q, i, j) /\ i # Head(q) => Ahead(Tail(q), i, j)
  <1> DEFINE r == Tail(q)
  <1>1. /\ r \in Seq(S) /\ Len(r) = Len(q) - 1 /\ Len(q) \in Nat /\ Len(q) >= 1
        /\ Head(q) = q[1] /\ 1 \in 1..Len(q)
    OBVIOUS
  <1>1a. \A k \in 1..Len(r) : r[k] = q[k + 1]
    BY HeadTailProperties
  <1> HIDE DEF r
  <1>2. \A k \in 1..Len(r) : k + 1 \in 1..Len(q) /\ k + 1 # 1 /\ r[k] = q[k + 1]
    BY <1>1, <1>1a
  <1>3. \A k \in 1..Len(q) : k = 1 \/ (k - 1 \in 1..Len(r) /\ r[k - 1] = q[k])
    BY <1>1, <1>1a
  <1>4. \A a, b \in 1..Len(q) : q[a] = q[b] => a = b
    BY DEF Distinct
  <1>5. Distinct(r)
    BY <1>1, <1>2, <1>4 DEF Distinct
  <1>6. ASSUME NEW j PROVE In(r, j) <=> In(q, j) /\ j # Head(q)
    <2>1. ASSUME In(r, j) PROVE In(q, j) /\ j # Head(q)
      <3>1. PICK k \in 1..Len(r) : r[k] = j
        BY <2>1 DEF In
      <3>2. k + 1 \in 1..Len(q) /\ q[k + 1] = j /\ k + 1 # 1
        BY <1>2, <3>1
      <3> QED
        BY <1>1, <1>4, <3>2 DEF In
    <2>2. ASSUME In(q, j), j # Head(q) PROVE In(r, j)
      BY <1>1, <1>3, <2>2 DEF In
    <2> QED
      BY <2>1, <2>2
  <1>7. ASSUME NEW i, NEW j, Ahead(q, i, j)
        PROVE  j # Head(q) /\ (i # Head(q) => Ahead(r, i, j))
    <2>1. PICK a, b \in 1..Len(q) : a < b /\ q[a] = i /\ q[b] = j
      BY <1>7 DEF Ahead
    <2>2. b # 1
      BY <2>1
    <2>3. j # Head(q)
      BY <1>1, <1>4, <2>1, <2>2
    <2>4. ASSUME i # Head(q) PROVE Ahead(r, i, j)
      <3>1. a # 1
        BY <1>1, <2>1, <2>4
      <3>2. a - 1 \in 1..Len(r) /\ b - 1 \in 1..Len(r) /\ r[a - 1] = i /\ r[b - 1] = j
        BY <1>3, <2>1, <2>2, <3>1
      <3>3. a - 1 < b - 1
        BY <2>1
      <3> QED
        BY <3>2, <3>3 DEF Ahead
    <2> QED
      BY <2>3, <2>4
  <1> QED
    BY <1>1, <1>5, <1>6, <1>7 DEF r, In

\* A set of numbers has a smallest element.
LEMMA SmallestExists ==
  ASSUME NEW n \in Nat, NEW S \in SUBSET (1..n), S # {}
  PROVE  \E m \in S : \A x \in S : m <= x
  <1> DEFINE down(x) == {y \in S : y <= x}
             Downs   == {down(x) : x \in S}
  <1>1. IsFiniteSet(S)
    <2>1. 1 \in Int /\ n \in Int
      OBVIOUS
    <2> QED
      BY <2>1, FS_Interval, FS_Subset
  <1>2. FiniteSubsetsOf(S) = SUBSET S
    BY <1>1, FS_FiniteSubsetsOfFinite
  <1>3. IsWellFoundedOn(StrictSubsetOrdering(S), SUBSET S)
    BY <1>2, FS_StrictSubsetOrderingWellFounded
  <1>4. Downs \subseteq SUBSET S /\ Downs # {}
    OBVIOUS
  <1>5. PICK U \in Downs : \A V \in Downs : <<V, U>> \notin StrictSubsetOrdering(S)
    <2> HIDE DEF Downs
    <2> QED
      BY <1>3, <1>4, WFMin
  <1>6. PICK m \in S : U = down(m)
    BY <1>5
  <1>7. ASSUME NEW x \in S, ~(m <= x) PROVE FALSE
    <2>1. x < m /\ m \in Int /\ x \in Int
      BY <1>7
    <2>2. down(x) \subseteq down(m) /\ m \in down(m) /\ m \notin down(x)
      <3>1. ASSUME NEW y \in S, y <= x PROVE y <= m
        BY <2>1, <3>1
      <3>2. m <= m
        BY <2>1
      <3> QED
        BY <1>7, <3>1, <3>2
    <2>3. down(x) \in SUBSET S /\ down(m) \in SUBSET S
      OBVIOUS
    <2>4. <<down(x), down(m)>> \in StrictSubsetOrdering(S)
      <3> HIDE DEF down
      <3> QED
        BY <2>2, <2>3 DEF StrictSubsetOrdering
    <2> QED
      BY <1>5, <1>6, <2>4
  <1> QED
    BY <1>7

-----------------------------------------------------------------------------
(* Messages. *)

\* A list of messages, and what the prover needs to know of its places.
LEMMA MessagePlaces ==
  ASSUME NEW msgs \in Seq(Message)
  PROVE  DOMAIN msgs = 1..Len(msgs) /\ Len(msgs) \in Nat
         /\ \A k \in 1..Len(msgs) : msgs[k] \in Message
  OBVIOUS

\* A conversation extends itself.
LEMMA ExtendsItself ==
  ASSUME NEW card \in Card, Ordered(card.msgs) PROVE Extends(card.msgs, card)
  <1>1. card.msgs \in Seq(Message)
    BY DEF Card
  <1> QED
    BY <1>1 DEF Extends

\* What extends a conversation has its messages as a prefix.
LEMMA ExtendsPrefix ==
  ASSUME NEW card \in Card, NEW msgs \in Seq(Message), Extends(msgs, card)
  PROVE  IsPrefix(card.msgs, msgs)
  <1>1. card.msgs \in Seq(Message)
    BY DEF Card
  <1> DEFINE s == SubSeq(card.msgs, 1, Len(card.msgs))
             t == SubSeq(msgs, 1, Len(card.msgs))
  <1>2. Len(card.msgs) <= Len(msgs) /\ Len(card.msgs) \in Nat /\ Len(msgs) \in Nat
    BY <1>1 DEF Extends
  <1>3. \A k \in 1..Len(card.msgs) : card.msgs[k] \in Message /\ msgs[k] \in Message /\ msgs[k] = card.msgs[k]
    BY <1>1, <1>2 DEF Extends
  <1>4. /\ s \in Seq(Message) /\ Len(s) = Len(card.msgs)
        /\ \A k \in 1..Len(card.msgs) : s[k] = card.msgs[k]
    BY <1>1, SubSeqFull
  <1>5. t \in Seq(Message) /\ Len(t) = Len(card.msgs) /\ \A k \in 1..Len(card.msgs) : t[k] = msgs[k]
    <2> DEFINE n == Len(card.msgs)
    <2>1. n \in Int /\ 1 \in Int /\ \A k \in 1..n : msgs[k] \in Message
      BY <1>2, <1>3
    <2> HIDE DEF n
    <2>2. /\ SubSeq(msgs, 1, n) \in Seq(Message)
          /\ Len(SubSeq(msgs, 1, n)) = IF 1 <= n THEN n - 1 + 1 ELSE 0
          /\ \A k \in 1..n - 1 + 1 : SubSeq(msgs, 1, n)[k] = msgs[1 + k - 1]
      BY <2>1, SubSeqProperties
    <2>3. n \in Nat
      BY <1>2 DEF n
    <2>4. Len(SubSeq(msgs, 1, n)) = n /\ \A k \in 1..n : SubSeq(msgs, 1, n)[k] = msgs[k]
      BY <2>2, <2>3
    <2> QED
      BY <2>2, <2>4 DEF n
  <1> HIDE DEF s, t
  <1>6. s = t
    BY <1>2, <1>3, <1>4, <1>5, SeqEqual
  <1> QED
    BY <1>2, <1>6 DEF IsPrefix, s, t

\* The prefix relation is reflexive.
LEMMA PrefixItself == ASSUME NEW msgs \in Seq(Message) PROVE IsPrefix(msgs, msgs)
  BY DEF IsPrefix

\* Appending a message of its own to what extends a conversation.
LEMMA ExtendsAppend ==
  ASSUME NEW card \in Card, NEW msgs \in Seq(Message), Extends(msgs, card),
         NEW m \in Message, m.of = card.id,
         m.role = "assistant" => Asks(msgs, m.n)
  PROVE  Append(msgs, m) \in Seq(Message) /\ Extends(Append(msgs, m), card)
  <1> DEFINE r == Append(msgs, m)
  <1>1. /\ r \in Seq(Message) /\ Len(r) = Len(msgs) + 1 /\ Len(msgs) \in Nat
        /\ \A k \in 1..Len(msgs) : r[k] = msgs[k]
        /\ r[Len(msgs) + 1] = m /\ DOMAIN r = 1..Len(r) /\ DOMAIN msgs = 1..Len(msgs)
    OBVIOUS
  <1>2. card.msgs \in Seq(Message) /\ Len(card.msgs) \in Nat /\ Len(card.msgs) <= Len(msgs)
    BY DEF Card, Extends
  <1> HIDE DEF r
  <1>3. Ordered(r)
    <2>1. SUFFICES ASSUME NEW k \in 1..Len(r), r[k].role = "assistant"
                   PROVE  k > 1 /\ r[k - 1].n = r[k].n
      BY <1>1 DEF Ordered
    <2>2. CASE k \in 1..Len(msgs)
      <3>1. k > 1 /\ msgs[k - 1].n = msgs[k].n
        BY <1>1, <2>1, <2>2 DEF Extends, Ordered
      <3>2. k - 1 \in 1..Len(msgs)
        BY <1>1, <2>2, <3>1
      <3> QED
        BY <1>1, <2>2, <3>1, <3>2
    <2>3. CASE k = Len(msgs) + 1
      <3>1. m.role = "assistant"
        BY <1>1, <2>1, <2>3
      <3>2. msgs # <<>> /\ msgs[Len(msgs)].n = m.n
        BY <3>1 DEF Asks
      <3>3. Len(msgs) >= 1
        BY <3>2, EmptySeq, <1>1
      <3>4. k - 1 = Len(msgs) /\ k > 1 /\ Len(msgs) \in 1..Len(msgs)
        BY <1>1, <2>3, <3>3
      <3> QED
        BY <1>1, <2>3, <3>2, <3>4
    <2> QED
      BY <1>1, <2>1, <2>2, <2>3
  <1>4. Len(card.msgs) <= Len(r)
    BY <1>1, <1>2
  <1>5. ASSUME NEW k \in 1..Len(r)
        PROVE  IF k <= Len(card.msgs) THEN r[k] = card.msgs[k] ELSE r[k].of = card.id
    <2>1. CASE k \in 1..Len(msgs)
      BY <1>1, <2>1 DEF Extends
    <2>2. CASE k = Len(msgs) + 1
      <3>1. ~(k <= Len(card.msgs))
        BY <1>1, <1>2, <2>2
      <3> QED
        BY <1>1, <2>2, <3>1
    <2> QED
      BY <1>1, <2>1, <2>2
  <1> QED
    BY <1>1, <1>3, <1>4, <1>5 DEF Extends, r

\* What a prompt, the last message so far, is asked with.
LEMMA AppendAsks ==
  ASSUME NEW msgs \in Seq(Message), NEW m \in Message, m.role = "user"
  PROVE  Asks(Append(msgs, m), m.n)
  <1>1. /\ Len(Append(msgs, m)) = Len(msgs) + 1 /\ Append(msgs, m)[Len(msgs) + 1] = m
        /\ Append(msgs, m) # <<>>
    OBVIOUS
  <1> QED
    BY <1>1 DEF Asks

\* The path up to a message is ordered, and of the conversations the whole is of.
LEMMA PathOK ==
  ASSUME NEW msgs \in Seq(Message), NEW k \in 0..Len(msgs), NEW S, Ordered(msgs), OfIn(msgs, S)
  PROVE  /\ SubSeq(msgs, 1, k) \in Seq(Message) /\ Len(SubSeq(msgs, 1, k)) = k
         /\ \A j \in 1..k : SubSeq(msgs, 1, k)[j] = msgs[j]
         /\ Ordered(SubSeq(msgs, 1, k)) /\ OfIn(SubSeq(msgs, 1, k), S)
  <1>1. /\ DOMAIN msgs = 1..Len(msgs) /\ Len(msgs) \in Nat /\ k \in Int /\ k \in Nat
        /\ \A j \in 1..k : j \in 1..Len(msgs) /\ msgs[j] \in Message
    OBVIOUS
  <1>2. /\ SubSeq(msgs, 1, k) \in Seq(Message)
        /\ Len(SubSeq(msgs, 1, k)) = IF 1 <= k THEN k - 1 + 1 ELSE 0
        /\ \A j \in 1..k - 1 + 1 : SubSeq(msgs, 1, k)[j] = msgs[1 + j - 1]
    BY <1>1, SubSeqProperties
  <1> DEFINE r == SubSeq(msgs, 1, k)
  <1>3. /\ r \in Seq(Message) /\ Len(r) = k /\ DOMAIN r = 1..k
        /\ \A j \in 1..k : r[j] = msgs[j]
    <2>1. \A j \in 1..k : 1 + j - 1 = j /\ j \in 1..k - 1 + 1
      BY <1>1
    <2>2. Len(r) = k
      BY <1>1, <1>2
    <2> QED
      BY <1>2, <2>1, <2>2, LenProperties
  <1> HIDE DEF r
  <1>4. Ordered(r)
    <2>1. SUFFICES ASSUME NEW j \in 1..k, r[j].role = "assistant" PROVE j > 1 /\ r[j - 1].n = r[j].n
      BY <1>3 DEF Ordered
    <2>2. j > 1 /\ msgs[j - 1].n = msgs[j].n
      BY <1>1, <1>3, <2>1 DEF Ordered
    <2>3. j - 1 \in 1..k
      BY <1>1, <2>2
    <2> QED
      BY <1>3, <2>2, <2>3
  <1>5. OfIn(r, S)
    BY <1>1, <1>3 DEF OfIn
  <1> QED
    BY <1>3, <1>4, <1>5 DEF r

-----------------------------------------------------------------------------
(* Panels and tasks. *)

One(pn) == \A a, b \in pn.cur : a = b
PanelType == {pn \in Panel : One(pn)}

\* What a task that is over looks like.
LEMMA OverIs ==
  ASSUME NEW draft \in Drafts
  PROVE  Over \in Task /\ Over.pc = "done" /\ Over.kind = "load"
  <1>1. (CHOOSE d \in Drafts : TRUE) \in Drafts
    OBVIOUS
  <1>2. MaxPanels \in Nat /\ MaxPanels >= 1 /\ MaxSaid \in Nat
    BY ConversationsAssumption
  <1>3. << >> \in Seq(Message)
    OBVIOUS
  <1>4. 1 \in 1..MaxPanels /\ 0 \in 0..MaxSaid /\ 0 \in Nat
    BY <1>2
  <1> DEFINE d0 == CHOOSE d \in Drafts : TRUE
  <1> HIDE DEF d0
  <1>5. Over = [kind |-> "load", pc |-> "done", panel |-> 1, token |-> 0, scope |-> d0,
                conv |-> None, msgs |-> <<>>, from |-> None, was |-> FALSE, n |-> 0, save |-> {}]
    BY DEF Over, d0
  <1>6. d0 \in Drafts
    BY <1>1 DEF d0
  <1> QED
    BY <1>3, <1>4, <1>5, <1>6 DEF Task, Waiting, Derives, Sends, InQueue

LEMMA OverType ==
  ASSUME Shape
  PROVE  Over \in Task /\ Over.pc = "done" /\ Over.kind = "load"
  BY OverIs DEF Shape

\* The saves of a task that saves once more are of messages.
LEMMA SaveType == ASSUME NEW t \in Task PROVE t.save \subseteq Dirt
  BY DEF Task, Dirt

\* A copy with other messages.
LEMMA CardWith ==
  ASSUME NEW card \in Card, NEW msgs \in Seq(Message)
  PROVE  /\ [card EXCEPT !.msgs = msgs] \in Card
         /\ [card EXCEPT !.msgs = msgs].id = card.id
         /\ [card EXCEPT !.msgs = msgs].draft = card.draft
         /\ [card EXCEPT !.msgs = msgs].msgs = msgs
         /\ [card EXCEPT !.msgs = msgs].copied = card.copied
  BY DEF Card

\* Copies with the messages of one conversation replaced.
LEMMA WithMessagesType ==
  ASSUME NEW cards \in SUBSET Card, NEW id, NEW msgs \in Seq(Message)
  PROVE  /\ WithMessages(cards, id, msgs) \in SUBSET Card
         /\ \A card \in WithMessages(cards, id, msgs) : \E other \in cards :
              /\ card.id = other.id /\ card.draft = other.draft /\ card.copied = other.copied
              /\ card.msgs = IF other.id = id THEN msgs ELSE other.msgs
              /\ card = IF other.id = id THEN [other EXCEPT !.msgs = msgs] ELSE other
         /\ \A other \in cards : \E card \in WithMessages(cards, id, msgs) :
              /\ card.id = other.id /\ card.draft = other.draft /\ card.copied = other.copied
              /\ card.msgs = IF other.id = id THEN msgs ELSE other.msgs
         /\ (\A a, b \in cards : a = b) =>
              \A a, b \in WithMessages(cards, id, msgs) : a = b
         /\ cards = {} => WithMessages(cards, id, msgs) = {}
  <1> DEFINE w(card) == IF card.id = id THEN [card EXCEPT !.msgs = msgs] ELSE card
  <1>1. WithMessages(cards, id, msgs) = {w(card) : card \in cards}
    BY DEF WithMessages
  <1>2. ASSUME NEW other \in cards
        PROVE  /\ w(other) \in Card /\ w(other).id = other.id /\ w(other).draft = other.draft
               /\ w(other).copied = other.copied
               /\ w(other).msgs = IF other.id = id THEN msgs ELSE other.msgs
               /\ w(other) = IF other.id = id THEN [other EXCEPT !.msgs = msgs] ELSE other
    <2>1. other \in Card
      OBVIOUS
    <2> QED
      BY <2>1, CardWith
  <1> HIDE DEF w
  <1> QED
    BY <1>1, <1>2

\* The types of what the controller makes of a panel, and what it leaves alone.
LEMMA PanelOps ==
  ASSUME NEW pn \in PanelType, NEW card \in Card, NEW i
  PROVE  /\ Loaded(i, pn) \in PanelType
         /\ Apply(pn, card) \in PanelType /\ Cleared(pn) \in PanelType
         /\ Listing(pn, card) \in PanelType /\ Recorded(pn, card) \in PanelType
         /\ Begun(pn) \in PanelType
         /\ \A b \in BOOLEAN : [pn EXCEPT !.busy = b] \in PanelType
  <1>1. << >> \in Seq(Message)
    OBVIOUS
  <1>2. pn \in Panel /\ One(pn) /\ card.msgs \in Seq(Message)
    BY DEF PanelType, Card
  <1>3. Upsert(pn.items, card) \in SUBSET Card
    BY <1>2 DEF Upsert, Panel
  <1>4. Loaded(i, pn) \in PanelType
    BY <1>2 DEF Loaded, Panel, One, PanelType
  <1>5. Apply(pn, card) \in PanelType /\ Cleared(pn) \in PanelType
    BY <1>1, <1>2 DEF Apply, Cleared, Panel, One, PanelType
  <1>6. Listing(pn, card) \in PanelType
    BY <1>2, <1>3 DEF Listing, Panel, One, PanelType
  <1>7. Recorded(pn, card) \in PanelType
    <2> DEFINE ln == Listing(pn, card)
    <2>1. ln \in Panel /\ One(ln)
      BY <1>6 DEF PanelType
    <2>2. Recorded(pn, card) = [ln EXCEPT !.cur = IF Shows(pn, card.id) THEN {card} ELSE @]
      BY DEF Recorded
    <2> HIDE DEF ln
    <2> QED
      BY <2>1, <2>2 DEF Panel, One, PanelType
  <1>8. Begun(pn) \in PanelType
    <2>1. pn.gen \in Nat /\ pn.gen + 1 \in Nat
      BY <1>2 DEF Panel
    <2>2. Begun(pn) = [pn EXCEPT !.gen = pn.gen + 1, !.loading = TRUE]
      BY <1>2 DEF Begun, Panel
    <2>3. Begun(pn) \in Panel
      BY <1>2, <2>1, <2>2 DEF Panel
    <2>4. Begun(pn).cur = pn.cur
      BY <1>2, <2>2 DEF Panel
    <2> QED
      BY <1>2, <2>3, <2>4 DEF One, PanelType
  <1>9. \A b \in BOOLEAN : [pn EXCEPT !.busy = b] \in PanelType
    BY <1>2 DEF Panel, One, PanelType
  <1> QED
    BY <1>4, <1>5, <1>6, <1>7, <1>8, <1>9

\* The same for saves: what is to be saved ...
LEMMA DirtiedIs ==
  ASSUME NEW pn \in PanelType, NEW id \in Convs, NEW msgs \in Seq(Message)
  PROVE  /\ Dirtied(pn, id, msgs) \in PanelType
         /\ Dirtied(pn, id, msgs).gen = pn.gen /\ Dirtied(pn, id, msgs).loading = pn.loading
         /\ Dirtied(pn, id, msgs).busy = pn.busy /\ Dirtied(pn, id, msgs).chat = pn.chat
         /\ Dirtied(pn, id, msgs).cur = pn.cur /\ Dirtied(pn, id, msgs).items = pn.items
         /\ pn.dirty = {} => Dirtied(pn, id, msgs).dirty = {[id |-> id, msgs |-> msgs]}
  <1>1. pn \in Panel /\ One(pn) /\ [id |-> id, msgs |-> msgs] \in Dirt
    BY DEF PanelType, Dirt
  <1>2. Dirtied(pn, id, msgs) \in PanelType
    BY <1>1 DEF Dirtied, Panel, One, PanelType
  <1>3. /\ Dirtied(pn, id, msgs).gen = pn.gen /\ Dirtied(pn, id, msgs).loading = pn.loading
        /\ Dirtied(pn, id, msgs).busy = pn.busy /\ Dirtied(pn, id, msgs).chat = pn.chat
        /\ Dirtied(pn, id, msgs).cur = pn.cur /\ Dirtied(pn, id, msgs).items = pn.items
        /\ Dirtied(pn, id, msgs).dirty = {d \in pn.dirty : d.id # id} \cup {[id |-> id, msgs |-> msgs]}
    BY <1>1 DEF Dirtied, Panel
  <1> QED
    BY <1>2, <1>3

\* ... and what a save leaves of the panel.
LEMMA CleanedIs ==
  ASSUME NEW pn \in PanelType, NEW id \in Convs, NEW msgs \in Seq(Message)
  PROVE  /\ Cleaned(pn, id, msgs) \in PanelType
         /\ Cleaned(pn, id, msgs).gen = pn.gen /\ Cleaned(pn, id, msgs).loading = pn.loading
         /\ Cleaned(pn, id, msgs).busy = pn.busy /\ Cleaned(pn, id, msgs).chat = pn.chat
         /\ Cleaned(pn, id, msgs).dirty = pn.dirty \ {[id |-> id, msgs |-> msgs]}
         /\ IF [id |-> id, msgs |-> msgs] \in pn.dirty
            THEN /\ Cleaned(pn, id, msgs).items = WithMessages(pn.items, id, msgs)
                 /\ Cleaned(pn, id, msgs).cur = WithMessages(pn.cur, id, msgs)
            ELSE Cleaned(pn, id, msgs) = pn
  <1>1. pn \in Panel /\ One(pn)
    BY DEF PanelType
  <1> DEFINE wi == WithMessages(pn.items, id, msgs)
             wc == WithMessages(pn.cur, id, msgs)
  <1>2. wi \in SUBSET Card /\ wc \in SUBSET Card /\ \A a, b \in wc : a = b
    BY <1>1, WithMessagesType DEF Panel, One
  <1>3. Cleaned(pn, id, msgs) =
          IF [id |-> id, msgs |-> msgs] \notin pn.dirty THEN pn
          ELSE [pn EXCEPT !.dirty = @ \ {[id |-> id, msgs |-> msgs]}, !.items = wi, !.cur = wc]
    BY <1>1 DEF Cleaned, Panel
  <1> HIDE DEF wi, wc
  <1>4. Cleaned(pn, id, msgs) \in PanelType
    BY <1>1, <1>2, <1>3 DEF Panel, One, PanelType
  <1>5. /\ Cleaned(pn, id, msgs).gen = pn.gen /\ Cleaned(pn, id, msgs).loading = pn.loading
        /\ Cleaned(pn, id, msgs).busy = pn.busy /\ Cleaned(pn, id, msgs).chat = pn.chat
        /\ Cleaned(pn, id, msgs).dirty = pn.dirty \ {[id |-> id, msgs |-> msgs]}
        /\ IF [id |-> id, msgs |-> msgs] \in pn.dirty
           THEN Cleaned(pn, id, msgs).items = wi /\ Cleaned(pn, id, msgs).cur = wc
           ELSE Cleaned(pn, id, msgs) = pn
    BY <1>1, <1>3 DEF Panel
  <1> QED
    BY <1>4, <1>5 DEF wi, wc

\* A save leaves the rest of the panel alone.
LEMMA CleanedLeaves ==
  ASSUME NEW pn \in PanelType, NEW id \in Convs, NEW msgs \in Seq(Message)
  PROVE  /\ Cleaned(pn, id, msgs) \in PanelType
         /\ Cleaned(pn, id, msgs).gen = pn.gen /\ Cleaned(pn, id, msgs).loading = pn.loading
         /\ Cleaned(pn, id, msgs).busy = pn.busy /\ Cleaned(pn, id, msgs).chat = pn.chat
  <1>1. pn \in Panel
    BY DEF PanelType
  <1>2. Cleaned(pn, id, msgs) \in PanelType
    BY CleanedIs
  <1>3. /\ Cleaned(pn, id, msgs).gen = pn.gen /\ Cleaned(pn, id, msgs).loading = pn.loading
        /\ Cleaned(pn, id, msgs).busy = pn.busy /\ Cleaned(pn, id, msgs).chat = pn.chat
    BY <1>1 DEF Cleaned, Panel
  <1> QED
    BY <1>2, <1>3

\* A step of task i: what it leaves its panel in, and itself.
Moves(i, pn, t) ==
  /\ panel' = [panel EXCEPT ![task[i].panel] = pn]
  /\ task' = [task EXCEPT ![i] = t]

\* The places of tasks and panels.
LEMMA Places ==
  ASSUME Shape
  PROVE  /\ Len(panel) \in Nat /\ Len(task) \in Nat /\ Len(calls) \in Nat
         /\ Mounted \in Panels /\ DOMAIN panel = Panels /\ DOMAIN task = Tasks
         /\ \A p \in Panels : panel[p] \in PanelType
         /\ \A i \in Tasks : task[i] \in Task
         /\ Mine \in PanelType /\ MaxPanels \in Nat
  <1>1. panel \in Seq(Panel) /\ task \in Seq(Task) /\ calls \in Seq(Nat) /\ Len(panel) \in 1..MaxPanels
    BY DEF Shape
  <1>2. /\ Len(panel) \in Nat /\ Len(task) \in Nat /\ Len(calls) \in Nat
        /\ DOMAIN panel = Panels /\ DOMAIN task = Tasks /\ MaxPanels \in Nat
    BY <1>1, ConversationsAssumption DEF Panels, Tasks
  <1>3. Mounted \in Panels
    BY <1>1, <1>2 DEF Mounted, Panels
  <1>4. \A p \in Panels : panel[p] \in PanelType
    <2>1. ASSUME NEW p \in Panels PROVE panel[p] \in Panel /\ One(panel[p])
      BY <1>1, <1>2 DEF Panels, Shape, One
    <2> QED
      BY <2>1 DEF PanelType
  <1>5. \A i \in Tasks : task[i] \in Task
    BY <1>1, <1>2 DEF Tasks
  <1> QED
    BY <1>2, <1>3, <1>4, <1>5 DEF Mine

\* What a step of one task leaves alone.
LEMMA Frame ==
  ASSUME Shape, NEW i \in Tasks, TaskOK(i), NEW pn \in PanelType, NEW t \in Task,
         Moves(i, pn, t), pn.gen = P(i).gen
  PROVE  /\ Tasks' = Tasks /\ Panels' = Panels /\ Mounted' = Mounted
         /\ panel' \in Seq(Panel) /\ task' \in Seq(Task) /\ Len(panel') = Len(panel)
         /\ task'[i] = t /\ \A j \in Tasks : j # i => task'[j] = task[j]
         /\ panel'[task[i].panel] = pn
         /\ \A p \in Panels : p # task[i].panel => panel'[p] = panel[p]
         /\ \A p \in Panels : panel'[p].gen = panel[p].gen /\ panel'[p] \in PanelType
         /\ Mine' = IF task[i].panel = Mounted THEN pn ELSE Mine
         /\ \A j \in Tasks : j # i =>
              /\ Active(j)' <=> Active(j)
              /\ IsSend(j)' <=> IsSend(j)
              /\ Creating(j)' <=> Creating(j)
              /\ Mounts(j)' <=> Mounts(j)
              /\ Latest(j)' <=> Latest(j)
              /\ Stale(j)' <=> Stale(j)
              /\ Idly(j)' <=> Idly(j)
              /\ TaskOK(j) => (Current(j)' <=> Current(j))
  <1>1. task[i].panel \in Panels
    BY DEF TaskOK
  <1>2. /\ Tasks' = Tasks /\ task' \in Seq(Task)
        /\ task'[i] = t /\ \A j \in Tasks : j # i => task'[j] = task[j]
    BY ExceptSeq DEF Shape, Moves, Tasks
  <1>3. /\ Panels' = Panels /\ Mounted' = Mounted /\ Len(panel') = Len(panel) /\ panel' \in Seq(Panel)
        /\ panel'[task[i].panel] = pn
        /\ \A p \in Panels : p # task[i].panel => panel'[p] = panel[p]
    BY <1>1, ExceptSeq DEF Shape, Moves, Panels, Mounted, PanelType
  <1>4. \A p \in Panels : panel'[p].gen = panel[p].gen /\ panel'[p] \in PanelType
    BY <1>3, Places DEF P
  <1>5. Mine' = IF task[i].panel = Mounted THEN pn ELSE Mine
    BY <1>3, Places DEF Mine
  <1>6. Mounted \in Panels /\ Mine'.gen = Mine.gen
    BY <1>3, <1>4, Places DEF Mine
  <1>7. ASSUME NEW j \in Tasks, j # i
        PROVE  /\ Active(j)' <=> Active(j)
               /\ IsSend(j)' <=> IsSend(j)
               /\ Creating(j)' <=> Creating(j)
               /\ Mounts(j)' <=> Mounts(j)
               /\ Latest(j)' <=> Latest(j)
               /\ Stale(j)' <=> Stale(j)
               /\ Idly(j)' <=> Idly(j)
               /\ TaskOK(j) => (Current(j)' <=> Current(j))
    <2>1. task'[j] = task[j]
      BY <1>2, <1>7
    <2>2. Active(j)' <=> Active(j)
      BY <2>1 DEF Active
    <2>3. (IsSend(j)' <=> IsSend(j)) /\ (IsOp(j)' <=> IsOp(j)) /\ (Creating(j)' <=> Creating(j))
      BY <2>1, <2>2 DEF IsSend, IsOp, Creating
    <2>4. Mounts(j)' <=> Mounts(j)
      BY <1>3, <2>1, <2>3 DEF Mounts
    <2>5. (Latest(j)' <=> Latest(j)) /\ (Stale(j)' <=> Stale(j)) /\ (Idly(j)' <=> Idly(j))
      BY <1>6, <2>1, <2>4 DEF Latest, Stale, Idly
    <2>6. ASSUME TaskOK(j) PROVE Current(j)' <=> Current(j)
      <3>1. task[j].panel \in Panels
        BY <2>6 DEF TaskOK
      <3> QED
        BY <1>3, <1>4, <2>1, <3>1 DEF Current, P
    <2> QED
      BY <2>2, <2>3, <2>4, <2>5, <2>6
  <1> QED
    BY <1>2, <1>3, <1>4, <1>5, <1>7

-----------------------------------------------------------------------------
(* The queue of calls, and what tasks have captured. *)

\* A step of task i in which nothing begins.
Steps(i, pn, t) ==
  /\ i \in Tasks /\ pn \in PanelType /\ t \in Task
  /\ Moves(i, pn, t) /\ pn.gen = P(i).gen
  /\ scope' = scope /\ given' = given

\* A task goes on as what it was, or becomes a send.
Continues(s, t) ==
  /\ t.panel = s.panel /\ t.token = s.token /\ t.scope = s.scope /\ t.conv = s.conv /\ t.n = s.n
  /\ s.pc # "done" /\ t.pc # "done" /\ t.pc \in PcOf(t.kind)
  /\ \/ t.kind \notin Sends /\ t.kind = s.kind /\ t.msgs = s.msgs
     \/ s.kind \in Sends \cup Derives /\ t.kind \in Sends /\ t.pc # "create"

\* When an operation waits, one of its panel can go on, or a send is under way.
LEMMA QuietNoWaits ==
  ASSUME Shape, Quiet, NEW p, ~Sending(p), NEW i \in Tasks, task[i].panel = p, task[i].pc = "wait"
  PROVE  FALSE
  <1> DEFINE S == {j \in Tasks : task[j].panel = p /\ task[j].pc = "wait"}
  <1>1. S \in SUBSET (1..Len(task)) /\ S # {} /\ Len(task) \in Nat
    BY Places DEF Tasks
  <1>2. PICK m \in S : \A x \in S : m <= x
    <2> HIDE DEF S
    <2> QED
      BY <1>1, SmallestExists
  <1>3. m \in Tasks /\ task[m].panel = p /\ task[m].pc = "wait"
    OBVIOUS
  <1>4. ASSUME NEW j \in 1..(m - 1), Has(j, "wait"), task[j].panel = task[m].panel PROVE FALSE
    <2>1. j \in S
      BY <1>3, <1>4 DEF Has
    <2>2. m <= j /\ m \in Nat
      BY <1>1, <1>2, <2>1 DEF Tasks
    <2> QED
      BY <1>4, <2>2
  <1>5. Settled(m)
    BY <1>3, <1>4 DEF Settled, Has
  <1> QED
    BY <1>3, <1>5 DEF Quiet

\* Sends under way, after a step of a task that is a send before and after, or neither.
LEMMA SendingKept ==
  ASSUME Shape, TasksOK, NEW i, NEW pn, NEW t, Steps(i, pn, t),
         IsSend(i) <=> (t.pc # "done" /\ t.kind \in Sends),
         IsSend(i) => t.panel = task[i].panel
  PROVE  \A p : Sending(p)' <=> Sending(p)
  <1>1. /\ Tasks' = Tasks /\ task'[i] = t /\ i \in Tasks
        /\ \A j \in Tasks : j # i => task'[j] = task[j]
    BY Frame DEF Steps, TasksOK
  <1>2. ASSUME NEW p, NEW j \in Tasks
        PROVE  (task[j].panel = p /\ task[j].kind \in Sends /\ task[j].pc # "done")
               <=> (task'[j].panel = p /\ task'[j].kind \in Sends /\ task'[j].pc # "done")
    <2>1. CASE j # i
      BY <1>1, <2>1
    <2>2. CASE j = i
      BY <1>1, <2>2 DEF IsSend, Active
    <2> QED
      BY <2>1, <2>2
  <1> QED
    BY <1>1, <1>2 DEF Sending

\* An answer that ends the wait for SQLite.
LEMMA QueueTail ==
  ASSUME Shape, QueueOK, TasksOK, NEW i, NEW pn, NEW t, Steps(i, pn, t),
         calls # <<>>, i = Head(calls), t.pc \notin InQueue, calls' = Tail(calls)
  PROVE  QueueOK' /\ calls' \in Seq(Nat)
  <1>1. /\ Tasks' = Tasks /\ task'[i] = t /\ i \in Tasks
        /\ \A j \in Tasks : j # i => task'[j] = task[j]
    BY Frame DEF Steps, TasksOK
  <1>2. calls \in Seq(Nat) /\ Distinct(calls)
    BY DEF Shape, QueueOK
  <1>3. /\ Tail(calls) \in Seq(Nat) /\ Distinct(Tail(calls))
        /\ \A j : In(Tail(calls), j) <=> In(calls, j) /\ j # Head(calls)
    BY <1>2, TailIn
  <1>4. \A a \in 1..Len(Tail(calls)) : Tail(calls)[a] \in Tasks
    BY <1>3 DEF In, QueueOK
  <1>5. \A j \in Tasks : task'[j].pc \in InQueue <=> In(Tail(calls), j)
    BY <1>1, <1>3 DEF QueueOK
  <1> QED
    BY <1>1, <1>3, <1>4, <1>5 DEF QueueOK

\* A task calls SQLite.
LEMMA QueueAppend ==
  ASSUME Shape, QueueOK, TasksOK, NEW i, NEW pn, NEW t, Steps(i, pn, t),
         task[i].pc \notin InQueue, t.pc \in InQueue, calls' = Append(calls, i)
  PROVE  QueueOK' /\ calls' \in Seq(Nat)
  <1>1. /\ Tasks' = Tasks /\ task'[i] = t /\ i \in Tasks
        /\ \A j \in Tasks : j # i => task'[j] = task[j]
    BY Frame DEF Steps, TasksOK
  <1>2. calls \in Seq(Nat) /\ Distinct(calls) /\ ~In(calls, i) /\ i \in Nat
    BY <1>1, Places DEF Shape, QueueOK, Tasks
  <1>3. /\ Append(calls, i) \in Seq(Nat) /\ Distinct(Append(calls, i))
        /\ \A j : In(Append(calls, i), j) <=> In(calls, j) \/ j = i
    BY <1>2, AppendIn
  <1>4. \A j : In(calls, j) => j \in Tasks
    BY DEF QueueOK, In
  <1>5. \A a \in 1..Len(Append(calls, i)) : Append(calls, i)[a] \in Tasks
    BY <1>1, <1>3, <1>4 DEF In
  <1>6. \A j \in Tasks : task'[j].pc \in InQueue <=> In(Append(calls, i), j)
    BY <1>1, <1>3 DEF QueueOK
  <1> QED
    BY <1>1, <1>3, <1>5, <1>6 DEF QueueOK

\* A task is answered and calls again.
LEMMA QueueAgain ==
  ASSUME Shape, QueueOK, TasksOK, NEW i, NEW pn, NEW t, Steps(i, pn, t),
         calls # <<>>, i = Head(calls), t.pc \in InQueue, calls' = Append(Tail(calls), i)
  PROVE  QueueOK' /\ calls' \in Seq(Nat)
  <1>1. /\ Tasks' = Tasks /\ task'[i] = t /\ i \in Tasks
        /\ \A j \in Tasks : j # i => task'[j] = task[j]
    BY Frame DEF Steps, TasksOK
  <1>2. calls \in Seq(Nat) /\ Distinct(calls) /\ i \in Nat
    BY <1>1, Places DEF Shape, QueueOK, Tasks
  <1>3. /\ Tail(calls) \in Seq(Nat) /\ Distinct(Tail(calls))
        /\ \A j : In(Tail(calls), j) <=> In(calls, j) /\ j # i
    BY <1>2, TailIn
  <1> DEFINE q == Tail(calls)
  <1>4. q \in Seq(Nat) /\ Distinct(q) /\ ~In(q, i)
    BY <1>3
  <1> HIDE DEF q
  <1>5. /\ Append(q, i) \in Seq(Nat) /\ Distinct(Append(q, i))
        /\ \A j : In(Append(q, i), j) <=> In(q, j) \/ j = i
    BY <1>2, <1>4, AppendIn
  <1>6. \A j : In(calls, j) => j \in Tasks
    BY DEF QueueOK, In
  <1>7. \A j : In(Append(q, i), j) <=> (In(calls, j) /\ j # i) \/ j = i
    BY <1>3, <1>5 DEF q
  <1>8. \A a \in 1..Len(Append(q, i)) : Append(q, i)[a] \in Tasks
    <2>1. \A a \in 1..Len(Append(q, i)) : In(Append(q, i), Append(q, i)[a])
      BY DEF In
    <2> QED
      BY <1>1, <1>6, <1>7, <2>1
  <1>9. \A j \in Tasks : task'[j].pc \in InQueue <=> In(Append(q, i), j)
    BY <1>1, <1>7 DEF QueueOK
  <1> QED
    BY <1>1, <1>5, <1>8, <1>9 DEF QueueOK, q

\* A step without a call.
LEMMA QueueSame ==
  ASSUME Shape, QueueOK, TasksOK, NEW i, NEW pn, NEW t, Steps(i, pn, t),
         t.pc \in InQueue <=> task[i].pc \in InQueue, calls' = calls
  PROVE  QueueOK' /\ calls' \in Seq(Nat)
  <1>1. /\ Tasks' = Tasks /\ task'[i] = t /\ i \in Tasks
        /\ \A j \in Tasks : j # i => task'[j] = task[j]
    BY Frame DEF Steps, TasksOK
  <1>2. \A j \in Tasks : task'[j].pc \in InQueue <=> task[j].pc \in InQueue
    BY <1>1
  <1> QED
    BY <1>1, <1>2 DEF QueueOK, Shape

\* What tasks have captured is kept; ids are only ever born.
LEMMA TasksKept ==
  ASSUME Shape, TasksOK, NEW i, NEW pn, NEW t, Steps(i, pn, t), t = Over \/ Continues(task[i], t)
  PROVE  /\ TasksOK' /\ Born \subseteq Born'
         /\ Creating(i) /\ ~Creating(i)' => task[i].conv \in Born' /\ task[i].conv \notin Born
         /\ Creating(i)' => Creating(i)
  <1>1. /\ Tasks' = Tasks /\ Panels' = Panels /\ Mounted' = Mounted /\ i \in Tasks
        /\ task'[i] = t /\ (\A j \in Tasks : j # i => task'[j] = task[j])
        /\ Mounted \in Panels /\ \A p \in Panels : panel'[p].gen = panel[p].gen
    BY Frame, Places DEF Steps, TasksOK
  <1>2. \A j \in Tasks : j # i =>
          (Active(j)' <=> Active(j)) /\ (Creating(j)' <=> Creating(j)) /\ (Current(j)' <=> Current(j))
    BY Frame DEF Steps, TasksOK
  <1>3. ASSUME Creating(i)'
        PROVE  /\ Creating(i) /\ t.conv = task[i].conv /\ t.msgs = task[i].msgs /\ t.kind = task[i].kind
               /\ Continues(task[i], t)
    <2>1. Continues(task[i], t)
      BY <1>1, <1>3, OverType DEF Creating, Active
    <2>2. t.kind \in Creators
      BY <1>1, <1>3, <2>1 DEF Creating, Continues, Sends
    <2>3. t.kind \notin Sends
      BY <2>2 DEF Creators, Sends, Derives
    <2> QED
      BY <2>1, <2>2, <2>3 DEF Continues, Creating, Active
  <1>4. \A j \in Tasks : Creating(j)' => Creating(j) /\ task'[j].conv = task[j].conv
    BY <1>1, <1>2, <1>3
  <1>5. given' = given
    BY DEF Steps
  <1>6. Born \subseteq Born'
    BY <1>1, <1>4, <1>5 DEF Born
  <1>7. ASSUME Creating(i), ~Creating(i)'
        PROVE  task[i].conv \in Born' /\ task[i].conv \notin Born
    <2>1. task[i].conv \in 1..given /\ \A j \in Tasks : Creating(j) /\ task[j].conv = task[i].conv => i = j
      BY <1>1, <1>7 DEF TasksOK, TaskOK
    <2>2. \A j \in Tasks : Creating(j)' => task'[j].conv # task[i].conv
      BY <1>4, <1>7, <2>1
    <2> QED
      BY <1>1, <1>5, <1>7, <2>1, <2>2 DEF Born
  <1>8. ASSUME NEW j \in Tasks, j # i PROVE TaskOK(j)'
    <2>1. TaskOK(j) /\ task'[j] = task[j]
      BY <1>1, <1>8 DEF TasksOK
    <2>2. task[j].panel \in Panels
      BY <2>1 DEF TaskOK
    <2>3. ASSUME Creating(j)'
          PROVE  /\ task[j].conv \in 1..given
                 /\ OfIn(task[j].msgs, Born') /\ Ordered(task[j].msgs)
                 /\ \A k \in Tasks : Creating(k)' /\ task'[k].conv = task'[j].conv => j = k
      <3>1. Creating(j)
        BY <1>2, <1>8, <2>3
      <3>2. OfIn(task[j].msgs, Born')
        BY <1>6, <2>1, <3>1 DEF TaskOK, OfIn
      <3>3. \A k \in Tasks : Creating(k)' /\ task'[k].conv = task'[j].conv => j = k
        BY <1>4, <2>1, <3>1 DEF TaskOK
      <3> QED
        BY <2>1, <3>1, <3>2, <3>3 DEF TaskOK
    <2>4. Active(j)' <=> Active(j)
      BY <1>2, <1>8
    <2>5. Current(j)' <=> Current(j)
      BY <1>2, <1>8
    <2>6. scope' = scope
      BY DEF Steps
    <2> QED
      <3>1. Active(j)' /\ task'[j].kind = "remove" => task'[j].conv \in Born'
        BY <1>6, <2>1, <2>4 DEF TaskOK
      <3> QED
        BY <1>1, <1>5, <2>1, <2>2, <2>3, <2>4, <2>5, <2>6, <3>1 DEF TaskOK, OfIn
  <1>9. TaskOK(i)'
    <2>1. CASE t = Over
      <3>1. ~Active(i)' /\ ~Creating(i)' /\ task'[i].panel = 1
        <4>1. task'[i].pc = "done" /\ task'[i].panel = 1
          BY <1>1, <2>1, OverType DEF Over
        <4> QED
          BY <4>1 DEF Active, Creating
      <3>2. 1 \in Panels
        BY Places DEF Panels, Shape
      <3> QED
        BY <1>1, <3>1, <3>2 DEF TaskOK
    <2>2. CASE Continues(task[i], t)
      <3>1. TaskOK(i) /\ Active(i)
        BY <1>1, <2>2 DEF TasksOK, Continues, Active
      <3>2. task'[i].panel \in Panels /\ task'[i].panel = task[i].panel /\ task'[i].token = task[i].token
        BY <1>1, <2>2, <3>1 DEF Continues, TaskOK
      <3>3. Current(i)' <=> Current(i)
        BY <1>1, <3>2 DEF Current, P
      <3>4. task'[i].kind \notin Sends => task'[i].kind = task[i].kind /\ task'[i].msgs = task[i].msgs
        BY <1>1, <2>2 DEF Continues
      <3>5. ASSUME Creating(i)'
            PROVE  /\ task'[i].conv \in 1..given' /\ OfIn(task'[i].msgs, Born') /\ Ordered(task'[i].msgs)
                   /\ \A k \in Tasks : Creating(k)' /\ task'[k].conv = task'[i].conv => i = k
        <4>1. Creating(i) /\ task'[i].conv = task[i].conv /\ task'[i].msgs = task[i].msgs
          BY <1>1, <1>3, <3>5
        <4>2. OfIn(task[i].msgs, Born')
          BY <1>6, <3>1, <4>1 DEF TaskOK, OfIn
        <4>3. \A k \in Tasks : Creating(k)' /\ task'[k].conv = task'[i].conv => i = k
          BY <1>4, <3>1, <4>1 DEF TaskOK
        <4> QED
          BY <1>5, <3>1, <4>1, <4>2, <4>3 DEF TaskOK
      <3>6. Active(i)' => task'[i].pc \in PcOf(task'[i].kind)
        BY <1>1, <2>2 DEF Continues
      <3>7. IF task'[i].kind = "dispose" THEN task'[i].panel < Mounted
            ELSE task'[i].token <= panel'[task'[i].panel].gen
        <4>1. CASE task'[i].kind = "dispose"
          BY <3>1, <3>2, <3>4, <4>1 DEF TaskOK, Sends
        <4>2. CASE task'[i].kind # "dispose" /\ task[i].kind # "dispose"
          BY <1>1, <3>1, <3>2, <4>2 DEF TaskOK
        <4>3. CASE task'[i].kind # "dispose" /\ task[i].kind = "dispose"
          <5>1. task'[i].kind \in Sends
            BY <3>4, <4>3
          <5> QED
            BY <1>1, <2>2, <4>3, <5>1 DEF Continues, Sends, Derives
        <4> QED
          BY <4>1, <4>2, <4>3
      <3>8. Current(i) /\ task'[i].kind # "dispose" => task'[i].scope = scope'
        BY <1>1, <2>2, <3>1, <3>4 DEF TaskOK, Continues, Steps, Sends, Derives
      <3>9. task'[i].n = task[i].n
        BY <1>1, <2>2 DEF Continues
      <3>10. task'[i].kind = "remove" => task'[i].conv \in Born'
        BY <1>1, <1>6, <2>2, <3>1, <3>4 DEF TaskOK, Continues, Sends
      <3> QED
        BY <1>1, <3>1, <3>2, <3>3, <3>4, <3>5, <3>6, <3>7, <3>8, <3>9, <3>10 DEF TaskOK, Sends
    <2> QED
      BY <2>1, <2>2
  <1> QED
    BY <1>1, <1>3, <1>6, <1>7, <1>8, <1>9 DEF TasksOK

-----------------------------------------------------------------------------
(* The order of operations: answers, continuations, sends. *)

\* What a step of one task leaves alone, and what becomes of the mounted panel.
LEMMA Others ==
  ASSUME Shape, TasksOK, NEW i, NEW pn, NEW t, Steps(i, pn, t)
  PROVE  /\ Tasks' = Tasks /\ Panels' = Panels /\ Mounted' = Mounted /\ Mounted \in Panels
         /\ i \in Tasks /\ task[i].panel \in Panels /\ task'[i] = t
         /\ panel'[task[i].panel] = pn
         /\ \A p \in Panels : p # task[i].panel => panel'[p] = panel[p]
         /\ \A p \in Panels : panel'[p].gen = panel[p].gen
         /\ Mine' = IF task[i].panel = Mounted THEN pn ELSE Mine
         /\ Mine'.gen = Mine.gen /\ (task[i].panel = Mounted => P(i) = Mine)
         /\ \A j \in Tasks : j # i =>
              /\ task'[j] = task[j]
              /\ Active(j)' <=> Active(j)
              /\ IsSend(j)' <=> IsSend(j)
              /\ IsOp(j)' <=> IsOp(j)
              /\ Mounts(j)' <=> Mounts(j)
              /\ Latest(j)' <=> Latest(j)
              /\ Stale(j)' <=> Stale(j)
              /\ Idly(j)' <=> Idly(j)
  <1>1. /\ Tasks' = Tasks /\ Panels' = Panels /\ Mounted' = Mounted /\ i \in Tasks
        /\ task[i].panel \in Panels /\ task'[i] = t
        /\ (\A j \in Tasks : j # i => task'[j] = task[j])
        /\ panel'[task[i].panel] = pn
        /\ (\A p \in Panels : p # task[i].panel => panel'[p] = panel[p])
        /\ (\A p \in Panels : panel'[p].gen = panel[p].gen)
        /\ Mine' = IF task[i].panel = Mounted THEN pn ELSE Mine
    BY Frame DEF Steps, TasksOK, TaskOK
  <1>2. \A j \in Tasks : j # i =>
              /\ task'[j] = task[j]
              /\ Active(j)' <=> Active(j)
              /\ IsSend(j)' <=> IsSend(j)
              /\ Mounts(j)' <=> Mounts(j)
              /\ Latest(j)' <=> Latest(j)
              /\ Stale(j)' <=> Stale(j)
              /\ Idly(j)' <=> Idly(j)
    BY Frame DEF Steps, TasksOK
  <1>3. Mounted \in Panels
    BY Places
  <1>4. \A j \in Tasks : j # i => (IsOp(j)' <=> IsOp(j))
    BY <1>1 DEF IsOp, Active
  <1>5. task[i].panel = Mounted => P(i) = Mine
    BY DEF P, Mine
  <1>6. Mine'.gen = Mine.gen
    BY <1>1, <1>5 DEF Steps
  <1> QED
    BY <1>1, <1>2, <1>3, <1>4, <1>5, <1>6

\* The task at the head of the queue awaits an answer, and nothing is ahead of it.
LEMMA AtHead ==
  ASSUME Shape, QueueOK, NEW i, calls # <<>>, i = Head(calls)
  PROVE  /\ i \in Tasks /\ task[i].pc \in InQueue
         /\ \A k, j : Ahead(calls, k, j) => j # i
         /\ \A k, j : Ahead(calls, k, j) /\ k # i => Ahead(Tail(calls), k, j)
  <1>1. calls \in Seq(Nat) /\ Distinct(calls)
    BY DEF Shape, QueueOK
  <1>2. In(calls, i) /\ (\A k, j : Ahead(calls, k, j) => j # i)
        /\ \A k, j : Ahead(calls, k, j) /\ k # i => Ahead(Tail(calls), k, j)
    BY <1>1, TailIn
  <1>3. i \in Tasks
    BY <1>2 DEF QueueOK, In
  <1> QED
    BY <1>2, <1>3 DEF QueueOK

\* An operation that is the latest or overtaken, or of a panel taken down.
LEMMA OpCases ==
  ASSUME Shape, TasksOK, NEW i \in Tasks, IsOp(i)
  PROVE  /\ Latest(i) \/ Stale(i) \/ task[i].panel < Mounted
         /\ Latest(i) <=> Current(i) /\ task[i].kind # "dispose"
         /\ ~(Latest(i) /\ Stale(i)) /\ (Latest(i) => task[i].panel = Mounted)
         /\ (Stale(i) => task[i].panel = Mounted)
  <1>1. task[i].panel \in Panels /\ Mounted \in Panels /\ Panels = 1..Mounted /\ Mounted \in Nat
    BY Places DEF TasksOK, TaskOK, Panels, Mounted
  <1>2. task[i].kind = "dispose" => task[i].panel < Mounted
    BY DEF TasksOK, TaskOK, IsOp
  <1>3. task[i].panel = Mounted => P(i) = Mine
    BY DEF P, Mine
  <1> QED
    BY <1>1, <1>2, <1>3 DEF Latest, Stale, Mounts, Current

\* An operation is answered and ends.
LEMMA Answered ==
  ASSUME Shape, QueueOK, TasksOK, OrderOK, Quiet, NEW i, NEW pn, Steps(i, pn, Over),
         IsOp(i), calls # <<>>, i = Head(calls), calls' = Tail(calls),
         pn.busy = P(i).busy, pn.dirty = P(i).dirty,
         pn.loading = IF Current(i) THEN FALSE ELSE P(i).loading
  PROVE  OrderOK'
  <1>1. /\ Tasks' = Tasks /\ Mounted' = Mounted /\ Panels' = Panels /\ Mounted \in Panels
        /\ i \in Tasks /\ task[i].panel \in Panels /\ task'[i] = Over
        /\ panel'[task[i].panel] = pn
        /\ (\A p \in Panels : p # task[i].panel => panel'[p] = panel[p])
        /\ Mine' = IF task[i].panel = Mounted THEN pn ELSE Mine
        /\ (task[i].panel = Mounted => P(i) = Mine)
    BY Others
  <1>2. \A j \in Tasks : j # i =>
          /\ task'[j] = task[j] /\ (IsSend(j)' <=> IsSend(j)) /\ (IsOp(j)' <=> IsOp(j))
          /\ (Mounts(j)' <=> Mounts(j)) /\ (Latest(j)' <=> Latest(j)) /\ (Stale(j)' <=> Stale(j))
          /\ (Idly(j)' <=> Idly(j))
    BY Others
  <1>3. ~IsOp(i)' /\ ~IsSend(i)' /\ ~Mounts(i)' /\ ~Latest(i)' /\ ~Stale(i)'
    BY <1>1, OverType DEF IsOp, IsSend, Mounts, Latest, Stale, Active
  <1>4. \A p : Sending(p)' <=> Sending(p)
    BY OverType, SendingKept DEF IsOp, IsSend
  <1>5. /\ task[i].pc \in InQueue /\ task[i].pc # "wait"
        /\ \A k, j : Ahead(calls, k, j) => j # i
        /\ \A k, j : Ahead(calls, k, j) /\ k # i => Ahead(calls', k, j)
    BY AtHead DEF InQueue
  <1>6. /\ Latest(i) \/ Stale(i) \/ task[i].panel < Mounted
        /\ (Latest(i) <=> Current(i) /\ task[i].kind # "dispose")
        /\ ~(Latest(i) /\ Stale(i)) /\ (Latest(i) => task[i].panel = Mounted)
        /\ (Stale(i) => task[i].panel = Mounted)
    BY <1>1, OpCases
  <1>6a. Mine.dirty = Mine'.dirty /\ Mine'.busy = Mine.busy
    BY <1>1
  <1>6b. task[i].panel = Mounted => task[i].kind # "dispose"
    BY <1>1, Places DEF TasksOK, TaskOK, IsOp, Mounted
  <1>7. OldOK'
    <2>1. \A p \in Panels : p < Mounted => panel'[p].dirty = {} /\ ~Sending(p)'
      BY <1>1, <1>4 DEF OrderOK, OldOK, P
    <2>2. ASSUME NEW k \in Tasks, IsOp(k)', task'[k].panel < Mounted,
                 task'[k].pc \in {"resave", "delete"}
          PROVE  Fresh' /\ \A j \in Tasks : Mounts(j)' /\ task'[j].pc = "list" => Ahead(calls', k, j)
      <3>1. k # i /\ IsOp(k) /\ task[k] = task'[k]
        BY <1>2, <1>3, <2>2
      <3>2. Fresh /\ \A j \in Tasks : Mounts(j) /\ task[j].pc = "list" => Ahead(calls, k, j)
        BY <2>2, <3>1 DEF OrderOK, OldOK
      <3>3. ~Mounts(i)
        BY <1>1, <1>5, <3>2 DEF Fresh
      <3>4. Mine' = Mine
        BY <1>1, <3>3 DEF Mounts
      <3>5. Fresh'
        BY <1>1, <1>2, <1>3, <1>4, <3>2, <3>4 DEF Fresh
      <3> QED
        BY <1>2, <1>3, <1>5, <3>1, <3>2, <3>5
    <2> QED
      BY <1>1, <2>1, <2>2 DEF OldOK
  <1>8. LoadingOK'
    <2>1. CASE Latest(i)
      <3>1. Mine'.loading = FALSE
        BY <1>1, <1>6, <2>1
      <3>2. \A j \in Tasks : ~Latest(j)'
        BY <1>1, <1>2, <1>3, <2>1 DEF OrderOK, OneLatest
      <3> QED
        BY <1>1, <3>1, <3>2 DEF LoadingOK
    <2>2. CASE ~Latest(i)
      <3>1. Mine'.loading = Mine.loading
        BY <1>1, <1>6, <1>6b, <2>2
      <3>2. \A j \in Tasks : Latest(j)' <=> Latest(j)
        BY <1>2, <1>3, <2>2
      <3> QED
        BY <1>1, <3>1, <3>2 DEF OrderOK, LoadingOK
    <2> QED
      BY <2>1, <2>2
  <1>9. OneLatest'
    BY <1>1, <1>2, <1>3 DEF OrderOK, OneLatest
  <1>10. WaitsOK'
    <2>1. ASSUME NEW k \in Tasks, Stale(k)', task'[k].pc = "wait"
          PROVE  \E j \in Tasks : Latest(j)' /\ task'[j].pc = "wait"
      <3>1. Stale(k) /\ task[k].pc = "wait"
        BY <1>2, <1>3, <2>1
      <3>2. Sending(Mounted)
        BY <3>1, QuietNoWaits DEF Stale, Mounts
      <3>3. PICK j \in Tasks : Latest(j) /\ task[j].pc = "wait"
        BY <3>1, <3>2 DEF OrderOK, WaitsOK
      <3> QED
        BY <1>2, <1>5, <3>3
    <2> QED
      BY <1>1, <2>1 DEF WaitsOK
  <1>11. StaleOK'
    <2>1. ASSUME NEW k \in Tasks, Stale(k)', task'[k].pc \in {"resave", "delete"}
          PROVE  \E j \in Tasks : Latest(j)' /\ (task'[j].pc = "wait" \/ Ahead(calls', k, j))
      <3>1. k # i /\ Stale(k) /\ task[k].pc \in {"resave", "delete"}
        BY <1>2, <1>3, <2>1
      <3>2. PICK j \in Tasks : Latest(j) /\ (task[j].pc = "wait" \/ Ahead(calls, k, j))
        BY <3>1 DEF OrderOK, StaleOK
      <3> QED
        BY <1>2, <1>5, <3>1, <3>2
    <2> QED
      BY <1>1, <2>1 DEF StaleOK
  <1>12. AloneOK'
    BY <1>1, <1>2, <1>3 DEF OrderOK, AloneOK
  <1>13. SendsWait'
    BY <1>1, <1>2, <1>3, <1>4, <1>6a DEF OrderOK, SendsWait
  <1> QED
    BY <1>7, <1>8, <1>9, <1>10, <1>11, <1>12, <1>13 DEF OrderOK

\* A save made once more is answered, and its operation waits again.
LEMMA WaitsAgain ==
  ASSUME Shape, QueueOK, TasksOK, OrderOK, NEW i, NEW pn, NEW t, Steps(i, pn, t),
         IsOp(i), task[i].pc = "resave", calls # <<>>, i = Head(calls), calls' = Tail(calls),
         t.pc = "wait", t.kind = task[i].kind, t.panel = task[i].panel, t.token = task[i].token,
         pn.busy = P(i).busy, pn.loading = P(i).loading, pn.dirty = {}
  PROVE  OrderOK'
  <1>1. /\ Tasks' = Tasks /\ Mounted' = Mounted /\ Panels' = Panels /\ Mounted \in Panels
        /\ i \in Tasks /\ task[i].panel \in Panels /\ task'[i] = t
        /\ panel'[task[i].panel] = pn
        /\ (\A p \in Panels : p # task[i].panel => panel'[p] = panel[p])
        /\ Mine' = IF task[i].panel = Mounted THEN pn ELSE Mine
        /\ (task[i].panel = Mounted => P(i) = Mine) /\ Mine'.gen = Mine.gen
    BY Others
  <1>2. \A j \in Tasks : j # i =>
          /\ task'[j] = task[j] /\ (IsSend(j)' <=> IsSend(j)) /\ (IsOp(j)' <=> IsOp(j))
          /\ (Mounts(j)' <=> Mounts(j)) /\ (Latest(j)' <=> Latest(j)) /\ (Stale(j)' <=> Stale(j))
          /\ (Idly(j)' <=> Idly(j))
    BY Others
  <1>3. /\ IsOp(i)' /\ ~IsSend(i)' /\ ~IsSend(i) /\ (Mounts(i)' <=> Mounts(i))
        /\ (Latest(i)' <=> Latest(i)) /\ (Stale(i)' <=> Stale(i)) /\ ~Idly(i)
    BY <1>1 DEF IsOp, IsSend, Mounts, Latest, Stale, Active, Idly
  <1>4. \A p : Sending(p)' <=> Sending(p)
    BY SendingKept DEF IsOp, IsSend
  <1>5. /\ \A k, j : Ahead(calls, k, j) => j # i
        /\ \A k, j : Ahead(calls, k, j) /\ k # i => Ahead(calls', k, j)
    BY AtHead
  <1>6. Mounts(i) => ~Sending(Mounted)
    BY <1>1, <1>3 DEF OrderOK, SendsWait
  <1>7. Mounts(i) <=> task[i].panel = Mounted
    BY DEF Mounts
  <1>8. OldOK'
    <2>1. \A p \in Panels : p < Mounted => panel'[p].dirty = {} /\ ~Sending(p)'
      BY <1>1, <1>4 DEF OrderOK, OldOK, P
    <2>2. ASSUME NEW k \in Tasks, IsOp(k)', task'[k].panel < Mounted,
                 task'[k].pc \in {"resave", "delete"}
          PROVE  Fresh' /\ \A j \in Tasks : Mounts(j)' /\ task'[j].pc = "list" => Ahead(calls', k, j)
      <3>1. k # i
        BY <1>1, <2>2
      <3>1a. IsOp(k) /\ task[k] = task'[k]
        BY <1>2, <2>2, <3>1
      <3>2. Fresh /\ \A j \in Tasks : Mounts(j) /\ task[j].pc = "list" => Ahead(calls, k, j)
        BY <2>2, <3>1a DEF OrderOK, OldOK
      <3>3. ~Mounts(i)
        BY <1>1, <3>2 DEF Fresh
      <3>4. Mine' = Mine
        BY <1>1, <1>7, <3>3
      <3>5. Fresh'
        BY <1>1, <1>2, <1>3, <1>4, <3>2, <3>3, <3>4 DEF Fresh
      <3> QED
        BY <1>2, <1>3, <1>5, <3>1, <3>2, <3>3, <3>5
    <2> QED
      BY <1>1, <2>1, <2>2 DEF OldOK
  <1>9. \A j \in Tasks : /\ (Latest(j)' <=> Latest(j)) /\ (Stale(j)' <=> Stale(j))
                         /\ (Mounts(j)' <=> Mounts(j)) /\ task'[j].kind = task[j].kind
    BY <1>1, <1>2, <1>3
  <1>10. LoadingOK'
    <2>1. Mine'.loading = Mine.loading
      BY <1>1
    <2> QED
      BY <1>1, <1>9, <2>1 DEF OrderOK, LoadingOK
  <1>11. OneLatest'
    BY <1>1, <1>9 DEF OrderOK, OneLatest
  <1>12. WaitsOK'
    <2>1. CASE Mounts(i)
      <3>1. Mine'.dirty = {} /\ ~Sending(Mounted)'
        BY <1>1, <1>4, <1>6, <1>7, <2>1
      <3> QED
        BY <1>1, <3>1 DEF WaitsOK
    <2>2. CASE ~Mounts(i)
      <3>1. Mine' = Mine /\ ~Stale(i)
        BY <1>1, <1>7, <2>2 DEF Stale
      <3>2. \A j \in Tasks : (Latest(j) \/ Stale(j)) => task'[j] = task[j]
        BY <1>2, <2>2 DEF Latest, Stale
      <3> QED
        BY <1>1, <1>4, <1>9, <3>1, <3>2 DEF OrderOK, WaitsOK
    <2> QED
      BY <2>1, <2>2
  <1>13. StaleOK'
    <2>1. ASSUME NEW k \in Tasks, Stale(k)', task'[k].pc \in {"resave", "delete"}
          PROVE  \E j \in Tasks : Latest(j)' /\ (task'[j].pc = "wait" \/ Ahead(calls', k, j))
      <3>0. k # i
        BY <1>1, <2>1
      <3>1. Stale(k) /\ task[k].pc \in {"resave", "delete"}
        BY <1>2, <1>3, <2>1, <3>0
      <3>2. PICK j \in Tasks : Latest(j) /\ (task[j].pc = "wait" \/ Ahead(calls, k, j))
        BY <3>1 DEF OrderOK, StaleOK
      <3> QED
        BY <1>1, <1>2, <1>9, <1>5, <3>0, <3>2
    <2> QED
      BY <1>1, <2>1 DEF StaleOK
  <1>14. AloneOK'
    <2>1. ASSUME NEW j \in Tasks, Latest(j)', task'[j].kind # "load",
                 NEW k \in Tasks, Mounts(k)', k # j
          PROVE  Stale(k)' /\ Idly(k)'
      <3>1. Latest(j) /\ task[j].kind # "load" /\ Mounts(k)
        BY <1>9, <2>1
      <3>2. Stale(k) /\ Idly(k)
        BY <2>1, <3>1 DEF OrderOK, AloneOK
      <3> QED
        BY <1>2, <1>3, <3>2
    <2> QED
      BY <1>1, <2>1 DEF AloneOK
  <1>15. SendsWait'
    <2>1. Mine'.busy = Mine.busy
      BY <1>1
    <2>2. \A j \in Tasks : IsSend(j)' <=> IsSend(j)
      BY <1>2, <1>3
    <2>3. ASSUME Sending(Mounted), NEW k \in Tasks, Mounts(k)'
          PROVE  task'[k].pc = "wait" \/ (Stale(k)' /\ Idly(k)')
      BY <1>2, <1>6, <1>9, <2>3 DEF OrderOK, SendsWait
    <2> QED
      BY <1>1, <1>4, <2>1, <2>2, <2>3 DEF OrderOK, SendsWait
  <1> QED
    BY <1>8, <1>10, <1>11, <1>12, <1>13, <1>14, <1>15 DEF OrderOK

\* An operation that waited calls SQLite.
LEMMA GoesOn ==
  ASSUME Shape, QueueOK, TasksOK, OrderOK, NEW i, NEW t, Steps(i, P(i), t), Settled(i), IsOp(i),
         calls' = Append(calls, i), t.pc \in InQueue,
         t.kind = task[i].kind, t.panel = task[i].panel, t.token = task[i].token,
         Mine.cur = {} => Mine.dirty = {},
         \/ t.pc = "resave" /\ P(i).dirty # {}
         \/ t.pc # "resave" /\ (task[i].kind = "refresh" \/ Current(i))
            /\ (t.pc = "delete" => task[i].kind # "refresh")
            /\ (task[i].kind = "load" => t.pc = "list")
  PROVE  OrderOK'
  <1>1. /\ Tasks' = Tasks /\ Mounted' = Mounted /\ Panels' = Panels /\ Mounted \in Panels
        /\ i \in Tasks /\ task[i].panel \in Panels /\ task'[i] = t
        /\ panel'[task[i].panel] = P(i)
        /\ (\A p \in Panels : p # task[i].panel => panel'[p] = panel[p])
        /\ (task[i].panel = Mounted => P(i) = Mine)
    BY Others
  <1>1a. Mine' = Mine /\ \A p \in Panels : panel'[p] = panel[p]
    BY <1>1, Others DEF P
  <1>2. \A j \in Tasks : j # i =>
          /\ task'[j] = task[j] /\ (IsSend(j)' <=> IsSend(j)) /\ (IsOp(j)' <=> IsOp(j))
          /\ (Mounts(j)' <=> Mounts(j)) /\ (Latest(j)' <=> Latest(j)) /\ (Stale(j)' <=> Stale(j))
          /\ (Idly(j)' <=> Idly(j))
    BY Others
  <1>2a. /\ task[i].pc = "wait" /\ ~Sending(task[i].panel)
         /\ \A j \in 1..(i - 1) : ~(Has(j, "wait") /\ task[j].panel = task[i].panel)
    BY DEF Settled, Has
  <1>2b. t.pc # "wait" /\ t.pc # "done"
    BY DEF InQueue
  <1>3. /\ IsOp(i)' /\ ~IsSend(i)' /\ ~IsSend(i) /\ (Mounts(i)' <=> Mounts(i))
        /\ (Latest(i)' <=> Latest(i)) /\ (Stale(i)' <=> Stale(i)) /\ ~Idly(i)
    BY <1>1, <1>1a, <1>2a, <1>2b DEF IsOp, IsSend, Mounts, Latest, Stale, Active, Idly
  <1>4. \A p : Sending(p)' <=> Sending(p)
    BY SendingKept DEF IsOp, IsSend
  <1>5. /\ \A k, j : Ahead(calls, k, j) => Ahead(calls', k, j)
        /\ \A k : In(calls, k) => Ahead(calls', k, i)
        /\ \A k \in Tasks : task[k].pc \in InQueue => In(calls, k)
    <2>1. calls \in Seq(Nat) /\ i \in Nat
      BY <1>1, Places DEF Shape, Tasks
    <2> QED
      BY <2>1, AppendIn DEF QueueOK
  <1>6. Mounts(i) => ~Sending(Mounted)
    BY <1>2a DEF Mounts
  <1>7. Mounts(i) <=> task[i].panel = Mounted
    BY DEF Mounts
  <1>8. /\ Latest(i) \/ Stale(i) \/ task[i].panel < Mounted
        /\ (Latest(i) <=> Current(i) /\ task[i].kind # "dispose")
        /\ ~(Latest(i) /\ Stale(i)) /\ (Latest(i) => task[i].panel = Mounted)
        /\ (Stale(i) => task[i].panel = Mounted)
    BY <1>1, OpCases
  <1>9. \A j \in Tasks : /\ (Latest(j)' <=> Latest(j)) /\ (Stale(j)' <=> Stale(j))
                         /\ (Mounts(j)' <=> Mounts(j)) /\ task'[j].kind = task[j].kind
    BY <1>1, <1>2, <1>3
  <1>10. OldOK'
    <2>1. \A p \in Panels : p < Mounted => panel'[p].dirty = {} /\ ~Sending(p)'
      BY <1>1a, <1>4 DEF OrderOK, OldOK
    <2>2. ASSUME NEW k \in Tasks, IsOp(k)', task'[k].panel < Mounted,
                 task'[k].pc \in {"resave", "delete"}
          PROVE  Fresh' /\ \A j \in Tasks : Mounts(j)' /\ task'[j].pc = "list" => Ahead(calls', k, j)
      <3>1. ASSUME k = i PROVE FALSE
        <4>1. task[i].panel < Mounted
          BY <1>1, <2>2, <3>1
        <4>2. P(i).dirty = {}
          BY <1>1, <4>1 DEF OrderOK, OldOK, P
        <4>3. Mounted \in Nat
          BY Places DEF Mounted
        <4> QED
          BY <1>1, <2>2, <3>1, <4>1, <4>2, <4>3 DEF Current
      <3>1a. IsOp(k) /\ task[k] = task'[k]
        BY <1>2, <2>2, <3>1
      <3>2. Fresh /\ \A j \in Tasks : Mounts(j) /\ task[j].pc = "list" => Ahead(calls, k, j)
        BY <2>2, <3>1a DEF OrderOK, OldOK
      <3>3. In(calls, k)
        BY <1>5, <2>2, <3>1a DEF InQueue
      <3>4. Mounts(i) => task[i].kind = "load" /\ t.pc = "list"
        BY <1>1, <1>7, <3>2 DEF Fresh
      <3>5. Fresh'
        BY <1>1, <1>1a, <1>2, <1>3, <1>4, <3>2, <3>4 DEF Fresh
      <3> QED
        BY <1>2, <1>3, <1>5, <3>2, <3>3, <3>5
    <2> QED
      BY <1>1, <2>1, <2>2 DEF OldOK
  <1>11. LoadingOK'
    BY <1>1, <1>1a, <1>9 DEF OrderOK, LoadingOK
  <1>12. OneLatest'
    BY <1>1, <1>9 DEF OrderOK, OneLatest
  <1>13. WaitsOK'
    <2>1. ASSUME NEW k \in Tasks, Stale(k)', task'[k].pc = "wait", ~(Mine.dirty = {} /\ ~Sending(Mounted))
          PROVE  \E j \in Tasks : Latest(j)' /\ task'[j].pc = "wait"
      <3>1. k # i
        BY <1>1, <1>2b, <2>1
      <3>2. Stale(k) /\ task[k].pc = "wait"
        BY <1>2, <2>1, <3>1
      <3>3. PICK j \in Tasks : Latest(j) /\ task[j].pc = "wait"
        BY <2>1, <3>2 DEF OrderOK, WaitsOK
      <3>4. ASSUME j = i PROVE FALSE
        <4>1. k < i
          BY <3>2, <3>3, <3>4 DEF OrderOK, OneLatest
        <4>2. k \in 1..(i - 1)
          BY <1>1, <4>1, Places DEF Tasks
        <4>3. Has(k, "wait") /\ task[k].panel = task[i].panel
          BY <3>2, <3>3, <3>4 DEF Has, Stale, Latest, Mounts
        <4> QED
          BY <1>2a, <4>2, <4>3
      <3> QED
        BY <1>2, <3>3, <3>4
    <2> QED
      BY <1>1, <1>1a, <1>4, <2>1 DEF WaitsOK
  <1>14. StaleOK'
    <2>1. ASSUME NEW k \in Tasks, Stale(k)', task'[k].pc \in {"resave", "delete"}
          PROVE  \E j \in Tasks : Latest(j)' /\ (task'[j].pc = "wait" \/ Ahead(calls', k, j))
      <3>1. CASE k = i
        <4>1. Stale(i) /\ ~Current(i) /\ P(i) = Mine
          BY <1>1, <1>3, <1>7, <1>8, <2>1, <3>1 DEF Stale, Mounts, Current
        <4>2. Mine.dirty # {}
          BY <1>1, <2>1, <3>1, <4>1
        <4>3. PICK j \in Tasks : Latest(j) /\ task[j].pc = "wait"
          BY <1>1, <1>2a, <4>1, <4>2 DEF OrderOK, WaitsOK
        <4> QED
          BY <1>2, <1>8, <4>1, <4>3
      <3>2. CASE k # i
        <4>1. Stale(k) /\ task[k].pc \in {"resave", "delete"} /\ In(calls, k)
          BY <1>2, <1>5, <2>1, <3>2 DEF InQueue
        <4>2. PICK j \in Tasks : Latest(j) /\ (task[j].pc = "wait" \/ Ahead(calls, k, j))
          BY <4>1 DEF OrderOK, StaleOK
        <4> QED
          BY <1>1, <1>2, <1>5, <1>9, <4>1, <4>2
      <3> QED
        BY <3>1, <3>2
    <2> QED
      BY <1>1, <2>1 DEF StaleOK
  <1>15. AloneOK'
    <2>1. ASSUME NEW j \in Tasks, Latest(j)', task'[j].kind # "load",
                 NEW k \in Tasks, Mounts(k)', k # j
          PROVE  Stale(k)' /\ Idly(k)'
      <3>1. Latest(j) /\ task[j].kind # "load" /\ Mounts(k)
        BY <1>9, <2>1
      <3>2. Stale(k) /\ Idly(k)
        BY <2>1, <3>1 DEF OrderOK, AloneOK
      <3> QED
        BY <1>2, <1>3, <3>2
    <2> QED
      BY <1>1, <2>1 DEF AloneOK
  <1>16. SendsWait'
    <2>1. \A j \in Tasks : IsSend(j)' <=> IsSend(j)
      BY <1>2, <1>3
    <2>2. ASSUME Sending(Mounted), NEW k \in Tasks, Mounts(k)'
          PROVE  task'[k].pc = "wait" \/ (Stale(k)' /\ Idly(k)')
      BY <1>2, <1>6, <1>9, <2>2 DEF OrderOK, SendsWait
    <2> QED
      BY <1>1, <1>1a, <1>4, <2>1, <2>2 DEF OrderOK, SendsWait
  <1> QED
    BY <1>10, <1>11, <1>12, <1>13, <1>14, <1>15, <1>16 DEF OrderOK

\* An operation that waited ends: it was overtaken, or opens a conversation of the list.
LEMMA EndsWaiting ==
  ASSUME Shape, QueueOK, TasksOK, OrderOK, NEW i, NEW pn, Steps(i, pn, Over), Settled(i), IsOp(i),
         calls' = calls, P(i).dirty = {}, pn.busy = P(i).busy, pn.dirty = {},
         \/ ~Current(i) /\ pn = P(i)
         \/ Current(i) /\ task[i].kind = "open" /\ pn.loading = FALSE
  PROVE  OrderOK'
  <1>1. /\ Tasks' = Tasks /\ Mounted' = Mounted /\ Panels' = Panels /\ Mounted \in Panels
        /\ i \in Tasks /\ task[i].panel \in Panels /\ task'[i] = Over
        /\ panel'[task[i].panel] = pn
        /\ (\A p \in Panels : p # task[i].panel => panel'[p] = panel[p])
        /\ Mine' = IF task[i].panel = Mounted THEN pn ELSE Mine
        /\ (task[i].panel = Mounted => P(i) = Mine)
    BY Others
  <1>2. \A j \in Tasks : j # i =>
          /\ task'[j] = task[j] /\ (IsSend(j)' <=> IsSend(j)) /\ (IsOp(j)' <=> IsOp(j))
          /\ (Mounts(j)' <=> Mounts(j)) /\ (Latest(j)' <=> Latest(j)) /\ (Stale(j)' <=> Stale(j))
          /\ (Idly(j)' <=> Idly(j))
    BY Others
  <1>2a. task[i].pc = "wait" /\ ~Sending(task[i].panel)
    BY DEF Settled, Has
  <1>3. ~IsOp(i)' /\ ~IsSend(i)' /\ ~Mounts(i)' /\ ~Latest(i)' /\ ~Stale(i)' /\ ~IsSend(i)
    BY <1>1, OverType DEF IsOp, IsSend, Mounts, Latest, Stale, Active
  <1>4. \A p : Sending(p)' <=> Sending(p)
    BY OverType, SendingKept DEF IsOp, IsSend
  <1>5. /\ Latest(i) \/ Stale(i) \/ task[i].panel < Mounted
        /\ (Latest(i) <=> Current(i) /\ task[i].kind # "dispose")
        /\ ~(Latest(i) /\ Stale(i)) /\ (Latest(i) => task[i].panel = Mounted)
        /\ (Stale(i) => task[i].panel = Mounted)
    BY <1>1, OpCases
  <1>6. Mine.dirty = Mine'.dirty /\ Mine'.busy = Mine.busy
    BY <1>1
  <1>6a. ~Latest(i) => Mine' = Mine
    BY <1>1, <1>5
  <1>7. OldOK'
    <2>1. \A p \in Panels : p < Mounted => panel'[p].dirty = {} /\ ~Sending(p)'
      BY <1>1, <1>4 DEF OrderOK, OldOK, P
    <2>2. ASSUME NEW k \in Tasks, IsOp(k)', task'[k].panel < Mounted,
                 task'[k].pc \in {"resave", "delete"}
          PROVE  Fresh' /\ \A j \in Tasks : Mounts(j)' /\ task'[j].pc = "list" => Ahead(calls', k, j)
      <3>1. k # i /\ IsOp(k) /\ task[k] = task'[k]
        BY <1>2, <1>3, <2>2
      <3>2. Fresh /\ \A j \in Tasks : Mounts(j) /\ task[j].pc = "list" => Ahead(calls, k, j)
        BY <2>2, <3>1 DEF OrderOK, OldOK
      <3>3. ~Latest(i)
        BY <1>1, <1>5, <3>2 DEF Fresh, Latest
      <3>5. Fresh'
        BY <1>1, <1>2, <1>3, <1>4, <1>6a, <3>2, <3>3 DEF Fresh
      <3> QED
        BY <1>2, <1>3, <3>1, <3>2, <3>5
    <2> QED
      BY <1>1, <2>1, <2>2 DEF OldOK
  <1>8. LoadingOK'
    <2>1. CASE Latest(i)
      <3>1. Mine'.loading = FALSE
        BY <1>1, <1>5, <2>1
      <3>2. \A j \in Tasks : ~Latest(j)'
        BY <1>1, <1>2, <1>3, <2>1 DEF OrderOK, OneLatest
      <3> QED
        BY <1>1, <3>1, <3>2 DEF LoadingOK
    <2>2. CASE ~Latest(i)
      <3>2. \A j \in Tasks : Latest(j)' <=> Latest(j)
        BY <1>2, <1>3, <2>2
      <3> QED
        BY <1>1, <1>6a, <2>2, <3>2 DEF OrderOK, LoadingOK
    <2> QED
      BY <2>1, <2>2
  <1>9. OneLatest'
    BY <1>1, <1>2, <1>3 DEF OrderOK, OneLatest
  <1>10. WaitsOK'
    <2>1. CASE task[i].panel = Mounted
      <3>1. Mine'.dirty = {} /\ ~Sending(Mounted)'
        BY <1>1, <1>2a, <1>4, <2>1
      <3> QED
        BY <1>1, <3>1 DEF WaitsOK
    <2>2. CASE task[i].panel # Mounted
      <3>1. \A k \in Tasks : (Latest(k) \/ Stale(k)) => k # i /\ task'[k] = task[k]
        BY <1>2, <2>2 DEF Latest, Stale, Mounts
      <3> QED
        BY <1>1, <1>2, <1>3, <1>4, <1>6, <3>1 DEF OrderOK, WaitsOK
    <2> QED
      BY <2>1, <2>2
  <1>11. StaleOK'
    <2>1. ASSUME NEW k \in Tasks, Stale(k)', task'[k].pc \in {"resave", "delete"}
          PROVE  \E j \in Tasks : Latest(j)' /\ (task'[j].pc = "wait" \/ Ahead(calls', k, j))
      <3>1. k # i /\ Stale(k) /\ task[k].pc \in {"resave", "delete"}
        BY <1>2, <1>3, <2>1
      <3>2. PICK j \in Tasks : Latest(j) /\ (task[j].pc = "wait" \/ Ahead(calls, k, j))
        BY <3>1 DEF OrderOK, StaleOK
      <3>3. ASSUME j = i PROVE FALSE
        <4>1. task[i].kind # "load"
          BY <1>5, <3>2, <3>3
        <4>2. Idly(k)
          BY <3>1, <3>2, <3>3, <4>1 DEF OrderOK, AloneOK, Stale
        <4> QED
          BY <3>1, <4>2 DEF Idly
      <3> QED
        BY <1>2, <3>2, <3>3
    <2> QED
      BY <1>1, <2>1 DEF StaleOK
  <1>12. AloneOK'
    BY <1>1, <1>2, <1>3 DEF OrderOK, AloneOK
  <1>13. SendsWait'
    BY <1>1, <1>2, <1>3, <1>4, <1>6 DEF OrderOK, SendsWait
  <1> QED
    BY <1>7, <1>8, <1>9, <1>10, <1>11, <1>12, <1>13 DEF OrderOK

\* A send is of the mounted panel and the only one; operations wait for it.
LEMMA SendAlone ==
  ASSUME Shape, TasksOK, OrderOK, NEW i \in Tasks, IsSend(i)
  PROVE  /\ task[i].panel = Mounted /\ Sending(Mounted) /\ P(i) = Mine /\ ~Fresh
         /\ \A j \in Tasks : IsSend(j) => j = i
         /\ \A k \in Tasks : Mounts(k) => task[k].pc = "wait" \/ (Stale(k) /\ Idly(k))
         /\ Mine.busy
  <1>1. task[i].panel \in Panels /\ Mounted \in Panels /\ Panels = 1..Mounted /\ Mounted \in Nat
    BY Places DEF TasksOK, TaskOK, Panels, Mounted
  <1>2. Sending(task[i].panel)
    BY DEF Sending, IsSend, Active
  <1>3. task[i].panel = Mounted
    BY <1>1, <1>2 DEF OrderOK, OldOK
  <1> QED
    BY <1>2, <1>3 DEF OrderOK, SendsWait, Fresh, P, Mine

\* A send goes on, or ends.
LEMMA SendSteps ==
  ASSUME Shape, QueueOK, TasksOK, OrderOK, NEW i, NEW pn, NEW t, Steps(i, pn, t), IsSend(i),
         \/ t = Over /\ pn.busy = FALSE
         \/ t.kind \in Sends /\ t.pc # "done" /\ t.panel = task[i].panel /\ pn.busy = TRUE,
         pn.loading = P(i).loading
  PROVE  OrderOK'
  <1>1. /\ Tasks' = Tasks /\ Mounted' = Mounted /\ Panels' = Panels /\ Mounted \in Panels
        /\ i \in Tasks /\ task[i].panel \in Panels /\ task'[i] = t
        /\ panel'[task[i].panel] = pn
        /\ (\A p \in Panels : p # task[i].panel => panel'[p] = panel[p])
        /\ Mine' = IF task[i].panel = Mounted THEN pn ELSE Mine
    BY Others
  <1>2. \A j \in Tasks : j # i =>
          /\ task'[j] = task[j] /\ (IsSend(j)' <=> IsSend(j)) /\ (IsOp(j)' <=> IsOp(j))
          /\ (Mounts(j)' <=> Mounts(j)) /\ (Latest(j)' <=> Latest(j)) /\ (Stale(j)' <=> Stale(j))
          /\ (Idly(j)' <=> Idly(j))
    BY Others
  <1>3. /\ task[i].panel = Mounted /\ Sending(Mounted) /\ P(i) = Mine /\ ~Fresh
        /\ \A j \in Tasks : IsSend(j) => j = i
        /\ \A k \in Tasks : Mounts(k) => task[k].pc = "wait" \/ (Stale(k) /\ Idly(k))
    BY <1>1, SendAlone
  <1>4. ~IsOp(i)' /\ ~Mounts(i)' /\ ~Latest(i)' /\ ~Stale(i)' /\ (IsSend(i)' <=> t # Over)
    BY <1>1, OverType DEF IsOp, IsSend, Mounts, Latest, Stale, Active
  <1>5. ~IsOp(i) /\ ~Mounts(i) /\ ~Latest(i) /\ ~Stale(i)
    BY DEF IsSend, IsOp, Mounts, Latest, Stale
  <1>6. \A p : Sending(p)' <=> (\E j \in Tasks : task'[j].panel = p /\ IsSend(j)')
    BY <1>1 DEF Sending, IsSend, Active
  <1>6a. \A p : Sending(p)' <=> (p = Mounted /\ t # Over)
    BY <1>1, <1>2, <1>3, <1>4, <1>6
  <1>7. OldOK'
    <2>1. Mounted \in Nat
      BY Places DEF Mounted
    <2>2. \A p \in Panels : p < Mounted => panel'[p].dirty = {} /\ ~Sending(p)'
      BY <1>1, <1>3, <1>6a, <2>1 DEF OrderOK, OldOK
    <2>3. \A k \in Tasks : IsOp(k)' /\ task'[k].panel < Mounted =>
            task'[k].pc \notin {"resave", "delete"}
      BY <1>2, <1>3, <1>4 DEF OrderOK, OldOK
    <2> QED
      BY <1>1, <2>2, <2>3 DEF OldOK
  <1>8. LoadingOK'
    BY <1>1, <1>2, <1>3, <1>4, <1>5 DEF OrderOK, LoadingOK
  <1>9. OneLatest'
    BY <1>1, <1>2, <1>4 DEF OrderOK, OneLatest
  <1>10. WaitsOK'
    BY <1>1, <1>2, <1>3, <1>4, <1>5 DEF OrderOK, WaitsOK
  <1>11. StaleOK'
    <2>1. \A k \in Tasks : Stale(k)' => task'[k].pc \notin {"resave", "delete"}
      BY <1>2, <1>3, <1>4 DEF Stale, Idly
    <2> QED
      BY <1>1, <2>1 DEF StaleOK
  <1>12. AloneOK'
    BY <1>1, <1>2, <1>4 DEF OrderOK, AloneOK
  <1>13. SendsWait'
    <2>1. \A k \in Tasks : Mounts(k)' => task'[k].pc = "wait" \/ (Stale(k)' /\ Idly(k)')
      BY <1>2, <1>3, <1>4
    <2>2. \A j, k \in Tasks : IsSend(j)' /\ IsSend(k)' => j = k
      BY <1>2, <1>3
    <2>3. Mine'.busy <=> t # Over
      BY <1>1, <1>3, OverType
    <2> QED
      BY <1>1, <1>6a, <2>1, <2>2, <2>3 DEF SendsWait
  <1> QED
    BY <1>7, <1>8, <1>9, <1>10, <1>11, <1>12, <1>13 DEF OrderOK

\* An operation that is the latest becomes a send.
LEMMA BecomesSend ==
  ASSUME Shape, QueueOK, TasksOK, OrderOK, NEW i, NEW pn, NEW t, Steps(i, pn, t),
         IsOp(i), Current(i), task[i].kind \in {"retry", "edit"}, task[i].pc = "create",
         t.kind \in Sends, t.pc # "done", t.panel = task[i].panel,
         pn.busy = TRUE, pn.loading = FALSE
  PROVE  OrderOK'
  <1>1. /\ Tasks' = Tasks /\ Mounted' = Mounted /\ Panels' = Panels /\ Mounted \in Panels
        /\ i \in Tasks /\ task[i].panel \in Panels /\ task'[i] = t
        /\ panel'[task[i].panel] = pn
        /\ (\A p \in Panels : p # task[i].panel => panel'[p] = panel[p])
        /\ Mine' = IF task[i].panel = Mounted THEN pn ELSE Mine
    BY Others
  <1>2. \A j \in Tasks : j # i =>
          /\ task'[j] = task[j] /\ (IsSend(j)' <=> IsSend(j)) /\ (IsOp(j)' <=> IsOp(j))
          /\ (Mounts(j)' <=> Mounts(j)) /\ (Latest(j)' <=> Latest(j)) /\ (Stale(j)' <=> Stale(j))
          /\ (Idly(j)' <=> Idly(j))
    BY Others
  <1>3. Latest(i) /\ ~Stale(i) /\ task[i].panel = Mounted /\ Mounts(i)
    BY <1>1, OpCases DEF Latest
  <1>4. \A k \in Tasks : Mounts(k) /\ k # i => Stale(k) /\ Idly(k)
    BY <1>1, <1>3 DEF OrderOK, AloneOK
  <1>5. ~Sending(Mounted)
    BY <1>1, <1>3 DEF OrderOK, SendsWait
  <1>6. \A j \in Tasks : ~IsSend(j)
    BY <1>5, SendAlone
  <1>7. IsSend(i)' /\ ~IsOp(i)' /\ ~Mounts(i)' /\ ~Latest(i)' /\ ~Stale(i)'
    BY <1>1 DEF IsOp, IsSend, Mounts, Latest, Stale, Active
  <1>8. \A p : Sending(p)' <=> p = Mounted
    <2>1. \A p : Sending(p)' <=> (\E j \in Tasks : task'[j].panel = p /\ IsSend(j)')
      BY <1>1 DEF Sending, IsSend, Active
    <2> QED
      BY <1>1, <1>2, <1>3, <1>6, <1>7, <2>1
  <1>9. ~Fresh
    BY <1>1, <1>3 DEF Fresh
  <1>10. OldOK'
    <2>1. Mounted \in Nat
      BY Places DEF Mounted
    <2>2. \A p \in Panels : p < Mounted => panel'[p].dirty = {} /\ ~Sending(p)'
      BY <1>1, <1>3, <1>8, <2>1 DEF OrderOK, OldOK
    <2>3. \A k \in Tasks : IsOp(k)' /\ task'[k].panel < Mounted =>
            task'[k].pc \notin {"resave", "delete"}
      BY <1>2, <1>9, <1>7 DEF OrderOK, OldOK
    <2> QED
      BY <1>1, <2>2, <2>3 DEF OldOK
  <1>11. \A k \in Tasks : Mounts(k)' => Stale(k)' /\ Idly(k)'
    BY <1>2, <1>4, <1>7
  <1>12. \A k \in Tasks : /\ ~Latest(k)'
                          /\ Stale(k)' => task'[k].pc \notin {"wait", "resave", "delete"}
    BY <1>11 DEF Latest, Stale, Idly
  <1>13. LoadingOK' /\ OneLatest' /\ WaitsOK' /\ StaleOK' /\ AloneOK'
    <2>1. Mine'.loading = FALSE
      BY <1>1, <1>3
    <2> QED
      BY <1>1, <1>12, <2>1 DEF LoadingOK, OneLatest, WaitsOK, StaleOK, AloneOK
  <1>14. SendsWait'
    <2>1. \A j, k \in Tasks : IsSend(j)' /\ IsSend(k)' => j = k
      BY <1>2, <1>6
    <2>2. Mine'.busy
      BY <1>1, <1>3
    <2> QED
      BY <1>1, <1>8, <1>11, <2>1, <2>2 DEF SendsWait
  <1> QED
    BY <1>10, <1>13, <1>14 DEF OrderOK

-----------------------------------------------------------------------------
(* The order of operations: what the writer begins. *)

\* A task of the mounted panel begins.
Starts(pn, t) ==
  /\ Quiet /\ Len(task) < MaxTasks
  /\ pn \in PanelType /\ t \in Task /\ t.pc # "done" /\ t.panel = Mounted /\ t.token = pn.gen
  /\ panel' = [panel EXCEPT ![Mounted] = pn] /\ task' = Append(task, t)

\* What it leaves alone.
LEMMA Before ==
  ASSUME Shape, TasksOK, NEW pn, NEW t, Starts(pn, t), pn.gen = Mine.gen \/ pn.gen = Mine.gen + 1,
         NEW n, n = Len(task) + 1
  PROVE  /\ n \in Tasks' /\ Tasks' = Tasks \cup {n}
         /\ n \notin Tasks /\ (\A k \in Tasks : k < n)
         /\ task' \in Seq(Task) /\ panel' \in Seq(Panel) /\ Len(panel') = Len(panel)
         /\ Panels' = Panels /\ Mounted' = Mounted /\ Mounted \in Panels /\ Mine' = pn
         /\ \A p \in Panels : /\ panel'[p] \in PanelType
                              /\ p # Mounted => panel'[p] = panel[p]
         /\ task'[n] = t
         /\ \A k \in Tasks : /\ task'[k] = task[k]
                             /\ task[k].panel \in Panels
                             /\ IsSend(k)' <=> IsSend(k)
                             /\ IsOp(k)' <=> IsOp(k)
                             /\ Creating(k)' <=> Creating(k)
                             /\ Mounts(k)' <=> Mounts(k)
                             /\ Idly(k)' <=> Idly(k)
                             /\ Active(k)' <=> Active(k)
         /\ Active(n)'
  <1>1. panel \in Seq(Panel) /\ task \in Seq(Task) /\ Mounted \in Panels /\ Len(task) \in Nat
        /\ \A p \in Panels : panel[p] \in PanelType
    BY Places DEF Shape
  <1>2. /\ Panels' = Panels /\ Mounted' = Mounted /\ Len(panel') = Len(panel) /\ panel' \in Seq(Panel)
        /\ panel'[Mounted] = pn
        /\ \A p \in Panels : p # Mounted => panel'[p] = panel[p]
    BY <1>1, ExceptSeq DEF Starts, Panels, Mounted, PanelType
  <1>3. /\ task' \in Seq(Task) /\ Len(task') = n /\ task'[n] = t
        /\ \A k \in 1..Len(task) : task'[k] = task[k]
    BY <1>1 DEF Starts
  <1>4. /\ n \in Tasks' /\ Tasks' = Tasks \cup {n}
        /\ n \notin Tasks /\ (\A k \in Tasks : k < n)
        /\ \A k \in Tasks : task'[k] = task[k]
    BY <1>1, <1>3 DEF Tasks
  <1>5. Mine' = pn
    BY <1>2 DEF Mine
  <1>6. \A p \in Panels : panel'[p] \in PanelType
    BY <1>1, <1>2 DEF Starts
  <1>7. ASSUME NEW k \in Tasks
        PROVE  /\ task[k].panel \in Panels
               /\ Active(k)' <=> Active(k)
               /\ IsSend(k)' <=> IsSend(k)
               /\ IsOp(k)' <=> IsOp(k)
               /\ Creating(k)' <=> Creating(k)
               /\ Mounts(k)' <=> Mounts(k)
               /\ Idly(k)' <=> Idly(k)
    <2>1. task'[k] = task[k] /\ task[k].panel \in Panels
      BY <1>4 DEF TasksOK, TaskOK
    <2>2. Active(k)' <=> Active(k)
      BY <2>1 DEF Active
    <2>3. (IsSend(k)' <=> IsSend(k)) /\ (IsOp(k)' <=> IsOp(k)) /\ (Creating(k)' <=> Creating(k))
      BY <2>1, <2>2 DEF IsSend, IsOp, Creating
    <2>4. (Mounts(k)' <=> Mounts(k)) /\ (Idly(k)' <=> Idly(k))
      BY <1>2, <2>1, <2>3 DEF Mounts, Idly
    <2> QED
      BY <2>1, <2>2, <2>3, <2>4
  <1>8. Active(n)'
    BY <1>3 DEF Active, Starts
  <1>9. \A p \in Panels : panel'[p] \in PanelType /\ (p # Mounted => panel'[p] = panel[p])
    BY <1>2, <1>6
  <1>10. task'[n] = t
    BY <1>3
  <1>11. \A k \in Tasks : task'[k] = task[k]
    BY <1>4
  <1> QED
    BY <1>1, <1>2, <1>3, <1>4, <1>5, <1>7, <1>8, <1>9, <1>10, <1>11

\* When nothing loads, all operations were overtaken and only wait for answers.
LEMMA NothingLoads ==
  ASSUME Shape, TasksOK, OrderOK, Quiet, ~Mine.loading
  PROVE  (\A k \in Tasks : ~Latest(k) /\ (Mounts(k) => Stale(k) /\ Idly(k))) /\ ~Fresh
  <1>1. \A k \in Tasks : ~Latest(k)
    BY DEF OrderOK, LoadingOK
  <1>2. ASSUME NEW k \in Tasks, Mounts(k) PROVE Stale(k) /\ Idly(k)
    <2>1. Stale(k)
      BY <1>1, <1>2, OpCases DEF Mounts, Latest, Stale
    <2>2. task[k].pc \notin {"resave", "delete"}
      BY <1>1, <2>1 DEF OrderOK, StaleOK
    <2>3. task[k].pc # "wait"
      <3>1. SUFFICES ASSUME task[k].pc = "wait" PROVE FALSE
        OBVIOUS
      <3>2. ~Sending(Mounted)
        BY <1>1, <2>1, <3>1 DEF OrderOK, WaitsOK
      <3> QED
        BY <1>2, <3>1, <3>2, QuietNoWaits DEF Mounts
    <2>4. task[k].pc \in PcOf(task[k].kind) /\ task[k].kind \notin Sends /\ task[k] \in Task
      BY <1>2, Places DEF Mounts, IsOp, TasksOK, TaskOK
    <2>5. task[k].kind \notin {"ask", "again"}
      BY <2>4 DEF Sends
    <2> QED
      BY <2>1, <2>2, <2>3, <2>4, <2>5 DEF PcOf, Idly
  <1> QED
    BY <1>1, <1>2 DEF Fresh

\* An operation begins that overtakes the others.
LEMMA Overtakes ==
  ASSUME Shape, QueueOK, TasksOK, OrderOK, NEW pn, NEW t, Starts(pn, t), pn.gen = Mine.gen + 1,
         calls' = calls, t.pc = "wait", t.kind \notin Sends,
         pn.loading = TRUE, pn.busy = Mine.busy, pn.dirty = Mine.dirty,
         pn.items = Mine.items, pn.cur = Mine.cur,
         t.kind # "load" => ~Mine.loading
  PROVE  OrderOK'
  <1>0. PICK n : n = Len(task) + 1
    OBVIOUS
  <1>1. /\ n \in Tasks' /\ Tasks' = Tasks \cup {n} /\ n \notin Tasks /\ (\A k \in Tasks : k < n)
        /\ Panels' = Panels /\ Mounted' = Mounted /\ Mounted \in Panels /\ Mine' = pn
        /\ (\A p \in Panels : p # Mounted => panel'[p] = panel[p])
        /\ task'[n] = t /\ Active(n)'
    BY <1>0, Before
  <1>2. \A k \in Tasks : /\ task'[k] = task[k] /\ task[k].panel \in Panels
                         /\ (IsSend(k)' <=> IsSend(k)) /\ (IsOp(k)' <=> IsOp(k))
                         /\ (Mounts(k)' <=> Mounts(k)) /\ (Idly(k)' <=> Idly(k))
    BY <1>0, Before
  <1>3. IsOp(n)' /\ ~IsSend(n)' /\ Mounts(n)' /\ Latest(n)' /\ ~Stale(n)'
    BY <1>1 DEF IsOp, IsSend, Mounts, Latest, Stale, Starts
  <1>4. \A k \in Tasks : ~Latest(k)' /\ (Stale(k)' <=> Mounts(k))
    <2>1. ASSUME NEW k \in Tasks, Mounts(k) PROVE task'[k].token # pn.gen
      <3>1. task[k].token <= Mine.gen
        BY <2>1, OpCases, Places DEF TasksOK, TaskOK, Mounts, IsOp, Mine, Mounted
      <3>2. task[k].token \in Nat /\ Mine.gen \in Nat
        BY Places DEF Task, PanelType, Panel
      <3> QED
        BY <1>2, <3>1, <3>2
    <2> QED
      BY <1>1, <1>2, <2>1 DEF Latest, Stale
  <1>5. \A p : Sending(p)' <=> Sending(p)
    <2>1. \A p : Sending(p)' <=> (\E j \in Tasks' : task'[j].panel = p /\ IsSend(j)')
      BY DEF Sending, IsSend, Active
    <2>2. \A p : Sending(p) <=> (\E j \in Tasks : task[j].panel = p /\ IsSend(j))
      BY DEF Sending, IsSend, Active
    <2> QED
      BY <1>1, <1>2, <1>3, <2>1, <2>2
  <1>6. OldOK'
    <2>1. \A p \in Panels : p < Mounted => panel'[p].dirty = {} /\ ~Sending(p)'
      BY <1>1, <1>5, Places DEF OrderOK, OldOK, Mounted
    <2>2. ASSUME NEW k \in Tasks', IsOp(k)', task'[k].panel < Mounted,
                 task'[k].pc \in {"resave", "delete"}
          PROVE  Fresh' /\ \A j \in Tasks' : Mounts(j)' /\ task'[j].pc = "list" => Ahead(calls', k, j)
      <3>1. k \in Tasks /\ IsOp(k) /\ task[k] = task'[k]
        BY <1>1, <1>2, <2>2
      <3>2. Fresh /\ \A j \in Tasks : Mounts(j) /\ task[j].pc = "list" => Ahead(calls, k, j)
        BY <2>2, <3>1 DEF OrderOK, OldOK
      <3>3. t.kind = "load"
        BY <3>2 DEF Fresh
      <3>4. Fresh'
        BY <1>1, <1>2, <1>5, <3>2, <3>3 DEF Fresh
      <3> QED
        BY <1>1, <1>2, <3>2, <3>4
    <2> QED
      BY <1>1, <2>1, <2>2 DEF OldOK
  <1>7. LoadingOK' /\ OneLatest' /\ WaitsOK' /\ StaleOK'
    <2>1. LoadingOK'
      BY <1>1, <1>3 DEF LoadingOK
    <2>2. OneLatest'
      BY <1>1, <1>3, <1>4 DEF OneLatest
    <2>3. WaitsOK' /\ StaleOK'
      BY <1>1, <1>3 DEF WaitsOK, StaleOK
    <2> QED
      BY <2>1, <2>2, <2>3
  <1>8. AloneOK'
    <2>1. CASE t.kind = "load"
      BY <1>1, <1>4, <2>1 DEF AloneOK
    <2>2. CASE t.kind # "load"
      <3>1. \A k \in Tasks : Mounts(k) => Stale(k)' /\ Idly(k)'
        BY <1>2, <1>4, <2>2, NothingLoads DEF Starts
      <3> QED
        BY <1>1, <1>2, <1>4, <3>1 DEF AloneOK
    <2> QED
      BY <2>1, <2>2
  <1>9. SendsWait'
    <2>1. ASSUME Sending(Mounted), NEW k \in Tasks', Mounts(k)'
          PROVE  task'[k].pc = "wait" \/ (Stale(k)' /\ Idly(k)')
      BY <1>1, <1>2, <1>4, <2>1 DEF OrderOK, SendsWait
    <2>2. \A j, k \in Tasks' : IsSend(j)' /\ IsSend(k)' => j = k
      BY <1>1, <1>2, <1>3 DEF OrderOK, SendsWait
    <2> QED
      BY <1>1, <1>5, <2>1, <2>2 DEF OrderOK, SendsWait
  <1> QED
    BY <1>6, <1>7, <1>8, <1>9 DEF OrderOK

\* An operation, or a send, begins that overtakes none, while nothing loads.
LEMMA BeginsAlone ==
  ASSUME Shape, QueueOK, TasksOK, OrderOK, NEW pn, NEW t, Starts(pn, t), pn.gen = Mine.gen,
         ~Mine.loading, pn.dirty = Mine.dirty \/ t.kind \in Sends,
         \/ /\ t.kind \notin Sends /\ pn.loading = TRUE /\ pn.busy = Mine.busy
            /\ t.pc = "wait" \/ ~Mine.busy
         \/ t.kind \in Sends /\ pn.loading = Mine.loading /\ ~Mine.busy /\ pn.busy = TRUE
  PROVE  OrderOK'
  <1>0. PICK n : n = Len(task) + 1
    OBVIOUS
  <1>1. /\ n \in Tasks' /\ Tasks' = Tasks \cup {n} /\ n \notin Tasks /\ (\A k \in Tasks : k < n)
        /\ Panels' = Panels /\ Mounted' = Mounted /\ Mounted \in Panels /\ Mine' = pn
        /\ (\A p \in Panels : p # Mounted => panel'[p] = panel[p])
        /\ task'[n] = t /\ Active(n)'
    BY <1>0, Before
  <1>2. \A k \in Tasks : /\ task'[k] = task[k] /\ task[k].panel \in Panels
                         /\ (IsSend(k)' <=> IsSend(k)) /\ (IsOp(k)' <=> IsOp(k))
                         /\ (Mounts(k)' <=> Mounts(k)) /\ (Idly(k)' <=> Idly(k))
    BY <1>0, Before
  <1>3. /\ IsOp(n)' <=> t.kind \notin Sends
        /\ IsSend(n)' <=> t.kind \in Sends
        /\ Mounts(n)' <=> t.kind \notin Sends
        /\ Latest(n)' <=> t.kind \notin Sends
        /\ ~Stale(n)'
    BY <1>1 DEF IsOp, IsSend, Mounts, Latest, Stale, Starts
  <1>4. (\A k \in Tasks : ~Latest(k) /\ (Mounts(k) => Stale(k) /\ Idly(k))) /\ ~Fresh
    BY NothingLoads DEF Starts
  <1>4a. \A k \in Tasks : ~Latest(k)' /\ (Stale(k)' <=> Mounts(k)) /\ (Stale(k)' => Idly(k)')
    BY <1>1, <1>2, <1>4 DEF Latest, Stale
  <1>5. \A p : Sending(p)' <=> Sending(p) \/ (t.kind \in Sends /\ p = Mounted)
    <2>1. \A p : Sending(p)' <=> (\E j \in Tasks' : task'[j].panel = p /\ IsSend(j)')
      BY DEF Sending, IsSend, Active
    <2>2. \A p : Sending(p) <=> (\E j \in Tasks : task[j].panel = p /\ IsSend(j))
      BY DEF Sending, IsSend, Active
    <2> QED
      BY <1>1, <1>2, <1>3, <2>1, <2>2 DEF Starts
  <1>6. OldOK'
    <2>1. \A p \in Panels : p < Mounted => panel'[p].dirty = {} /\ ~Sending(p)'
      BY <1>1, <1>5, Places DEF OrderOK, OldOK, Mounted
    <2>2. \A k \in Tasks' : IsOp(k)' /\ task'[k].panel < Mounted =>
            task'[k].pc \notin {"resave", "delete"}
      <3>1. \A k \in Tasks : IsOp(k) /\ task[k].panel < Mounted => task[k].pc \notin {"resave", "delete"}
        BY <1>4 DEF OrderOK, OldOK
      <3>2. t.panel = Mounted /\ ~(Mounted < Mounted)
        BY Places DEF Starts, Mounted
      <3> QED
        BY <1>1, <1>2, <3>1, <3>2
    <2> QED
      BY <1>1, <2>1, <2>2 DEF OldOK
  <1>7. LoadingOK' /\ OneLatest' /\ WaitsOK' /\ StaleOK'
    <2>1. LoadingOK'
      BY <1>1, <1>3, <1>4a DEF LoadingOK
    <2>2. OneLatest'
      BY <1>1, <1>3, <1>4a DEF OneLatest
    <2>3. \A k \in Tasks' : Stale(k)' => task'[k].pc \notin {"wait", "resave", "delete"}
      BY <1>1, <1>3, <1>4a DEF Idly
    <2>4. WaitsOK' /\ StaleOK'
      BY <2>3 DEF WaitsOK, StaleOK
    <2> QED
      BY <2>1, <2>2, <2>4
  <1>8. AloneOK'
    BY <1>1, <1>2, <1>3, <1>4a DEF AloneOK
  <1>9. SendsWait'
    <2>1. ASSUME Sending(Mounted)', NEW k \in Tasks', Mounts(k)'
          PROVE  task'[k].pc = "wait" \/ (Stale(k)' /\ Idly(k)')
      <3>1. CASE k \in Tasks
        BY <1>2, <1>4a, <2>1, <3>1
      <3>2. CASE k = n
        <4>1. t.kind \notin Sends
          BY <1>3, <2>1, <3>2
        <4>2. Sending(Mounted)
          BY <1>1, <1>5, <2>1, <4>1
        <4> QED
          BY <1>1, <3>2, <4>1, <4>2 DEF OrderOK, SendsWait
      <3> QED
        BY <1>1, <2>1, <3>1, <3>2
    <2>2. \A j, k \in Tasks' : IsSend(j)' /\ IsSend(k)' => j = k
      <3>1. t.kind \in Sends => \A k \in Tasks : ~IsSend(k)
        BY SendAlone DEF OrderOK, SendsWait
      <3> QED
        BY <1>1, <1>2, <1>3, <3>1 DEF OrderOK, SendsWait
    <2>3. Mine'.busy <=> Sending(Mounted)'
      BY <1>1, <1>5 DEF OrderOK, SendsWait
    <2> QED
      BY <1>1, <2>1, <2>2, <2>3 DEF SendsWait
  <1> QED
    BY <1>6, <1>7, <1>8, <1>9 DEF OrderOK

-----------------------------------------------------------------------------
(* What is stored and shown. *)

\* A panel with no send shows what the rows hold, or has it to save.
PanelGood(pn, rs) ==
  /\ \A card \in pn.items \cup pn.cur : \E row \in rs : Same(row, card)
  /\ pn.cur = {} => pn.chat = <<>> /\ pn.dirty = {}
  /\ \A card \in pn.cur :
       \/ pn.dirty = {} /\ pn.chat = card.msgs
       \/ pn.dirty = {[id |-> card.id, msgs |-> pn.chat]} /\ Extends(pn.chat, card)

\* The rows keep what they hold, but for what archiving and titles change.
Keeps == \A row \in rows : \E then \in rows' : Same(then, row)

\* Rows that were there hold what they held.
Recalls == \A then \in rows' : then.id \in Born =>
              \E row \in rows : row.id = then.id /\ row.msgs = then.msgs

\* What RowsOnlyGrow says of a step.
Grow ==
  /\ \A row \in rows, then \in rows' : row.id = then.id => IsPrefix(row.msgs, then.msgs)
  /\ \A then \in rows' \ rows : then.id \in Ids(rows) \/
        \E i \in Tasks : task[i].pc = "create" /\ task[i].conv = then.id

\* What is the same as a copy of it is kept as long as the rows keep.
LEMMA SameKept ==
  ASSUME Keeps, NEW card, \E row \in rows : Same(row, card) PROVE \E row \in rows' : Same(row, card)
  BY DEF Keeps, Same

\* When no send is under way the mounted panel shows what is stored.
LEMMA Shown == ASSUME PanelOK, ~Sending(Mounted) PROVE PanelGood(Mine, rows)
  BY DEF PanelOK, PanelGood

\* No send is under way on any panel when none is on the mounted one.
LEMMA NoSends ==
  ASSUME Shape, TasksOK, OrderOK, ~Sending(Mounted)
  PROVE  \A k \in Tasks : ~IsSend(k)
  BY SendAlone

\* A step of one task keeps the shape of the state.
LEMMA ShapeKept ==
  ASSUME Shape, TasksOK, NEW i, NEW pn, NEW t, Steps(i, pn, t),
         rows' \in SUBSET Card, IsFiniteSet(rows'), calls' \in Seq(Nat), said' = said,
         fails' \in 0..MaxFails
  PROVE  Shape'
  <1>1. /\ Panels' = Panels /\ Mounted' = Mounted /\ Len(panel') = Len(panel)
        /\ panel' \in Seq(Panel) /\ task' \in Seq(Task)
        /\ \A p \in Panels : panel'[p] \in PanelType
    BY Frame DEF Steps, TasksOK
  <1>2. \A p \in Panels' : \A a, b \in panel'[p].cur : a = b
    BY <1>1 DEF PanelType, One
  <1>3. scope' \in Drafts /\ given' \in 0..MaxConvs /\ said' \in 0..MaxSaid
        /\ Len(panel') \in 1..MaxPanels
    BY <1>1 DEF Steps, Shape
  <1> QED
    BY <1>1, <1>2, <1>3 DEF Shape

\* A send of the mounted panel is as it was when neither has changed.
LEMMA SendKept ==
  ASSUME NEW k, SendOK(k), task'[k] = task[k], Mine'.cur = Mine.cur, Mine'.chat = Mine.chat,
         Mine'.dirty = Mine.dirty
  PROVE  SendOK(k)'
  BY DEF SendOK, SendGood, AnswerOf

\* An operation that is answered and ends, but for what the answer is.
LEMMA AnsweredRest ==
  ASSUME ConvInv, Quiet, NEW i, NEW pn, Steps(i, pn, Over),
         IsOp(i), calls # <<>>, i = Head(calls), calls' = Tail(calls),
         pn.busy = P(i).busy, pn.dirty = P(i).dirty,
         pn.loading = IF Current(i) THEN FALSE ELSE P(i).loading,
         rows' \in SUBSET Card, IsFiniteSet(rows'), said' = said, fails' \in 0..MaxFails,
         RowsOK', Recalls,
         \/ Latest(i) /\ PanelGood(pn, rows')
         \/ Stale(i) /\ task[i].pc = "delete" /\ PanelGood(pn, rows') /\ pn.cur \subseteq Mine.cur
         \/ ~Latest(i) /\ (Stale(i) => pn = Mine) /\ (Keeps \/ (~Stale(i) /\ task[i].pc = "delete"))
  PROVE  ConvInv'
  <1>1. /\ Shape /\ QueueOK /\ TasksOK /\ OrderOK /\ RowsOK /\ CleanOK /\ ResaveOK /\ PanelOK
    BY DEF ConvInv
  <1>2. /\ Tasks' = Tasks /\ Mounted' = Mounted /\ Panels' = Panels /\ Mounted \in Panels
        /\ i \in Tasks /\ task[i].panel \in Panels /\ task'[i] = Over
        /\ panel'[task[i].panel] = pn
        /\ (\A p \in Panels : p # task[i].panel => panel'[p] = panel[p])
        /\ Mine' = IF task[i].panel = Mounted THEN pn ELSE Mine
        /\ (task[i].panel = Mounted => P(i) = Mine)
    BY <1>1, Others
  <1>3. \A j \in Tasks : j # i =>
          /\ task'[j] = task[j] /\ (IsSend(j)' <=> IsSend(j)) /\ (IsOp(j)' <=> IsOp(j))
          /\ (Mounts(j)' <=> Mounts(j)) /\ (Latest(j)' <=> Latest(j)) /\ (Stale(j)' <=> Stale(j))
    BY <1>1, Others
  <1>4. /\ ~IsOp(i)' /\ ~IsSend(i)' /\ ~Mounts(i)' /\ ~Latest(i)' /\ ~Stale(i)'
        /\ task'[i].pc = "done" /\ Over.pc \notin InQueue
    BY <1>1, <1>2, OverType DEF IsOp, IsSend, Mounts, Latest, Stale, Active, InQueue
  <1>5. OrderOK'
    BY <1>1, Answered
  <1>6. QueueOK' /\ calls' \in Seq(Nat)
    BY <1>1, <1>4, QueueTail
  <1>7. TasksOK' /\ Born \subseteq Born'
    BY <1>1, TasksKept
  <1>8. Shape'
    BY <1>1, <1>6, ShapeKept
  <1>9. \A p : Sending(p)' <=> Sending(p)
    BY <1>1, OverType, SendingKept DEF IsOp, IsSend
  <1>10. task[i].pc \in InQueue /\ task[i].pc # "wait" /\ \A k, j : Ahead(calls, k, j) => j # i
    BY <1>1, AtHead DEF InQueue
  <1>11. /\ Latest(i) \/ Stale(i) \/ task[i].panel < Mounted
         /\ ~(Latest(i) /\ Stale(i)) /\ (Latest(i) => task[i].panel = Mounted)
         /\ (Stale(i) => task[i].panel = Mounted)
    BY <1>1, <1>2, OpCases
  <1>11a. Mounted \in Nat
    BY <1>1, Places DEF Mounted
  <1>11b. ~Latest(i) /\ ~Stale(i) => Mine' = Mine
    BY <1>2, <1>11, <1>11a
  <1>12. Mine'.dirty = Mine.dirty
    BY <1>2
  <1>13. CleanOK'
    <2>1. CASE Latest(i)
      <3>1. \A k \in Tasks : ~Latest(k)'
        BY <1>1, <1>2, <1>3, <1>4, <2>1 DEF OrderOK, OneLatest
      <3>2. ASSUME NEW k \in Tasks, Mounts(k)', task'[k].pc = "delete" PROVE FALSE
        <4>1. k # i /\ Stale(k)' /\ task[k].pc = "delete"
          BY <1>3, <1>4, <3>1, <3>2 DEF Stale, Latest
        <4>2. Stale(k)
          BY <1>3, <4>1
        <4>3. PICK j \in Tasks : Latest(j) /\ (task[j].pc = "wait" \/ Ahead(calls, k, j))
          BY <1>1, <4>1, <4>2 DEF OrderOK, StaleOK
        <4>4. j = i
          BY <1>1, <1>2, <2>1, <4>3 DEF OrderOK, OneLatest
        <4> QED
          BY <1>10, <4>3, <4>4
      <3> QED
        BY <1>2, <3>1, <3>2 DEF CleanOK
    <2>2. CASE ~Latest(i)
      <3>1. Mine'.cur \subseteq Mine.cur /\ (Mine'.items = Mine.items \/ (Stale(i) /\ task[i].pc = "delete"))
        BY <1>2, <1>11b, <2>2
      <3>2. \A id : Shows(Mine', id) => Shows(Mine, id)
        BY <3>1 DEF Shows
      <3>3. ASSUME NEW k \in Tasks, Latest(k)', task'[k].pc = "mark"
            PROVE  Listed(Mine', task'[k])
        <4>1. k # i
          BY <1>4, <3>3
        <4>2. Latest(k) /\ task[k].pc = "mark" /\ task'[k] = task[k]
          BY <1>3, <3>3, <4>1
        <4>3. task[k].kind # "load"
          BY <1>1, <4>2 DEF TasksOK, TaskOK, PcOf, Latest, Mounts, IsOp
        <4>4. ASSUME Stale(i), task[i].pc = "delete" PROVE FALSE
          BY <1>1, <1>2, <4>1, <4>2, <4>3, <4>4 DEF OrderOK, AloneOK, Idly, Stale
        <4> QED
          BY <1>1, <3>1, <4>2, <4>4 DEF CleanOK, Listed
      <3>4. \A k \in Tasks : Latest(k)' /\ task'[k].pc \in {"list", "get", "create"} => Mine'.dirty = {}
        BY <1>1, <1>3, <1>4, <1>12 DEF CleanOK
      <3>5. \A k \in Tasks : Mounts(k)' /\ task'[k].pc = "delete" => Mine'.dirty = {}
        BY <1>1, <1>3, <1>4, <1>12 DEF CleanOK
      <3>6. ASSUME NEW k \in Tasks, Mounts(k)', task'[k].kind = "remove", Latest(k)' \/ task'[k].pc = "delete"
            PROVE  task'[k].was \/ ~Shows(Mine', task'[k].conv)
        <4>1. k # i
          BY <1>4, <3>6
        <4>2. task[k].was \/ ~Shows(Mine, task[k].conv)
          BY <1>1, <1>3, <3>6, <4>1 DEF CleanOK
        <4> QED
          BY <1>3, <3>2, <4>1, <4>2
      <3> QED
        BY <1>2, <3>3, <3>4, <3>5, <3>6 DEF CleanOK
    <2> QED
      BY <2>1, <2>2
  <1>14. ResaveOK'
    <2>1. ASSUME NEW k \in Tasks, task'[k].pc = "resave"
          PROVE  \E d \in task'[k].save :
                   /\ task'[k].save = {d} /\ d.id \in Born'
                   /\ \/ panel'[task'[k].panel].dirty = {d}
                      \/ panel'[task'[k].panel].dirty = {} /\ \A row \in rows' : row.id = d.id => row.msgs = d.msgs
      <3>1. k # i
        BY <1>4, <2>1
      <3>2. task'[k] = task[k] /\ task[k].panel \in Panels
        BY <1>1, <1>3, <3>1 DEF TasksOK, TaskOK
      <3>3. PICK d \in task[k].save :
              /\ task[k].save = {d} /\ d.id \in Born
              /\ \/ P(k).dirty = {d}
                 \/ P(k).dirty = {} /\ \A row \in rows : row.id = d.id => row.msgs = d.msgs
        BY <1>1, <2>1, <3>2 DEF ResaveOK
      <3>4. panel'[task'[k].panel].dirty = P(k).dirty
        BY <1>2, <3>2 DEF P
      <3>5. (\A row \in rows : row.id = d.id => row.msgs = d.msgs)
             => \A row \in rows' : row.id = d.id => row.msgs = d.msgs
        BY <3>3 DEF Recalls
      <3> QED
        BY <1>7, <3>2, <3>3, <3>4, <3>5
    <2> QED
      BY <1>2, <2>1 DEF ResaveOK, P
  <1>15. PanelOK'
    <2>1. CASE ~Sending(Mounted) /\ PanelGood(Mine', rows')
      <3>1. \A k \in Tasks : ~IsSend(k)'
        BY <1>1, <1>3, <1>4, <2>1, NoSends
      <3> QED
        BY <1>2, <2>1, <3>1 DEF PanelOK, PanelGood
    <2>2. CASE Latest(i) \/ (Stale(i) /\ task[i].pc = "delete")
      <3>1. ~Sending(Mounted)
        BY <1>1, <1>2, <1>10, <1>11, <2>2 DEF OrderOK, SendsWait, Latest, Stale, Idly
      <3>2. PanelGood(Mine', rows')
        <4>1. CASE PanelGood(pn, rows')
          BY <1>2, <1>11, <2>2, <4>1
        <4>2. CASE ~PanelGood(pn, rows')
          <5>1. Mine' = Mine /\ Keeps
            BY <1>2, <1>11, <2>2, <4>2
          <5>2. PanelGood(Mine, rows)
            BY <1>1, <3>1, Shown
          <5> QED
            BY <5>1, <5>2, SameKept DEF PanelGood
        <4> QED
          BY <4>1, <4>2
      <3> QED
        BY <2>1, <3>1, <3>2
    <2>3. CASE ~Latest(i) /\ ~(Stale(i) /\ task[i].pc = "delete")
      <3>1. Mine' = Mine
        BY <1>2, <1>11, <1>11b, <2>3
      <3>2. ASSUME NEW card \in Mine.items \cup Mine.cur PROVE \E row \in rows' : Same(row, card)
        <4>1. ASSUME ~Stale(i), task[i].pc = "delete" PROVE FALSE
          <5>1. Fresh
            BY <1>1, <1>2, <1>11, <2>3, <4>1 DEF OrderOK, OldOK
          <5> QED
            BY <3>2, <5>1 DEF Fresh
        <4>2. Keeps
          BY <2>3, <4>1
        <4> QED
          BY <1>1, <3>2, <4>2, SameKept DEF PanelOK
      <3>3. \A k \in Tasks : IsSend(k)' => SendOK(k)'
        <4>1. ASSUME NEW k \in Tasks, IsSend(k)' PROVE SendOK(k)'
          <5>1. k # i /\ IsSend(k) /\ task'[k] = task[k]
            BY <1>3, <1>4, <4>1
          <5>2. SendOK(k)
            BY <1>1, <5>1 DEF PanelOK
          <5> QED
            BY <3>1, <5>1, <5>2, SendKept
        <4> QED
          BY <4>1
      <3> QED
        BY <1>1, <1>2, <1>9, <3>1, <3>2, <3>3 DEF PanelOK
    <2> QED
      BY <2>2, <2>3
  <1> QED
    BY <1>5, <1>6, <1>7, <1>8, <1>13, <1>14, <1>15 DEF ConvInv

-----------------------------------------------------------------------------
(* Answers to operations. *)

\* Rows that stay as they are.
LEMMA RowsStay ==
  ASSUME RowsOK, rows' = rows, Born \subseteq Born'
  PROVE  RowsOK' /\ Recalls /\ Keeps
  <1>1. \A row \in rows : RowOK(row)'
    BY DEF RowsOK, RowOK, OfIn
  <1> QED
    BY <1>1 DEF RowsOK, Recalls, Keeps, Same

\* And what RowsOnlyGrow says of them.
LEMMA StayGrows ==
  ASSUME Shape, RowsOK, rows' = rows PROVE Grow
  <1>1. \A row, then \in rows : row.id = then.id => row.msgs = then.msgs /\ row.msgs \in Seq(Message)
    BY DEF RowsOK, Shape, Card
  <1> QED
    BY <1>1, PrefixItself DEF Grow

\* What holds when SQLite answers an operation.
LEMMA AskedFacts ==
  ASSUME ConvInv, NEW i \in Tasks, NEW pc, Asked(i, pc), task[i].kind \notin Sends
  PROVE  /\ Quiet /\ calls # <<>> /\ i = Head(calls) /\ task[i].pc = pc /\ pc \in InQueue
         /\ IsOp(i) /\ (task[i].panel = Mounted => P(i) = Mine)
         /\ task[i].kind # "dispose" /\ pc \in PcOf(task[i].kind)
         /\ task[i].panel \in Panels /\ P(i) \in PanelType
         /\ (Latest(i) <=> Current(i)) /\ (Current(i) => P(i) = Mine)
         /\ (Stale(i) <=> task[i].panel = Mounted /\ ~Current(i))
         /\ (Current(i) => scope = task[i].scope)
         /\ (Latest(i) => ~Sending(Mounted))
  <1>1. Shape /\ QueueOK /\ TasksOK /\ OrderOK
    BY DEF ConvInv
  <1>2. Quiet /\ calls # <<>> /\ i = Head(calls) /\ task[i].pc = pc
    BY DEF Asked
  <1>3. pc \in InQueue
    BY <1>1, <1>2, AtHead
  <1>4. IsOp(i)
    BY <1>2, <1>3 DEF IsOp, Active, InQueue
  <1>5. pc \in PcOf(task[i].kind) /\ task[i].panel \in Panels
    BY <1>1, <1>2, <1>4 DEF TasksOK, TaskOK, IsOp
  <1>6. task[i].kind # "dispose"
    BY <1>3, <1>5 DEF PcOf, Creators, Derives, InQueue
  <1>7. (Latest(i) <=> Current(i)) /\ (Current(i) => P(i) = Mine)
    BY <1>1, <1>4, <1>6, OpCases DEF Current, P, Mine
  <1>8. Stale(i) <=> task[i].panel = Mounted /\ ~Current(i)
    BY <1>4 DEF Stale, Mounts, Current, P, Mine
  <1>8a. task[i].panel = Mounted => P(i) = Mine
    BY DEF P, Mine
  <1>9. P(i) \in PanelType
    BY <1>1, <1>5, Places DEF P
  <1>10. Current(i) => scope = task[i].scope
    BY <1>1, <1>4, <1>6 DEF TasksOK, TaskOK, IsOp
  <1>11. Latest(i) => ~Sending(Mounted)
    <2>1. SUFFICES ASSUME Latest(i), Sending(Mounted) PROVE FALSE
      OBVIOUS
    <2>2. task[i].pc = "wait" \/ Stale(i)
      BY <1>1, <2>1 DEF OrderOK, SendsWait, Latest
    <2> QED
      BY <1>2, <1>3, <2>1, <2>2 DEF InQueue, Latest, Stale
  <1> QED
    BY <1>2, <1>3, <1>4, <1>5, <1>6, <1>7, <1>8, <1>8a, <1>9, <1>10, <1>11

\* The end of the loading, and what it leaves.
LEMMA LoadedIs ==
  ASSUME NEW pn \in PanelType, NEW i
  PROVE  /\ Loaded(i, pn) \in PanelType
         /\ Loaded(i, pn).gen = pn.gen /\ Loaded(i, pn).busy = pn.busy
         /\ Loaded(i, pn).dirty = pn.dirty /\ Loaded(i, pn).chat = pn.chat
         /\ Loaded(i, pn).cur = pn.cur /\ Loaded(i, pn).items = pn.items
         /\ Loaded(i, pn).loading = IF Current(i) THEN FALSE ELSE pn.loading
         /\ ~Current(i) => Loaded(i, pn) = pn
  <1>1. pn \in Panel /\ One(pn)
    BY DEF PanelType
  <1> QED
    BY <1>1 DEF Loaded, Panel, PanelType, One

\* What is shown, and what is cleared.
LEMMA ApplyIs ==
  ASSUME NEW pn \in PanelType, NEW card \in Card
  PROVE  /\ Apply(pn, card) \in PanelType
         /\ Apply(pn, card).gen = pn.gen /\ Apply(pn, card).busy = pn.busy
         /\ Apply(pn, card).dirty = pn.dirty /\ Apply(pn, card).chat = card.msgs
         /\ Apply(pn, card).cur = {card} /\ Apply(pn, card).items = pn.items
         /\ Apply(pn, card).loading = pn.loading
  <1>1. pn \in Panel /\ One(pn)
    BY DEF PanelType
  <1>2. Apply(pn, card) \in PanelType
    BY PanelOps
  <1> QED
    BY <1>1, <1>2 DEF Apply, Panel
LEMMA ClearedIs ==
  ASSUME NEW pn \in PanelType
  PROVE  /\ Cleared(pn) \in PanelType
         /\ Cleared(pn).gen = pn.gen /\ Cleared(pn).busy = pn.busy
         /\ Cleared(pn).dirty = pn.dirty /\ Cleared(pn).chat = <<>>
         /\ Cleared(pn).cur = {} /\ Cleared(pn).items = pn.items
         /\ Cleared(pn).loading = pn.loading
  <1>1. pn \in Panel /\ One(pn) /\ <<>> \in Seq(Message)
    BY DEF PanelType
  <1> QED
    BY <1>1 DEF Cleared, Panel, PanelType, One
LEMMA ItemsIs ==
  ASSUME NEW pn \in PanelType, NEW items \in SUBSET Card
  PROVE  /\ [pn EXCEPT !.items = items] \in PanelType
         /\ [pn EXCEPT !.items = items].gen = pn.gen /\ [pn EXCEPT !.items = items].busy = pn.busy
         /\ [pn EXCEPT !.items = items].dirty = pn.dirty
         /\ [pn EXCEPT !.items = items].chat = pn.chat
         /\ [pn EXCEPT !.items = items].cur = pn.cur /\ [pn EXCEPT !.items = items].items = items
         /\ [pn EXCEPT !.items = items].loading = pn.loading
  <1>1. pn \in Panel /\ One(pn)
    BY DEF PanelType
  <1> QED
    BY <1>1 DEF Panel, PanelType, One
LEMMA ListingIs ==
  ASSUME NEW pn \in PanelType, NEW card \in Card
  PROVE  /\ Listing(pn, card) \in PanelType
         /\ Listing(pn, card).gen = pn.gen /\ Listing(pn, card).busy = pn.busy
         /\ Listing(pn, card).dirty = pn.dirty /\ Listing(pn, card).chat = pn.chat
         /\ Listing(pn, card).cur = pn.cur /\ Listing(pn, card).loading = pn.loading
         /\ \A other \in Listing(pn, card).items : other = card \/ (other \in pn.items /\ other.id # card.id)
  <1>1. pn \in Panel
    BY DEF PanelType
  <1>2. Listing(pn, card) \in PanelType
    BY PanelOps
  <1>3. Listing(pn, card) = [pn EXCEPT !.items = Upsert(pn.items, card)]
    BY <1>1 DEF Listing, Panel
  <1> QED
    BY <1>1, <1>2, <1>3 DEF Panel, Upsert

\* A load is answered.
LEMMA LoadsKeep ==
  ASSUME ConvInv, NEW i \in Tasks, Loads(i) PROVE ConvInv' /\ Grow
  <1>1. Shape /\ TasksOK /\ RowsOK /\ CleanOK /\ PanelOK
    BY DEF ConvInv
  <1>2. /\ Quiet /\ calls # <<>> /\ i = Head(calls) /\ task[i].pc = "list"
        /\ IsOp(i) /\ task[i].panel \in Panels /\ P(i) \in PanelType
        /\ (Latest(i) <=> Current(i)) /\ (task[i].panel = Mounted => P(i) = Mine)
        /\ (Current(i) => P(i) = Mine)
        /\ (Stale(i) <=> task[i].panel = Mounted /\ ~Current(i))
        /\ (Current(i) => scope = task[i].scope)
    BY AskedFacts DEF Loads, Answers, Sends
  <1>3. /\ calls' = Tail(calls) /\ scope' = scope /\ fails' = fails /\ rows' = rows
        /\ given' = given /\ said' = said /\ task' = [task EXCEPT ![i] = Over]
    BY DEF Loads, Answers, End
  <1>4. PICK pn \in PanelType :
          /\ panel' = [panel EXCEPT ![task[i].panel] = pn]
          /\ pn.gen = P(i).gen /\ pn.busy = P(i).busy /\ pn.dirty = P(i).dirty
          /\ pn.loading = IF Current(i) THEN FALSE ELSE P(i).loading
          /\ ~Current(i) => pn = P(i)
          /\ Current(i) => PanelGood(pn, rows)
    <2>1. CASE ~Current(i)
      <3>1. panel' = [panel EXCEPT ![task[i].panel] = Loaded(i, P(i))]
        BY <2>1 DEF Loads, SetPanel
      <3> QED
        BY <1>2, <2>1, <3>1, LoadedIs
    <2>2. CASE Current(i)
      <3>1. SameScope(i) /\ P(i).dirty = {} /\ rows \in SUBSET Card
        BY <1>1, <1>2, <2>2 DEF SameScope, CleanOK, Shape
      <3> DEFINE ln == [P(i) EXCEPT !.items = rows]
                 pp == Loaded(i, ln)
      <3>2. ln \in PanelType /\ ln.items = rows /\ ln.dirty = {} /\ ln.gen = P(i).gen /\ ln.busy = P(i).busy
        BY <1>2, <3>1, ItemsIs
      <3>3. /\ Candidates = {} /\ SetPanel(i, Cleared(pp))
            \/ \E card \in Candidates : SetPanel(i, Apply(pp, card))
        BY <2>2, <3>1 DEF Loads
      <3> HIDE DEF ln
      <3>4. pp \in PanelType /\ pp.items = rows /\ pp.dirty = {} /\ pp.gen = P(i).gen
            /\ pp.busy = P(i).busy /\ pp.loading = FALSE
        BY <2>2, <3>2, LoadedIs
      <3> HIDE DEF pp
      <3>5. CASE SetPanel(i, Cleared(pp))
        <4>1. /\ Cleared(pp) \in PanelType /\ Cleared(pp).gen = pp.gen /\ Cleared(pp).busy = pp.busy
              /\ Cleared(pp).dirty = {} /\ Cleared(pp).chat = <<>> /\ Cleared(pp).cur = {}
              /\ Cleared(pp).items = rows /\ Cleared(pp).loading = FALSE
          BY <3>4, ClearedIs
        <4>2. PanelGood(Cleared(pp), rows)
          BY <4>1 DEF PanelGood, Same
        <4> QED
          BY <2>2, <3>1, <3>4, <3>5, <4>1, <4>2 DEF SetPanel
      <3>6. CASE \E card \in Candidates : SetPanel(i, Apply(pp, card))
        <4>0. PICK card \in Candidates : SetPanel(i, Apply(pp, card))
          BY <3>6
        <4>1. /\ Apply(pp, card) \in PanelType /\ Apply(pp, card).gen = pp.gen
              /\ Apply(pp, card).busy = pp.busy
              /\ Apply(pp, card).dirty = {} /\ Apply(pp, card).chat = card.msgs
              /\ Apply(pp, card).cur = {card}
              /\ Apply(pp, card).items = rows /\ Apply(pp, card).loading = FALSE /\ card \in rows
          BY <3>1, <3>4, ApplyIs DEF Candidates
        <4>2. PanelGood(Apply(pp, card), rows)
          BY <4>1 DEF PanelGood, Same
        <4> QED
          BY <2>2, <3>1, <3>4, <4>0, <4>1, <4>2 DEF SetPanel
      <3> QED
        BY <3>3, <3>5, <3>6
    <2> QED
      BY <2>1, <2>2
  <1>5. Steps(i, pn, Over)
    BY <1>1, <1>3, <1>4, OverType DEF Steps, Moves
  <1>6. RowsOK' /\ Recalls /\ Keeps
    BY <1>1, <1>3, <1>5, TasksKept, RowsStay
  <1>7. rows' \in SUBSET Card /\ IsFiniteSet(rows') /\ fails' \in 0..MaxFails
    BY <1>1, <1>3 DEF Shape
  <1>8. ConvInv'
    BY <1>2, <1>3, <1>4, <1>5, <1>6, <1>7, AnsweredRest
  <1> QED
    BY <1>1, <1>3, <1>8, StayGrows

\* A copy of a row has the row's id, and rows with the same id are the same.
LEMMA RowOf ==
  ASSUME RowsOK, NEW id \in Ids(rows)
  PROVE  CardOf(rows, id) \in rows /\ CardOf(rows, id).id = id
  BY DEF Ids, CardOf

\* A refresh is answered.
LEMMA RefreshesKeep ==
  ASSUME ConvInv, NEW i \in Tasks, Refreshes(i) PROVE ConvInv' /\ Grow
  <1>1. Shape /\ TasksOK /\ RowsOK /\ CleanOK /\ PanelOK
    BY DEF ConvInv
  <1>2. /\ Quiet /\ calls # <<>> /\ i = Head(calls) /\ task[i].pc = "list"
        /\ IsOp(i) /\ task[i].panel \in Panels /\ P(i) \in PanelType
        /\ (Latest(i) <=> Current(i)) /\ (task[i].panel = Mounted => P(i) = Mine)
        /\ (Current(i) => P(i) = Mine)
        /\ (Stale(i) <=> task[i].panel = Mounted /\ ~Current(i))
        /\ (Latest(i) => ~Sending(Mounted))
    BY AskedFacts DEF Refreshes, Answers, Sends
  <1>3. /\ calls' = Tail(calls) /\ scope' = scope /\ fails' = fails /\ rows' = rows
        /\ given' = given /\ said' = said /\ task' = [task EXCEPT ![i] = Over]
    BY DEF Refreshes, Answers, End
  <1>4. PICK pn \in PanelType :
          /\ panel' = [panel EXCEPT ![task[i].panel] = pn]
          /\ pn.gen = P(i).gen /\ pn.busy = P(i).busy /\ pn.dirty = P(i).dirty
          /\ pn.loading = IF Current(i) THEN FALSE ELSE P(i).loading
          /\ ~Current(i) => pn = P(i)
          /\ Current(i) => PanelGood(pn, rows)
    <2>1. CASE ~Current(i)
      <3>1. panel' = [panel EXCEPT ![task[i].panel] = P(i)]
        BY <2>1 DEF Refreshes, SetPanel
      <3> QED
        BY <1>2, <2>1, <3>1
    <2>2. CASE Current(i)
      <3>1. P(i).dirty = {} /\ P(i) = Mine /\ rows \in SUBSET Card
        BY <1>1, <1>2, <2>2 DEF CleanOK, Shape
      <3>2. PanelGood(P(i), rows)
        BY <1>1, <1>2, <2>2, <3>1, Shown
      <3> DEFINE mine == {card \in rows : card.id \in Ids(P(i).cur)}
                 cur == IF P(i).cur # {} /\ Ids(P(i).cur) \subseteq Ids(rows) THEN mine ELSE P(i).cur
                 rn == [P(i) EXCEPT !.items = rows, !.cur = cur]
                 pp == Loaded(i, rn)
      <3>3. /\ cur \in SUBSET Card
            /\ \A a, b \in cur : a = b
            /\ \A card \in cur : (\E row \in rows : Same(row, card)) /\ P(i).chat = card.msgs
            /\ cur = {} => P(i).cur = {}
        <4>1. P(i) \in Panel /\ \A a, b \in P(i).cur : a = b
          BY <1>2 DEF PanelType, One
        <4>2. CASE P(i).cur # {} /\ Ids(P(i).cur) \subseteq Ids(rows)
          <5>1. PICK c \in P(i).cur : TRUE
            BY <4>2
          <5>2. Ids(P(i).cur) = {c.id} /\ c.id \in Ids(rows) /\ P(i).cur = {c}
            BY <4>1, <4>2, <5>1 DEF Ids
          <5>3. P(i).chat = c.msgs /\ \E row \in rows : Same(row, c)
            BY <3>1, <3>2, <5>1 DEF PanelGood
          <5>4. PICK row \in rows : Same(row, c)
            BY <5>3
          <5>5. mine = {row}
            BY <1>1, <5>2, <5>4 DEF RowsOK, Same
          <5> QED
            BY <3>1, <4>2, <5>3, <5>4, <5>5 DEF Same
        <4>3. CASE ~(P(i).cur # {} /\ Ids(P(i).cur) \subseteq Ids(rows))
          BY <3>1, <3>2, <4>1, <4>3 DEF PanelGood, Panel
        <4> QED
          BY <4>2, <4>3
      <3>4. panel' = [panel EXCEPT ![task[i].panel] = pp]
        <4>1. P(i) \in Panel
          BY <1>2 DEF PanelType
        <4>2. rn = [P(i) EXCEPT !.items = rows,
                        !.cur = IF @ # {} /\ Ids(@) \subseteq Ids(rows)
                                THEN {card \in rows : card.id \in Ids(@)} ELSE @]
          BY <4>1 DEF Panel
        <4> QED
          BY <2>2, <4>2 DEF Refreshes, SetPanel
      <3> HIDE DEF cur, mine
      <3>5. /\ rn \in PanelType /\ rn.items = rows /\ rn.cur = cur /\ rn.dirty = {} /\ rn.gen = P(i).gen
            /\ rn.busy = P(i).busy /\ rn.chat = P(i).chat
        BY <1>2, <3>1, <3>3 DEF PanelType, Panel, One
      <3> HIDE DEF rn
      <3>6. /\ pp \in PanelType /\ pp.items = rows /\ pp.cur = cur /\ pp.dirty = {}
            /\ pp.gen = P(i).gen /\ pp.busy = P(i).busy /\ pp.chat = P(i).chat
            /\ pp.loading = FALSE
        BY <2>2, <3>5, LoadedIs
      <3> HIDE DEF pp
      <3>7. PanelGood(pp, rows)
        BY <3>2, <3>3, <3>6 DEF PanelGood, Same
      <3> QED
        BY <2>2, <3>1, <3>4, <3>6, <3>7
    <2> QED
      BY <2>1, <2>2
  <1>5. Steps(i, pn, Over)
    BY <1>1, <1>3, <1>4, OverType DEF Steps, Moves
  <1>6. RowsOK' /\ Recalls /\ Keeps
    BY <1>1, <1>3, <1>5, TasksKept, RowsStay
  <1>7. rows' \in SUBSET Card /\ IsFiniteSet(rows') /\ fails' \in 0..MaxFails
    BY <1>1, <1>3 DEF Shape
  <1>8. ConvInv'
    BY <1>2, <1>3, <1>4, <1>5, <1>6, <1>7, AnsweredRest
  <1> QED
    BY <1>1, <1>3, <1>8, StayGrows

\* A conversation that was not in the list is read.
LEMMA OpensKeep ==
  ASSUME ConvInv, NEW i \in Tasks, Opens(i) PROVE ConvInv' /\ Grow
  <1>1. Shape /\ TasksOK /\ RowsOK /\ CleanOK /\ PanelOK
    BY DEF ConvInv
  <1>2. Asked(i, "get")
    BY DEF Opens, Answers
  <1>2a. task[i].pc = "get" /\ task[i].kind \notin Sends
    <2>1. task[i].pc = "get" /\ Active(i)
      BY <1>2 DEF Asked, Active
    <2> QED
      BY <1>1, <2>1 DEF TasksOK, TaskOK, PcOf, Sends, Creators, Derives
  <1>3. /\ Quiet /\ calls # <<>> /\ i = Head(calls)
        /\ IsOp(i) /\ task[i].panel \in Panels /\ P(i) \in PanelType
        /\ (Latest(i) <=> Current(i)) /\ (task[i].panel = Mounted => P(i) = Mine)
        /\ (Current(i) => P(i) = Mine)
        /\ (Stale(i) <=> task[i].panel = Mounted /\ ~Current(i))
        /\ (Latest(i) => ~Sending(Mounted))
    BY <1>2, <1>2a, AskedFacts
  <1>4. /\ calls' = Tail(calls) /\ scope' = scope /\ fails' = fails /\ rows' = rows
        /\ given' = given /\ said' = said /\ task' = [task EXCEPT ![i] = Over]
    BY DEF Opens, Answers, End
  <1>5. PICK pn \in PanelType :
          /\ panel' = [panel EXCEPT ![task[i].panel] = pn]
          /\ pn.gen = P(i).gen /\ pn.busy = P(i).busy /\ pn.dirty = P(i).dirty
          /\ pn.loading = IF Current(i) THEN FALSE ELSE P(i).loading
          /\ ~Current(i) => pn = P(i)
          /\ Current(i) => PanelGood(pn, rows)
    <2>1. CASE ~(Current(i) /\ task[i].conv \in Ids(rows))
      <3>1. panel' = [panel EXCEPT ![task[i].panel] = Loaded(i, P(i))]
        BY <2>1 DEF Opens, SetPanel
      <3>2. Current(i) => PanelGood(P(i), rows)
        BY <1>1, <1>3, Shown
      <3>3. Current(i) => PanelGood(Loaded(i, P(i)), rows)
        BY <1>3, <3>2, LoadedIs DEF PanelGood
      <3> QED
        BY <1>3, <3>1, <3>3, LoadedIs
    <2>2. CASE Current(i) /\ task[i].conv \in Ids(rows)
      <3>1. P(i).dirty = {} /\ P(i) = Mine /\ rows \in SUBSET Card
        BY <1>1, <1>2a, <1>3, <2>2 DEF CleanOK, Shape
      <3>2. PanelGood(P(i), rows)
        BY <1>1, <1>3, <2>2, <3>1, Shown
      <3>3. PICK card \in rows : card = CardOf(rows, task[i].conv)
        BY <1>1, <2>2, RowOf
      <3> DEFINE ln == Listing(P(i), card)
                 an == Apply(ln, card)
                 pp == Loaded(i, an)
      <3>4. panel' = [panel EXCEPT ![task[i].panel] = pp]
        BY <2>2, <3>3 DEF Opens, SetPanel
      <3>5. /\ ln \in PanelType /\ ln.gen = P(i).gen /\ ln.busy = P(i).busy /\ ln.dirty = {}
            /\ \A other \in ln.items : other = card \/ (other \in P(i).items /\ other.id # card.id)
        BY <1>3, <3>1, <3>3, ListingIs
      <3> HIDE DEF ln
      <3>6. /\ an \in PanelType /\ an.gen = P(i).gen /\ an.busy = P(i).busy /\ an.dirty = {}
            /\ an.items = ln.items /\ an.cur = {card} /\ an.chat = card.msgs
        BY <3>1, <3>3, <3>5, ApplyIs
      <3> HIDE DEF an
      <3>7. /\ pp \in PanelType /\ pp.gen = P(i).gen /\ pp.busy = P(i).busy /\ pp.dirty = {}
            /\ pp.items = ln.items /\ pp.cur = {card} /\ pp.chat = card.msgs /\ pp.loading = FALSE
        BY <2>2, <3>6, LoadedIs
      <3> HIDE DEF pp
      <3>8. PanelGood(pp, rows)
        BY <3>2, <3>5, <3>7 DEF PanelGood, Same
      <3> QED
        BY <2>2, <3>1, <3>4, <3>7, <3>8
    <2> QED
      BY <2>1, <2>2
  <1>6. Steps(i, pn, Over)
    BY <1>1, <1>4, <1>5, OverType DEF Steps, Moves
  <1>7. RowsOK' /\ Recalls /\ Keeps
    BY <1>1, <1>4, <1>6, TasksKept, RowsStay
  <1>8. rows' \in SUBSET Card /\ IsFiniteSet(rows') /\ fails' \in 0..MaxFails
    BY <1>1, <1>4 DEF Shape
  <1>9. ConvInv'
    BY <1>3, <1>4, <1>5, <1>6, <1>7, <1>8, AnsweredRest
  <1> QED
    BY <1>1, <1>4, <1>9, StayGrows

\* An operation is refused.
LEMMA OpRefused ==
  ASSUME ConvInv, NEW i \in Tasks, Refused(i), task[i].kind \notin Sends PROVE ConvInv' /\ Grow
  <1>1. Shape /\ TasksOK /\ RowsOK /\ CleanOK /\ PanelOK
    BY DEF ConvInv
  <1>2. /\ Quiet /\ calls # <<>> /\ i = Head(calls)
        /\ IsOp(i) /\ task[i].panel \in Panels /\ P(i) \in PanelType
        /\ (Latest(i) <=> Current(i)) /\ (task[i].panel = Mounted => P(i) = Mine)
        /\ (Current(i) => P(i) = Mine)
        /\ (Stale(i) <=> task[i].panel = Mounted /\ ~Current(i))
        /\ (Latest(i) => ~Sending(Mounted))
    BY AskedFacts DEF Refused
  <1>3. /\ calls' = Tail(calls) /\ scope' = scope /\ rows' = rows
        /\ given' = given /\ said' = said /\ task' = [task EXCEPT ![i] = Over]
    BY DEF Refused, End
  <1>4. fails' \in 0..MaxFails
    <2>1. fails' = fails \/ (fails < MaxFails /\ fails' = fails + 1)
      BY DEF Refused
    <2> QED
      BY <1>1, <2>1, ConversationsAssumption DEF Shape
  <1>5. PICK pn \in PanelType :
          /\ panel' = [panel EXCEPT ![task[i].panel] = pn]
          /\ pn.gen = P(i).gen /\ pn.busy = P(i).busy /\ pn.dirty = P(i).dirty
          /\ pn.loading = IF Current(i) THEN FALSE ELSE P(i).loading
          /\ ~Current(i) => pn = P(i)
          /\ Current(i) => PanelGood(pn, rows)
    <2> DEFINE pp == Loaded(i, P(i))
    <2>1. /\ pp \in PanelType
          /\ pp.gen = P(i).gen /\ pp.busy = P(i).busy /\ pp.dirty = P(i).dirty
          /\ pp.loading = (IF Current(i) THEN FALSE ELSE P(i).loading)
          /\ pp.items = P(i).items /\ pp.cur = P(i).cur /\ pp.chat = P(i).chat
          /\ ~Current(i) => pp = P(i)
      BY <1>2, LoadedIs
    <2>2. Current(i) => PanelGood(P(i), rows)
      BY <1>1, <1>2, Shown
    <2>3. Current(i) => PanelGood(pp, rows)
      BY <2>1, <2>2 DEF PanelGood
    <2>4. panel' = [panel EXCEPT ![task[i].panel] =
                      IF task[i].kind = "load" /\ task[i].pc = "list" /\ Current(i)
                      THEN Cleared(pp) ELSE pp]
      BY DEF Refused, SetPanel
    <2> HIDE DEF pp
    <2>5. CASE task[i].kind = "load" /\ task[i].pc = "list" /\ Current(i)
      <3>1. pp.dirty = {}
        BY <1>1, <1>2, <2>1, <2>5 DEF CleanOK
      <3>2. /\ Cleared(pp) \in PanelType
            /\ Cleared(pp).gen = pp.gen /\ Cleared(pp).busy = pp.busy
            /\ Cleared(pp).dirty = {} /\ Cleared(pp).chat = <<>>
            /\ Cleared(pp).cur = {} /\ Cleared(pp).items = pp.items
            /\ Cleared(pp).loading = pp.loading
        BY <2>1, <3>1, ClearedIs
      <3>3. PanelGood(Cleared(pp), rows)
        BY <2>3, <2>5, <3>2 DEF PanelGood
      <3> QED
        BY <2>1, <2>4, <2>5, <3>1, <3>2, <3>3
    <2>6. CASE ~(task[i].kind = "load" /\ task[i].pc = "list" /\ Current(i))
      BY <2>1, <2>3, <2>4, <2>6
    <2> QED
      BY <2>5, <2>6
  <1>6. Steps(i, pn, Over)
    BY <1>1, <1>3, <1>5, OverType DEF Steps, Moves
  <1>7. RowsOK' /\ Recalls /\ Keeps
    BY <1>1, <1>3, <1>6, TasksKept, RowsStay
  <1>8. rows' \in SUBSET Card /\ IsFiniteSet(rows')
    BY <1>1, <1>3 DEF Shape
  <1>9. ConvInv'
    BY <1>2, <1>3, <1>4, <1>5, <1>6, <1>7, <1>8, AnsweredRest
  <1> QED
    BY <1>1, <1>3, <1>9, StayGrows

-----------------------------------------------------------------------------
(* Conversations that are created. *)

\* What is created: a conversation of the task's, which no row is yet.
LEMMA CreatedIs ==
  ASSUME Shape, TasksOK, RowsOK, NEW i \in Tasks, Creating(i)
  PROVE  /\ Created(i) \in Card /\ Created(i).id = task[i].conv /\ task[i].conv \in Convs
         /\ Created(i).msgs = task[i].msgs /\ Created(i).draft = task[i].scope
         /\ Created(i).copied = Len(task[i].msgs)
         /\ task[i].conv \notin Born /\ \A row \in rows : row.id # task[i].conv
  <1>1. task[i] \in Task /\ task[i].conv \in 1..given /\ given \in 0..MaxConvs
    BY Places DEF TasksOK, TaskOK, Shape
  <1>2. task[i].conv \in Convs
    BY <1>1, ConversationsAssumption DEF Convs
  <1>3. /\ task[i].scope \in Drafts /\ task[i].msgs \in Seq(Message) /\ Len(task[i].msgs) \in Nat
        /\ task[i].from \in Convs \cup {None}
    BY <1>1 DEF Task
  <1>4. Created(i) = [id |-> task[i].conv, draft |-> task[i].scope, msgs |-> task[i].msgs,
                      archived |-> FALSE, fresh |-> (task[i].kind = "new"), origin |-> task[i].from,
                      copied |-> Len(task[i].msgs)]
    BY DEF Created, NewCard
  <1>5. Created(i) \in Card
    BY <1>2, <1>3, <1>4 DEF Card
  <1>6. task[i].conv \notin Born
    BY DEF Born
  <1>7. \A row \in rows : row.id # task[i].conv
    BY <1>6 DEF RowsOK, RowOK
  <1> QED
    BY <1>2, <1>4, <1>5, <1>6, <1>7

\* The rows with it.
LEMMA RowsCreate ==
  ASSUME Shape, TasksOK, RowsOK, NEW i \in Tasks, Creating(i), task[i].pc = "create",
         Born \subseteq Born', task[i].conv \in Born', rows' = rows \cup {Created(i)}
  PROVE  /\ RowsOK' /\ Recalls /\ Keeps /\ Grow
         /\ rows' \in SUBSET Card /\ IsFiniteSet(rows')
  <1>0. PICK c : c = Created(i)
    OBVIOUS
  <1>1. /\ c \in Card /\ c.id = task[i].conv /\ c.msgs = task[i].msgs /\ c.copied = Len(task[i].msgs)
        /\ task[i].conv \notin Born /\ \A row \in rows : row.id # task[i].conv
    BY <1>0, CreatedIs
  <1>2. rows' = rows \cup {c}
    BY <1>0
  <1>3. \A row \in rows : RowOK(row)'
    BY DEF RowsOK, RowOK, OfIn
  <1>4. task[i].msgs \in Seq(Message) /\ OfIn(task[i].msgs, Born) /\ Ordered(task[i].msgs)
    BY Places DEF TasksOK, TaskOK, Task
  <1>5. RowOK(c)'
    BY <1>1, <1>4 DEF RowOK, OfIn
  <1>6. RowsOK'
    BY <1>1, <1>2, <1>3, <1>5 DEF RowsOK
  <1>7. Recalls /\ Keeps
    BY <1>1, <1>2 DEF Recalls, Keeps, Same
  <1>8. rows' \in SUBSET Card /\ IsFiniteSet(rows')
    BY <1>1, <1>2, FS_AddElement DEF Shape
  <1>9. \A row \in rows, then \in rows : row.id = then.id => IsPrefix(row.msgs, then.msgs)
    BY PrefixItself DEF RowsOK, Shape, Card
  <1>10. Grow
    BY <1>1, <1>2, <1>9 DEF Grow
  <1> QED
    BY <1>6, <1>7, <1>8, <1>10

\* What the mounted panel shows when it shows what was created.
LEMMA ShowsCreated ==
  ASSUME ConvInv, NEW i \in Tasks, IsOp(i), Current(i), Latest(i), task[i].pc = "create",
         Creating(i), ~Sending(Mounted)
  PROVE  LET pn == Loaded(i, Apply(Listing(P(i), Created(i)), Created(i))) IN
           /\ pn \in PanelType /\ pn.gen = P(i).gen /\ pn.busy = P(i).busy
           /\ P(i).dirty = {} /\ pn.dirty = {} /\ pn.loading = FALSE
           /\ pn.cur = {Created(i)} /\ pn.chat = task[i].msgs
           /\ \A card \in pn.items : card = Created(i) \/ \E row \in rows : Same(row, card)
  <1>1. Shape /\ TasksOK /\ RowsOK /\ CleanOK /\ PanelOK
    BY DEF ConvInv
  <1>2. P(i) = Mine /\ P(i) \in PanelType /\ P(i).dirty = {}
    BY <1>1, Places DEF CleanOK, Current, P, Mine
  <1>3. PICK c \in Card : c = Created(i) /\ c.msgs = task[i].msgs
    BY <1>1, CreatedIs
  <1>4. \A card \in P(i).items : \E row \in rows : Same(row, card)
    BY <1>1, <1>2 DEF PanelOK
  <1> DEFINE ln == Listing(P(i), c)
             an == Apply(ln, c)
             pp == Loaded(i, an)
  <1>5. /\ ln \in PanelType /\ ln.gen = P(i).gen /\ ln.busy = P(i).busy /\ ln.dirty = {}
        /\ \A other \in ln.items : other = c \/ (other \in P(i).items /\ other.id # c.id)
    BY <1>2, <1>3, ListingIs
  <1> HIDE DEF ln
  <1>6. /\ an \in PanelType /\ an.gen = P(i).gen /\ an.busy = P(i).busy /\ an.dirty = {}
        /\ an.items = ln.items /\ an.cur = {c} /\ an.chat = c.msgs
    BY <1>3, <1>5, ApplyIs
  <1> HIDE DEF an
  <1>7. /\ pp \in PanelType /\ pp.gen = P(i).gen /\ pp.busy = P(i).busy /\ pp.dirty = {}
        /\ pp.items = ln.items /\ pp.cur = {c} /\ pp.chat = c.msgs /\ pp.loading = FALSE
    BY <1>6, LoadedIs
  <1> HIDE DEF pp
  <1>8. pp = Loaded(i, Apply(Listing(P(i), Created(i)), Created(i)))
    BY <1>3 DEF pp, an, ln
  <1> QED
    BY <1>2, <1>3, <1>4, <1>5, <1>7, <1>8

\* What it shows is good when the conversation is stored.
LEMMA CreatedGood ==
  ASSUME NEW pn, NEW c, NEW rs, c \in rs, \A row \in rows : row \in rs,
         pn.dirty = {}, pn.cur = {c}, pn.chat = c.msgs,
         \A card \in pn.items : card = c \/ \E row \in rows : Same(row, card)
  PROVE  PanelGood(pn, rs)
  BY DEF PanelGood, Same

\* A creation that is answered, and an operation that ends.
LEMMA CreatedEnds ==
  ASSUME ConvInv, NEW i \in Tasks, Asked(i, "create"), task[i].kind \in Creators,
         calls' = Tail(calls), scope' = scope, fails' = fails, given' = given, said' = said,
         rows' = rows \cup {Created(i)}, End(i),
         \/ ~Current(i) /\ panel' = [panel EXCEPT ![task[i].panel] = P(i)]
         \/ /\ Current(i)
            /\ SetPanel(i, Loaded(i, Apply(Listing(P(i), Created(i)), Created(i))))
  PROVE  ConvInv' /\ Grow
  <1>1. Shape /\ TasksOK /\ RowsOK /\ CleanOK /\ PanelOK
    BY DEF ConvInv
  <1>2. task[i].kind \notin Sends
    BY DEF Creators, Derives, Sends
  <1>3. /\ Quiet /\ calls # <<>> /\ i = Head(calls) /\ task[i].pc = "create"
        /\ IsOp(i) /\ task[i].panel \in Panels /\ P(i) \in PanelType
        /\ (Latest(i) <=> Current(i)) /\ (task[i].panel = Mounted => P(i) = Mine)
        /\ (Current(i) => P(i) = Mine)
        /\ (Stale(i) <=> task[i].panel = Mounted /\ ~Current(i))
        /\ (Latest(i) => ~Sending(Mounted))
    BY <1>2, AskedFacts
  <1>4. Creating(i)
    BY <1>3 DEF Creating, IsOp
  <1>5. Created(i).msgs = task[i].msgs
    BY <1>1, <1>4, CreatedIs
  <1>6. PICK pn \in PanelType :
          /\ panel' = [panel EXCEPT ![task[i].panel] = pn]
          /\ pn.gen = P(i).gen /\ pn.busy = P(i).busy /\ pn.dirty = P(i).dirty
          /\ pn.loading = IF Current(i) THEN FALSE ELSE P(i).loading
          /\ ~Current(i) => pn = P(i)
          /\ Current(i) => PanelGood(pn, rows')
    <2>1. CASE ~Current(i)
      BY <1>3, <2>1
    <2>2. CASE Current(i)
      <3> DEFINE pp == Loaded(i, Apply(Listing(P(i), Created(i)), Created(i)))
      <3>1. /\ pp \in PanelType /\ pp.gen = P(i).gen /\ pp.busy = P(i).busy
            /\ P(i).dirty = {} /\ pp.dirty = {} /\ pp.loading = FALSE
            /\ pp.cur = {Created(i)} /\ pp.chat = task[i].msgs
            /\ \A card \in pp.items : card = Created(i) \/ \E row \in rows : Same(row, card)
        BY <1>3, <1>4, <2>2, ShowsCreated
      <3>2. panel' = [panel EXCEPT ![task[i].panel] = pp]
        BY <2>2 DEF SetPanel
      <3> HIDE DEF pp
      <3>3. PanelGood(pp, rows')
        <4>1. Created(i) \in rows' /\ \A row \in rows : row \in rows'
          OBVIOUS
        <4> QED
          BY <1>5, <3>1, <4>1, CreatedGood
      <3> QED
        BY <2>2, <3>1, <3>2, <3>3
    <2> QED
      BY <2>1, <2>2
  <1>7. Steps(i, pn, Over) /\ ~Creating(i)'
    <2>1. Steps(i, pn, Over)
      BY <1>1, <1>6, OverType DEF Steps, Moves, End
    <2>2. task'[i] = Over
      BY <1>1, <2>1, Others
    <2> QED
      BY <1>1, <2>1, <2>2, OverType DEF Creating, Active
  <1>8. Born \subseteq Born' /\ task[i].conv \in Born'
    BY <1>1, <1>4, <1>7, TasksKept
  <1>9. RowsOK' /\ Recalls /\ Keeps /\ Grow /\ rows' \in SUBSET Card /\ IsFiniteSet(rows')
    BY <1>1, <1>3, <1>4, <1>8, RowsCreate
  <1>10. fails' \in 0..MaxFails
    BY <1>1 DEF Shape
  <1>11. ConvInv'
    BY <1>3, <1>6, <1>7, <1>9, <1>10, AnsweredRest
  <1> QED
    BY <1>9, <1>11

LEMMA CreatesShownKeep ==
  ASSUME ConvInv, NEW i \in Tasks, CreatesShown(i) PROVE ConvInv' /\ Grow
  <1>1. /\ Asked(i, "create") /\ task[i].kind \in Creators
        /\ calls' = Tail(calls) /\ scope' = scope /\ fails' = fails /\ given' = given /\ said' = said
        /\ rows' = rows \cup {Created(i)} /\ End(i)
    BY DEF CreatesShown, Creates, Answers, Creators, Derives
  <1>2. \/ ~Current(i) /\ panel' = [panel EXCEPT ![task[i].panel] = P(i)]
        \/ /\ Current(i)
           /\ SetPanel(i, Loaded(i, Apply(Listing(P(i), Created(i)), Created(i))))
    BY DEF CreatesShown, SetPanel
  <1> QED
    BY <1>1, <1>2, CreatedEnds

-----------------------------------------------------------------------------
(* Archiving and deleting. *)

\* Rows of which one changes in nothing its conversation is about.
LEMMA RowsSame ==
  ASSUME Shape, RowsOK, Born \subseteq Born', rows' \in SUBSET Card,
         \A then \in rows' : \E row \in rows : Same(then, row) /\ then.copied = row.copied,
         \A row \in rows : \E then \in rows' : Same(then, row),
         \A a, b \in rows' : a.id = b.id => a = b
  PROVE  RowsOK' /\ Recalls /\ Keeps /\ Grow
  <1>1. ASSUME NEW then \in rows' PROVE RowOK(then)'
    <2>1. PICK row \in rows : Same(then, row) /\ then.copied = row.copied
      OBVIOUS
    <2>2. RowOK(row)
      BY DEF RowsOK
    <2> QED
      BY <2>1, <2>2 DEF RowOK, OfIn, Same
  <1>2. RowsOK'
    BY <1>1 DEF RowsOK
  <1>3. Recalls /\ Keeps
    BY DEF Recalls, Keeps, Same
  <1>4. ASSUME NEW row \in rows, NEW then \in rows', row.id = then.id
        PROVE  IsPrefix(row.msgs, then.msgs)
    <2>1. then.msgs = row.msgs
      BY <1>4 DEF RowsOK, Same
    <2>2. row.msgs \in Seq(Message)
      BY DEF Shape, Card
    <2> QED
      BY <2>1, <2>2, PrefixItself
  <1>5. \A then \in rows' : then.id \in Ids(rows)
    BY DEF Same, Ids
  <1>6. Grow
    BY <1>4, <1>5 DEF Grow
  <1> QED
    BY <1>2, <1>3, <1>6

\* Rows with the ids of finitely many.
LEMMA RowsFinite ==
  ASSUME NEW S, IsFiniteSet(S), NEW U, \A t \in U : \E s \in S : t.id = s.id,
         \A a, b \in U : a.id = b.id => a = b
  PROVE  IsFiniteSet(U)
  <1> DEFINE f == [t \in U |-> CHOOSE s \in S : t.id = s.id]
  <1>1. \A t \in U : f[t] \in S /\ f[t].id = t.id
    OBVIOUS
  <1>2. f \in [U -> S] /\ \A a, b \in U : f[a] = f[b] => a = b
    BY <1>1
  <1> HIDE DEF f
  <1>3. f \in Injection(U, S)
    BY <1>2 DEF Injection, IsInjective
  <1> QED
    BY <1>3, FS_Injection

\* Two copies of a conversation have the messages of its row.
LEMMA SameMsgs ==
  ASSUME RowsOK, NEW pn, PanelGood(pn, rows), NEW a \in pn.items \cup pn.cur,
         NEW b \in pn.items \cup pn.cur, a.id = b.id
  PROVE  a.msgs = b.msgs
  <1>1. PICK r \in rows : Same(r, a)
    BY DEF PanelGood
  <1>2. PICK q \in rows : Same(q, b)
    BY DEF PanelGood
  <1> QED
    BY <1>1, <1>2 DEF RowsOK, Same

\* A conversation is archived, or no longer.
LEMMA MarksKeep ==
  ASSUME ConvInv, NEW i \in Tasks, Marks(i) PROVE ConvInv' /\ Grow
  <1>1. Shape /\ TasksOK /\ RowsOK /\ CleanOK /\ PanelOK
    BY DEF ConvInv
  <1>2. Asked(i, "mark")
    BY DEF Marks, Answers
  <1>2a. task[i].pc = "mark" /\ task[i].kind \notin Sends
    <2>1. task[i].pc = "mark" /\ Active(i)
      BY <1>2 DEF Asked, Active
    <2> QED
      BY <1>1, <2>1 DEF TasksOK, TaskOK, PcOf, Sends, Creators, Derives
  <1>3. /\ Quiet /\ calls # <<>> /\ i = Head(calls)
        /\ IsOp(i) /\ task[i].panel \in Panels /\ P(i) \in PanelType
        /\ (Latest(i) <=> Current(i)) /\ (task[i].panel = Mounted => P(i) = Mine)
        /\ (Current(i) => P(i) = Mine)
        /\ (Stale(i) <=> task[i].panel = Mounted /\ ~Current(i))
        /\ (Latest(i) => ~Sending(Mounted))
    BY <1>2, <1>2a, AskedFacts
  <1> DEFINE m(card) == [card EXCEPT !.archived = task[i].was]
  <1>4. /\ calls' = Tail(calls) /\ scope' = scope /\ fails' = fails
        /\ given' = given /\ said' = said /\ task' = [task EXCEPT ![i] = Over]
        /\ rows' = {IF card.id = task[i].conv THEN m(card) ELSE card : card \in rows}
        /\ panel' = [panel EXCEPT ![task[i].panel] =
                       IF ~Current(i) THEN P(i)
                       ELSE Loaded(i, Recorded(P(i), m([CardOf(P(i).items, Row(i))
                                                           EXCEPT !.msgs = task[i].msgs])))]
    BY DEF Marks, Answers, End, SetPanel
  <1>5. task[i].was \in BOOLEAN
    BY <1>1, Places DEF Task
  <1>6. \A card \in Card : /\ m(card) \in Card /\ m(card).id = card.id /\ m(card).draft = card.draft
                           /\ m(card).msgs = card.msgs /\ m(card).copied = card.copied
    BY <1>5 DEF Card
  <1> HIDE DEF m
  <1>7. /\ rows' \in SUBSET Card
        /\ \A then \in rows' : \E row \in rows : Same(then, row) /\ then.copied = row.copied
        /\ \A row \in rows : \E then \in rows' : Same(then, row)
        /\ \A a, b \in rows' : a.id = b.id => a = b
    <2>1. rows \in SUBSET Card /\ \A a, b \in rows : a.id = b.id => a = b
      BY <1>1 DEF Shape, RowsOK
    <2>2. \A card \in rows : /\ (IF card.id = task[i].conv THEN m(card) ELSE card) \in Card
                             /\ Same(IF card.id = task[i].conv THEN m(card) ELSE card, card)
                             /\ (IF card.id = task[i].conv THEN m(card) ELSE card).copied = card.copied
      BY <1>6, <2>1 DEF Same
    <2> QED
      BY <1>4, <2>1, <2>2 DEF Same
  <1>8. IsFiniteSet(rows')
    BY <1>1, <1>7, RowsFinite DEF Shape, Same
  <1>9. PICK pn \in PanelType :
          /\ panel' = [panel EXCEPT ![task[i].panel] = pn]
          /\ pn.gen = P(i).gen /\ pn.busy = P(i).busy /\ pn.dirty = P(i).dirty
          /\ pn.loading = IF Current(i) THEN FALSE ELSE P(i).loading
          /\ ~Current(i) => pn = P(i)
          /\ Current(i) => PanelGood(pn, rows')
    <2>1. CASE ~Current(i)
      BY <1>3, <1>4, <2>1
    <2>2. CASE Current(i)
      <3>1. P(i) = Mine /\ PanelGood(P(i), rows) /\ Listed(P(i), task[i]) /\ Row(i) = task[i].conv
        BY <1>1, <1>2a, <1>3, <2>2, Shown DEF CleanOK, Row
      <3>2. PICK c \in P(i).items : c = CardOf(P(i).items, Row(i)) /\ c.id = task[i].conv
        BY <3>1 DEF Listed, CardOf
      <3>3. c \in Card /\ P(i) \in Panel
        BY <1>3, <3>2 DEF PanelType, Panel
      <3>3a. c.msgs = task[i].msgs
        <4>1. PICK x \in P(i).items : x.id = task[i].conv /\ x.msgs = task[i].msgs
          BY <3>1 DEF Listed
        <4> QED
          BY <1>1, <3>1, <3>2, <4>1, SameMsgs
      <3>3b. [c EXCEPT !.msgs = task[i].msgs] = c
        BY <3>3, <3>3a DEF Card
      <3>4. PICK a \in Card : a = m(c) /\ a.id = c.id /\ a.draft = c.draft /\ a.msgs = c.msgs
        BY <1>6, <3>3
      <3> DEFINE ln == Listing(P(i), a)
                 rn == Recorded(P(i), a)
                 pp == Loaded(i, rn)
      <3>5. panel' = [panel EXCEPT ![task[i].panel] = pp]
        BY <1>4, <2>2, <3>2, <3>3b, <3>4
      <3>6. /\ ln \in PanelType /\ ln.gen = P(i).gen /\ ln.busy = P(i).busy /\ ln.dirty = P(i).dirty
            /\ ln.chat = P(i).chat /\ ln.cur = P(i).cur
            /\ \A other \in ln.items : other = a \/ (other \in P(i).items /\ other.id # a.id)
        BY <1>3, <3>4, ListingIs
      <3>7. rn = [ln EXCEPT !.cur = IF Shows(P(i), a.id) THEN {a} ELSE @]
        BY DEF Recorded
      <3> HIDE DEF ln
      <3>8. /\ rn \in PanelType /\ rn.gen = P(i).gen /\ rn.busy = P(i).busy /\ rn.dirty = P(i).dirty
            /\ rn.chat = P(i).chat /\ rn.items = ln.items
            /\ rn.cur = IF Shows(P(i), a.id) THEN {a} ELSE P(i).cur
        BY <3>4, <3>6, <3>7 DEF PanelType, Panel, One
      <3> HIDE DEF rn
      <3>9. /\ pp \in PanelType /\ pp.gen = P(i).gen /\ pp.busy = P(i).busy /\ pp.dirty = P(i).dirty
            /\ pp.chat = P(i).chat /\ pp.items = ln.items /\ pp.loading = FALSE
            /\ pp.cur = IF Shows(P(i), a.id) THEN {a} ELSE P(i).cur
        BY <2>2, <3>8, LoadedIs
      <3> HIDE DEF pp
      <3>10. PICK row \in rows : Same(row, c)
        BY <3>1, <3>2 DEF PanelGood
      <3>11. ASSUME NEW x \in Panel, \E r \in rows : Same(r, x) PROVE \E r \in rows' : Same(r, x)
        BY <1>7, <3>11 DEF Same
      <3>12. \E r \in rows' : Same(r, a)
        BY <1>7, <3>4, <3>10 DEF Same
      <3>13. \A x \in P(i).items \cup P(i).cur : \E r \in rows' : Same(r, x)
        BY <1>7, <3>1 DEF Same, PanelGood
      <3>14. ASSUME NEW x \in P(i).cur, x.id = a.id PROVE x.msgs = a.msgs
        <4>1. PICK r \in rows : Same(r, x)
          BY <3>1, <3>14 DEF PanelGood
        <4>2. r = row
          BY <1>1, <3>2, <3>4, <3>10, <3>14, <4>1 DEF Same, RowsOK
        <4> QED
          BY <3>4, <3>10, <4>1, <4>2 DEF Same
      <3>15. PanelGood(pp, rows')
        <4>1. \A card \in pp.items \cup pp.cur : \E r \in rows' : Same(r, card)
          BY <3>6, <3>9, <3>12, <3>13
        <4>2. pp.cur = {} => pp.chat = <<>> /\ pp.dirty = {}
          BY <3>1, <3>9 DEF PanelGood
        <4>3. ASSUME NEW card \in pp.cur
              PROVE  \/ pp.dirty = {} /\ pp.chat = card.msgs
                     \/ pp.dirty = {[id |-> card.id, msgs |-> pp.chat]} /\ Extends(pp.chat, card)
          <5>1. PICK x \in P(i).cur : x.id = card.id /\ x.msgs = card.msgs
            BY <3>9, <3>14, <4>3 DEF Shows
          <5> QED
            BY <3>1, <3>9, <5>1 DEF PanelGood, Extends
        <4> QED
          BY <4>1, <4>2, <4>3 DEF PanelGood
      <3> QED
        BY <2>2, <3>5, <3>9, <3>15
    <2> QED
      BY <2>1, <2>2
  <1>10. Steps(i, pn, Over)
    BY <1>1, <1>4, <1>9, OverType DEF Steps, Moves
  <1>11. RowsOK' /\ Recalls /\ Keeps /\ Grow
    <2>1. Born \subseteq Born'
      BY <1>1, <1>10, TasksKept
    <2> QED
      BY <1>1, <1>7, <2>1, RowsSame
  <1>12. fails' \in 0..MaxFails
    BY <1>1, <1>4 DEF Shape
  <1>13. ConvInv'
    BY <1>3, <1>4, <1>7, <1>8, <1>9, <1>10, <1>11, <1>12, AnsweredRest
  <1> QED
    BY <1>11, <1>13

\* A conversation is deleted.
LEMMA DeletesKeep ==
  ASSUME ConvInv, NEW i \in Tasks, Deletes(i) PROVE ConvInv' /\ Grow
  <1>1. Shape /\ TasksOK /\ RowsOK /\ CleanOK /\ PanelOK /\ OrderOK
    BY DEF ConvInv
  <1>2. Asked(i, "delete")
    BY DEF Deletes, Answers
  <1>2a. task[i].pc = "delete" /\ task[i].kind = "remove" /\ task[i].kind \notin Sends
    <2>1. task[i].pc = "delete" /\ Active(i) /\ task[i] \in Task
      BY <1>1, <1>2, Places DEF Asked, Active
    <2>2. task[i].pc \in PcOf(task[i].kind)
      BY <1>1, <2>1 DEF TasksOK, TaskOK
    <2> QED
      BY <2>1, <2>2 DEF PcOf, Sends, Creators, Derives
  <1>3. /\ Quiet /\ calls # <<>> /\ i = Head(calls)
        /\ IsOp(i) /\ task[i].panel \in Panels /\ P(i) \in PanelType
        /\ (Latest(i) <=> Current(i)) /\ (task[i].panel = Mounted => P(i) = Mine)
        /\ (Current(i) => P(i) = Mine)
        /\ (Stale(i) <=> task[i].panel = Mounted /\ ~Current(i))
    BY <1>2, <1>2a, AskedFacts
  <1> DEFINE items == {card \in P(i).items : card.id # task[i].conv}
             ln == [P(i) EXCEPT !.items = items]
             cn == IF task[i].was THEN Cleared(ln) ELSE ln
             pp == Loaded(i, cn)
  <1>4. /\ calls' = Tail(calls) /\ scope' = scope /\ fails' = fails
        /\ given' = given /\ said' = said /\ task' = [task EXCEPT ![i] = Over]
        /\ rows' = {card \in rows : card.id # task[i].conv}
        /\ panel' = [panel EXCEPT ![task[i].panel] = pp]
    <2>1. P(i) \in Panel
      BY <1>3 DEF PanelType
    <2>2. ln = [P(i) EXCEPT !.items = {card \in @ : card.id # task[i].conv}]
      BY <2>1 DEF Panel
    <2> QED
      BY <2>2 DEF Deletes, Answers, End, SetPanel
  <1>5. items \in SUBSET Card
    BY <1>3 DEF PanelType, Panel
  <1> HIDE DEF items
  <1>6. /\ ln \in PanelType /\ ln.gen = P(i).gen /\ ln.busy = P(i).busy /\ ln.dirty = P(i).dirty
        /\ ln.chat = P(i).chat /\ ln.cur = P(i).cur /\ ln.items = items /\ ln.loading = P(i).loading
    BY <1>3, <1>5, ItemsIs
  <1> HIDE DEF ln
  <1>7. /\ cn \in PanelType /\ cn.gen = P(i).gen /\ cn.busy = P(i).busy /\ cn.dirty = P(i).dirty
        /\ cn.items = items /\ cn.loading = P(i).loading
        /\ cn.cur = (IF task[i].was THEN {} ELSE P(i).cur)
        /\ cn.chat = (IF task[i].was THEN <<>> ELSE P(i).chat)
    BY <1>6, ClearedIs
  <1> HIDE DEF cn
  <1>8. /\ pp \in PanelType /\ pp.gen = P(i).gen /\ pp.busy = P(i).busy /\ pp.dirty = P(i).dirty
        /\ pp.items = items /\ pp.loading = (IF Current(i) THEN FALSE ELSE P(i).loading)
        /\ pp.cur = (IF task[i].was THEN {} ELSE P(i).cur)
        /\ pp.chat = (IF task[i].was THEN <<>> ELSE P(i).chat)
    BY <1>7, LoadedIs
  <1> HIDE DEF pp
  <1>9. ASSUME task[i].panel = Mounted PROVE PanelGood(pp, rows') /\ pp.cur \subseteq Mine.cur
    <2>1. P(i) = Mine /\ Mounts(i) /\ Mine.dirty = {}
      BY <1>1, <1>2a, <1>3, <1>9 DEF CleanOK, Mounts
    <2>2. task[i].was \/ ~Shows(Mine, task[i].conv)
      BY <1>1, <1>2a, <2>1 DEF CleanOK
    <2>3. ~Sending(Mounted)
      BY <1>1, <1>2a, <2>1 DEF OrderOK, SendsWait, Idly
    <2>4. PanelGood(Mine, rows)
      BY <1>1, <2>3, Shown
    <2>5. \A card \in pp.items \cup pp.cur : card \in Mine.items \cup Mine.cur /\ card.id # task[i].conv
      BY <1>8, <2>1, <2>2 DEF items, Shows
    <2>6. \A card \in pp.items \cup pp.cur : \E row \in rows' : Same(row, card)
      BY <1>4, <2>4, <2>5 DEF PanelGood, Same
    <2> QED
      BY <1>8, <2>1, <2>4, <2>6 DEF PanelGood
  <1>10. Steps(i, pp, Over)
    BY <1>1, <1>4, <1>8, OverType DEF Steps, Moves
  <1>11. Born \subseteq Born'
    BY <1>1, <1>10, TasksKept
  <1>12. RowsOK' /\ Recalls
    <2>1. \A row \in rows : RowOK(row)'
      BY <1>1, <1>11 DEF RowsOK, RowOK, OfIn
    <2> QED
      BY <1>1, <1>4, <2>1 DEF RowsOK, Recalls
  <1>13. rows' \in SUBSET Card /\ IsFiniteSet(rows') /\ fails' \in 0..MaxFails
    <2>1. rows' \in SUBSET rows
      BY <1>4
    <2> QED
      BY <1>1, <1>4, <2>1, FS_Subset DEF Shape
  <1>14. ConvInv'
    <2>1. Latest(i) \/ Stale(i) => task[i].panel = Mounted
      BY DEF Latest, Stale, Mounts
    <2>2. CASE task[i].panel = Mounted
      BY <1>2a, <1>3, <1>4, <1>8, <1>9, <1>10, <1>12, <1>13, <2>1, <2>2, AnsweredRest
    <2>3. CASE task[i].panel # Mounted
      BY <1>2a, <1>3, <1>4, <1>8, <1>10, <1>12, <1>13, <2>1, <2>3, AnsweredRest
    <2> QED
      BY <2>2, <2>3
  <1>15. Grow
    <2>1. \A row, then \in rows : row.id = then.id => IsPrefix(row.msgs, then.msgs)
      BY <1>1, PrefixItself DEF RowsOK, Shape, Card
    <2> QED
      BY <1>4, <2>1 DEF Grow
  <1> QED
    BY <1>14, <1>15

-----------------------------------------------------------------------------
(* Saves. *)

\* The rows after a save whose messages extend what is stored.
LEMMA RowsSaved ==
  ASSUME Shape, RowsOK, Born \subseteq Born', NEW id, NEW msgs \in Seq(Message),
         \A row \in rows : row.id = id => Extends(msgs, row),
         rows' = WithMessages(rows, id, msgs)
  PROVE  /\ RowsOK' /\ Grow /\ rows' \in SUBSET Card /\ IsFiniteSet(rows')
         /\ \A then \in rows' : \E row \in rows :
              /\ then.id = row.id /\ then.draft = row.draft
              /\ then.msgs = IF row.id = id THEN msgs ELSE row.msgs
         /\ \A row \in rows : \E then \in rows' :
              /\ then.id = row.id /\ then.draft = row.draft
              /\ then.msgs = IF row.id = id THEN msgs ELSE row.msgs
  <1>1. rows \in SUBSET Card /\ \A a, b \in rows : a.id = b.id => a = b
    BY DEF Shape, RowsOK
  <1>2. /\ rows' \in SUBSET Card
        /\ \A then \in rows' : \E row \in rows :
              /\ then.id = row.id /\ then.draft = row.draft /\ then.copied = row.copied
              /\ then.msgs = IF row.id = id THEN msgs ELSE row.msgs
              /\ then = IF row.id = id THEN [row EXCEPT !.msgs = msgs] ELSE row
        /\ \A row \in rows : \E then \in rows' :
              /\ then.id = row.id /\ then.draft = row.draft /\ then.copied = row.copied
              /\ then.msgs = IF row.id = id THEN msgs ELSE row.msgs
    <2> DEFINE w(card) == IF card.id = id THEN [card EXCEPT !.msgs = msgs] ELSE card
    <2>1. rows' = {w(card) : card \in rows}
      BY DEF WithMessages
    <2>2. ASSUME NEW row \in rows
          PROVE  /\ w(row) \in Card /\ w(row).id = row.id /\ w(row).draft = row.draft
                 /\ w(row).copied = row.copied
                 /\ w(row).msgs = IF row.id = id THEN msgs ELSE row.msgs
                 /\ w(row) = IF row.id = id THEN [row EXCEPT !.msgs = msgs] ELSE row
      <3>1. row \in Card
        BY <1>1
      <3> QED
        BY <3>1, CardWith
    <2> HIDE DEF w
    <2> QED
      BY <2>1, <2>2
  <1>3. \A a, b \in rows' : a.id = b.id => a = b
    BY <1>1, <1>2
  <1>4. IsFiniteSet(rows')
    <2>1. IsFiniteSet(rows) /\ \A then \in rows' : \E row \in rows : then.id = row.id
      BY <1>2 DEF Shape
    <2> QED
      BY <1>3, <2>1, RowsFinite
  <1>5. ASSUME NEW then \in rows' PROVE RowOK(then)'
    <2>1. PICK row \in rows :
              /\ then.id = row.id /\ then.draft = row.draft /\ then.copied = row.copied
              /\ then.msgs = IF row.id = id THEN msgs ELSE row.msgs
      BY <1>2
    <2>2. RowOK(row) /\ row \in Card
      BY <1>1 DEF RowsOK
    <2>3. CASE row.id # id
      BY <2>1, <2>2, <2>3 DEF RowOK, OfIn
    <2>4. CASE row.id = id
      <3>1. /\ then.id = row.id /\ then.copied = row.copied /\ then.msgs = msgs /\ Extends(msgs, row)
            /\ row.msgs \in Seq(Message) /\ row.copied \in Nat
        BY <2>1, <2>2, <2>4 DEF Card
      <3>2. /\ DOMAIN msgs = 1..Len(msgs) /\ DOMAIN row.msgs = 1..Len(row.msgs)
            /\ Len(msgs) \in Nat /\ Len(row.msgs) \in Nat
        BY <3>1
      <3>3. OfIn(msgs, Born')
        <4>1. ASSUME NEW k \in 1..Len(msgs) PROVE msgs[k].of \in Born'
          <5>1. CASE k <= Len(row.msgs)
            BY <2>2, <3>1, <3>2, <4>1, <5>1 DEF Extends, RowOK, OfIn
          <5>2. CASE ~(k <= Len(row.msgs))
            BY <2>2, <3>1, <3>2, <4>1, <5>2 DEF Extends, RowOK
          <5> QED
            BY <5>1, <5>2
        <4> QED
          BY <3>2, <4>1 DEF OfIn
      <3>4. ASSUME NEW k \in 1..Len(msgs)
            PROVE IF k <= row.copied THEN msgs[k].of # row.id ELSE msgs[k].of = row.id
        <4>1. CASE k <= Len(row.msgs)
          BY <2>2, <3>1, <3>2, <3>4, <4>1 DEF Extends, RowOK
        <4>2. CASE ~(k <= Len(row.msgs))
          BY <2>2, <3>1, <3>2, <3>4, <4>2 DEF Extends, RowOK
        <4> QED
          BY <4>1, <4>2
      <3>5. row.copied <= Len(msgs) /\ Ordered(msgs)
        BY <2>2, <3>1, <3>2 DEF Extends, RowOK
      <3> QED
        BY <2>2, <3>1, <3>3, <3>4, <3>5 DEF RowOK
    <2> QED
      BY <2>3, <2>4
  <1>6. RowsOK'
    BY <1>3, <1>5 DEF RowsOK
  <1>7. ASSUME NEW row \in rows, NEW then \in rows', row.id = then.id
        PROVE  IsPrefix(row.msgs, then.msgs)
    <2>1. then.msgs = IF row.id = id THEN msgs ELSE row.msgs
      BY <1>1, <1>2, <1>7
    <2>2. row \in Card /\ row.msgs \in Seq(Message)
      BY <1>1 DEF Card
    <2> QED
      BY <2>1, <2>2, ExtendsPrefix, PrefixItself
  <1>8. \A then \in rows' : then.id \in Ids(rows)
    BY <1>2 DEF Ids
  <1>9. Grow
    BY <1>7, <1>8 DEF Grow
  <1> QED
    BY <1>2, <1>4, <1>6, <1>9

\* The panel after the save of what was to be saved.
LEMMA PanelSaved ==
  ASSUME NEW pn \in PanelType, NEW id \in Convs, NEW msgs \in Seq(Message),
         pn.dirty = {[id |-> id, msgs |-> msgs]}
  PROVE  LET cn == Cleaned(pn, id, msgs) IN
           /\ cn \in PanelType /\ cn.gen = pn.gen /\ cn.loading = pn.loading /\ cn.busy = pn.busy
           /\ cn.chat = pn.chat /\ cn.dirty = {}
           /\ \A card \in cn.items : \E other \in pn.items :
                /\ card.id = other.id /\ card.draft = other.draft
                /\ card.msgs = IF other.id = id THEN msgs ELSE other.msgs
           /\ \A card \in cn.cur : \E other \in pn.cur :
                /\ card.id = other.id /\ card.draft = other.draft
                /\ card.msgs = IF other.id = id THEN msgs ELSE other.msgs
           /\ \A other \in pn.items : \E card \in cn.items : card.id = other.id
           /\ \A other \in pn.cur : \E card \in cn.cur :
                card.id = other.id /\ card.msgs = IF other.id = id THEN msgs ELSE other.msgs
           /\ cn.cur = {} => pn.cur = {}
  <1> DEFINE cn == Cleaned(pn, id, msgs)
  <1>0. [id |-> id, msgs |-> msgs] \in pn.dirty
    OBVIOUS
  <1>1. /\ cn \in PanelType /\ cn.gen = pn.gen /\ cn.loading = pn.loading /\ cn.busy = pn.busy
        /\ cn.chat = pn.chat /\ cn.dirty = {}
        /\ cn.items = WithMessages(pn.items, id, msgs) /\ cn.cur = WithMessages(pn.cur, id, msgs)
    BY <1>0, CleanedIs
  <1>2. pn.items \in SUBSET Card /\ pn.cur \in SUBSET Card
    BY DEF PanelType, Panel
  <1> HIDE DEF cn
  <1>3. \A R \in SUBSET Card :
            /\ \A card \in WithMessages(R, id, msgs) : \E other \in R :
                 /\ card.id = other.id /\ card.draft = other.draft
                 /\ card.msgs = IF other.id = id THEN msgs ELSE other.msgs
            /\ \A other \in R : \E card \in WithMessages(R, id, msgs) :
                 /\ card.id = other.id
                 /\ card.msgs = IF other.id = id THEN msgs ELSE other.msgs
    BY WithMessagesType
  <1>4. /\ \A card \in cn.items : \E other \in pn.items :
             /\ card.id = other.id /\ card.draft = other.draft
             /\ card.msgs = IF other.id = id THEN msgs ELSE other.msgs
        /\ \A other \in pn.items : \E card \in cn.items : card.id = other.id
    BY <1>1, <1>2, <1>3
  <1>5. /\ \A card \in cn.cur : \E other \in pn.cur :
             /\ card.id = other.id /\ card.draft = other.draft
             /\ card.msgs = IF other.id = id THEN msgs ELSE other.msgs
        /\ \A other \in pn.cur : \E card \in cn.cur :
             card.id = other.id /\ card.msgs = IF other.id = id THEN msgs ELSE other.msgs
    BY <1>1, <1>2, <1>3
  <1> QED
    BY <1>1, <1>4, <1>5 DEF cn

\* A save made once more is answered.
LEMMA ResavedKeep ==
  ASSUME ConvInv, NEW i \in Tasks, Resaved(i) PROVE ConvInv' /\ Grow
  <1>1. /\ Shape /\ QueueOK /\ TasksOK /\ OrderOK /\ RowsOK /\ CleanOK /\ ResaveOK /\ PanelOK
    BY DEF ConvInv
  <1>2. Asked(i, "resave")
    BY DEF Resaved, Answers
  <1>2a. task[i].pc = "resave" /\ task[i].kind \notin Sends
    <2>1. task[i].pc = "resave" /\ Active(i) /\ task[i] \in Task
      BY <1>1, <1>2, Places DEF Asked, Active
    <2>2. task[i].pc \in PcOf(task[i].kind)
      BY <1>1, <2>1 DEF TasksOK, TaskOK
    <2> QED
      BY <2>1, <2>2 DEF PcOf, Sends, Creators, Derives
  <1>3. /\ Quiet /\ calls # <<>> /\ i = Head(calls)
        /\ IsOp(i) /\ task[i].panel \in Panels /\ P(i) \in PanelType
        /\ "resave" \in PcOf(task[i].kind)
        /\ (task[i].panel = Mounted => P(i) = Mine)
    BY <1>2, <1>2a, AskedFacts
  <1>4. PICK d \in task[i].save :
          /\ task[i].save = {d} /\ d.id \in Born
          /\ \/ P(i).dirty = {d}
             \/ P(i).dirty = {} /\ \A row \in rows : row.id = d.id => row.msgs = d.msgs
    BY <1>1, <1>2a DEF ResaveOK
  <1>5. d \in Dirt /\ d.id \in Convs /\ d.msgs \in Seq(Message) /\ d = [id |-> d.id, msgs |-> d.msgs]
    <2>1. task[i].save \subseteq Dirt
      BY <1>1, Places, SaveType
    <2> QED
      BY <2>1 DEF Dirt
  <1> DEFINE cn == Cleaned(P(i), d.id, d.msgs)
             t == [[task[i] EXCEPT !.save = {}] EXCEPT !.pc = "wait"]
  <1>6. /\ calls' = Tail(calls) /\ scope' = scope /\ fails' = fails /\ given' = given /\ said' = said
        /\ rows' = WithMessages(rows, d.id, d.msgs)
        /\ panel' = [panel EXCEPT ![task[i].panel] = cn]
        /\ task' = [task EXCEPT ![i] = t]
    BY <1>4 DEF Resaved, Answers, SetPanel, SetTask
  <1>7. /\ t \in Task /\ t.pc = "wait" /\ t.kind = task[i].kind /\ t.panel = task[i].panel
        /\ t.token = task[i].token /\ t.scope = task[i].scope /\ t.conv = task[i].conv
        /\ t.n = task[i].n /\ t.msgs = task[i].msgs /\ t.was = task[i].was
    BY <1>1, Places DEF Task
  <1> HIDE DEF t
  <1>8. /\ cn \in PanelType /\ cn.gen = P(i).gen /\ cn.loading = P(i).loading /\ cn.busy = P(i).busy
        /\ cn.chat = P(i).chat /\ cn.dirty = {} /\ (P(i).dirty = {} => cn = P(i))
    <2>1. /\ cn \in PanelType /\ cn.gen = P(i).gen /\ cn.loading = P(i).loading /\ cn.busy = P(i).busy
          /\ cn.chat = P(i).chat /\ cn.dirty = P(i).dirty \ {[id |-> d.id, msgs |-> d.msgs]}
          /\ ([id |-> d.id, msgs |-> d.msgs] \notin P(i).dirty => cn = P(i))
      BY <1>3, <1>5, CleanedIs
    <2> QED
      BY <1>4, <1>5, <2>1
  <1> HIDE DEF cn
  <1>9. Steps(i, cn, t)
    BY <1>6, <1>7, <1>8 DEF Steps, Moves
  <1>10. Continues(task[i], t)
    <2>1. task[i].kind \in Waiting /\ "wait" \in PcOf(task[i].kind) /\ task[i].kind \notin Sends
      BY <1>1, <1>2a, <1>3, Places DEF Task, PcOf, Waiting, Creators, Derives, Sends
    <2> QED
      BY <1>2a, <1>7, <2>1 DEF Continues
  <1>11. Mounts(i) => ~Sending(Mounted)
    BY <1>1, <1>2a DEF OrderOK, SendsWait, Idly
  <1>12. Mounts(i) <=> task[i].panel = Mounted
    BY <1>3 DEF Mounts
  <1>13. ASSUME P(i).dirty # {} PROVE Mounts(i) /\ P(i) = Mine
    <2>1. Panels = 1..Mounted /\ Mounted \in Nat
      BY <1>1, Places DEF Panels, Mounted
    <2> QED
      BY <1>1, <1>3, <1>12, <1>13, <2>1 DEF OrderOK, OldOK, P
  <1>14. ASSUME P(i).dirty # {}
         PROVE  \E c \in Mine.cur : /\ c.id = d.id /\ Mine.cur = {c} /\ Mine.chat = d.msgs
                                    /\ Extends(d.msgs, c) /\ \E row \in rows : Same(row, c)
    <2>1. P(i) = Mine /\ Mine.dirty = {d} /\ PanelGood(Mine, rows) /\ One(Mine)
      BY <1>1, <1>3, <1>4, <1>11, <1>13, <1>14, Shown DEF PanelType
    <2>2. PICK c \in Mine.cur : TRUE
      BY <2>1 DEF PanelGood
    <2>3. Mine.dirty = {[id |-> c.id, msgs |-> Mine.chat]} /\ Extends(Mine.chat, c)
      BY <1>4, <1>14, <2>1, <2>2 DEF PanelGood
    <2>4. d = [id |-> c.id, msgs |-> Mine.chat]
      BY <2>1, <2>3
    <2>5. d.id = c.id /\ d.msgs = Mine.chat
      BY <2>4
    <2> QED
      BY <2>1, <2>2, <2>3, <2>5 DEF PanelGood, One
  <1>15. \A row \in rows : row.id = d.id => Extends(d.msgs, row)
    <2>1. CASE P(i).dirty # {}
      <3>1. PICK c \in Mine.cur : c.id = d.id /\ Extends(d.msgs, c) /\ \E row \in rows : Same(row, c)
        BY <1>14, <2>1
      <3>2. \A row \in rows : row.id = d.id => row.id = c.id /\ row.msgs = c.msgs
        BY <1>1, <3>1 DEF RowsOK, Same
      <3> QED
        BY <3>1, <3>2 DEF Extends
    <2>2. CASE P(i).dirty = {}
      <3>1. \A row \in rows : row \in Card /\ Ordered(row.msgs)
        BY <1>1 DEF Shape, RowsOK, RowOK
      <3> QED
        BY <1>4, <2>2, <3>1, ExtendsItself
    <2> QED
      BY <2>1, <2>2
  <1>16. TasksOK' /\ Born \subseteq Born'
    BY <1>1, <1>9, <1>10, TasksKept
  <1>17. /\ RowsOK' /\ Grow /\ rows' \in SUBSET Card /\ IsFiniteSet(rows')
         /\ \A then \in rows' : \E row \in rows :
              /\ then.id = row.id /\ then.draft = row.draft
              /\ then.msgs = IF row.id = d.id THEN d.msgs ELSE row.msgs
         /\ \A row \in rows : \E then \in rows' :
              /\ then.id = row.id /\ then.draft = row.draft
              /\ then.msgs = IF row.id = d.id THEN d.msgs ELSE row.msgs
    BY <1>1, <1>5, <1>6, <1>15, <1>16, RowsSaved
  <1>18. P(i).dirty = {} => Keeps /\ Recalls
    BY <1>4, <1>17 DEF Keeps, Recalls, Same
  <1>19. OrderOK'
    BY <1>1, <1>2a, <1>3, <1>6, <1>7, <1>8, <1>9, WaitsAgain
  <1>20. QueueOK' /\ calls' \in Seq(Nat)
    BY <1>1, <1>3, <1>6, <1>7, <1>9, QueueTail DEF InQueue
  <1>21. Shape'
    <2>1. fails' \in 0..MaxFails
      BY <1>1, <1>6 DEF Shape
    <2> QED
      BY <1>1, <1>6, <1>9, <1>17, <1>20, <2>1, ShapeKept
  <1>22. /\ Tasks' = Tasks /\ Mounted' = Mounted /\ task'[i] = t
         /\ panel'[task[i].panel] = cn
         /\ (\A p \in Panels : p # task[i].panel => panel'[p] = panel[p])
         /\ Mine' = IF task[i].panel = Mounted THEN cn ELSE Mine
    BY <1>1, <1>9, Others
  <1>23. \A j \in Tasks : j # i =>
           /\ task'[j] = task[j] /\ (IsSend(j)' <=> IsSend(j))
           /\ (Mounts(j)' <=> Mounts(j)) /\ (Latest(j)' <=> Latest(j))
    BY <1>1, <1>9, Others
  <1>24. Latest(i)' => Latest(i)
    BY <1>3, <1>7, <1>9, <1>22, Others, <1>1 DEF Latest, Mounts
  <1>25. P(i).dirty # {} =>
           /\ \A card \in cn.items : \E other \in Mine.items :
                /\ card.id = other.id /\ card.draft = other.draft
                /\ card.msgs = IF other.id = d.id THEN d.msgs ELSE other.msgs
           /\ \A card \in cn.cur : \E other \in Mine.cur :
                /\ card.id = other.id /\ card.draft = other.draft
                /\ card.msgs = IF other.id = d.id THEN d.msgs ELSE other.msgs
           /\ \A other \in Mine.items : \E card \in cn.items : card.id = other.id
           /\ cn.cur = {} => Mine.cur = {}
    BY <1>3, <1>4, <1>5, <1>13, PanelSaved DEF cn
  <1>26. /\ \A id : Shows(Mine', id) => Shows(Mine, id)
         /\ Mine.dirty = {} => Mine'.dirty = {}
    BY <1>3, <1>8, <1>13, <1>22, <1>25 DEF Shows, Ids
  <1>27. CleanOK'
    <2>1. ASSUME NEW k \in Tasks
          PROVE  /\ Latest(k)' /\ task'[k].pc \in {"list", "get", "create"} => Mine'.dirty = {}
                 /\ Mounts(k)' /\ task'[k].pc = "delete" => Mine'.dirty = {}
                 /\ Mounts(k)' /\ task'[k].kind = "remove" /\ (Latest(k)' \/ task'[k].pc = "delete")
                      => task'[k].was \/ ~Shows(Mine', task'[k].conv)
                 /\ Latest(k)' /\ task'[k].pc = "mark" => Listed(Mine', task'[k])
      <3>0. ASSUME k # i, Latest(k), task[k].pc = "mark" PROVE Mine' = Mine
        <4>1. task[k].kind # "load"
          BY <1>1, <3>0 DEF TasksOK, TaskOK, PcOf, Latest, Mounts, IsOp
        <4>2. ~Mounts(i)
          BY <1>1, <1>2a, <3>0, <4>1 DEF OrderOK, AloneOK, Idly
        <4> QED
          BY <1>12, <1>22, <4>2
      <3>1. CASE k # i
        BY <1>1, <1>23, <1>26, <3>0, <3>1 DEF CleanOK
      <3>2. CASE k = i
        BY <1>1, <1>7, <1>22, <1>24, <1>26, <3>2 DEF CleanOK, Latest
      <3> QED
        BY <3>1, <3>2
    <2> QED
      BY <1>22, <2>1 DEF CleanOK
  <1>28. ResaveOK'
    <2>1. ASSUME NEW k \in Tasks, task'[k].pc = "resave"
          PROVE  \E e \in task'[k].save :
                   /\ task'[k].save = {e} /\ e.id \in Born'
                   /\ \/ panel'[task'[k].panel].dirty = {e}
                      \/ panel'[task'[k].panel].dirty = {} /\ \A row \in rows' : row.id = e.id => row.msgs = e.msgs
      <3>1. k # i
        BY <1>7, <1>22, <2>1
      <3>2. task'[k] = task[k] /\ task[k].panel \in Panels
        BY <1>1, <1>23, <3>1 DEF TasksOK, TaskOK
      <3>3. PICK e \in task[k].save :
              /\ task[k].save = {e} /\ e.id \in Born
              /\ \/ P(k).dirty = {e}
                 \/ P(k).dirty = {} /\ \A row \in rows : row.id = e.id => row.msgs = e.msgs
        BY <1>1, <2>1, <3>2 DEF ResaveOK
      <3>4. CASE P(i).dirty = {}
        <4>1. panel'[task'[k].panel].dirty = P(k).dirty
          BY <1>8, <1>22, <3>2, <3>4 DEF P
        <4> QED
          BY <1>16, <1>18, <3>2, <3>3, <3>4, <4>1 DEF Recalls
      <3>5. CASE P(i).dirty # {}
        <4>1. Mounts(i) /\ P(i) = Mine /\ ~Fresh
          BY <1>2a, <1>13, <3>5 DEF Fresh
        <4>2. task[k].panel = Mounted
          <5>1. IsOp(k)
            <6>1. Active(k)
              BY <2>1, <3>2 DEF Active
            <6>2. task[k].pc \in PcOf(task[k].kind)
              BY <1>1, <6>1 DEF TasksOK, TaskOK
            <6> QED
              BY <2>1, <3>2, <6>1, <6>2 DEF IsOp, PcOf, Sends, Creators, Derives
          <5>2. Panels = 1..Mounted /\ Mounted \in Nat
            BY <1>1, Places DEF Panels, Mounted
          <5> QED
            BY <1>1, <2>1, <3>2, <4>1, <5>1, <5>2 DEF OrderOK, OldOK
        <4>3. e = d
          BY <1>4, <3>3, <3>5, <4>1, <4>2 DEF P, Mine
        <4>4. panel'[task'[k].panel].dirty = {}
          BY <1>8, <1>12, <1>22, <3>2, <4>1, <4>2
        <4> QED
          BY <1>16, <1>17, <3>2, <3>3, <4>3, <4>4
      <3> QED
        BY <3>4, <3>5
    <2> QED
      BY <1>22, <2>1 DEF ResaveOK, P
  <1>29. PanelOK'
    <2>1. CASE Mounts(i)
      <3>1. ~Sending(Mounted)
        BY <1>11, <2>1
      <3>2. PanelGood(Mine, rows)
        BY <1>1, <3>1, Shown
      <3>3. PanelGood(Mine', rows')
        <4>1. CASE P(i).dirty = {}
          <5>1. Mine' = Mine
            BY <1>3, <1>8, <1>22, <4>1
          <5> QED
            BY <1>18, <3>2, <4>1, <5>1, SameKept DEF PanelGood
        <4>2. CASE P(i).dirty # {}
          <5>1. Mine' = cn /\ cn.dirty = {} /\ cn.chat = Mine.chat /\ P(i) = Mine
            BY <1>8, <1>12, <1>13, <1>22, <2>1, <4>2
          <5>2. \A card \in cn.items \cup cn.cur : \E other \in Mine.items \cup Mine.cur :
                  /\ card.id = other.id /\ card.draft = other.draft
                  /\ card.msgs = IF other.id = d.id THEN d.msgs ELSE other.msgs
            BY <1>25, <4>2
          <5>3. \A card \in cn.items \cup cn.cur : \E row \in rows' : Same(row, card)
            BY <1>17, <3>2, <5>2 DEF PanelGood, Same
          <5>4. \A card \in cn.cur : cn.chat = card.msgs
            BY <1>14, <1>25, <4>2, <5>1
          <5>5. cn.cur # {}
            BY <1>14, <1>25, <4>2
          <5> QED
            BY <5>1, <5>3, <5>4, <5>5 DEF PanelGood
        <4> QED
          BY <4>1, <4>2
      <3>4. \A k \in Tasks : ~IsSend(k)'
        <4>1. ~IsSend(i)' /\ \A k \in Tasks : ~IsSend(k)
          BY <1>1, <1>2a, <1>7, <1>22, <3>1, NoSends DEF IsSend
        <4> QED
          BY <1>23, <4>1
      <3> QED
        BY <1>22, <3>3, <3>4 DEF PanelOK, PanelGood
    <2>2. CASE ~Mounts(i)
      <3>1. Mine' = Mine /\ P(i).dirty = {}
        BY <1>12, <1>13, <1>22, <2>2
      <3>2. \A card \in Mine.items \cup Mine.cur : \E row \in rows' : Same(row, card)
        BY <1>1, <1>18, <3>1, SameKept DEF PanelOK
      <3>3. ASSUME NEW k \in Tasks, IsSend(k)' PROVE SendOK(k)'
        <4>1. k # i
          BY <1>2a, <1>7, <1>22, <3>3 DEF IsSend
        <4>2. IsSend(k) /\ task'[k] = task[k]
          BY <1>23, <3>3, <4>1
        <4> QED
          BY <1>1, <3>1, <4>2, SendKept DEF PanelOK
      <3>4. \A p : Sending(p)' <=> Sending(p)
        BY <1>1, <1>2a, <1>7, <1>9, SendingKept DEF IsSend
      <3> QED
        BY <1>1, <1>22, <3>1, <3>2, <3>3, <3>4 DEF PanelOK
    <2> QED
      BY <2>1, <2>2
  <1> QED
    BY <1>16, <1>17, <1>19, <1>20, <1>21, <1>27, <1>28, <1>29 DEF ConvInv

-----------------------------------------------------------------------------
(* Operations that go on. *)

\* Nothing is stored or shown otherwise, and at most one operation goes on or ends.
LEMMA NothingShown ==
  ASSUME ConvInv, NEW i, NEW pn, NEW t, Steps(i, pn, t), IsOp(i), task[i].pc = "wait",
         t = Over \/ (Continues(task[i], t) /\ t.kind = task[i].kind),
         pn.dirty = P(i).dirty, pn.busy = P(i).busy, pn.chat = P(i).chat,
         pn.cur = P(i).cur, pn.items = P(i).items,
         rows' = rows, said' = said, fails' = fails, OrderOK', QueueOK', calls' \in Seq(Nat),
         t # Over => t.was = task[i].was /\ t.conv = task[i].conv,
         t.pc \in {"list", "get", "create", "delete"} /\ t.panel = Mounted => Mine.dirty = {},
         t.pc # "mark",
         t.pc = "resave" => ~Sending(task[i].panel) /\ \E d \in P(i).dirty : t.save = {d},
         t.pc = "delete" => Latest(i)
  PROVE  ConvInv' /\ Grow
  <1>1. /\ Shape /\ QueueOK /\ TasksOK /\ OrderOK /\ RowsOK /\ CleanOK /\ ResaveOK /\ PanelOK
    BY DEF ConvInv
  <1>2. /\ Tasks' = Tasks /\ Mounted' = Mounted /\ Panels' = Panels /\ Mounted \in Panels
        /\ i \in Tasks /\ task[i].panel \in Panels /\ task'[i] = t
        /\ panel'[task[i].panel] = pn
        /\ (\A p \in Panels : p # task[i].panel => panel'[p] = panel[p])
        /\ Mine' = IF task[i].panel = Mounted THEN pn ELSE Mine
        /\ Mine'.gen = Mine.gen /\ (task[i].panel = Mounted => P(i) = Mine)
    BY <1>1, Others
  <1>3. \A j \in Tasks : j # i =>
          /\ task'[j] = task[j] /\ (IsSend(j)' <=> IsSend(j)) /\ (Mounts(j)' <=> Mounts(j))
          /\ (Latest(j)' <=> Latest(j))
    BY <1>1, Others
  <1>4. ~IsSend(i) /\ ~IsSend(i)' /\ ~(t.pc # "done" /\ t.kind \in Sends)
    BY <1>1, <1>2, OverType DEF IsSend, IsOp, Active
  <1>5. \A p : Sending(p)' <=> Sending(p)
    BY <1>1, <1>2, <1>4, SendingKept
  <1>6. TasksOK' /\ Born \subseteq Born'
    BY <1>1, TasksKept
  <1>7. RowsOK' /\ Recalls /\ Keeps /\ Grow
    BY <1>1, <1>6, RowsStay, StayGrows
  <1>8. Shape'
    BY <1>1, ShapeKept DEF Shape
  <1>9. /\ Mine'.dirty = Mine.dirty /\ Mine'.chat = Mine.chat /\ Mine'.cur = Mine.cur
        /\ Mine'.items = Mine.items
    BY <1>2
  <1>10. Latest(i)' => Latest(i) /\ t.kind = task[i].kind /\ t.panel = Mounted /\ t # Over
    BY <1>1, <1>2, OverType DEF Latest, Mounts, IsOp, Active, Continues
  <1>10a. Mounts(i)' => Mounts(i) /\ t.panel = Mounted /\ t.kind = task[i].kind /\ t # Over
    BY <1>1, <1>2, OverType DEF Mounts, IsOp, Active, Continues
  <1>11. CleanOK'
    <2>1. ASSUME NEW k \in Tasks
          PROVE  /\ Latest(k)' /\ task'[k].pc \in {"list", "get", "create"} => Mine'.dirty = {}
                 /\ Mounts(k)' /\ task'[k].pc = "delete" => Mine'.dirty = {}
                 /\ Mounts(k)' /\ task'[k].kind = "remove" /\ (Latest(k)' \/ task'[k].pc = "delete")
                      => task'[k].was \/ ~Shows(Mine', task'[k].conv)
                 /\ Latest(k)' /\ task'[k].pc = "mark" => Listed(Mine', task'[k])
      <3>0. \A id : Shows(Mine', id) <=> Shows(Mine, id)
        BY <1>9 DEF Shows
      <3>1. CASE k # i
        BY <1>1, <1>3, <1>9, <3>0, <3>1 DEF CleanOK, Listed
      <3>2. CASE k = i
        BY <1>1, <1>2, <1>9, <1>10, <1>10a, <3>0, <3>2 DEF CleanOK
      <3> QED
        BY <3>1, <3>2
    <2> QED
      BY <1>2, <2>1 DEF CleanOK
  <1>12. ResaveOK'
    <2>1. ASSUME NEW k \in Tasks, task'[k].pc = "resave"
          PROVE  \E d \in task'[k].save :
                   /\ task'[k].save = {d} /\ d.id \in Born'
                   /\ \/ panel'[task'[k].panel].dirty = {d}
                      \/ panel'[task'[k].panel].dirty = {} /\ \A row \in rows' : row.id = d.id => row.msgs = d.msgs
      <3>1. CASE k # i
        <4>1. task'[k] = task[k] /\ task[k].panel \in Panels
          BY <1>1, <1>3, <3>1 DEF TasksOK, TaskOK
        <4>2. PICK d \in task[k].save :
              /\ task[k].save = {d} /\ d.id \in Born
              /\ \/ P(k).dirty = {d}
                 \/ P(k).dirty = {} /\ \A row \in rows : row.id = d.id => row.msgs = d.msgs
          BY <1>1, <2>1, <4>1 DEF ResaveOK
        <4>3. panel'[task'[k].panel].dirty = P(k).dirty
          BY <1>2, <4>1 DEF P
        <4> QED
          BY <1>6, <4>1, <4>2, <4>3
      <3>2. CASE k = i
        <4>1. t.pc = "resave" /\ t.panel = task[i].panel /\ ~Sending(task[i].panel)
          BY <1>2, <2>1, <3>2, OverType, <1>1 DEF Continues
        <4>2. PICK d \in P(i).dirty : t.save = {d}
          BY <4>1
        <4>3. task[i].panel = Mounted /\ P(i) = Mine
          <5>1. Panels = 1..Mounted /\ Mounted \in Nat
            BY <1>1, Places DEF Panels, Mounted
          <5> QED
            BY <1>1, <1>2, <4>2, <5>1 DEF OrderOK, OldOK, P
        <4>4. PanelGood(Mine, rows)
          BY <1>1, <4>1, <4>3, Shown
        <4>5. PICK c \in Mine.cur : Mine.dirty = {[id |-> c.id, msgs |-> Mine.chat]}
          BY <4>2, <4>3, <4>4 DEF PanelGood
        <4>6. Mine.dirty = {d} /\ d.id = c.id
          <5>1. d = [id |-> c.id, msgs |-> Mine.chat]
            BY <4>2, <4>3, <4>5
          <5> QED
            BY <4>5, <5>1
        <4>7. c.id \in Born
          BY <1>1, <4>4, <4>5 DEF PanelGood, RowsOK, RowOK, Same
        <4> QED
          BY <1>2, <1>6, <3>2, <4>1, <4>2, <4>3, <4>6, <4>7
      <3> QED
        BY <3>1, <3>2
    <2> QED
      BY <1>2, <2>1 DEF ResaveOK, P
  <1>13. PanelOK'
    <2>1. ASSUME NEW k \in Tasks, IsSend(k)' PROVE SendOK(k)'
      <3>1. k # i /\ IsSend(k) /\ task'[k] = task[k]
        BY <1>3, <1>4, <2>1
      <3> QED
        BY <1>1, <1>9, <3>1, SendKept DEF PanelOK
    <2> QED
      BY <1>1, <1>2, <1>5, <1>9, <2>1 DEF PanelOK
  <1> QED
    BY <1>6, <1>7, <1>8, <1>11, <1>12, <1>13 DEF ConvInv

\* What is settled.
LEMMA SettledFacts ==
  ASSUME ConvInv, NEW i, Settled(i)
  PROVE  /\ i \in Tasks /\ IsOp(i) /\ task[i].pc = "wait" /\ ~Sending(task[i].panel)
         /\ "wait" \in PcOf(task[i].kind) /\ task[i].kind \in Waiting /\ task[i].kind \notin Sends
         /\ task[i].panel \in Panels /\ P(i) \in PanelType
         /\ (task[i].panel = Mounted => P(i) = Mine)
         /\ (Latest(i) <=> Current(i) /\ task[i].kind # "dispose")
         /\ (Current(i) => task[i].kind # "dispose" /\ scope = task[i].scope /\ P(i) = Mine)
  <1>1. Shape /\ QueueOK /\ TasksOK /\ OrderOK
    BY DEF ConvInv
  <1>2. i \in Tasks /\ task[i].pc = "wait" /\ ~Sending(task[i].panel)
    BY DEF Settled, Has
  <1>3. "wait" \in PcOf(task[i].kind) /\ task[i].panel \in Panels /\ Active(i) /\ task[i] \in Task
    BY <1>1, <1>2, Places DEF TasksOK, TaskOK, Active
  <1>4. task[i].kind \in Waiting /\ task[i].kind \notin Sends
    BY <1>3 DEF PcOf, Creators, Derives, Waiting, Sends, Task
  <1>5. IsOp(i)
    BY <1>3, <1>4 DEF IsOp
  <1>6. Latest(i) <=> Current(i) /\ task[i].kind # "dispose"
    BY <1>1, <1>2, <1>5, OpCases
  <1>7. task[i].panel = Mounted => P(i) = Mine
    BY DEF P, Mine
  <1>8. Current(i) => task[i].kind # "dispose" /\ scope = task[i].scope /\ P(i) = Mine
    <2>1. Mounted \in Nat
      BY <1>1, Places DEF Mounted
    <2> QED
      BY <1>1, <1>2, <1>3, <1>7, <2>1 DEF TasksOK, TaskOK, Current
  <1>9. P(i) \in PanelType
    BY <1>1, <1>3, Places DEF P
  <1> QED
    BY <1>2, <1>3, <1>4, <1>5, <1>6, <1>7, <1>8, <1>9

\* A panel left as it is.
LEMMA PanelStays ==
  ASSUME Shape, TasksOK, NEW i \in Tasks
  PROVE  [panel EXCEPT ![task[i].panel] = P(i)] = panel
  <1>1. task[i].panel \in DOMAIN panel /\ panel \in Seq(Panel)
    BY Places DEF TasksOK, TaskOK, Shape
  <1> QED
    BY <1>1 DEF P

\* An operation saves once more.
LEMMA ResaveKeep ==
  ASSUME ConvInv, NEW i \in Tasks, Resave(i) PROVE ConvInv' /\ Grow
  <1>1. Shape /\ QueueOK /\ TasksOK /\ OrderOK /\ PanelOK
    BY DEF ConvInv
  <1>2. /\ IsOp(i) /\ task[i].pc = "wait" /\ ~Sending(task[i].panel)
        /\ "wait" \in PcOf(task[i].kind) /\ task[i].kind \in Waiting /\ task[i].kind \notin Sends
        /\ task[i].panel \in Panels /\ P(i) \in PanelType /\ Settled(i)
    BY SettledFacts DEF Resave
  <1>3. PICK d \in P(i).dirty :
          SetTask(i, [task[i] EXCEPT !.save = {d}], "resave") /\ calls' = Append(calls, i)
    BY DEF Resave
  <1> DEFINE t == [[task[i] EXCEPT !.save = {d}] EXCEPT !.pc = "resave"]
  <1>4. task' = [task EXCEPT ![i] = t]
    BY <1>3 DEF SetTask
  <1>5. /\ t \in Task /\ t.pc = "resave" /\ t.kind = task[i].kind /\ t.panel = task[i].panel
        /\ t.token = task[i].token /\ t.scope = task[i].scope /\ t.conv = task[i].conv
        /\ t.n = task[i].n /\ t.msgs = task[i].msgs /\ t.was = task[i].was /\ t.save = {d}
    <2>1. d \in Dirt /\ task[i] \in Task
      BY <1>1, <1>2, Places DEF PanelType, Panel
    <2> QED
      BY <2>1 DEF Task, Dirt, InQueue
  <1> HIDE DEF t
  <1>6. Steps(i, P(i), t)
    BY <1>1, <1>2, <1>4, <1>5, PanelStays DEF Steps, Moves, Resave
  <1>7. task[i].kind # "dispose"
    <2>1. SUFFICES ASSUME task[i].kind = "dispose" PROVE FALSE
      OBVIOUS
    <2>2. task[i].panel < Mounted
      BY <1>1, <1>2, <2>1 DEF TasksOK, TaskOK, IsOp
    <2> QED
      BY <1>1, <1>2, <1>3, <2>2 DEF OrderOK, OldOK, P
  <1>8. Continues(task[i], t) /\ t.kind = task[i].kind
    <2>1. "resave" \in PcOf(task[i].kind)
      BY <1>2, <1>7 DEF PcOf, Creators, Derives, Waiting
    <2> QED
      BY <1>2, <1>5, <2>1 DEF Continues
  <1>9. OrderOK'
    <2>1. Mine.cur = {} => Mine.dirty = {}
      BY <1>1 DEF PanelOK
    <2>2. t.pc \in InQueue /\ P(i).dirty # {}
      BY <1>3, <1>5 DEF InQueue
    <2> QED
      BY <1>1, <1>2, <1>3, <1>5, <1>6, <2>1, <2>2, GoesOn
  <1>10. QueueOK' /\ calls' \in Seq(Nat)
    BY <1>1, <1>2, <1>3, <1>5, <1>6, QueueAppend DEF InQueue
  <1>11. rows' = rows /\ said' = said /\ fails' = fails
    BY DEF Resave
  <1> QED
    BY <1>2, <1>3, <1>5, <1>6, <1>8, <1>9, <1>10, <1>11, NothingShown

\* An operation goes on.
LEMMA ProceedKeep ==
  ASSUME ConvInv, NEW i \in Tasks, Proceed(i) PROVE ConvInv' /\ Grow
  <1>1. Shape /\ QueueOK /\ TasksOK /\ OrderOK /\ PanelOK
    BY DEF ConvInv
  <1>2. /\ IsOp(i) /\ task[i].pc = "wait" /\ ~Sending(task[i].panel)
        /\ "wait" \in PcOf(task[i].kind) /\ task[i].kind \in Waiting /\ task[i].kind \notin Sends
        /\ task[i].panel \in Panels /\ P(i) \in PanelType /\ Settled(i)
        /\ (task[i].panel = Mounted => P(i) = Mine)
        /\ (Latest(i) <=> Current(i) /\ task[i].kind # "dispose")
        /\ (Current(i) => task[i].kind # "dispose" /\ scope = task[i].scope /\ P(i) = Mine)
    BY SettledFacts DEF Proceed
  <1>3. P(i).dirty = {} /\ (task[i].kind = "refresh" \/ Current(i))
    BY DEF Proceed, Goes
  <1> DEFINE t == [task[i] EXCEPT !.pc = NextCall(task[i].kind)]
  <1>4. task' = [task EXCEPT ![i] = t] /\ calls' = Append(calls, i)
    BY DEF Proceed, SetTask
  <1>5. /\ NextCall(task[i].kind) \in {"list", "get", "create", "delete"}
        /\ NextCall(task[i].kind) = "delete" <=> task[i].kind = "remove"
        /\ task[i].kind = "load" => NextCall(task[i].kind) = "list"
        /\ task[i].kind # "dispose"
        /\ NextCall(task[i].kind) \in PcOf(task[i].kind)
    <2>1. task[i].kind # "dispose"
      BY <1>2, <1>3
    <2> QED
      BY <1>2, <2>1 DEF NextCall, PcOf, Creators, Derives, Waiting
  <1>6. /\ t \in Task /\ t.pc = NextCall(task[i].kind) /\ t.kind = task[i].kind /\ t.panel = task[i].panel
        /\ t.token = task[i].token /\ t.scope = task[i].scope /\ t.conv = task[i].conv
        /\ t.n = task[i].n /\ t.msgs = task[i].msgs /\ t.was = task[i].was
    <2>1. task[i] \in Task /\ NextCall(task[i].kind) \in InQueue
      BY <1>1, <1>5, Places DEF InQueue
    <2> QED
      BY <2>1 DEF Task
  <1> HIDE DEF t
  <1>7. Steps(i, P(i), t)
    BY <1>1, <1>2, <1>4, <1>6, PanelStays DEF Steps, Moves, Proceed
  <1>8. Continues(task[i], t) /\ t.kind = task[i].kind
    BY <1>2, <1>5, <1>6 DEF Continues
  <1>9. t.pc \in InQueue /\ task[i].pc \notin InQueue /\ t.pc # "resave"
    BY <1>2, <1>5, <1>6 DEF InQueue
  <1>10. OrderOK'
    <2>1. Mine.cur = {} => Mine.dirty = {}
      BY <1>1 DEF PanelOK
    <2>2. t.pc = "delete" => task[i].kind # "refresh"
      BY <1>5, <1>6
    <2> QED
      BY <1>1, <1>2, <1>3, <1>4, <1>5, <1>6, <1>7, <1>9, <2>1, <2>2, GoesOn
  <1>11. QueueOK' /\ calls' \in Seq(Nat)
    BY <1>1, <1>4, <1>7, <1>9, QueueAppend
  <1>12. rows' = rows /\ said' = said /\ fails' = fails
    BY DEF Proceed
  <1>13. (t.panel = Mounted => Mine.dirty = {}) /\ (t.pc = "delete" => Latest(i)) /\ t.pc # "mark"
    BY <1>2, <1>3, <1>5, <1>6
  <1> QED
    BY <1>2, <1>6, <1>7, <1>8, <1>9, <1>10, <1>11, <1>12, <1>13, NothingShown

\* An operation that was overtaken ends.
LEMMA OvertakenKeep ==
  ASSUME ConvInv, NEW i \in Tasks, Overtaken(i) PROVE ConvInv' /\ Grow
  <1>1. Shape /\ QueueOK /\ TasksOK /\ OrderOK /\ PanelOK
    BY DEF ConvInv
  <1>2. /\ IsOp(i) /\ task[i].pc = "wait" /\ ~Sending(task[i].panel)
        /\ task[i].kind \notin Sends
        /\ task[i].panel \in Panels /\ P(i) \in PanelType /\ Settled(i)
        /\ (Current(i) => task[i].kind # "dispose" /\ scope = task[i].scope /\ P(i) = Mine)
    BY SettledFacts DEF Overtaken
  <1>3. P(i).dirty = {} /\ ~Current(i)
    BY <1>2 DEF Overtaken, Goes, SameScope
  <1>4. Steps(i, P(i), Over) /\ calls' = calls
    <2>1. Loaded(i, P(i)) = P(i)
      BY <1>2, <1>3, LoadedIs
    <2> QED
      BY <1>1, <1>2, <2>1, OverType DEF Overtaken, SetPanel, End, Steps, Moves
  <1>5. OrderOK'
    BY <1>1, <1>2, <1>3, <1>4, EndsWaiting
  <1>6. QueueOK' /\ calls' \in Seq(Nat)
    BY <1>1, <1>2, <1>4, OverType, QueueSame DEF InQueue
  <1>7. rows' = rows /\ said' = said /\ fails' = fails
    BY DEF Overtaken
  <1> QED
    BY <1>1, <1>2, <1>3, <1>4, <1>5, <1>6, <1>7, OverType, NothingShown

\* A conversation of the list is shown.
LEMMA OpenKnownKeep ==
  ASSUME ConvInv, NEW i \in Tasks, OpenKnown(i) PROVE ConvInv' /\ Grow
  <1>1. /\ Shape /\ QueueOK /\ TasksOK /\ OrderOK /\ RowsOK /\ CleanOK /\ ResaveOK /\ PanelOK
    BY DEF ConvInv
  <1>2. /\ IsOp(i) /\ task[i].pc = "wait" /\ ~Sending(task[i].panel)
        /\ task[i].kind \notin Sends
        /\ task[i].panel \in Panels /\ P(i) \in PanelType /\ Settled(i)
        /\ (Latest(i) <=> Current(i) /\ task[i].kind # "dispose")
        /\ (Current(i) => task[i].kind # "dispose" /\ scope = task[i].scope /\ P(i) = Mine)
    BY SettledFacts DEF OpenKnown
  <1>3. /\ task[i].kind = "open" /\ Current(i) /\ Latest(i) /\ P(i) = Mine /\ Mine.dirty = {}
        /\ task[i].conv \in Ids(Mine.items) /\ task[i].panel = Mounted /\ ~Sending(Mounted)
    BY <1>2 DEF OpenKnown, Goes, Known, Current
  <1>4. PICK card \in Mine.items : card = CardOf(Mine.items, task[i].conv)
    BY <1>3 DEF Ids, CardOf
  <1>5. card \in Card /\ PanelGood(Mine, rows)
    BY <1>1, <1>2, <1>3, Shown DEF PanelType, Panel
  <1> DEFINE an == Apply(Mine, card)
             pn == Loaded(i, an)
  <1>6. panel' = [panel EXCEPT ![task[i].panel] = pn] /\ task' = [task EXCEPT ![i] = Over]
    BY <1>3, <1>4 DEF OpenKnown, SetPanel, End
  <1>7. /\ an \in PanelType /\ an.gen = Mine.gen /\ an.busy = Mine.busy /\ an.dirty = {}
        /\ an.chat = card.msgs /\ an.cur = {card} /\ an.items = Mine.items
    BY <1>2, <1>3, <1>5, ApplyIs
  <1> HIDE DEF an
  <1>8. /\ pn \in PanelType /\ pn.gen = Mine.gen /\ pn.busy = Mine.busy /\ pn.dirty = {}
        /\ pn.chat = card.msgs /\ pn.cur = {card} /\ pn.items = Mine.items /\ pn.loading = FALSE
    BY <1>3, <1>7, LoadedIs
  <1> HIDE DEF pn
  <1>9. PanelGood(pn, rows)
    BY <1>5, <1>8 DEF PanelGood
  <1>10. /\ calls' = calls /\ rows' = rows /\ said' = said /\ fails' = fails
         /\ scope' = scope /\ given' = given
    BY DEF OpenKnown
  <1>11. Steps(i, pn, Over)
    BY <1>1, <1>3, <1>6, <1>8, <1>10, OverType DEF Steps, Moves
  <1>12. OrderOK'
    BY <1>1, <1>2, <1>3, <1>8, <1>10, <1>11, EndsWaiting
  <1>13. QueueOK' /\ calls' \in Seq(Nat)
    BY <1>1, <1>2, <1>10, <1>11, OverType, QueueSame DEF InQueue
  <1>14. TasksOK' /\ Born \subseteq Born'
    BY <1>1, <1>11, TasksKept
  <1>15. RowsOK' /\ Grow
    BY <1>1, <1>10, <1>14, RowsStay, StayGrows
  <1>16. Shape'
    BY <1>1, <1>10, <1>11, <1>13, ShapeKept DEF Shape
  <1>17. /\ Tasks' = Tasks /\ Mounted' = Mounted /\ task'[i] = Over
         /\ panel'[task[i].panel] = pn /\ Mine' = pn
         /\ (\A p \in Panels : p # task[i].panel => panel'[p] = panel[p])
    BY <1>1, <1>3, <1>11, Others
  <1>18. \A j \in Tasks : j # i =>
           /\ task'[j] = task[j] /\ (IsSend(j)' <=> IsSend(j)) /\ (Mounts(j)' <=> Mounts(j))
           /\ (Latest(j)' <=> Latest(j))
    BY <1>1, <1>11, Others
  <1>19. ~IsSend(i)' /\ ~Mounts(i)' /\ ~Latest(i)' /\ task'[i].pc = "done"
    BY <1>1, <1>17, OverType DEF IsSend, Mounts, Latest, IsOp, Active
  <1>20. CleanOK'
    <2>1. \A k \in Tasks : ~Latest(k)'
      BY <1>1, <1>3, <1>18, <1>19 DEF OrderOK, OneLatest
    <2>2. \A k \in Tasks : Mounts(k)' => task'[k].pc # "delete"
      BY <1>1, <1>3, <1>18, <1>19 DEF OrderOK, AloneOK, Idly
    <2> QED
      BY <1>17, <2>1, <2>2 DEF CleanOK
  <1>21. ResaveOK'
    <2>1. ASSUME NEW k \in Tasks, task'[k].pc = "resave"
          PROVE  \E d \in task'[k].save :
                   /\ task'[k].save = {d} /\ d.id \in Born'
                   /\ \/ panel'[task'[k].panel].dirty = {d}
                      \/ panel'[task'[k].panel].dirty = {} /\ \A row \in rows' : row.id = d.id => row.msgs = d.msgs
      <3>1. k # i
        BY <1>19, <2>1
      <3>2. task'[k] = task[k] /\ task[k].panel \in Panels
        BY <1>1, <1>18, <3>1 DEF TasksOK, TaskOK
      <3>3. PICK d \in task[k].save :
              /\ task[k].save = {d} /\ d.id \in Born
              /\ \/ P(k).dirty = {d}
                 \/ P(k).dirty = {} /\ \A row \in rows : row.id = d.id => row.msgs = d.msgs
        BY <1>1, <2>1, <3>2 DEF ResaveOK
      <3>4. panel'[task'[k].panel].dirty = P(k).dirty
        BY <1>3, <1>8, <1>17, <3>2 DEF P
      <3> QED
        BY <1>10, <1>14, <3>2, <3>3, <3>4
    <2> QED
      BY <1>17, <2>1 DEF ResaveOK, P
  <1>22. PanelOK'
    <2>1. \A k \in Tasks : ~IsSend(k)'
      BY <1>1, <1>3, <1>18, <1>19, NoSends
    <2> QED
      BY <1>9, <1>10, <1>17, <2>1 DEF PanelOK, PanelGood
  <1> QED
    BY <1>12, <1>13, <1>14, <1>15, <1>16, <1>20, <1>21, <1>22 DEF ConvInv

-----------------------------------------------------------------------------
(* Sends. *)

\* While an operation becomes a send, or a send goes on, nothing else can disturb it.
LEMMA SendOnly ==
  ASSUME ConvInv, NEW i \in Tasks,
         IsSend(i) \/ (Latest(i) /\ task[i].kind \in {"retry", "edit"} /\ task[i].pc = "create")
  PROVE  /\ task[i].panel = Mounted /\ P(i) = Mine /\ Mine \in PanelType
         /\ \A k \in Tasks : k # i =>
              /\ ~IsSend(k) /\ task[k].pc # "resave"
              /\ Mounts(k) => task[k].pc = "wait" \/ (Stale(k) /\ Idly(k))
  <1>1. Shape /\ QueueOK /\ TasksOK /\ OrderOK
    BY DEF ConvInv
  <1>2. /\ task[i].panel = Mounted /\ ~Fresh
        /\ \A k \in Tasks : k # i =>
             ~IsSend(k) /\ (Mounts(k) => task[k].pc = "wait" \/ (Stale(k) /\ Idly(k)))
    <2>1. CASE IsSend(i)
      BY <1>1, <2>1, SendAlone
    <2>2. CASE Latest(i) /\ task[i].kind \in {"retry", "edit"} /\ task[i].pc = "create"
      <3>1. ~Fresh /\ task[i].panel = Mounted
        BY <2>2 DEF Fresh, Latest, Mounts
      <3>2. \A k \in Tasks : Mounts(k) /\ k # i => Stale(k) /\ Idly(k)
        BY <1>1, <2>2 DEF OrderOK, AloneOK
      <3>3. ASSUME NEW k \in Tasks, IsSend(k) PROVE FALSE
        <4>1. Sending(Mounted)
          BY <1>1, <3>3, SendAlone
        <4> QED
          BY <1>1, <2>2, <4>1 DEF OrderOK, SendsWait, Latest, Stale
      <3> QED
        BY <3>1, <3>2, <3>3
    <2> QED
      BY <2>1, <2>2
  <1>3. P(i) = Mine /\ Mine \in PanelType /\ Mounted \in Nat /\ Panels = 1..Mounted
    BY <1>1, <1>2, Places DEF P, Mine, Mounted, Panels
  <1>4. ASSUME NEW k \in Tasks, k # i, task[k].pc = "resave" PROVE FALSE
    <2>1. task[k].panel \in Panels /\ task[k].pc \in PcOf(task[k].kind)
      BY <1>1, <1>4 DEF TasksOK, TaskOK, Active
    <2>2. IsOp(k)
      BY <1>4, <2>1 DEF IsOp, Active, PcOf, Sends, Creators, Derives
    <2>3. CASE task[k].panel = Mounted
      BY <1>2, <1>4, <2>2, <2>3 DEF Mounts, Idly
    <2>4. CASE task[k].panel < Mounted
      BY <1>1, <1>2, <1>4, <2>2, <2>4 DEF OrderOK, OldOK
    <2> QED
      BY <1>3, <2>1, <2>3, <2>4
  <1> QED
    BY <1>2, <1>3, <1>4

\* A send goes on or ends, or an operation becomes one, but for what the step does.
LEMMA SendRest ==
  ASSUME ConvInv, NEW i, NEW pn, NEW t, Steps(i, pn, t), OrderOK', QueueOK', calls' \in Seq(Nat),
         \/ IsSend(i)
         \/ Latest(i) /\ task[i].kind \in {"retry", "edit"} /\ task[i].pc = "create",
         \/ t = Over /\ PanelGood(pn, rows')
         \/ Continues(task[i], t) /\ t.kind \in Sends /\ SendGood(pn, t),
         rows' \in SUBSET Card, IsFiniteSet(rows'), said' = said, fails' \in 0..MaxFails,
         RowsOK', Grow, \A card \in pn.items \cup pn.cur : \E row \in rows' : Same(row, card),
         \A id \in Born : Shows(pn, id) => Shows(Mine, id)
  PROVE  ConvInv' /\ Grow
  <1>1. /\ Shape /\ QueueOK /\ TasksOK /\ OrderOK /\ RowsOK /\ CleanOK /\ ResaveOK /\ PanelOK
    BY DEF ConvInv
  <1>2. /\ Tasks' = Tasks /\ Mounted' = Mounted /\ Panels' = Panels /\ Mounted \in Panels
        /\ i \in Tasks /\ task'[i] = t
        /\ panel'[task[i].panel] = pn
        /\ Mine' = IF task[i].panel = Mounted THEN pn ELSE Mine
    BY <1>1, Others
  <1>3. \A j \in Tasks : j # i =>
          /\ task'[j] = task[j] /\ (IsSend(j)' <=> IsSend(j)) /\ (Mounts(j)' <=> Mounts(j))
          /\ (Latest(j)' <=> Latest(j)) /\ (Stale(j)' <=> Stale(j))
    BY <1>1, Others
  <1>4. /\ task[i].panel = Mounted
        /\ \A k \in Tasks : k # i =>
              /\ ~IsSend(k) /\ task[k].pc # "resave"
              /\ Mounts(k) => task[k].pc = "wait" \/ (Stale(k) /\ Idly(k))
    BY <1>2, SendOnly
  <1>5. Mine' = pn
    BY <1>2, <1>4
  <1>6. /\ ~Mounts(i)' /\ ~Latest(i)' /\ t.pc # "resave"
        /\ IsSend(i)' <=> t # Over
    <2>1. CASE t = Over
      BY <1>1, <1>2, <2>1, OverType DEF Mounts, Latest, IsOp, IsSend, Active
    <2>2. CASE Continues(task[i], t) /\ t.kind \in Sends
      <3>1. t.pc \in PcOf(t.kind) /\ t.pc # "done" /\ t # Over
        BY <1>1, <2>2, OverType DEF Continues
      <3>2. t.pc # "resave"
        BY <2>2, <3>1 DEF PcOf, Sends, Creators, Derives
      <3> QED
        BY <1>2, <2>2, <3>1, <3>2 DEF Mounts, Latest, IsOp, IsSend, Active
    <2> QED
      BY <2>1, <2>2
  <1>7. TasksOK' /\ Born \subseteq Born'
    BY <1>1, TasksKept
  <1>8. Shape'
    BY <1>1, ShapeKept
  <1>9. CleanOK'
    <2>1. ASSUME NEW k \in Tasks
          PROVE  /\ ~(Latest(k)' /\ task'[k].pc \in {"list", "get", "create", "mark"})
                 /\ ~(Mounts(k)' /\ task'[k].pc = "delete")
                 /\ Mounts(k)' /\ task'[k].kind = "remove" /\ Latest(k)'
                      => task'[k].was \/ ~Shows(Mine', task'[k].conv)
      <3>1. CASE k = i
        BY <1>6, <3>1
      <3>2. CASE k # i
        <4>1. Latest(k)' => Latest(k) /\ Mounts(k) /\ task[k].pc = "wait" /\ Active(k)
          BY <1>3, <1>4, <3>2 DEF Latest, Stale, Mounts, IsOp
        <4>2. Mounts(k)' => task[k].pc # "delete"
          BY <1>3, <1>4, <3>2 DEF Idly
        <4>3. ASSUME Latest(k)', task'[k].kind = "remove"
              PROVE  task'[k].was \/ ~Shows(Mine', task'[k].conv)
          <5>1. task[k].conv \in Born
            BY <1>1, <1>3, <3>2, <4>1, <4>3 DEF TasksOK, TaskOK
          <5>2. task[k].was \/ ~Shows(Mine, task[k].conv)
            BY <1>1, <1>3, <3>2, <4>1, <4>3 DEF CleanOK
          <5> QED
            BY <1>3, <1>5, <3>2, <5>1, <5>2
        <4> QED
          BY <1>3, <3>2, <4>1, <4>2, <4>3
      <3> QED
        BY <3>1, <3>2
    <2> QED
      BY <1>2, <2>1 DEF CleanOK
  <1>10. ResaveOK'
    <2>1. \A k \in Tasks : task'[k].pc # "resave"
      BY <1>2, <1>3, <1>4, <1>6
    <2> QED
      BY <1>2, <2>1 DEF ResaveOK
  <1>11. PanelOK'
    <2>1. \A k \in Tasks : IsSend(k)' => k = i /\ t # Over
      BY <1>3, <1>4, <1>6
    <2>2. CASE t = Over
      <3>1. PanelGood(pn, rows')
        BY <1>1, <2>2, OverType DEF Continues
      <3>2. \A k \in Tasks : ~IsSend(k)'
        BY <2>1, <2>2
      <3> QED
        BY <1>2, <1>5, <3>1, <3>2 DEF PanelOK, PanelGood
    <2>3. CASE t # Over
      <3>1. Continues(task[i], t) /\ t.kind \in Sends /\ SendGood(pn, t)
        BY <2>3
      <3>2. SendOK(i)'
        BY <1>2, <1>5, <3>1 DEF SendOK
      <3>3. Sending(Mounted)'
        <4>1. task'[i].panel = Mounted /\ task'[i].kind \in Sends /\ task'[i].pc # "done"
          BY <1>2, <1>4, <3>1 DEF Continues
        <4> QED
          BY <1>2, <4>1 DEF Sending
      <3>4. pn.cur = {} => pn.chat = <<>> /\ pn.dirty = {}
        BY <3>1 DEF SendGood, Continues
      <3> QED
        BY <1>2, <1>5, <2>1, <3>2, <3>3, <3>4 DEF PanelOK
    <2> QED
      BY <2>2, <2>3
  <1> QED
    BY <1>7, <1>8, <1>9, <1>10, <1>11 DEF ConvInv

\* What a send has, and its panel.
LEMMA SendFacts ==
  ASSUME ConvInv, NEW i \in Tasks, IsSend(i)
  PROVE  /\ task[i].panel = Mounted /\ P(i) = Mine /\ Mine \in PanelType
         /\ task[i] \in Task /\ task[i].kind \in {"ask", "again"} /\ task[i].pc \in PcOf(task[i].kind)
         /\ SendGood(Mine, task[i]) /\ task[i].n \in 1..MaxSaid
         /\ task[i].conv \in Convs \cup {None} /\ task[i].msgs \in Seq(Message)
         /\ \A card \in Mine.items \cup Mine.cur : card \in Card /\ \E row \in rows : Same(row, card)
         /\ Mine.cur = {} => Mine.chat = <<>> /\ Mine.dirty = {}
         /\ \A a, b \in Mine.cur : a = b
         /\ Mine.busy = TRUE
  <1>1. /\ Shape /\ TasksOK /\ OrderOK /\ PanelOK /\ SendOK(i)
    BY DEF ConvInv, PanelOK
  <1>2. task[i].panel = Mounted /\ P(i) = Mine /\ Mine \in PanelType
    BY SendOnly
  <1>3. task[i] \in Task /\ task[i].pc \in PcOf(task[i].kind) /\ task[i].kind \in Sends
    BY <1>1, Places DEF TasksOK, TaskOK, IsSend
  <1>4. task[i].kind \in {"ask", "again"}
    BY <1>3 DEF PcOf, Sends, Creators, Derives
  <1>5. SendGood(Mine, task[i])
    BY <1>1 DEF SendOK
  <1>6. task[i].n \in 1..MaxSaid
    <2>1. task[i].n \in 0..MaxSaid /\ task[i].n >= 1
      BY <1>3, <1>5 DEF Task, SendGood
    <2> QED
      BY <2>1, ConversationsAssumption
  <1>7. task[i].conv \in Convs \cup {None} /\ task[i].msgs \in Seq(Message)
    BY <1>3 DEF Task
  <1>8. \A card \in Mine.items \cup Mine.cur : card \in Card /\ \E row \in rows : Same(row, card)
    BY <1>1, <1>2 DEF PanelOK, PanelType, Panel
  <1>9. \A a, b \in Mine.cur : a = b
    BY <1>2 DEF PanelType, One
  <1>10. Mine.busy = TRUE
    <2>1. Mine.busy
      BY <1>1, SendAlone
    <2> QED
      BY <1>2, <2>1 DEF PanelType, Panel
  <1> QED
    BY <1>1, <1>2, <1>3, <1>4, <1>5, <1>6, <1>7, <1>8, <1>9, <1>10 DEF PanelOK

\* The panel busy or not.
LEMMA BusyIs ==
  ASSUME NEW pn \in PanelType, NEW b \in BOOLEAN
  PROVE  /\ [pn EXCEPT !.busy = b] \in PanelType
         /\ [pn EXCEPT !.busy = b].gen = pn.gen /\ [pn EXCEPT !.busy = b].busy = b
         /\ [pn EXCEPT !.busy = b].dirty = pn.dirty /\ [pn EXCEPT !.busy = b].chat = pn.chat
         /\ [pn EXCEPT !.busy = b].cur = pn.cur /\ [pn EXCEPT !.busy = b].items = pn.items
         /\ [pn EXCEPT !.busy = b].loading = pn.loading
  BY DEF PanelType, Panel, One

\* What a copy holds is ordered, as the row is.
LEMMA CopyOrdered ==
  ASSUME RowsOK, NEW card, \E row \in rows : Same(row, card) PROVE Ordered(card.msgs)
  BY DEF RowsOK, RowOK, Same

\* The task whose prompt is added.
Prompted(pn, t) == [Saving(pn, t) EXCEPT !.pc = "prompt"]

\* A prompt is added to what the panel shows of a stored conversation.
LEMMA AskingIs ==
  ASSUME NEW pn \in PanelType, NEW card \in pn.cur, NEW t \in Task, t.n \in 1..MaxSaid,
         t.conv \in Convs, card.id = t.conv, pn.dirty = {}, pn.chat = card.msgs, Ordered(card.msgs),
         NEW an, an = Asking(pn, t), NEW st, st = Prompted(pn, t)
  PROVE  /\ an \in PanelType /\ an.gen = pn.gen /\ an.loading = pn.loading /\ an.busy = pn.busy
         /\ an.cur = pn.cur /\ an.items = pn.items
         /\ st \in Task /\ st.pc = "prompt" /\ st.kind = t.kind /\ st.panel = t.panel
         /\ st.token = t.token /\ st.scope = t.scope /\ st.conv = t.conv /\ st.n = t.n
         /\ SendGood(an, st)
  <1>1. card \in Card /\ pn \in Panel /\ card.msgs \in Seq(Message) /\ One(pn)
    BY DEF PanelType, Panel, Card
  <1>2. PICK m : m = Says(t)
    OBVIOUS
  <1>3. m \in Message /\ m.of = card.id /\ m.role = "user" /\ m.n = t.n /\ m.role # "assistant"
    BY <1>2 DEF Says, Message
  <1>4. PICK path : path = Append(pn.chat, m)
    OBVIOUS
  <1>5. path \in Seq(Message) /\ Extends(path, card)
    <2>1. Extends(card.msgs, card)
      BY <1>1, ExtendsItself
    <2> QED
      BY <1>1, <1>3, <1>4, <2>1, ExtendsAppend
  <1>6. Asks(path, t.n)
    BY <1>1, <1>3, <1>4, AppendAsks
  <1>7. PICK cn : cn = [pn EXCEPT !.chat = path]
    OBVIOUS
  <1>8. /\ cn \in PanelType /\ cn.gen = pn.gen /\ cn.loading = pn.loading /\ cn.busy = pn.busy
        /\ cn.cur = pn.cur /\ cn.items = pn.items /\ cn.dirty = {} /\ cn.chat = path
    BY <1>1, <1>5, <1>7 DEF PanelType, Panel, One
  <1>10. an = Dirtied(cn, t.conv, path)
    BY <1>2, <1>4, <1>7 DEF Asking
  <1>11. /\ an \in PanelType /\ an.gen = pn.gen /\ an.loading = pn.loading /\ an.busy = pn.busy
         /\ an.cur = pn.cur /\ an.items = pn.items /\ an.chat = path
         /\ an.dirty = {[id |-> t.conv, msgs |-> path]}
    BY <1>5, <1>8, <1>10, DirtiedIs
  <1>13. st = [[t EXCEPT !.msgs = path] EXCEPT !.pc = "prompt"]
    BY <1>11 DEF Saving, Prompted
  <1>14. /\ st \in Task /\ st.pc = "prompt" /\ st.kind = t.kind /\ st.panel = t.panel
         /\ st.token = t.token /\ st.scope = t.scope /\ st.conv = t.conv /\ st.n = t.n
         /\ st.msgs = path
    BY <1>5, <1>13 DEF Task, InQueue
  <1>15. SendGood(an, st)
    <2>1. st.n >= 1 /\ st.pc = "prompt"
      BY <1>14, ConversationsAssumption
    <2>2. /\ card \in an.cur /\ card.id = st.conv /\ an.dirty = {[id |-> card.id, msgs |-> an.chat]}
          /\ st.msgs = an.chat /\ Extends(an.chat, card) /\ Asks(an.chat, st.n)
      BY <1>5, <1>6, <1>11, <1>14
    <2> QED
      BY <2>1, <2>2 DEF SendGood
  <1> QED
    BY <1>11, <1>14, <1>15

\* A send is refused, and ends.
LEMMA SendRefused ==
  ASSUME ConvInv, NEW i \in Tasks, Refused(i), task[i].kind \in Sends PROVE ConvInv' /\ Grow
  <1>1. /\ Shape /\ QueueOK /\ TasksOK /\ OrderOK /\ RowsOK /\ PanelOK
    BY DEF ConvInv
  <1>2. /\ calls # <<>> /\ i = Head(calls) /\ calls' = Tail(calls)
        /\ scope' = scope /\ rows' = rows /\ given' = given /\ said' = said
        /\ task' = [task EXCEPT ![i] = Over]
    BY DEF Refused, Asked, End
  <1>3. task[i].pc \in InQueue /\ task[i].pc \notin {"stream", "done"}
    BY <1>1, <1>2, AtHead DEF InQueue
  <1>4. IsSend(i)
    BY <1>3 DEF IsSend, Active
  <1>5. /\ task[i].panel = Mounted /\ P(i) = Mine /\ Mine \in PanelType
        /\ task[i].pc \in PcOf(task[i].kind) /\ SendGood(Mine, task[i])
        /\ task[i].kind \in {"ask", "again"}
        /\ \A card \in Mine.items \cup Mine.cur : card \in Card /\ \E row \in rows : Same(row, card)
        /\ Mine.cur = {} => Mine.chat = <<>> /\ Mine.dirty = {}
        /\ \A a, b \in Mine.cur : a = b
    BY <1>4, SendFacts
  <1>6. PICK pn : pn = [Mine EXCEPT !.busy = FALSE]
    OBVIOUS
  <1>7. panel' = [panel EXCEPT ![task[i].panel] = pn]
    <2>1. task[i].kind # "load" /\ task[i].kind \in Sends
      BY <1>5
    <2> QED
      BY <1>5, <1>6, <2>1 DEF Refused, SetPanel
  <1>8. /\ pn \in PanelType /\ pn.gen = Mine.gen /\ pn.busy = FALSE /\ pn.dirty = Mine.dirty
        /\ pn.chat = Mine.chat /\ pn.cur = Mine.cur /\ pn.items = Mine.items
        /\ pn.loading = Mine.loading
    BY <1>5, <1>6, BusyIs
  <1>9. Steps(i, pn, Over)
    BY <1>1, <1>2, <1>5, <1>7, <1>8, OverType DEF Steps, Moves
  <1>10. PanelGood(pn, rows)
    <2>1. task[i].pc \in {"create", "title", "prompt", "final"}
      BY <1>3, <1>5 DEF PcOf, InQueue, Creators, Derives
    <2>2. ASSUME NEW card \in Mine.cur
          PROVE  \/ Mine.dirty = {} /\ Mine.chat = card.msgs
                 \/ Mine.dirty = {[id |-> card.id, msgs |-> Mine.chat]} /\ Extends(Mine.chat, card)
      BY <1>5, <2>1, <2>2 DEF SendGood
    <2> QED
      BY <1>5, <1>8, <2>2 DEF PanelGood
  <1>11. OrderOK'
    BY <1>1, <1>4, <1>5, <1>8, <1>9, SendSteps
  <1>12. QueueOK' /\ calls' \in Seq(Nat)
    BY <1>1, <1>2, <1>9, OverType, QueueTail DEF InQueue
  <1>13. RowsOK' /\ Grow
    <2>1. Born \subseteq Born'
      BY <1>1, <1>9, TasksKept
    <2> QED
      BY <1>1, <1>2, <2>1, RowsStay, StayGrows
  <1>14. fails' \in 0..MaxFails
    <2>1. fails \in 0..MaxFails /\ (fails' = fails \/ (fails < MaxFails /\ fails' = fails + 1))
      BY <1>1 DEF Refused, Shape
    <2> QED
      BY <2>1, ConversationsAssumption
  <1>15. /\ rows' \in SUBSET Card /\ IsFiniteSet(rows')
         /\ \A card \in pn.items \cup pn.cur : \E row \in rows' : Same(row, card)
         /\ \A id \in Born : Shows(pn, id) => Shows(Mine, id)
         /\ PanelGood(pn, rows')
    BY <1>1, <1>2, <1>5, <1>8, <1>10 DEF Shape, Shows
  <1> QED
    BY <1>2, <1>4, <1>9, <1>11, <1>12, <1>13, <1>14, <1>15, SendRest

\* What a stream has.
LEMMA StreamFacts ==
  ASSUME ConvInv, NEW i \in Tasks, task[i].pc = "stream"
  PROVE  /\ IsSend(i)
         /\ \E card \in Mine.cur :
              /\ card.id = task[i].conv /\ Mine.dirty = {} /\ task[i].msgs = card.msgs
              /\ Asks(card.msgs, task[i].n) /\ Extends(card.msgs, card)
              /\ Mine.chat = card.msgs \/ Mine.chat = Append(card.msgs, AnswerOf(task[i]))
              /\ AnswerOf(task[i]) \in Message
              /\ Extends(Append(card.msgs, AnswerOf(task[i])), card)
              /\ Append(card.msgs, AnswerOf(task[i])) \in Seq(Message)
              /\ AnswerOf(task[i]) \in ToSet(Append(card.msgs, AnswerOf(task[i])))
  <1>1. RowsOK /\ TasksOK /\ Shape
    BY DEF ConvInv
  <1>2. IsSend(i)
    <2>1. Active(i) /\ task[i].pc \in PcOf(task[i].kind)
      BY <1>1 DEF Active, TasksOK, TaskOK
    <2> QED
      BY <2>1 DEF IsSend, PcOf, Creators, Derives, Sends
  <1>3. /\ SendGood(Mine, task[i]) /\ task[i].n \in 1..MaxSaid
        /\ \A card \in Mine.items \cup Mine.cur : card \in Card /\ \E row \in rows : Same(row, card)
    BY <1>2, SendFacts
  <1>4. PICK card \in Mine.cur :
          /\ card.id = task[i].conv /\ Mine.dirty = {} /\ task[i].msgs = card.msgs
          /\ Asks(card.msgs, task[i].n)
          /\ Mine.chat = card.msgs \/ Mine.chat = Append(card.msgs, AnswerOf(task[i]))
    BY <1>3 DEF SendGood
  <1>5. card \in Card /\ Ordered(card.msgs) /\ card.msgs \in Seq(Message) /\ card.id \in Convs
    BY <1>1, <1>3, <1>4, CopyOrdered DEF Card
  <1>6. PICK a : a = AnswerOf(task[i])
    OBVIOUS
  <1>7. a \in Message /\ a.of = card.id /\ a.n = task[i].n
    BY <1>3, <1>4, <1>5, <1>6 DEF AnswerOf, Message
  <1>8. Extends(card.msgs, card)
    BY <1>5, ExtendsItself
  <1>9. Append(card.msgs, a) \in Seq(Message) /\ Extends(Append(card.msgs, a), card)
    BY <1>4, <1>5, <1>7, <1>8, ExtendsAppend
  <1>10. a \in ToSet(Append(card.msgs, a))
    <2>1. /\ Len(card.msgs) + 1 \in DOMAIN Append(card.msgs, a)
          /\ Append(card.msgs, a)[Len(card.msgs) + 1] = a
      BY <1>5
    <2> QED
      BY <2>1 DEF ToSet
  <1> QED
    BY <1>2, <1>4, <1>6, <1>7, <1>8, <1>9, <1>10

\* An answer is given.
LEMMA AnswerKeep ==
  ASSUME ConvInv, NEW i \in Tasks, Answer(i) PROVE ConvInv' /\ Grow
  <1>1. /\ Shape /\ QueueOK /\ TasksOK /\ OrderOK /\ RowsOK /\ PanelOK
    BY DEF ConvInv
  <1>2. task[i].pc = "stream"
    BY DEF Answer, Has
  <1>3. IsSend(i)
    BY <1>2, StreamFacts
  <1>4. PICK card \in Mine.cur :
          /\ card.id = task[i].conv /\ Mine.dirty = {} /\ task[i].msgs = card.msgs
          /\ Asks(card.msgs, task[i].n)
          /\ Mine.chat = card.msgs \/ Mine.chat = Append(card.msgs, AnswerOf(task[i]))
          /\ Append(card.msgs, AnswerOf(task[i])) \in Seq(Message)
          /\ AnswerOf(task[i]) \in ToSet(Append(card.msgs, AnswerOf(task[i])))
    BY <1>2, StreamFacts
  <1>5. /\ task[i].panel = Mounted /\ P(i) = Mine /\ Mine \in PanelType /\ task[i] \in Task
        /\ task[i].pc \in PcOf(task[i].kind) /\ SendGood(Mine, task[i])
        /\ task[i].kind \in {"ask", "again"} /\ task[i].n \in 1..MaxSaid
        /\ \A c \in Mine.items \cup Mine.cur : c \in Card /\ \E row \in rows : Same(row, c)
        /\ Mine.busy = TRUE
    BY <1>3, SendFacts
  <1>6. /\ AnswerOf(task[i]) \notin ToSet(Mine.chat)
        /\ panel' = [panel EXCEPT ![task[i].panel] = [P(i) EXCEPT !.chat = Append(@, AnswerOf(task[i]))]]
        /\ scope' = scope /\ rows' = rows /\ task' = task /\ calls' = calls /\ given' = given
        /\ said' = said /\ fails' = fails
    BY <1>5 DEF Answer, AnswerOf, SetPanel
  <1>7. Mine.chat = card.msgs
    BY <1>4, <1>6
  <1>8. PICK pn : pn = [Mine EXCEPT !.chat = Append(card.msgs, AnswerOf(task[i]))]
    OBVIOUS
  <1>9. panel' = [panel EXCEPT ![task[i].panel] = pn]
    <2>1. [Mine EXCEPT !.chat = Append(@, AnswerOf(task[i]))] = pn
      BY <1>5, <1>7, <1>8 DEF PanelType, Panel
    <2> QED
      BY <1>5, <1>6, <2>1
  <1>10. /\ pn \in PanelType /\ pn.gen = Mine.gen /\ pn.busy = TRUE /\ pn.dirty = {}
         /\ pn.chat = Append(card.msgs, AnswerOf(task[i])) /\ pn.cur = Mine.cur
         /\ pn.items = Mine.items /\ pn.loading = Mine.loading
    BY <1>4, <1>5, <1>8 DEF PanelType, Panel, One
  <1>11. PICK t : t = task[i]
    OBVIOUS
  <1>12. Steps(i, pn, t)
    <2>1. task' = [task EXCEPT ![i] = t]
      <3>1. task \in Seq(Task) /\ i \in DOMAIN task
        BY <1>1, Places DEF Shape
      <3> QED
        BY <1>6, <1>11, <3>1
    <2> QED
      BY <1>5, <1>6, <1>9, <1>10, <1>11, <2>1 DEF Steps, Moves
  <1>13. Continues(task[i], t) /\ t.kind \in Sends
    <2>1. task[i].kind \in Sends
      BY <1>3 DEF IsSend
    <2> QED
      BY <1>2, <1>5, <1>11, <2>1 DEF Continues
  <1>14. SendGood(pn, t)
    <2>1. t.n >= 1 /\ t.pc = "stream"
      BY <1>2, <1>5, <1>11, ConversationsAssumption
    <2> QED
      BY <1>4, <1>10, <1>11, <2>1 DEF SendGood
  <1>15. OrderOK'
    BY <1>1, <1>2, <1>3, <1>5, <1>10, <1>11, <1>12, <1>13, SendSteps
  <1>16. QueueOK' /\ calls' \in Seq(Nat)
    BY <1>1, <1>6, <1>11, <1>12, QueueSame
  <1>17. RowsOK' /\ Grow
    <2>1. Born \subseteq Born'
      BY <1>1, <1>12, <1>13, TasksKept
    <2> QED
      BY <1>1, <1>6, <2>1, RowsStay, StayGrows
  <1>18. /\ rows' \in SUBSET Card /\ IsFiniteSet(rows') /\ fails' \in 0..MaxFails
         /\ \A c \in pn.items \cup pn.cur : \E row \in rows' : Same(row, c)
         /\ \A id \in Born : Shows(pn, id) => Shows(Mine, id)
    BY <1>1, <1>5, <1>6, <1>10 DEF Shape, Shows
  <1> QED
    BY <1>3, <1>6, <1>12, <1>13, <1>14, <1>15, <1>16, <1>17, <1>18, SendRest

\* A stream ends.
LEMMA StreamEndsKeep ==
  ASSUME ConvInv, NEW i \in Tasks, StreamEnds(i) PROVE ConvInv' /\ Grow
  <1>1. /\ Shape /\ QueueOK /\ TasksOK /\ OrderOK /\ RowsOK /\ PanelOK
    BY DEF ConvInv
  <1>2. task[i].pc = "stream"
    BY DEF StreamEnds, Has
  <1>3. IsSend(i)
    BY <1>2, StreamFacts
  <1>4. PICK card \in Mine.cur :
          /\ card.id = task[i].conv /\ Mine.dirty = {}
          /\ Mine.chat = card.msgs \/ Mine.chat = Append(card.msgs, AnswerOf(task[i]))
          /\ Extends(card.msgs, card)
          /\ Extends(Append(card.msgs, AnswerOf(task[i])), card)
    BY <1>2, StreamFacts
  <1>5. /\ task[i].panel = Mounted /\ P(i) = Mine /\ Mine \in PanelType /\ task[i] \in Task
        /\ task[i].kind \in {"ask", "again"} /\ task[i].n \in 1..MaxSaid
        /\ \A c \in Mine.items \cup Mine.cur : c \in Card /\ \E row \in rows : Same(row, c)
        /\ Mine.busy = TRUE
    BY <1>3, SendFacts
  <1>6. Extends(Mine.chat, card) /\ card.id \in Convs /\ Mine.chat \in Seq(Message)
    BY <1>4, <1>5 DEF PanelType, Panel, Card
  <1>7. PICK pn : pn = Dirtied(Mine, task[i].conv, Mine.chat)
    OBVIOUS
  <1>8. PICK t : t = [[task[i] EXCEPT !.msgs = Mine.chat] EXCEPT !.pc = "final"]
    OBVIOUS
  <1>9. /\ panel' = [panel EXCEPT ![task[i].panel] = pn] /\ task' = [task EXCEPT ![i] = t]
        /\ calls' = Append(calls, i)
        /\ scope' = scope /\ rows' = rows /\ given' = given /\ said' = said /\ fails' = fails
    BY <1>5, <1>7, <1>8 DEF StreamEnds, SetPanel, SetTask
  <1>10. /\ pn \in PanelType /\ pn.gen = Mine.gen /\ pn.busy = TRUE /\ pn.chat = Mine.chat
         /\ pn.cur = Mine.cur /\ pn.items = Mine.items /\ pn.loading = Mine.loading
         /\ pn.dirty = {[id |-> card.id, msgs |-> Mine.chat]}
    BY <1>4, <1>5, <1>6, <1>7, DirtiedIs
  <1>11. /\ t \in Task /\ t.pc = "final" /\ t.kind = task[i].kind /\ t.panel = task[i].panel
         /\ t.token = task[i].token /\ t.scope = task[i].scope /\ t.conv = task[i].conv
         /\ t.n = task[i].n /\ t.msgs = Mine.chat
    BY <1>5, <1>6, <1>8 DEF Task, InQueue
  <1>12. Steps(i, pn, t)
    BY <1>5, <1>9, <1>10, <1>11 DEF Steps, Moves
  <1>13. Continues(task[i], t) /\ t.kind \in Sends /\ t.pc # "done"
    <2>1. task[i].kind \in Sends /\ "final" \in PcOf(task[i].kind)
      BY <1>3, <1>5 DEF IsSend, PcOf, Creators, Derives
    <2> QED
      BY <1>2, <1>11, <2>1 DEF Continues
  <1>14. SendGood(pn, t)
    <2>1. t.n >= 1 /\ t.pc = "final"
      BY <1>5, <1>11, ConversationsAssumption
    <2> QED
      BY <1>4, <1>6, <1>10, <1>11, <2>1 DEF SendGood
  <1>15. OrderOK'
    BY <1>1, <1>3, <1>5, <1>10, <1>11, <1>12, <1>13, SendSteps
  <1>16. QueueOK' /\ calls' \in Seq(Nat)
    BY <1>1, <1>2, <1>9, <1>11, <1>12, QueueAppend DEF InQueue
  <1>17. RowsOK' /\ Grow
    <2>1. Born \subseteq Born'
      BY <1>1, <1>12, <1>13, TasksKept
    <2> QED
      BY <1>1, <1>9, <2>1, RowsStay, StayGrows
  <1>18. /\ rows' \in SUBSET Card /\ IsFiniteSet(rows') /\ fails' \in 0..MaxFails
         /\ \A c \in pn.items \cup pn.cur : \E row \in rows' : Same(row, c)
         /\ \A id \in Born : Shows(pn, id) => Shows(Mine, id)
    BY <1>1, <1>5, <1>9, <1>10 DEF Shape, Shows
  <1> QED
    BY <1>3, <1>9, <1>12, <1>13, <1>14, <1>15, <1>16, <1>17, <1>18, SendRest

\* A save of a send is answered: what was to be saved is stored.
LEMMA SendSaved ==
  ASSUME ConvInv, NEW i \in Tasks, IsSend(i), task[i].pc \in {"prompt", "final"},
         Born \subseteq Born', rows' = WithMessages(rows, task[i].conv, task[i].msgs)
  PROVE  LET cn == Cleaned(Mine, task[i].conv, task[i].msgs) IN
           /\ cn \in PanelType /\ cn.gen = Mine.gen /\ cn.loading = Mine.loading
           /\ cn.busy = Mine.busy /\ cn.chat = Mine.chat /\ cn.dirty = {}
           /\ task[i].msgs = Mine.chat /\ task[i].conv \in Convs
           /\ \E card \in cn.cur : card.id = task[i].conv /\ card.msgs = Mine.chat /\ cn.cur = {card}
           /\ RowsOK' /\ Grow /\ rows' \in SUBSET Card /\ IsFiniteSet(rows')
           /\ \A card \in cn.items \cup cn.cur : \E row \in rows' : Same(row, card)
           /\ \A id : Shows(cn, id) => Shows(Mine, id)
           /\ task[i].pc = "prompt" => Asks(Mine.chat, task[i].n)
  <1>1. Shape /\ RowsOK
    BY DEF ConvInv
  <1>2. /\ Mine \in PanelType /\ SendGood(Mine, task[i]) /\ task[i].msgs \in Seq(Message)
        /\ \A card \in Mine.items \cup Mine.cur : card \in Card /\ \E row \in rows : Same(row, card)
    BY SendFacts
  <1>3. PICK card \in Mine.cur :
          /\ card.id = task[i].conv /\ Mine.dirty = {[id |-> card.id, msgs |-> Mine.chat]}
          /\ task[i].msgs = Mine.chat /\ Extends(Mine.chat, card)
          /\ task[i].pc = "prompt" => Asks(Mine.chat, task[i].n)
    BY <1>2 DEF SendGood
  <1>4. PICK id, msgs : id = task[i].conv /\ msgs = task[i].msgs
    OBVIOUS
  <1>5. id \in Convs /\ msgs \in Seq(Message) /\ id = card.id /\ msgs = Mine.chat
    BY <1>2, <1>3, <1>4 DEF Card
  <1>6. \A row \in rows : row.id = id => Extends(msgs, row)
    <2>1. PICK r \in rows : Same(r, card)
      BY <1>2, <1>3
    <2>2. \A row \in rows : row.id = id => row.id = card.id /\ row.msgs = card.msgs
      BY <1>1, <1>5, <2>1 DEF RowsOK, Same
    <2> QED
      BY <1>3, <1>5, <2>2 DEF Extends
  <1>7. /\ RowsOK' /\ Grow /\ rows' \in SUBSET Card /\ IsFiniteSet(rows')
        /\ \A row \in rows : \E then \in rows' :
              /\ then.id = row.id /\ then.draft = row.draft
              /\ then.msgs = IF row.id = id THEN msgs ELSE row.msgs
    <2>1. rows' = WithMessages(rows, id, msgs)
      BY <1>4
    <2> QED
      BY <1>1, <1>5, <1>6, <2>1, RowsSaved
  <1>8. PICK cn : cn = Cleaned(Mine, id, msgs)
    OBVIOUS
  <1>9. /\ cn \in PanelType /\ cn.gen = Mine.gen /\ cn.loading = Mine.loading /\ cn.busy = Mine.busy
        /\ cn.chat = Mine.chat /\ cn.dirty = {}
        /\ \A c \in cn.items : \E other \in Mine.items :
             /\ c.id = other.id /\ c.draft = other.draft
             /\ c.msgs = IF other.id = id THEN msgs ELSE other.msgs
        /\ \A c \in cn.cur : \E other \in Mine.cur :
             /\ c.id = other.id /\ c.draft = other.draft
             /\ c.msgs = IF other.id = id THEN msgs ELSE other.msgs
        /\ \A other \in Mine.cur : \E c \in cn.cur :
             c.id = other.id /\ c.msgs = IF other.id = id THEN msgs ELSE other.msgs
    <2>1. Mine.dirty = {[id |-> id, msgs |-> msgs]}
      BY <1>3, <1>5
    <2>2. PICK mine : mine = Mine
      OBVIOUS
    <2>3. mine \in PanelType /\ mine.dirty = {[id |-> id, msgs |-> msgs]} /\ cn = Cleaned(mine, id, msgs)
      BY <1>2, <1>8, <2>1, <2>2
    <2> QED
      BY <1>5, <2>2, <2>3, PanelSaved
  <1>10. PICK c \in cn.cur : c.id = id /\ c.msgs = msgs
    BY <1>3, <1>5, <1>9
  <1>11. cn.cur = {c}
    BY <1>9, <1>10 DEF PanelType, One
  <1>12. \A x \in cn.items \cup cn.cur : \E row \in rows' : Same(row, x)
    <2>1. ASSUME NEW x \in cn.items \cup cn.cur PROVE \E row \in rows' : Same(row, x)
      <3>1. PICK other \in Mine.items \cup Mine.cur :
              /\ x.id = other.id /\ x.draft = other.draft
              /\ x.msgs = IF other.id = id THEN msgs ELSE other.msgs
        BY <1>9, <2>1
      <3>2. PICK row \in rows : Same(row, other)
        BY <1>2
      <3>3. PICK then \in rows' :
              /\ then.id = row.id /\ then.draft = row.draft
              /\ then.msgs = IF row.id = id THEN msgs ELSE row.msgs
        BY <1>7
      <3> QED
        BY <3>1, <3>2, <3>3 DEF Same
    <2> QED
      BY <2>1
  <1>13. \A x : Shows(cn, x) => Shows(Mine, x)
    BY <1>9 DEF Shows
  <1> QED
    BY <1>3, <1>4, <1>5, <1>7, <1>8, <1>9, <1>10, <1>11, <1>12, <1>13

\* The last save of a send is answered.
LEMMA FinalSavedKeep ==
  ASSUME ConvInv, NEW i \in Tasks, FinalSaved(i) PROVE ConvInv' /\ Grow
  <1>1. /\ Shape /\ QueueOK /\ TasksOK /\ OrderOK /\ RowsOK /\ PanelOK
    BY DEF ConvInv
  <1>2. task[i].pc = "final" /\ calls # <<>> /\ i = Head(calls)
    BY DEF FinalSaved, Answers, Asked
  <1>3. IsSend(i)
    <2>1. Active(i) /\ task[i].pc \in PcOf(task[i].kind)
      BY <1>1, <1>2 DEF Active, TasksOK, TaskOK
    <2> QED
      BY <1>2, <2>1 DEF IsSend, PcOf, Creators, Derives, Sends
  <1>4. task[i].panel = Mounted /\ P(i) = Mine /\ Mine \in PanelType
    BY <1>3, SendFacts
  <1>5. PICK cn : cn = Cleaned(Mine, task[i].conv, task[i].msgs)
    OBVIOUS
  <1>6. PICK pn : pn = [cn EXCEPT !.busy = FALSE]
    OBVIOUS
  <1>7. /\ panel' = [panel EXCEPT ![task[i].panel] = pn] /\ task' = [task EXCEPT ![i] = Over]
        /\ rows' = WithMessages(rows, task[i].conv, task[i].msgs)
        /\ calls' = Tail(calls) /\ scope' = scope /\ given' = given /\ said' = said /\ fails' = fails
    BY <1>2, <1>4, <1>5, <1>6 DEF FinalSaved, Answers, SetPanel, End, Row
  <1>8. cn \in PanelType /\ cn.gen = Mine.gen /\ cn.loading = Mine.loading
    <2>1. task[i].conv \in Convs /\ task[i].msgs \in Seq(Message)
      <3>1. /\ SendGood(Mine, task[i]) /\ task[i].msgs \in Seq(Message)
            /\ \A card \in Mine.items \cup Mine.cur : card \in Card /\ \E row \in rows : Same(row, card)
        BY <1>3, SendFacts
      <3>2. PICK card \in Mine.cur : card.id = task[i].conv
        BY <1>2, <3>1 DEF SendGood
      <3> QED
        BY <3>1, <3>2 DEF Card
    <2> QED
      BY <1>4, <1>5, <2>1, CleanedIs
  <1>9. /\ pn \in PanelType /\ pn.gen = Mine.gen /\ pn.busy = FALSE /\ pn.dirty = cn.dirty
        /\ pn.chat = cn.chat /\ pn.cur = cn.cur /\ pn.items = cn.items /\ pn.loading = Mine.loading
    BY <1>6, <1>8, BusyIs
  <1>10. Steps(i, pn, Over)
    BY <1>1, <1>4, <1>7, <1>9, OverType DEF Steps, Moves
  <1>11. Born \subseteq Born'
    BY <1>1, <1>10, TasksKept
  <1>12. /\ cn.chat = Mine.chat /\ cn.dirty = {}
         /\ \E card \in cn.cur : card.msgs = Mine.chat /\ cn.cur = {card}
         /\ RowsOK' /\ Grow /\ rows' \in SUBSET Card /\ IsFiniteSet(rows')
         /\ \A card \in cn.items \cup cn.cur : \E row \in rows' : Same(row, card)
         /\ \A id : Shows(cn, id) => Shows(Mine, id)
    BY <1>2, <1>3, <1>5, <1>7, <1>11, SendSaved
  <1>13. /\ PanelGood(pn, rows')
         /\ \A card \in pn.items \cup pn.cur : \E row \in rows' : Same(row, card)
         /\ \A id \in Born : Shows(pn, id) => Shows(Mine, id)
    BY <1>9, <1>12 DEF PanelGood, Shows
  <1>14. OrderOK'
    BY <1>1, <1>3, <1>4, <1>9, <1>10, SendSteps
  <1>15. QueueOK' /\ calls' \in Seq(Nat)
    BY <1>1, <1>2, <1>7, <1>10, OverType, QueueTail DEF InQueue
  <1>16. fails' \in 0..MaxFails
    BY <1>1, <1>7 DEF Shape
  <1> QED
    BY <1>3, <1>7, <1>10, <1>12, <1>13, <1>14, <1>15, <1>16, SendRest

\* The save of a prompt is answered.
LEMMA PromptSavedKeep ==
  ASSUME ConvInv, NEW i \in Tasks, PromptSaved(i) PROVE ConvInv' /\ Grow
  <1>1. /\ Shape /\ QueueOK /\ TasksOK /\ OrderOK /\ RowsOK /\ PanelOK
    BY DEF ConvInv
  <1>2. task[i].pc = "prompt" /\ calls # <<>> /\ i = Head(calls)
    BY DEF PromptSaved, Asked
  <1>3. IsSend(i)
    <2>1. Active(i) /\ task[i].pc \in PcOf(task[i].kind)
      BY <1>1, <1>2 DEF Active, TasksOK, TaskOK
    <2> QED
      BY <1>2, <2>1 DEF IsSend, PcOf, Creators, Derives, Sends
  <1>4. /\ task[i].panel = Mounted /\ P(i) = Mine /\ Mine \in PanelType /\ Mine.busy = TRUE
        /\ task[i] \in Task /\ task[i].kind \in Sends /\ task[i].n \in 1..MaxSaid
        /\ {"stream", "final"} \subseteq PcOf(task[i].kind)
    <2>1. /\ task[i].panel = Mounted /\ P(i) = Mine /\ Mine \in PanelType /\ Mine.busy = TRUE
          /\ task[i] \in Task /\ task[i].n \in 1..MaxSaid /\ task[i].kind \in {"ask", "again"}
      BY <1>3, SendFacts
    <2> QED
      BY <1>3, <2>1 DEF IsSend, PcOf, Creators, Derives
  <1>5. PICK cn : cn = Cleaned(Mine, task[i].conv, task[i].msgs)
    OBVIOUS
  <1>6. /\ rows' = WithMessages(rows, task[i].conv, task[i].msgs)
        /\ scope' = scope /\ given' = given /\ said' = said /\ fails' = fails
        /\ \/ /\ panel' = [panel EXCEPT ![task[i].panel] = cn]
              /\ task' = [task EXCEPT ![i] = [task[i] EXCEPT !.pc = "stream"]]
              /\ calls' = Tail(calls)
           \/ /\ panel' = [panel EXCEPT ![task[i].panel] = Dirtied(cn, task[i].conv, cn.chat)]
              /\ task' = [task EXCEPT ![i] = [[task[i] EXCEPT !.msgs = cn.chat] EXCEPT !.pc = "final"]]
              /\ calls' = Append(Tail(calls), i)
    BY <1>2, <1>4, <1>5 DEF PromptSaved, SetPanel, SetTask, Row
  <1>7. /\ task[i].conv \in Convs /\ task[i].msgs \in Seq(Message)
        /\ cn \in PanelType /\ cn.gen = Mine.gen /\ cn.loading = Mine.loading
        /\ cn.busy = TRUE /\ cn.chat = Mine.chat /\ cn.chat \in Seq(Message)
    <2>1. /\ SendGood(Mine, task[i]) /\ task[i].msgs \in Seq(Message)
          /\ \A card \in Mine.items \cup Mine.cur : card \in Card /\ \E row \in rows : Same(row, card)
      BY <1>3, SendFacts
    <2>2. PICK card \in Mine.cur : card.id = task[i].conv
      BY <1>2, <2>1 DEF SendGood
    <2>3. task[i].conv \in Convs /\ task[i].msgs \in Seq(Message)
      BY <2>1, <2>2 DEF Card
    <2>4. /\ cn \in PanelType /\ cn.gen = Mine.gen /\ cn.loading = Mine.loading
          /\ cn.busy = Mine.busy /\ cn.chat = Mine.chat
      <3>1. PICK mine, id, msgs : mine = Mine /\ id = task[i].conv /\ msgs = task[i].msgs
        OBVIOUS
      <3>2. mine \in PanelType /\ id \in Convs /\ msgs \in Seq(Message) /\ cn = Cleaned(mine, id, msgs)
        BY <1>4, <1>5, <2>3, <3>1
      <3>3. /\ Cleaned(mine, id, msgs) \in PanelType /\ Cleaned(mine, id, msgs).gen = mine.gen
            /\ Cleaned(mine, id, msgs).loading = mine.loading
            /\ Cleaned(mine, id, msgs).busy = mine.busy /\ Cleaned(mine, id, msgs).chat = mine.chat
        BY <3>2, CleanedLeaves
      <3> QED
        BY <3>1, <3>2, <3>3
    <2> QED
      BY <1>4, <2>3, <2>4 DEF PanelType, Panel
  \* What the answer does to the panel and to the task.
  <1> DEFINE Given(pn, t) ==
        /\ Steps(i, pn, t) /\ Continues(task[i], t) /\ t.kind \in Sends
        /\ pn.busy = TRUE /\ pn.loading = Mine.loading
        /\ pn.cur = cn.cur /\ pn.items = cn.items /\ pn.chat = cn.chat
        /\ t.n = task[i].n /\ t.conv = task[i].conv /\ t.panel = task[i].panel
        /\ \/ /\ t.pc = "stream" /\ t.msgs = task[i].msgs /\ calls' = Tail(calls)
              /\ pn = cn
           \/ /\ t.pc = "final" /\ t.msgs = cn.chat /\ calls' = Append(Tail(calls), i)
              /\ cn.dirty = {} => pn.dirty = {[id |-> task[i].conv, msgs |-> cn.chat]}
  <1>8. \E pn, t : Given(pn, t)
    <2>1. CASE /\ panel' = [panel EXCEPT ![task[i].panel] = cn]
               /\ task' = [task EXCEPT ![i] = [task[i] EXCEPT !.pc = "stream"]]
               /\ calls' = Tail(calls)
      <3>1. PICK t : t = [task[i] EXCEPT !.pc = "stream"]
        OBVIOUS
      <3>2. /\ t \in Task /\ t.pc = "stream" /\ t.kind = task[i].kind /\ t.panel = task[i].panel
            /\ t.token = task[i].token /\ t.scope = task[i].scope /\ t.conv = task[i].conv
            /\ t.n = task[i].n /\ t.msgs = task[i].msgs
        BY <1>4, <3>1 DEF Task
      <3>3. Steps(i, cn, t)
        BY <1>4, <1>6, <1>7, <2>1, <3>1, <3>2 DEF Steps, Moves
      <3>4. Continues(task[i], t)
        BY <1>2, <1>4, <3>2 DEF Continues
      <3>5. Given(cn, t)
        BY <1>4, <1>7, <2>1, <3>2, <3>3, <3>4
      <3> QED
        BY <3>5
    <2>2. CASE /\ panel' = [panel EXCEPT ![task[i].panel] = Dirtied(cn, task[i].conv, cn.chat)]
               /\ task' = [task EXCEPT ![i] = [[task[i] EXCEPT !.msgs = cn.chat] EXCEPT !.pc = "final"]]
               /\ calls' = Append(Tail(calls), i)
      <3>1. PICK t : t = [[task[i] EXCEPT !.msgs = cn.chat] EXCEPT !.pc = "final"]
        OBVIOUS
      <3>2. /\ t \in Task /\ t.pc = "final" /\ t.kind = task[i].kind /\ t.panel = task[i].panel
            /\ t.token = task[i].token /\ t.scope = task[i].scope /\ t.conv = task[i].conv
            /\ t.n = task[i].n /\ t.msgs = cn.chat
        BY <1>4, <1>7, <3>1 DEF Task, InQueue
      <3>3. PICK pn : pn = Dirtied(cn, task[i].conv, cn.chat)
        OBVIOUS
      <3>4. /\ pn \in PanelType /\ pn.gen = Mine.gen /\ pn.busy = TRUE /\ pn.chat = cn.chat
            /\ pn.cur = cn.cur /\ pn.items = cn.items /\ pn.loading = Mine.loading
            /\ cn.dirty = {} => pn.dirty = {[id |-> task[i].conv, msgs |-> cn.chat]}
        BY <1>7, <3>3, DirtiedIs
      <3>5. Steps(i, pn, t)
        BY <1>4, <1>6, <1>7, <2>2, <3>1, <3>2, <3>3, <3>4 DEF Steps, Moves
      <3>6. Continues(task[i], t)
        BY <1>2, <1>4, <3>2 DEF Continues
      <3>7. Given(pn, t)
        BY <1>4, <1>7, <2>2, <3>2, <3>4, <3>5, <3>6
      <3> QED
        BY <3>7
    <2> QED
      BY <1>6, <2>1, <2>2
  <1>9. PICK pn, t : Given(pn, t)
    BY <1>8
  <1>10. /\ Steps(i, pn, t) /\ Continues(task[i], t) /\ t.kind \in Sends
         /\ pn.busy = TRUE /\ pn.loading = Mine.loading
         /\ pn.cur = cn.cur /\ pn.items = cn.items /\ pn.chat = cn.chat
         /\ t.n = task[i].n /\ t.conv = task[i].conv /\ t.panel = task[i].panel
         /\ \/ /\ t.pc = "stream" /\ t.msgs = task[i].msgs /\ calls' = Tail(calls)
               /\ pn = cn
            \/ /\ t.pc = "final" /\ t.msgs = cn.chat /\ calls' = Append(Tail(calls), i)
               /\ cn.dirty = {} => pn.dirty = {[id |-> task[i].conv, msgs |-> cn.chat]}
    BY <1>9
  <1> HIDE DEF Given
  <1>11. Born \subseteq Born'
    BY <1>1, <1>10, TasksKept
  <1>12. /\ cn.dirty = {} /\ task[i].msgs = Mine.chat
         /\ \E card \in cn.cur : card.id = task[i].conv /\ card.msgs = Mine.chat /\ cn.cur = {card}
         /\ RowsOK' /\ Grow /\ rows' \in SUBSET Card /\ IsFiniteSet(rows')
         /\ \A card \in cn.items \cup cn.cur : \E row \in rows' : Same(row, card)
         /\ \A id : Shows(cn, id) => Shows(Mine, id)
         /\ Asks(Mine.chat, task[i].n)
    BY <1>2, <1>3, <1>5, <1>6, <1>11, SendSaved
  <1>13. SendGood(pn, t)
    <2>1. PICK card \in cn.cur : card.id = task[i].conv /\ card.msgs = Mine.chat
      BY <1>12
    <2>2. Extends(Mine.chat, card)
      <3>1. card \in Card /\ Ordered(card.msgs)
        BY <1>7, <1>12, <2>1 DEF PanelType, Panel, RowsOK, RowOK, Same
      <3> QED
        BY <2>1, <3>1, ExtendsItself
    <2>3. t.n >= 1
      BY <1>4, <1>10, ConversationsAssumption
    <2> QED
      BY <1>7, <1>10, <1>12, <2>1, <2>2, <2>3 DEF SendGood
  <1>14. /\ \A card \in pn.items \cup pn.cur : \E row \in rows' : Same(row, card)
         /\ \A id \in Born : Shows(pn, id) => Shows(Mine, id)
    BY <1>10, <1>12 DEF Shows
  <1>15. OrderOK'
    BY <1>1, <1>3, <1>4, <1>10, SendSteps
  <1>16. QueueOK' /\ calls' \in Seq(Nat)
    <2>1. CASE t.pc = "stream" /\ calls' = Tail(calls)
      BY <1>1, <1>2, <1>10, <2>1, QueueTail DEF InQueue
    <2>2. CASE t.pc = "final" /\ calls' = Append(Tail(calls), i)
      BY <1>1, <1>2, <1>10, <2>2, QueueAgain DEF InQueue
    <2> QED
      BY <1>10, <2>1, <2>2
  <1>17. fails' \in 0..MaxFails
    BY <1>1, <1>6 DEF Shape
  <1> QED
    BY <1>3, <1>6, <1>10, <1>12, <1>13, <1>14, <1>15, <1>16, <1>17, SendRest

\* A prompt is added and saved.
LEMMA PromptsIs ==
  ASSUME ConvInv, NEW i \in Tasks, calls # <<>>, i = Head(calls),
         NEW pn \in PanelType, pn.gen = P(i).gen, pn.dirty = {},
         NEW card \in pn.cur, card.id = task[i].conv, card.id \in Convs, task[i].n \in 1..MaxSaid,
         pn.chat = card.msgs, Ordered(card.msgs),
         task[i].kind \in {"ask", "edit"}, NEW t \in Task, t.kind = "ask",
         t.panel = task[i].panel, t.token = task[i].token, t.scope = task[i].scope,
         t.conv = task[i].conv, t.n = task[i].n,
         Prompts(i, pn, t), scope' = scope, given' = given
  PROVE  \E an, st :
           /\ Steps(i, an, st) /\ Continues(task[i], st) /\ st.kind \in Sends /\ st.pc = "prompt"
           /\ st.panel = task[i].panel /\ SendGood(an, st)
           /\ an.busy = pn.busy /\ an.loading = pn.loading /\ an.cur = pn.cur /\ an.items = pn.items
           /\ QueueOK' /\ calls' \in Seq(Nat)
  <1>1. Shape /\ QueueOK /\ TasksOK
    BY DEF ConvInv
  <1>2. task[i] \in Task /\ task[i].pc \in InQueue
    BY <1>1, Places, AtHead
  <1>3. t.n \in 1..MaxSaid /\ t.conv \in Convs /\ card.id = t.conv
    OBVIOUS
  <1>4. PICK an, st : an = Asking(pn, t) /\ st = Prompted(pn, t)
    OBVIOUS
  <1>5. /\ an \in PanelType /\ an.gen = pn.gen /\ an.loading = pn.loading /\ an.busy = pn.busy
        /\ an.cur = pn.cur /\ an.items = pn.items
        /\ st \in Task /\ st.pc = "prompt" /\ st.kind = t.kind /\ st.panel = t.panel
        /\ st.token = t.token /\ st.scope = t.scope /\ st.conv = t.conv /\ st.n = t.n
        /\ SendGood(an, st)
    BY <1>3, <1>4, AskingIs
  <1>6. /\ panel' = [panel EXCEPT ![task[i].panel] = an] /\ task' = [task EXCEPT ![i] = st]
        /\ calls' = Append(Tail(calls), i)
    BY <1>4 DEF Prompts, SetPanel, SetTask, Prompted
  <1>7. Steps(i, an, st)
    BY <1>5, <1>6 DEF Steps, Moves
  <1>8. Continues(task[i], st)
    <2>1. "prompt" \in PcOf("ask") /\ task[i].pc # "done" /\ task[i].kind \in Sends \cup Derives
      BY <1>2 DEF PcOf, Creators, Derives, InQueue, Sends
    <2> QED
      BY <1>3, <1>5, <2>1 DEF Continues, Sends
  <1>9. QueueOK' /\ calls' \in Seq(Nat)
    BY <1>1, <1>5, <1>6, <1>7, QueueAgain DEF InQueue
  <1> QED
    BY <1>3, <1>5, <1>7, <1>8, <1>9 DEF Sends

\* A send whose target changed ends before its prompt is added.
LEMMA GivesUpIs ==
  ASSUME ConvInv, NEW i \in Tasks, IsSend(i), task[i].pc \in {"create", "title"},
         calls # <<>>, i = Head(calls), GivesUp(i, P(i)), scope' = scope, given' = given
  PROVE  \E pn :
           /\ Steps(i, pn, Over) /\ OrderOK' /\ QueueOK' /\ calls' \in Seq(Nat)
           /\ pn.dirty = {} /\ pn.cur = Mine.cur /\ pn.items = Mine.items /\ pn.chat = Mine.chat
           /\ \A card \in Mine.cur : Mine.chat = card.msgs
           /\ Mine.cur = {} => Mine.chat = <<>>
  <1>1. /\ Shape /\ QueueOK /\ TasksOK /\ OrderOK
    BY DEF ConvInv
  <1>2. /\ task[i].panel = Mounted /\ P(i) = Mine /\ Mine \in PanelType /\ SendGood(Mine, task[i])
        /\ Mine.cur = {} => Mine.chat = <<>> /\ Mine.dirty = {}
        /\ \A a, b \in Mine.cur : a = b
    BY SendFacts
  <1>3. PICK pn : pn = [Mine EXCEPT !.busy = FALSE]
    OBVIOUS
  <1>4. /\ panel' = [panel EXCEPT ![task[i].panel] = pn] /\ task' = [task EXCEPT ![i] = Over]
        /\ calls' = Tail(calls)
    BY <1>2, <1>3 DEF GivesUp, SetPanel, End
  <1>5. /\ pn \in PanelType /\ pn.gen = Mine.gen /\ pn.busy = FALSE /\ pn.dirty = Mine.dirty
        /\ pn.chat = Mine.chat /\ pn.cur = Mine.cur /\ pn.items = Mine.items
        /\ pn.loading = Mine.loading
    BY <1>2, <1>3, BusyIs
  <1>6. Steps(i, pn, Over)
    BY <1>1, <1>2, <1>4, <1>5, OverType DEF Steps, Moves
  <1>7. OrderOK'
    BY <1>1, <1>2, <1>5, <1>6, SendSteps
  <1>8. QueueOK' /\ calls' \in Seq(Nat)
    BY <1>1, <1>4, <1>6, OverType, QueueTail DEF InQueue
  <1>9. Mine.dirty = {} /\ \A card \in Mine.cur : Mine.chat = card.msgs
    BY <1>2 DEF SendGood
  <1> QED
    BY <1>2, <1>5, <1>6, <1>7, <1>8, <1>9

\* The rows when a conversation is titled.
LEMMA RowsTitled ==
  ASSUME Shape, RowsOK, NEW id \in Ids(rows), Born \subseteq Born',
         rows' = Upsert(rows, Titled(CardOf(rows, id)))
  PROVE  /\ RowsOK' /\ Keeps /\ Grow /\ rows' \in SUBSET Card /\ IsFiniteSet(rows')
  <1>1. PICK r \in rows : r = CardOf(rows, id) /\ r.id = id
    BY RowOf
  <1>2. rows \in SUBSET Card /\ IsFiniteSet(rows) /\ \A a, b \in rows : a.id = b.id => a = b
    BY DEF Shape, RowsOK
  <1>3. PICK a : a = Titled(r)
    OBVIOUS
  <1>4. a \in Card /\ Same(a, r) /\ a.copied = r.copied /\ a.id = r.id
    BY <1>2, <1>3 DEF Titled, Card, Same
  <1>5. rows' = {other \in rows : other.id # a.id} \cup {a}
    BY <1>1, <1>3 DEF Upsert
  <1>6. /\ rows' \in SUBSET Card
        /\ \A then \in rows' : \E row \in rows : Same(then, row) /\ then.copied = row.copied
        /\ \A row \in rows : \E then \in rows' : Same(then, row)
        /\ \A x, y \in rows' : x.id = y.id => x = y
    BY <1>2, <1>4, <1>5 DEF Same
  <1>7. IsFiniteSet(rows')
    BY <1>2, <1>6, RowsFinite DEF Same
  <1> QED
    BY <1>6, <1>7, RowsSame

\* A conversation is titled before its first prompt.
LEMMA TitlesKeep ==
  ASSUME ConvInv, NEW i \in Tasks, Titles(i) PROVE ConvInv' /\ Grow
  <1>1. /\ Shape /\ QueueOK /\ TasksOK /\ OrderOK /\ RowsOK /\ PanelOK
    BY DEF ConvInv
  <1>2. task[i].pc = "title" /\ calls # <<>> /\ i = Head(calls)
    BY DEF Titles, Asked
  <1>3. IsSend(i) /\ task[i].kind = "ask"
    <2>1. Active(i) /\ task[i].pc \in PcOf(task[i].kind)
      BY <1>1, <1>2 DEF Active, TasksOK, TaskOK
    <2> QED
      BY <1>2, <2>1 DEF IsSend, PcOf, Creators, Derives, Sends
  <1>4. /\ task[i].panel = Mounted /\ P(i) = Mine /\ Mine \in PanelType /\ Mine.busy = TRUE
        /\ task[i] \in Task /\ task[i].n \in 1..MaxSaid /\ SendGood(Mine, task[i])
        /\ \A card \in Mine.items \cup Mine.cur : card \in Card /\ \E row \in rows : Same(row, card)
        /\ \A a, b \in Mine.cur : a = b
    BY <1>3, SendFacts
  <1>5. PICK card \in Mine.cur : /\ card.id = task[i].conv /\ Mine.dirty = {}
                                 /\ Mine.chat = <<>> /\ card.msgs = <<>>
    BY <1>2, <1>4 DEF SendGood
  <1>6. PICK c : c = Titled(card)
    OBVIOUS
  <1>7. /\ card \in Card /\ Mine.cur = {card} /\ card.id \in Convs
        /\ c \in Card /\ c.id = card.id /\ c.draft = card.draft /\ c.msgs = card.msgs
    <2>1. card \in Card /\ Mine.cur = {card}
      BY <1>4, <1>5
    <2> QED
      BY <1>6, <2>1 DEF Titled, Card
  <1>8. CardOf(Mine.cur, task[i].conv) = card
    BY <1>5, <1>7 DEF CardOf
  <1>9. /\ task[i].conv \in Ids(rows)
        /\ rows' = Upsert(rows, Titled(CardOf(rows, task[i].conv)))
        /\ scope' = scope /\ given' = given /\ said' = said /\ fails' = fails
        /\ \/ Prompts(i, Recorded(Mine, c), task[i])
           \/ GivesUp(i, P(i))
    BY <1>2, <1>4, <1>6, <1>8 DEF Titles, Row
  <1>10. fails' \in 0..MaxFails
    BY <1>1, <1>9 DEF Shape
  <1>11. CASE GivesUp(i, P(i))
    <2>1. PICK pn :
           /\ Steps(i, pn, Over) /\ OrderOK' /\ QueueOK' /\ calls' \in Seq(Nat)
           /\ pn.dirty = {} /\ pn.cur = Mine.cur /\ pn.items = Mine.items /\ pn.chat = Mine.chat
           /\ \A x \in Mine.cur : Mine.chat = x.msgs
           /\ Mine.cur = {} => Mine.chat = <<>>
      BY <1>2, <1>3, <1>9, <1>11, GivesUpIs
    <2>2. Born \subseteq Born'
      BY <1>1, <2>1, TasksKept
    <2>3. RowsOK' /\ Keeps /\ Grow /\ rows' \in SUBSET Card /\ IsFiniteSet(rows')
      BY <1>1, <1>9, <2>2, RowsTitled
    <2>4. \A x \in pn.items \cup pn.cur : \E row \in rows' : Same(row, x)
      BY <1>4, <2>1, <2>3, SameKept
    <2>5. PanelGood(pn, rows') /\ \A id \in Born : Shows(pn, id) => Shows(Mine, id)
      BY <2>1, <2>4 DEF PanelGood, Shows
    <2> QED
      BY <1>3, <1>9, <1>10, <2>1, <2>3, <2>4, <2>5, SendRest
  <1>12. CASE Prompts(i, Recorded(Mine, c), task[i])
    <2>1. PICK ln, pn : ln = Listing(Mine, c) /\ pn = Recorded(Mine, c)
      OBVIOUS
    <2>2. /\ ln \in PanelType /\ ln.gen = Mine.gen /\ ln.busy = Mine.busy /\ ln.dirty = Mine.dirty
          /\ ln.chat = Mine.chat /\ ln.cur = Mine.cur /\ ln.loading = Mine.loading
          /\ \A other \in ln.items : other = c \/ (other \in Mine.items /\ other.id # c.id)
      BY <1>4, <1>7, <2>1, ListingIs
    <2>3. pn = [ln EXCEPT !.cur = {c}]
      <3>1. Shows(Mine, c.id)
        BY <1>7 DEF Shows
      <3> QED
        BY <2>1, <3>1 DEF Recorded
    <2>4. /\ pn \in PanelType /\ pn.gen = Mine.gen /\ pn.busy = TRUE /\ pn.dirty = {}
          /\ pn.chat = c.msgs /\ pn.cur = {c} /\ pn.loading = Mine.loading /\ pn.items = ln.items
      BY <1>4, <1>5, <1>7, <2>2, <2>3 DEF PanelType, Panel, One
    <2>5. Ordered(c.msgs) /\ c \in pn.cur /\ c.id = task[i].conv /\ c.id \in Convs
      BY <1>5, <1>7, <2>4 DEF Ordered
    <2>6. task[i] \in Task /\ task[i].kind = "ask"
      BY <1>3, <1>4
    <2>7. PICK an, st :
           /\ Steps(i, an, st) /\ Continues(task[i], st) /\ st.kind \in Sends /\ st.pc = "prompt"
           /\ st.panel = task[i].panel /\ SendGood(an, st)
           /\ an.busy = pn.busy /\ an.loading = pn.loading /\ an.cur = pn.cur /\ an.items = pn.items
           /\ QueueOK' /\ calls' \in Seq(Nat)
      BY <1>2, <1>3, <1>4, <1>9, <1>12, <2>1, <2>4, <2>5, <2>6, PromptsIs
    <2>8. OrderOK'
      BY <1>1, <1>3, <1>4, <2>4, <2>7, SendSteps
    <2>9. Born \subseteq Born'
      BY <1>1, <2>7, TasksKept
    <2>10. RowsOK' /\ Keeps /\ Grow /\ rows' \in SUBSET Card /\ IsFiniteSet(rows')
      BY <1>1, <1>9, <2>9, RowsTitled
    <2>11. \A x \in Mine.items \cup Mine.cur : \E row \in rows' : Same(row, x)
      BY <1>4, <2>10, SameKept
    <2>12. \A x \in an.items \cup an.cur : \E row \in rows' : Same(row, x)
      BY <1>7, <2>2, <2>4, <2>7, <2>11 DEF Same
    <2>13. \A id \in Born : Shows(an, id) => Shows(Mine, id)
      BY <1>7, <2>4, <2>7 DEF Shows
    <2> QED
      BY <1>3, <1>9, <1>10, <2>7, <2>8, <2>10, <2>12, <2>13, SendRest
  <1> QED
    BY <1>9, <1>11, <1>12

\* A send creates its conversation.
LEMMA CreatesAskedKeep ==
  ASSUME ConvInv, NEW i \in Tasks, CreatesAsked(i) PROVE ConvInv' /\ Grow
  <1>1. /\ Shape /\ QueueOK /\ TasksOK /\ OrderOK /\ RowsOK /\ PanelOK
    BY DEF ConvInv
  <1>2. /\ task[i].pc = "create" /\ calls # <<>> /\ i = Head(calls) /\ task[i].kind = "ask"
        /\ scope' = scope /\ given' = given /\ said' = said /\ fails' = fails
        /\ rows' = rows \cup {Created(i)}
    BY DEF CreatesAsked, Asked
  <1>3. IsSend(i) /\ Creating(i)
    BY <1>2 DEF IsSend, Creating, Active, Sends
  <1>4. /\ task[i].panel = Mounted /\ P(i) = Mine /\ Mine \in PanelType /\ Mine.busy = TRUE
        /\ task[i] \in Task /\ task[i].n \in 1..MaxSaid /\ SendGood(Mine, task[i])
        /\ \A card \in Mine.items \cup Mine.cur : card \in Card /\ \E row \in rows : Same(row, card)
        /\ Mine.cur = {} => Mine.chat = <<>> /\ Mine.dirty = {}
    BY <1>3, SendFacts
  <1>5. Mine.cur = {} /\ task[i].msgs = <<>> /\ Mine.chat = <<>> /\ Mine.dirty = {}
    BY <1>2, <1>4 DEF SendGood
  <1>6. PICK c : c = Created(i)
    OBVIOUS
  <1>7. /\ c \in Card /\ c.id = task[i].conv /\ c.id \in Convs /\ c.msgs = <<>>
        /\ task[i].conv \notin Born
    BY <1>1, <1>3, <1>5, <1>6, CreatedIs
  <1>8. \/ GivesUp(i, P(i))
        \/ Prompts(i, [Listing(Mine, c) EXCEPT !.cur = {c}], task[i])
    BY <1>4, <1>6 DEF CreatesAsked
  <1>9. fails' \in 0..MaxFails
    BY <1>1, <1>2 DEF Shape
  <1>10. ASSUME Born \subseteq Born', task[i].conv \in Born'
         PROVE  /\ RowsOK' /\ Keeps /\ Grow /\ rows' \in SUBSET Card /\ IsFiniteSet(rows')
                /\ c \in rows' /\ \A card \in Mine.items : \E row \in rows' : Same(row, card)
    <2>1. /\ RowsOK' /\ Keeps /\ Grow /\ rows' \in SUBSET Card /\ IsFiniteSet(rows')
      BY <1>1, <1>2, <1>3, <1>10, RowsCreate
    <2> QED
      BY <1>2, <1>4, <1>6, <2>1, SameKept
  <1>11. CASE GivesUp(i, P(i))
    <2>1. PICK pn :
           /\ Steps(i, pn, Over) /\ OrderOK' /\ QueueOK' /\ calls' \in Seq(Nat)
           /\ pn.dirty = {} /\ pn.cur = Mine.cur /\ pn.items = Mine.items /\ pn.chat = Mine.chat
           /\ \A x \in Mine.cur : Mine.chat = x.msgs
           /\ Mine.cur = {} => Mine.chat = <<>>
      BY <1>2, <1>3, <1>11, GivesUpIs
    <2>2. ~Creating(i)'
      <3>1. task'[i] = Over
        BY <1>1, <2>1, Others
      <3> QED
        BY <1>1, <3>1, OverType DEF Creating, Active
    <2>3. Born \subseteq Born' /\ task[i].conv \in Born'
      BY <1>1, <1>3, <2>1, <2>2, TasksKept
    <2>4. RowsOK' /\ Keeps /\ Grow /\ rows' \in SUBSET Card /\ IsFiniteSet(rows')
      BY <1>10, <2>3
    <2>5. \A x \in pn.items \cup pn.cur : \E row \in rows' : Same(row, x)
      BY <1>5, <1>10, <2>1, <2>3
    <2>6. PanelGood(pn, rows') /\ \A id \in Born : Shows(pn, id) => Shows(Mine, id)
      BY <2>1, <2>5 DEF PanelGood, Shows
    <2> QED
      BY <1>2, <1>3, <1>9, <2>1, <2>4, <2>5, <2>6, SendRest
  <1>12. CASE Prompts(i, [Listing(Mine, c) EXCEPT !.cur = {c}], task[i])
    <2>1. PICK ln : ln = Listing(Mine, c)
      OBVIOUS
    <2>1a. PICK pn : pn = [ln EXCEPT !.cur = {c}]
      OBVIOUS
    <2>2. /\ ln \in PanelType /\ ln.gen = Mine.gen /\ ln.busy = Mine.busy /\ ln.dirty = Mine.dirty
          /\ ln.chat = Mine.chat /\ ln.cur = Mine.cur /\ ln.loading = Mine.loading
          /\ \A other \in ln.items : other = c \/ (other \in Mine.items /\ other.id # c.id)
      BY <1>4, <1>7, <2>1, ListingIs
    <2>4. /\ pn \in PanelType /\ pn.gen = Mine.gen /\ pn.busy = TRUE /\ pn.dirty = {}
          /\ pn.chat = c.msgs /\ pn.cur = {c} /\ pn.loading = Mine.loading /\ pn.items = ln.items
      BY <1>4, <1>5, <1>7, <2>1a, <2>2 DEF PanelType, Panel, One
    <2>5. Ordered(c.msgs) /\ c \in pn.cur /\ c.id = task[i].conv /\ c.id \in Convs
      BY <1>7, <2>4 DEF Ordered
    <2>6. task[i] \in Task /\ task[i].kind = "ask" /\ task[i].n \in 1..MaxSaid
      BY <1>2, <1>4
    <2>6a. Prompts(i, pn, task[i])
      BY <1>12, <2>1, <2>1a
    <2>6b. pn.gen = P(i).gen /\ c \in pn.cur /\ pn.chat = c.msgs
      BY <1>4, <2>4
    <2>7. PICK an, st :
           /\ Steps(i, an, st) /\ Continues(task[i], st) /\ st.kind \in Sends /\ st.pc = "prompt"
           /\ st.panel = task[i].panel /\ SendGood(an, st)
           /\ an.busy = pn.busy /\ an.loading = pn.loading /\ an.cur = pn.cur /\ an.items = pn.items
           /\ QueueOK' /\ calls' \in Seq(Nat)
      BY <1>2, <1>7, <2>4, <2>5, <2>6, <2>6a, <2>6b, PromptsIs
    <2>8. OrderOK'
      BY <1>1, <1>3, <1>4, <2>4, <2>7, SendSteps
    <2>9. Born \subseteq Born' /\ task[i].conv \in Born'
      <3>1. ~Creating(i)'
        <4>1. task'[i] = st
          BY <1>1, <2>7, Others
        <4> QED
          BY <2>7, <4>1 DEF Creating, Creators, Sends, Derives
      <3> QED
        BY <1>1, <1>3, <2>7, <3>1, TasksKept
    <2>10. /\ RowsOK' /\ Grow /\ rows' \in SUBSET Card /\ IsFiniteSet(rows')
           /\ c \in rows' /\ \A card \in Mine.items : \E row \in rows' : Same(row, card)
      BY <1>10, <2>9
    <2>12. \A x \in an.items \cup an.cur : \E row \in rows' : Same(row, x)
      BY <2>2, <2>4, <2>7, <2>10 DEF Same
    <2>13. \A id \in Born : Shows(an, id) => Shows(Mine, id)
      BY <1>7, <2>4, <2>7 DEF Shows
    <2> QED
      BY <1>2, <1>3, <1>9, <2>7, <2>8, <2>10, <2>12, <2>13, SendRest
  <1> QED
    BY <1>8, <1>11, <1>12

\* What becomes a send when the conversation of an edit or a retry is created.
LEMMA BecomesKeep ==
  ASSUME ConvInv, NEW i \in Tasks, Asked(i, "create"), task[i].kind \in {"edit", "retry"}, Current(i),
         rows' = rows \cup {Created(i)}, said' = said, fails' = fails,
         NEW pp, pp = Loaded(i, Apply(Listing(P(i), Created(i)), Created(i))),
         NEW an, NEW st, Steps(i, an, st), Continues(task[i], st), st.kind \in Sends,
         SendGood(an, st), an.busy = TRUE, an.loading = FALSE, an.cur = pp.cur, an.items = pp.items,
         QueueOK', calls' \in Seq(Nat)
  PROVE  ConvInv' /\ Grow
  <1>1. /\ Shape /\ QueueOK /\ TasksOK /\ OrderOK /\ RowsOK /\ PanelOK
    BY DEF ConvInv
  <1>2. task[i].kind \notin Sends /\ task[i].kind \in Creators /\ task[i].pc = "create"
    BY DEF Asked, Creators, Derives, Sends
  <1>3. /\ IsOp(i) /\ task[i].panel \in Panels /\ P(i) \in PanelType
        /\ (Latest(i) <=> Current(i)) /\ (Latest(i) => ~Sending(Mounted)) /\ Creating(i)
    <2>1. /\ IsOp(i) /\ task[i].panel \in Panels /\ P(i) \in PanelType
          /\ (Latest(i) <=> Current(i)) /\ (Latest(i) => ~Sending(Mounted))
      BY <1>2, AskedFacts
    <2> QED
      BY <1>2, <2>1 DEF Creating, IsOp
  <1>4. PICK c : c = Created(i)
    OBVIOUS
  <1>5. c \in Card /\ c.id = task[i].conv /\ task[i].conv \notin Born
    BY <1>1, <1>3, <1>4, CreatedIs
  <1>6. pp.cur = {c} /\ \A card \in pp.items : card = c \/ \E row \in rows : Same(row, card)
    BY <1>2, <1>3, <1>4, ShowsCreated
  <1>7. OrderOK'
    BY <1>1, <1>2, <1>3, BecomesSend DEF Continues
  <1>8. Born \subseteq Born' /\ task[i].conv \in Born'
    <2>1. ~Creating(i)'
      <3>1. task'[i] = st
        BY <1>1, Others
      <3> QED
        BY <3>1 DEF Creating, Creators, Sends, Derives, Continues
    <2> QED
      BY <1>1, <1>3, <2>1, TasksKept
  <1>9. /\ RowsOK' /\ Keeps /\ Grow /\ rows' \in SUBSET Card /\ IsFiniteSet(rows')
    BY <1>1, <1>2, <1>3, <1>8, RowsCreate
  <1>10. \A x \in an.items \cup an.cur : \E row \in rows' : Same(row, x)
    BY <1>4, <1>6, <1>9, SameKept DEF Same
  <1>11. \A id \in Born : Shows(an, id) => Shows(Mine, id)
    BY <1>5, <1>6 DEF Shows
  <1>12. fails' \in 0..MaxFails
    BY <1>1 DEF Shape
  <1> QED
    BY <1>2, <1>3, <1>7, <1>9, <1>10, <1>11, <1>12, SendRest

\* The conversation of a retry is created.
LEMMA CreatesRetriedKeep ==
  ASSUME ConvInv, NEW i \in Tasks, CreatesRetried(i) PROVE ConvInv' /\ Grow
  <1>1. /\ Shape /\ QueueOK /\ TasksOK /\ OrderOK /\ RowsOK /\ PanelOK
    BY DEF ConvInv
  <1>2. /\ Asked(i, "create") /\ task[i].kind = "retry" /\ calls' = Tail(calls)
        /\ scope' = scope /\ given' = given /\ said' = said /\ fails' = fails
        /\ rows' = rows \cup {Created(i)}
    BY DEF CreatesRetried, Creates, Answers
  <1>3. task[i].kind \notin Sends /\ task[i].kind \in Creators /\ task[i].pc = "create"
    BY <1>2 DEF Asked, Creators, Derives, Sends
  <1>4. /\ calls # <<>> /\ i = Head(calls) /\ IsOp(i) /\ P(i) \in PanelType
        /\ (Latest(i) <=> Current(i)) /\ (Latest(i) => ~Sending(Mounted)) /\ Creating(i)
    <2>1. /\ calls # <<>> /\ i = Head(calls) /\ IsOp(i) /\ P(i) \in PanelType
          /\ (Latest(i) <=> Current(i)) /\ (Latest(i) => ~Sending(Mounted))
      BY <1>2, <1>3, AskedFacts
    <2> QED
      BY <1>3, <2>1 DEF Creating, IsOp
  <1>5. CASE ~Current(i)
    <2>1. panel' = [panel EXCEPT ![task[i].panel] = P(i)] /\ End(i)
      BY <1>1, <1>5, PanelStays DEF CreatesRetried
    <2> QED
      BY <1>2, <1>3, <1>5, <2>1, CreatedEnds
  <1>6. CASE Current(i)
    <2>1. PICK c : c = Created(i)
      OBVIOUS
    <2>2. /\ c \in Card /\ c.id = task[i].conv /\ c.msgs = task[i].msgs
      BY <1>1, <1>4, <2>1, CreatedIs
    <2>3. PICK pp : pp = Loaded(i, Apply(Listing(P(i), Created(i)), Created(i)))
      OBVIOUS
    <2>4. /\ pp \in PanelType /\ pp.gen = P(i).gen /\ pp.dirty = {} /\ pp.loading = FALSE
          /\ pp.cur = {c} /\ pp.chat = task[i].msgs
      BY <1>3, <1>4, <1>6, <2>1, <2>3, ShowsCreated
    <2>5. PICK an : an = [pp EXCEPT !.busy = TRUE]
      OBVIOUS
    <2>6. /\ an \in PanelType /\ an.gen = P(i).gen /\ an.dirty = {} /\ an.loading = FALSE
          /\ an.cur = pp.cur /\ an.chat = task[i].msgs /\ an.busy = TRUE /\ an.items = pp.items
      BY <2>4, <2>5, BusyIs
    <2>7. PICK st : st = [[task[i] EXCEPT !.kind = "again"] EXCEPT !.pc = "stream"]
      OBVIOUS
    <2>8. /\ panel' = [panel EXCEPT ![task[i].panel] = an] /\ task' = [task EXCEPT ![i] = st]
      BY <1>6, <2>3, <2>5, <2>7 DEF CreatesRetried, SetPanel, SetTask
    <2>9. /\ st \in Task /\ st.pc = "stream" /\ st.kind = "again" /\ st.panel = task[i].panel
          /\ st.token = task[i].token /\ st.scope = task[i].scope /\ st.conv = task[i].conv
          /\ st.n = task[i].n /\ st.msgs = task[i].msgs
      <3>1. task[i] \in Task
        BY <1>1, Places
      <3> QED
        BY <2>7, <3>1 DEF Task, Sends
    <2>10. Steps(i, an, st)
      BY <1>2, <2>6, <2>8, <2>9 DEF Steps, Moves
    <2>11. Continues(task[i], st) /\ st.kind \in Sends
      BY <1>2, <1>3, <2>9 DEF Continues, PcOf, Creators, Derives, Sends
    <2>12. SendGood(an, st)
      <3>1. Asks(task[i].msgs, task[i].n) /\ task[i] \in Task
        BY <1>1, <1>2, <1>4, Places DEF TasksOK, TaskOK, IsOp
      <3>2. st.n >= 1
        <4>1. task[i].msgs \in Seq(Message) /\ task[i].msgs # <<>>
          BY <3>1 DEF Task, Asks
        <4>2. task[i].msgs[Len(task[i].msgs)] \in Message
          BY <4>1
        <4>3. task[i].n \in 1..MaxSaid
          BY <3>1, <4>2 DEF Asks, Message
        <4> QED
          BY <2>9, <4>3, ConversationsAssumption
      <3>3. /\ c \in an.cur /\ c.id = st.conv /\ an.dirty = {} /\ st.msgs = c.msgs
            /\ Asks(c.msgs, st.n) /\ an.chat = c.msgs /\ st.pc = "stream"
        BY <2>2, <2>4, <2>6, <2>9, <3>1
      <3> QED
        BY <3>2, <3>3 DEF SendGood
    <2>13. QueueOK' /\ calls' \in Seq(Nat)
      BY <1>1, <1>2, <1>4, <2>9, <2>10, QueueTail DEF InQueue
    <2> QED
      BY <1>2, <1>6, <2>3, <2>6, <2>10, <2>11, <2>12, <2>13, BecomesKeep
  <1> QED
    BY <1>5, <1>6

\* The conversation of an edit is created.
LEMMA CreatesEditedKeep ==
  ASSUME ConvInv, NEW i \in Tasks, CreatesEdited(i) PROVE ConvInv' /\ Grow
  <1>1. /\ Shape /\ QueueOK /\ TasksOK /\ OrderOK /\ RowsOK /\ PanelOK
    BY DEF ConvInv
  <1>2. /\ Asked(i, "create") /\ task[i].kind = "edit"
        /\ scope' = scope /\ given' = given /\ said' = said /\ fails' = fails
        /\ rows' = rows \cup {Created(i)}
    BY DEF CreatesEdited
  <1>3. task[i].kind \notin Sends /\ task[i].kind \in Creators /\ task[i].pc = "create"
    BY <1>2 DEF Asked, Creators, Derives, Sends
  <1>4. /\ calls # <<>> /\ i = Head(calls) /\ IsOp(i) /\ P(i) \in PanelType
        /\ (Latest(i) <=> Current(i)) /\ (Latest(i) => ~Sending(Mounted)) /\ Creating(i)
    <2>1. /\ calls # <<>> /\ i = Head(calls) /\ IsOp(i) /\ P(i) \in PanelType
          /\ (Latest(i) <=> Current(i)) /\ (Latest(i) => ~Sending(Mounted))
      BY <1>2, <1>3, AskedFacts
    <2> QED
      BY <1>3, <2>1 DEF Creating, IsOp
  <1>5. CASE ~Current(i)
    <2>1. panel' = [panel EXCEPT ![task[i].panel] = P(i)] /\ End(i) /\ calls' = Tail(calls)
      BY <1>1, <1>5, PanelStays DEF CreatesEdited
    <2> QED
      BY <1>2, <1>3, <1>5, <2>1, CreatedEnds
  <1>6. CASE Current(i)
    <2>1. PICK c : c = Created(i)
      OBVIOUS
    <2>2. /\ c \in Card /\ c.id = task[i].conv /\ c.msgs = task[i].msgs /\ c.id \in Convs
          /\ Ordered(c.msgs)
      <3>1. Ordered(task[i].msgs)
        BY <1>1, <1>4 DEF TasksOK, TaskOK
      <3> QED
        BY <1>1, <1>4, <2>1, <3>1, CreatedIs
    <2>3. PICK pp : pp = Loaded(i, Apply(Listing(P(i), Created(i)), Created(i)))
      OBVIOUS
    <2>4. /\ pp \in PanelType /\ pp.gen = P(i).gen /\ pp.dirty = {} /\ pp.loading = FALSE
          /\ pp.cur = {c} /\ pp.chat = task[i].msgs
      BY <1>3, <1>4, <1>6, <2>1, <2>3, ShowsCreated
    <2>5. PICK pn : pn = [pp EXCEPT !.busy = TRUE]
      OBVIOUS
    <2>6. /\ pn \in PanelType /\ pn.gen = P(i).gen /\ pn.dirty = {} /\ pn.loading = FALSE
          /\ pn.cur = pp.cur /\ pn.chat = task[i].msgs /\ pn.busy = TRUE /\ pn.items = pp.items
      BY <2>4, <2>5, BusyIs
    <2>7. PICK t : t = [task[i] EXCEPT !.kind = "ask"]
      OBVIOUS
    <2>8. Prompts(i, pn, t)
      BY <1>6, <2>3, <2>5, <2>7 DEF CreatesEdited
    <2>9. /\ t \in Task /\ t.kind = "ask" /\ t.panel = task[i].panel
          /\ t.token = task[i].token /\ t.scope = task[i].scope /\ t.conv = task[i].conv
          /\ t.n = task[i].n /\ task[i].n \in 1..MaxSaid
      <3>1. task[i] \in Task /\ task[i].n >= 1
        BY <1>1, <1>2, <1>4, Places DEF TasksOK, TaskOK, IsOp
      <3>2. task[i].n \in 1..MaxSaid
        BY <3>1, ConversationsAssumption DEF Task
      <3> QED
        BY <2>7, <3>1, <3>2 DEF Task, Sends
    <2>10. c \in pn.cur /\ pn.chat = c.msgs
      BY <2>2, <2>4, <2>6
    <2>11. PICK an, st :
           /\ Steps(i, an, st) /\ Continues(task[i], st) /\ st.kind \in Sends /\ st.pc = "prompt"
           /\ st.panel = task[i].panel /\ SendGood(an, st)
           /\ an.busy = pn.busy /\ an.loading = pn.loading /\ an.cur = pn.cur /\ an.items = pn.items
           /\ QueueOK' /\ calls' \in Seq(Nat)
      BY <1>2, <1>4, <2>2, <2>6, <2>8, <2>9, <2>10, PromptsIs
    <2> QED
      BY <1>2, <1>6, <2>3, <2>6, <2>11, BecomesKeep
  <1> QED
    BY <1>5, <1>6

-----------------------------------------------------------------------------
(* What the writer begins. *)

\* A task that begins, with what it has captured.
LEMMA TIs ==
  ASSUME Shape, NEW kind \in Sends \cup Waiting \cup {"archive"},
         NEW pc \in InQueue \cup {"wait", "stream"}, NEW conv \in Convs \cup {None}
  PROVE  /\ T(kind, pc, conv) \in Task
         /\ T(kind, pc, conv).kind = kind /\ T(kind, pc, conv).pc = pc
         /\ T(kind, pc, conv).conv = conv /\ T(kind, pc, conv).msgs = <<>>
         /\ pc # "done"
  <1>1. Over \in Task /\ Over.msgs = <<>>
    BY OverType DEF Over
  <1>2. pc # "done"
    BY DEF InQueue
  <1> QED
    BY <1>1, <1>2 DEF T, Task

LEMMA WaitIs ==
  ASSUME Shape, NEW kind \in {"load", "refresh", "open", "new", "remove"} \cup Derives,
         NEW conv \in Convs \cup {None}
  PROVE  /\ T(kind, "wait", conv) \in Task
         /\ T(kind, "wait", conv).kind = kind /\ T(kind, "wait", conv).pc = "wait"
         /\ T(kind, "wait", conv).conv = conv /\ T(kind, "wait", conv).msgs = <<>>
  <1>1. kind \in Sends \cup Waiting \cup {"archive"}
    BY DEF Waiting
  <1>2. "wait" \in InQueue \cup {"wait", "stream"}
    OBVIOUS
  <1> QED
    BY <1>1, <1>2, TIs

LEMMA StartIs ==
  ASSUME Shape, NEW pn \in PanelType, NEW s \in Task, s.pc # "done", scope' \in Drafts,
         Start(pn, s)
  PROVE  \E t : /\ Starts(pn, t) /\ t.kind = s.kind /\ t.pc = s.pc /\ t.conv = s.conv
                /\ t.msgs = s.msgs /\ t.was = s.was /\ t.n = s.n /\ t.scope = scope'
                /\ t.pc \in InQueue => calls' = Append(calls, Len(task'))
                /\ t.pc \notin InQueue => calls' = calls
  <1>1. PICK t : t = [s EXCEPT !.panel = Mounted, !.token = pn.gen, !.scope = scope']
    OBVIOUS
  <1>2. Mounted \in 1..MaxPanels /\ pn.gen \in Nat
    BY DEF Shape, PanelType, Panel, Mounted
  <1>3. /\ t \in Task /\ t.kind = s.kind /\ t.pc = s.pc /\ t.conv = s.conv
        /\ t.msgs = s.msgs /\ t.was = s.was /\ t.n = s.n /\ t.scope = scope'
        /\ t.panel = Mounted /\ t.token = pn.gen
    BY <1>1, <1>2 DEF Task
  <1>4. /\ Quiet /\ Len(task) < MaxTasks /\ panel' = [panel EXCEPT ![Mounted] = pn]
        /\ task' = Append(task, t)
        /\ calls' = IF s.pc \in InQueue THEN Append(calls, Len(task')) ELSE calls
    BY <1>1 DEF Start
  <1> QED
    BY <1>3, <1>4 DEF Starts

\* The tasks, with one more.
LEMMA TasksStart ==
  ASSUME Shape, TasksOK, NEW pn, NEW t, Starts(pn, t), pn.gen = Mine.gen \/ pn.gen = Mine.gen + 1,
         t.pc \in PcOf(t.kind), t.scope = scope', t.kind # "dispose",
         scope' = scope \/ pn.gen = Mine.gen + 1,
         t.kind = "edit" => t.n >= 1, t.kind = "retry" => Asks(t.msgs, t.n),
         t.kind = "remove" => t.conv \in Born,
         \/ given' = given /\ t.kind \notin Creators /\ (t.kind = "ask" => t.pc # "create")
         \/ given' = given + 1 /\ t.conv = given + 1 /\ OfIn(t.msgs, Born) /\ Ordered(t.msgs)
  PROVE  TasksOK' /\ Born \subseteq Born'
  <1>0. PICK n : n = Len(task) + 1
    OBVIOUS
  <1>1. /\ n \in Tasks' /\ Tasks' = Tasks \cup {n} /\ n \notin Tasks
        /\ Panels' = Panels /\ Mounted' = Mounted /\ Mounted \in Panels /\ Mine' = pn
        /\ \A p \in Panels : p # Mounted => panel'[p] = panel[p]
        /\ task'[n] = t
        /\ \A k \in Tasks : /\ task'[k] = task[k] /\ task[k].panel \in Panels
                            /\ Creating(k)' <=> Creating(k)
                            /\ Active(k)' <=> Active(k)
    BY <1>0, Before
  <1>2. given \in Nat /\ Mine.gen \in Nat /\ \A p \in Panels : panel[p].gen \in Nat
    BY Places DEF Shape, PanelType, Panel
  <1>3. t.panel = Mounted /\ t.token = pn.gen /\ t.pc # "done" /\ t \in Task
    BY DEF Starts
  <1>4. Creating(n)' <=> t.kind \in Creators \/ (t.kind = "ask" /\ t.pc = "create")
    BY <1>1, <1>3 DEF Creating, Active
  <1>5. Creating(n)' => /\ given' = given + 1 /\ t.conv = given + 1
                        /\ OfIn(t.msgs, Born) /\ Ordered(t.msgs)
    BY <1>4
  <1>6. given' \in Nat /\ given <= given'
    BY <1>2
  <1>7. Born \subseteq Born'
    <2> SUFFICES ASSUME NEW id \in Born PROVE id \in Born'
      OBVIOUS
    <2>1. id \in 1..given /\ \A k \in Tasks : Creating(k) => task[k].conv # id
      BY DEF Born
    <2>2. \A k \in Tasks' : Creating(k)' => task'[k].conv # id
      BY <1>1, <1>2, <1>5, <2>1
    <2> QED
      BY <1>2, <1>6, <2>1, <2>2 DEF Born
  <1>8. ASSUME NEW k \in Tasks PROVE TaskOK(k)'
    <2>1. TaskOK(k) /\ task'[k] = task[k] /\ (Active(k)' <=> Active(k)) /\ task[k] \in Task
          /\ task[k].panel \in Panels
      BY <1>1, Places DEF TasksOK
    <2>2. task'[k].panel \in Panels' /\ (Active(k)' => task'[k].pc \in PcOf(task'[k].kind))
      BY <1>1, <2>1 DEF TaskOK
    <2>3. panel[task[k].panel].gen <= panel'[task[k].panel].gen
      BY <1>1, <1>2, <2>1 DEF Mine
    <2>4. Active(k)' => IF task'[k].kind = "dispose" THEN task'[k].panel < Mounted'
                        ELSE task'[k].token <= panel'[task'[k].panel].gen
      <3>1. task[k].token \in Nat /\ panel'[task[k].panel].gen \in Nat
        BY <1>1, <1>2, <2>1 DEF Task, Mine
      <3> QED
        BY <1>1, <1>2, <2>1, <2>3, <3>1 DEF TaskOK
    <2>5. ASSUME Active(k)', Current(k)', task'[k].kind # "dispose" PROVE task'[k].scope = scope'
      <3>1. task[k].panel = Mounted /\ task[k].token = pn.gen /\ task[k].token <= Mine.gen
        BY <1>1, <2>1, <2>5 DEF TaskOK, Current, P, Mine
      <3>2. pn.gen = Mine.gen /\ scope' = scope
        BY <1>2, <3>1
      <3>3. Current(k)
        BY <3>1, <3>2 DEF Current, P, Mine
      <3> QED
        BY <2>1, <2>5, <3>2, <3>3 DEF TaskOK
    <2>6. /\ Active(k)' /\ task'[k].kind = "edit" => task'[k].n >= 1
          /\ Active(k)' /\ task'[k].kind = "retry" => Asks(task'[k].msgs, task'[k].n)
          /\ Active(k)' /\ task'[k].kind = "remove" => task'[k].conv \in Born'
      BY <1>7, <2>1 DEF TaskOK
    <2>7. ASSUME Creating(k)'
          PROVE  /\ task'[k].conv \in 1..given' /\ OfIn(task'[k].msgs, Born')
                 /\ Ordered(task'[k].msgs)
                 /\ \A j \in Tasks' : Creating(j)' /\ task'[j].conv = task'[k].conv => k = j
      <3>1. /\ Creating(k) /\ task[k].conv \in 1..given /\ OfIn(task[k].msgs, Born)
            /\ Ordered(task[k].msgs)
            /\ \A j \in Tasks : Creating(j) /\ task[j].conv = task[k].conv => k = j
        BY <1>1, <2>1, <2>7 DEF TaskOK
      <3> QED
        BY <1>1, <1>2, <1>5, <1>6, <1>7, <2>1, <3>1 DEF OfIn
    <2> QED
      BY <2>2, <2>4, <2>5, <2>6, <2>7 DEF TaskOK
  <1>9. TaskOK(n)'
    <2>1. panel'[t.panel].gen = pn.gen /\ pn.gen \in Nat
      BY <1>1, <1>2, <1>3 DEF Mine
    <2>2. ASSUME Creating(n)'
          PROVE  /\ task'[n].conv \in 1..given' /\ OfIn(task'[n].msgs, Born')
                 /\ Ordered(task'[n].msgs)
                 /\ \A j \in Tasks' : Creating(j)' /\ task'[j].conv = task'[n].conv => n = j
      <3>1. \A j \in Tasks : Creating(j) => task[j].conv \in 1..given
        BY DEF TasksOK, TaskOK
      <3>2. task'[n].conv = given + 1 /\ given' = given + 1
        BY <1>1, <1>5, <2>2
      <3> QED
        BY <1>1, <1>2, <1>5, <1>7, <2>2, <3>1, <3>2 DEF OfIn
    <2>3. task'[n].panel \in Panels' /\ task'[n].pc \in PcOf(task'[n].kind)
      BY <1>1, <1>3
    <2>4. task'[n].token <= panel'[task'[n].panel].gen /\ task'[n].kind # "dispose"
          /\ task'[n].scope = scope'
      BY <1>1, <1>3, <2>1
    <2>5. /\ task'[n].kind = "edit" => task'[n].n >= 1
          /\ task'[n].kind = "retry" => Asks(task'[n].msgs, task'[n].n)
          /\ task'[n].kind = "remove" => task'[n].conv \in Born'
      BY <1>1, <1>7
    <2> QED
      BY <2>2, <2>3, <2>4, <2>5 DEF TaskOK
  <1> QED
    BY <1>1, <1>7, <1>8, <1>9 DEF TasksOK

\* The queue, with one more at its end.
LEMMA QueueStart ==
  ASSUME Shape, QueueOK, TasksOK, NEW pn, NEW t, Starts(pn, t),
         pn.gen = Mine.gen \/ pn.gen = Mine.gen + 1,
         t.pc \in InQueue => calls' = Append(calls, Len(task')),
         t.pc \notin InQueue => calls' = calls
  PROVE  QueueOK' /\ calls' \in Seq(Nat)
  <1>0. PICK n : n = Len(task) + 1
    OBVIOUS
  <1>1. /\ n \in Tasks' /\ Tasks' = Tasks \cup {n} /\ n \notin Tasks
        /\ task'[n] = t /\ \A k \in Tasks : task'[k] = task[k]
    BY <1>0, Before
  <1>2. n \in Nat /\ Len(task') = n
    BY <1>0, Places DEF Starts, Shape
  <1>3. /\ calls \in Seq(Nat) /\ Distinct(calls) /\ (\A a \in 1..Len(calls) : calls[a] \in Tasks)
        /\ \A k \in Tasks : task[k].pc \in InQueue <=> In(calls, k)
    BY DEF Shape, QueueOK
  <1>4. ~In(calls, n)
    BY <1>1, <1>3 DEF In
  <1>5. CASE t.pc \notin InQueue
    <2>1. calls' = calls
      BY <1>5
    <2>2. \A k \in Tasks' : task'[k].pc \in InQueue <=> In(calls, k)
      BY <1>1, <1>3, <1>4, <1>5
    <2> QED
      BY <1>1, <1>3, <2>1, <2>2 DEF QueueOK
  <1>6. CASE t.pc \in InQueue
    <2>1. PICK q : q = Append(calls, n)
      OBVIOUS
    <2>2. calls' = q
      BY <1>2, <1>6, <2>1
    <2>3. /\ q \in Seq(Nat) /\ Len(q) = Len(calls) + 1 /\ Len(calls) \in Nat
          /\ q[Len(calls) + 1] = n /\ \A a \in 1..Len(calls) : q[a] = calls[a]
      BY <1>2, <1>3, <2>1
    <2>4. Distinct(q)
      BY <1>1, <1>3, <2>3 DEF Distinct
    <2>5. \A a \in 1..Len(q) : q[a] \in Tasks'
      <3> SUFFICES ASSUME NEW a \in 1..Len(q) PROVE q[a] \in Tasks'
        OBVIOUS
      <3>1. a = Len(calls) + 1 \/ a \in 1..Len(calls)
        BY <2>3
      <3> QED
        BY <1>1, <1>3, <2>3, <3>1
    <2>6. \A k \in Tasks' : In(q, k) <=> k = n \/ In(calls, k)
      BY <1>2, <1>3, <2>1, AppendIn
    <2>7. \A k \in Tasks' : task'[k].pc \in InQueue <=> In(q, k)
      BY <1>1, <1>3, <1>6, <2>6
    <2> QED
      BY <2>2, <2>3, <2>4, <2>5, <2>7 DEF QueueOK
  <1> QED
    BY <1>5, <1>6

\* Everything else, when an operation begins.
LEMMA OpStarts ==
  ASSUME ConvInv, NEW pn, NEW t, Starts(pn, t), pn.gen = Mine.gen \/ pn.gen = Mine.gen + 1,
         t.kind \notin Sends, OrderOK', QueueOK', calls' \in Seq(Nat), TasksOK', Born \subseteq Born',
         pn.busy = Mine.busy, pn.dirty = Mine.dirty, pn.items = Mine.items, pn.cur = Mine.cur,
         pn.chat = Mine.chat, rows' = rows, fails' = fails, scope' \in Drafts,
         given' \in 0..MaxConvs, said' \in 0..MaxSaid,
         \/ t.pc = "wait"
         \/ t.pc = "mark" /\ t.kind = "archive" /\ Listed(Mine, t),
         t.kind = "remove" => t.was \/ ~Shows(Mine, t.conv)
  PROVE  ConvInv' /\ Grow
  <1>0. PICK n : n = Len(task) + 1
    OBVIOUS
  <1>1. /\ n \in Tasks' /\ Tasks' = Tasks \cup {n} /\ n \notin Tasks
        /\ task' \in Seq(Task) /\ panel' \in Seq(Panel) /\ Len(panel') = Len(panel)
        /\ Panels' = Panels /\ Mounted' = Mounted /\ Mounted \in Panels /\ Mine' = pn
        /\ \A p \in Panels : /\ panel'[p] \in PanelType
                             /\ p # Mounted => panel'[p] = panel[p]
        /\ task'[n] = t
        /\ \A k \in Tasks : /\ task'[k] = task[k] /\ task[k].panel \in Panels
                            /\ IsSend(k)' <=> IsSend(k)
                            /\ Mounts(k)' <=> Mounts(k)
    BY <1>0, Before DEF ConvInv
  <1>2. /\ Shape /\ QueueOK /\ TasksOK /\ OrderOK /\ RowsOK /\ CleanOK /\ ResaveOK /\ PanelOK
    BY DEF ConvInv
  <1>3. \A p \in Panels : panel'[p].dirty = panel[p].dirty
    BY <1>1 DEF Mine
  <1>4. \A k \in Tasks : Latest(k)' => Latest(k)
    <2> SUFFICES ASSUME NEW k \in Tasks, Latest(k)' PROVE Latest(k)
      OBVIOUS
    <2>1. Mounts(k) /\ task[k].token = pn.gen
      BY <1>1 DEF Latest
    <2>2. task[k].token <= Mine.gen
      <3>1. TaskOK(k) /\ task[k] \in Task /\ task[k].panel = Mounted /\ Active(k)
        BY <1>2, <2>1, Places DEF TasksOK, Mounts, IsOp
      <3>2. task[k].kind # "dispose"
        BY <1>2, <3>1, Places DEF TaskOK, Mounted
      <3> QED
        BY <3>1, <3>2 DEF TaskOK, Mine
    <2>3. Mine.gen \in Nat
      BY <1>2, Places DEF PanelType, Panel
    <2> QED
      BY <2>1, <2>2, <2>3 DEF Latest
  <1>5. ~IsSend(n)' /\ t.pc \in {"wait", "mark"}
    BY <1>1 DEF IsSend
  <1>6. Shape'
    <2>1. \A p \in Panels' : \A a, b \in panel'[p].cur : a = b
      BY <1>1 DEF PanelType, One
    <2> QED
      BY <1>1, <1>2, <2>1 DEF Shape
  <1>7. RowsOK' /\ Grow
    BY <1>2, RowsStay, StayGrows
  <1>8. CleanOK'
    <2>1. Mine'.dirty = Mine.dirty /\ Mine'.items = Mine.items /\ Mine'.cur = Mine.cur
      BY <1>1
    <2>2. \A k \in Tasks' : Latest(k)' /\ task'[k].pc \in {"list", "get", "create"} => Mine'.dirty = {}
      BY <1>1, <1>2, <1>4, <1>5, <2>1 DEF CleanOK
    <2>3. \A k \in Tasks' : Mounts(k)' /\ task'[k].pc = "delete" => Mine'.dirty = {}
      BY <1>1, <1>2, <1>5, <2>1 DEF CleanOK
    <2>4. \A id : Shows(Mine', id) <=> Shows(Mine, id)
      BY <2>1 DEF Shows
    <2>5. \A k \in Tasks' : /\ Mounts(k)' /\ task'[k].kind = "remove"
                            /\ Latest(k)' \/ task'[k].pc = "delete"
            => task'[k].was \/ ~Shows(Mine', task'[k].conv)
      <3> SUFFICES ASSUME NEW k \in Tasks', Mounts(k)', task'[k].kind = "remove",
                          Latest(k)' \/ task'[k].pc = "delete"
                   PROVE  task'[k].was \/ ~Shows(Mine', task'[k].conv)
        OBVIOUS
      <3>1. CASE k = n
        BY <1>1, <2>4, <3>1
      <3>2. CASE k \in Tasks
        BY <1>1, <1>2, <1>4, <2>4, <3>2 DEF CleanOK
      <3> QED
        BY <1>1, <3>1, <3>2
    <2>6. \A k \in Tasks' : Latest(k)' /\ task'[k].pc = "mark" => Listed(Mine', task'[k])
      <3> SUFFICES ASSUME NEW k \in Tasks', Latest(k)', task'[k].pc = "mark"
                   PROVE  Listed(Mine, task'[k])
        BY <2>1 DEF Listed
      <3>1. CASE k = n
        BY <1>1, <3>1
      <3>2. CASE k \in Tasks
        BY <1>1, <1>2, <1>4, <3>2 DEF CleanOK
      <3> QED
        BY <1>1, <3>1, <3>2
    <2> QED
      BY <2>2, <2>3, <2>5, <2>6 DEF CleanOK
  <1>9. ResaveOK'
    <2> SUFFICES ASSUME NEW k \in Tasks', task'[k].pc = "resave"
                 PROVE  \E d \in task'[k].save :
                          /\ task'[k].save = {d} /\ d.id \in Born'
                          /\ \/ P(k)'.dirty = {d}
                             \/ /\ P(k)'.dirty = {}
                                /\ \A row \in rows' : row.id = d.id => row.msgs = d.msgs
      BY DEF ResaveOK
    <2>1. k \in Tasks /\ task'[k] = task[k] /\ P(k)'.dirty = P(k).dirty
      BY <1>1, <1>3, <1>5 DEF P
    <2> QED
      BY <1>2, <2>1 DEF ResaveOK
  <1>10. PanelOK'
    <2>1. /\ Mine'.dirty = Mine.dirty /\ Mine'.items = Mine.items /\ Mine'.cur = Mine.cur
          /\ Mine'.chat = Mine.chat
      BY <1>1
    <2>2. Sending(Mounted)' <=> Sending(Mounted)
      <3>1. \A k \in Tasks : task'[k] = task[k]
        BY <1>1
      <3> QED
        BY <1>1, <3>1 DEF Sending
    <2>3. \A k \in Tasks' : IsSend(k)' => SendOK(k)'
      <3> SUFFICES ASSUME NEW k \in Tasks', IsSend(k)' PROVE SendOK(k)'
        OBVIOUS
      <3>1. k \in Tasks /\ task'[k] = task[k] /\ IsSend(k)
        BY <1>1, <1>5
      <3>2. SendOK(k)
        BY <1>2, <3>1 DEF PanelOK
      <3> QED
        BY <2>1, <3>1, <3>2, SendKept
    <2> QED
      BY <1>2, <2>1, <2>2, <2>3 DEF PanelOK
  <1> QED
    BY <1>6, <1>7, <1>8, <1>9, <1>10 DEF ConvInv

\* Everything else, when a send begins.
LEMMA SendStarts ==
  ASSUME ConvInv, NEW pn, NEW t, Starts(pn, t), pn.gen = Mine.gen, ~Mine.loading, ~Mine.busy,
         t.kind \in Sends, t.pc \in InQueue \ {"resave", "delete"},
         OrderOK', QueueOK', calls' \in Seq(Nat), TasksOK', Born \subseteq Born',
         pn.items = Mine.items, pn.cur = Mine.cur, Mine.dirty = {},
         Mine.cur = {} => pn.chat = <<>> /\ pn.dirty = {}, SendGood(pn, t),
         rows' = rows, fails' = fails, scope' \in Drafts,
         given' \in 0..MaxConvs, said' \in 0..MaxSaid
  PROVE  ConvInv' /\ Grow
  <1>12. PICK n : n = Len(task) + 1
    OBVIOUS
  <1>1. /\ n \in Tasks' /\ Tasks' = Tasks \cup {n} /\ n \notin Tasks
        /\ task' \in Seq(Task) /\ panel' \in Seq(Panel) /\ Len(panel') = Len(panel)
        /\ Panels' = Panels /\ Mounted' = Mounted /\ Mounted \in Panels /\ Mine' = pn
        /\ \A p \in Panels : /\ panel'[p] \in PanelType
                             /\ p # Mounted => panel'[p] = panel[p]
        /\ task'[n] = t
        /\ \A k \in Tasks : /\ task'[k] = task[k] /\ task[k].panel \in Panels
                            /\ IsSend(k)' <=> IsSend(k)
                            /\ Mounts(k)' <=> Mounts(k)
    BY <1>12, Before DEF ConvInv
  <1>0. t.panel = Mounted /\ Quiet /\ t.pc # "done" /\ t \in Task
    BY DEF Starts
  <1>2. /\ Shape /\ QueueOK /\ TasksOK /\ OrderOK /\ RowsOK /\ CleanOK /\ ResaveOK /\ PanelOK
    BY DEF ConvInv
  <1>3. ~Sending(Mounted) /\ (\A k \in Tasks : ~IsSend(k))
    BY <1>2, NoSends DEF OrderOK, SendsWait
  <1>4. \A k \in Tasks : ~Latest(k) /\ (Mounts(k) => Stale(k) /\ Idly(k))
    BY <1>0, <1>2, NothingLoads
  <1>5. \A k \in Tasks : ~Latest(k)'
    BY <1>1, <1>4 DEF Latest
  <1>6. ~Mounts(n)' /\ ~Latest(n)'
    BY <1>1 DEF Mounts, IsOp, Latest
  <1>7. Shape'
    <2>1. \A p \in Panels' : \A a, b \in panel'[p].cur : a = b
      BY <1>1 DEF PanelType, One
    <2> QED
      BY <1>1, <1>2, <2>1 DEF Shape
  <1>8. RowsOK' /\ Grow
    BY <1>2, RowsStay, StayGrows
  <1>9. CleanOK'
    <2>1. \A k \in Tasks' : ~Latest(k)'
      BY <1>1, <1>5, <1>6
    <2>2. \A k \in Tasks' : Mounts(k)' => task'[k].pc # "delete"
      BY <1>1, <1>4, <1>6 DEF Idly
    <2> QED
      BY <2>1, <2>2 DEF CleanOK
  <1>10. ResaveOK'
    <2> SUFFICES ASSUME NEW k \in Tasks', task'[k].pc = "resave"
                 PROVE  \E d \in task'[k].save :
                          /\ task'[k].save = {d} /\ d.id \in Born'
                          /\ \/ P(k)'.dirty = {d}
                             \/ /\ P(k)'.dirty = {}
                                /\ \A row \in rows' : row.id = d.id => row.msgs = d.msgs
      BY DEF ResaveOK
    <2>1. k \in Tasks /\ task'[k] = task[k] /\ task[k].panel \in Panels
      BY <1>1
    <2>2. task[k].panel # Mounted
      <3>1. Active(k) /\ task[k].pc # "done"
        BY <2>1 DEF Active
      <3> QED
        BY <1>3, <1>4, <2>1, <3>1 DEF Mounts, IsOp, IsSend, Idly
    <2>3. P(k)' = P(k)
      BY <1>1, <2>1, <2>2 DEF P
    <2> QED
      BY <1>2, <2>1, <2>3 DEF ResaveOK
  <1>11. PanelOK'
    <2>1. /\ Mine'.items = Mine.items /\ Mine'.cur = Mine.cur
          /\ Mine'.cur = {} => Mine'.chat = <<>> /\ Mine'.dirty = {}
      BY <1>1
    <2>2. Sending(Mounted)'
      BY <1>0, <1>1 DEF Sending
    <2>3. \A k \in Tasks' : IsSend(k)' => SendOK(k)'
      <3> SUFFICES ASSUME NEW k \in Tasks', IsSend(k)' PROVE SendOK(k)'
        OBVIOUS
      <3>1. k = n
        BY <1>1, <1>3
      <3> QED
        BY <1>1, <3>1 DEF SendOK
    <2> QED
      BY <1>2, <2>1, <2>2, <2>3 DEF PanelOK
  <1> QED
    BY <1>7, <1>8, <1>9, <1>10, <1>11 DEF ConvInv

\* The panel with which an operation begins.
LEMMA BegunIs ==
  ASSUME NEW pn \in PanelType
  PROVE  /\ Begun(pn) \in PanelType /\ Begun(pn).loading = TRUE /\ Begun(pn).busy = pn.busy
         /\ Begun(pn).cur = pn.cur /\ Begun(pn).items = pn.items /\ Begun(pn).chat = pn.chat
         /\ Begun(pn).dirty = pn.dirty /\ Begun(pn).gen = pn.gen + 1
  <1>1. pn \in Panel /\ One(pn) /\ pn.gen \in Nat /\ pn.gen + 1 \in Nat
    BY DEF PanelType, Panel
  <1>2. PICK g : g = pn.gen + 1
    OBVIOUS
  <1>3. PICK bn : bn = [pn EXCEPT !.gen = g, !.loading = TRUE]
    OBVIOUS
  <1>4. Begun(pn) = bn
    BY <1>2, <1>3 DEF Begun
  <1>5. /\ bn \in Panel /\ bn.loading = TRUE /\ bn.busy = pn.busy
        /\ bn.cur = pn.cur /\ bn.items = pn.items /\ bn.chat = pn.chat
        /\ bn.dirty = pn.dirty /\ bn.gen = g
    BY <1>1, <1>2, <1>3 DEF Panel
  <1>6. bn \in PanelType
    BY <1>1, <1>5 DEF PanelType, One
  <1> QED
    BY <1>2, <1>4, <1>5, <1>6

LEMMA LoadingIs ==
  ASSUME NEW pn \in PanelType
  PROVE  /\ [pn EXCEPT !.loading = TRUE] \in PanelType /\ [pn EXCEPT !.loading = TRUE].loading = TRUE
         /\ [pn EXCEPT !.loading = TRUE].busy = pn.busy /\ [pn EXCEPT !.loading = TRUE].cur = pn.cur
         /\ [pn EXCEPT !.loading = TRUE].items = pn.items
         /\ [pn EXCEPT !.loading = TRUE].chat = pn.chat
         /\ [pn EXCEPT !.loading = TRUE].dirty = pn.dirty
         /\ [pn EXCEPT !.loading = TRUE].gen = pn.gen
  BY DEF PanelType, Panel, One

\* An operation begins.
LEMMA OpBegins ==
  ASSUME ConvInv, NEW pn \in PanelType, NEW s \in Task, Start(pn, s), s.pc # "done",
         pn.loading = TRUE, pn.busy = Mine.busy, pn.dirty = Mine.dirty, pn.items = Mine.items,
         pn.cur = Mine.cur, pn.chat = Mine.chat,
         s.kind \notin Sends, s.kind # "dispose", s.pc \in PcOf(s.kind),
         scope' \in Drafts, scope' = scope \/ pn.gen = Mine.gen + 1,
         \/ pn.gen = Mine.gen + 1 /\ s.pc = "wait" /\ (s.kind # "load" => ~Mine.loading)
         \/ pn.gen = Mine.gen /\ ~Mine.loading /\ (s.pc = "wait" \/ ~Mine.busy),
         \/ s.pc = "wait"
         \/ s.pc = "mark" /\ s.kind = "archive" /\ Listed(Mine, s),
         s.kind = "edit" => s.n >= 1, s.kind = "retry" => Asks(s.msgs, s.n),
         s.kind = "remove" => s.conv \in Born /\ (s.was \/ ~Shows(Mine, s.conv)),
         \/ given' = given /\ s.kind \notin Creators
         \/ /\ given' = given + 1 /\ given < MaxConvs /\ s.conv = given + 1
            /\ OfIn(s.msgs, Born) /\ Ordered(s.msgs),
         rows' = rows, fails' = fails, said' \in 0..MaxSaid
  PROVE  ConvInv' /\ Grow
  <1>1. /\ Shape /\ QueueOK /\ TasksOK /\ OrderOK
    BY DEF ConvInv
  <1>2. PICK t : /\ Starts(pn, t) /\ t.kind = s.kind /\ t.pc = s.pc /\ t.conv = s.conv
                 /\ t.msgs = s.msgs /\ t.was = s.was /\ t.n = s.n /\ t.scope = scope'
                 /\ t.pc \in InQueue => calls' = Append(calls, Len(task'))
                 /\ t.pc \notin InQueue => calls' = calls
    BY <1>1, StartIs
  <1>3. pn.gen = Mine.gen \/ pn.gen = Mine.gen + 1
    OBVIOUS
  <1>4. QueueOK' /\ calls' \in Seq(Nat)
    BY <1>1, <1>2, <1>3, QueueStart
  <1>5. TasksOK' /\ Born \subseteq Born'
    <2>1. t.kind # "ask"
      BY <1>2 DEF Sends
    <2> QED
      BY <1>1, <1>2, <1>3, <2>1, TasksStart
  <1>6. OrderOK'
    <2>1. CASE pn.gen = Mine.gen + 1 /\ s.pc = "wait" /\ (s.kind # "load" => ~Mine.loading)
      <3>1. calls' = calls
        BY <1>2, <2>1 DEF InQueue
      <3> QED
        BY <1>1, <1>2, <2>1, <3>1, Overtakes
    <2>2. CASE pn.gen = Mine.gen /\ ~Mine.loading /\ (s.pc = "wait" \/ ~Mine.busy)
      BY <1>1, <1>2, <2>2, BeginsAlone
    <2> QED
      BY <2>1, <2>2
  <1>7. given' \in 0..MaxConvs
    BY <1>1, ConversationsAssumption DEF Shape
  <1>8. Listed(Mine, s) => Listed(Mine, t)
    BY <1>2 DEF Listed
  <1> QED
    BY <1>2, <1>3, <1>4, <1>5, <1>6, <1>7, <1>8, OpStarts

LEMMA SwitchKeep ==
  ASSUME ConvInv, NEW d \in Drafts, Switch(d) PROVE ConvInv' /\ Grow
  <1>1. Shape /\ Mine \in PanelType /\ said \in 0..MaxSaid
    BY Places DEF ConvInv, Shape
  <1>2. PICK pn : pn = Begun(Mine)
    OBVIOUS
  <1>3. PICK s : s = T("load", "wait", None)
    OBVIOUS
  <1>4. /\ s \in Task /\ s.kind = "load" /\ s.pc = "wait"
    BY <1>1, <1>3, WaitIs
  <1>5. /\ pn \in PanelType /\ pn.loading = TRUE /\ pn.busy = Mine.busy /\ pn.cur = Mine.cur
        /\ pn.items = Mine.items /\ pn.chat = Mine.chat /\ pn.dirty = Mine.dirty
        /\ pn.gen = Mine.gen + 1
    BY <1>1, <1>2, BegunIs
  <1>6. Start(pn, s) /\ scope' = d /\ rows' = rows /\ given' = given /\ said' = said /\ fails' = fails
    BY <1>2, <1>3 DEF Switch
  <1>7. s.kind \notin Sends /\ s.kind \notin Creators /\ s.pc \in PcOf(s.kind) /\ s.pc # "done"
    BY <1>4 DEF Sends, Creators, Derives, PcOf
  <1> QED
    BY <1>1, <1>4, <1>5, <1>6, <1>7, OpBegins

LEMMA RefreshKeep ==
  ASSUME ConvInv, ~Hurries, Refresh PROVE ConvInv' /\ Grow
  <1>1. Shape /\ Mine \in PanelType /\ said \in 0..MaxSaid /\ scope \in Drafts
    BY Places DEF ConvInv, Shape
  <1>2. PICK pn : pn = [Mine EXCEPT !.loading = TRUE]
    OBVIOUS
  <1>3. PICK s : s = T("refresh", "wait", None)
    OBVIOUS
  <1>4. /\ s \in Task /\ s.kind = "refresh" /\ s.pc = "wait"
    BY <1>1, <1>3, WaitIs
  <1>5. /\ pn \in PanelType /\ pn.loading = TRUE /\ pn.busy = Mine.busy /\ pn.cur = Mine.cur
        /\ pn.items = Mine.items /\ pn.chat = Mine.chat /\ pn.dirty = Mine.dirty
        /\ pn.gen = Mine.gen
    BY <1>1, <1>2, LoadingIs
  <1>6. /\ Start(pn, s) /\ scope' = scope /\ rows' = rows /\ given' = given /\ said' = said
        /\ fails' = fails /\ ~Mine.loading
    BY <1>2, <1>3 DEF Refresh, Hurries
  <1>7. s.kind \notin Sends /\ s.kind \notin Creators /\ s.pc \in PcOf(s.kind) /\ s.pc # "done"
    BY <1>4 DEF Sends, Creators, Derives, PcOf
  <1> QED
    BY <1>1, <1>4, <1>5, <1>6, <1>7, OpBegins

LEMMA OpenKeep ==
  ASSUME ConvInv, ~Hurries, NEW id \in Convs, Open(id) PROVE ConvInv' /\ Grow
  <1>1. Shape /\ Mine \in PanelType /\ said \in 0..MaxSaid /\ scope \in Drafts
    BY Places DEF ConvInv, Shape
  <1>2. PICK pn : pn = Begun(Mine)
    OBVIOUS
  <1>3. PICK s : s = T("open", "wait", id)
    OBVIOUS
  <1>4. /\ s \in Task /\ s.kind = "open" /\ s.pc = "wait"
    BY <1>1, <1>3, WaitIs
  <1>5. /\ pn \in PanelType /\ pn.loading = TRUE /\ pn.busy = Mine.busy /\ pn.cur = Mine.cur
        /\ pn.items = Mine.items /\ pn.chat = Mine.chat /\ pn.dirty = Mine.dirty
        /\ pn.gen = Mine.gen + 1
    BY <1>1, <1>2, BegunIs
  <1>6. /\ Start(pn, s) /\ scope' = scope /\ rows' = rows /\ given' = given /\ said' = said
        /\ fails' = fails /\ ~Mine.loading
    BY <1>2, <1>3 DEF Open, Hurries
  <1>7. s.kind \notin Sends /\ s.kind \notin Creators /\ s.pc \in PcOf(s.kind) /\ s.pc # "done"
    BY <1>4 DEF Sends, Creators, Derives, PcOf
  <1> QED
    BY <1>1, <1>4, <1>5, <1>6, <1>7, OpBegins

LEMMA NewKeep ==
  ASSUME ConvInv, New PROVE ConvInv' /\ Grow
  <1>1. Shape /\ Mine \in PanelType /\ said \in 0..MaxSaid /\ scope \in Drafts /\ given \in 0..MaxConvs
    BY Places DEF ConvInv, Shape
  <1>2. PICK pn : pn = Begun(Mine)
    OBVIOUS
  <1>3. PICK s : s = T("new", "wait", given + 1)
    OBVIOUS
  <1>4. given < MaxConvs /\ given' = given + 1 /\ given + 1 \in Convs
    BY <1>1, ConversationsAssumption DEF New, Convs
  <1>5. /\ s \in Task /\ s.kind = "new" /\ s.pc = "wait" /\ s.conv = given + 1
        /\ s.msgs = <<>>
    BY <1>1, <1>3, <1>4, WaitIs
  <1>6. /\ pn \in PanelType /\ pn.loading = TRUE /\ pn.busy = Mine.busy /\ pn.cur = Mine.cur
        /\ pn.items = Mine.items /\ pn.chat = Mine.chat /\ pn.dirty = Mine.dirty
        /\ pn.gen = Mine.gen + 1
    BY <1>1, <1>2, BegunIs
  <1>7. /\ Start(pn, s) /\ scope' = scope /\ rows' = rows /\ said' = said /\ fails' = fails
        /\ ~Mine.loading
    BY <1>2, <1>3 DEF New
  <1>8. s.kind \notin Sends /\ s.pc \in PcOf(s.kind) /\ s.pc # "done"
        /\ OfIn(s.msgs, Born) /\ Ordered(s.msgs)
    BY <1>5 DEF Sends, Creators, Derives, PcOf, OfIn, Ordered
  <1> QED
    BY <1>1, <1>4, <1>5, <1>6, <1>7, <1>8, OpBegins

LEMMA ArchiveKeep ==
  ASSUME ConvInv, NEW id \in Convs, Archive(id) PROVE ConvInv' /\ Grow
  <1>1. Shape /\ Mine \in PanelType /\ said \in 0..MaxSaid /\ scope \in Drafts
    BY Places DEF ConvInv, Shape
  <1>2. PICK pn : pn = [Mine EXCEPT !.loading = TRUE]
    OBVIOUS
  <1>3. PICK u : u = T("archive", "mark", id)
    OBVIOUS
  <1>4. PICK s : s = [u EXCEPT !.was = ~CardOf(Mine.items, id).archived,
                               !.msgs = Found(Mine, id).msgs]
    OBVIOUS
  <1>5. id \in Ids(Mine.items) /\ ~Mine.loading /\ ~Mine.busy
    BY DEF Archive
  <1>5a. PICK c \in Mine.items : c.id = id
    BY <1>5 DEF Ids
  <1>5b. PICK f \in Mine.items \cup Mine.cur : f = Found(Mine, id) /\ f.id = id
    <2>1. CASE Shows(Mine, id)
      <3>1. \E card \in Mine.cur : card.id = id
        BY <2>1 DEF Shows
      <3> QED
        BY <2>1, <3>1 DEF Found, CardOf
    <2>2. CASE ~Shows(Mine, id)
      BY <1>5a, <2>2 DEF Found, CardOf
    <2> QED
      BY <2>1, <2>2
  <1>5c. f \in Card /\ f.msgs \in Seq(Message) /\ f.msgs = c.msgs
    <2>1. f \in Card
      BY <1>1, <1>5b DEF PanelType, Panel
    <2>2. PanelOK /\ OrderOK /\ RowsOK
      BY DEF ConvInv
    <2>3. PanelGood(Mine, rows)
      BY <1>5, <2>2, Shown DEF OrderOK, SendsWait
    <2> QED
      BY <1>5a, <1>5b, <2>1, <2>2, <2>3, SameMsgs DEF Card
  <1>6. CardOf(Mine.items, id).archived \in BOOLEAN
    <2>1. CardOf(Mine.items, id) \in Mine.items
      BY <1>5 DEF Ids, CardOf
    <2>2. CardOf(Mine.items, id) \in Card
      BY <1>1, <2>1 DEF PanelType, Panel
    <2> QED
      BY <2>2 DEF Card
  <1>7. u \in Task /\ u.kind = "archive" /\ u.pc = "mark" /\ u.conv = id
    BY <1>1, <1>3, TIs DEF InQueue
  <1>8. s \in Task /\ s.kind = "archive" /\ s.pc = "mark" /\ s.conv = id /\ s.msgs = f.msgs
    BY <1>4, <1>5b, <1>5c, <1>6, <1>7 DEF Task
  <1>8a. Listed(Mine, s)
    BY <1>5a, <1>5c, <1>8 DEF Listed
  <1>9. /\ pn \in PanelType /\ pn.loading = TRUE /\ pn.busy = Mine.busy /\ pn.cur = Mine.cur
        /\ pn.items = Mine.items /\ pn.chat = Mine.chat /\ pn.dirty = Mine.dirty
        /\ pn.gen = Mine.gen
    BY <1>1, <1>2, LoadingIs
  <1>10. Start(pn, s) /\ scope' = scope /\ rows' = rows /\ given' = given /\ said' = said /\ fails' = fails
    BY <1>2, <1>3, <1>4 DEF Archive
  <1>11. s.kind \notin Sends /\ s.kind \notin Creators /\ s.pc \in PcOf(s.kind) /\ s.pc # "done"
    BY <1>8 DEF Sends, Creators, Derives, PcOf
  <1> QED
    BY <1>1, <1>5, <1>8, <1>8a, <1>9, <1>10, <1>11, OpBegins

LEMMA DiscardKeep ==
  ASSUME ConvInv, NEW id \in Convs, Discard(id) PROVE ConvInv' /\ Grow
  <1>1. Shape /\ Mine \in PanelType /\ said \in 0..MaxSaid /\ scope \in Drafts
    BY Places DEF ConvInv, Shape
  <1>2. PICK pn : pn = IF Shows(Mine, id) THEN Begun(Mine) ELSE [Mine EXCEPT !.loading = TRUE]
    OBVIOUS
  <1>3. PICK u : u = T("remove", "wait", id)
    OBVIOUS
  <1>4. PICK s : s = [u EXCEPT !.was = Shows(Mine, id)]
    OBVIOUS
  <1>5. id \in Ids(Mine.items) /\ ~Mine.loading /\ ~Mine.busy
    BY DEF Discard
  <1>6. id \in Born
    <2>1. PICK card \in Mine.items : card.id = id
      BY <1>5 DEF Ids
    <2>2. PICK row \in rows : row.id = card.id
      BY <2>1 DEF ConvInv, PanelOK, Same
    <2> QED
      BY <2>1, <2>2 DEF ConvInv, RowsOK, RowOK
  <1>7. u \in Task /\ u.kind = "remove" /\ u.pc = "wait" /\ u.conv = id
    BY <1>1, <1>3, WaitIs
  <1>8. /\ s \in Task /\ s.kind = "remove" /\ s.pc = "wait" /\ s.conv = id
        /\ s.was \/ ~Shows(Mine, id)
    <2>1. Shows(Mine, id) \in BOOLEAN
      BY DEF Shows
    <2>2. s \in Task /\ s.kind = "remove" /\ s.pc = "wait" /\ s.conv = id /\ s.was = Shows(Mine, id)
      BY <1>4, <1>7, <2>1 DEF Task
    <2> QED
      BY <2>2
  <1>10. /\ pn \in PanelType /\ pn.loading = TRUE /\ pn.busy = Mine.busy /\ pn.cur = Mine.cur
         /\ pn.items = Mine.items /\ pn.chat = Mine.chat /\ pn.dirty = Mine.dirty
         /\ pn.gen = Mine.gen \/ pn.gen = Mine.gen + 1
    BY <1>1, <1>2, BegunIs, LoadingIs
  <1>11. Start(pn, s) /\ scope' = scope /\ rows' = rows /\ given' = given /\ said' = said /\ fails' = fails
    BY <1>2, <1>3, <1>4 DEF Discard
  <1>12. /\ s.kind \notin Sends /\ s.kind \notin Creators /\ s.pc \in PcOf(s.kind) /\ s.pc # "done"
         /\ s.kind # "load"
    BY <1>8 DEF Sends, Creators, Derives, PcOf
  <1> QED
    BY <1>1, <1>5, <1>6, <1>8, <1>10, <1>11, <1>12, OpBegins

\* What the panel shows when something can be said.
LEMMA CanSendFacts ==
  ASSUME ConvInv, CanSend(Mine)
  PROVE  /\ Mine \in PanelType /\ ~Mine.loading /\ ~Mine.busy /\ Mine.dirty = {}
         /\ ~Sending(Mounted)
         /\ Mine.cur = {} => Mine.chat = <<>>
         /\ \A card \in Mine.cur :
              /\ card \in Card /\ card.id \in Convs
              /\ Mine.chat = card.msgs /\ Ordered(card.msgs) /\ OfIn(card.msgs, Born)
  <1>1. Shape /\ OrderOK /\ PanelOK /\ RowsOK
    BY DEF ConvInv
  <1>2. Mine \in PanelType /\ ~Mine.loading /\ ~Mine.busy /\ Mine.dirty = {} /\ ~Sending(Mounted)
    BY <1>1, Places DEF CanSend, OrderOK, SendsWait
  <1>3. ASSUME NEW card \in Mine.cur
        PROVE  /\ card \in Card /\ card.id \in Convs
               /\ Mine.chat = card.msgs /\ Ordered(card.msgs) /\ OfIn(card.msgs, Born)
    <2>1. card \in Card /\ card.id \in Convs
      BY <1>2 DEF PanelType, Panel, Card
    <2>2. Mine.chat = card.msgs
      BY <1>1, <1>2 DEF PanelOK
    <2>3. PICK row \in rows : row.msgs = card.msgs
      BY <1>1 DEF PanelOK, Same
    <2> QED
      BY <1>1, <2>1, <2>2, <2>3 DEF RowsOK, RowOK
  <1> QED
    BY <1>1, <1>2, <1>3 DEF PanelOK

LEMMA DeriveKeep ==
  ASSUME ConvInv, NEW kind \in Derives, NEW k \in Nat, Derive(kind, k) PROVE ConvInv' /\ Grow
  <1>1. Shape /\ said \in 0..MaxSaid /\ scope \in Drafts /\ given \in 0..MaxConvs
        /\ MaxSaid \in Nat /\ MaxConvs \in Nat
    BY ConversationsAssumption DEF ConvInv, Shape
  <1>2. PICK pn : pn = Begun(Mine)
    OBVIOUS
  <1>3. PICK chat : chat = Mine.chat
    OBVIOUS
  <1>4. PICK card \in Mine.cur :
          Start(pn, [T(kind, "wait", given + 1) EXCEPT
                     !.from = card.id, !.n = IF kind = "edit" THEN said + 1 ELSE chat[k].n,
                     !.msgs = SubSeq(chat, 1, IF kind = "branch" THEN k ELSE k - 1)])
    BY <1>2, <1>3 DEF Derive
  <1>5. PICK from : from = card.id
    OBVIOUS
  <1>6. PICK m : m = IF kind = "edit" THEN said + 1 ELSE chat[k].n
    OBVIOUS
  <1>7. PICK len : len = IF kind = "branch" THEN k ELSE k - 1
    OBVIOUS
  <1>8. PICK path : path = SubSeq(chat, 1, len)
    OBVIOUS
  <1>9. PICK u : u = T(kind, "wait", given + 1)
    OBVIOUS
  <1>10. PICK s : s = [u EXCEPT !.from = from, !.n = m, !.msgs = path]
    OBVIOUS
  <1>11. Start(pn, s)
    BY <1>4, <1>5, <1>6, <1>7, <1>8, <1>9, <1>10
  <1>12. /\ CanSend(Mine) /\ k \in DOMAIN chat /\ given < MaxConvs /\ given' = given + 1
         /\ scope' = scope /\ rows' = rows /\ fails' = fails
         /\ kind = "edit" => said < MaxSaid
         /\ kind = "retry" => chat[k].role = "assistant" /\ k > 1 /\ chat[k - 1].role = "user"
         /\ said' = IF kind = "edit" THEN said + 1 ELSE said
    BY <1>3 DEF Derive
  <1>13. /\ Mine \in PanelType /\ ~Mine.loading /\ ~Mine.busy
         /\ from \in Convs /\ Ordered(chat) /\ OfIn(chat, Born) /\ chat \in Seq(Message)
    BY <1>3, <1>5, <1>12, CanSendFacts DEF PanelType, Panel
  <1>14. k \in 1..Len(chat) /\ Len(chat) \in Nat /\ chat[k] \in Message /\ len \in 0..Len(chat)
    BY <1>7, <1>12, <1>13
  <1>15. /\ path \in Seq(Message) /\ Len(path) = len /\ Ordered(path) /\ OfIn(path, Born)
         /\ \A j \in 1..len : path[j] = chat[j]
    BY <1>8, <1>13, <1>14, PathOK
  <1>16. m \in 1..MaxSaid
    BY <1>1, <1>6, <1>12, <1>14 DEF Message
  <1>17. kind = "retry" => Asks(path, m)
    <2> SUFFICES ASSUME kind = "retry" PROVE Asks(path, m)
      OBVIOUS
    <2>1. len = k - 1 /\ m = chat[k].n /\ chat[k].role = "assistant" /\ k > 1
          /\ chat[k - 1].role = "user"
      BY <1>6, <1>7, <1>12
    <2>2. chat[k - 1].n = chat[k].n
      BY <1>12, <1>13, <2>1 DEF Ordered
    <2>3. path[len] = chat[k - 1] /\ path # <<>>
      BY <1>14, <1>15, <2>1
    <2> QED
      BY <1>15, <2>1, <2>2, <2>3 DEF Asks
  <1>18. /\ u \in Task /\ u.kind = kind /\ u.pc = "wait" /\ u.conv = given + 1
    <2>1. given + 1 \in Convs
      BY <1>1, <1>12 DEF Convs
    <2>2. PICK id : id = given + 1
      OBVIOUS
    <2>3. u = T(kind, "wait", id) /\ id \in Convs \cup {None} /\ Shape
      BY <1>1, <1>9, <2>1, <2>2
    <2>4. kind \in {"load", "refresh", "open", "new", "remove"} \cup Derives
      OBVIOUS
    <2> QED
      BY <2>2, <2>3, <2>4, WaitIs
  <1>19. /\ s \in Task /\ s.kind = kind /\ s.pc = "wait" /\ s.conv = given + 1
         /\ s.n = m /\ s.msgs = path
    <2>1. u \in Task /\ u.kind = kind /\ u.pc = "wait" /\ u.conv = given + 1
      BY <1>18
    <2>2. m \in 0..MaxSaid /\ from \in Convs \cup {None} /\ path \in Seq(Message)
      BY <1>1, <1>13, <1>15, <1>16
    <2> QED
      BY <1>10, <2>1, <2>2 DEF Task
  <1>20. /\ pn \in PanelType /\ pn.loading = TRUE /\ pn.busy = Mine.busy /\ pn.cur = Mine.cur
         /\ pn.items = Mine.items /\ pn.chat = Mine.chat /\ pn.dirty = Mine.dirty
         /\ pn.gen = Mine.gen + 1
    BY <1>2, <1>13, BegunIs
  <1>21. /\ s.kind \notin Sends /\ s.pc \in PcOf(s.kind) /\ s.pc # "done"
         /\ s.kind \notin {"dispose", "remove"}
    BY <1>19 DEF Sends, Creators, Derives, PcOf
  <1>22. said' \in 0..MaxSaid /\ s.n >= 1
    BY <1>1, <1>12, <1>16, <1>19
  <1> QED
    BY <1>1, <1>11, <1>12, <1>13, <1>15, <1>17, <1>19, <1>20, <1>21, <1>22, OpBegins

\* A send begins.
LEMMA SendBegins ==
  ASSUME ConvInv, CanSend(Mine), NEW pn \in PanelType, NEW s \in Task, Start(pn, s),
         s.kind = "ask", s.pc \in {"create", "title", "prompt"},
         pn.gen = Mine.gen, pn.loading = Mine.loading, pn.busy = TRUE, pn.items = Mine.items,
         pn.cur = Mine.cur, Mine.cur = {} => pn.chat = <<>> /\ pn.dirty = {}, SendGood(pn, s),
         \/ given' = given /\ s.pc # "create"
         \/ given' = given + 1 /\ given < MaxConvs /\ s.conv = given + 1 /\ s.msgs = <<>>,
         scope' = scope, rows' = rows, fails' = fails, said < MaxSaid, said' = said + 1
  PROVE  ConvInv' /\ Grow
  <1>1. /\ Shape /\ QueueOK /\ TasksOK /\ OrderOK
    BY DEF ConvInv
  <1>2. /\ ~Mine.loading /\ ~Mine.busy /\ Mine.dirty = {}
    BY CanSendFacts
  <1>3. /\ scope \in Drafts /\ said' \in 0..MaxSaid /\ given' \in 0..MaxConvs /\ s.pc # "done"
    BY <1>1, ConversationsAssumption DEF Shape
  <1>4. PICK t : /\ Starts(pn, t) /\ t.kind = s.kind /\ t.pc = s.pc /\ t.conv = s.conv
                 /\ t.msgs = s.msgs /\ t.was = s.was /\ t.n = s.n /\ t.scope = scope'
                 /\ t.pc \in InQueue => calls' = Append(calls, Len(task'))
                 /\ t.pc \notin InQueue => calls' = calls
    BY <1>1, <1>3, StartIs
  <1>5. QueueOK' /\ calls' \in Seq(Nat)
    BY <1>1, <1>4, QueueStart
  <1>6. /\ t.kind = "ask" /\ t.kind \in Sends /\ t.kind \notin Creators /\ t.pc \in PcOf(t.kind)
        /\ t.pc \in InQueue \ {"resave", "delete"}
    BY <1>4 DEF Sends, Creators, Derives, PcOf, InQueue
  <1>7. TasksOK' /\ Born \subseteq Born'
    <2>1. \/ given' = given /\ t.pc # "create"
          \/ given' = given + 1 /\ t.conv = given + 1 /\ OfIn(t.msgs, Born) /\ Ordered(t.msgs)
      BY <1>4 DEF OfIn, Ordered
    <2> QED
      BY <1>1, <1>4, <1>6, <2>1, TasksStart
  <1>8. OrderOK'
    BY <1>1, <1>2, <1>4, <1>6, BeginsAlone
  <1>9. SendGood(pn, t)
    BY <1>4 DEF SendGood, AnswerOf
  <1> QED
    BY <1>2, <1>3, <1>4, <1>5, <1>6, <1>7, <1>8, <1>9, SendStarts

\* The task of a send that begins.
LEMMA AskIs ==
  ASSUME Shape, NEW pc \in {"create", "title", "prompt"}, NEW id \in Convs, NEW n \in 1..MaxSaid
  PROVE  /\ [T("ask", pc, id) EXCEPT !.n = n] \in Task
         /\ [T("ask", pc, id) EXCEPT !.n = n].kind = "ask"
         /\ [T("ask", pc, id) EXCEPT !.n = n].pc = pc
         /\ [T("ask", pc, id) EXCEPT !.n = n].conv = id
         /\ [T("ask", pc, id) EXCEPT !.n = n].n = n
         /\ [T("ask", pc, id) EXCEPT !.n = n].msgs = <<>>
  <1>1. PICK u : u = T("ask", pc, id)
    OBVIOUS
  <1>2. u \in Task /\ u.kind = "ask" /\ u.pc = pc /\ u.conv = id /\ u.msgs = <<>>
    BY <1>1, TIs DEF Sends, InQueue
  <1>3. n \in 0..MaxSaid
    BY ConversationsAssumption
  <1> QED
    BY <1>1, <1>2, <1>3 DEF Task

LEMMA SendKeeps ==
  ASSUME ConvInv, Send PROVE ConvInv' /\ Grow
  <1>1. Shape /\ said \in 0..MaxSaid /\ scope \in Drafts /\ given \in 0..MaxConvs
        /\ MaxSaid \in Nat /\ MaxConvs \in Nat
    BY ConversationsAssumption DEF ConvInv, Shape
  <1>2. /\ CanSend(Mine) /\ said < MaxSaid /\ said' = said + 1
        /\ scope' = scope /\ rows' = rows /\ fails' = fails
    BY DEF Send
  <1>3. /\ Mine \in PanelType /\ ~Mine.loading /\ ~Mine.busy /\ Mine.dirty = {}
        /\ Mine.cur = {} => Mine.chat = <<>>
        /\ \A card \in Mine.cur :
              /\ card \in Card /\ card.id \in Convs
              /\ Mine.chat = card.msgs /\ Ordered(card.msgs)
    BY <1>2, CanSendFacts
  <1>4. PICK pn : pn = [Mine EXCEPT !.busy = TRUE]
    OBVIOUS
  <1>5. /\ pn \in PanelType /\ pn.gen = Mine.gen /\ pn.loading = Mine.loading /\ pn.busy = TRUE
        /\ pn.items = Mine.items /\ pn.cur = Mine.cur /\ pn.chat = Mine.chat /\ pn.dirty = Mine.dirty
    BY <1>3, <1>4, BusyIs
  <1>6. said + 1 \in 1..MaxSaid
    BY <1>1, <1>2
  <1>8. CASE Mine.cur = {}
    <2>1. PICK s : s = [T("ask", "create", given + 1) EXCEPT !.n = said + 1]
      OBVIOUS
    <2>2. given < MaxConvs /\ given' = given + 1 /\ Start(pn, s)
      BY <1>4, <1>8, <2>1 DEF Send
    <2>3. given + 1 \in Convs
      BY <1>1, <2>2 DEF Convs
    <2>4. /\ s \in Task /\ s.kind = "ask" /\ s.pc = "create" /\ s.conv = given + 1
          /\ s.n = said + 1 /\ s.msgs = <<>>
      BY <1>1, <1>6, <2>1, <2>3, AskIs
    <2>5. SendGood(pn, s)
      BY <1>5, <1>6, <1>8, <2>4 DEF SendGood
    <2> QED
      BY <1>2, <1>3, <1>5, <1>8, <2>2, <2>4, <2>5, SendBegins
  <1>9. CASE Mine.cur # {}
    <2>1. PICK card \in Mine.cur :
            /\ given' = given
            /\ \/ /\ Mine.chat = <<>>
                  /\ Start(pn, [T("ask", "title", card.id) EXCEPT !.n = said + 1])
               \/ Start(Asking(pn, [T("ask", "prompt", card.id) EXCEPT !.n = said + 1]),
                        Saving(pn, [T("ask", "prompt", card.id) EXCEPT !.n = said + 1]))
      BY <1>4, <1>9 DEF Send
    <2>2. card \in pn.cur /\ card.id \in Convs /\ pn.chat = card.msgs /\ Ordered(card.msgs)
          /\ pn.dirty = {}
      BY <1>3, <1>5
    <2>3. ASSUME Mine.chat = <<>>, Start(pn, [T("ask", "title", card.id) EXCEPT !.n = said + 1])
          PROVE  ConvInv' /\ Grow
      <3>1. PICK s : s = [T("ask", "title", card.id) EXCEPT !.n = said + 1]
        OBVIOUS
      <3>2. Start(pn, s)
        BY <2>3, <3>1
      <3>3. /\ s \in Task /\ s.kind = "ask" /\ s.pc = "title" /\ s.conv = card.id
            /\ s.n = said + 1
        BY <1>1, <1>6, <2>2, <3>1, AskIs
      <3>4. SendGood(pn, s)
        <4>1. pn.chat = <<>> /\ card.msgs = <<>>
          BY <1>5, <2>2, <2>3
        <4>2. s.n >= 1
          BY <1>6, <3>3
        <4> QED
          BY <2>2, <3>3, <4>1, <4>2 DEF SendGood
      <3> QED
        BY <1>2, <1>3, <1>5, <1>9, <2>1, <3>2, <3>3, <3>4, SendBegins
    <2>4. ASSUME Start(Asking(pn, [T("ask", "prompt", card.id) EXCEPT !.n = said + 1]),
                       Saving(pn, [T("ask", "prompt", card.id) EXCEPT !.n = said + 1]))
          PROVE  ConvInv' /\ Grow
      <3>1. PICK s : s = [T("ask", "prompt", card.id) EXCEPT !.n = said + 1]
        OBVIOUS
      <3>2. Start(Asking(pn, s), Saving(pn, s))
        BY <2>4, <3>1
      <3>3. /\ s \in Task /\ s.kind = "ask" /\ s.pc = "prompt" /\ s.conv = card.id
            /\ s.n = said + 1
        BY <1>1, <1>6, <2>2, <3>1, AskIs
      <3>4. PICK an : an = Asking(pn, s)
        OBVIOUS
      <3>5. PICK st : st = Prompted(pn, s)
        OBVIOUS
      <3>6. /\ an \in PanelType /\ an.gen = pn.gen /\ an.loading = pn.loading /\ an.busy = pn.busy
            /\ an.cur = pn.cur /\ an.items = pn.items
            /\ st \in Task /\ st.pc = "prompt" /\ st.kind = "ask" /\ SendGood(an, st)
        BY <1>5, <1>6, <2>2, <3>3, <3>4, <3>5, AskingIs
      <3>7. Saving(pn, s) = st
        BY <3>3, <3>5 DEF Prompted, Saving, Task
      <3>8. Start(an, st)
        BY <3>2, <3>4, <3>7
      <3> QED
        BY <1>2, <1>5, <1>9, <2>1, <3>6, <3>8, SendBegins
    <2> QED
      BY <2>1, <2>3, <2>4
  <1> QED
    BY <1>8, <1>9

\* The panel is mounted again.
LEMMA RemountIs ==
  ASSUME Shape, Remount, NEW n, n = Len(task) + 1, NEW m, m = Len(task) + 2
  PROVE  /\ Mounted' = Mounted + 1 /\ Panels' = Panels \cup {Mounted + 1} /\ Mounted \in Nat
         /\ Mounted' \in 1..MaxPanels
         /\ panel' \in Seq(Panel) /\ Mine' = NewPanel /\ NewPanel \in PanelType
         /\ \A p \in Panels : /\ panel'[p] \in PanelType /\ panel'[p].dirty = panel[p].dirty
                              /\ panel[p].gen <= panel'[p].gen
                              /\ p \in 1..Mounted
         /\ task' \in Seq(Task) /\ Tasks' = Tasks \cup {n, m} /\ n \notin Tasks /\ m \notin Tasks
         /\ n # m
         /\ \A k \in Tasks : task'[k] = task[k]
         /\ task'[n].kind = "dispose" /\ task'[n].pc = "wait" /\ task'[n].panel = Mounted
         /\ task'[m].kind = "load" /\ task'[m].pc = "wait" /\ task'[m].panel = Mounted + 1
         /\ task'[m].token = 1 /\ task'[m].scope = scope
  <1>1. /\ Len(panel) \in Nat /\ Len(task) \in Nat /\ Mounted \in Panels /\ Mine \in PanelType
        /\ \A p \in Panels : panel[p] \in PanelType
        /\ panel \in Seq(Panel) /\ task \in Seq(Task) /\ scope \in Drafts /\ MaxPanels \in Nat
    BY Places DEF Shape
  <1>2. /\ Mounted < MaxPanels
        /\ panel' = Append([panel EXCEPT ![Mounted].gen = @ + 1], NewPanel)
        /\ task' = task \o << [Over EXCEPT !.kind = "dispose", !.pc = "wait", !.panel = Mounted,
                                           !.scope = scope], LoadOf(Mounted + 1) >>
    BY DEF Remount
  <1>3. PICK pn : pn = [Mine EXCEPT !.gen = @ + 1]
    OBVIOUS
  <1>4. pn \in PanelType /\ pn.dirty = Mine.dirty /\ pn.gen = Mine.gen + 1 /\ Mine.gen \in Nat
    <2>1. Mine.gen \in Nat /\ Mine.gen + 1 \in Nat /\ Mine \in Panel /\ One(Mine)
      BY <1>1 DEF PanelType, Panel
    <2>2. PICK g : g = Mine.gen + 1
      OBVIOUS
    <2>3. pn = [Mine EXCEPT !.gen = g]
      BY <1>3, <2>2
    <2>4. pn \in Panel /\ pn.dirty = Mine.dirty /\ pn.gen = g /\ pn.cur = Mine.cur
      BY <2>1, <2>2, <2>3 DEF Panel
    <2> QED
      BY <2>1, <2>2, <2>4 DEF PanelType, One
  <1>5. NewPanel \in PanelType
    <2>1. <<>> \in Seq(Message)
      OBVIOUS
    <2> QED
      BY <2>1 DEF NewPanel, PanelType, Panel, One
  <1>6. PICK ps : ps = [panel EXCEPT ![Mounted] = pn]
    OBVIOUS
  <1>7. /\ ps \in Seq(Panel) /\ Len(ps) = Len(panel) /\ ps[Mounted] = pn
        /\ \A p \in Panels : p # Mounted => ps[p] = panel[p]
    BY <1>1, <1>4, <1>6, ExceptSeq DEF PanelType, Mounted, Panels
  <1>8. panel' = Append(ps, NewPanel)
    BY <1>1, <1>2, <1>3, <1>6 DEF Mine
  <1>9. /\ panel' \in Seq(Panel) /\ Len(panel') = Len(panel) + 1
        /\ panel'[Len(panel) + 1] = NewPanel /\ \A p \in Panels : panel'[p] = ps[p]
    <2>1. PICK x : x = NewPanel
      OBVIOUS
    <2>2. x \in Panel /\ panel' = Append(ps, x) /\ Panels = 1..Len(ps) /\ Len(ps) = Len(panel)
      BY <1>5, <1>7, <1>8, <2>1 DEF Panels, PanelType
    <2> QED
      BY <1>1, <1>7, <2>1, <2>2
  <1>10. PICK dt : dt = [Over EXCEPT !.kind = "dispose", !.pc = "wait", !.panel = Mounted,
                                     !.scope = scope]
    OBVIOUS
  <1>11. PICK lt : lt = LoadOf(Mounted + 1)
    OBVIOUS
  <1>12. /\ dt \in Task /\ dt.kind = "dispose" /\ dt.pc = "wait" /\ dt.panel = Mounted
         /\ lt \in Task /\ lt.kind = "load" /\ lt.pc = "wait" /\ lt.panel = Mounted + 1
         /\ lt.token = 1 /\ lt.scope = scope
    <2>1. Mounted \in 1..MaxPanels /\ Mounted + 1 \in 1..MaxPanels
      BY <1>1, <1>2 DEF Mounted, Panels
    <2>2. Over \in Task
      BY OverType
    <2> QED
      BY <1>1, <1>10, <1>11, <2>1, <2>2 DEF LoadOf, Task, Waiting
  <1>13. task' = task \o <<dt, lt>>
    BY <1>2, <1>10, <1>11
  <1>14. /\ task' \in Seq(Task) /\ Len(task') = Len(task) + 2
         /\ task'[n] = dt /\ task'[m] = lt
         /\ \A k \in Tasks : task'[k] = task[k]
    BY <1>1, <1>12, <1>13 DEF Tasks
  <1>15. Mounted' = Mounted + 1 /\ Panels' = Panels \cup {Mounted + 1} /\ Mine' = NewPanel
    BY <1>1, <1>9 DEF Mounted, Panels, Mine
  <1>16. /\ Tasks' = Tasks \cup {n, m} /\ n \notin Tasks /\ m \notin Tasks /\ n # m
    BY <1>1, <1>14 DEF Tasks
  <1>17. \A p \in Panels : /\ panel'[p] \in PanelType /\ panel'[p].dirty = panel[p].dirty
                           /\ panel[p].gen <= panel'[p].gen
                           /\ p \in 1..Mounted
    <2> SUFFICES ASSUME NEW p \in Panels
                 PROVE  /\ panel'[p] \in PanelType /\ panel'[p].dirty = panel[p].dirty
                        /\ panel[p].gen <= panel'[p].gen
                        /\ p \in 1..Mounted
      OBVIOUS
    <2>1. p \in 1..Mounted
      BY DEF Mounted, Panels
    <2>2. panel[p].gen \in Nat
      BY <1>1 DEF PanelType, Panel
    <2>3. CASE p = Mounted
      <3>1. panel'[p] = pn /\ panel[p] = Mine
        BY <1>7, <1>9, <2>3 DEF Mine
      <3> QED
        BY <1>4, <2>1, <3>1
    <2>4. CASE p # Mounted
      <3>1. panel'[p] = panel[p]
        BY <1>7, <1>9, <2>4
      <3> QED
        BY <1>1, <2>1, <2>2, <3>1
    <2> QED
      BY <2>3, <2>4
  <1> QED
    <2>1. Mounted \in Nat /\ Mounted + 1 \in 1..MaxPanels
      BY <1>1, <1>2 DEF Mounted
    <2> QED
      BY <1>5, <1>9, <1>12, <1>14, <1>15, <1>16, <1>17, <2>1

LEMMA RemountKeep ==
  ASSUME ConvInv, ~Hurries, Remount PROVE ConvInv' /\ Grow
  <1>1. /\ Shape /\ QueueOK /\ TasksOK /\ OrderOK /\ RowsOK /\ CleanOK /\ ResaveOK /\ PanelOK
    BY DEF ConvInv
  <1>2. /\ ~Sending(Mounted) /\ Mine.dirty = {}
        /\ scope' = scope /\ rows' = rows /\ calls' = calls /\ given' = given /\ said' = said
        /\ fails' = fails
    BY DEF Remount, Hurries
  <1>3. PICK n, m : n = Len(task) + 1 /\ m = Len(task) + 2
    OBVIOUS
  <1>4. /\ Mounted' = Mounted + 1 /\ Panels' = Panels \cup {Mounted + 1} /\ Mounted \in Nat
        /\ Mounted' \in 1..MaxPanels
        /\ panel' \in Seq(Panel) /\ Mine' = NewPanel /\ NewPanel \in PanelType
        /\ \A p \in Panels : /\ panel'[p] \in PanelType /\ panel'[p].dirty = panel[p].dirty
                             /\ panel[p].gen <= panel'[p].gen
                             /\ p \in 1..Mounted
        /\ task' \in Seq(Task) /\ Tasks' = Tasks \cup {n, m} /\ n \notin Tasks /\ m \notin Tasks
        /\ n # m
        /\ \A k \in Tasks : task'[k] = task[k]
        /\ task'[n].kind = "dispose" /\ task'[n].pc = "wait" /\ task'[n].panel = Mounted
        /\ task'[m].kind = "load" /\ task'[m].pc = "wait" /\ task'[m].panel = Mounted + 1
        /\ task'[m].token = 1 /\ task'[m].scope = scope
    BY <1>1, <1>3, RemountIs
  <1>5. \A k \in Tasks : /\ task[k].panel \in Panels /\ task[k] \in Task
                         /\ task[k].panel \in 1..Mounted /\ task[k].panel # Mounted'
    <2> SUFFICES ASSUME NEW k \in Tasks
                 PROVE  /\ task[k].panel \in Panels /\ task[k] \in Task
                        /\ task[k].panel \in 1..Mounted /\ task[k].panel # Mounted'
      OBVIOUS
    <2>1. task[k].panel \in Panels /\ task[k] \in Task
      BY <1>1, Places DEF TasksOK, TaskOK
    <2>2. task[k].panel \in 1..Mounted
      BY <1>4, <2>1
    <2> QED
      BY <1>4, <2>1, <2>2
  <1>6. \A k \in Tasks : ~IsSend(k)
    BY <1>1, <1>2, NoSends
  <1>7. \A k \in Tasks : /\ ~Mounts(k)' /\ ~Current(k)'
                         /\ Active(k)' <=> Active(k)
                         /\ Creating(k)' <=> Creating(k)
                         /\ ~IsSend(k)'
    BY <1>4, <1>5, <1>6 DEF Mounts, IsOp, IsSend, Active, Creating, Current
  <1>8. /\ ~Mounts(n)' /\ ~Current(n)' /\ ~Creating(n)' /\ ~IsSend(n)' /\ Active(n)'
    BY <1>4 DEF Mounts, Current, Creating, Creators, Derives, IsSend, Sends, Active
  <1>9. /\ Mounts(m)' /\ Latest(m)' /\ ~Creating(m)' /\ ~IsSend(m)' /\ Active(m)'
    BY <1>4 DEF Mounts, IsOp, Latest, Creating, Creators, Derives, IsSend, Sends, Active, NewPanel
  <1>10. \A k \in Tasks' : /\ ~IsSend(k)' /\ (Creating(k)' => k \in Tasks /\ Creating(k))
                           /\ (Mounts(k)' => k = m)
    BY <1>4, <1>7, <1>8, <1>9
  <1>11. /\ ~Sending(Mounted)' /\ \A p \in Panels' : ~Sending(p)'
    <2>1. \A k \in Tasks' : ~(task'[k].kind \in Sends /\ task'[k].pc # "done")
      BY <1>10 DEF IsSend, Active
    <2> QED
      BY <2>1 DEF Sending
  <1>12. Born' = Born
    BY <1>2, <1>4, <1>7, <1>10 DEF Born
  <1>13. Shape'
    <2>1. \A p \in Panels' : \A a, b \in panel'[p].cur : a = b
      BY <1>4 DEF PanelType, One, Mine
    <2>2. Len(panel') \in 1..MaxPanels
      BY <1>4 DEF Mounted
    <2> QED
      BY <1>1, <1>2, <1>4, <2>1, <2>2 DEF Shape
  <1>14. QueueOK'
    <2>1. /\ Distinct(calls) /\ (\A a \in 1..Len(calls) : calls[a] \in Tasks)
          /\ \A k \in Tasks : task[k].pc \in InQueue <=> In(calls, k)
      BY <1>1 DEF QueueOK
    <2>2. ~In(calls, n) /\ ~In(calls, m)
      BY <1>4, <2>1 DEF In
    <2>3. \A k \in Tasks' : task'[k].pc \in InQueue <=> In(calls, k)
      BY <1>4, <2>1, <2>2 DEF InQueue
    <2> QED
      BY <1>2, <1>4, <2>1, <2>3 DEF QueueOK
  <1>15. TasksOK'
    <2>1. ASSUME NEW k \in Tasks PROVE TaskOK(k)'
      <3>1. TaskOK(k) /\ task'[k] = task[k]
        BY <1>1, <1>4 DEF TasksOK
      <3>2. task[k].panel < Mounted'
        BY <1>4, <1>5
      <3>3. Active(k) /\ task[k].kind # "dispose" => task[k].token <= panel'[task[k].panel].gen
        <4>1. task[k].token \in Nat /\ panel[task[k].panel].gen \in Nat
              /\ panel'[task[k].panel].gen \in Nat
              /\ panel[task[k].panel].gen <= panel'[task[k].panel].gen
          BY <1>1, <1>4, <1>5, Places DEF Task, PanelType, Panel
        <4> QED
          BY <3>1, <4>1 DEF TaskOK
      <3>4. /\ task'[k].panel \in Panels' /\ (Active(k)' => task'[k].pc \in PcOf(task'[k].kind))
            /\ Active(k)' => IF task'[k].kind = "dispose" THEN task'[k].panel < Mounted'
                             ELSE task'[k].token <= panel'[task'[k].panel].gen
        BY <1>4, <1>5, <1>7, <3>1, <3>2, <3>3 DEF TaskOK
      <3>5. /\ Active(k)' /\ task'[k].kind = "edit" => task'[k].n >= 1
            /\ Active(k)' /\ task'[k].kind = "retry" => Asks(task'[k].msgs, task'[k].n)
            /\ Active(k)' /\ task'[k].kind = "remove" => task'[k].conv \in Born'
        BY <1>7, <1>12, <3>1 DEF TaskOK
      <3>6. Creating(k)' => /\ task'[k].conv \in 1..given' /\ OfIn(task'[k].msgs, Born')
                            /\ Ordered(task'[k].msgs)
                            /\ \A j \in Tasks' : Creating(j)' /\ task'[j].conv = task'[k].conv => k = j
        BY <1>2, <1>4, <1>7, <1>10, <1>12, <3>1 DEF TaskOK
      <3> QED
        BY <1>7, <3>4, <3>5, <3>6 DEF TaskOK
    <2>2. TaskOK(n)'
      <3>1. Mounted < Mounted' /\ Mounted \in Panels'
        BY <1>1, <1>4, Places
      <3>2. task'[n].pc \in PcOf(task'[n].kind)
        BY <1>4 DEF PcOf, Creators, Derives
      <3> QED
        BY <1>4, <1>8, <3>1, <3>2 DEF TaskOK
    <2>3. TaskOK(m)'
      <3>1. task'[m].pc \in PcOf(task'[m].kind)
        BY <1>4 DEF PcOf, Creators, Derives
      <3>2. panel'[task'[m].panel] = NewPanel /\ NewPanel.gen = 1 /\ task'[m].panel \in Panels'
        BY <1>4 DEF Mine, NewPanel
      <3>3. task'[m].token <= panel'[task'[m].panel].gen
        BY <1>4, <3>2
      <3> QED
        BY <1>2, <1>4, <1>9, <3>1, <3>2, <3>3 DEF TaskOK
    <2> QED
      BY <1>4, <2>1, <2>2, <2>3 DEF TasksOK
  <1>16. OrderOK'
    <2>1. Fresh'
      <3>1. \A j \in Tasks' : Mounts(j)' => task'[j].kind = "load" /\ task'[j].pc \in {"wait", "list"}
        BY <1>4, <1>10
      <3> QED
        BY <1>4, <1>11, <3>1 DEF Fresh, NewPanel
    <2>2. OldOK'
      <3>1. \A p \in Panels' : p < Mounted' => panel'[p].dirty = {} /\ ~Sending(p)'
        <4> SUFFICES ASSUME NEW p \in Panels', p < Mounted' PROVE panel'[p].dirty = {}
          BY <1>11
        <4>1. p \in Panels /\ p \in 1..Mounted
          BY <1>4
        <4>2. panel'[p].dirty = panel[p].dirty
          BY <1>4, <4>1
        <4>3. CASE p = Mounted
          BY <1>2, <4>2, <4>3 DEF Mine
        <4>4. CASE p < Mounted
          BY <1>1, <4>1, <4>2, <4>4 DEF OrderOK, OldOK
        <4> QED
          BY <1>4, <4>1, <4>3, <4>4
      <3>2. \A j \in Tasks' : Mounts(j)' => task'[j].pc # "list"
        BY <1>4, <1>10
      <3> QED
        BY <2>1, <3>1, <3>2 DEF OldOK
    <2>3. LoadingOK'
      BY <1>4, <1>9 DEF LoadingOK, NewPanel
    <2>4. /\ \A k \in Tasks' : ~Stale(k)'
          /\ \A k \in Tasks' : Latest(k)' => k = m
      BY <1>9, <1>10 DEF Stale, Latest
    <2>5. OneLatest' /\ WaitsOK' /\ StaleOK'
      BY <2>4 DEF OneLatest, WaitsOK, StaleOK
    <2>6. AloneOK'
      BY <1>4, <2>4 DEF AloneOK
    <2>7. SendsWait'
      <3>1. ~Mine'.busy
        BY <1>4 DEF NewPanel
      <3> QED
        BY <1>10, <1>11, <3>1 DEF SendsWait
    <2> QED
      BY <2>2, <2>3, <2>5, <2>6, <2>7 DEF OrderOK
  <1>17. RowsOK' /\ Grow
    BY <1>1, <1>2, <1>12, RowsStay, StayGrows
  <1>18. CleanOK'
    <2>1. \A k \in Tasks' : Mounts(k)' => task'[k].pc = "wait" /\ task'[k].kind = "load"
      BY <1>4, <1>10
    <2> QED
      BY <2>1 DEF CleanOK, Latest
  <1>19. ResaveOK'
    <2> SUFFICES ASSUME NEW k \in Tasks', task'[k].pc = "resave"
                 PROVE  \E d \in task'[k].save :
                          /\ task'[k].save = {d} /\ d.id \in Born'
                          /\ \/ P(k)'.dirty = {d}
                             \/ /\ P(k)'.dirty = {}
                                /\ \A row \in rows' : row.id = d.id => row.msgs = d.msgs
      BY DEF ResaveOK
    <2>1. k \in Tasks /\ task'[k] = task[k] /\ P(k)'.dirty = P(k).dirty
      BY <1>4, <1>5 DEF P
    <2> QED
      BY <1>1, <1>2, <1>12, <2>1 DEF ResaveOK
  <1>20. PanelOK'
    <2>1. Mine'.items = {} /\ Mine'.cur = {} /\ Mine'.chat = <<>> /\ Mine'.dirty = {}
      BY <1>4 DEF NewPanel
    <2> QED
      BY <1>10, <2>1 DEF PanelOK
  <1> QED
    BY <1>13, <1>14, <1>15, <1>16, <1>17, <1>18, <1>19, <1>20 DEF ConvInv

-----------------------------------------------------------------------------
(* The theorems. *)

\* The invariant holds when the panel is mounted first.
LEMMA InitConv == ASSUME Init PROVE ConvInv
  <1>1. /\ scope \in Drafts /\ rows = {} /\ panel = <<NewPanel>> /\ task = <<LoadOf(1)>>
        /\ calls = <<>> /\ given = 0 /\ said = 0 /\ fails = 0
    BY DEF Init
  <1>2. PICK pn : pn = NewPanel
    OBVIOUS
  <1>3. PICK t : t = LoadOf(1)
    OBVIOUS
  <1>4. /\ pn \in Panel /\ pn.gen = 1 /\ pn.loading = TRUE /\ pn.busy = FALSE /\ pn.cur = {}
        /\ pn.items = {} /\ pn.chat = <<>> /\ pn.dirty = {}
    <2>1. <<>> \in Seq(Message)
      OBVIOUS
    <2> QED
      BY <1>2, <2>1 DEF NewPanel, Panel
  <1>5. /\ MaxPanels \in Nat /\ MaxPanels >= 1 /\ MaxConvs \in Nat /\ MaxSaid \in Nat
        /\ MaxFails \in Nat
    BY ConversationsAssumption
  <1>6. /\ t \in Task /\ t.kind = "load" /\ t.pc = "wait" /\ t.panel = 1 /\ t.token = 1
        /\ t.scope = scope
    <2>1. Over \in Task
      BY <1>1, OverIs
    <2>2. 1 \in 1..MaxPanels
      BY <1>5
    <2> QED
      BY <1>1, <1>3, <2>1, <2>2 DEF LoadOf, Task, Waiting
  <1>7. /\ panel = <<pn>> /\ task = <<t>>
    BY <1>1, <1>2, <1>3
  <1>8. /\ panel \in Seq(Panel) /\ Len(panel) = 1 /\ panel[1] = pn
        /\ task \in Seq(Task) /\ Len(task) = 1 /\ task[1] = t
        /\ calls \in Seq(Nat) /\ Len(calls) = 0
    BY <1>1, <1>4, <1>6, <1>7
  <1>9. /\ Panels = {1} /\ Tasks = {1} /\ Mounted = 1 /\ Mine = pn
    BY <1>8 DEF Panels, Tasks, Mounted, Mine
  <1>10. /\ Mounts(1) /\ Latest(1) /\ ~Stale(1) /\ ~Creating(1) /\ ~IsSend(1) /\ Active(1)
    BY <1>4, <1>6, <1>8, <1>9
    DEF Mounts, IsOp, Latest, Stale, Creating, Creators, Derives, IsSend, Sends, Active
  <1>11. \A p : ~Sending(p)
    BY <1>6, <1>8, <1>9 DEF Sending, Sends
  <1>12. Shape
    <2>1. 0 \in 0..MaxConvs /\ 0 \in 0..MaxSaid /\ 0 \in 0..MaxFails /\ 1 \in 1..MaxPanels
      BY <1>5
    <2>2. rows \in SUBSET Card /\ IsFiniteSet(rows)
      BY <1>1, FS_EmptySet
    <2>3. \A p \in Panels : \A a, b \in panel[p].cur : a = b
      BY <1>4, <1>8, <1>9
    <2> QED
      BY <1>1, <1>8, <2>1, <2>2, <2>3 DEF Shape
  <1>13. QueueOK
    <2>1. ~In(calls, 1)
      BY <1>8 DEF In
    <2> QED
      BY <1>6, <1>8, <1>9, <2>1 DEF QueueOK, Distinct, InQueue
  <1>14. TasksOK
    <2>1. t.pc \in PcOf(t.kind)
      BY <1>6 DEF PcOf, Creators, Derives
    <2> QED
      BY <1>4, <1>6, <1>8, <1>9, <1>10, <2>1 DEF TasksOK, TaskOK
  <1>15. OrderOK
    <2>1. OldOK
      BY <1>6, <1>8, <1>9 DEF OldOK
    <2>2. LoadingOK /\ OneLatest /\ WaitsOK
      BY <1>4, <1>9, <1>10 DEF LoadingOK, OneLatest, WaitsOK
    <2>3. StaleOK /\ AloneOK
      BY <1>9, <1>10 DEF StaleOK, AloneOK
    <2>4. SendsWait
      BY <1>4, <1>9, <1>10, <1>11 DEF SendsWait
    <2> QED
      BY <2>1, <2>2, <2>3, <2>4 DEF OrderOK
  <1>16. RowsOK
    BY <1>1 DEF RowsOK
  <1>17. CleanOK
    BY <1>4, <1>6, <1>8, <1>9 DEF CleanOK
  <1>18. ResaveOK
    BY <1>6, <1>8, <1>9 DEF ResaveOK
  <1>19. PanelOK
    BY <1>4, <1>9, <1>10 DEF PanelOK
  <1> QED
    BY <1>12, <1>13, <1>14, <1>15, <1>16, <1>17, <1>18, <1>19 DEF ConvInv

\* A step that changes nothing.
LEMMA StaysConv == ASSUME ConvInv, UNCHANGED vars PROVE ConvInv' /\ Grow
  <1>1. /\ Shape /\ QueueOK /\ TasksOK /\ OrderOK /\ RowsOK /\ CleanOK /\ ResaveOK /\ PanelOK
    BY DEF ConvInv
  <1>2. /\ scope' = scope /\ rows' = rows /\ panel' = panel /\ task' = task /\ calls' = calls
        /\ given' = given /\ said' = said /\ fails' = fails
    BY DEF vars
  <1>3. /\ Panels' = Panels /\ Tasks' = Tasks /\ Mounted' = Mounted /\ Mine' = Mine
    BY <1>2 DEF Panels, Tasks, Mounted, Mine
  <1>4. \A k \in Tasks : /\ (Active(k)' <=> Active(k)) /\ (IsSend(k)' <=> IsSend(k))
                         /\ (IsOp(k)' <=> IsOp(k)) /\ (Creating(k)' <=> Creating(k))
                         /\ (Mounts(k)' <=> Mounts(k)) /\ (Latest(k)' <=> Latest(k))
                         /\ (Stale(k)' <=> Stale(k)) /\ (Idly(k)' <=> Idly(k))
                         /\ (Current(k)' <=> Current(k)) /\ P(k)' = P(k)
    BY <1>2, <1>3
    DEF Active, IsSend, IsOp, Creating, Mounts, Latest, Stale, Idly, Current, P
  <1>5. Born' = Born
    BY <1>2, <1>3, <1>4 DEF Born
  <1>6. \A p : Sending(p)' <=> Sending(p)
    BY <1>2, <1>3 DEF Sending
  <1>7. Shape' /\ QueueOK'
    BY <1>1, <1>2, <1>3 DEF Shape, QueueOK
  <1>8. TasksOK'
    <2> SUFFICES ASSUME NEW k \in Tasks PROVE TaskOK(k)'
      BY <1>3 DEF TasksOK
    <2>1. TaskOK(k)
      BY <1>1 DEF TasksOK
    <2> QED
      BY <1>2, <1>3, <1>4, <1>5, <2>1 DEF TaskOK
  <1>9. Fresh' <=> Fresh
    BY <1>2, <1>3, <1>4, <1>6 DEF Fresh
  <1>10. OldOK'
    BY <1>1, <1>2, <1>3, <1>4, <1>6, <1>9 DEF OrderOK, OldOK
  <1>11. LoadingOK' /\ OneLatest' /\ WaitsOK'
    BY <1>1, <1>2, <1>3, <1>4, <1>6 DEF OrderOK, LoadingOK, OneLatest, WaitsOK
  <1>12. StaleOK' /\ AloneOK' /\ SendsWait'
    BY <1>1, <1>2, <1>3, <1>4, <1>6 DEF OrderOK, StaleOK, AloneOK, SendsWait
  <1>13. RowsOK' /\ Grow
    BY <1>1, <1>2, <1>5, RowsStay, StayGrows
  <1>14. CleanOK' /\ ResaveOK'
    BY <1>1, <1>2, <1>3, <1>4, <1>5 DEF CleanOK, ResaveOK
  <1>15. PanelOK'
    <2>1. \A k \in Tasks : IsSend(k) => SendOK(k)'
      BY <1>1, <1>2, <1>3 DEF PanelOK, SendOK
    <2> QED
      BY <1>1, <1>2, <1>3, <1>4, <1>6, <2>1 DEF PanelOK
  <1> QED
    BY <1>7, <1>8, <1>10, <1>11, <1>12, <1>13, <1>14, <1>15 DEF ConvInv, OrderOK

\* What the writer does keeps it.
LEMMA RequestKeep == ASSUME ConvInv, ~Hurries, Request PROVE ConvInv' /\ Grow
  <1>1. CASE \E d \in Drafts : Switch(d)
    BY <1>1, SwitchKeep
  <1>2. CASE Refresh \/ New \/ Send \/ Remount
    BY <1>2, RefreshKeep, NewKeep, SendKeeps, RemountKeep
  <1>3. CASE \E id \in Convs : Open(id) \/ Archive(id) \/ Discard(id)
    BY <1>3, OpenKeep, ArchiveKeep, DiscardKeep
  <1>4. CASE \E k \in 1..(2 * MaxSaid) : \E kind \in Derives : Derive(kind, k)
    <2>1. PICK k \in 1..(2 * MaxSaid), kind \in Derives : Derive(kind, k)
      BY <1>4
    <2>2. k \in Nat
      BY ConversationsAssumption
    <2> QED
      BY <2>1, <2>2, DeriveKeep
  <1> QED
    BY <1>1, <1>2, <1>3, <1>4 DEF Request

\* What a task does keeps it.
LEMMA WorkKeep == ASSUME ConvInv, NEW i \in Tasks, Work(i) PROVE ConvInv' /\ Grow
  <1>1. CASE Resave(i) \/ Proceed(i) \/ OpenKnown(i) \/ Overtaken(i)
    BY <1>1, ResaveKeep, ProceedKeep, OpenKnownKeep, OvertakenKeep
  <1>2. CASE Resaved(i) \/ Loads(i) \/ Refreshes(i) \/ Opens(i)
    BY <1>2, ResavedKeep, LoadsKeep, RefreshesKeep, OpensKeep
  <1>3. CASE CreatesShown(i) \/ CreatesRetried(i) \/ CreatesEdited(i) \/ CreatesAsked(i)
    BY <1>3, CreatesShownKeep, CreatesRetriedKeep, CreatesEditedKeep, CreatesAskedKeep
  <1>4. CASE Titles(i) \/ Marks(i) \/ Deletes(i) \/ PromptSaved(i) \/ FinalSaved(i)
    BY <1>4, TitlesKeep, MarksKeep, DeletesKeep, PromptSavedKeep, FinalSavedKeep
  <1>5. CASE Refused(i)
    BY <1>5, OpRefused, SendRefused
  <1>6. CASE StreamEnds(i)
    BY <1>6, StreamEndsKeep
  <1> QED
    BY <1>1, <1>2, <1>3, <1>4, <1>5, <1>6 DEF Work

\* Every step keeps it, and lets the rows grow only.
LEMMA NextConv == ASSUME ConvInv, ~Hurries, [Next]_vars PROVE ConvInv' /\ Grow
  <1>1. CASE Rest \/ UNCHANGED vars
    BY <1>1, StaysConv DEF Rest
  <1>2. CASE Request
    BY <1>2, RequestKeep
  <1>3. ASSUME NEW i \in Tasks, Work(i) PROVE ConvInv' /\ Grow
    BY <1>3, WorkKeep
  <1>4. ASSUME NEW i \in Tasks, Answer(i) PROVE ConvInv' /\ Grow
    BY <1>4, AnswerKeep
  <1> QED
    BY <1>1, <1>2, <1>3, <1>4 DEF Next

\* No two rows have the same id.
LEMMA OneRowEach ==
  ASSUME Shape, RowsOK PROVE Cardinality(Ids(rows)) = Cardinality(rows)
  <1>1. PICK f : f = [row \in rows |-> row.id]
    OBVIOUS
  <1>2. IsFiniteSet(rows) /\ \A row, other \in rows : row.id = other.id => row = other
    BY DEF Shape, RowsOK
  <1>3. f \in [rows -> Ids(rows)] /\ \A row \in rows : f[row] = row.id
    BY <1>1 DEF Ids
  <1>4. f \in Injection(rows, Ids(rows))
    <2>1. \A a, b \in rows : f[a] = f[b] => a = b
      BY <1>2, <1>3
    <2> QED
      BY <1>3, <2>1 DEF Injection, IsInjective
  <1>5. f \in Surjection(rows, Ids(rows))
    BY <1>3 DEF Surjection, Ids
  <1> QED
    BY <1>2, <1>4, <1>5, FS_Surjection

LEMMA AtMostOne ==
  ASSUME NEW S, \A a, b \in S : a = b PROVE Cardinality(S) <= 1
  <1>1. CASE S = {}
    BY <1>1, FS_EmptySet
  <1>2. CASE S # {}
    <2>1. PICK x : S = {x}
      BY <1>2
    <2> QED
      BY <2>1, FS_Singleton
  <1> QED
    BY <1>1, <1>2

LEMMA ConvTypes == ASSUME ConvInv PROVE TypeOK
  <1>1. Shape /\ QueueOK /\ RowsOK
    BY DEF ConvInv
  <1>2. \A p \in Panels :
           /\ panel[p].gen \in Nat /\ {panel[p].loading, panel[p].busy} \subseteq BOOLEAN
           /\ panel[p].cur \subseteq Card /\ Cardinality(panel[p].cur) <= 1
           /\ panel[p].items \subseteq Card /\ panel[p].chat \in Seq(Message)
           /\ panel[p].dirty \subseteq [id : Convs, msgs : Seq(Message)]
    <2> SUFFICES ASSUME NEW p \in Panels
                 PROVE /\ panel[p].gen \in Nat /\ {panel[p].loading, panel[p].busy} \subseteq BOOLEAN
                       /\ panel[p].cur \subseteq Card /\ Cardinality(panel[p].cur) <= 1
                       /\ panel[p].items \subseteq Card /\ panel[p].chat \in Seq(Message)
                       /\ panel[p].dirty \subseteq [id : Convs, msgs : Seq(Message)]
      OBVIOUS
    <2>1. panel[p] \in Panel /\ \A a, b \in panel[p].cur : a = b
      BY <1>1, Places DEF PanelType, One
    <2>2. Cardinality(panel[p].cur) <= 1
      BY <2>1, AtMostOne
    <2> QED
      BY <2>1, <2>2 DEF Panel, Dirt
  <1>3. ToSet(calls) \subseteq Tasks
    <2>1. DOMAIN calls = 1..Len(calls)
      BY <1>1 DEF Shape
    <2> QED
      BY <1>1, <2>1 DEF ToSet, QueueOK
  <1>4. \A i \in Tasks : task[i] \in Task
    BY <1>1, Places
  <1> QED
    BY <1>1, <1>2, <1>3, <1>4, OneRowEach DEF TypeOK, Shape

LEMMA ConvRows == ASSUME ConvInv PROVE RowsAreTheirs
  <1>1. ASSUME NEW row \in rows, NEW k \in DOMAIN row.msgs
        PROVE  IF k <= row.copied THEN row.msgs[k].of # row.id
               ELSE /\ row.msgs[k].of = row.id
                    /\ row.msgs[k].role = "assistant" => k > 1 /\ row.msgs[k - 1].n = row.msgs[k].n
    <2>1. RowOK(row) /\ row \in Card
      BY DEF ConvInv, RowsOK, Shape
    <2>2. k \in 1..Len(row.msgs)
      BY <2>1 DEF Card
    <2> QED
      BY <2>1, <2>2 DEF RowOK, Ordered
  <1> QED
    BY <1>1, ConvTypes DEF RowsAreTheirs

LEMMA ConvShown == ASSUME ConvInv PROVE ShownIsStored
  <1>1. Shape /\ TasksOK /\ OrderOK /\ RowsOK /\ PanelOK
    BY DEF ConvInv
  <1>2. ASSUME NEW i \in Tasks, Has(i, "stream")
        PROVE  /\ Shows(P(i), task[i].conv)
               /\ \A row \in rows : row.id = task[i].conv =>
                     \E k \in DOMAIN row.msgs : row.msgs[k].role = "user" /\ row.msgs[k].n = task[i].n
    <2>1. task[i].pc = "stream" /\ Active(i)
      BY <1>2 DEF Has, Active
    <2>2. IsSend(i)
      <3>1. "stream" \in PcOf(task[i].kind)
        BY <1>1, <2>1 DEF TasksOK, TaskOK
      <3> QED
        BY <2>1, <3>1 DEF PcOf, Creators, Derives, Sends, IsSend
    <2>3. P(i) = Mine /\ SendGood(Mine, task[i]) /\ Mine \in PanelType
      BY <2>2, SendFacts
    <2>4. PICK card \in Mine.cur : card.id = task[i].conv /\ Asks(card.msgs, task[i].n)
      BY <2>1, <2>3 DEF SendGood
    <2>5. PICK row \in rows : row.id = card.id /\ row.msgs = card.msgs
      BY <1>1, <2>4 DEF PanelOK, Same
    <2>6. \A other \in rows : other.id = task[i].conv => other = row
      BY <1>1, <2>4, <2>5 DEF RowsOK
    <2>7. Len(row.msgs) \in DOMAIN row.msgs
      <3>1. row.msgs \in Seq(Message) /\ row.msgs # <<>>
        BY <1>1, <2>4, <2>5 DEF Shape, Card, Asks
      <3> QED
        BY <3>1
    <2> QED
      BY <2>3, <2>4, <2>5, <2>6, <2>7 DEF Shows, Asks
  <1>3. ASSUME ~Mine.loading, ~Mine.busy, Mine.dirty = {}, NEW card \in Mine.cur
        PROVE  \E row \in rows : row.id = card.id /\ row.msgs = Mine.chat /\ row.draft = card.draft
    <2>1. Mine.chat = card.msgs
      BY <1>1, <1>3 DEF PanelOK, OrderOK, SendsWait
    <2> QED
      BY <1>1, <2>1 DEF PanelOK, Same
  <1> QED
    BY <1>2, <1>3 DEF ShownIsStored

-----------------------------------------------------------------------------
(* The theorems.                                                            *)

\* The rows do not change when the writer hurries.
LEMMA HurryKeepsRows == ASSUME ConvInv, Hurries PROVE Grow
  <1>1. rows' = rows
    BY DEF Hurries, Refresh, Open, Remount
  <1> QED
    BY <1>1, StayGrows DEF ConvInv

\* What holds until the writer hurries.
UntilHurried == hurried \in BOOLEAN /\ (~hurried => ConvInv)

LEMMA InitUntil == ASSUME SessionInit PROVE UntilHurried
  BY InitConv DEF SessionInit, UntilHurried

LEMMA NextUntil ==
  ASSUME UntilHurried, [SessionNext]_sessionVars PROVE UntilHurried'
  <1>1. CASE UNCHANGED sessionVars
    <2>1. hurried' = hurried /\ UNCHANGED vars
      BY <1>1 DEF sessionVars
    <2>2. ConvInv => ConvInv'
      BY <2>1, StaysConv
    <2> QED
      BY <2>1, <2>2 DEF UntilHurried
  <1>2. CASE SessionNext /\ (hurried \/ Hurries)
    <2>1. hurried' = TRUE
      BY <1>2 DEF SessionNext
    <2> QED
      BY <2>1 DEF UntilHurried
  <1>3. CASE SessionNext /\ ~hurried /\ ~Hurries
    <2>1. hurried' = FALSE /\ Next /\ ConvInv
      BY <1>3 DEF SessionNext, UntilHurried
    <2>2. ConvInv'
      BY <1>3, <2>1, NextConv
    <2> QED
      BY <2>1, <2>2 DEF UntilHurried
  <1> QED
    BY <1>1, <1>2, <1>3

\* Until the writer hurries, a row holds what it was copied with and then what was said in its
\* conversation, an answer only after its prompt, however sends, saves and replacements of
\* what the panel shows interleave: no save takes what another conversation showed.
THEOREM RowsTheirs == SessionSpec => []TheirsUntilHurried
  <1>1. SessionInit => UntilHurried
    BY InitUntil
  <1>2. UntilHurried /\ [SessionNext]_sessionVars => UntilHurried'
    BY NextUntil
  <1>3. UntilHurried => TheirsUntilHurried
    BY ConvRows DEF UntilHurried, TheirsUntilHurried
  <1> QED
    BY <1>1, <1>2, <1>3, PTL DEF SessionSpec

\* Until the writer hurries, a stream has its prompt stored and its conversation shown, and
\* when nothing is under way and nothing is left to save, the panel shows what is stored.
THEOREM ShownStored == SessionSpec => []ShownUntilHurried
  <1>1. SessionInit => UntilHurried
    BY InitUntil
  <1>2. UntilHurried /\ [SessionNext]_sessionVars => UntilHurried'
    BY NextUntil
  <1>3. UntilHurried => ShownUntilHurried
    BY ConvShown DEF UntilHurried, ShownUntilHurried
  <1> QED
    BY <1>1, <1>2, <1>3, PTL DEF SessionSpec

\* Until the writer hurries, what is stored is never shortened or replaced, and no update
\* brings back a conversation that was deleted.
THEOREM RowsGrowing == SessionSpec => GrowsUntilHurried
  <1>1. SessionInit => UntilHurried
    BY InitUntil
  <1>2. UntilHurried /\ [SessionNext]_sessionVars => UntilHurried'
    BY NextUntil
  <1>3. UntilHurried /\ [SessionNext]_sessionVars =>
          [~hurried =>
           /\ \A row \in rows, then \in rows' :
                  row.id = then.id => IsPrefix(row.msgs, then.msgs)
           /\ \A then \in rows' \ rows : then.id \in Ids(rows) \/
                  \E i \in Tasks : task[i].pc = "create" /\ task[i].conv = then.id]_sessionVars
    <2> SUFFICES ASSUME UntilHurried, SessionNext, ~hurried PROVE Grow
      BY DEF Grow
    <2>1. ConvInv /\ Next
      BY DEF UntilHurried, SessionNext
    <2> QED
      BY <2>1, HurryKeepsRows, NextConv
  <1> QED
    BY <1>1, <1>2, <1>3, PTL DEF SessionSpec, GrowsUntilHurried
=============================================================================
