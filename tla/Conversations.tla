--------------------------- MODULE Conversations ---------------------------
(* The AI panel's durable conversations: conversationController.svelte.ts   *)
(* over the rows of ai_conversation_history (db/ai.rs).  A conversation     *)
(* belongs to a draft of the open document; the panel streams an answer     *)
(* into the conversation it shows, saves it, and replaces what it shows     *)
(* when the writer opens, starts, branches or deletes one or moves to       *)
(* another draft.                                                           *)
(*                                                                          *)
(* Every asynchronous function of the controller under way is a task, in    *)
(* order of its call; `calls' holds the tasks that await SQLite, which      *)
(* answers in order.  A call takes effect and its continuation runs in one  *)
(* step: nothing between them can tell, since calls and answers keep their  *)
(* order.                                                                   *)
EXTENDS Naturals, FiniteSets, SequencesExt

CONSTANTS
    Drafts,     \* the drafts of the open document
    None,       \* no conversation
    MaxConvs,   \* bound: conversation ids given out
    MaxSaid,    \* bound: messages said
    MaxTasks,   \* bound: operations begun
    MaxFails,   \* bound: calls SQLite refuses
    MaxPanels   \* bound: mountings of the panel

ASSUME ConversationsAssumption ==
    {MaxConvs, MaxSaid, MaxTasks, MaxFails} \subseteq Nat /\ MaxPanels \in Nat \ {0}

VARIABLES
    scope,  \* currentDraftId
    rows,   \* the rows of ai_conversation_history
    panel,  \* the controllers: the last is mounted, the ones before it are disposed of
    task,   \* the operations begun
    calls,  \* the tasks that await SQLite, the oldest first
    given,  \* conversation ids given out
    said,   \* messages said
    fails   \* calls refused

vars == <<scope, rows, panel, task, calls, given, said, fails>>

-----------------------------------------------------------------------------
Convs == 1..MaxConvs
Panels == 1..Len(panel)
Tasks == 1..Len(task)
Mounted == Len(panel)

\* A prompt or the answer to it, with the conversation it was said in.
Message == [n : 1..MaxSaid, role : {"user", "assistant"}, of : Convs]

\* A conversation as SQLite, the list and `current' hold it; `origin' is the conversation
\* it was copied from, `copied' the number of messages it began with, `fresh' whether its
\* title is still the one of an empty conversation.
Card == [id : Convs, draft : Drafts, msgs : Seq(Message), archived : BOOLEAN, fresh : BOOLEAN,
         origin : Convs \cup {None}, copied : Nat]
NewCard(id, draft, msgs, fresh, origin) ==
    [id |-> id, draft |-> draft, msgs |-> msgs, archived |-> FALSE, fresh |-> fresh,
     origin |-> origin, copied |-> Len(msgs)]

Ids(cards) == {card.id : card \in cards}
CardOf(cards, id) == CHOOSE card \in cards : card.id = id
\* upsertItem
Upsert(cards, card) == {other \in cards : other.id # card.id} \cup {card}
\* updateLocalMessages, and the UPDATE of save_conversation_messages.
WithMessages(cards, id, msgs) ==
    {IF card.id = id THEN [card EXCEPT !.msgs = msgs] ELSE card : card \in cards}

Sends == {"ask", "run", "again"}                  \* runSend, runAction, runRetry
Derives == {"branch", "edit", "retry"}            \* createDerivedConversation
Waiting == {"load", "refresh", "open", "new", "remove", "dispose"} \cup Derives
InQueue == {"resave", "list", "get", "create", "title", "mark", "delete", "prompt", "final"}

Task == [kind : Sends \cup Waiting \cup {"archive"},
         pc : InQueue \cup {"wait", "stream", "done"},
         panel : 1..MaxPanels, token : Nat, scope : Drafts, conv : Convs \cup {None},
         msgs : Seq(Message), from : Convs \cup {None}, was : BOOLEAN, n : 0..MaxSaid,
         save : SUBSET [id : Convs, msgs : Seq(Message)]]
Over == [kind |-> "load", pc |-> "done", panel |-> 1, token |-> 0,
         scope |-> CHOOSE d \in Drafts : TRUE, conv |-> None, msgs |-> <<>>,
         from |-> None, was |-> FALSE, n |-> 0, save |-> {}]

TypeOK ==
    /\ scope \in Drafts
    /\ rows \subseteq Card /\ Cardinality(Ids(rows)) = Cardinality(rows)
    /\ \A p \in Panels :
           /\ panel[p].gen \in Nat /\ {panel[p].loading, panel[p].busy} \subseteq BOOLEAN
           /\ panel[p].cur \subseteq Card /\ Cardinality(panel[p].cur) <= 1
           /\ panel[p].items \subseteq Card /\ panel[p].chat \in Seq(Message)
           /\ panel[p].dirty \subseteq [id : Convs, msgs : Seq(Message)]
    /\ \A i \in Tasks : task[i] \in Task
    /\ ToSet(calls) \subseteq Tasks
    /\ given \in 0..MaxConvs /\ said \in 0..MaxSaid /\ fails \in 0..MaxFails

-----------------------------------------------------------------------------
Has(i, pc) == i \in Tasks /\ task[i].pc = pc
P(i) == panel[task[i].panel]
Mine == panel[Mounted]

\* A panel's activeSends.
Sending(p) == \E i \in Tasks :
    task[i].panel = p /\ task[i].kind \in Sends /\ task[i].pc # "done"

\* Mutant: an operation does not wait for the sends under way.
SettledAtOnce(i) ==
    /\ Has(i, "wait") /\ \A j \in 1..(i - 1) : ~(Has(j, "wait") /\ task[j].panel = task[i].panel)
\* An operation that waited for the sends goes on when they are over, in order; such
\* continuations run before the next click or answer is looked at.
Settled(i) ==
    /\ Has(i, "wait") /\ ~Sending(task[i].panel)
    /\ \A j \in 1..(i - 1) : ~(Has(j, "wait") /\ task[j].panel = task[i].panel)
Quiet == \A i \in Tasks : ~Settled(i)
Asked(i, pc) == Quiet /\ calls # <<>> /\ i = Head(calls) /\ task[i].pc = pc

\* tokenIsCurrent: the panel is mounted and nothing was begun since.
Current(i) == task[i].panel = Mounted /\ task[i].token = P(i).gen
SameScope(i) == task[i].scope = scope
Shows(pn, id) == \E card \in pn.cur : card.id = id

\* Mutant: what could not be saved, and the loading, are not asked about.
CanSendAnyway(pn) == ~pn.busy /\ \A card \in pn.cur : ~card.archived /\ card.draft = scope
\* canSendNow
CanSend(pn) ==
    /\ ~pn.loading /\ ~pn.busy /\ pn.dirty = {}
    /\ \A card \in pn.cur : ~card.archived /\ card.draft = scope

\* The finally of an operation: only the latest one ends the loading.
Loaded(i, pn) == IF Current(i) THEN [pn EXCEPT !.loading = FALSE] ELSE pn
\* applyConversation
Apply(pn, card) == [pn EXCEPT !.cur = {card}, !.chat = card.msgs]
Cleared(pn) == [pn EXCEPT !.cur = {}, !.chat = <<>>]
Listing(pn, card) == [pn EXCEPT !.items = Upsert(@, card)]
Recorded(pn, card) ==
    [Listing(pn, card) EXCEPT !.cur = IF Shows(pn, card.id) THEN {card} ELSE @]

\* queueSave: what is to be saved is dirty until it is.
Dirtied(pn, id, msgs) ==
    [pn EXCEPT !.dirty = {d \in @ : d.id # id} \cup {[id |-> id, msgs |-> msgs]}]
\* Mutant: the copies in the list keep the messages they have.
CleanedOnly(pn, id, msgs) == [pn EXCEPT !.dirty = @ \ {[id |-> id, msgs |-> msgs]}]
\* A save is done: unless the messages changed, they are clean and the copies follow.
Cleaned(pn, id, msgs) ==
    IF [id |-> id, msgs |-> msgs] \notin pn.dirty THEN pn
    ELSE [pn EXCEPT !.dirty = @ \ {[id |-> id, msgs |-> msgs]},
                    !.items = WithMessages(@, id, msgs), !.cur = WithMessages(@, id, msgs)]

\* beginReplacement: the operations begun before are overtaken, the stream is stopped.
Begun(pn) == [pn EXCEPT !.gen = @ + 1, !.loading = TRUE]

SetPanel(i, pn) == panel' = [panel EXCEPT ![task[i].panel] = pn]
SetTask(i, t, pc) == task' = [task EXCEPT ![i] = [t EXCEPT !.pc = pc]]
End(i) == task' = [task EXCEPT ![i] = Over]

\* An operation of the mounted panel begins with the state `pn' of the panel.
T(kind, pc, conv) == [Over EXCEPT !.kind = kind, !.pc = pc, !.conv = conv]
Start(pn, t) ==
    /\ Quiet /\ Len(task) < MaxTasks
    /\ panel' = [panel EXCEPT ![Mounted] = pn]
    /\ task' = Append(task, [t EXCEPT !.panel = Mounted, !.token = pn.gen, !.scope = scope'])
    /\ calls' = IF t.pc \in InQueue THEN Append(calls, Len(task')) ELSE calls

-----------------------------------------------------------------------------
(* What the writer does.                                                    *)

\* The writer moves to another draft: subscribe begins loadScope.
Switch(d) ==
    /\ d # scope /\ scope' = d /\ Start(Begun(Mine), T("load", "wait", None))
    /\ UNCHANGED <<rows, given, said, fails>>

\* refresh, on the button that opens the history, also while the panel loads.
Refresh ==
    /\ UNCHANGED <<scope, rows, given, said, fails>>
    /\ Start([Mine EXCEPT !.loading = TRUE], T("refresh", "wait", None))

\* open: a conversation of the list, or (also while the panel loads) the origin of the one
\* shown.
Open(id) ==
    /\ UNCHANGED <<scope, rows, given, said, fails>>
    /\ \/ ~Mine.loading /\ id \in Ids(Mine.items)
       \/ \E card \in Mine.cur : card.origin = id
    /\ ~(Shows(Mine, id) /\ ~Mine.busy)
    /\ Start(Begun(Mine), T("open", "wait", id))

\* newConversation
New ==
    /\ UNCHANGED <<scope, rows, said, fails>>
    /\ ~Mine.loading /\ given < MaxConvs /\ given' = given + 1
    /\ Start(Begun(Mine), T("new", "wait", given + 1))

\* archive, and its reverse; rename takes the same steps for the title.  The messages of the
\* card it found are the ones it puts in the list when SQLite has answered.
Found(pn, id) == CardOf(IF Shows(pn, id) THEN pn.cur ELSE pn.items, id)
Archive(id) ==
    /\ UNCHANGED <<scope, rows, given, said, fails>>
    /\ ~Mine.loading /\ ~Mine.busy /\ id \in Ids(Mine.items)
    /\ Start([Mine EXCEPT !.loading = TRUE],
             [T("archive", "mark", id) EXCEPT !.was = ~CardOf(Mine.items, id).archived,
                                              !.msgs = Found(Mine, id).msgs])

\* remove: the conversation shown is replaced, another one is not.
Discard(id) ==
    /\ UNCHANGED <<scope, rows, given, said, fails>>
    /\ ~Mine.loading /\ ~Mine.busy /\ id \in Ids(Mine.items)
    /\ Start(IF Shows(Mine, id) THEN Begun(Mine) ELSE [Mine EXCEPT !.loading = TRUE],
             [T("remove", "wait", id) EXCEPT !.was = Shows(Mine, id)])

\* branch copies the path up to a message, edit up to before a prompt, retry up to before an
\* answer to a prompt (createDerivedConversation).
Derive(kind, k) ==
    /\ UNCHANGED <<scope, rows, fails>>
    /\ CanSend(Mine) /\ Mine.cur # {} /\ k \in DOMAIN Mine.chat
    /\ kind = "edit" => Mine.chat[k].role = "user" /\ said < MaxSaid
    /\ kind = "retry" => Mine.chat[k].role = "assistant" /\ k > 1 /\ Mine.chat[k - 1].role = "user"
    /\ said' = IF kind = "edit" THEN said + 1 ELSE said
    /\ given < MaxConvs /\ given' = given + 1
    /\ \E card \in Mine.cur :
           Start(Begun(Mine), [T(kind, "wait", given + 1) EXCEPT
                     !.from = card.id, !.n = IF kind = "edit" THEN said + 1 ELSE Mine.chat[k].n,
                     !.msgs = SubSeq(Mine.chat, 1, IF kind = "branch" THEN k ELSE k - 1)])

\* runSend and runAction, up to the first call: a conversation is created, titled, or the
\* prompt is added and saved.
Says(t) == [n |-> t.n, role |-> "user", of |-> t.conv]
Asking(pn, t) ==
    LET path == Append(pn.chat, Says(t)) IN Dirtied([pn EXCEPT !.chat = path], t.conv, path)
Saving(pn, t) == [t EXCEPT !.msgs = Asking(pn, t).chat]
Send ==
    LET pn == [Mine EXCEPT !.busy = TRUE]
        ask(pc, id) == [T("ask", pc, id) EXCEPT !.n = said + 1]
    IN
    /\ UNCHANGED <<scope, rows, fails>>
    /\ CanSend(Mine) /\ said < MaxSaid /\ said' = said + 1
    /\ IF Mine.cur = {}
       THEN given < MaxConvs /\ given' = given + 1 /\ Start(pn, ask("create", given + 1))
       ELSE \E card \in Mine.cur :
            /\ given' = given
            /\ IF card.fresh /\ Mine.chat = <<>>
               THEN Start(pn, ask("title", card.id))
               ELSE Start(Asking(pn, ask("prompt", card.id)), Saving(pn, ask("prompt", card.id)))

\* The panel is taken down and mounted again, as another layout of the panels does: dispose,
\* and subscribe of the new controller, which does not wait for the old one's saves.
NewPanel == [gen |-> 1, loading |-> TRUE, busy |-> FALSE, cur |-> {}, items |-> {},
             chat |-> <<>>, dirty |-> {}]
LoadOf(p) == [Over EXCEPT !.kind = "load", !.pc = "wait", !.panel = p, !.token = 1,
                          !.scope = scope]
Remount ==
    /\ Quiet /\ Mounted < MaxPanels /\ Len(task) + 1 < MaxTasks
    /\ panel' = Append([panel EXCEPT ![Mounted].gen = @ + 1], NewPanel)
    /\ task' = task \o << [Over EXCEPT !.kind = "dispose", !.pc = "wait", !.panel = Mounted,
                                       !.scope = scope],
                          LoadOf(Mounted + 1) >>
    /\ UNCHANGED <<scope, rows, calls, given, said, fails>>

-----------------------------------------------------------------------------
(* waitForActiveWork: the sends settle, then what could not be saved is     *)
(* saved again.                                                             *)

Resave(i) ==
    /\ Settled(i)
    /\ \E d \in P(i).dirty :
           /\ SetTask(i, [task[i] EXCEPT !.save = {d}], "resave")
           /\ calls' = Append(calls, i)
    /\ UNCHANGED <<scope, rows, panel, given, said, fails>>

\* The operation goes on unless another one has overtaken it (refresh looks later).
Goes(i) == task[i].kind = "refresh" \/ (Current(i) /\ (task[i].kind = "new" => SameScope(i)))
NextCall(kind) ==
    CASE kind \in {"load", "refresh"} -> "list" [] kind = "open" -> "get"
      [] kind = "remove" -> "delete" [] OTHER -> "create"
Known(i) == task[i].kind = "open" /\ task[i].conv \in Ids(P(i).items)

Proceed(i) ==
    /\ Settled(i) /\ P(i).dirty = {} /\ Goes(i) /\ ~Known(i)
    /\ SetTask(i, task[i], NextCall(task[i].kind)) /\ calls' = Append(calls, i)
    /\ UNCHANGED <<scope, rows, panel, given, said, fails>>

\* resolveConversation finds the conversation in the list, with the messages last saved.
OpenKnown(i) ==
    /\ Settled(i) /\ P(i).dirty = {} /\ Goes(i) /\ Known(i)
    /\ SetPanel(i, Loaded(i, Apply(P(i), CardOf(P(i).items, task[i].conv)))) /\ End(i)
    /\ UNCHANGED <<scope, rows, calls, given, said, fails>>

\* An overtaken operation ends; so does dispose.
Overtaken(i) ==
    /\ Settled(i) /\ P(i).dirty = {} /\ ~Goes(i)
    /\ SetPanel(i, Loaded(i, P(i))) /\ End(i)
    /\ UNCHANGED <<scope, rows, calls, given, said, fails>>

-----------------------------------------------------------------------------
(* SQLite answers.                                                          *)

Saves == {"resave", "prompt", "final"}
Updates == Saves \cup {"title", "mark", "delete"}
\* The row an update is for: a dirty conversation's, or the operation's own.
Row(i) == IF task[i].pc = "resave" THEN (CHOOSE d \in task[i].save : TRUE).id ELSE task[i].conv
Answers(i, pc) ==
    /\ Asked(i, pc) /\ (pc \in Updates => Row(i) \in Ids(rows)) /\ calls' = Tail(calls)
    /\ UNCHANGED <<scope, fails>>

\* save_conversation_messages for retryDirtySaves; the loop of waitForActiveWork goes on.
Resaved(i) ==
    /\ Answers(i, "resave")
    /\ \E d \in task[i].save :
           /\ rows' = WithMessages(rows, d.id, d.msgs) /\ SetPanel(i, Cleaned(P(i), d.id, d.msgs))
    /\ SetTask(i, [task[i] EXCEPT !.save = {}], "wait")
    /\ UNCHANGED <<given, said>>

\* loadScope: the latest conversation of the draft that is not archived is shown.
Candidates == {card \in rows : ~card.archived /\ card.draft = scope}
Loads(i) ==
    /\ Answers(i, "list") /\ task[i].kind = "load"
    /\ IF ~Current(i) \/ ~SameScope(i) THEN SetPanel(i, Loaded(i, P(i)))
       ELSE LET pn == Loaded(i, [P(i) EXCEPT !.items = rows]) IN
            \/ Candidates = {} /\ SetPanel(i, Cleared(pn))
            \/ \E card \in Candidates : SetPanel(i, Apply(pn, card))
    /\ End(i) /\ UNCHANGED <<rows, given, said>>

\* refresh: the list and the copy of the conversation shown, not its messages.
Refreshes(i) ==
    /\ Answers(i, "list") /\ task[i].kind = "refresh"
    /\ SetPanel(i, IF ~Current(i) THEN P(i)
                   ELSE Loaded(i, [P(i) EXCEPT !.items = rows,
                        !.cur = IF @ # {} /\ Ids(@) \subseteq Ids(rows)
                                THEN {card \in rows : card.id \in Ids(@)} ELSE @]))
    /\ End(i) /\ UNCHANGED <<rows, given, said>>

\* get_conversation, for the origin of a branch that is not in the list.
Opens(i) ==
    /\ Answers(i, "get")
    /\ SetPanel(i, IF Current(i) /\ task[i].conv \in Ids(rows)
                   THEN LET card == CardOf(rows, task[i].conv)
                        IN Loaded(i, Apply(Listing(P(i), card), card))
                   ELSE Loaded(i, P(i)))
    /\ End(i) /\ UNCHANGED <<rows, given, said>>

\* create_conversation.  The draft is the one the operation began in.
Created(i) == NewCard(task[i].conv, task[i].scope, task[i].msgs, task[i].kind = "new",
                      task[i].from)
Creates(i) ==
    /\ Answers(i, "create") /\ rows' = rows \cup {Created(i)} /\ UNCHANGED given

\* newConversation and branch show the conversation created.
CreatesShown(i) ==
    /\ Creates(i) /\ task[i].kind \in {"new", "branch"}
    /\ SetPanel(i, IF Current(i) THEN Loaded(i, Apply(Listing(P(i), Created(i)), Created(i)))
                   ELSE P(i))
    /\ End(i) /\ UNCHANGED said

\* retry shows the path and asks for another answer to it (runRetry).
CreatesRetried(i) ==
    /\ Creates(i) /\ task[i].kind = "retry" /\ UNCHANGED said
    /\ IF Current(i)
       THEN /\ SetPanel(i, [Loaded(i, Apply(Listing(P(i), Created(i)), Created(i)))
                               EXCEPT !.busy = TRUE])
            /\ SetTask(i, [task[i] EXCEPT !.kind = "again"], "stream")
       ELSE UNCHANGED panel /\ End(i)

\* runSend adds the prompt and saves it, or ends when its target changed.
Prompts(i, pn, t) ==
    /\ SetPanel(i, Asking(pn, t)) /\ SetTask(i, Saving(pn, t), "prompt")
    /\ calls' = Append(Tail(calls), i)
\* Mutant: the panel stays busy when the target changed.
GivesUpBusy(i, pn) == SetPanel(i, pn) /\ End(i) /\ calls' = Tail(calls)
GivesUp(i, pn) == SetPanel(i, [pn EXCEPT !.busy = FALSE]) /\ End(i) /\ calls' = Tail(calls)

\* edit shows the path and sends the other prompt on it (runSend).
CreatesEdited(i) ==
    /\ Asked(i, "create") /\ task[i].kind = "edit" /\ UNCHANGED <<scope, fails, given, said>>
    /\ rows' = rows \cup {Created(i)}
    /\ IF Current(i)
       THEN Prompts(i, [Loaded(i, Apply(Listing(P(i), Created(i)), Created(i))) EXCEPT !.busy = TRUE],
                    [task[i] EXCEPT !.kind = "ask"])
       ELSE UNCHANGED panel /\ End(i) /\ calls' = Tail(calls)

\* runSend after the conversation is created or titled, unless the target changed.
Target(i) == Current(i) /\ SameScope(i)
CreatesAsked(i) ==
    /\ Asked(i, "create") /\ task[i].kind = "ask" /\ UNCHANGED <<scope, fails, given, said>>
    /\ rows' = rows \cup {Created(i)}
    /\ IF Target(i)
       THEN Prompts(i, [Listing(P(i), Created(i)) EXCEPT !.cur = {Created(i)}], task[i])
       ELSE GivesUp(i, P(i))

\* rename_conversation, then as above.
Titled(card) == [card EXCEPT !.fresh = FALSE]
Titles(i) ==
    /\ Asked(i, "title") /\ Row(i) \in Ids(rows) /\ UNCHANGED <<scope, fails, given, said>>
    /\ rows' = Upsert(rows, Titled(CardOf(rows, Row(i))))
    /\ IF Target(i) /\ Shows(P(i), Row(i))
       THEN Prompts(i, Recorded(P(i), Titled(CardOf(P(i).cur, Row(i)))), task[i])
       ELSE GivesUp(i, P(i))

\* archive_conversation
Marks(i) ==
    LET marked(c) == [c EXCEPT !.archived = task[i].was]
        card == [CardOf(P(i).items, Row(i)) EXCEPT !.msgs = task[i].msgs]
    IN
    /\ Answers(i, "mark")
    /\ rows' = {IF row.id = task[i].conv THEN marked(row) ELSE row : row \in rows}
    /\ SetPanel(i, IF ~Current(i) THEN P(i) ELSE Loaded(i, Recorded(P(i), marked(card))))
    /\ End(i) /\ UNCHANGED <<given, said>>

\* delete_conversation: the list drops it, and the panel if it showed it when asked.
Deletes(i) ==
    LET pn == [P(i) EXCEPT !.items = {card \in @ : card.id # task[i].conv}] IN
    /\ Answers(i, "delete")
    /\ rows' = {card \in rows : card.id # task[i].conv}
    /\ SetPanel(i, Loaded(i, IF task[i].was THEN Cleared(pn) ELSE pn))
    /\ End(i) /\ UNCHANGED <<given, said>>

\* save_conversation_messages for the prompt: inference begins, unless the target changed.
\* Either way what the panel then holds is saved in the end.
PromptSaved(i) ==
    LET pn == Cleaned(P(i), Row(i), task[i].msgs) IN
    /\ Asked(i, "prompt") /\ Row(i) \in Ids(rows) /\ UNCHANGED <<scope, fails, given, said>>
    /\ rows' = WithMessages(rows, Row(i), task[i].msgs)
    /\ IF Target(i) /\ Shows(pn, Row(i))
       THEN SetPanel(i, pn) /\ SetTask(i, task[i], "stream") /\ calls' = Tail(calls)
       ELSE /\ SetPanel(i, Dirtied(pn, Row(i), pn.chat))
            /\ SetTask(i, [task[i] EXCEPT !.msgs = pn.chat], "final")
            /\ calls' = Append(Tail(calls), i)

\* The last save of a send or a retry.
FinalSaved(i) ==
    /\ Answers(i, "final")
    /\ rows' = WithMessages(rows, Row(i), task[i].msgs)
    /\ SetPanel(i, [Cleaned(P(i), Row(i), task[i].msgs) EXCEPT !.busy = FALSE])
    /\ End(i) /\ UNCHANGED <<given, said>>

\* A call is refused, or its row is gone.  What was to be saved stays dirty; a load that
\* cannot read the list shows nothing, and the one that could not save leaves what is shown.
Refused(i) ==
    LET kept == IF task[i].kind \in Sends THEN [P(i) EXCEPT !.busy = FALSE] ELSE Loaded(i, P(i)) IN
    /\ Asked(i, task[i].pc) /\ calls' = Tail(calls)
    /\ IF task[i].pc \in Updates /\ Row(i) \notin Ids(rows) THEN fails' = fails
       ELSE fails < MaxFails /\ fails' = fails + 1
    /\ SetPanel(i, IF task[i].kind = "load" /\ task[i].pc = "list" /\ Current(i)
                   THEN Cleared(kept) ELSE kept)
    /\ End(i) /\ UNCHANGED <<scope, rows, given, said>>

-----------------------------------------------------------------------------
(* The provider.                                                            *)

\* A part of the answer arrives, or what runAction's action tells.
Answer(i) ==
    LET answer == [n |-> task[i].n, role |-> "assistant", of |-> task[i].conv] IN
    /\ Quiet /\ Has(i, "stream") /\ answer \notin ToSet(P(i).chat)
    /\ SetPanel(i, [P(i) EXCEPT !.chat = Append(@, answer)])
    /\ UNCHANGED <<scope, rows, task, calls, given, said, fails>>

\* The stream ends, fails or is stopped: what the panel holds is saved.
StreamEnds(i) ==
    /\ Quiet /\ Has(i, "stream")
    /\ SetPanel(i, Dirtied(P(i), task[i].conv, P(i).chat))
    /\ SetTask(i, [task[i] EXCEPT !.msgs = P(i).chat], "final") /\ calls' = Append(calls, i)
    /\ UNCHANGED <<scope, rows, given, said, fails>>

-----------------------------------------------------------------------------
Init ==
    /\ scope \in Drafts /\ rows = {} /\ panel = <<NewPanel>> /\ task = <<LoadOf(1)>>
    /\ calls = <<>> /\ given = 0 /\ said = 0 /\ fails = 0

Request ==
    \/ \E d \in Drafts : Switch(d)
    \/ Refresh \/ New \/ Send \/ Remount
    \/ \E id \in Convs : Open(id) \/ Archive(id) \/ Discard(id)
    \/ \E k \in 1..(2 * MaxSaid) : \E kind \in Derives : Derive(kind, k)

Work(i) ==
    \/ Resave(i) \/ Proceed(i) \/ OpenKnown(i) \/ Overtaken(i)
    \/ Resaved(i) \/ Loads(i) \/ Refreshes(i) \/ Opens(i)
    \/ CreatesShown(i) \/ CreatesRetried(i) \/ CreatesEdited(i) \/ CreatesAsked(i)
    \/ Titles(i) \/ Marks(i) \/ Deletes(i) \/ PromptSaved(i) \/ FinalSaved(i)
    \/ Refused(i) \/ StreamEnds(i)

\* Nothing is under way, and the writer may leave it so.
Rest ==
    (\A i \in Tasks : task[i].pc = "done") /\ UNCHANGED vars

Next == Rest \/ Request \/ \E i \in Tasks : Work(i) \/ Answer(i)
Spec == Init /\ [][Next]_vars

\* SQLite answers, continuations run and a stream ends (with its answer, in an error, by
\* chat.stop); nothing makes the writer act or the provider say anything.
Fairness == \A i \in 1..MaxTasks : WF_vars(i \in Tasks /\ Work(i))
FairSpec == Spec /\ Fairness

-----------------------------------------------------------------------------
\* A row holds what it was copied with and then what was said in its conversation, an answer
\* only after its prompt: no save takes what another conversation showed ("Saves target the
\* conversation that initiated the request", docs/ai-sidebar.md:241).
RowsAreTheirs == TypeOK /\ \A row \in rows : \A k \in DOMAIN row.msgs :
    IF k <= row.copied THEN row.msgs[k].of # row.id
    ELSE /\ row.msgs[k].of = row.id
         /\ row.msgs[k].role = "assistant" => k > 1 /\ row.msgs[k - 1].n = row.msgs[k].n

\* What is stored is never shortened or replaced, and a deleted conversation never comes back
\* ("Cancellation and errors retain the available message prefix"; "Message updates never
\* recreate a deleted conversation", docs/ai-sidebar.md:242, 254).
RowsOnlyGrow ==
    [][/\ \A row \in rows, then \in rows' :
              row.id = then.id => IsPrefix(row.msgs, then.msgs)
       /\ \A then \in rows' \ rows : then.id \in Ids(rows) \/
              \E i \in Tasks : task[i].pc = "create" /\ task[i].conv = then.id]_vars

\* While inference runs, its prompt is stored and the panel shows its conversation, also if
\* the writer has moved on; when nothing is under way and nothing is left to save, the panel
\* shows what is stored ("A new prompt is persisted before inference").
ShownIsStored ==
    /\ \A i \in Tasks : Has(i, "stream") =>
           /\ Shows(P(i), task[i].conv)
           /\ \A row \in rows : row.id = task[i].conv =>
                  \E k \in DOMAIN row.msgs : row.msgs[k].role = "user" /\ row.msgs[k].n = task[i].n
    /\ ~Mine.loading /\ ~Mine.busy /\ Mine.dirty = {} => \A card \in Mine.cur :
           \E row \in rows : row.id = card.id /\ row.msgs = Mine.chat /\ row.draft = card.draft

\* Loading and the answer under way end, whatever overtakes them or fails.
PanelSettles == /\ Mine.loading ~> ~Mine.loading
                /\ Mine.busy ~> ~Mine.busy
=============================================================================
