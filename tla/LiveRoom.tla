------------------------------ MODULE LiveRoom ------------------------------
(***************************************************************************)
(* A live session from the desktop's side: the owner and the joiners of one *)
(* room, each with an editor, a Y.Doc and a provider that reconnects, and   *)
(* the relay's room between them.  Connections drop, the relay learns of it *)
(* late, and messages of a connection arrive in order.  A text is a set of  *)
(* items; where an item stands is left to Yjs.  Admission, storage and the  *)
(* cleanup of rooms are RelayRooms.                                         *)
(***************************************************************************)
EXTENDS Naturals, Sequences, FiniteSets

CONSTANTS
    Owner, Joiners,
    MaxEdits,       \* bound: edits typed
    MaxConns,       \* bound: connections opened
    MaxAttempts,    \* MAX_RECONNECT_ATTEMPTS, 5 in the code
    CanDrop,        \* whether connections are lost
    CanTypeEarly    \* whether the owner types while the session opens

Clients == {Owner} \cup Joiners
Conns == 1..MaxConns
\* An item of a text: the edit that wrote it, and the seeding that copied it into the room.
Items == [edit : 1..MaxEdits, copy : 0..MaxConns]

ASSUME LiveConstants ==
    /\ Owner \notin Joiners /\ IsFiniteSet(Joiners)
    /\ MaxEdits \in Nat \ {0} /\ MaxConns \in Nat \ {0} /\ MaxAttempts \in Nat \ {0}
    /\ CanDrop \in BOOLEAN /\ CanTypeEarly \in BOOLEAN

VARIABLES
    phase,      \* "idle", "opening" while enableCollab waits, "live" with the binding installed
    text,       \* what each editor shows
    prior,      \* joinerPriorView: the joiner's own text, else localDoc of the owner
    isJoiner,   \* isCollabJoiner
    logged,     \* what the event log of the client's own draft says its text is
    doc,        \* each client's Y.Doc
    provider,   \* "none", "dialing", "open", "synced"
    attempts,   \* currentAttemptCount
    cur,        \* the connection of the provider, 0 for none
    conn,       \* conn[n]: the n-th connection
    room,       \* the relay's Y.Doc
    ownerHere,  \* room.isOwnerConnected
    typed,      \* edits typed so far
    erased      \* edits a user deleted, for the properties

editor == <<text, prior, isJoiner, logged>>
link == <<provider, attempts, cur>>
relay == <<room, ownerHere>>
users == <<typed, erased>>
vars == <<phase, editor, doc, link, conn, relay, users>>

\* Y.Doc: items inserted and items deleted; both only grow, and merging is union.
EmptyDoc == [ins |-> {}, del |-> {}]
Merge(a, b) == [ins |-> a.ins \cup b.ins, del |-> a.del \cup b.del]
Shows(d) == d.ins \ d.del
Docs == [ins : SUBSET Items, del : SUBSET Items]
Messages == [type : {"hello", "update", "ownerLeft"}, doc : Docs]
NoConn == [who |-> Owner, used |-> FALSE, alive |-> FALSE, held |-> FALSE, closing |-> FALSE,
           up |-> <<>>, down |-> <<>>]
Msg(type, d) == [type |-> type, doc |-> d]

TypeOK ==
    /\ phase \in [Clients -> {"idle", "opening", "live"}]
    /\ text \in [Clients -> SUBSET Items] /\ prior \in [Clients -> SUBSET Items]
    /\ isJoiner \in [Clients -> BOOLEAN] /\ logged \in [Clients -> SUBSET Items]
    /\ \A c \in Clients : doc[c].ins \subseteq Items /\ doc[c].del \subseteq doc[c].ins
    /\ provider \in [Clients -> {"none", "dialing", "open", "synced"}]
    /\ attempts \in [Clients -> 0..MaxAttempts] /\ cur \in [Clients -> 0..MaxConns]
    /\ \A n \in Conns : /\ conn[n].who \in Clients
                        /\ \A m \in {conn[n].up[k] : k \in DOMAIN conn[n].up} : m.type = "update"
    /\ room.ins \subseteq Items /\ room.del \subseteq room.ins
    /\ ownerHere \in BOOLEAN /\ typed \in 0..MaxEdits /\ erased \subseteq 1..MaxEdits

Init ==
    /\ phase = [c \in Clients |-> "idle"]
    /\ text = [c \in Clients |-> {}] /\ prior = [c \in Clients |-> {}]
    /\ isJoiner = [c \in Clients |-> FALSE] /\ logged = [c \in Clients |-> {}]
    /\ doc = [c \in Clients |-> EmptyDoc]
    /\ provider = [c \in Clients |-> "none"] /\ attempts = [c \in Clients |-> 0]
    /\ cur = [c \in Clients |-> 0]
    /\ conn = [n \in Conns |-> NoConn]
    /\ room = EmptyDoc /\ ownerHere = FALSE /\ typed = 0 /\ erased = {}

-----------------------------------------------------------------------------
\* persistTransaction: a change of the editor is logged unless the client is a joiner.
Shown(c, t) ==
    /\ text' = [text EXCEPT ![c] = t]
    /\ logged' = IF isJoiner[c] THEN logged ELSE [logged EXCEPT ![c] = t]

\* An update leaves on the connection the provider has open.
Sent(c, d) ==
    IF cur[c] # 0 /\ conn[cur[c]].alive
    THEN [conn EXCEPT ![cur[c]].up = Append(@, Msg("update", d))] ELSE conn

Hung(c) == IF cur[c] = 0 THEN conn ELSE [conn EXCEPT ![cur[c]].alive = FALSE, ![cur[c]].down = <<>>]

\* disconnectYjsProvider: the provider and the Y.Doc are destroyed.
Disconnect(c) ==
    /\ conn' = Hung(c)
    /\ provider' = [provider EXCEPT ![c] = "none"] /\ cur' = [cur EXCEPT ![c] = 0]
    /\ attempts' = [attempts EXCEPT ![c] = 0] /\ doc' = [doc EXCEPT ![c] = EmptyDoc]

\* Mutant: the joiner flag is lifted before the joiner's text is put back.
DisableFlagFirst(c) ==
    /\ Disconnect(c)
    /\ isJoiner' = [isJoiner EXCEPT ![c] = FALSE]
    /\ IF isJoiner[c] /\ phase[c] = "live" THEN Shown(c, prior[c]) ELSE UNCHANGED <<text, logged>>
    /\ UNCHANGED prior

\* disableCollab: a joiner gets its own text back before it stops being a joiner.
Disable(c) ==
    /\ Disconnect(c)
    /\ isJoiner' = [isJoiner EXCEPT ![c] = FALSE]
    /\ IF isJoiner[c] THEN Shown(c, prior[c]) ELSE UNCHANGED <<text, logged>>
    /\ UNCHANGED prior

Type(c) ==
    /\ typed < MaxEdits /\ typed' = typed + 1
    /\ phase[c] = "opening" /\ c = Owner => CanTypeEarly
    /\ LET x == [edit |-> typed + 1, copy |-> 0]
           d == [ins |-> {x}, del |-> {}]
       IN /\ Shown(c, text[c] \cup {x})
          /\ IF phase[c] = "live"
             THEN doc' = [doc EXCEPT ![c] = Merge(@, d)] /\ conn' = Sent(c, d)
             ELSE UNCHANGED <<doc, conn>>
    /\ UNCHANGED <<phase, prior, isJoiner, link, relay, erased>>

\* A deletion typed in a live editor.
Erase(c, x) ==
    /\ phase[c] = "live" /\ x \in text[c] /\ x.copy = 0
    /\ Shown(c, text[c] \ {x})
    /\ LET d == [ins |-> {x}, del |-> {x}] IN
       doc' = [doc EXCEPT ![c] = Merge(@, d)] /\ conn' = Sent(c, d)
    /\ erased' = erased \cup {x.edit}
    /\ UNCHANGED <<phase, prior, isJoiner, link, relay, typed>>

\* toggle and join up to enableCollab's wait: a provider is created and dials.
Start(c) ==
    /\ phase[c] = "idle"
    /\ phase' = [phase EXCEPT ![c] = "opening"]
    /\ prior' = [prior EXCEPT ![c] = text[c]]
    /\ isJoiner' = [isJoiner EXCEPT ![c] = c # Owner]
    /\ provider' = [provider EXCEPT ![c] = "dialing"]
    /\ UNCHANGED <<text, logged, doc, attempts, cur, conn, relay, users>>

\* toggle while live.
Stop(c) ==
    /\ phase[c] = "live"
    /\ phase' = [phase EXCEPT ![c] = "idle"]
    /\ Disable(c)
    /\ UNCHANGED <<relay, users>>

\* The wait for the first sync times out, and toggle's or join's catch cleans up.
Timeout(c) ==
    /\ phase[c] = "opening"
    /\ phase' = [phase EXCEPT ![c] = "idle"]
    /\ Disable(c)
    /\ UNCHANGED <<relay, users>>

-----------------------------------------------------------------------------
\* Mutant: the last failed retry changes the indicator and keeps the session.
FailedQuietly(c) ==
    LET last == attempts[c] + 1 >= MaxAttempts IN
    /\ attempts' = [attempts EXCEPT ![c] = IF last THEN 0 ELSE @ + 1]
    /\ provider' = [provider EXCEPT ![c] = IF last THEN "none" ELSE "dialing"]
    /\ cur' = [cur EXCEPT ![c] = 0] /\ conn' = Hung(c)
    /\ UNCHANGED <<phase, editor, doc>>

\* connection-close while retries are under way: the last one ends the session
\* (trackCollabState).
Failed(c) ==
    IF attempts[c] + 1 < MaxAttempts
    THEN /\ attempts' = [attempts EXCEPT ![c] = @ + 1]
         /\ provider' = [provider EXCEPT ![c] = "dialing"]
         /\ cur' = [cur EXCEPT ![c] = 0] /\ conn' = Hung(c)
         /\ UNCHANGED <<phase, editor, doc>>
    ELSE /\ Disable(c)
         /\ phase' = [phase EXCEPT ![c] = IF @ = "live" THEN "idle" ELSE @]

\* The relay admits the connection: it sends the whole document, and asks for the client's.
Dial(c, n) ==
    /\ provider[c] = "dialing" /\ ~conn[n].used /\ (\A k \in Conns : k < n => conn[k].used)
    /\ c # Owner => ownerHere
    /\ conn' = [conn EXCEPT ![n] = [NoConn EXCEPT !.who = c, !.used = TRUE, !.alive = TRUE,
                                    !.held = TRUE, !.down = <<Msg("hello", room)>>]]
    /\ cur' = [cur EXCEPT ![c] = n] /\ provider' = [provider EXCEPT ![c] = "open"]
    /\ ownerHere' = (ownerHere \/ c = Owner)
    /\ UNCHANGED <<phase, editor, doc, attempts, room, users>>

\* The relay cannot be reached, or it turns the joiner away.
DialFails(c) ==
    /\ provider[c] = "dialing" /\ (CanDrop \/ (c # Owner /\ ~ownerHere))
    /\ attempts[c] # 0
    /\ Failed(c)
    /\ UNCHANGED <<relay, users>>

\* The client's connection breaks; what it sent may still arrive.
Drop(c) ==
    /\ CanDrop /\ cur[c] # 0
    /\ IF attempts[c] = 0
       THEN /\ attempts' = [attempts EXCEPT ![c] = 1]
            /\ provider' = [provider EXCEPT ![c] = "dialing"]
            /\ cur' = [cur EXCEPT ![c] = 0] /\ conn' = Hung(c)
            /\ UNCHANGED <<phase, editor, doc>>
       ELSE Failed(c)
    /\ UNCHANGED <<relay, users>>

-----------------------------------------------------------------------------
Mine(c) == conn[cur[c]]
Arrives(c, type) == cur[c] # 0 /\ Mine(c).alive /\ Mine(c).down # <<>> /\ Head(Mine(c).down).type = type
Taken(c) == [conn EXCEPT ![cur[c]].down = Tail(@)]
Synced(c) == provider' = [provider EXCEPT ![c] = "synced"] /\ attempts' = [attempts EXCEPT ![c] = 0]

\* The first sync while the owner's enableCollab waits: the room's text is replaced by the
\* text captured before the wait, and the editor is set to it.
OwnerSeeds ==
    /\ phase[Owner] = "opening" /\ Arrives(Owner, "hello")
    /\ LET n == cur[Owner]
           was == Merge(doc[Owner], Head(Mine(Owner).down).doc)
           seed == {[edit |-> x.edit, copy |-> n] : x \in prior[Owner]}
           now == [ins |-> was.ins \cup seed, del |-> was.ins]
       IN /\ doc' = [doc EXCEPT ![Owner] = now]
          /\ Shown(Owner, seed)
          /\ conn' = [conn EXCEPT ![n].down = Tail(@), ![n].up = Append(@, Msg("update", now))]
    /\ phase' = [phase EXCEPT ![Owner] = "live"]
    /\ Synced(Owner)
    /\ UNCHANGED <<prior, isJoiner, cur, relay, users>>

\* The first sync of a joiner: the editor shows the room.
JoinerEnters(c) ==
    /\ c # Owner /\ phase[c] = "opening" /\ Arrives(c, "hello")
    /\ doc' = [doc EXCEPT ![c] = Merge(@, Head(Mine(c).down).doc)]
    /\ Shown(c, Shows(doc'[c]))
    /\ conn' = Taken(c)
    /\ phase' = [phase EXCEPT ![c] = "live"]
    /\ Synced(c)
    /\ UNCHANGED <<prior, isJoiner, cur, relay, users>>

\* A sync after a reconnection: the client sends what it has and shows the merged text.
Resync(c) ==
    /\ phase[c] = "live" /\ Arrives(c, "hello")
    /\ LET mine == doc[c]
           now == Merge(mine, Head(Mine(c).down).doc)
       IN /\ doc' = [doc EXCEPT ![c] = now]
          /\ Shown(c, Shows(now))
          /\ conn' = [conn EXCEPT ![cur[c]].down = Tail(@), ![cur[c]].up = Append(@, Msg("update", mine))]
    /\ Synced(c)
    /\ UNCHANGED <<phase, prior, isJoiner, cur, relay, users>>

\* Mutant: the observer takes a remote transaction for one of its own.
RemoteUnseen(c) ==
    /\ Arrives(c, "update")
    /\ doc' = [doc EXCEPT ![c] = Merge(@, Head(Mine(c).down).doc)]
    /\ conn' = Taken(c)
    /\ UNCHANGED <<phase, editor, link, relay, users>>

\* A remote update: the Y.Doc merges it and the binding dispatches it into the editor.
Remote(c) ==
    /\ Arrives(c, "update")
    /\ doc' = [doc EXCEPT ![c] = Merge(@, Head(Mine(c).down).doc)]
    /\ IF phase[c] = "live" THEN Shown(c, Shows(doc'[c])) ELSE UNCHANGED <<text, logged>>
    /\ conn' = Taken(c)
    /\ UNCHANGED <<phase, prior, isJoiner, link, relay, users>>

\* handleOwnerLeft: the provider is destroyed, and a live session ends; one that is still
\* opening waits for its timeout.
OwnerLeft(c) ==
    /\ Arrives(c, "ownerLeft")
    /\ IF phase[c] = "live" THEN Disable(c) /\ phase' = [phase EXCEPT ![c] = "idle"]
       ELSE Disconnect(c) /\ UNCHANGED <<phase, editor>>
    /\ UNCHANGED <<relay, users>>

-----------------------------------------------------------------------------
\* The relay merges an update and passes it to the other clients it has open.
Relays(n) ==
    /\ conn[n].held /\ conn[n].up # <<>>
    /\ LET d == Head(conn[n].up).doc
           new == Merge(room, d) # room
       IN /\ room' = Merge(room, d)
          /\ conn' = [k \in Conns |->
                 IF k = n THEN [conn[k] EXCEPT !.up = Tail(@)]
                 ELSE IF new /\ conn[k].held /\ conn[k].alive /\ ~conn[k].closing
                 THEN [conn[k] EXCEPT !.down = Append(@, Msg("update", d))]
                 ELSE conn[k]]
    /\ UNCHANGED <<phase, editor, doc, link, ownerHere, users>>

\* The relay's close event of a connection.  The owner's closes all others and clears the room.
Closed(n) ==
    /\ conn[n].held /\ ~conn[n].alive /\ conn[n].up = <<>>
    /\ IF conn[n].who # Owner
       THEN conn' = [conn EXCEPT ![n].held = FALSE] /\ UNCHANGED <<room, ownerHere>>
       ELSE /\ ownerHere' = FALSE
            /\ room' = [room EXCEPT !.del = room.ins]
            /\ conn' = [k \in Conns |->
                   IF k = n THEN [conn[k] EXCEPT !.held = FALSE]
                   ELSE IF conn[k].held /\ ~conn[k].closing
                   THEN [conn[k] EXCEPT !.closing = TRUE,
                                        !.down = IF conn[k].alive
                                                 THEN Append(@, Msg("ownerLeft", EmptyDoc)) ELSE @]
                   ELSE conn[k]]
    /\ UNCHANGED <<phase, editor, doc, link, users>>

-----------------------------------------------------------------------------
Progress ==
    \/ OwnerSeeds
    \/ \E c \in Clients : \/ Timeout(c) \/ DialFails(c) \/ JoinerEnters(c) \/ Resync(c)
                          \/ Remote(c) \/ OwnerLeft(c) \/ \E n \in Conns : Dial(c, n)
    \/ \E n \in Conns : Relays(n) \/ Closed(n)

Next ==
    \/ Progress
    \/ \E c \in Clients : Type(c) \/ Start(c) \/ Stop(c) \/ Drop(c) \/ \E x \in Items : Erase(c, x)

Spec == Init /\ [][Next]_vars

\* Messages arrive, the relay notices closed sockets, providers dial and timers fire; nothing
\* makes a user act or a connection break.
Fairness ==
    /\ WF_vars(OwnerSeeds) /\ \A n \in Conns : WF_vars(Relays(n)) /\ WF_vars(Closed(n))
    /\ \A c \in Clients : /\ WF_vars(Timeout(c)) /\ WF_vars(DialFails(c))
                          /\ WF_vars(JoinerEnters(c) \/ Resync(c) \/ Remote(c))
                          /\ WF_vars(OwnerLeft(c)) /\ WF_vars(\E n \in Conns : Dial(c, n))
FairSpec == Spec /\ Fairness

-----------------------------------------------------------------------------
Quiet == \A n \in Conns : conn[n].up = <<>> /\ conn[n].down = <<>> /\ (conn[n].held => conn[n].alive)
Connected(c) == phase[c] = "live" /\ provider[c] = "synced"

\* Once nothing is on its way, everyone who is live and connected sees one text, the room's
\* (yjsBinding in both directions, the provider's sync and the relay's broadcast).
Converged == Quiet => \A c \in Clients : Connected(c) => text[c] = Shows(room)

\* The binding keeps editor and Y.Doc equal, whatever is on its way.
BindingHolds == \A c \in Clients : phase[c] = "live" => text[c] = Shows(doc[c])

\* Editor, Y.Doc and room agree (BindingHolds, Converged).
TextsAgree == TypeOK /\ BindingHolds /\ Converged

\* No text is in the room twice: the seed of a new session replaces what an older one left.
SeededOnce ==
    \A c \in Clients : phase[c] = "live" =>
        \A x, y \in text[c] : x.edit = y.edit => x = y

\* Whenever a joiner is back on its own draft the editor shows what the draft's log says,
\* whether it left, was turned away, timed out, was dropped or lost its owner.
JoinerLeavesNoTrace == \A c \in Joiners : ~isJoiner[c] => text[c] = logged[c]

\* A session touches neither a joiner's own text nor its own log: it leaves no trace
\* (JoinerLeavesNoTrace, which holds at first), and a joiner's log never takes text of
\* another writer.
JoinersKeepTheirs ==
    [][/\ JoinerLeavesNoTrace'
       /\ \A c \in Joiners : logged'[c] # logged[c] => ~isJoiner[c] /\ phase[c] # "live"]_vars

\* A session whose owner is gone for good ends for the joiners.
SessionEnds ==
    []((phase[Owner] = "idle") => <>(phase[Owner] # "idle" \/ \A c \in Joiners : phase[c] # "live"))

\* While a session is live nothing but a user's deletion takes text out of the owner's editor,
\* also when its connection comes back (the owner's local SQLite is the source of truth).
Edits(t) == {x.edit : x \in t}
OwnerTextSurvives ==
    [][phase[Owner] = "live" /\ phase'[Owner] = "live"
       => Edits(text[Owner]) \ Edits(text'[Owner]) \subseteq erased']_vars

\* Going live leaves the owner's text as it is (the owner seeds from local state).
SeedKeepsText ==
    [][phase[Owner] = "opening" /\ phase'[Owner] = "live"
       => Edits(text'[Owner]) = Edits(text[Owner])]_vars
=============================================================================
