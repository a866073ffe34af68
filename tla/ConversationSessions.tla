------------------------ MODULE ConversationSessions ------------------------
(***************************************************************************)
(* Conversations with a memory of whether the writer was in a hurry: a     *)
(* variable that the program does not have and that no step depends on.    *)
(*                                                                         *)
(* The panel lets the writer open the history or the origin of a branch    *)
(* while it loads, and a panel taken down does not make the next one wait  *)
(* for its saves.  Then an operation may read or show what another is      *)
(* about to change, so what is promised of the rows is promised until      *)
(* then; that nothing hangs is promised in any case.                       *)
(***************************************************************************)
EXTENDS Conversations

VARIABLE
    hurried  \* was the panel ever used so?

sessionVars == <<vars, hurried>>

SessionInit == Init /\ hurried = FALSE

Hurries ==
    \/ Mine.loading /\ (Refresh \/ \E id \in Convs : Open(id))
    \/ (Sending(Mounted) \/ Mine.dirty # {}) /\ Remount

SessionNext == Next /\ hurried' = (hurried \/ Hurries)
SessionSpec == SessionInit /\ [][SessionNext]_sessionVars
FairSessionSpec == SessionSpec /\ Fairness

-----------------------------------------------------------------------------
\* Until the writer hurries, a row holds what it was copied with and then what was said in its
\* conversation, an answer only after its prompt.
TheirsUntilHurried == hurried \in BOOLEAN /\ (~hurried => RowsAreTheirs)

\* Until then, a stream has its prompt stored and its conversation shown, and what a panel
\* with nothing under way and nothing to save shows is what is stored.
ShownUntilHurried == ~hurried => ShownIsStored

\* Until then, no save shortens or replaces what is stored, and none brings back a
\* conversation that was deleted.
GrowsUntilHurried ==
    [][~hurried =>
       /\ \A row \in rows, then \in rows' :
              row.id = then.id => IsPrefix(row.msgs, then.msgs)
       /\ \A then \in rows' \ rows : then.id \in Ids(rows) \/
              \E i \in Tasks : task[i].pc = "create" /\ task[i].conv = then.id]_sessionVars
=============================================================================
