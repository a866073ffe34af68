------------------------- MODULE MCDocumentLoader -------------------------
(* A document of two tabs for DocumentLoader, the tab of each draft, and    *)
(* the bound of the runs: as many requests and edits together as requests.  *)
EXTENDS DocumentLoader, FiniteSets
TwoAndOne == <<1, 1, 2>>
Started == {i \in Ops : ~At(i, "new")}
Edited == {d \in Drafts : logged[d] > 0}
BoundedNext == Next /\ Cardinality(Started') + Cardinality(Edited') <= MaxOps
BoundedSpec == Init /\ [][BoundedNext]_vars /\ Fairness

\* A selection of the other tab, begun while the tab on screen is being deleted, loses its load
\* to a click on the draft it loads and rejects late.
Script == <<"open", "dropTab", "tab", "draft", "draft">>
ScriptedNext == Next /\ \A i \in Ops : op'[i].step = "new" \/ op'[i].kind = Script[i]
ScriptedSpec == Init /\ [][ScriptedNext]_vars
=============================================================================
