------------------------------ MODULE WriteBehind ------------------------------
(***************************************************************************)
(* What the save path promises a writer, with no queue, bookkeeping or     *)
(* snapshot: edits are accepted at once and reach storage later, each      *)
(* draft's in the order they were accepted; only an edit still on its way  *)
(* can be lost; and a caller told "saved" can rely on it for ever.         *)
(***************************************************************************)
EXTENDS Naturals

CONSTANTS
    Drafts,
    Edits     \* edits are numbered in the order they are accepted

VARIABLES
    text,      \* the edits of each draft, saved or on their way
    saved,     \* the edits of each draft that storage holds
    answered   \* the edits some caller has been told are saved

vars == <<text, saved, answered>>

Everywhere(f) == UNION {f[d] : d \in Drafts}

Init ==
    /\ text = [d \in Drafts |-> {}]
    /\ saved = [d \in Drafts |-> {}]
    /\ answered = {}

\* The writer's next edit, later than every edit still known.
Accept(d, e) ==
    /\ \A f \in Everywhere(text) : f < e
    /\ text' = [text EXCEPT ![d] = @ \union {e}]
    /\ UNCHANGED <<saved, answered>>

\* The first edit of d still on its way.
Oldest(d, e) ==
    /\ e \in text[d] \ saved[d]
    /\ \A f \in text[d] \ saved[d] : e <= f

Save(d, e) ==
    /\ Oldest(d, e)
    /\ saved' = [saved EXCEPT ![d] = @ \union {e}]
    /\ UNCHANGED <<text, answered>>

Lose(d, e) ==
    /\ Oldest(d, e)
    /\ text' = [text EXCEPT ![d] = @ \ {e}]
    /\ UNCHANGED <<saved, answered>>

Answering ==
    /\ answered \subseteq answered'
    /\ answered' \subseteq Everywhere(saved)

Answer == Answering /\ UNCHANGED <<text, saved>>

\* The process ends, having told its caller or not.
Restart == Answering /\ text' = saved /\ UNCHANGED saved

Next ==
    \/ \E d \in Drafts : \E e \in Edits : Accept(d, e)
    \/ \E d \in Drafts : \E e \in text[d] : Save(d, e) \/ Lose(d, e)
    \/ Answer
    \/ Restart

Spec == Init /\ [][Next]_vars
===============================================================================
