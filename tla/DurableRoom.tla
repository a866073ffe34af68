----------------------------- MODULE DurableRoom -----------------------------
(* What the relay promises for one live room, without its slots, timers,     *)
(* queue and storage calls: a shared document, the part of it that survives  *)
(* the process, and the rule that only the other part can be lost, and only  *)
(* when the process ends.  RelayRooms is shown to implement it.              *)

VARIABLES
  shared,    \* the operations of the document, as the next client gets them
  durable,   \* those of them that storage holds
  running    \* is there a relay process?

vars == <<shared, durable, running>>

Init == durable = shared /\ running = TRUE

\* Operations are accepted, stored, or both; while the process runs neither set
\* ever shrinks.
Grow ==
  /\ running /\ UNCHANGED running
  /\ shared \subseteq shared'
  /\ durable \subseteq durable'
  /\ durable' \subseteq shared'

\* The process ends: what storage holds is what is left of the document.  The
\* last write may or may not have taken effect.
Lose ==
  /\ running /\ running' = FALSE
  /\ durable \subseteq durable'
  /\ durable' \subseteq shared
  /\ shared' = durable'

\* The next process starts from what the last one left.
Begin == ~running /\ running' = TRUE /\ UNCHANGED <<shared, durable>>

Next == Grow \/ Lose \/ Begin

Spec == Init /\ [][Next]_vars
=============================================================================
