----------------------------- MODULE MCPersistence -----------------------------
(* Persistence for TLC. *)
EXTENDS Persistence, TLC

\* Drafts are interchangeable.
Symmetry == Permutations(Drafts)
===============================================================================
