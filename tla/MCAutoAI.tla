------------------------------ MODULE MCAutoAI ------------------------------
(* AutoAI for TLC: a draft, an iteration that begins with the same text, and *)
(* a draft of another tab.                                              *)
EXTENDS AutoAI, TLC

CONSTANTS d1, d2, d3, here, there

MCTabOf == d1 :> here @@ d2 :> here @@ d3 :> there
MCOpening == d1 :> 2 @@ d2 :> 2 @@ d3 :> 3
=============================================================================
