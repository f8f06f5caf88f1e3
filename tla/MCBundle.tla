------------------------------ MODULE MCBundle ------------------------------
(***************************************************************************)
(* Instances of Bundle for TLC: the example client sends up to two         *)
(* transactions, everybody else one.                                       *)
(***************************************************************************)
EXTENDS Bundle

TwoOrOne == [b \in Bundles |-> IF b \in Examples THEN 2 ELSE 1]
=============================================================================
