---------------------------- MODULE MCAtlasSystem ----------------------------
(***************************************************************************)
(* Instances of AtlasSystem for TLC.                                       *)
(***************************************************************************)
EXTENDS AtlasSystem

(* The service's transactions land in the second block. *)
InTheSecond == [s \in 0..LastSlot |-> IF s = 1 THEN Signatures ELSE {}]
=============================================================================
