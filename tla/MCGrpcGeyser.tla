---------------------------- MODULE MCGrpcGeyser ----------------------------
(***************************************************************************)
(* Instances of GrpcGeyser for TLC.                                        *)
(***************************************************************************)
EXTENDS GrpcGeyser

(* The service's signatures are in every third block. *)
EveryThird == [s \in Slots |-> IF s % 3 = 1 THEN Signatures ELSE {}]
=============================================================================
