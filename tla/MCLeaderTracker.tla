-------------------------- MODULE MCLeaderTracker --------------------------
(***************************************************************************)
(* Instances of LeaderTracker for TLC: leaders rotate every SlotsPerLeader *)
(* slots, and a leads two rotations in a row, as a large stake may.  The   *)
(* windows that start at slots 3 and 4 hold stable leaders only, and a     *)
(* poll can remove the slots before them; the later ones hold slots of c,  *)
(* which the cluster may not list.                                         *)
(***************************************************************************)
EXTENDS LeaderTracker

CONSTANTS a, b, c

Rotation == <<a, a, b, a, c, b>>

RotationSchedule == [s \in Slots |-> Rotation[1 + s \div SlotsPerLeader]]
=============================================================================
