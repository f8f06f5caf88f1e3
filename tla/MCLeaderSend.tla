---------------------------- MODULE MCLeaderSend ----------------------------
(***************************************************************************)
(* Instances of LeaderSend for TLC.                                        *)
(***************************************************************************)
EXTENDS LeaderSend
=============================================================================
