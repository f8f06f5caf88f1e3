---------------------------- MODULE MCTxnSender ----------------------------
(***************************************************************************)
(* Instances of TxnSender for TLC, with the tags its confirmers count by.  *)
(***************************************************************************)
EXTENDS TxnSender, RetryBins, TLC

(* A confirmer counts its transaction under the right tag, or under "none"  *)
(* when its entry was gone: the tags partition the counters, the ones of    *)
(* the run and any other, at the bounds of the bins too, where              *)
(* test_bin_counter has only some values.                                   *)
TagsPartition ==
  \A counter \in {retry_count[r] : r \in Requests} \cup -2..35 \cup {NoTag} :
    WellTagged(counter)

(* Requests and signatures are interchangeable; for the safety runs only. *)
Symmetry == Permutations(Requests) \cup Permutations(Signatures)
=============================================================================
