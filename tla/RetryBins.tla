----------------------------- MODULE RetryBins -----------------------------
(***************************************************************************)
(* bin_counter_to_tag (txn_sender.rs): the tag under which a confirmer     *)
(* counts the retries of its transaction, an interval between two bins.    *)
(***************************************************************************)
EXTENDS Integers, Sequences

CONSTANTS
  NoTag,          \* "none"
  MinusInf, Inf   \* "-inf" and "inf"

ASSUME BinAssumption == NoTag \notin Int /\ MinusInf \notin Int /\ Inf \notin Int

RETRY_COUNT_BINS == <<0, 1, 2, 5, 10, 25>>

MAX_RETRIES_BINS == <<0, 1, 5, 10, 30>>

(* Compares with > where the code has >=. *)
Reached_Mutant(counter, bins) == {i \in DOMAIN bins : counter > bins[i]}

(* the bins the counter has reached; the loop stops at the last of them *)
Reached(counter, bins) == {i \in DOMAIN bins : counter >= bins[i]}

bin_counter_to_tag(counter, bins) ==
  IF counter = NoTag THEN <<NoTag, NoTag>>
  ELSE IF Reached(counter, bins) = {} THEN <<MinusInf, bins[1]>>
  ELSE LET i == CHOOSE i \in Reached(counter, bins) : \A j \in Reached(counter, bins) : j <= i
       IN  <<bins[i], IF i < Len(bins) THEN bins[i + 1] ELSE Inf>>

(* What a tag stands for: no counter at all, or those of its interval. *)
InTag(counter, tag) ==
  IF tag = <<NoTag, NoTag>> THEN counter = NoTag
  ELSE /\ counter # NoTag
       /\ tag[1] # MinusInf => tag[1] <= counter
       /\ tag[2] # Inf => counter < tag[2]

Tags(bins) ==
  {<<NoTag, NoTag>>, <<MinusInf, bins[1]>>, <<bins[Len(bins)], Inf>>}
    \cup {<<bins[i], bins[i + 1]>> : i \in 1..(Len(bins) - 1)}

(* Of all tags, the counter's own is the only one that stands for it.       *)
WellTagged(counter) ==
  \A bins \in {RETRY_COUNT_BINS, MAX_RETRIES_BINS} :
    {tag \in Tags(bins) : InTag(counter, tag)} = {bin_counter_to_tag(counter, bins)}
=============================================================================
