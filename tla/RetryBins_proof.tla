-------------------------- MODULE RetryBins_proof --------------------------
(***************************************************************************)
(* That the tags of a table of bins partition the counters, for every i32  *)
(* and beyond, and for any increasing table, of which RETRY_COUNT_BINS and *)
(* MAX_RETRIES_BINS are two.                                               *)
(***************************************************************************)
EXTENDS MCTxnSender, TxnSender_proof

Increasing(bins) ==
  /\ bins \in Seq(Int) /\ Len(bins) > 0
  /\ \A i, j \in 1..Len(bins) : i < j => bins[i] < bins[j]

(* The bins a counter has reached are the first ones.  There are as many as *)
(* the last of them says.                                                   *)
LEMMA ReachedFirst ==
  ASSUME NEW bins, Increasing(bins), NEW c \in Int
  PROVE  \E k \in 0..Len(bins) : Reached(c, bins) = 1..k
<1> DEFINE n == Len(bins)
           R == Reached(c, bins)
           k == Cardinality(R)
<1>1. n \in Nat /\ \A i \in 1..n : bins[i] \in Int
  BY DEF Increasing
<1>2. R = {i \in 1..n : c >= bins[i]}
  BY DEF Reached, Increasing
<1>3. /\ IsFiniteSet(1..n) /\ Cardinality(1..n) = n
      /\ \A i \in Nat : IsFiniteSet(1..i) /\ Cardinality(1..i) = i
  <2>1. ASSUME NEW i \in Nat PROVE IsFiniteSet(1..i) /\ Cardinality(1..i) = i
    <3>1. /\ IsFiniteSet(1..i)
          /\ Cardinality(1..i) = IF 1 > i THEN 0 ELSE i - 1 + 1
      BY FS_Interval
    <3> QED BY <3>1
  <2> QED BY <1>1, <2>1
<1> HIDE DEF n
<1>4. IsFiniteSet(R) /\ k \in Nat /\ k <= n
  <2>1. R \subseteq 1..n
    BY <1>2
  <2> HIDE DEF R
  <2>2. IsFiniteSet(R) /\ k <= n
    BY <1>3, <2>1, FS_Subset
  <2> QED BY <2>2, FS_CardinalityType
<1>5. ASSUME NEW i \in R PROVE i \in 1..k
  <2>1. \A j \in 1..i : j \in R
    <3> TAKE j \in 1..i
    <3>1. i \in 1..n /\ c >= bins[i]
      BY <1>2, <1>5
    <3>2. j \in 1..n /\ (j < i \/ j = i)
      BY <1>1, <3>1
    <3>3. bins[j] <= bins[i]
      BY <1>1, <3>1, <3>2 DEF Increasing, n
    <3> QED BY <1>1, <1>2, <3>1, <3>2, <3>3
  <2>2. i \in Nat /\ i >= 1
    BY <1>1, <1>2, <1>5
  <2> HIDE DEF R
  <2>3. Cardinality(1..i) <= k /\ Cardinality(1..i) = i
    BY <1>3, <1>4, <2>1, <2>2, FS_Subset
  <2> QED BY <1>4, <2>2, <2>3
<1> HIDE DEF R
<1>6. R \subseteq 1..k /\ Cardinality(R) = Cardinality(1..k) /\ IsFiniteSet(1..k)
  BY <1>3, <1>4, <1>5
<1>7. R = 1..k
  BY <1>6, FS_Subset
<1>8. k \in 0..n
  BY <1>1, <1>4
<1> QED BY <1>7, <1>8 DEF R, n

(* A counter that is missing has the tag that says so, and no other.        *)
LEMMA MissingTagged ==
  ASSUME NEW bins, Increasing(bins)
  PROVE  {tag \in Tags(bins) : InTag(NoTag, tag)} = {bin_counter_to_tag(NoTag, bins)}
BY DEF Tags, InTag, bin_counter_to_tag

(* Of the tags of a table, only its own holds a counter.                    *)
LEMMA Tagged ==
  ASSUME NEW bins, Increasing(bins), NEW c \in Int
  PROVE  {tag \in Tags(bins) : InTag(c, tag)} = {bin_counter_to_tag(c, bins)}
<1> DEFINE n == Len(bins)
           first == <<MinusInf, bins[1]>>
           last == <<bins[n], Inf>>
           mid(i) == <<bins[i], bins[i + 1]>>
<1>1. n \in Nat /\ n > 0 /\ \A i \in 1..n : bins[i] \in Int /\ bins[i] # MinusInf /\ bins[i] # Inf
  BY BinAssumption DEF Increasing
<1>2. PICK k \in 0..n : Reached(c, bins) = 1..k
  BY ReachedFirst
<1>3. \A i \in 1..n : bins[i] <= c <=> i <= k
  <2>1. Reached(c, bins) = {i \in 1..n : c >= bins[i]}
    BY DEF Reached, Increasing
  <2> HIDE DEF n
  <2> QED BY <1>1, <1>2, <2>1
<1>4. bin_counter_to_tag(c, bins) =
        IF k = 0 THEN first ELSE IF k = n THEN last ELSE mid(k)
  <2>1. c # NoTag
    BY BinAssumption
  <2>2. CASE k = 0
    <3>1. Reached(c, bins) = {}
      BY <1>2, <2>2
    <3> QED BY <2>1, <2>2, <3>1 DEF bin_counter_to_tag
  <2>3. CASE k # 0
    <3> DEFINE R == Reached(c, bins)
               top == CHOOSE i \in R : \A j \in R : j <= i
    <3>0. k \in Nat /\ k >= 1 /\ k <= n
      BY <1>1, <1>2, <2>3
    <3>1. R # {} /\ k \in R /\ \A j \in R : j <= k
      BY <1>2, <3>0
    <3>2. top \in R /\ \A j \in R : j <= top
      <4> HIDE DEF R
      <4> QED BY <3>1
    <3>3. top = k
      <4>1. k <= top /\ top <= k /\ top \in 1..k
        BY <1>2, <3>1, <3>2
      <4> HIDE DEF top
      <4> QED BY <3>0, <4>1
    <3>4. bin_counter_to_tag(c, bins) = <<bins[top], IF top < n THEN bins[top + 1] ELSE Inf>>
      BY <2>1, <3>1 DEF bin_counter_to_tag
    <3> HIDE DEF top, n
    <3>5. k < n <=> k # n
      BY <1>1, <3>0
    <3> QED BY <2>3, <3>3, <3>4, <3>5
  <2> QED BY <2>2, <2>3
<1>5. Tags(bins) = {<<NoTag, NoTag>>, first, last} \cup {mid(i) : i \in 1..(n - 1)}
  BY DEF Tags
<1>0. /\ c # NoTag /\ ~InTag(c, <<NoTag, NoTag>>)
      /\ \A x, y : x \in Int \/ y \in Int => <<x, y>> # <<NoTag, NoTag>>
  BY BinAssumption DEF InTag
<1>6. InTag(c, first) <=> k = 0
  <2>1. InTag(c, first) <=> c < bins[1]
    BY <1>0, <1>1 DEF InTag
  <2>2. 1 \in 1..n /\ (1 <= k <=> k # 0)
    BY <1>1, <1>2
  <2> QED BY <1>1, <1>3, <2>1, <2>2
<1>7. InTag(c, last) <=> k = n
  <2>1. n \in 1..n /\ (n <= k <=> k = n)
    <3> HIDE DEF n
    <3> QED BY <1>1, <1>2
  <2>2. InTag(c, last) <=> bins[n] <= c
    <3> HIDE DEF n
    <3> QED BY <1>0, <1>1, <2>1 DEF InTag
  <2> QED BY <1>3, <2>1, <2>2
<1>8. ASSUME NEW i \in 1..(n - 1) PROVE InTag(c, mid(i)) <=> k = i
  <2>1. i \in 1..n /\ i + 1 \in 1..n
    BY <1>1
  <2>2. InTag(c, mid(i)) <=> bins[i] <= c /\ c < bins[i + 1]
    BY <1>0, <1>1, <2>1 DEF InTag
  <2>3. (c < bins[i + 1]) <=> ~(bins[i + 1] <= c)
    BY <1>1, <2>1
  <2>4. InTag(c, mid(i)) <=> i <= k /\ ~(i + 1 <= k)
    BY <1>3, <2>1, <2>2, <2>3
  <2> QED BY <1>1, <1>2, <2>4
<1>9. k = 0 \/ k = n \/ k \in 1..(n - 1)
  BY <1>1, <1>2
<1>10. n # 0 /\ 0 \notin 1..(n - 1) /\ n \notin 1..(n - 1)
  BY <1>1
<1> HIDE DEF n, first, last, mid
<1> QED BY <1>0, <1>4, <1>5, <1>6, <1>7, <1>8, <1>9, <1>10

(* The tables of txn_sender.rs.                                             *)
LEMMA TablesIncrease == Increasing(RETRY_COUNT_BINS) /\ Increasing(MAX_RETRIES_BINS)
<1>1. Increasing(RETRY_COUNT_BINS)
  BY DEF Increasing, RETRY_COUNT_BINS
<1>2. Increasing(MAX_RETRIES_BINS)
  BY DEF Increasing, MAX_RETRIES_BINS
<1> QED BY <1>1, <1>2

LEMMA EveryCounterTagged == \A c \in Int \cup {NoTag} : WellTagged(c)
BY Tagged, MissingTagged, TablesIncrease DEF WellTagged

(* Every retry counter there can be, of the run or any other, is counted    *)
(* under exactly one tag, the one whose interval holds it; a missing one    *)
(* under "none".                                                            *)
THEOREM CountersAreTagged == Spec => []TagsPartition
<1>1. TypeOK => TagsPartition
  <2>1. ASSUME TypeOK, NEW r \in Requests PROVE retry_count[r] \in Int
    BY <2>1 DEF TypeOK
  <2>2. ASSUME TypeOK,
               NEW c \in {retry_count[r] : r \in Requests} \cup -2..35 \cup {NoTag}
        PROVE  c \in Int \cup {NoTag}
    <3>1. CASE c \in {retry_count[r] : r \in Requests}
      BY <2>1, <2>2, <3>1
    <3>2. CASE c \in -2..35
      BY <3>2
    <3> QED BY <2>2, <3>1, <3>2
  <2> QED BY <2>2, EveryCounterTagged DEF TagsPartition
<1> QED BY <1>1, TypeCorrect, PTL
=============================================================================
