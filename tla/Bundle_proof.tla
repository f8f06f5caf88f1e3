---------------------------- MODULE Bundle_proof ----------------------------
(***************************************************************************)
(* What module Bundle promises of every answer, proved for any bundles,    *)
(* example clients, blockhash lifetimes and numbers of retries.            *)
(***************************************************************************)
EXTENDS Bundle, FiniteSetTheorems, TLAPS

-----------------------------------------------------------------------------
(* The inductive invariant: the handler works through transactions that all *)
(* decoded, one after the other.                                            *)
Progress(b) ==
  /\ current[b] >= 1
  /\ place[b] \in {"building", "submitted", "refused"} => current[b] = 1
  /\ place[b] \in {"checking", "sending", "polling", "answered"} =>
       transactions[b] \in Seq(Blockhashes)
  /\ place[b] \in {"sending", "polling"} => current[b] <= Len(transactions[b])
  /\ place[b] \in {"checking", "answered"} => current[b] <= Len(transactions[b]) + 1

BundleLedger ==
  /\ BundleTypeOK
  /\ \A b \in Bundles : Progress(b)
  /\ OneOutcomeEach
  /\ SuccessLanded

-----------------------------------------------------------------------------
(* The two lists of an answer.                                              *)

(* Nothing is dealt with at first, and nothing is reported. *)
LEMMA NothingAccounted == Accounted(<<>>, <<>>, 0)
BY DEF Accounted

LEMMA AccountsEmpty ==
  ASSUME NEW done \in Seq(Nat), NEW failed \in Seq(Nat \X Reasons), Accounted(done, failed, 0)
  PROVE  DOMAIN done = {} /\ DOMAIN failed = {}
<1>1. Len(done) \in Nat /\ Len(failed) \in Nat /\ Len(done) + Len(failed) = 0
  BY DEF Accounted
<1>2. Len(done) = 0 /\ Len(failed) = 0
  BY <1>1
<1>3. DOMAIN done = 1..0 /\ DOMAIN failed = 1..0
  BY <1>2
<1> QED
  BY <1>3

(* What an account of n transactions names is one of them. *)
LEMMA AccountsInRange ==
  ASSUME NEW done, NEW failed, NEW n \in Nat, Accounted(done, failed, n)
  PROVE  /\ \A k \in DOMAIN done : done[k] \in 1..n
         /\ \A k \in DOMAIN failed : failed[k][1] \in 1..n
BY DEF Accounted

LEMMA OneMore ==
  ASSUME NEW a \in Nat, NEW b \in Nat, NEW n \in Nat, a + b = n
  PROVE  (a + 1) + b = n + 1 /\ a + (b + 1) = n + 1
OBVIOUS

(* Succeed accounts for one transaction more. *)
LEMMA AccountSuccess ==
  ASSUME NEW done \in Seq(Nat), NEW failed \in Seq(Nat \X Reasons), NEW n \in Nat,
         Accounted(done, failed, n), NEW more, more = Append(done, n + 1)
  PROVE  Accounted(more, failed, n + 1)
<1>1. /\ Len(done) \in Nat /\ Len(failed) \in Nat
      /\ DOMAIN done = 1..Len(done)
      /\ Len(more) = Len(done) + 1 /\ DOMAIN more = 1..(Len(done) + 1)
      /\ \A k \in 1..Len(done) : more[k] = done[k]
      /\ more[Len(done) + 1] = n + 1
  OBVIOUS
<1>2. /\ \A k \in DOMAIN done : done[k] \in 1..n
      /\ \A k \in DOMAIN failed : failed[k][1] \in 1..n
  BY AccountsInRange
<1>3. {more[k] : k \in DOMAIN more} = {done[k] : k \in DOMAIN done} \cup {n + 1}
  BY <1>1
<1>4. {more[k] : k \in DOMAIN more} \cup {failed[k][1] : k \in DOMAIN failed} = 1..(n + 1)
  <2>1. {done[k] : k \in DOMAIN done} \cup {failed[k][1] : k \in DOMAIN failed} = 1..n
    BY DEF Accounted
  <2>2. (1..n) \cup {n + 1} = 1..(n + 1)
    OBVIOUS
  <2> QED
    BY <1>3, <2>1, <2>2
<1>5. Len(more) + Len(failed) = n + 1
  <2>1. Len(done) + Len(failed) = n
    BY DEF Accounted
  <2>2. Len(done) \in Nat /\ Len(failed) \in Nat /\ Len(more) = Len(done) + 1
    BY <1>1
  <2>3. (Len(done) + 1) + Len(failed) = n + 1
    BY <2>1, <2>2, OneMore
  <2>4. Len(more) + Len(failed) = (Len(done) + 1) + Len(failed)
    BY <2>2
  <2> QED
    BY <2>3, <2>4
<1>6. \A k, l \in DOMAIN more : k < l => more[k] < more[l]
  <2> SUFFICES ASSUME NEW k \in DOMAIN more, NEW l \in DOMAIN more, k < l
               PROVE  more[k] < more[l]
    OBVIOUS
  <2>1. k \in 1..Len(done) /\ k \in DOMAIN done
    BY <1>1
  <2>2. CASE l = Len(done) + 1
    BY <1>1, <1>2, <2>1, <2>2
  <2>3. CASE l # Len(done) + 1
    <3>1. l \in DOMAIN done /\ l \in 1..Len(done)
      BY <1>1, <2>3
    <3> QED
      BY <1>1, <2>1, <3>1 DEF Accounted
  <2> QED
    BY <2>2, <2>3
<1>7. \A k, l \in DOMAIN failed : k < l => failed[k][1] < failed[l][1]
  BY DEF Accounted
<1> QED
  BY <1>4, <1>5, <1>6, <1>7 DEF Accounted

(* So does Fail. *)
LEMMA AccountFailure ==
  ASSUME NEW done \in Seq(Nat), NEW failed \in Seq(Nat \X Reasons), NEW n \in Nat,
         NEW reason \in Reasons, Accounted(done, failed, n),
         NEW more, more = Append(failed, <<n + 1, reason>>)
  PROVE  Accounted(done, more, n + 1)
<1>1. /\ Len(done) \in Nat /\ Len(failed) \in Nat
      /\ DOMAIN failed = 1..Len(failed)
      /\ Len(more) = Len(failed) + 1 /\ DOMAIN more = 1..(Len(failed) + 1)
      /\ \A k \in 1..Len(failed) : more[k] = failed[k]
      /\ more[Len(failed) + 1] = <<n + 1, reason>>
  OBVIOUS
<1>a. more[Len(failed) + 1][1] = n + 1
  BY <1>1
<1>2. /\ \A k \in DOMAIN done : done[k] \in 1..n
      /\ \A k \in DOMAIN failed : failed[k][1] \in 1..n
  BY AccountsInRange
<1>3. {more[k][1] : k \in DOMAIN more} = {failed[k][1] : k \in DOMAIN failed} \cup {n + 1}
  BY <1>1, <1>a
<1>4. {done[k] : k \in DOMAIN done} \cup {more[k][1] : k \in DOMAIN more} = 1..(n + 1)
  <2>1. {done[k] : k \in DOMAIN done} \cup {failed[k][1] : k \in DOMAIN failed} = 1..n
    BY DEF Accounted
  <2>2. (1..n) \cup {n + 1} = 1..(n + 1)
    OBVIOUS
  <2> QED
    BY <1>3, <2>1, <2>2
<1>5. Len(done) + Len(more) = n + 1
  <2>1. Len(done) + Len(failed) = n
    BY DEF Accounted
  <2>2. Len(done) \in Nat /\ Len(failed) \in Nat /\ Len(more) = Len(failed) + 1
    BY <1>1
  <2>3. Len(done) + (Len(failed) + 1) = n + 1
    BY <2>1, <2>2, OneMore
  <2>4. Len(done) + Len(more) = Len(done) + (Len(failed) + 1)
    BY <2>2
  <2> QED
    BY <2>3, <2>4
<1>6. \A k, l \in DOMAIN more : k < l => more[k][1] < more[l][1]
  <2> SUFFICES ASSUME NEW k \in DOMAIN more, NEW l \in DOMAIN more, k < l
               PROVE  more[k][1] < more[l][1]
    OBVIOUS
  <2>1. k \in 1..Len(failed) /\ k \in DOMAIN failed /\ more[k] = failed[k]
    BY <1>1
  <2>2. CASE l = Len(failed) + 1
    BY <1>a, <1>2, <2>1, <2>2
  <2>3. CASE l # Len(failed) + 1
    <3>1. l \in DOMAIN failed /\ l \in 1..Len(failed) /\ more[l] = failed[l]
      BY <1>1, <2>3
    <3> QED
      BY <2>1, <3>1 DEF Accounted
  <2> QED
    BY <2>2, <2>3
<1>7. \A k, l \in DOMAIN done : k < l => done[k] < done[l]
  BY DEF Accounted
<1> QED
  BY <1>4, <1>5, <1>6, <1>7 DEF Accounted

-----------------------------------------------------------------------------
(* The invariant holds at first.                                            *)

LEMMA BlockRange ==
  /\ Blockhashes \subseteq Nat
  /\ 0 \in Blockhashes /\ Malformed \notin Blockhashes
  /\ \A h \in Blockhashes : h < LastBlock => h + 1 \in Blockhashes
BY BundleAssumption DEF Blockhashes

LEMMA LedgerInit == Init => BundleLedger
<1> SUFFICES ASSUME Init PROVE BundleLedger
  OBVIOUS
<1>1. BundleTypeOK
  BY BundleAssumption, BlockRange DEF Init, BundleTypeOK
<1>2. ASSUME NEW b \in Bundles PROVE Progress(b)
  <2>1. place[b] = "building" /\ current[b] = 1
    BY DEF Init
  <2> QED
    BY <2>1 DEF Progress
<1>3. OneOutcomeEach
  <2> SUFFICES ASSUME NEW b \in Bundles
               PROVE  Accounted(signatures[b], errors[b], current[b] - 1)
    BY DEF OneOutcomeEach
  <2>1. signatures[b] = <<>> /\ errors[b] = <<>> /\ current[b] - 1 = 0
    BY DEF Init
  <2> QED
    BY <2>1, NothingAccounted
<1>4. SuccessLanded
  BY DEF Init, SuccessLanded, Succeeded
<1> QED
  BY <1>1, <1>2, <1>3, <1>4 DEF BundleLedger

(* Only transactions that are done with are reported as successes, and all  *)
(* transactions of such a bundle decoded.                                   *)
LEMMA SuccessKnown ==
  ASSUME BundleLedger, NEW b \in Bundles, NEW i \in Succeeded(b)
  PROVE  i \in 1..(current[b] - 1) /\ transactions[b][i] \in Blockhashes
<1>1. /\ Accounted(signatures[b], errors[b], current[b] - 1)
      /\ current[b] \in Nat /\ current[b] >= 1
      /\ signatures[b] \in Seq(Nat) /\ errors[b] \in Seq(Nat \X Reasons)
  BY DEF BundleLedger, BundleTypeOK, Progress, OneOutcomeEach
<1>2. i \in 1..(current[b] - 1)
  BY <1>1, AccountsInRange DEF Succeeded
<1>3. place[b] \in {"checking", "sending", "polling", "answered"}
  <2>1. current[b] # 1
    BY <1>1, <1>2
  <2>2. place[b] \notin {"building", "submitted", "refused"}
    BY <2>1 DEF BundleLedger, Progress
  <2>3. place[b] \in {"building", "submitted", "refused",
                     "checking", "sending", "polling", "answered"}
    BY DEF BundleLedger, BundleTypeOK
  <2> QED
    BY <2>2, <2>3
<1>4. /\ transactions[b] \in Seq(Blockhashes)
      /\ current[b] <= Len(transactions[b]) + 1
  BY <1>1, <1>3 DEF BundleLedger, Progress
<1> QED
  BY <1>1, <1>2, <1>4

-----------------------------------------------------------------------------
(* The steps of the chain.  They leave the handlers alone, and what has     *)
(* landed stays so.                                                         *)

LEMMA LandedForGood ==
  ASSUME BundleLedger, UNCHANGED handlerVars,
         \A h \in Blockhashes : ledger[h] = "landed" => ledger'[h] = "landed",
         BundleTypeOK'
  PROVE  BundleLedger'
<1> USE DEF handlerVars, answerVars
<1>1. \A b \in Bundles : Progress(b)'
  BY DEF BundleLedger, Progress
<1>2. OneOutcomeEach'
  BY DEF BundleLedger, OneOutcomeEach, Accounted
<1>3. SuccessLanded'
  <2> SUFFICES ASSUME NEW b \in Bundles, NEW i \in Succeeded(b)
               PROVE  ledger'[transactions[b][i]] = "landed"
    BY DEF SuccessLanded, Succeeded
  <2>1. ledger[transactions[b][i]] = "landed"
    BY DEF BundleLedger, SuccessLanded
  <2>2. transactions[b][i] \in Blockhashes
    BY SuccessKnown
  <2> QED
    BY <2>1, <2>2
<1> QED
  BY <1>1, <1>2, <1>3 DEF BundleLedger

LEMMA LedgerChain ==
  ASSUME BundleLedger, NewBlock \/ CacheBlock \/ (\E h \in Blockhashes : Execute(h))
  PROVE  BundleLedger'
<1> USE DEF handlerVars, answerVars
<1>t. BundleTypeOK
  BY DEF BundleLedger
<1>1. CASE NewBlock
  <2>1. latest' \in Blockhashes
    BY <1>1, <1>t, BlockRange DEF NewBlock, BundleTypeOK
  <2>2. BundleTypeOK'
    BY <1>1, <1>t, <2>1 DEF NewBlock, BundleTypeOK
  <2> QED
    BY <1>1, <2>2, LandedForGood DEF NewBlock
<1>2. CASE CacheBlock
  <2>1. blockhash_cache' \subseteq Blockhashes
    BY <1>2, <1>t DEF CacheBlock, BundleTypeOK
  <2>2. BundleTypeOK'
    BY <1>2, <1>t, <2>1 DEF CacheBlock, BundleTypeOK, chainVars
  <2> QED
    BY <1>2, <2>2, LandedForGood DEF CacheBlock, chainVars
<1>3. ASSUME NEW h \in Blockhashes, Execute(h)
      PROVE  BundleLedger'
  <2>1. /\ ledger' \in [Blockhashes -> {"unknown", "received", "landed", "failed"}]
        /\ \A g \in Blockhashes : ledger[g] = "landed" => ledger'[g] = "landed"
    BY <1>3, <1>t DEF Execute, BundleTypeOK
  <2>2. landings' \in Seq(Blockhashes)
    <3>1. landings \in Seq(Blockhashes) /\ Append(landings, h) \in Seq(Blockhashes)
      BY <1>3, <1>t DEF BundleTypeOK
    <3>2. landings' = landings \/ landings' = Append(landings, h)
      BY <1>3 DEF Execute
    <3> QED
      BY <3>1, <3>2
  <2>3. BundleTypeOK'
    BY <1>3, <1>t, <2>1, <2>2 DEF Execute, BundleTypeOK
  <2> QED
    BY <1>3, <2>1, <2>3, LandedForGood DEF Execute
<1> QED
  BY <1>1, <1>2, <1>3

-----------------------------------------------------------------------------
(* The steps of a client and the start of a handler.  Only the client       *)
(* changes a bundle, and does so before anything of it is reported.         *)

LEMMA AllDecoded ==
  ASSUME NEW s \in Seq(Blockhashes \cup {Malformed}), \A i \in 1..Len(s) : s[i] # Malformed
  PROVE  s \in Seq(Blockhashes)
<1>1. Len(s) \in Nat /\ s = [i \in 1..Len(s) |-> s[i]]
  OBVIOUS
<1>2. \A i \in 1..Len(s) : s[i] \in Blockhashes
  OBVIOUS
<1> QED
  BY <1>1, <1>2

(* What becomes of the bundle of b until its handler has started. *)
Drafted(b) ==
  /\ place' \in [Bundles -> {"building", "submitted", "refused",
                            "checking", "sending", "polling", "answered"}]
  /\ free_workers' \in Nat
  /\ transactions' \in [Bundles -> Seq(Blockhashes \cup {Malformed})]
  /\ \A c \in Bundles \ {b} : place'[c] = place[c] /\ transactions'[c] = transactions[c]
  /\ \/ place'[b] \in {"building", "submitted", "refused"}
     \/ place'[b] = "checking" /\ transactions'[b] \in Seq(Blockhashes)

LEMMA ClientDrafts ==
  ASSUME BundleTypeOK, NEW b \in Bundles, Client(b) \/ StartHandler(b)
  PROVE  Drafted(b)
<1>1. ASSUME NEW item \in Blockhashes \cup {Malformed}, AddTransaction(b, item)
      PROVE  Drafted(b)
  <2>1. transactions[b] \in Seq(Blockhashes \cup {Malformed})
    BY DEF BundleTypeOK
  <2>2. Append(transactions[b], item) \in Seq(Blockhashes \cup {Malformed})
    BY <2>1
  <2> QED
    BY <1>1, <2>2 DEF AddTransaction, BundleTypeOK, Drafted
<1>2. CASE StartHandler(b)
  <2>1. /\ transactions[b] \in Seq(Blockhashes \cup {Malformed}) /\ UNCHANGED transactions
        /\ free_workers' \in Nat
    BY <1>2 DEF BundleTypeOK, StartHandler
  <2>2. CASE place' = [place EXCEPT ![b] = "checking"]
             /\ \A i \in 1..Len(transactions[b]) : transactions[b][i] # Malformed
    <3>1. transactions[b] \in Seq(Blockhashes)
      BY <2>1, <2>2, AllDecoded
    <3> QED
      BY <2>1, <2>2, <3>1 DEF BundleTypeOK, Drafted
  <2>3. CASE place' = [place EXCEPT ![b] = "refused"]
    BY <2>1, <2>3 DEF BundleTypeOK, Drafted
  <2> QED
    BY <1>2, <2>2, <2>3 DEF StartHandler
<1>6. CASE SubmitBundle(b)
  BY <1>6 DEF BundleTypeOK, SubmitBundle, Drafted
<1>3. latest \in Blockhashes /\ 0..latest \subseteq Blockhashes
  BY BundleAssumption DEF BundleTypeOK, Blockhashes
<1>4. CASE BuildTransaction(b)
  BY <1>1, <1>3, <1>4 DEF BuildTransaction
<1>5. CASE ForeignTransaction(b)
  BY <1>1, <1>3, <1>5 DEF ForeignTransaction
<1> QED
  BY <1>2, <1>4, <1>5, <1>6 DEF Client

LEMMA LedgerClient ==
  ASSUME BundleLedger, NEW b \in Bundles, Client(b) \/ StartHandler(b)
  PROVE  BundleLedger'
<1>t. BundleTypeOK
  BY DEF BundleLedger
<1>1. Drafted(b)
  BY <1>t, ClientDrafts
<1>2. /\ place[b] \in {"building", "submitted"}
      /\ UNCHANGED <<latest, ledger, landings, blockhash_cache, current, attempt,
                     signatures, errors>>
  BY DEF Client, BuildTransaction, ForeignTransaction, AddTransaction, SubmitBundle,
     StartHandler, chainVars, answerVars
<1>3. current[b] = 1
  BY <1>2 DEF BundleLedger, Progress
<1>4. BundleTypeOK'
  BY <1>t, <1>1, <1>2 DEF BundleTypeOK, Drafted
<1>5. ASSUME NEW c \in Bundles PROVE Progress(c)'
  <2>1. CASE c = b
    BY <1>1, <1>2, <1>3, <2>1 DEF Drafted, Progress
  <2>2. CASE c # b
    BY <1>1, <1>2, <2>2 DEF Drafted, Progress, BundleLedger
  <2> QED
    BY <2>1, <2>2
<1>6. OneOutcomeEach'
  BY <1>2 DEF BundleLedger, OneOutcomeEach, Accounted
<1>7. SuccessLanded'
  <2> SUFFICES ASSUME NEW c \in Bundles, NEW i \in Succeeded(c)
               PROVE  ledger[transactions'[c][i]] = "landed"
    BY <1>2 DEF SuccessLanded, Succeeded
  <2>1. c # b
    <3>1. i \in 1..(current[c] - 1)
      BY SuccessKnown
    <3> QED
      BY <1>3, <3>1
  <2> QED
    BY <1>1, <2>1 DEF Drafted, BundleLedger, SuccessLanded
<1> QED
  BY <1>4, <1>5, <1>6, <1>7 DEF BundleLedger

-----------------------------------------------------------------------------
(* The steps of a handler.  It leaves the bundles and the other handlers    *)
(* alone, and what has landed stays so.                                     *)

HandlerFrame(b) ==
  /\ UNCHANGED <<latest, landings, blockhash_cache, transactions>>
  /\ free_workers' \in Nat
  /\ ledger' \in [Blockhashes -> {"unknown", "received", "landed", "failed"}]
  /\ \A h \in Blockhashes : ledger[h] = "landed" => ledger'[h] = "landed"

(* Steps that report nothing. *)
LEMMA QuietStep ==
  ASSUME BundleLedger, NEW b \in Bundles, HandlerFrame(b),
         NEW p \in {"checking", "sending", "polling", "answered"},
         place' = [place EXCEPT ![b] = p],
         place[b] \in {"checking", "sending", "polling"},
         attempt' \in [Bundles -> 0..RetryCount],
         UNCHANGED <<current, signatures, errors>>,
         p \in {"sending", "polling"} => current[b] <= Len(transactions[b])
  PROVE  BundleLedger'
<1>t. BundleTypeOK
  BY DEF BundleLedger
<1>1. BundleTypeOK'
  BY <1>t DEF BundleTypeOK, HandlerFrame
<1>2. ASSUME NEW c \in Bundles PROVE Progress(c)'
  <2>1. place'[c] = IF c = b THEN p ELSE place[c]
    BY <1>t DEF BundleTypeOK
  <2>2. CASE c = b
    <3>1. /\ current[b] >= 1 /\ transactions[b] \in Seq(Blockhashes)
          /\ current[b] <= Len(transactions[b]) + 1
      BY <1>t DEF BundleLedger, Progress, BundleTypeOK
    <3> QED
      BY <2>1, <2>2, <3>1 DEF Progress, HandlerFrame
  <2>3. CASE c # b
    BY <2>1, <2>3 DEF Progress, HandlerFrame, BundleLedger
  <2> QED
    BY <2>2, <2>3
<1>3. OneOutcomeEach'
  BY DEF BundleLedger, OneOutcomeEach, Accounted
<1>4. SuccessLanded'
  <2> SUFFICES ASSUME NEW c \in Bundles, NEW i \in Succeeded(c)
               PROVE  ledger'[transactions[c][i]] = "landed"
    BY DEF SuccessLanded, Succeeded, HandlerFrame
  <2>1. ledger[transactions[c][i]] = "landed" /\ transactions[c][i] \in Blockhashes
    BY SuccessKnown DEF BundleLedger, SuccessLanded
  <2> QED
    BY <2>1 DEF HandlerFrame
<1> QED
  BY <1>1, <1>2, <1>3, <1>4 DEF BundleLedger

(* Steps that report the transaction in hand and go on to the next. *)
LEMMA ReportStep ==
  ASSUME BundleLedger, NEW b \in Bundles, HandlerFrame(b), NextTransaction(b),
         place[b] \in {"checking", "sending", "polling"},
         current[b] <= Len(transactions[b]),
         \/ Succeed(b) /\ ledger'[InHand(b)] = "landed"
         \/ \E reason \in Reasons : Fail(b, reason)
  PROVE  BundleLedger'
<1>t. BundleTypeOK
  BY DEF BundleLedger
<1> DEFINE n == current[b] - 1
<1>1. /\ n \in Nat /\ n + 1 = current[b]
      /\ signatures[b] \in Seq(Nat) /\ errors[b] \in Seq(Nat \X Reasons)
      /\ Accounted(signatures[b], errors[b], n)
  BY <1>t DEF BundleLedger, BundleTypeOK, Progress, OneOutcomeEach
<1>2. /\ place' = [place EXCEPT ![b] = "checking"]
      /\ current' = [current EXCEPT ![b] = current[b] + 1]
      /\ attempt' = [attempt EXCEPT ![b] = 0]
  BY DEF NextTransaction
<1>3. /\ signatures' \in [Bundles -> Seq(Nat)]
      /\ errors' \in [Bundles -> Seq(Nat \X Reasons)]
      /\ \A c \in Bundles \ {b} : signatures'[c] = signatures[c] /\ errors'[c] = errors[c]
      /\ Accounted(signatures'[b], errors'[b], n + 1)
      /\ \A i \in Succeeded(b)' :
           i \in Succeeded(b) \/ ledger'[transactions[b][i]] = "landed"
  <2>1. CASE Succeed(b) /\ ledger'[InHand(b)] = "landed"
    <3> DEFINE more == Append(signatures[b], n + 1)
    <3>1. /\ signatures' = [signatures EXCEPT ![b] = more]
          /\ errors' = errors
      BY <1>1, <2>1 DEF Succeed
    <3>2. /\ more \in Seq(Nat)
          /\ DOMAIN more = 1..(Len(signatures[b]) + 1)
          /\ DOMAIN signatures[b] = 1..Len(signatures[b]) /\ Len(signatures[b]) \in Nat
          /\ \A k \in 1..Len(signatures[b]) : more[k] = signatures[b][k]
          /\ more[Len(signatures[b]) + 1] = n + 1
      BY <1>1
    <3>3. Accounted(more, errors[b], n + 1)
      BY <1>1, AccountSuccess
    <3> HIDE DEF more, n
    <3>4. signatures'[b] = more /\ \A c \in Bundles \ {b} : signatures'[c] = signatures[c]
      BY <1>t, <3>1 DEF BundleTypeOK
    <3>5. \A i \in Succeeded(b)' :
            i \in Succeeded(b) \/ ledger'[transactions[b][i]] = "landed"
      <4> SUFFICES ASSUME NEW k \in DOMAIN more, more[k] # n + 1
                   PROVE  more[k] \in Succeeded(b)
        BY <1>1, <2>1, <3>4 DEF Succeeded, InHand
      <4>1. k # Len(signatures[b]) + 1
        BY <3>2
      <4>2. k \in 1..(Len(signatures[b]) + 1) /\ Len(signatures[b]) \in Nat
        BY <3>2
      <4>3. k \in 1..Len(signatures[b])
        BY <4>1, <4>2
      <4>4. k \in DOMAIN signatures[b] /\ more[k] = signatures[b][k]
        BY <3>2, <4>3
      <4> QED
        BY <4>4 DEF Succeeded
    <3>6. signatures' \in [Bundles -> Seq(Nat)] /\ errors' \in [Bundles -> Seq(Nat \X Reasons)]
      BY <1>t, <3>1, <3>2 DEF BundleTypeOK
    <3> QED
      BY <3>1, <3>3, <3>4, <3>5, <3>6
  <2>2. ASSUME NEW reason \in Reasons, Fail(b, reason)
        PROVE  <1>3
    <3> DEFINE more == Append(errors[b], <<n + 1, reason>>)
    <3>1. /\ errors' = [errors EXCEPT ![b] = more]
          /\ signatures' = signatures
      BY <1>1, <2>2 DEF Fail
    <3>2. more \in Seq(Nat \X Reasons)
      <4>1. <<n + 1, reason>> \in Nat \X Reasons
        BY <1>1
      <4> QED
        BY <1>1, <4>1
    <3>3. Accounted(signatures[b], more, n + 1)
      BY <1>1, AccountFailure
    <3> HIDE DEF more, n
    <3>4. errors'[b] = more /\ \A c \in Bundles \ {b} : errors'[c] = errors[c]
      BY <1>t, <3>1 DEF BundleTypeOK
    <3>5. \A i \in Succeeded(b)' : i \in Succeeded(b)
      BY <3>1 DEF Succeeded
    <3>6. signatures' \in [Bundles -> Seq(Nat)] /\ errors' \in [Bundles -> Seq(Nat \X Reasons)]
      BY <1>t, <3>1, <3>2 DEF BundleTypeOK
    <3> QED
      BY <3>1, <3>3, <3>4, <3>5, <3>6
  <2> QED
    BY <2>1, <2>2
<1> HIDE DEF n
<1>4. BundleTypeOK'
  <2>1. 0 \in 0..RetryCount
    BY BundleAssumption
  <2>2. current' \in [Bundles -> Nat]
    BY <1>t, <1>2 DEF BundleTypeOK
  <2> QED
    BY <1>t, <1>2, <1>3, <2>1, <2>2 DEF BundleTypeOK, HandlerFrame
<1>5. /\ current'[b] = n + 2 /\ place'[b] = "checking"
      /\ \A c \in Bundles \ {b} : current'[c] = current[c] /\ place'[c] = place[c]
  BY <1>t, <1>1, <1>2 DEF BundleTypeOK
<1>6. ASSUME NEW c \in Bundles PROVE Progress(c)'
  <2>1. CASE c = b
    <3>1. transactions[b] \in Seq(Blockhashes)
      BY DEF BundleLedger, Progress
    <3>2. Len(transactions[b]) \in Nat
      BY <3>1
    <3> QED
      BY <1>1, <1>5, <2>1, <3>1, <3>2 DEF Progress, HandlerFrame
  <2>2. CASE c # b
    BY <1>5, <2>2 DEF Progress, HandlerFrame, BundleLedger
  <2> QED
    BY <2>1, <2>2
<1>7. OneOutcomeEach'
  <2> SUFFICES ASSUME NEW c \in Bundles
               PROVE  Accounted(signatures'[c], errors'[c], current'[c] - 1)
    BY DEF OneOutcomeEach, Accounted
  <2>1. CASE c = b
    <3>1. current'[b] - 1 = n + 1
      BY <1>1, <1>5
    <3> QED
      BY <1>3, <2>1, <3>1
  <2>2. CASE c # b
    <3>1. /\ signatures'[c] = signatures[c] /\ errors'[c] = errors[c]
          /\ current'[c] = current[c]
      BY <1>3, <1>5, <2>2
    <3> QED
      BY <3>1 DEF BundleLedger, OneOutcomeEach
  <2> QED
    BY <2>1, <2>2
<1>8. SuccessLanded'
  <2> SUFFICES ASSUME NEW c \in Bundles, NEW i \in Succeeded(c)'
               PROVE  ledger'[transactions[c][i]] = "landed"
    BY DEF SuccessLanded, HandlerFrame
  <2>1. i \in Succeeded(c) \/ ledger'[transactions[c][i]] = "landed"
    <3>1. CASE c = b
      BY <1>3, <3>1
    <3>2. CASE c # b
      <4>1. signatures'[c] = signatures[c]
        BY <1>3, <3>2
      <4> QED
        BY <4>1 DEF Succeeded
    <3> QED
      BY <3>1, <3>2
  <2>2. ASSUME i \in Succeeded(c)
        PROVE  ledger'[transactions[c][i]] = "landed"
    <3>1. ledger[transactions[c][i]] = "landed" /\ transactions[c][i] \in Blockhashes
      BY <2>2, SuccessKnown DEF BundleLedger, SuccessLanded
    <3> QED
      BY <3>1 DEF HandlerFrame
  <2> QED
    BY <2>1, <2>2
<1> QED
  BY <1>4, <1>6, <1>7, <1>8 DEF BundleLedger

LEMMA LedgerHandler ==
  ASSUME BundleLedger, NEW b \in Bundles, Handler(b)
  PROVE  BundleLedger'
<1>t. BundleTypeOK
  BY DEF BundleLedger
<1>1. /\ place[b] \in {"checking", "sending", "polling"}
      /\ transactions[b] \in Seq(Blockhashes) /\ Len(transactions[b]) \in Nat
      /\ current[b] \in Nat /\ current[b] >= 1
      /\ place[b] \in {"sending", "polling"} => current[b] <= Len(transactions[b])
  <2>1. place[b] \in {"checking", "sending", "polling"}
    BY DEF Handler, RefuseExpired, AcceptBlockhash, Answer, SendAccepted, RetrySend,
       GiveUpSending, SendErrs, StatusLanded, StatusFailed, StatusTimeout
  <2>2. transactions[b] \in Seq(Blockhashes)
    BY <2>1 DEF BundleLedger, Progress
  <2>3. Len(transactions[b]) \in Nat
    BY <2>2
  <2> QED
    BY <1>t, <2>1, <2>2, <2>3 DEF BundleLedger, Progress, BundleTypeOK
<1>2. ASSUME current[b] <= Len(transactions[b]),
             UNCHANGED <<latest, landings, blockhash_cache, free_workers, transactions>>,
             \/ UNCHANGED ledger
             \/ PassesPreflight(InHand(b)) /\ Receive(b)
      PROVE  HandlerFrame(b)
  <2>1. InHand(b) \in Blockhashes
    BY <1>1, <1>2 DEF InHand
  <2>2. CASE UNCHANGED ledger
    BY <1>t, <1>2, <2>2 DEF HandlerFrame, BundleTypeOK
  <2>3. CASE PassesPreflight(InHand(b)) /\ Receive(b)
    BY <1>t, <1>2, <2>1, <2>3 DEF HandlerFrame, BundleTypeOK, PassesPreflight, Receive
  <2> QED
    BY <1>2, <2>2, <2>3
<1>3. CASE RefuseExpired(b)
  BY <1>1, <1>2, <1>3, ReportStep DEF RefuseExpired, NextTransaction, Reasons
<1>4. CASE AcceptBlockhash(b)
  <2>1. HandlerFrame(b)
    BY <1>2, <1>4 DEF AcceptBlockhash, chainVars
  <2>2. attempt' \in [Bundles -> 0..RetryCount]
    BY <1>t, <1>4 DEF AcceptBlockhash, BundleTypeOK
  <2> QED
    BY <1>1, <1>4, <2>1, <2>2, QuietStep DEF AcceptBlockhash, answerVars
<1>5. CASE Answer(b)
  <2>1. HandlerFrame(b)
    BY <1>t, <1>5 DEF Answer, chainVars, HandlerFrame, BundleTypeOK
  <2>2. attempt' \in [Bundles -> 0..RetryCount]
    BY <1>t, <1>5 DEF Answer, BundleTypeOK
  <2> QED
    BY <1>1, <1>5, <2>1, <2>2, QuietStep DEF Answer, answerVars
<1>6. CASE SendAccepted(b)
  <2>1. HandlerFrame(b)
    BY <1>1, <1>2, <1>6 DEF SendAccepted
  <2>2. attempt' \in [Bundles -> 0..RetryCount]
    BY <1>t, <1>6 DEF SendAccepted, BundleTypeOK
  <2> QED
    BY <1>1, <1>6, <2>1, <2>2, QuietStep DEF SendAccepted, answerVars
<1>7. CASE RetrySend(b)
  <2>1. HandlerFrame(b)
    BY <1>1, <1>2, <1>7 DEF RetrySend, SendErrs
  <2>2. attempt[b] \in 0..RetryCount /\ attempt[b] < RetryCount
    BY <1>t, <1>7 DEF RetrySend, MoreAttempts, BundleTypeOK
  <2>3. attempt[b] + 1 \in 0..RetryCount
    BY <2>2, BundleAssumption
  <2>4. attempt' \in [Bundles -> 0..RetryCount]
    BY <1>t, <1>7, <2>3 DEF RetrySend, BundleTypeOK
  <2>5. place' = [place EXCEPT ![b] = "sending"]
    BY <1>t, <1>7 DEF RetrySend, SendErrs, BundleTypeOK
  <2> QED
    BY <1>1, <1>7, <2>1, <2>4, <2>5, QuietStep DEF RetrySend, SendErrs, answerVars
<1>8. CASE GiveUpSending(b)
  <2>1. HandlerFrame(b)
    BY <1>1, <1>2, <1>8 DEF GiveUpSending, SendErrs
  <2> QED
    BY <1>1, <1>8, <2>1, ReportStep DEF GiveUpSending, SendErrs, Reasons
<1>9. CASE StatusLanded(b)
  <2>1. HandlerFrame(b)
    BY <1>1, <1>2, <1>9 DEF StatusLanded, NextTransaction
  <2> QED
    BY <1>1, <1>9, <2>1, ReportStep DEF StatusLanded
<1>10. CASE StatusFailed(b)
  <2>1. HandlerFrame(b)
    BY <1>1, <1>2, <1>10 DEF StatusFailed, NextTransaction
  <2> QED
    BY <1>1, <1>10, <2>1, ReportStep DEF StatusFailed, Reasons
<1>11. CASE StatusTimeout(b)
  <2>1. HandlerFrame(b)
    BY <1>1, <1>2, <1>11 DEF StatusTimeout, NextTransaction
  <2> QED
    BY <1>1, <1>11, <2>1, ReportStep DEF StatusTimeout, Reasons
<1> QED
  BY <1>3, <1>4, <1>5, <1>6, <1>7, <1>8, <1>9, <1>10, <1>11 DEF Handler

LEMMA LedgerStep ==
  ASSUME BundleLedger, [Next]_vars
  PROVE  BundleLedger'
<1>1. CASE Next
  BY <1>1, LedgerChain, LedgerClient, LedgerHandler DEF Next
<1>2. CASE UNCHANGED vars
  <2>1. BundleTypeOK'
    BY <1>2 DEF vars, chainVars, handlerVars, answerVars, BundleLedger, BundleTypeOK
  <2> QED
    BY <1>2, <2>1, LandedForGood DEF vars, chainVars
<1> QED
  BY <1>1, <1>2

-----------------------------------------------------------------------------
(* BundleLedger is an invariant: the handler reports each transaction it is *)
(* through with once, under its outcome, and only then takes the next.      *)
THEOREM BundleLedgerInvariant == Spec => []BundleLedger
<1>1. Init => BundleLedger
  BY LedgerInit
<1>2. BundleLedger /\ [Next]_vars => BundleLedger'
  BY LedgerStep
<1> QED
  BY <1>1, <1>2, PTL DEF Spec

(* Every variable keeps its type: no transaction is sent more than the      *)
(* configured number of times, and none that did not decode is ever in hand.*)
THEOREM BundleTypesKept == Spec => []BundleTypeOK
<1>1. BundleLedger => BundleTypeOK
  BY DEF BundleLedger
<1> QED
  BY <1>1, BundleLedgerInvariant, PTL

(* However the sends and polls of send_and_encode_transaction fail, each    *)
(* transaction the handler is through with is reported once, in order.      *)
THEOREM EachReportedOnce == Spec => []OneOutcomeEach
<1>1. BundleLedger => OneOutcomeEach
  BY DEF BundleLedger
<1> QED
  BY <1>1, BundleLedgerInvariant, PTL

(* Whatever replies are lost and whoever sends the same transaction, what   *)
(* send_transaction_bundle reports as a success has landed.                 *)
THEOREM SuccessesLanded == Spec => []SuccessLanded
<1>1. BundleLedger => SuccessLanded
  BY DEF BundleLedger
<1> QED
  BY <1>1, BundleLedgerInvariant, PTL

-----------------------------------------------------------------------------
(* The order of the successes.  When a transaction is sent, the preflight   *)
(* shows that it has not landed, and all successes before it have.          *)
Before(g, h) ==
  \E k, l \in DOMAIN landings : k < l /\ landings[k] = g /\ landings[l] = h

LandingsKnown ==
  \A h \in Blockhashes : ledger[h] = "landed" => \E k \in DOMAIN landings : landings[k] = h

ResultsOrdered(b) ==
  /\ \A i, j \in Succeeded(b) : i < j => Before(transactions[b][i], transactions[b][j])
  /\ place[b] = "polling" /\ ledger[InHand(b)] = "landed" =>
       \A i \in Succeeded(b) : Before(transactions[b][i], InHand(b))

OrderInv == LandingsKnown /\ \A b \in Bundles : ResultsOrdered(b)

(* Everybody else's steps. *)
LEMMA OrderedStay ==
  ASSUME UNCHANGED landings, NEW b \in Bundles, ResultsOrdered(b),
         transactions'[b] = transactions[b], current'[b] = current[b],
         signatures'[b] = signatures[b],
         place'[b] = "polling" => place[b] = "polling",
         place'[b] = "polling" /\ ledger'[InHand(b)] = "landed" => ledger[InHand(b)] = "landed"
  PROVE  ResultsOrdered(b)'
BY DEF ResultsOrdered, Before, Succeeded, InHand

LEMMA OrderExecute ==
  ASSUME BundleLedger, OrderInv, NEW h \in Blockhashes, Execute(h)
  PROVE  OrderInv'
<1>t. /\ ledger \in [Blockhashes -> {"unknown", "received", "landed", "failed"}]
      /\ landings \in Seq(Blockhashes)
  BY DEF BundleLedger, BundleTypeOK
<1>1. UNCHANGED <<place, transactions, current, signatures>> /\ ledger[h] = "received"
  BY DEF Execute, handlerVars, answerVars
<1>2. CASE ledger' = [ledger EXCEPT ![h] = "failed"] /\ UNCHANGED landings
  <2>1. \A g \in Blockhashes : ledger'[g] = "landed" => ledger[g] = "landed"
    BY <1>t, <1>2
  <2>2. LandingsKnown'
    BY <1>2, <2>1 DEF OrderInv, LandingsKnown
  <2>3. ASSUME NEW b \in Bundles PROVE ResultsOrdered(b)'
    <3>1. place[b] = "polling" => InHand(b) \in Blockhashes
      BY DEF BundleLedger, BundleTypeOK, Progress, InHand
    <3> QED
      BY <1>1, <1>2, <2>1, <3>1, OrderedStay DEF OrderInv
  <2> QED
    BY <2>2, <2>3 DEF OrderInv
<1>3. CASE ledger' = [ledger EXCEPT ![h] = "landed"] /\ landings' = Append(landings, h)
  <2> DEFINE n == Len(landings)
  <2>1. /\ n \in Nat /\ DOMAIN landings = 1..n /\ DOMAIN landings' = 1..(n + 1)
        /\ landings'[n + 1] = h
        /\ \A k \in 1..n : landings'[k] = landings[k]
    BY <1>t, <1>3
  <2> HIDE DEF n
  <2>2. /\ DOMAIN landings \subseteq DOMAIN landings' /\ n + 1 \in DOMAIN landings'
        /\ \A k \in DOMAIN landings : k < n + 1 /\ landings'[k] = landings[k]
    BY <2>1
  <2>3. \A f, g : Before(f, g) => Before(f, g)'
    BY <2>2 DEF Before
  <2>4. \A g \in Blockhashes : ledger[g] = "landed" => Before(g, h)'
    BY <2>1, <2>2 DEF Before, OrderInv, LandingsKnown
  <2>5. LandingsKnown'
    <3> SUFFICES ASSUME NEW g \in Blockhashes, ledger'[g] = "landed"
                 PROVE  \E k \in DOMAIN landings' : landings'[k] = g
      BY DEF LandingsKnown
    <3>1. CASE g = h
      BY <2>1, <2>2, <3>1
    <3>2. CASE g # h
      BY <1>t, <1>3, <2>2, <3>2 DEF OrderInv, LandingsKnown
    <3> QED
      BY <3>1, <3>2
  <2>6. ASSUME NEW b \in Bundles PROVE ResultsOrdered(b)'
    <3>1. \A i, j \in Succeeded(b) : i < j => Before(transactions[b][i], transactions[b][j])'
      BY <1>1, <2>3 DEF OrderInv, ResultsOrdered
    <3>2. ASSUME place[b] = "polling", ledger'[InHand(b)] = "landed", NEW i \in Succeeded(b)
          PROVE  Before(transactions[b][i], InHand(b))'
      <4>1. InHand(b) \in Blockhashes
        BY <3>2 DEF BundleLedger, BundleTypeOK, Progress, InHand
      <4>2. transactions[b][i] \in Blockhashes /\ ledger[transactions[b][i]] = "landed"
        BY <3>2, SuccessKnown DEF BundleLedger, SuccessLanded
      <4>3. CASE InHand(b) = h
        BY <1>1, <2>4, <4>2, <4>3 DEF Before, InHand
      <4>4. CASE InHand(b) # h
        <5>1. ledger[InHand(b)] = "landed"
          BY <1>t, <1>3, <3>2, <4>1, <4>4
        <5>2. PICK k \in DOMAIN landings, l \in DOMAIN landings :
                k < l /\ landings[k] = transactions[b][i] /\ landings[l] = InHand(b)
          BY <3>2, <5>1 DEF OrderInv, ResultsOrdered, Before
        <5>3. /\ k \in DOMAIN landings' /\ landings'[k] = landings[k]
              /\ l \in DOMAIN landings' /\ landings'[l] = landings[l]
          BY <2>2
        <5>4. transactions' = transactions /\ InHand(b)' = InHand(b)
          BY <1>1 DEF InHand
        <5> QED
          BY <5>2, <5>3, <5>4 DEF Before
      <4> QED
        BY <4>3, <4>4
    <3> QED
      BY <1>1, <3>1, <3>2 DEF ResultsOrdered, Succeeded, InHand, Before
  <2> QED
    BY <2>5, <2>6 DEF OrderInv
<1> QED
  BY <1>2, <1>3 DEF Execute

LEMMA OrderStep ==
  ASSUME BundleLedger, OrderInv, [Next]_vars
  PROVE  OrderInv'
<1>t. BundleTypeOK
  BY DEF BundleLedger
<1>1. CASE NewBlock \/ CacheBlock \/ UNCHANGED vars
  <2>1. UNCHANGED <<ledger, landings, place, transactions, current, signatures>>
    BY <1>1 DEF NewBlock, CacheBlock, vars, chainVars, handlerVars, answerVars
  <2> QED
    BY <2>1, OrderedStay DEF OrderInv, LandingsKnown
<1>2. ASSUME NEW h \in Blockhashes, Execute(h) PROVE OrderInv'
  BY <1>2, OrderExecute
<1>3. ASSUME NEW b \in Bundles, Client(b) \/ StartHandler(b) PROVE OrderInv'
  <2>1. /\ place[b] \in {"building", "submitted"}
        /\ UNCHANGED <<ledger, landings, current, signatures>>
    BY <1>3 DEF Client, BuildTransaction, ForeignTransaction, AddTransaction, SubmitBundle,
       StartHandler, chainVars, answerVars
  <2>2. Drafted(b)
    BY <1>t, <1>3, ClientDrafts
  <2>3. \A i : i \notin Succeeded(b)
    <3>1. current[b] = 1
      BY <2>1 DEF BundleLedger, Progress
    <3> QED
      BY <3>1, SuccessKnown
  <2>4. ASSUME NEW c \in Bundles PROVE ResultsOrdered(c)'
    <3>1. CASE c = b
      <4>1. place'[b] # "polling"
        BY <2>2 DEF Drafted
      <4>2. \A i : i \notin Succeeded(b)'
        BY <2>1, <2>3 DEF Succeeded
      <4> QED
        BY <3>1, <4>1, <4>2 DEF ResultsOrdered
    <3>2. CASE c # b
      <4>1. transactions'[c] = transactions[c] /\ place'[c] = place[c]
        BY <2>2, <3>2 DEF Drafted
      <4> QED
        BY <2>1, <4>1, OrderedStay DEF OrderInv
    <3> QED
      BY <3>1, <3>2
  <2> QED
    BY <2>1, <2>4 DEF OrderInv, LandingsKnown
<1>4. ASSUME NEW b \in Bundles, Handler(b) PROVE OrderInv'
  <2>1. UNCHANGED <<landings, transactions>>
    BY <1>4 DEF Handler, RefuseExpired, AcceptBlockhash, Answer, SendAccepted, RetrySend,
       GiveUpSending, SendErrs, StatusLanded, StatusFailed, StatusTimeout, NextTransaction,
       chainVars
  <2>2. \A c \in Bundles \ {b} : /\ place'[c] = place[c] /\ current'[c] = current[c]
                                  /\ signatures'[c] = signatures[c]
    BY <1>t, <1>4 DEF BundleTypeOK, Handler, RefuseExpired, AcceptBlockhash, Answer,
       SendAccepted, RetrySend, GiveUpSending, SendErrs, StatusLanded, StatusFailed,
       StatusTimeout, NextTransaction, Succeed, Fail, answerVars
  <2>3. \A h \in Blockhashes : ledger'[h] = "landed" => ledger[h] = "landed"
    <3>1. place[b] = "sending" => InHand(b) \in Blockhashes
      BY DEF BundleLedger, BundleTypeOK, Progress, InHand
    <3> QED
      BY <1>t, <1>4, <3>1 DEF BundleTypeOK, Handler, RefuseExpired, AcceptBlockhash, Answer,
         SendAccepted, Receive, RetrySend, GiveUpSending, SendErrs, StatusLanded,
         StatusFailed, StatusTimeout, chainVars
  <2>4. LandingsKnown'
    BY <2>1, <2>3 DEF OrderInv, LandingsKnown
  <2>5. ResultsOrdered(b)'
    <3>1. CASE SendAccepted(b)
      <4>1. /\ UNCHANGED <<current, signatures>> /\ place[b] = "sending"
            /\ ledger' = [ledger EXCEPT ![InHand(b)] = "received"]
        BY <3>1 DEF SendAccepted, Receive, answerVars
      <4>2. InHand(b) \in Blockhashes
        BY <4>1 DEF BundleLedger, BundleTypeOK, Progress, InHand
      <4>3. InHand(b)' = InHand(b) /\ ledger'[InHand(b)] # "landed"
        BY <1>t, <2>1, <4>1, <4>2 DEF BundleTypeOK, InHand
      <4> QED
        BY <2>1, <4>1, <4>3 DEF OrderInv, ResultsOrdered, Succeeded, Before
    <3>2. CASE StatusLanded(b)
      <4>1. /\ place[b] = "polling" /\ ledger[InHand(b)] = "landed"
            /\ signatures' = [signatures EXCEPT ![b] = Append(signatures[b], current[b])]
            /\ place' = [place EXCEPT ![b] = "checking"]
        BY <3>2 DEF StatusLanded, Succeed, NextTransaction
      <4>2. place'[b] = "checking"
        BY <1>t, <4>1 DEF BundleTypeOK
      <4>3. \A i \in Succeeded(b)' : i \in Succeeded(b) \/ i = current[b]
        <5> DEFINE more == Append(signatures[b], current[b])
        <5>1. signatures[b] \in Seq(Nat) /\ current[b] \in Nat
          BY <1>t DEF BundleTypeOK
        <5>2. \A k \in DOMAIN more :
                (k \in DOMAIN signatures[b] /\ more[k] = signatures[b][k]) \/ more[k] = current[b]
          BY <5>1
        <5> HIDE DEF more
        <5>3. signatures'[b] = more
          BY <1>t, <4>1 DEF BundleTypeOK, more
        <5> QED
          BY <5>2, <5>3 DEF Succeeded
      <4>4. \A i \in Succeeded(b) : i \in Nat /\ i < current[b]
        BY <1>t, SuccessKnown DEF BundleTypeOK
      <4>5. current[b] \in Nat
        BY <1>t DEF BundleTypeOK
      <4>6. ASSUME NEW i \in Succeeded(b)', NEW j \in Succeeded(b)', i < j
            PROVE  Before(transactions[b][i], transactions[b][j])
        <5>1. i \in Succeeded(b)
          BY <4>3, <4>4, <4>5, <4>6
        <5>2. CASE j \in Succeeded(b)
          BY <4>6, <5>1, <5>2 DEF OrderInv, ResultsOrdered
        <5>3. CASE j = current[b]
          BY <4>1, <5>1, <5>3 DEF OrderInv, ResultsOrdered, InHand
        <5> QED
          BY <4>3, <5>2, <5>3
      <4> QED
        BY <2>1, <4>2, <4>6 DEF ResultsOrdered, Before
    <3>3. CASE RefuseExpired(b) \/ AcceptBlockhash(b) \/ Answer(b) \/ RetrySend(b)
               \/ GiveUpSending(b) \/ StatusFailed(b) \/ StatusTimeout(b)
      <4>1. place'[b] # "polling" /\ signatures' = signatures
        BY <1>t, <3>3 DEF BundleTypeOK, RefuseExpired, AcceptBlockhash, Answer, RetrySend,
           GiveUpSending, SendErrs, StatusFailed, StatusTimeout, NextTransaction, Fail,
           answerVars
      <4> QED
        BY <2>1, <4>1 DEF OrderInv, ResultsOrdered, Succeeded, Before
    <3> QED
      BY <1>4, <3>1, <3>2, <3>3 DEF Handler
  <2>6. ASSUME NEW c \in Bundles \ {b} PROVE ResultsOrdered(c)'
    <3>1. place[c] = "polling" => InHand(c) \in Blockhashes
      BY DEF BundleLedger, BundleTypeOK, Progress, InHand
    <3> QED
      BY <2>1, <2>2, <2>3, <3>1, OrderedStay DEF OrderInv
  <2> QED
    BY <2>4, <2>5, <2>6 DEF OrderInv
<1> QED
  BY <1>1, <1>2, <1>3, <1>4 DEF Next

(* The order of the landings is an invariant, with BundleLedger.            *)
THEOREM OrderInvariant == Spec => []OrderInv
<1>1. Init => OrderInv
  BY DEF Init, OrderInv, LandingsKnown, ResultsOrdered, Succeeded
<1>2. BundleLedger /\ OrderInv /\ [Next]_vars => OrderInv'
  BY OrderStep
<1> QED
  BY <1>1, <1>2, BundleLedgerInvariant, PTL DEF Spec

(* The successes of a bundle landed one after the other, in its order, even *)
(* when another client sends the same transactions.                         *)
THEOREM SuccessesInOrder == Spec => []SuccessesLandInOrder
<1>1. OrderInv => SuccessesLandInOrder
  BY DEF OrderInv, ResultsOrdered, Before, SuccessesLandInOrder
<1> QED
  BY <1>1, OrderInvariant, PTL

-----------------------------------------------------------------------------
(* The contract of a bundle.                                                *)

(* where a handler is at work *)
Working == {"checking", "sending", "polling"}

ContractStep == [Contract!ContractNext]_(Contract!contractVars)

(* The view of a step that reports nothing and keeps every stage. *)
LEMMA SameView ==
  ASSUME UNCHANGED <<transactions, current, landings, signatures, errors>>,
         \A b \in Bundles : Stage(b)' = Stage(b)
  PROVE  UNCHANGED Contract!contractVars
<1>1. Stages' = Stages
  BY DEF Stages
<1>2. AllReports' = AllReports
  BY DEF AllReports, Reports, Succeeded, Failed
<1> QED BY <1>1, <1>2 DEF Contract!contractVars

(* The view of a step of b that reports nothing and moves b to another stage.*)
LEMMA StageMoves ==
  ASSUME BundleTypeOK, NEW b \in Bundles, NEW p, place' = [place EXCEPT ![b] = p],
         UNCHANGED <<transactions, current, landings, signatures, errors>>
  PROVE  /\ Stages' = [Stages EXCEPT ![b] = Stage(b)']
         /\ Stages[b] = Stage(b)
         /\ UNCHANGED <<transactions, current, AllReports, landings>>
<1>1. \A c \in Bundles \ {b} : Stage(c)' = Stage(c)
  BY DEF BundleTypeOK, Stage
<1>2. AllReports' = AllReports
  BY DEF AllReports, Reports, Succeeded, Failed
<1>3. Stages' = [Stages EXCEPT ![b] = Stage(b)']
  BY <1>1 DEF Stages
<1> QED BY <1>2, <1>3 DEF Stages

(* One more entry, at the end of a list. *)
LEMMA Appended ==
  ASSUME NEW s, NEW n \in Nat, DOMAIN s = 1..n, NEW more, DOMAIN more = 1..(n + 1),
         \A k \in 1..n : more[k] = s[k]
  PROVE  /\ DOMAIN more = DOMAIN s \cup {n + 1}
         /\ \A k \in DOMAIN s : more[k] = s[k]
OBVIOUS

(* Succeed and Fail add a report of the transaction in hand. *)
LEMMA ReportAdded ==
  ASSUME BundleTypeOK, NEW b \in Bundles
  PROVE  /\ Succeed(b) =>
              AllReports' = [AllReports EXCEPT ![b] = @ \cup {<<current[b], "success">>}]
         /\ \A reason \in Reasons : Fail(b, reason) =>
              AllReports' = [AllReports EXCEPT ![b] = @ \cup {<<current[b], "failure">>}]
<1>t. signatures[b] \in Seq(Nat) /\ errors[b] \in Seq(Nat \X Reasons)
  BY DEF BundleTypeOK
<1>1. ASSUME Succeed(b)
      PROVE  AllReports' = [AllReports EXCEPT ![b] = @ \cup {<<current[b], "success">>}]
  <2> DEFINE more == Append(signatures[b], current[b])
  <2>0. /\ Len(signatures[b]) \in Nat /\ DOMAIN signatures[b] = 1..Len(signatures[b])
        /\ DOMAIN more = 1..(Len(signatures[b]) + 1)
        /\ \A k \in 1..Len(signatures[b]) : more[k] = signatures[b][k]
        /\ more[Len(signatures[b]) + 1] = current[b]
    BY <1>t
  <2>1. signatures' = [signatures EXCEPT ![b] = more] /\ errors' = errors
    BY <1>1 DEF Succeed
  <2> HIDE DEF more
  <2>a. /\ DOMAIN more = DOMAIN signatures[b] \cup {Len(signatures[b]) + 1}
        /\ \A k \in DOMAIN signatures[b] : more[k] = signatures[b][k]
    BY <2>0, Appended
  <2>2. {more[k] : k \in DOMAIN more} = Succeeded(b) \cup {current[b]}
    BY <2>0, <2>a DEF Succeeded
  <2>3. Succeeded(b)' = Succeeded(b) \cup {current[b]}
    BY <2>1, <2>2 DEF BundleTypeOK, Succeeded
  <2>4. \A c \in Bundles : Failed(c)' = Failed(c)
    BY <2>1 DEF Failed
  <2>5. \A c \in Bundles \ {b} : Succeeded(c)' = Succeeded(c)
    BY <2>1 DEF BundleTypeOK, Succeeded
  <2>6. Reports(b)' = Reports(b) \cup {<<current[b], "success">>}
    BY <2>3, <2>4 DEF Reports
  <2>7. \A c \in Bundles \ {b} : Reports(c)' = Reports(c)
    BY <2>4, <2>5 DEF Reports
  <2> QED BY <2>6, <2>7 DEF AllReports
<1>2. ASSUME NEW reason \in Reasons, Fail(b, reason)
      PROVE  AllReports' = [AllReports EXCEPT ![b] = @ \cup {<<current[b], "failure">>}]
  <2> DEFINE more == Append(errors[b], <<current[b], reason>>)
  <2>0. /\ Len(errors[b]) \in Nat /\ DOMAIN errors[b] = 1..Len(errors[b])
        /\ DOMAIN more = 1..(Len(errors[b]) + 1)
        /\ \A k \in 1..Len(errors[b]) : more[k] = errors[b][k]
        /\ more[Len(errors[b]) + 1] = <<current[b], reason>>
    BY <1>t
  <2>1. errors' = [errors EXCEPT ![b] = more] /\ signatures' = signatures
    BY <1>2 DEF Fail
  <2> HIDE DEF more
  <2>2. /\ DOMAIN more = DOMAIN errors[b] \cup {Len(errors[b]) + 1}
        /\ \A k \in DOMAIN errors[b] : more[k] = errors[b][k]
    BY <2>0, Appended
  <2>3. {more[k][1] : k \in DOMAIN more} = Failed(b) \cup {current[b]}
    BY <2>0, <2>2 DEF Failed
  <2>4. Failed(b)' = Failed(b) \cup {current[b]}
    BY <2>1, <2>3 DEF BundleTypeOK, Failed
  <2>5. \A c \in Bundles : Succeeded(c)' = Succeeded(c)
    BY <2>1 DEF Succeeded
  <2>6. \A c \in Bundles \ {b} : Failed(c)' = Failed(c)
    BY <2>1 DEF BundleTypeOK, Failed
  <2>7. Reports(b)' = Reports(b) \cup {<<current[b], "failure">>}
    BY <2>4, <2>5 DEF Reports
  <2>8. \A c \in Bundles \ {b} : Reports(c)' = Reports(c)
    BY <2>5, <2>6 DEF Reports
  <2> QED BY <2>7, <2>8 DEF AllReports
<1> QED BY <1>1, <1>2

(* The chain and the client: a transaction lands, a bundle is made up, and  *)
(* refused or taken on. *)
LEMMA ChainRefines ==
  ASSUME BundleTypeOK, NewBlock \/ CacheBlock \/ \E h \in Blockhashes : Execute(h)
  PROVE  ContractStep
<1>1. UNCHANGED <<place, transactions, current, signatures, errors>>
  BY DEF NewBlock, CacheBlock, Execute, handlerVars, answerVars
<1>2. Stages' = Stages /\ AllReports' = AllReports
  BY <1>1 DEF Stages, Stage, AllReports, Reports, Succeeded, Failed
<1>3. UNCHANGED landings \/ \E h \in Blockhashes : landings' = Append(landings, h)
  BY DEF NewBlock, CacheBlock, Execute, chainVars
<1> QED BY <1>1, <1>2, <1>3 DEF ContractStep, Contract!ContractNext, Contract!Land,
           Contract!contractVars

LEMMA ClientRefines ==
  ASSUME BundleTypeOK, NEW b \in Bundles, Client(b) \/ StartHandler(b)
  PROVE  ContractStep
<1>1. UNCHANGED <<landings, current, signatures, errors>>
  BY DEF Client, BuildTransaction, ForeignTransaction, AddTransaction, SubmitBundle,
     StartHandler, chainVars, answerVars
<1>2. ASSUME NEW item \in Blockhashes \cup {Malformed}, AddTransaction(b, item)
      PROVE  ContractStep
  <2>1. /\ place[b] = "building" /\ place' = place
        /\ transactions' = [transactions EXCEPT ![b] = Append(@, item)]
    BY <1>2 DEF AddTransaction
  <2>2. Stages[b] = "new" /\ Stages' = Stages /\ AllReports' = AllReports
    BY <1>1, <2>1 DEF Stages, Stage, AllReports, Reports, Succeeded, Failed
  <2>3. Contract!Draft(b, item)
    BY <1>1, <2>1, <2>2 DEF Contract!Draft
  <2> QED BY <2>3 DEF ContractStep, Contract!ContractNext
<1>3. CASE BuildTransaction(b) \/ ForeignTransaction(b)
  <2>1. latest \in Blockhashes /\ 0..latest \subseteq Blockhashes
    BY BundleAssumption DEF BundleTypeOK, Blockhashes
  <2> QED BY <1>2, <1>3, <2>1 DEF BuildTransaction, ForeignTransaction
<1>4. CASE SubmitBundle(b)
  <2>1. /\ place[b] = "building" /\ place' = [place EXCEPT ![b] = "submitted"]
        /\ UNCHANGED transactions
    BY <1>4 DEF SubmitBundle
  <2>2. \A c \in Bundles : Stage(c)' = Stage(c)
    BY <2>1 DEF BundleTypeOK, Stage
  <2> QED BY <1>1, <2>1, <2>2, SameView DEF ContractStep
<1>5. CASE StartHandler(b)
  <2>1. place[b] = "submitted" /\ UNCHANGED transactions
    BY <1>5 DEF StartHandler
  <2>2. Stage(b) = "new"
    BY <2>1 DEF Stage
  <2>3. CASE /\ \A i \in 1..Len(transactions[b]) : transactions[b][i] # Malformed
             /\ place' = [place EXCEPT ![b] = "checking"]
    <3>1. Stage(b)' = "open"
      BY <2>3 DEF BundleTypeOK, Stage
    <3>2. \A i \in 1..Len(transactions[b]) : transactions[b][i] \in Blockhashes
      BY <2>3 DEF BundleTypeOK
    <3>3. Contract!TakeOn(b)
      BY <1>1, <2>1, <2>2, <2>3, <3>1, <3>2, StageMoves DEF Contract!TakeOn
    <3> QED BY <3>3 DEF ContractStep, Contract!ContractNext
  <2>4. CASE place' = [place EXCEPT ![b] = "refused"]
    <3>1. Stage(b)' = "refused"
      BY <2>4 DEF BundleTypeOK, Stage
    <3>2. Contract!Refuse(b)
      BY <1>1, <2>1, <2>2, <2>4, <3>1, StageMoves DEF Contract!Refuse
    <3> QED BY <3>2 DEF ContractStep, Contract!ContractNext
  <2> QED BY <1>5, <2>3, <2>4 DEF StartHandler
<1> QED BY <1>3, <1>4, <1>5 DEF Client

(* A transaction that is through: it has had its turn and is reported. *)
LEMMA OutcomeReported ==
  ASSUME BundleTypeOK, NEW b \in Bundles, NextTransaction(b), NEW outcome,
         place[b] \in Working, current[b] <= Len(transactions[b]),
         AllReports' = [AllReports EXCEPT ![b] = @ \cup {<<current[b], outcome>>}]
  PROVE  Contract!Report(b, outcome)
<1>1. /\ place' = [place EXCEPT ![b] = "checking"]
      /\ current' = [current EXCEPT ![b] = @ + 1]
      /\ UNCHANGED <<transactions, landings>>
  BY DEF NextTransaction
<1>2. Stages[b] = "open"
  BY DEF Stages, Stage, Working
<1>3. \A c \in Bundles : Stage(c)' = Stage(c)
  BY <1>1 DEF BundleTypeOK, Stage, Working
<1>4. Stages' = Stages
  BY <1>3 DEF Stages
<1> QED BY <1>1, <1>2, <1>4 DEF Contract!Report

LEMMA HandlerRefines ==
  ASSUME BundleLedger, OrderInv, NEW b \in Bundles, Handler(b)
  PROVE  ContractStep
<1>t. BundleTypeOK
  BY DEF BundleLedger
<1>1. /\ place[b] \in Working
      /\ place[b] \in {"sending", "polling"} => current[b] <= Len(transactions[b])
  BY DEF Handler, RefuseExpired, AcceptBlockhash, Answer, SendAccepted, RetrySend,
     GiveUpSending, SendErrs, StatusLanded, StatusFailed, StatusTimeout, Working,
     BundleLedger, Progress
<1>2. ASSUME NEW reason \in Reasons, Fail(b, reason), NextTransaction(b),
             current[b] <= Len(transactions[b])
      PROVE  ContractStep
  BY <1>t, <1>1, <1>2, ReportAdded, OutcomeReported DEF ContractStep, Contract!ContractNext,
     Contract!ReportFailure
<1>3. CASE RefuseExpired(b)
  BY <1>2, <1>3 DEF RefuseExpired, Reasons
<1>4. CASE GiveUpSending(b)
  BY <1>1, <1>2, <1>4 DEF GiveUpSending, SendErrs, Reasons
<1>5. CASE StatusFailed(b) \/ StatusTimeout(b)
  BY <1>1, <1>2, <1>5 DEF StatusFailed, StatusTimeout, Reasons
<1>6. CASE StatusLanded(b)
  <2>1. /\ place[b] = "polling" /\ ledger[InHand(b)] = "landed"
        /\ Succeed(b) /\ NextTransaction(b)
    BY <1>6 DEF StatusLanded
  <2>2. Contract!Report(b, "success")
    BY <1>t, <1>1, <2>1, ReportAdded, OutcomeReported
  <2>3. \E l \in DOMAIN landings : landings[l] = InHand(b)
    BY <2>1 DEF BundleLedger, BundleTypeOK, Progress, InHand, OrderInv, LandingsKnown
  <2>4. \A i \in Succeeded(b) : Contract!LandedAfter(InHand(b), transactions[b][i])
    BY <2>1 DEF OrderInv, ResultsOrdered, Before, Contract!LandedAfter
  <2>5. \A p \in AllReports[b] : p[2] = "success" => p[1] \in Succeeded(b)
    BY DEF AllReports, Reports
  <2>6. Contract!ReportSuccess(b)
    BY <2>2, <2>3, <2>4, <2>5 DEF Contract!ReportSuccess, InHand
  <2> QED BY <2>6 DEF ContractStep, Contract!ContractNext
<1>7. CASE Answer(b)
  <2>1. /\ place' = [place EXCEPT ![b] = "answered"] /\ current[b] > Len(transactions[b])
        /\ UNCHANGED <<transactions, current, landings, signatures, errors>>
    BY <1>7 DEF Answer, chainVars, answerVars
  <2>2. Stage(b) = "open" /\ Stage(b)' = "answered"
    BY <1>t, <1>1, <2>1 DEF BundleTypeOK, Stage, Working
  <2>3. Contract!Answer(b)
    BY <1>t, <2>1, <2>2, StageMoves DEF Contract!Answer
  <2> QED BY <2>3 DEF ContractStep, Contract!ContractNext
<1>8. CASE AcceptBlockhash(b) \/ SendAccepted(b) \/ RetrySend(b)
  <2>1. /\ \E p \in Working : place' = [place EXCEPT ![b] = p]
        /\ UNCHANGED <<transactions, current, landings, signatures, errors>>
    BY <1>t, <1>8 DEF AcceptBlockhash, SendAccepted, RetrySend, SendErrs, chainVars,
       answerVars, BundleTypeOK, Working
  <2>2. \A c \in Bundles : Stage(c)' = Stage(c)
    BY <1>t, <1>1, <2>1 DEF BundleTypeOK, Stage, Working
  <2> QED BY <2>1, <2>2, SameView DEF ContractStep
<1> QED BY <1>3, <1>4, <1>5, <1>6, <1>7, <1>8 DEF Handler

(* The handlers keep the contract of module BundleContract, for any bundles,*)
(* clients and lifetimes, however the sends and polls of their transactions *)
(* fail.                                                                    *)
THEOREM RefinesBundleContract == Spec => ImplementsBundleContract
<1>1. Init => Contract!ContractInit
  BY DEF Init, Contract!ContractInit, Stages, Stage, AllReports, Reports, Succeeded, Failed
<1>2. BundleLedger /\ OrderInv /\ [Next]_vars => ContractStep
  <2> SUFFICES ASSUME BundleLedger, OrderInv, [Next]_vars PROVE ContractStep
    OBVIOUS
  <2>1. CASE UNCHANGED vars
    <3>1. UNCHANGED <<place, transactions, current, landings, signatures, errors>>
      BY <2>1 DEF vars, chainVars, handlerVars, answerVars
    <3>2. \A b \in Bundles : Stage(b)' = Stage(b)
      BY <3>1 DEF Stage
    <3> QED BY <3>1, <3>2, SameView DEF ContractStep
  <2> QED BY <2>1, ChainRefines, ClientRefines, HandlerRefines DEF Next, BundleLedger
<1> QED BY <1>1, <1>2, BundleLedgerInvariant, OrderInvariant, PTL
        DEF Spec, ImplementsBundleContract, Contract!ContractSpec, ContractStep

-----------------------------------------------------------------------------
(* The workers of the runtime.  A handler occupies one from StartHandler to *)
(* Answer, and the block stream and the bundles that wait need one.         *)
Occupied == {b \in Bundles : place[b] \in Working}

Workers == free_workers + Cardinality(Occupied)

WorkersAccounted == IsFiniteSet(Occupied) /\ Workers \in FreeWorkers

(* Nobody occupies a worker at first. *)
LEMMA WorkersInit == Init => WorkersAccounted
<1> SUFFICES ASSUME Init PROVE WorkersAccounted
  OBVIOUS
<1>1. Occupied = {}
  BY DEF Init, Occupied, Working
<1>2. IsFiniteSet(Occupied) /\ Cardinality(Occupied) = 0
  BY <1>1, FS_EmptySet
<1>3. free_workers \in FreeWorkers /\ free_workers \in Nat
  BY BundleAssumption DEF Init
<1> QED
  BY <1>2, <1>3 DEF WorkersAccounted, Workers

(* The steps that neither take a worker nor give one back. *)
LEMMA SameWorkers ==
  ASSUME UNCHANGED free_workers,
         \A b \in Bundles : place'[b] \in Working <=> place[b] \in Working
  PROVE  Occupied' = Occupied /\ Workers' = Workers
BY DEF Occupied, Workers

(* A request takes a worker up, or is refused at once.  The free one that   *)
(* refuses is free again.                                                   *)
LEMMA WorkerTaken ==
  ASSUME BundleTypeOK, IsFiniteSet(Occupied), NEW b \in Bundles, StartHandler(b)
  PROVE  IsFiniteSet(Occupied') /\ Workers' = Workers
<1>1. place[b] = "submitted" /\ free_workers \in Nat /\ free_workers > 0
  BY DEF StartHandler, BundleTypeOK
<1>2. CASE place' = [place EXCEPT ![b] = "checking"] /\ free_workers' = free_workers - 1
  <2>1. Occupied' = Occupied \cup {b} /\ b \notin Occupied
    BY <1>1, <1>2 DEF BundleTypeOK, Occupied, Working
  <2>2. IsFiniteSet(Occupied') /\ Cardinality(Occupied') = Cardinality(Occupied) + 1
    BY <2>1, FS_AddElement
  <2>3. Cardinality(Occupied) \in Nat
    BY FS_CardinalityType
  <2> QED
    BY <1>1, <1>2, <2>2, <2>3 DEF Workers
<1>3. CASE place' = [place EXCEPT ![b] = "refused"] /\ UNCHANGED free_workers
  <2>1. \A c \in Bundles : place'[c] \in Working <=> place[c] \in Working
    BY <1>1, <1>3 DEF BundleTypeOK, Working
  <2> QED
    BY <1>3, <2>1, SameWorkers
<1> QED
  BY <1>2, <1>3 DEF StartHandler

(* However a transaction ends, the handler keeps its worker until it sends  *)
(* the answer, and gives it back then.                                      *)
LEMMA WorkerKept ==
  ASSUME BundleTypeOK, IsFiniteSet(Occupied), NEW b \in Bundles, Handler(b)
  PROVE  IsFiniteSet(Occupied') /\ Workers' = Workers
<1>1. CASE Answer(b)
  <2>1. Occupied' = Occupied \ {b} /\ b \in Occupied
    BY <1>1 DEF Answer, BundleTypeOK, Occupied, Working
  <2>2. IsFiniteSet(Occupied') /\ Cardinality(Occupied') = Cardinality(Occupied) - 1
    BY <2>1, FS_RemoveElement
  <2>3. /\ Cardinality(Occupied) \in Nat /\ free_workers \in Nat
        /\ free_workers' = free_workers + 1
    BY <1>1, FS_CardinalityType DEF Answer, BundleTypeOK
  <2> QED
    BY <2>2, <2>3 DEF Workers
<1>2. CASE ~Answer(b)
  <2>1. place[b] \in Working /\ UNCHANGED free_workers
    BY <1>2 DEF Handler, RefuseExpired, AcceptBlockhash, SendAccepted, RetrySend,
       GiveUpSending, SendErrs, StatusLanded, StatusFailed, StatusTimeout, NextTransaction,
       Working
  <2>2. \E p \in Working : place' = [place EXCEPT ![b] = p]
    BY <1>2 DEF BundleTypeOK, Handler, RefuseExpired, AcceptBlockhash, SendAccepted,
       RetrySend, GiveUpSending, SendErrs, StatusLanded, StatusFailed, StatusTimeout,
       NextTransaction, Working
  <2>3. \A c \in Bundles : place'[c] \in Working <=> place[c] \in Working
    BY <2>1, <2>2 DEF BundleTypeOK
  <2> QED
    BY <2>1, <2>3, SameWorkers
<1> QED
  BY <1>1, <1>2

LEMMA WorkersStep ==
  ASSUME BundleTypeOK, IsFiniteSet(Occupied), [Next]_vars
  PROVE  IsFiniteSet(Occupied') /\ Workers' = Workers
<1>1. CASE UNCHANGED <<place, free_workers>>
  BY <1>1, SameWorkers
<1>2. CASE NewBlock \/ CacheBlock \/ (\E h \in Blockhashes : Execute(h)) \/ UNCHANGED vars
  BY <1>1, <1>2 DEF NewBlock, CacheBlock, Execute, vars, handlerVars
<1>3. ASSUME NEW b \in Bundles, Client(b) PROVE IsFiniteSet(Occupied') /\ Workers' = Workers
  <2>1. CASE SubmitBundle(b)
    <3>1. \A c \in Bundles : place'[c] \in Working <=> place[c] \in Working
      BY <2>1 DEF SubmitBundle, BundleTypeOK, Working
    <3> QED
      BY <2>1, <3>1, SameWorkers DEF SubmitBundle
  <2>2. CASE BuildTransaction(b) \/ ForeignTransaction(b)
    BY <1>1, <2>2 DEF BuildTransaction, ForeignTransaction, AddTransaction
  <2> QED
    BY <1>3, <2>1, <2>2 DEF Client
<1> QED
  BY <1>2, <1>3, WorkerTaken, WorkerKept DEF Next

(* The workers that are free and those that handlers occupy are at all      *)
(* times as many as the runtime had at first: none is lost with a bundle    *)
(* that fails on the way, and none is given back twice.                     *)
THEOREM WorkersAreKept ==
  Spec => []WorkersAccounted /\ [][Workers' = Workers]_vars
<1>1. Init => WorkersAccounted
  BY WorkersInit
<1>2. BundleTypeOK /\ WorkersAccounted /\ [Next]_vars =>
        WorkersAccounted' /\ [Workers' = Workers]_vars
  BY WorkersStep DEF WorkersAccounted
<1> QED
  BY <1>1, <1>2, BundleTypesKept, PTL DEF Spec

(* So a bundle never waits for a worker in vain: with none free, there is a *)
(* handler at work that will give one back.                                 *)
THEOREM WaitingForAWorker == Spec => [](free_workers = 0 => Occupied # {})
<1>1. BundleTypeOK /\ WorkersAccounted => (free_workers = 0 => Occupied # {})
  <2> SUFFICES ASSUME WorkersAccounted, free_workers = 0, Occupied = {} PROVE FALSE
    OBVIOUS
  <2>1. Cardinality(Occupied) = 0
    BY FS_EmptySet
  <2>2. Workers = 0
    BY <2>1 DEF Workers
  <2> QED
    BY <2>2, BundleAssumption DEF WorkersAccounted
<1> QED
  BY <1>1, WorkersAreKept, BundleTypesKept, PTL
=============================================================================
