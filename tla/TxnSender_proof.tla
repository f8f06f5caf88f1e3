-------------------------- MODULE TxnSender_proof --------------------------
(***************************************************************************)
(* Proofs about TxnSender, for any number of requests and signatures and   *)
(* any limits.  Bookkeeping is the inductive invariant; the safety         *)
(* properties follow from it.                                              *)
(***************************************************************************)
EXTENDS TxnSender, FiniteSetTheorems, TLAPS

(* min(max_txn_send_retries, params.max_retries) stays within the maximum   *)
(* the operator set, whatever number the client sends.                      *)
LEMMA GrantedRetriesBound ==
  ASSUME NEW m \in ParamRetries
  PROVE  GrantedRetries(m) \in 0..MaxSendRetries
BY SenderAssumption, SMT DEF GrantedRetries

(* The initial state satisfies the invariant. *)
LEMMA InitBookkeeping == Init => Bookkeeping
<1> SUFFICES ASSUME Init PROVE Bookkeeping
  OBVIOUS
<1> USE SenderAssumption DEF Init
<1>1. TypeOK
  BY DEF TypeOK, HandlerStates, LoopStates
<1>2. Stored = {} /\ \A r \in Requests : ~Live(r)
  BY DEF Stored, Live
<1>3. StoreKeyed /\ SigDecoded /\ EarlyClean /\ NoOrphan
  BY <1>2 DEF StoreKeyed, SigDecoded, EarlyClean, NoOrphan
<1>4. ScanOnce /\ ShedClean /\ ShedsTheMostRetried
  BY DEF ScanOnce, ShedClean, ShedsTheMostRetried
<1>5. RetryLedger
  BY <1>2 DEF RetryLedger, Handed
<1> QED BY <1>1, <1>3, <1>4, <1>5 DEF Bookkeeping

(* A handler may insert or overwrite under its signature, once. *)
LEMMA HandlerKeeps ==
  ASSUME Bookkeeping, NEW r \in Requests,
         Refuse(r) \/ Receive(r) \/ HandlerStep(r)
  PROVE  Bookkeeping'
<1> USE DEF Bookkeeping
<1>1. CASE Refuse(r)
  <2> USE <1>1 DEF Refuse, shedVars, scanVars, loopVars
  <2>1. TypeOK'
    BY DEF TypeOK, HandlerStates
  <2>2. /\ StoreKeyed'
        /\ SigDecoded'
        /\ EarlyClean'
        /\ NoOrphan'
        /\ ScanOnce'
        /\ ShedClean'
        /\ ShedsTheMostRetried'
        /\ RetryLedger'
    BY DEF StoreKeyed, Stored, SigDecoded, EarlyClean, Early, Live, NoOrphan,
       ScanOnce, ShedClean, ShedsTheMostRetried, RetryLedger, Handed
  <2> QED BY <2>1, <2>2
<1>2. CASE Receive(r)
  <2> USE <1>2 DEF Receive, shedVars, scanVars, loopVars
  <2>1. TypeOK'
    BY GrantedRetriesBound DEF TypeOK, HandlerStates
  <2>2. StoreKeyed'
    BY DEF StoreKeyed, Stored, EarlyClean, Early, Live
  <2>3. SigDecoded'
    BY DEF TypeOK, SigDecoded
  <2>4. EarlyClean'
    BY SenderAssumption DEF EarlyClean, Early, Live, StoreKeyed, Stored
  <2>5. NoOrphan'
    BY SenderAssumption DEF NoOrphan, Live, StoreKeyed, Stored
  <2>6. ScanOnce'
    BY DEF ScanOnce, EarlyClean, Early
  <2>7. ShedsTheMostRetried'
    BY DEF ShedsTheMostRetried, EarlyClean, Early, Live
  <2>8. RetryLedger'
    BY GrantedRetriesBound DEF RetryLedger, Handed, Live, EarlyClean, Early
  <2>9. ShedClean'
    BY DEF ShedClean
  <2> QED BY <2>1, <2>2, <2>3, <2>4, <2>5, <2>6, <2>7, <2>8, <2>9
<1>3. CASE CheckStored(r)
  <2> USE <1>3 DEF CheckStored, shedVars, scanVars, loopVars
  <2>1. TypeOK'
    BY DEF TypeOK, HandlerStates
  <2>2. EarlyClean'
    BY DEF EarlyClean, Early, Live
  <2>3. /\ StoreKeyed'
        /\ SigDecoded'
        /\ NoOrphan'
        /\ ScanOnce'
        /\ ShedClean'
        /\ ShedsTheMostRetried'
        /\ RetryLedger'
    BY DEF StoreKeyed, Stored, SigDecoded, NoOrphan, Live, ScanOnce,
       ShedClean, ShedsTheMostRetried, RetryLedger, Handed
  <2> QED BY <2>1, <2>2, <2>3
<1>4. CASE InsertTransaction(r)
  <2> USE <1>4 DEF InsertTransaction, shedVars, scanVars, loopVars
  <2>1. TypeOK'
    BY DEF TypeOK, HandlerStates
  <2>2. StoreKeyed'
    BY DEF StoreKeyed, Stored
  <2>3. EarlyClean'
    BY DEF TypeOK, EarlyClean, Early, Live
  <2>4. NoOrphan'
    BY DEF TypeOK, NoOrphan, Live
  <2>5. ShedsTheMostRetried'
    BY DEF ShedsTheMostRetried, EarlyClean, Early, Live
  <2>6. RetryLedger'
    BY DEF RetryLedger, Handed, Live, EarlyClean, Early
  <2>7. SigDecoded' /\ ScanOnce' /\ ShedClean'
    BY DEF SigDecoded, ScanOnce, ShedClean
  <2> QED BY <2>1, <2>2, <2>3, <2>4, <2>5, <2>6, <2>7
<1>5. CASE PriorityPanics(r)
  <2> USE <1>5 DEF PriorityPanics, shedVars, scanVars, loopVars
  <2>1. TypeOK'
    BY DEF TypeOK, HandlerStates
  <2>2. NoOrphan'
    BY DEF NoOrphan, Live
  <2>3. /\ StoreKeyed'
        /\ SigDecoded'
        /\ EarlyClean'
        /\ ScanOnce'
        /\ ShedClean'
        /\ ShedsTheMostRetried'
        /\ RetryLedger'
    BY DEF StoreKeyed, Stored, SigDecoded, EarlyClean, Early, Live, ScanOnce,
       ShedClean, ShedsTheMostRetried, RetryLedger, Handed
  <2> QED BY <2>1, <2>2, <2>3
<1>6. CASE SpawnConfirmer(r)
  <2> USE <1>6 DEF SpawnConfirmer, shedVars, scanVars, loopVars
  <2>1. TypeOK'
    BY DEF TypeOK, HandlerStates
  <2>2. EarlyClean'
    BY DEF EarlyClean, Early, Live
  <2>3. NoOrphan'
    BY DEF TypeOK, NoOrphan, Live
  <2>4. /\ StoreKeyed'
        /\ SigDecoded'
        /\ ScanOnce'
        /\ ShedClean'
        /\ ShedsTheMostRetried'
        /\ RetryLedger'
    BY DEF StoreKeyed, Stored, SigDecoded, ScanOnce, ShedClean,
       ShedsTheMostRetried, Live, RetryLedger, Handed
  <2> QED BY <2>1, <2>2, <2>3, <2>4
<1>7. CASE SendToLeaders(r)
  <2> USE <1>7 DEF SendToLeaders, shedVars, scanVars, loopVars
  <2>1. TypeOK'
    BY DEF TypeOK, HandlerStates
  <2>2. NoOrphan'
    BY DEF NoOrphan, Live
  <2>3. /\ StoreKeyed'
        /\ SigDecoded'
        /\ EarlyClean'
        /\ ScanOnce'
        /\ ShedClean'
        /\ ShedsTheMostRetried'
        /\ RetryLedger'
    BY DEF StoreKeyed, Stored, SigDecoded, EarlyClean, Early, Live, ScanOnce,
       ShedClean, ShedsTheMostRetried, RetryLedger, Handed
  <2> QED BY <2>1, <2>2, <2>3
<1> QED
  BY <1>1, <1>2, <1>3, <1>4, <1>5, <1>6, <1>7 DEF HandlerStep

(* A confirmer may remove another request's entry, never miss its own. *)
LEMMA ConfirmerKeeps ==
  ASSUME Bookkeeping, NEW r \in Requests, ConfirmReturns(r)
  PROVE  Bookkeeping'
<1> USE DEF Bookkeeping, ConfirmReturns, shedVars, scanVars, loopVars
<1>1. TypeOK'
  BY DEF TypeOK
<1>2. StoreKeyed'
  BY DEF StoreKeyed, Stored
<1>3. NoOrphan'
  BY SenderAssumption DEF TypeOK, NoOrphan, Live
<1>4. ShedsTheMostRetried'
  BY SenderAssumption DEF TypeOK, ShedsTheMostRetried, Live
<1>5. RetryLedger'
  BY SenderAssumption DEF RetryLedger, Handed, Live
<1>6. SigDecoded' /\ EarlyClean' /\ ScanOnce' /\ ShedClean'
  BY SenderAssumption DEF SigDecoded, EarlyClean, Live, ScanOnce, ShedClean
<1> QED BY <1>1, <1>2, <1>3, <1>4, <1>5, <1>6

(* The retry loop counts, sends and removes in step with what it counted. *)
LEMMA RetryLoopKeeps ==
  ASSUME Bookkeeping, RetryLoop
  PROVE  Bookkeeping'
<1> USE DEF Bookkeeping
<1>1. CASE MeasureQueue
  <2> USE <1>1 DEF MeasureQueue, taskVars, shedVars
  <2>1. TypeOK'
    BY DEF TypeOK, LoopStates
  <2>2. ScanOnce'
    BY DEF ScanOnce
  <2>3. /\ StoreKeyed'
        /\ SigDecoded'
        /\ EarlyClean'
        /\ NoOrphan'
        /\ ShedClean'
        /\ ShedsTheMostRetried'
        /\ RetryLedger'
    BY DEF StoreKeyed, Stored, SigDecoded, EarlyClean, Live, NoOrphan,
       ShedClean, ShedsTheMostRetried, RetryLedger, Handed
  <2> QED BY <2>1, <2>2, <2>3
<1>2. ASSUME NEW s \in Signatures, CollectEntry(s)
      PROVE  Bookkeeping'
  <2> USE <1>2 DEF CollectEntry, taskVars
  <2>1. TypeOK'
    BY DEF TypeOK
  <2>2. EarlyClean'
    BY DEF EarlyClean, Live, StoreKeyed, Stored
  <2>3. ScanOnce'
    BY DEF ScanOnce
  <2>4. /\ StoreKeyed'
        /\ SigDecoded'
        /\ NoOrphan'
        /\ ShedClean'
        /\ ShedsTheMostRetried'
        /\ RetryLedger'
    BY DEF StoreKeyed, Stored, SigDecoded, NoOrphan, Live, ShedClean,
       ShedsTheMostRetried, RetryLedger, Handed
  <2> QED BY <2>1, <2>2, <2>3, <2>4
<1>3. CASE StartShedding
  <2> USE <1>3 DEF StartShedding, taskVars, scanVars
  <2>1. TypeOK'
    BY DEF TypeOK, LoopStates
  <2>2. ShedClean'
    BY DEF ShedClean
  <2>3. ShedsTheMostRetried'
    BY DEF ShedsTheMostRetried, IsSortedPrefix
  <2>4. /\ StoreKeyed'
        /\ SigDecoded'
        /\ EarlyClean'
        /\ NoOrphan'
        /\ ScanOnce'
        /\ RetryLedger'
    BY DEF StoreKeyed, Stored, SigDecoded, EarlyClean, Live, NoOrphan,
       ScanOnce, RetryLedger, Handed
  <2> QED BY <2>1, <2>2, <2>3, <2>4
<1>4. CASE SlicePanics
  <2> USE <1>4 DEF SlicePanics, taskVars, shedVars, scanVars
  <2>1. TypeOK'
    BY DEF TypeOK, LoopStates
  <2>2. /\ StoreKeyed'
        /\ SigDecoded'
        /\ EarlyClean'
        /\ NoOrphan'
        /\ ScanOnce'
        /\ ShedClean'
        /\ ShedsTheMostRetried'
        /\ RetryLedger'
    BY DEF StoreKeyed, Stored, SigDecoded, EarlyClean, Live, NoOrphan,
       ScanOnce, ShedClean, ShedsTheMostRetried, RetryLedger, Handed
  <2> QED BY <2>1, <2>2
<1>5. ASSUME NEW r \in Requests, ShedFromStore(r)
      PROVE  Bookkeeping'
  <2> USE <1>5 DEF ShedFromStore, taskVars, scanVars
  <2>1. TypeOK'
    BY DEF TypeOK
  <2>2. StoreKeyed'
    BY DEF StoreKeyed, Stored
  <2>3. NoOrphan'
    BY SenderAssumption DEF NoOrphan, Live
  <2>4. ShedClean'
    BY DEF ShedClean
  <2>5. ShedsTheMostRetried'
    BY SenderAssumption DEF TypeOK, ShedsTheMostRetried, Live
  <2>6. RetryLedger'
    BY SenderAssumption DEF RetryLedger, Handed, Live
  <2>7. SigDecoded' /\ EarlyClean' /\ ScanOnce'
    BY SenderAssumption DEF SigDecoded, EarlyClean, Live, ScanOnce
  <2> QED BY <2>1, <2>2, <2>3, <2>4, <2>5, <2>6, <2>7
<1>6. CASE ShedFromMap
  <2> USE <1>6 DEF ShedFromMap, taskVars, scanVars
  <2>1. TypeOK'
    BY DEF TypeOK
  <2>2. StoreKeyed'
    BY DEF StoreKeyed, Stored
  <2>3. NoOrphan'
    BY SenderAssumption DEF NoOrphan, Live
  <2>4. ShedClean'
    BY DEF ShedClean
  <2>5. ShedsTheMostRetried'
    BY SenderAssumption DEF TypeOK, ShedsTheMostRetried, Live
  <2>6. RetryLedger'
    BY SenderAssumption DEF RetryLedger, Handed, Live
  <2>7. SigDecoded' /\ EarlyClean' /\ ScanOnce'
    BY SenderAssumption DEF SigDecoded, EarlyClean, Live, ScanOnce
  <2> QED BY <2>1, <2>2, <2>3, <2>4, <2>5, <2>6, <2>7
<1>7. CASE StartScan
  <2> USE <1>7 DEF StartScan, taskVars, shedVars
  <2>1. TypeOK'
    BY DEF TypeOK, LoopStates
  <2>2. ScanOnce'
    BY DEF ScanOnce
  <2>3. ShedsTheMostRetried'
    BY DEF ShedsTheMostRetried
  <2>4. /\ StoreKeyed'
        /\ SigDecoded'
        /\ EarlyClean'
        /\ NoOrphan'
        /\ ShedClean'
        /\ RetryLedger'
    BY DEF StoreKeyed, Stored, SigDecoded, EarlyClean, Live, NoOrphan,
       ShedClean, RetryLedger, Handed
  <2> QED BY <2>1, <2>2, <2>3, <2>4
<1>8. ASSUME NEW s \in Signatures, VisitAbsent(s)
      PROVE  Bookkeeping'
  <2> USE <1>8 DEF VisitAbsent, VisitEntry, taskVars, shedVars
  <2>1. TypeOK'
    BY DEF TypeOK
  <2>2. ScanOnce'
    BY DEF ScanOnce
  <2>3. /\ StoreKeyed'
        /\ SigDecoded'
        /\ EarlyClean'
        /\ NoOrphan'
        /\ ShedClean'
        /\ ShedsTheMostRetried'
        /\ RetryLedger'
    BY DEF StoreKeyed, Stored, SigDecoded, EarlyClean, Live, NoOrphan,
       ShedClean, ShedsTheMostRetried, RetryLedger, Handed
  <2> QED BY <2>1, <2>2, <2>3
<1>9. ASSUME NEW s \in Signatures, VisitRetry(s)
      PROVE  Bookkeeping'
  <2> USE <1>9 DEF VisitRetry, VisitEntry, taskVars, shedVars
  <2>1. TypeOK'
    BY DEF TypeOK
  <2>2. EarlyClean'
    BY DEF EarlyClean, Live, StoreKeyed, Stored
  <2>3. ScanOnce'
    BY DEF ScanOnce, StoreKeyed, Stored
  <2>4. RetryLedger'
    BY DEF TypeOK, RetryLedger, Handed, Live, StoreKeyed, Stored, ScanOnce
  <2>5. /\ StoreKeyed'
        /\ SigDecoded'
        /\ NoOrphan'
        /\ ShedClean'
        /\ ShedsTheMostRetried'
    BY DEF StoreKeyed, Stored, SigDecoded, NoOrphan, Live, ShedClean,
       ShedsTheMostRetried
  <2> QED BY <2>1, <2>2, <2>3, <2>4, <2>5
<1>10. ASSUME NEW s \in Signatures, VisitExhausted(s)
      PROVE  Bookkeeping'
  <2> USE <1>10 DEF VisitExhausted, VisitEntry, taskVars, shedVars
  <2>1. TypeOK'
    BY DEF TypeOK
  <2>2. EarlyClean'
    BY DEF EarlyClean, Live, StoreKeyed, Stored
  <2>3. ScanOnce'
    BY DEF ScanOnce, StoreKeyed, Stored
  <2>4. RetryLedger'
    BY DEF TypeOK, RetryLedger, Handed, Live, StoreKeyed, Stored, ScanOnce
  <2>5. /\ StoreKeyed'
        /\ SigDecoded'
        /\ NoOrphan'
        /\ ShedClean'
        /\ ShedsTheMostRetried'
    BY DEF StoreKeyed, Stored, SigDecoded, NoOrphan, Live, ShedClean,
       ShedsTheMostRetried
  <2> QED BY <2>1, <2>2, <2>3, <2>4, <2>5
<1>11. CASE SendBatch
  <2> USE <1>11 DEF SendBatch, taskVars, shedVars
  <2>1. TypeOK'
    BY DEF TypeOK, LoopStates
  <2>2. EarlyClean'
    BY DEF EarlyClean, Live
  <2>3. ScanOnce'
    BY DEF ScanOnce
  <2>4. RetryLedger'
    BY DEF TypeOK, RetryLedger, Handed, Live
  <2>5. /\ StoreKeyed'
        /\ SigDecoded'
        /\ NoOrphan'
        /\ ShedClean'
        /\ ShedsTheMostRetried'
    BY DEF StoreKeyed, Stored, SigDecoded, NoOrphan, Live, ShedClean,
       ShedsTheMostRetried
  <2> QED BY <2>1, <2>2, <2>3, <2>4, <2>5
<1>12. ASSUME NEW s \in Signatures, ReapReached(s)
      PROVE  Bookkeeping'
  <2> USE <1>12 DEF ReapReached, taskVars, shedVars
  <2>1. TypeOK'
    BY DEF TypeOK
  <2>2. StoreKeyed'
    BY DEF StoreKeyed, Stored
  <2>3. NoOrphan'
    BY SenderAssumption DEF NoOrphan, Live
  <2>4. ScanOnce'
    BY DEF ScanOnce
  <2>5. RetryLedger'
    BY SenderAssumption DEF TypeOK, RetryLedger, Handed, Live
  <2>6. SigDecoded' /\ EarlyClean' /\ ShedClean' /\ ShedsTheMostRetried'
    BY SenderAssumption DEF SigDecoded, EarlyClean, Live, ShedClean,
       ShedsTheMostRetried
  <2> QED BY <2>1, <2>2, <2>3, <2>4, <2>5, <2>6
<1>13. CASE Sleep
  <2> USE <1>13 DEF Sleep, taskVars, scanVars
  <2>1. TypeOK'
    BY DEF TypeOK, LoopStates, ShedClean
  <2>2. EarlyClean'
    BY DEF EarlyClean, Live
  <2>3. ScanOnce'
    BY DEF ScanOnce
  <2>4. ShedClean'
    BY DEF ShedClean
  <2>5. /\ StoreKeyed'
        /\ SigDecoded'
        /\ NoOrphan'
        /\ ShedsTheMostRetried'
        /\ RetryLedger'
    BY DEF StoreKeyed, Stored, SigDecoded, NoOrphan, Live,
       ShedsTheMostRetried, RetryLedger, Handed
  <2> QED BY <2>1, <2>2, <2>3, <2>4, <2>5
<1> QED
  BY <1>1, <1>2, <1>3, <1>4, <1>5, <1>6, <1>7, <1>8, <1>9, <1>10, <1>11,
     <1>12, <1>13 DEF RetryLoop

(* Bookkeeping holds in every reachable state, whatever the handlers, the   *)
(* confirmers and the retry loop do between each other's steps.             *)
THEOREM BookkeepingInvariant == Spec => []Bookkeeping
<1>1. Init => Bookkeeping
  BY InitBookkeeping
<1>2. Bookkeeping /\ [Next]_vars => Bookkeeping'
  <2> SUFFICES ASSUME Bookkeeping, [Next]_vars PROVE Bookkeeping'
    OBVIOUS
  <2>1. CASE UNCHANGED vars
    <3> USE <2>1 DEF Bookkeeping, vars, taskVars, loopVars, shedVars, scanVars
    <3>1. TypeOK' /\ StoreKeyed' /\ SigDecoded'
      BY DEF TypeOK, StoreKeyed, SigDecoded, Stored
    <3>2. EarlyClean' /\ NoOrphan' /\ RetryLedger'
      BY DEF EarlyClean, NoOrphan, RetryLedger, Handed, Live
    <3>3. ScanOnce' /\ ShedClean' /\ ShedsTheMostRetried'
      BY DEF ScanOnce, ShedClean, ShedsTheMostRetried, Live
    <3> QED BY <3>1, <3>2, <3>3
  <2>2. CASE Next
    BY <2>2, HandlerKeeps, ConfirmerKeeps, RetryLoopKeeps DEF Next
  <2> QED BY <2>1, <2>2
<1> QED BY <1>1, <1>2, PTL DEF Spec

(* Every variable keeps its type; limit never exceeds what the operator     *)
(* allows, whatever the clients ask for.                                    *)
THEOREM TypeCorrect == Spec => []TypeOK
<1>1. Bookkeeping => TypeOK
  BY DEF Bookkeeping
<1> QED BY <1>1, BookkeepingInvariant, PTL

(* Nothing is left in the store that no task will remove. *)
THEOREM NothingOrphaned == Spec => []NoOrphan
<1>1. Bookkeeping => NoOrphan
  BY DEF Bookkeeping
<1> QED BY <1>1, BookkeepingInvariant, PTL

(* No transaction goes out more often than its retries and once more. *)
THEOREM RetriesBounded == Spec => []RoundsBounded
<1>1. Bookkeeping => RoundsBounded
  BY DEF Bookkeeping, RoundsBounded, RetryLedger, Handed, TypeOK
<1> QED BY <1>1, BookkeepingInvariant, PTL

(* Whoever else inserts and removes, shedding drops the most retried. *)
THEOREM SheddingIsFair == Spec => []ShedsTheMostRetried
<1>1. Bookkeeping => ShedsTheMostRetried
  BY DEF Bookkeeping
<1> QED BY <1>1, BookkeepingInvariant, PTL

-----------------------------------------------------------------------------
(* What shedding leaves.  Of the entries it ranked, all but max_size + 1    *)
(* are noted for removal until they are no longer stored, and a transaction *)
(* that has left the store never returns to it.                             *)
Spared(keep) ==
  /\ IsFiniteSet(keep) /\ Cardinality(keep) <= MaxQueue + 1
  /\ \A r \in snapshot \ keep : r \in doomed \/ ~Live(r)

ShedInv ==
  /\ IsFiniteSet(snapshot)
  /\ loop = "measure" => snapshot = {}
  /\ loop \in {"shed", "scan", "reap"} /\ MaxQueue # None =>
       \E keep \in SUBSET snapshot : Spared(keep)

(* Nobody but the shedding code touches its vectors, and nobody brings a    *)
(* ranked entry back.                                                       *)
LEMMA SparedStay ==
  ASSUME ShedInv, snapshot' = snapshot, doomed' = doomed,
         \A r \in snapshot : Live(r)' => Live(r),
         loop' = "measure" => loop = "measure",
         loop' \in {"shed", "scan", "reap"} => loop \in {"shed", "scan", "reap"}
  PROVE  ShedInv'
<1>1. ASSUME NEW keep \in SUBSET snapshot, Spared(keep) PROVE Spared(keep)'
  BY <1>1 DEF Spared
<1> QED BY <1>1 DEF ShedInv

LEMMA OthersShed ==
  ASSUME Bookkeeping, NEW r \in Requests,
         Refuse(r) \/ Receive(r) \/ HandlerStep(r) \/ ConfirmReturns(r)
  PROVE  /\ snapshot' = snapshot /\ doomed' = doomed /\ loop' = loop
         /\ \A q \in snapshot : Live(q)' => Live(q)
<1> USE DEF Bookkeeping
<1>1. snapshot' = snapshot /\ doomed' = doomed /\ loop' = loop
  BY DEF HandlerStep, Refuse, Receive, CheckStored, InsertTransaction, PriorityPanics,
     SpawnConfirmer, SendToLeaders, ConfirmReturns, loopVars, shedVars
<1>2. handler[r] \in Early => r \notin snapshot
  BY DEF EarlyClean
<1>3. snapshot \subseteq Requests
  BY DEF TypeOK
<1>4. CASE Receive(r)
  <2>1. r \notin snapshot /\ store' = store
    BY <1>2, <1>4 DEF Receive, Early
  <2>2. \A q \in Requests : q # r => sig'[q] = sig[q]
    BY <1>4 DEF Receive, TypeOK
  <2> QED BY <1>1, <1>3, <2>1, <2>2 DEF Live
<1>5. CASE InsertTransaction(r)
  <2>1. r \notin snapshot /\ sig' = sig
    BY <1>2, <1>5 DEF InsertTransaction, Early
  <2>2. \A s \in Signatures : store'[s] = store[s] \/ store'[s] = r
    BY <1>5 DEF InsertTransaction, TypeOK
  <2> QED BY <1>1, <1>3, <2>1, <2>2 DEF Live
<1>6. CASE ConfirmReturns(r)
  <2>1. sig' = sig /\ \A s \in Signatures : store'[s] = store[s] \/ store'[s] = None
    BY <1>6 DEF ConfirmReturns, TypeOK
  <2>2. None \notin Requests
    BY SenderAssumption
  <2> QED BY <1>1, <1>3, <2>1, <2>2 DEF Live
<1>7. CASE Refuse(r) \/ CheckStored(r) \/ PriorityPanics(r) \/ SpawnConfirmer(r)
             \/ SendToLeaders(r)
  <2>1. sig' = sig /\ store' = store
    BY <1>7 DEF Refuse, CheckStored, PriorityPanics, SpawnConfirmer, SendToLeaders
  <2> QED BY <1>1, <2>1 DEF Live
<1> QED BY <1>4, <1>5, <1>6, <1>7 DEF HandlerStep

LEMMA LoopShed ==
  ASSUME Bookkeeping, ShedInv, RetryLoop
  PROVE  ShedInv'
<1> USE DEF Bookkeeping
<1>n. None \notin Requests /\ snapshot \subseteq Requests /\ (MaxQueue # None => MaxQueue \in Nat)
  BY SenderAssumption DEF TypeOK
<1>1. CASE MeasureQueue
  <2>1. /\ snapshot = {} /\ snapshot' = {} /\ loop' \in {"collect", "scan"}
    BY <1>1 DEF MeasureQueue, ShedInv, shedVars
  <2>2. MaxQueue # None => Spared({})'
    BY <1>n, <2>1, FS_EmptySet DEF Spared
  <2> QED BY <2>1, <2>2, FS_EmptySet DEF ShedInv
<1>2. ASSUME NEW s \in Signatures, CollectEntry(s) PROVE ShedInv'
  <2>1. /\ loop' = "collect"
        /\ snapshot' = snapshot \/ snapshot' = snapshot \cup {store[s]}
    BY <1>2 DEF CollectEntry
  <2>2. IsFiniteSet(snapshot')
    BY <2>1, FS_AddElement DEF ShedInv
  <2> QED BY <2>1, <2>2 DEF ShedInv
<1>3. CASE StartShedding
  <2>1. PICK keep \in SUBSET snapshot :
           Cardinality(keep) = MaxQueue + 1 /\ doomed' = snapshot \ keep
    BY <1>3 DEF StartShedding
  <2>2. loop' = "shed" /\ snapshot' = snapshot
    BY <1>3 DEF StartShedding
  <2>3. IsFiniteSet(keep)
    BY FS_Subset DEF ShedInv
  <2>4. MaxQueue # None => Spared(keep)'
    BY <1>n, <2>1, <2>2, <2>3 DEF Spared
  <2> QED BY <2>2, <2>4 DEF ShedInv
<1>4. CASE SlicePanics
  BY <1>4 DEF SlicePanics, shedVars, ShedInv
<1>5. ASSUME NEW r \in Requests, ShedFromStore(r) PROVE ShedInv'
  <2>1. /\ loop' = loop /\ snapshot' = snapshot /\ doomed' = doomed /\ sig' = sig
        /\ \A s \in Signatures : store'[s] = store[s] \/ store'[s] = None
    BY <1>5 DEF ShedFromStore, taskVars, TypeOK
  <2>2. \A q \in snapshot : Live(q)' => Live(q)
    BY <1>n, <2>1 DEF Live
  <2> QED BY <2>1, <2>2, SparedStay
<1>6. CASE ShedFromMap
  <2>1. /\ loop' = loop /\ loop = "shed" /\ snapshot' = snapshot
        /\ doomed' = doomed \ {half} /\ sig' = sig /\ half \in Requests
        /\ store' = [store EXCEPT ![sig[half]] = None]
    BY <1>6, <1>n DEF ShedFromMap, taskVars, TypeOK, ShedClean
  <2>2. \A q \in snapshot : Live(q)' => Live(q) /\ q # half
    BY <1>n, <2>1 DEF Live, TypeOK
  <2>3. ASSUME NEW keep \in SUBSET snapshot, Spared(keep) PROVE Spared(keep)'
    BY <2>1, <2>2, <2>3 DEF Spared
  <2> QED BY <2>1, <2>3 DEF ShedInv
<1>7. CASE StartScan
  <2>1. /\ snapshot' = snapshot /\ doomed' = doomed /\ store' = store /\ sig' = sig
        /\ loop = "shed" /\ loop' = "scan"
    BY <1>7 DEF StartScan, taskVars, shedVars
  <2> QED BY <2>1, SparedStay DEF Live
<1>8. ASSUME NEW s \in Signatures, VisitAbsent(s) \/ VisitRetry(s) \/ VisitExhausted(s)
      PROVE  ShedInv'
  <2>1. /\ snapshot' = snapshot /\ doomed' = doomed /\ store' = store /\ sig' = sig
        /\ loop' = loop
    BY <1>8 DEF VisitAbsent, VisitRetry, VisitExhausted, VisitEntry, taskVars, shedVars
  <2> QED BY <2>1, SparedStay DEF Live
<1>9. CASE SendBatch
  <2>1. /\ snapshot' = snapshot /\ doomed' = doomed /\ store' = store /\ sig' = sig
        /\ loop = "scan" /\ loop' = "reap"
    BY <1>9 DEF SendBatch, taskVars, shedVars
  <2> QED BY <2>1, SparedStay DEF Live
<1>10. ASSUME NEW s \in Signatures, ReapReached(s) PROVE ShedInv'
  <2>1. /\ loop' = loop /\ snapshot' = snapshot /\ doomed' = doomed /\ sig' = sig
        /\ \A t \in Signatures : store'[t] = store[t] \/ store'[t] = None
    BY <1>10 DEF ReapReached, taskVars, shedVars, TypeOK
  <2>2. \A q \in snapshot : Live(q)' => Live(q)
    BY <1>n, <2>1 DEF Live
  <2> QED BY <2>1, <2>2, SparedStay
<1>11. CASE Sleep
  <2>1. snapshot' = {} /\ loop' = "measure"
    BY <1>11 DEF Sleep
  <2> QED BY <2>1, FS_EmptySet DEF ShedInv
<1> QED
  BY <1>1, <1>2, <1>3, <1>4, <1>5, <1>6, <1>7, <1>8, <1>9, <1>10, <1>11 DEF RetryLoop

LEMMA ShedSteps ==
  ASSUME Bookkeeping, ShedInv, [Next]_vars
  PROVE  ShedInv'
<1>1. CASE UNCHANGED vars
  <2>1. /\ snapshot' = snapshot /\ doomed' = doomed /\ loop' = loop
        /\ store' = store /\ sig' = sig
    BY <1>1 DEF vars, taskVars, loopVars, shedVars
  <2> QED BY <2>1, SparedStay DEF Live
<1>2. ASSUME NEW r \in Requests,
             Refuse(r) \/ Receive(r) \/ HandlerStep(r) \/ ConfirmReturns(r)
      PROVE  ShedInv'
  BY <1>2, OthersShed, SparedStay
<1> QED BY <1>1, <1>2, LoopShed DEF Next

(* Once an iteration has shed, at most max_retry_queue_size + 1 of the      *)
(* entries it ranked are stored, whoever else removes or resubmits some.    *)
THEOREM SheddingSuffices == Spec => []ShedExcess
<1>1. Init => ShedInv
  BY FS_EmptySet DEF Init, ShedInv
<1>2. Bookkeeping /\ ShedInv /\ [Next]_vars => ShedInv'
  BY ShedSteps
<1>3. Bookkeeping /\ ShedInv => ShedExcess
  <2> SUFFICES ASSUME Bookkeeping, ShedInv, loop \in {"scan", "reap"}, MaxQueue # None
               PROVE  Cardinality({r \in snapshot : Live(r)}) <= MaxQueue + 1
    BY DEF ShedExcess
  <2>1. PICK keep \in SUBSET snapshot : Spared(keep)
    BY DEF ShedInv
  <2>2. doomed = {}
    BY DEF Bookkeeping, ShedClean
  <2>3. {r \in snapshot : Live(r)} \subseteq keep
    BY <2>1, <2>2 DEF Spared
  <2>4. /\ IsFiniteSet(keep) /\ Cardinality(keep) <= MaxQueue + 1
    BY <2>1 DEF Spared
  <2>5. /\ IsFiniteSet({r \in snapshot : Live(r)})
        /\ Cardinality({r \in snapshot : Live(r)}) <= Cardinality(keep)
    BY <2>3, <2>4, FS_Subset
  <2>6. /\ Cardinality(keep) \in Nat /\ Cardinality({r \in snapshot : Live(r)}) \in Nat
        /\ MaxQueue \in Nat
    BY <2>4, <2>5, FS_CardinalityType, SenderAssumption
  <2> QED BY <2>4, <2>5, <2>6
<1> QED BY <1>1, <1>2, <1>3, BookkeepingInvariant, PTL DEF Spec

-----------------------------------------------------------------------------
(* What stands behind the answer to a duplicate.                            *)
HandedOver(q) == rounds[q] > 0 \/ q \in wire

AtLeaders(q) == handler[q] \in {"spawned", "replied"}

Covers(q) == HandedOver(q) \/ AtLeaders(q) \/ Live(q)

(* The safety half of DuplicateIsSent: for a request answered as a duplicate*)
(* there is, from then on, a request with its signature that is stored, or  *)
(* has been or is being handed to the leaders.  What removes an entry comes *)
(* from such a request.                                                     *)
DuplicateCovered ==
  \A r \in Requests : handler[r] = "duplicate" =>
    \E q \in Requests : sig[q] = sig[r] /\ Covers(q)

ReachedCovered == \A s \in reached : \E q \in Requests : sig[q] = s /\ HandedOver(q)

ConfirmersCovered == \A r \in Requests : confirmer[r] # "none" => AtLeaders(r)

CoverInv ==
  /\ loop \notin {"collect", "shed"}
  /\ ConfirmersCovered
  /\ ReachedCovered
  /\ DuplicateCovered

(* What covers a duplicate is a request that has been decoded.              *)
LEMMA CoversDecoded ==
  ASSUME Bookkeeping, NEW q \in Requests, Covers(q)
  PROVE  handler[q] # "idle" /\ sig[q] \in Signatures
BY SenderAssumption DEF Bookkeeping, EarlyClean, Early, SigDecoded, Covers, HandedOver,
   AtLeaders, TypeOK

(* A step of a handler keeps everybody's cover.                             *)
LEMMA HandlerCovers ==
  ASSUME Bookkeeping, CoverInv, NEW r \in Requests, Refuse(r) \/ Receive(r) \/ HandlerStep(r)
  PROVE  CoverInv'
<1>1. /\ UNCHANGED <<loop, rounds, wire, reached>>
      /\ \A q \in Requests : HandedOver(q)' <=> HandedOver(q)
  BY DEF Refuse, Receive, HandlerStep, CheckStored, InsertTransaction, PriorityPanics,
         SpawnConfirmer, SendToLeaders, loopVars, scanVars, HandedOver
<1>2. /\ handler \in [Requests -> HandlerStates] /\ sig \in [Requests -> Signatures \cup {None}]
      /\ confirmer \in [Requests -> {"none", "waiting", "done"}]
      /\ store \in [Signatures -> Requests \cup {None}]
  BY DEF Bookkeeping, TypeOK
<1>3. \A q \in Requests : handler[q] # "idle" => sig'[q] = sig[q]
  BY <1>2 DEF Refuse, Receive, HandlerStep, CheckStored, InsertTransaction, PriorityPanics,
              SpawnConfirmer, SendToLeaders
<1>4. \A q \in Requests : AtLeaders(q) => AtLeaders(q)'
  BY <1>2 DEF Refuse, Receive, HandlerStep, CheckStored, InsertTransaction, PriorityPanics,
              SpawnConfirmer, SendToLeaders, AtLeaders
<1>5. ConfirmersCovered'
  <2>1. \A q \in Requests : confirmer'[q] = confirmer[q] \/ AtLeaders(q)'
    BY <1>2 DEF Refuse, Receive, HandlerStep, CheckStored, InsertTransaction, PriorityPanics,
                SpawnConfirmer, SendToLeaders, AtLeaders
  <2> QED BY <1>4, <2>1 DEF CoverInv, ConfirmersCovered
<1>6. ReachedCovered'
  <2> SUFFICES ASSUME NEW s \in reached PROVE \E q \in Requests : sig'[q] = s /\ HandedOver(q)'
    BY <1>1 DEF ReachedCovered
  <2>1. PICK q \in Requests : sig[q] = s /\ HandedOver(q)
    BY DEF CoverInv, ReachedCovered
  <2> QED BY <1>1, <1>3, <2>1, CoversDecoded DEF Covers
<1>7. ASSUME NEW q \in Requests, Covers(q)
      PROVE  \E p \in Requests : sig'[p] = sig[q] /\ Covers(p)'
  <2>1. handler[q] # "idle" /\ sig[q] \in Signatures /\ sig'[q] = sig[q]
    BY <1>3, <1>7, CoversDecoded
  <2>2. CASE HandedOver(q) \/ AtLeaders(q)
    BY <1>1, <1>4, <2>1, <2>2 DEF Covers
  <2>3. CASE Live(q)
    <3>1. CASE InsertTransaction(r) /\ sig[r] = sig[q]
      <4>1. store'[sig[r]] = r /\ sig' = sig
        BY <1>2, <2>1, <3>1 DEF InsertTransaction
      <4>2. Live(r)'
        BY <2>1, <3>1, <4>1 DEF Live
      <4> QED BY <3>1, <4>1, <4>2 DEF Covers
    <3>2. CASE ~(InsertTransaction(r) /\ sig[r] = sig[q])
      <4>1. store'[sig[q]] = store[sig[q]]
        BY <1>2, <2>1, <3>2 DEF Refuse, Receive, HandlerStep, CheckStored, InsertTransaction,
           PriorityPanics, SpawnConfirmer, SendToLeaders
      <4>2. Live(q)'
        BY <2>1, <2>3, <4>1 DEF Live
      <4> QED BY <2>1, <4>2 DEF Covers
    <3> QED BY <3>1, <3>2
  <2> QED BY <1>7, <2>2, <2>3 DEF Covers
<1>8. DuplicateCovered'
  <2> SUFFICES ASSUME NEW d \in Requests, handler'[d] = "duplicate"
               PROVE  \E p \in Requests : sig'[p] = sig'[d] /\ Covers(p)'
    BY DEF DuplicateCovered
  <2>1. CASE handler[d] = "duplicate"
    <3>1. PICK q \in Requests : sig[q] = sig[d] /\ Covers(q)
      BY <2>1 DEF CoverInv, DuplicateCovered
    <3>2. sig'[d] = sig[d]
      BY <1>3, <2>1
    <3> QED BY <1>7, <3>1, <3>2
  <2>2. CASE handler[d] # "duplicate"
    <3>1. d = r /\ Receive(r)
      BY <1>2, <2>2 DEF Refuse, Receive, HandlerStep, CheckStored, InsertTransaction,
         PriorityPanics, SpawnConfirmer, SendToLeaders
    <3>2. PICK s \in Signatures :
             /\ sig' = [sig EXCEPT ![r] = s]
             /\ handler' = [handler EXCEPT ![r] = IF s \in Stored THEN "duplicate" ELSE "unseen"]
      BY <3>1 DEF Receive
    <3>3. s \in Stored /\ sig'[d] = s
      BY <1>2, <2>2, <3>1, <3>2
    <3>4. store[s] \in Requests /\ sig[store[s]] = s /\ Live(store[s])
      BY <1>2, <3>3 DEF Bookkeeping, StoreKeyed, Stored, Live
    <3> QED BY <1>7, <3>3, <3>4 DEF Covers
  <2> QED BY <2>1, <2>2
<1> QED BY <1>1, <1>5, <1>6, <1>8 DEF CoverInv

(* Every other step: who was covered by an entry that goes is covered by    *)
(* the request it goes for.                                                 *)
LEMMA OthersCover ==
  ASSUME Bookkeeping, CoverInv, UNCHANGED <<handler, sig>>, loop' \notin {"collect", "shed"},
         ConfirmersCovered', ReachedCovered',
         \A q \in Requests : HandedOver(q) => HandedOver(q)',
         \A s \in Signatures : store'[s] # store[s] =>
           \E p \in Requests : sig[p] = s /\ (HandedOver(p)' \/ AtLeaders(p))
  PROVE  CoverInv'
<1>1. ASSUME NEW q \in Requests, Covers(q)
      PROVE  \E p \in Requests : sig'[p] = sig[q] /\ Covers(p)'
  <2>1. sig[q] \in Signatures
    BY <1>1, CoversDecoded
  <2>2. CASE HandedOver(q) \/ AtLeaders(q)
    BY <2>2 DEF Covers, AtLeaders
  <2>3. CASE Live(q) /\ store'[sig[q]] = store[sig[q]]
    BY <2>1, <2>3 DEF Covers, Live
  <2>4. CASE store'[sig[q]] # store[sig[q]]
    BY <2>1, <2>4 DEF Covers, AtLeaders
  <2> QED BY <1>1, <2>2, <2>3, <2>4 DEF Covers
<1>2. DuplicateCovered'
  BY <1>1 DEF CoverInv, DuplicateCovered
<1> QED BY <1>2 DEF CoverInv

LEMMA ConfirmerCovers ==
  ASSUME Bookkeeping, CoverInv, NEW r \in Requests, ConfirmReturns(r)
  PROVE  CoverInv'
<1>1. /\ confirmer[r] = "waiting" /\ confirmer' = [confirmer EXCEPT ![r] = "done"]
      /\ store' = [store EXCEPT ![sig[r]] = None]
      /\ UNCHANGED <<handler, sig, loop, rounds, wire, reached>>
      /\ confirmer \in [Requests -> {"none", "waiting", "done"}]
      /\ store \in [Signatures -> Requests \cup {None}]
  BY DEF ConfirmReturns, loopVars, scanVars, Bookkeeping, TypeOK
<1>2. ConfirmersCovered' /\ AtLeaders(r)
  BY <1>1 DEF CoverInv, ConfirmersCovered, AtLeaders
<1>3. ReachedCovered' /\ \A q \in Requests : HandedOver(q) => HandedOver(q)'
  BY <1>1 DEF CoverInv, ReachedCovered, HandedOver
<1>4. \A s \in Signatures : store'[s] # store[s] => s = sig[r]
  BY <1>1
<1> QED BY <1>1, <1>2, <1>3, <1>4, OthersCover DEF CoverInv

LEMMA RetryLoopCovers ==
  ASSUME MaxQueue = None, Bookkeeping, CoverInv, RetryLoop
  PROVE  CoverInv'
<1>0. /\ loop \notin {"collect", "shed"}
      /\ store \in [Signatures -> Requests \cup {None}]
      /\ rounds \in [Requests -> Nat] /\ StoreKeyed /\ ScanOnce
  BY DEF CoverInv, Bookkeeping, TypeOK
<1>1. UNCHANGED taskVars
  BY DEF RetryLoop, MeasureQueue, CollectEntry, StartShedding, SlicePanics,
         ShedFromStore, ShedFromMap, StartScan, VisitAbsent, VisitRetry,
         VisitExhausted, VisitEntry, SendBatch, ReapReached, Sleep
<1>2. UNCHANGED <<handler, sig>> /\ ConfirmersCovered'
  BY <1>1 DEF taskVars, CoverInv, ConfirmersCovered, AtLeaders
<1>3. CASE MeasureQueue \/ Sleep
  <2>1. UNCHANGED <<store, rounds, wire, reached>> /\ loop' \notin {"collect", "shed"}
    BY <1>3 DEF MeasureQueue, Sleep, scanVars
  <2>2. ReachedCovered' /\ \A q \in Requests : HandedOver(q) => HandedOver(q)'
    BY <1>2, <2>1 DEF CoverInv, ReachedCovered, HandedOver
  <2> QED BY <1>2, <2>1, <2>2, OthersCover
<1>4. ASSUME NEW s \in Signatures, VisitAbsent(s) \/ VisitRetry(s) \/ VisitExhausted(s)
      PROVE  CoverInv'
  <2>1. UNCHANGED <<store, rounds, loop>> /\ wire \subseteq wire'
    BY <1>4 DEF VisitAbsent, VisitRetry, VisitExhausted, VisitEntry
  <2>2. \/ reached' = reached
        \/ /\ reached' = reached \cup {s} /\ store[s] # None /\ store[s] \in wire'
    BY <1>4 DEF VisitAbsent, VisitRetry, VisitExhausted
  <2>3. \A q \in Requests : HandedOver(q) => HandedOver(q)'
    BY <2>1 DEF HandedOver
  <2>4. ReachedCovered'
    <3> SUFFICES ASSUME NEW t \in reached' PROVE \E q \in Requests : sig[q] = t /\ HandedOver(q)'
      BY <1>2 DEF ReachedCovered
    <3>1. CASE t \in reached
      BY <2>3, <3>1 DEF CoverInv, ReachedCovered
    <3>2. CASE t \notin reached
      <4>1. t = s /\ store[s] # None /\ store[s] \in wire'
        BY <2>2, <3>2
      <4>2. store[s] \in Requests /\ sig[store[s]] = s
        BY <1>0, <4>1 DEF StoreKeyed, Stored
      <4> QED BY <4>1, <4>2 DEF HandedOver
    <3> QED BY <3>1, <3>2
  <2> QED BY <1>0, <1>2, <2>1, <2>3, <2>4, OthersCover
<1>5. CASE SendBatch
  <2>1. /\ rounds' = [r \in Requests |-> IF r \in wire THEN rounds[r] + 1 ELSE rounds[r]]
        /\ UNCHANGED <<store, reached>> /\ loop' = "reap"
    BY <1>5 DEF SendBatch
  <2>2. \A q \in Requests : HandedOver(q) => HandedOver(q)'
    BY <1>0, <2>1 DEF HandedOver
  <2>3. ReachedCovered'
    BY <1>2, <2>1, <2>2 DEF CoverInv, ReachedCovered
  <2> QED BY <1>2, <2>1, <2>2, <2>3, OthersCover
<1>6. ASSUME NEW s \in Signatures, ReapReached(s) PROVE CoverInv'
  <2>1. /\ s \in reached /\ store' = [store EXCEPT ![s] = None] /\ reached' = reached \ {s}
        /\ UNCHANGED <<rounds, wire, loop>>
    BY <1>6 DEF ReapReached
  <2>2. \A q \in Requests : HandedOver(q) => HandedOver(q)'
    BY <2>1 DEF HandedOver
  <2>3. ReachedCovered'
    BY <1>2, <2>1, <2>2 DEF CoverInv, ReachedCovered
  <2>4. \E q \in Requests : sig[q] = s /\ HandedOver(q)'
    BY <2>1, <2>2 DEF CoverInv, ReachedCovered
  <2>5. \A t \in Signatures : store'[t] # store[t] => t = s
    BY <1>0, <2>1
  <2> QED BY <1>0, <1>2, <2>1, <2>2, <2>3, <2>4, <2>5, OthersCover
<1> QED BY <1>0, <1>3, <1>4, <1>5, <1>6 DEF RetryLoop, CollectEntry, StartShedding, SlicePanics,
           ShedFromStore, ShedFromMap, StartScan

(* Without shedding no duplicate is answered for a transaction that is then *)
(* forgotten unsent, whoever removes or overwrites its entry.               *)
THEOREM DuplicatesStayCovered ==
  ASSUME MaxQueue = None
  PROVE  Spec => []DuplicateCovered
<1>1. Init => CoverInv
  BY DEF Init, CoverInv, ConfirmersCovered, ReachedCovered, DuplicateCovered
<1>2. Bookkeeping /\ CoverInv /\ [Next]_vars => CoverInv'
  <2> SUFFICES ASSUME Bookkeeping, CoverInv, [Next]_vars PROVE CoverInv'
    OBVIOUS
  <2>1. CASE UNCHANGED vars
    BY <2>1 DEF vars, taskVars, loopVars, scanVars, CoverInv, ConfirmersCovered, ReachedCovered,
       DuplicateCovered, Covers, HandedOver, AtLeaders, Live
  <2> QED BY <2>1, HandlerCovers, ConfirmerCovers, RetryLoopCovers DEF Next
<1>3. CoverInv => DuplicateCovered
  BY DEF CoverInv
<1> QED BY <1>1, <1>2, <1>3, BookkeepingInvariant, PTL DEF Spec
=============================================================================
