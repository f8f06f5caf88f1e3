------------------------ MODULE TxnSender_refinement ------------------------
(***************************************************************************)
(* The proof that the tasks of TxnSender implement RetryContract: each of  *)
(* their steps refuses, declines, opens, resends or closes requests, or    *)
(* leaves the contract's view of them alone.                               *)
(***************************************************************************)
EXTENDS TxnSender_proof

ContractStep == [Contract!ContractNext]_(Contract!contractVars)

(* A request whose entry is stored or in the batch is past the early states,*)
(* so its stage is open; the stage of an early one is new, refused or, for  *)
(* a duplicate, closed.                                                     *)
LEMMA StageCases ==
  ASSUME Bookkeeping, NEW r \in Requests
  PROVE  /\ Live(r) \/ r \in wire => handler[r] \notin Early /\ Stage(r) = "open"
         /\ handler[r] = "refused" => Stage(r) = "refused"
         /\ handler[r] \in {"idle", "unseen", "missing"} => Stage(r) = "new"
         /\ ~(Live(r) \/ r \in wire)
              /\ handler[r] \notin {"refused", "idle", "unseen", "missing"} =>
                Stage(r) = "closed"
<1>1. Live(r) \/ r \in wire => handler[r] \notin Early
  BY DEF Bookkeeping, EarlyClean
<1> QED BY <1>1 DEF Stage, Early

(* The other way round: what a stage tells of a request. *)
LEMMA StageMeans ==
  ASSUME Bookkeeping, NEW r \in Requests
  PROVE  /\ Stage(r) \in {"new", "refused", "open", "closed"}
         /\ Stage(r) = "open" => Live(r) \/ r \in wire
BY DEF Stage

(* The view of a step that changes no stage and no limit in use. *)
LEMMA SameView ==
  ASSUME \A r \in Requests : Stage(r)' = Stage(r),
         \A r \in Requests : Stage(r) \notin {"new", "refused"} =>
           limit'[r] = limit[r] /\ sig'[r] = sig[r],
         rounds' = rounds
  PROVE  ContractStep
<1>1. Stages' = Stages
  BY DEF Stages
<1>2. Budgets' = Budgets
  BY DEF Budgets
<1>3. Known' = Known
  BY DEF Known
<1> QED BY <1>1, <1>2, <1>3 DEF ContractStep, Contract!contractVars

(* An early request is closed in favour of an entry with its signature.     *)
LEMMA DeclineStep ==
  ASSUME Bookkeeping, Bookkeeping', NEW r \in Requests,
         handler[r] \in {"idle", "unseen"}, handler'[r] \in {"duplicate", "tracked"},
         ~Live(r)', wire' = wire,
         \A q \in Requests \ {r} :
           /\ handler'[q] = handler[q] /\ (Live(q)' <=> Live(q))
           /\ limit'[q] = limit[q] /\ sig'[q] = sig[q],
         rounds' = rounds,
         NEW o \in Requests, Live(o), sig'[r] = sig[o]
  PROVE  ContractStep
<1>1. Stage(r) = "new" /\ Stage(o) = "open"
  BY StageCases
<1>2. Stage(r)' = "closed"
  BY <1>1, StageCases DEF Stage
<1>3. \A q \in Requests \ {r} : Stage(q)' = Stage(q)
  BY DEF Stage
<1>4. limit'[r] \in 0..MaxSendRetries
  BY DEF Bookkeeping, TypeOK
<1>5. Stages' = [Stages EXCEPT ![r] = "closed"]
  BY <1>2, <1>3 DEF Stages
<1>6. Budgets' = [Budgets EXCEPT ![r] = limit'[r]]
  BY <1>2, <1>3 DEF Budgets
<1>7. Known' = [Known EXCEPT ![r] = sig[o]]
  BY <1>2, <1>3 DEF Known
<1>8. sig[o] \in Signatures /\ o \in Contract!Rivals(sig[o])
  BY <1>1 DEF Live, Contract!Rivals, Stages, Known
<1>9. Contract!Decline(r)
  BY <1>1, <1>4, <1>5, <1>6, <1>7, <1>8 DEF Contract!Decline, Stages
<1> QED BY <1>9 DEF ContractStep, Contract!ContractNext

(* A removal of the entry under a key closes it, unless the batch under way *)
(* still holds it or there is none.                                         *)
LEMMA RemovalStep ==
  ASSUME Bookkeeping, Bookkeeping', NEW s \in Signatures,
         store' = [store EXCEPT ![s] = None],
         UNCHANGED <<handler, sig, limit, wire, rounds>>
  PROVE  ContractStep
<1> USE DEF Bookkeeping
<1>1. \A q \in Requests : Live(q)' <=> Live(q) /\ sig[q] # s
  BY SenderAssumption DEF TypeOK, Live
<1>2. CASE \E r \in Requests : Live(r) /\ sig[r] = s /\ r \notin wire
  <2>1. PICK r \in Requests : Live(r) /\ sig[r] = s /\ r \notin wire
    BY <1>2
  <2>2. \A q \in Requests \ {r} : Live(q)' <=> Live(q)
    BY <1>1, <2>1 DEF Live
  <2>3. Stage(r) = "open" /\ Stage(r)' = "closed"
    BY <1>1, <2>1, StageCases DEF Stage, Early
  <2>4. \A q \in Requests \ {r} : Stage(q)' = Stage(q)
    BY <2>2 DEF Stage
  <2>5. Stages' = [Stages EXCEPT ![r] = "closed"]
    BY <2>3, <2>4 DEF Stages
  <2>6. Budgets' = Budgets /\ Known' = Known
    BY <2>3, <2>4 DEF Budgets, Known
  <2>7. Contract!Close(r)
    BY <2>3, <2>5, <2>6 DEF Contract!Close, Stages
  <2> QED BY <2>7 DEF ContractStep, Contract!ContractNext
<1>3. CASE \A r \in Requests : Live(r) /\ sig[r] = s => r \in wire
  <2>1. \A q \in Requests : Stage(q)' = Stage(q)
    BY <1>1, <1>3 DEF Stage
  <2> QED BY <2>1, SameView
<1> QED BY <1>2, <1>3

(* An insert opens its request and closes the one whose entry it overwrites *)
(* unless the batch under way still holds that.                             *)
LEMMA InsertStep ==
  ASSUME Bookkeeping, Bookkeeping', NEW r \in Requests, InsertTransaction(r)
  PROVE  ContractStep
<1> USE DEF Bookkeeping
<1> DEFINE displaced == {o \in Requests : Live(o) /\ sig[o] = sig[r] /\ o \notin wire}
<1>1. /\ handler[r] = "missing" /\ sig[r] \in Signatures
      /\ handler' = [handler EXCEPT ![r] = "tracked"]
      /\ store' = [store EXCEPT ![sig[r]] = r]
      /\ sig' = sig /\ limit' = limit /\ wire' = wire /\ rounds' = rounds
  BY DEF InsertTransaction, SigDecoded, loopVars, scanVars
<1>2. \A q \in Requests \ {r} : Live(q)' <=> Live(q) /\ sig[q] # sig[r]
  BY <1>1 DEF TypeOK, Live
<1>3. Live(r)'
  BY <1>1 DEF TypeOK, Live
<1>4. Stage(r) = "new" /\ Stage(r)' = "open"
  <2>1. Stage(r) = "new"
    BY <1>1, StageCases
  <2>2. Stage(r)' = "open"
    BY <1>1, <1>3 DEF Stage, TypeOK
  <2> QED BY <2>1, <2>2
<1>5. \A o \in displaced : o # r /\ Stage(o) = "open" /\ Stage(o)' = "closed"
  <2> SUFFICES ASSUME NEW o \in displaced
               PROVE  o # r /\ Stage(o) = "open" /\ Stage(o)' = "closed"
    OBVIOUS
  <2>1. Stage(o) = "open" /\ handler[o] \notin Early
    BY StageCases
  <2>2. o # r
    BY <1>4, <2>1
  <2>3. ~Live(o)' /\ o \notin wire' /\ handler'[o] = handler[o]
    BY <1>1, <1>2, <2>2 DEF TypeOK
  <2> QED BY <2>1, <2>2, <2>3 DEF Stage, Early
<1>6. \A q \in Requests \ (displaced \cup {r}) : Stage(q)' = Stage(q)
  BY <1>1, <1>2 DEF TypeOK, Stage
<1> HIDE DEF displaced
<1>7. displaced \subseteq Contract!Rivals(sig[r])
  BY <1>5 DEF Stages, Known, displaced, Contract!Rivals
<1>a. Known' = [Known EXCEPT ![r] = sig[r]]
  BY <1>1, <1>4, <1>5, <1>6 DEF Known
<1>8. Stages' = [o \in Requests |-> IF o = r THEN "open"
                                    ELSE IF o \in displaced THEN "closed" ELSE Stages[o]]
  BY <1>4, <1>5, <1>6 DEF Stages
<1>9. limit[r] \in 0..MaxSendRetries /\ Budgets' = [Budgets EXCEPT ![r] = limit[r]]
  <2>1. limit[r] \in 0..MaxSendRetries
    BY DEF TypeOK
  <2>2. ASSUME NEW q \in Requests
        PROVE  Budgets'[q] = IF q = r THEN limit[r] ELSE Budgets[q]
    <3>1. CASE q = r
      BY <1>1, <1>4, <3>1 DEF Budgets
    <3>2. CASE q \in displaced
      BY <1>1, <1>5, <3>2 DEF Budgets
    <3>3. CASE q \in Requests \ (displaced \cup {r})
      BY <1>1, <1>6, <3>3 DEF Budgets
    <3> QED BY <3>1, <3>2, <3>3
  <2> QED BY <2>1, <2>2 DEF Budgets
<1>10. Contract!Open(r, displaced)
  BY <1>1, <1>4, <1>7, <1>8, <1>9, <1>a DEF Contract!Open, Stages
<1>11. displaced \in SUBSET Requests
  BY DEF displaced
<1> QED BY <1>10, <1>11 DEF ContractStep, Contract!ContractNext

(* A step that touches neither the store, nor the batch, nor what was sent, *)
(* and leaves every handler on the same side of add_transaction.            *)
LEMMA QuietStep ==
  ASSUME store' = store, sig' = sig, limit' = limit, wire' = wire, rounds' = rounds,
         \A q \in Requests : \/ handler'[q] = handler[q]
                             \/ {handler'[q], handler[q]} \subseteq {"idle", "unseen", "missing"}
                             \/ {handler'[q], handler[q]} \subseteq HandlerStates \ Early
  PROVE  ContractStep
<1>1. \A q \in Requests : Stage(q)' = Stage(q)
  BY DEF Stage, Live, HandlerStates, Early
<1> QED BY <1>1, SameView

(* A request that is refused goes no further. *)
LEMMA RefuseStep ==
  ASSUME Bookkeeping, Bookkeeping', NEW r \in Requests, Refuse(r)
  PROVE  ContractStep
<1>1. /\ handler[r] = "idle" /\ handler'[r] = "refused"
      /\ \A q \in Requests \ {r} : handler'[q] = handler[q]
      /\ store' = store /\ sig' = sig /\ limit' = limit /\ wire' = wire /\ rounds' = rounds
  BY DEF Bookkeeping, TypeOK, Refuse, loopVars, scanVars
<1>2. Stage(r) = "new" /\ Stage(r)' = "refused"
  BY <1>1, StageCases DEF Stage, Live
<1>3. \A q \in Requests \ {r} : Stage(q)' = Stage(q)
  BY <1>1 DEF Stage, Live
<1>4. Stages' = [Stages EXCEPT ![r] = "refused"] /\ UNCHANGED <<Budgets, Known>>
  BY <1>1, <1>2, <1>3 DEF Stages, Budgets, Known
<1>5. Contract!Refuse(r)
  BY <1>1, <1>2, <1>4 DEF Contract!Refuse, Stages
<1> QED BY <1>5 DEF ContractStep, Contract!ContractNext

(* What is under a key that is stored is an open request's entry. *)
LEMMA StoredIsLive ==
  ASSUME Bookkeeping, NEW s \in Stored
  PROVE  store[s] \in Requests /\ Live(store[s]) /\ sig[store[s]] = s
BY DEF Bookkeeping, TypeOK, StoreKeyed, Stored, Live

(* has_signature declines a request whose signature is stored. *)
LEMMA ReceiveStep ==
  ASSUME Bookkeeping, Bookkeeping', NEW r \in Requests, Receive(r)
  PROVE  ContractStep
<1> USE DEF Bookkeeping
<1>1. PICK s \in Signatures : /\ sig' = [sig EXCEPT ![r] = s]
                              /\ handler' = [handler EXCEPT ![r] =
                                   IF s \in Stored THEN "duplicate" ELSE "unseen"]
  BY DEF Receive
<1>2. /\ handler[r] = "idle" /\ store' = store /\ wire' = wire /\ rounds' = rounds
      /\ \A q \in Requests \ {r} : limit'[q] = limit[q] /\ sig'[q] = sig[q]
  BY DEF Receive, TypeOK, loopVars, scanVars
<1>3. \A q \in Requests \ {r} : handler'[q] = handler[q] /\ (Live(q)' <=> Live(q))
  BY <1>1, <1>2 DEF TypeOK, Live
<1>4. handler'[r] \in {"duplicate", "unseen"} /\ ~Live(r)'
  BY <1>1 DEF TypeOK, EarlyClean, Early
<1>5. CASE s \in Stored
  <2>1. handler'[r] = "duplicate" /\ sig'[r] = s
    BY <1>1, <1>5 DEF TypeOK
  <2> QED BY <1>2, <1>3, <1>4, <1>5, <2>1, StoredIsLive, DeclineStep
<1>6. CASE s \notin Stored
  <2>1. handler'[r] = "unseen"
    BY <1>1, <1>6 DEF TypeOK
  <2>2. Stage(r) = "new" /\ Stage(r)' = "new"
    BY <1>2, <1>4, <2>1, StageCases DEF EarlyClean, Early, Stage
  <2>3. \A q \in Requests \ {r} : Stage(q)' = Stage(q)
    BY <1>2, <1>3 DEF Stage
  <2> QED BY <1>2, <2>2, <2>3, SameView
<1> QED BY <1>5, <1>6

(* contains_key declines in the same way. *)
LEMMA CheckStep ==
  ASSUME Bookkeeping, Bookkeeping', NEW r \in Requests, CheckStored(r)
  PROVE  ContractStep
<1> USE DEF Bookkeeping
<1>1. /\ handler[r] = "unseen" /\ sig[r] \in Signatures
      /\ handler' = [handler EXCEPT ![r] = IF sig[r] \in Stored THEN "tracked" ELSE "missing"]
      /\ store' = store /\ sig' = sig /\ limit' = limit /\ wire' = wire /\ rounds' = rounds
  BY DEF CheckStored, SigDecoded, loopVars, scanVars
<1>2. CASE sig[r] \in Stored
  <2>1. \A q \in Requests : Live(q)' <=> Live(q)
    BY <1>1 DEF Live
  <2>2. ~Live(r)
    BY <1>1 DEF EarlyClean, Early
  <2>3. handler'[r] = "tracked" /\ \A q \in Requests \ {r} : handler'[q] = handler[q]
    BY <1>1, <1>2 DEF TypeOK
  <2> QED BY <1>1, <1>2, <2>1, <2>2, <2>3, StoredIsLive, DeclineStep
<1>3. CASE sig[r] \notin Stored
  <2>1. handler'[r] = "missing" /\ \A q \in Requests \ {r} : handler'[q] = handler[q]
    BY <1>1, <1>3 DEF TypeOK
  <2> QED BY <1>1, <2>1, QuietStep
<1> QED BY <1>2, <1>3

(* Each step of a handler and of a confirmer is one of the contract's. *)
LEMMA RequestRefines ==
  ASSUME Bookkeeping, Bookkeeping', NEW r \in Requests,
         Refuse(r) \/ Receive(r) \/ HandlerStep(r) \/ ConfirmReturns(r)
  PROVE  ContractStep
<1>1. CASE Refuse(r)
  BY <1>1, RefuseStep
<1>2. CASE Receive(r)
  BY <1>2, ReceiveStep
<1>3. CASE CheckStored(r)
  BY <1>3, CheckStep
<1>4. CASE InsertTransaction(r)
  BY <1>4, InsertStep
<1>5. CASE PriorityPanics(r) \/ SpawnConfirmer(r) \/ SendToLeaders(r)
  <2>1. \A q \in Requests : handler'[q] = handler[q]
          \/ {handler'[q], handler[q]} \subseteq HandlerStates \ Early
    BY <1>5 DEF PriorityPanics, SpawnConfirmer, SendToLeaders, Bookkeeping, TypeOK,
                HandlerStates, Early
  <2>2. store' = store /\ sig' = sig /\ limit' = limit /\ wire' = wire /\ rounds' = rounds
    BY <1>5 DEF PriorityPanics, SpawnConfirmer, SendToLeaders, loopVars, scanVars
  <2> QED BY <2>1, <2>2, QuietStep
<1>6. CASE ConfirmReturns(r)
  <2>1. confirmer[r] = "waiting" /\ store' = [store EXCEPT ![sig[r]] = None]
          /\ UNCHANGED <<handler, sig, limit, wire, rounds>>
    BY <1>6 DEF ConfirmReturns, loopVars, scanVars
  <2>2. sig[r] \in Signatures
    BY <2>1 DEF Bookkeeping, EarlyClean, SigDecoded, Early
  <2> QED BY <2>1, <2>2, RemovalStep
<1> QED BY <1>1, <1>2, <1>3, <1>4, <1>5, <1>6 DEF HandlerStep

(* A batch is one round of the contract: every transaction in it is open    *)
(* and within its budget.                                                   *)
LEMMA BatchStep ==
  ASSUME Bookkeeping, Bookkeeping', SendBatch
  PROVE  ContractStep
<1> USE DEF Bookkeeping
<1> DEFINE finished == {r \in wire : ~Live(r)}
<1>1. /\ rounds' = [r \in Requests |-> IF r \in wire THEN rounds[r] + 1 ELSE rounds[r]]
      /\ wire' = {} /\ handler' = handler /\ sig' = sig /\ limit' = limit /\ store' = store
      /\ wire \subseteq Requests
  BY DEF SendBatch, taskVars, TypeOK
<1>2. \A r \in Requests : Live(r)' <=> Live(r)
  BY <1>1 DEF Live
<1>3. \A r \in finished : Stage(r) = "open" /\ Stage(r)' = "closed"
  BY <1>1, <1>2, StageCases DEF Stage, Early
<1>4. \A r \in Requests \ finished : Stage(r)' = Stage(r)
  BY <1>1, <1>2 DEF Stage
<1>5. \A r \in wire : Stage(r) = "open" /\ rounds[r] <= limit[r]
  <2> SUFFICES ASSUME NEW r \in wire PROVE Stage(r) = "open" /\ rounds[r] <= limit[r]
    OBVIOUS
  <2>1. rounds[r] \in Nat /\ retry_count[r] \in Nat /\ limit[r] \in Nat
    BY <1>1, SenderAssumption DEF TypeOK
  <2>2. Handed(r) = rounds[r] + 1
    BY DEF Handed
  <2>3. Handed(r) <= limit[r] + 1
    BY <1>1, <2>1, <2>2 DEF RetryLedger
  <2> QED BY <1>1, <2>1, <2>2, <2>3, StageCases
<1>6. Stages' = [r \in Requests |-> IF r \in finished THEN "closed" ELSE Stages[r]]
  BY <1>3, <1>4 DEF Stages
<1>7. Budgets' = Budgets /\ Known' = Known
  BY <1>1, <1>3, <1>4 DEF Budgets, Known
<1>8. \A r \in wire : Stages[r] = "open" /\ rounds[r] <= Budgets[r]
  BY <1>1, <1>5 DEF Stages, Budgets
<1>9. Contract!Resend(wire, finished)
  BY <1>1, <1>6, <1>7, <1>8 DEF Contract!Resend
<1>10. wire \in SUBSET Requests /\ finished \in SUBSET wire
  BY <1>1
<1> QED BY <1>9, <1>10 DEF ContractStep, Contract!ContractNext

(* Each step of the retry loop is one of the contract's. *)
LEMMA LoopRefines ==
  ASSUME Bookkeeping, Bookkeeping', RetryLoop
  PROVE  ContractStep
<1> USE DEF Bookkeeping
<1>1. CASE MeasureQueue \/ StartShedding \/ SlicePanics \/ StartScan \/ Sleep
           \/ (\E s \in Signatures : CollectEntry(s) \/ VisitAbsent(s))
  <2>1. /\ handler' = handler /\ store' = store /\ sig' = sig /\ limit' = limit
        /\ wire' = wire /\ rounds' = rounds
    BY <1>1 DEF MeasureQueue, StartShedding, SlicePanics, StartScan, Sleep, CollectEntry,
                VisitAbsent, VisitEntry, taskVars, shedVars, scanVars
  <2> QED BY <2>1, QuietStep
<1>2. ASSUME NEW s \in Signatures, VisitRetry(s) \/ VisitExhausted(s)
      PROVE  ContractStep
  <2>1. /\ handler' = handler /\ store' = store /\ sig' = sig /\ limit' = limit
        /\ wire' = wire \cup {store[s]} /\ rounds' = rounds /\ s \in Stored
    BY <1>2 DEF VisitRetry, VisitExhausted, VisitEntry, taskVars, shedVars, Stored
  <2>2. Live(store[s])
    BY <2>1, StoredIsLive
  <2>3. \A q \in Requests : Stage(q)' = Stage(q)
    BY <2>1, <2>2 DEF Stage, Live
  <2> QED BY <2>1, <2>3, SameView
<1>3. ASSUME NEW r \in Requests, ShedFromStore(r) PROVE ContractStep
  <2>1. sig[r] \in Signatures
    BY <1>3 DEF ShedFromStore, TypeOK, EarlyClean, SigDecoded, Early
  <2> QED BY <1>3, <2>1, RemovalStep DEF ShedFromStore, taskVars, scanVars
<1>4. CASE ShedFromMap
  <2>1. half \in Requests /\ sig[half] \in Signatures
    BY <1>4 DEF ShedFromMap, ShedClean, TypeOK, EarlyClean, SigDecoded, Early
  <2> QED BY <1>4, <2>1, RemovalStep DEF ShedFromMap, taskVars, scanVars
<1>5. CASE SendBatch
  BY <1>5, BatchStep
<1>6. ASSUME NEW s \in Signatures, ReapReached(s) PROVE ContractStep
  BY <1>6, RemovalStep DEF ReapReached, taskVars, shedVars
<1> QED BY <1>1, <1>2, <1>3, <1>4, <1>5, <1>6 DEF RetryLoop

(* The handlers, confirmers and the retry loop together implement what the  *)
(* service promises about retrying.                                         *)
THEOREM RefinesContract == Spec => ImplementsContract
<1>1. Init => Contract!ContractInit
  <2> SUFFICES ASSUME Init PROVE Contract!ContractInit
    OBVIOUS
  <2>1. \A r \in Requests : Stage(r) = "new"
    BY InitBookkeeping, StageCases DEF Init
  <2> QED BY <2>1 DEF Init, Stages, Budgets, Known, Contract!ContractInit
<1>2. Bookkeeping /\ Bookkeeping' /\ [Next]_vars => ContractStep
  <2> SUFFICES ASSUME Bookkeeping, Bookkeeping', [Next]_vars PROVE ContractStep
    OBVIOUS
  <2>1. CASE UNCHANGED vars
    <3>1. /\ handler' = handler /\ store' = store /\ sig' = sig /\ limit' = limit
          /\ wire' = wire /\ rounds' = rounds
      BY <2>1 DEF vars, taskVars, loopVars, scanVars
    <3> QED BY <3>1, QuietStep
  <2>2. CASE Next
    BY <2>2, RequestRefines, LoopRefines DEF Next
  <2> QED BY <2>1, <2>2
<1> QED
  BY <1>1, <1>2, BookkeepingInvariant, PTL
     DEF Spec, ImplementsContract, Contract!ContractSpec, ContractStep
=============================================================================
