-------------------------- MODULE GrpcGeyser_proof --------------------------
(***************************************************************************)
(* That confirm_transaction passes over no signature cached before its last *)
(* look and that signatures are forgotten, for any chain, retention,        *)
(* cleaning period and timeout.                                             *)
(* Both follow from the inductive invariant GeyserLedger.  And, by the     *)
(* invariant HashLedger, that the blockhash cache is exactly the last      *)
(* slots when the node delivers in order and without lag.                  *)
(***************************************************************************)
EXTENDS GrpcGeyser, TLAPS

LEMMA Constants ==
  /\ LastSlot \in Nat /\ 0 \in Slots
  /\ Retention \in Nat /\ Retention > 1
  /\ CleanPeriod \in Nat
  /\ ConfirmTimeout \in Nat /\ ConfirmTimeout > 0
  /\ MaxAge = Retention + CleanPeriod
  /\ None \notin Nat
BY GeyserAssumption DEF Slots, MaxAge

LEMMA InitLedger == Init => GeyserLedger
<1> SUFFICES ASSUME Init PROVE GeyserLedger
  OBVIOUS
<1> USE DEF Init
<1>1. GeyserTypeOK
  <2>1. clean_in \in 0..CleanPeriod /\ elapsed \in [Calls -> 0..ConfirmTimeout]
    BY Constants
  <2> QED BY <2>1, Constants DEF GeyserTypeOK
<1>2. CallLedger /\ TimeoutMeansUnseen
  BY DEF CallLedger, TimeoutMeansUnseen
<1>3. AgeLedger
  BY DEF AgeLedger
<1> QED BY <1>1, <1>2, <1>3 DEF GeyserLedger

-----------------------------------------------------------------------------
(* The types, action by action.                                             *)

LEMMA HashTypes ==
  ASSUME GeyserTypeOK, NEW h \in Slots, NEW s \in Slots, RememberHash(h, s)
  PROVE  /\ blockhash_cache' \in [Slots -> Slots \cup {None}]
         /\ recorded' \in [Slots -> Slots \cup {None}]
BY DEF GeyserTypeOK, RememberHash

LEMMA BlockTaskTypes == GeyserTypeOK /\ BlockTask => GeyserTypeOK'
<1> SUFFICES ASSUME GeyserTypeOK, BlockTask PROVE GeyserTypeOK'
  OBVIOUS
<1> USE DEF GeyserTypeOK, startVars, hashVars, slotVars, sigVars, callVars, blockVars
<1>1. CASE SubscribeBlocks
  BY <1>1 DEF SubscribeBlocks
<1>2. CASE BlockStreamBreaks
  BY <1>2 DEF BlockStreamBreaks
<1>3. CASE ReceiveBlock
  <2> PICK s \in in_flight :
        /\ block' = s /\ in_flight' = in_flight \ {s}
        /\ to_cache' = Contents[s] /\ RememberHash(s, s)
    BY <1>3 DEF ReceiveBlock
  <2>1. s \in Slots /\ Contents[s] \subseteq Signatures
    BY GeyserAssumption
  <2>2. /\ blockhash_cache' \in [Slots -> Slots \cup {None}]
        /\ recorded' \in [Slots -> Slots \cup {None}]
    BY <2>1, HashTypes
  <2>3. block_task' = "retaining" /\ UNCHANGED <<chain, startVars, slotVars, sigVars, callVars>>
    BY <1>3 DEF ReceiveBlock
  <2> QED BY <2>1, <2>2, <2>3
<1>4. CASE SkipBlock
  BY <1>4 DEF SkipBlock
<1>5. CASE DropHash
  BY <1>5 DEF DropHash
<1>6. CASE RetainDone
  BY <1>6 DEF RetainDone
<1>7. CASE CacheSignature
  BY <1>7 DEF CacheSignature
<1>8. CASE BlockDone
  BY <1>8 DEF BlockDone
<1> QED BY <1>1, <1>2, <1>3, <1>4, <1>5, <1>6, <1>7, <1>8 DEF BlockTask

LEMMA CallTypes ==
  ASSUME GeyserTypeOK, NEW c \in Calls, StartCall(c) \/ Poll(c)
  PROVE  GeyserTypeOK'
<1> USE DEF GeyserTypeOK, CallStep, startVars, hashVars, slotVars, sigVars, blockVars
<1>1. CASE StartCall(c)
  BY <1>1 DEF StartCall
<1>2. CASE FindSignature(c)
  BY <1>2 DEF FindSignature
<1>3. CASE TimeOut(c)
  BY <1>3 DEF TimeOut
<1>4. CASE Look(c)
  BY <1>4 DEF Look
<1> QED BY <1>1, <1>2, <1>3, <1>4 DEF Poll

LEMMA TickTypes == GeyserTypeOK /\ Tick => GeyserTypeOK'
<1> SUFFICES ASSUME GeyserTypeOK, Tick PROVE GeyserTypeOK'
  OBVIOUS
<1>1. clean_in' \in 0..CleanPeriod
  <2>1. clean_in' = SleepLess /\ clean_in \in 0..CleanPeriod
    BY DEF Tick, GeyserTypeOK
  <2> QED BY <2>1, Constants DEF SleepLess
<1>2. elapsed' \in [Calls -> 0..ConfirmTimeout]
  <2>1. ASSUME NEW c \in Calls
        PROVE  (IF call[c] = "waiting" THEN elapsed[c] + 1 ELSE elapsed[c]) \in 0..ConfirmTimeout
    <3>1. elapsed[c] \in 0..ConfirmTimeout
      BY DEF GeyserTypeOK
    <3>2. call[c] = "waiting" => elapsed[c] < ConfirmTimeout
      BY DEF Tick, NothingDue
    <3> QED BY <3>1, <3>2, Constants
  <2>2. elapsed' = [c \in Calls |-> IF call[c] = "waiting" THEN elapsed[c] + 1 ELSE elapsed[c]]
    BY DEF Tick
  <2> QED BY <2>1, <2>2
<1>3. signature_cache' \in [Signatures -> Nat \cup {None}]
  <2>1. ASSUME NEW s \in Signatures, signature_cache[s] # None
        PROVE  signature_cache[s] + 1 \in Nat
    BY <2>1 DEF GeyserTypeOK
  <2>2. signature_cache' = [s \in Signatures |->
          IF signature_cache[s] = None THEN None ELSE signature_cache[s] + 1]
    BY DEF Tick
  <2> QED BY <2>1, <2>2
<1>4. /\ UNCHANGED <<chain, startVars, blockVars, hashVars, slotVars, call, awaited, seen>>
      /\ polled' \in [Calls -> BOOLEAN]
  BY DEF Tick
<1> QED BY <1>1, <1>2, <1>3, <1>4
        DEF GeyserTypeOK, startVars, blockVars, hashVars, slotVars

LEMMA StepTypes == GeyserTypeOK /\ [Next]_vars => GeyserTypeOK'
<1> SUFFICES ASSUME GeyserTypeOK, [Next]_vars PROVE GeyserTypeOK'
  OBVIOUS
<1> USE DEF startVars, hashVars, slotVars, sigVars, callVars, blockVars
<1>1. CASE ConfirmBlock
  BY <1>1 DEF ConfirmBlock, GeyserTypeOK
<1>2. CASE Startup
  <2>1. CASE RpcGetSlot
    BY <2>1 DEF RpcGetSlot, GeyserTypeOK
  <2>2. CASE RpcGetBlockhash
    <3>1. chain \in Slots /\ rpc_slot \in Slots /\ RememberHash(chain, rpc_slot)
      BY <2>2 DEF RpcGetBlockhash, GeyserTypeOK
    <3>2. /\ blockhash_cache' \in [Slots -> Slots \cup {None}]
          /\ recorded' \in [Slots -> Slots \cup {None}]
      BY <3>1, HashTypes
    <3> QED BY <2>2, <3>2 DEF RpcGetBlockhash, GeyserTypeOK
  <2> QED BY <1>2, <2>1, <2>2 DEF Startup
<1>3. CASE BlockTask
  BY <1>3, BlockTaskTypes
<1>4. CASE SlotTask
  BY <1>4 DEF SlotTask, SubscribeSlots, SendSlotRequest, SlotRequestPanics, ReceiveSlot,
              SlotStreamBreaks, SlotStep, GeyserTypeOK
<1>5. CASE CleanSignatures
  <2>1. CleanPeriod \in 0..CleanPeriod
    BY Constants
  <2> QED BY <1>5, <2>1 DEF CleanSignatures, GeyserTypeOK
<1>6. CASE \E c \in Calls : StartCall(c) \/ Poll(c)
  BY <1>6, CallTypes
<1>7. CASE Tick
  BY <1>7, TickTypes
<1>8. CASE UNCHANGED vars
  BY <1>8 DEF vars, GeyserTypeOK
<1> QED BY <1>1, <1>2, <1>3, <1>4, <1>5, <1>6, <1>7, <1>8 DEF Next

-----------------------------------------------------------------------------
(* The ledgers.                                                             *)

(* The entry of a signature that is cached has an age.                      *)
LEMMA Ages ==
  ASSUME GeyserLedger, NEW s \in Signatures, signature_cache[s] # None
  PROVE  /\ signature_cache[s] \in Nat /\ clean_in \in Nat /\ clean_in <= CleanPeriod
         /\ startup = "done" /\ signature_cache[s] + clean_in <= MaxAge
<1>1. signature_cache[s] \in Nat /\ clean_in \in 0..CleanPeriod
  BY DEF GeyserLedger, GeyserTypeOK
<1>2. startup = "done" /\ signature_cache[s] + clean_in <= MaxAge
  BY DEF GeyserLedger, AgeLedger
<1> QED BY <1>1, <1>2, Constants

(* Steps that touch neither the signatures nor the calls.                   *)
LEMMA BystandersKeepLedger ==
  ASSUME GeyserLedger, GeyserTypeOK', UNCHANGED <<sigVars, callVars>>,
         startup = "done" => startup' = "done",
         startup' # "done" => block_task' = "unspawned"
  PROVE  GeyserLedger'
BY DEF GeyserLedger, CallLedger, AgeLedger, TimeoutMeansUnseen, IsFresh, LookToCome,
       sigVars, callVars

LEMMA CacheKeepsLedger ==
  ASSUME GeyserLedger, GeyserTypeOK', CacheSignature
  PROVE  GeyserLedger'
<1> PICK s \in to_cache :
      /\ signature_cache' = [signature_cache EXCEPT ![s] = 0]
      /\ seen' = [c \in Calls |-> seen[c] \/ (awaited[c] = s /\ LookToCome(c))]
  BY DEF CacheSignature
<1>1. /\ startup' = startup /\ block_task' = block_task /\ clean_in' = clean_in
      /\ call' = call /\ elapsed' = elapsed /\ awaited' = awaited /\ polled' = polled
      /\ block_task = "caching"
  BY DEF CacheSignature, startVars
<1>2. s \in Signatures /\ startup = "done" /\ clean_in \in 0..CleanPeriod
  BY <1>1 DEF GeyserLedger, GeyserTypeOK, AgeLedger
<1>3. /\ signature_cache'[s] = 0
      /\ \A t \in Signatures : t # s => signature_cache'[t] = signature_cache[t]
  BY <1>2 DEF GeyserLedger, GeyserTypeOK
<1>4. CallLedger'
  <2> SUFFICES ASSUME NEW c \in Calls, call[c] # "idle"
               PROVE  /\ awaited[c] \in Signatures
                      /\ call[c] = "waiting" /\ seen'[c] =>
                           /\ signature_cache'[awaited[c]] # None
                           /\ signature_cache'[awaited[c]] < Retention
                           /\ LookToCome(c)
                           /\ polled[c] => signature_cache'[awaited[c]] = 0
    <3>1. \A c \in Calls : LookToCome(c)' <=> LookToCome(c)
      BY <1>1 DEF LookToCome
    <3> QED BY <1>1, <3>1 DEF CallLedger, IsFresh, GeyserLedger
  <2>1. awaited[c] \in Signatures
    BY DEF GeyserLedger, CallLedger
  <2>2. CASE awaited[c] = s
    <3>1. 0 # None /\ 0 < Retention
      BY Constants
    <3>2. call[c] = "waiting" /\ seen'[c] => LookToCome(c)
      BY DEF GeyserLedger, CallLedger
    <3> QED BY <1>3, <2>1, <2>2, <3>1, <3>2
  <2>3. CASE awaited[c] # s
    BY <1>3, <2>1, <2>3 DEF GeyserLedger, CallLedger, IsFresh
  <2> QED BY <2>2, <2>3
<1>5. AgeLedger'
  <2>1. 0 + clean_in <= MaxAge
    BY <1>2, Constants
  <2> QED BY <1>1, <1>2, <1>3, <2>1 DEF GeyserLedger, AgeLedger
<1>6. TimeoutMeansUnseen'
  BY <1>1 DEF GeyserLedger, TimeoutMeansUnseen, LookToCome
<1> QED BY <1>4, <1>5, <1>6 DEF GeyserLedger

(* The cleaner leaves alone what a call is to find: that is still fresh.    *)
LEMMA CleaningKeepsLedger ==
  ASSUME GeyserLedger, GeyserTypeOK', CleanSignatures
  PROVE  GeyserLedger'
<1>1. /\ startup' = startup /\ block_task' = block_task /\ clean_in' = CleanPeriod
      /\ UNCHANGED callVars /\ startup = "done"
      /\ signature_cache' = [s \in Signatures |->
           IF signature_cache[s] # None /\ IsFresh(s) THEN signature_cache[s] ELSE None]
  BY DEF CleanSignatures, startVars, blockVars
<1>2. \A s \in Signatures :
        signature_cache[s] # None /\ IsFresh(s) => signature_cache'[s] = signature_cache[s]
  BY <1>1
<1>3. CallLedger'
  BY <1>1, <1>2 DEF GeyserLedger, CallLedger, IsFresh, LookToCome, callVars
<1>4. AgeLedger'
  <2>1. ASSUME NEW s \in Signatures, signature_cache'[s] # None
        PROVE  signature_cache'[s] + CleanPeriod <= MaxAge
    <3>1. signature_cache[s] # None /\ IsFresh(s) /\ signature_cache'[s] = signature_cache[s]
      BY <1>1, <2>1
    <3>2. signature_cache[s] \in Nat
      BY <3>1, Ages
    <3> QED BY <3>1, <3>2, Constants DEF IsFresh
  <2> QED BY <1>1, <2>1 DEF AgeLedger
<1>5. TimeoutMeansUnseen'
  BY <1>1 DEF GeyserLedger, TimeoutMeansUnseen, callVars
<1> QED BY <1>3, <1>4, <1>5 DEF GeyserLedger

(* When the clock moves on, a call whose signature is cached in time has    *)
(* looked before it was: the entry is new and there is another look to come.*)
LEMMA TickKeepsLedger ==
  ASSUME GeyserLedger, GeyserTypeOK', Tick
  PROVE  GeyserLedger'
<1>1. /\ startup' = startup /\ block_task' = block_task
      /\ call' = call /\ awaited' = awaited /\ seen' = seen
      /\ clean_in' = SleepLess /\ NothingDue /\ polled' = [c \in Calls |-> FALSE]
      /\ signature_cache' = [s \in Signatures |->
           IF signature_cache[s] = None THEN None ELSE signature_cache[s] + 1]
      /\ elapsed' = [c \in Calls |-> IF call[c] = "waiting" THEN elapsed[c] + 1 ELSE elapsed[c]]
  BY DEF Tick, startVars, blockVars
<1>2. ASSUME NEW c \in Calls, call[c] = "waiting", seen[c]
      PROVE  /\ signature_cache'[awaited[c]] # None
             /\ IsFresh(awaited[c])' /\ LookToCome(c)'
  <2>1. /\ polled[c] /\ awaited[c] \in Signatures
        /\ signature_cache[awaited[c]] = 0 /\ elapsed[c] + 1 < ConfirmTimeout
    BY <1>1, <1>2 DEF NothingDue, GeyserLedger, CallLedger, LookToCome
  <2>2. signature_cache'[awaited[c]] = 1 /\ elapsed'[c] = elapsed[c] + 1 /\ ~polled'[c]
    BY <1>1, <1>2, <2>1, Constants
  <2>3. 1 # None /\ 1 < Retention
    BY Constants
  <2> QED BY <1>1, <1>2, <2>1, <2>2, <2>3 DEF IsFresh, LookToCome
<1>3. CallLedger'
  <2>1. \A c \in Calls : call'[c] = "idle" => elapsed'[c] = 0
    BY <1>1 DEF GeyserLedger, CallLedger
  <2>2. \A c \in Calls : call'[c] # "idle" => awaited'[c] \in Signatures
    BY <1>1 DEF GeyserLedger, CallLedger
  <2>3. ASSUME NEW c \in Calls, call'[c] = "waiting", seen'[c]
        PROVE  /\ signature_cache'[awaited'[c]] # None
               /\ IsFresh(awaited[c])' /\ LookToCome(c)' /\ ~polled'[c]
    BY <1>1, <1>2, <2>3
  <2> QED BY <2>1, <2>2, <2>3 DEF CallLedger, IsFresh
<1>4. AgeLedger'
  <2>1. ASSUME NEW s \in Signatures, signature_cache'[s] # None
        PROVE  startup = "done" /\ signature_cache'[s] + clean_in' <= MaxAge
    <3>1. signature_cache[s] # None /\ signature_cache'[s] = signature_cache[s] + 1
      BY <1>1, <2>1
    <3>2. /\ signature_cache[s] \in Nat /\ clean_in \in Nat
          /\ startup = "done" /\ signature_cache[s] + clean_in <= MaxAge
      BY <3>1, Ages
    <3>3. clean_in > 0
      BY <1>1, <3>2 DEF NothingDue
    <3>4. clean_in' = clean_in - 1
      BY <1>1, <3>3 DEF SleepLess
    <3> QED BY <3>1, <3>2, <3>4, Constants
  <2> QED BY <1>1, <2>1 DEF AgeLedger, GeyserLedger
<1>5. TimeoutMeansUnseen'
  BY <1>1 DEF GeyserLedger, TimeoutMeansUnseen
<1> QED BY <1>3, <1>4, <1>5 DEF GeyserLedger

LEMMA CallsKeepLedger ==
  ASSUME GeyserLedger, GeyserTypeOK', NEW c \in Calls,
         StartCall(c) \/ Poll(c)
  PROVE  GeyserLedger'
<1>0. UNCHANGED sigVars /\ startup' = startup /\ block_task' = block_task
  BY DEF StartCall, Poll, FindSignature, Look, TimeOut, CallStep, startVars, blockVars
<1>1. AgeLedger'
  BY <1>0 DEF GeyserLedger, AgeLedger, sigVars
<1>2. CASE StartCall(c)
  <2> PICK s \in Signatures :
        /\ awaited' = [awaited EXCEPT ![c] = s]
        /\ seen' = [seen EXCEPT ![c] = signature_cache[s] # None /\ IsFresh(s)]
    BY <1>2 DEF StartCall
  <2>1. /\ call[c] = "idle" /\ call' = [call EXCEPT ![c] = "waiting"] /\ elapsed' = elapsed
        /\ polled' = [polled EXCEPT ![c] = FALSE]
    BY <1>2 DEF StartCall
  <2>2. /\ call'[c] = "waiting" /\ awaited'[c] = s
        /\ seen'[c] = (signature_cache[s] # None /\ IsFresh(s)) /\ ~polled'[c]
        /\ \A d \in Calls : d # c => call'[d] = call[d] /\ awaited'[d] = awaited[d]
                                      /\ seen'[d] = seen[d] /\ polled'[d] = polled[d]
    BY <2>1 DEF GeyserLedger, GeyserTypeOK
  <2>3. elapsed[c] < ConfirmTimeout
    <3>1. elapsed[c] = 0
      BY <2>1 DEF GeyserLedger, CallLedger
    <3> QED BY <3>1, Constants
  <2>4. CallLedger'
    <3> SUFFICES ASSUME NEW d \in Calls, call'[d] # "idle"
                 PROVE  /\ awaited'[d] \in Signatures
                        /\ call'[d] = "waiting" /\ seen'[d] =>
                             /\ signature_cache[awaited'[d]] # None
                             /\ signature_cache[awaited'[d]] < Retention
                             /\ LookToCome(d)'
                             /\ polled'[d] => signature_cache[awaited'[d]] = 0
      <4>1. \A d \in Calls : call'[d] = "idle" => elapsed[d] = 0
        BY <2>2 DEF GeyserLedger, CallLedger
      <4> QED BY <1>0, <2>1, <4>1 DEF CallLedger, IsFresh, sigVars
    <3>1. CASE d = c
      <4>1. LookToCome(c)'
        BY <2>1, <2>2, <2>3 DEF LookToCome
      <4> QED BY <2>2, <3>1, <4>1 DEF IsFresh
    <3>2. CASE d # c
      <4>1. LookToCome(d)' <=> LookToCome(d)
        BY <2>1, <2>2, <3>2 DEF LookToCome
      <4> QED BY <2>2, <3>2, <4>1 DEF GeyserLedger, CallLedger, IsFresh
    <3> QED BY <3>1, <3>2
  <2>5. TimeoutMeansUnseen'
    BY <2>2 DEF GeyserLedger, TimeoutMeansUnseen
  <2> QED BY <1>1, <2>4, <2>5 DEF GeyserLedger
<1>3. CASE FindSignature(c)
  <2>1. /\ call[c] = "waiting" /\ call' = [call EXCEPT ![c] = "landed"]
        /\ elapsed' = elapsed /\ awaited' = awaited /\ polled' = polled /\ seen' = seen
    BY <1>3 DEF FindSignature
  <2>2. CallLedger' /\ TimeoutMeansUnseen'
    BY <1>0, <2>1 DEF GeyserLedger, GeyserTypeOK, CallLedger, TimeoutMeansUnseen, IsFresh,
                      LookToCome, sigVars
  <2> QED BY <1>1, <2>2 DEF GeyserLedger
<1>4. CASE TimeOut(c)
  <2>1. /\ call[c] = "waiting" /\ call' = [call EXCEPT ![c] = "timeout"]
        /\ elapsed[c] >= ConfirmTimeout
        /\ elapsed' = elapsed /\ awaited' = awaited /\ polled' = polled /\ seen' = seen
    BY <1>4 DEF TimeOut
  <2>2. ~seen[c]
    <3>1. elapsed[c] \in 0..ConfirmTimeout
      BY DEF GeyserLedger, GeyserTypeOK
    <3>2. ~(elapsed[c] < ConfirmTimeout)
      BY <2>1, <3>1, Constants
    <3> QED BY <2>1, <3>2 DEF GeyserLedger, CallLedger, LookToCome
  <2>3. CallLedger' /\ TimeoutMeansUnseen'
    BY <1>0, <2>1, <2>2
       DEF GeyserLedger, GeyserTypeOK, CallLedger, TimeoutMeansUnseen, IsFresh, LookToCome,
           sigVars
  <2> QED BY <1>1, <2>3 DEF GeyserLedger
(* A call that finds nothing is one whose signature was not cached in time. *)
<1>5. CASE Look(c)
  <2>1. /\ call[c] = "waiting" /\ signature_cache[awaited[c]] = None
        /\ polled' = [polled EXCEPT ![c] = TRUE]
        /\ call' = call /\ elapsed' = elapsed /\ awaited' = awaited /\ seen' = seen
    BY <1>5 DEF Look
  <2>2. ~seen[c] /\ \A d \in Calls : d # c => polled'[d] = polled[d]
    BY <2>1 DEF GeyserLedger, GeyserTypeOK, CallLedger
  <2>3. CallLedger' /\ TimeoutMeansUnseen'
    BY <1>0, <2>1, <2>2
       DEF GeyserLedger, CallLedger, TimeoutMeansUnseen, IsFresh, LookToCome, sigVars
  <2> QED BY <1>1, <2>3 DEF GeyserLedger
<1> QED BY <1>2, <1>3, <1>4, <1>5 DEF Poll

LEMMA StepKeepsLedger == GeyserLedger /\ [Next]_vars => GeyserLedger'
<1> SUFFICES ASSUME GeyserLedger, [Next]_vars PROVE GeyserLedger'
  OBVIOUS
<1>0. GeyserTypeOK'
  BY StepTypes DEF GeyserLedger
<1>a. startup # "done" => block_task = "unspawned"
  BY DEF GeyserLedger, AgeLedger
<1> USE DEF startVars, blockVars
<1>1. CASE ConfirmBlock
  BY <1>0, <1>1, <1>a, BystandersKeepLedger DEF ConfirmBlock
<1>2. CASE Startup
  BY <1>0, <1>2, <1>a, BystandersKeepLedger DEF Startup, RpcGetSlot, RpcGetBlockhash
<1>3. CASE BlockTask
  <2>1. CASE CacheSignature
    BY <1>0, <2>1, CacheKeepsLedger
  <2>2. CASE ~CacheSignature
    <3>1. /\ UNCHANGED <<sigVars, callVars>> /\ startup' = startup
          /\ block_task # "unspawned"
      BY <1>3, <2>2 DEF BlockTask, SubscribeBlocks, BlockStreamBreaks, ReceiveBlock, SkipBlock,
                        DropHash, RetainDone, BlockDone
    <3> QED BY <1>0, <1>a, <3>1, BystandersKeepLedger
  <2> QED BY <2>1, <2>2
<1>4. CASE SlotTask
  BY <1>0, <1>4, <1>a, BystandersKeepLedger
     DEF SlotTask, SubscribeSlots, SendSlotRequest, SlotRequestPanics, ReceiveSlot,
         SlotStreamBreaks, SlotStep
<1>5. CASE CleanSignatures
  BY <1>0, <1>5, CleaningKeepsLedger
<1>6. CASE \E c \in Calls : StartCall(c) \/ Poll(c)
  BY <1>0, <1>6, CallsKeepLedger
<1>7. CASE Tick
  BY <1>0, <1>7, TickKeepsLedger
<1>8. CASE UNCHANGED vars
  BY <1>0, <1>8, <1>a, BystandersKeepLedger DEF vars
<1> QED BY <1>1, <1>2, <1>3, <1>4, <1>5, <1>6, <1>7, <1>8 DEF Next

-----------------------------------------------------------------------------
(* Streams, cleaner and calls keep the ledgers, however they interleave.    *)
THEOREM GeyserLedgerInvariant == Spec => []GeyserLedger
BY InitLedger, StepKeepsLedger, PTL DEF Spec

(* Every variable of the geyser client keeps its type; no call waits beyond *)
(* its timeout.                                                             *)
THEOREM GeyserTypesKept == Spec => []GeyserTypeOK
<1>1. GeyserLedger => GeyserTypeOK
  BY DEF GeyserLedger
<1> QED BY <1>1, GeyserLedgerInvariant, PTL

(* confirm_transaction returns None only for a signature that was not known *)
(* to have landed when it was called nor became known before its last look. *)
THEOREM NoSignatureMissed == Spec => []TimeoutMeansUnseen
<1>1. GeyserLedger => TimeoutMeansUnseen
  BY DEF GeyserLedger
<1> QED BY <1>1, GeyserLedgerInvariant, PTL

(* No signature is kept longer than the retention and a cleaning period.    *)
THEOREM SignaturesAreForgotten == Spec => []SignaturesForgotten
<1>1. GeyserLedger => SignaturesForgotten
  <2> SUFFICES ASSUME GeyserLedger, NEW s \in Signatures, signature_cache[s] # None
               PROVE  signature_cache[s] <= MaxAge
    BY DEF SignaturesForgotten
  <2> QED BY Ages, Constants
<1> QED BY <1>1, GeyserLedgerInvariant, PTL
-----------------------------------------------------------------------------
(* The blockhashes, when the node has no lag and delivers in order.         *)

(* Why KeepsRecent and DropsOld hold with a node that has no lag and         *)
(* delivers in order: what is still to come is newer than anything recorded,*)
(* an entry says what was recorded, and the block being handled, against     *)
(* which entries are judged, is the newest.                                 *)
HashLedger ==
  /\ startup # "done" =>
       block_task = "unspawned" /\ \A h \in Slots : recorded[h] = None
  /\ block_task = "unspawned" => in_flight = {}
  /\ rpc_slot <= chain
  /\ \A s \in in_flight : s <= chain
  /\ \A h \in Slots : recorded[h] # None =>
       recorded[h] <= chain /\ \A s \in in_flight : recorded[h] < s
  /\ \A h \in Slots : blockhash_cache[h] # None => blockhash_cache[h] = recorded[h]
  /\ block_task = "retaining" =>
       /\ recorded[block] = block
       /\ \A h \in Slots : recorded[h] # None => recorded[h] <= block
  /\ KeepsRecent
  /\ DropsOld

(* In u64 arithmetic the distance to an older slot is the plain difference. *)
LEMMA Distance ==
  ASSUME GeyserTypeOK, NEW s \in Slots, s <= block
  PROVE  IsRecent(s) <=> block <= s + KeepSlots
<1>1. /\ block \in Nat /\ s \in Nat /\ U64 \in Nat /\ KeepSlots \in Nat
      /\ block - s \in 0..(U64 - 1) /\ block < U64
  BY GeyserAssumption DEF GeyserTypeOK, Slots
<1>2. (block + U64 - s) % U64 = block - s
  <2>1. \A u, d \in Nat : d < u => (u + d) % u = d
    BY SMT
  <2>2. block + U64 - s = U64 + (block - s)
    BY <1>1
  <2>3. block - s \in Nat /\ block - s < U64
    BY <1>1
  <2> QED BY <1>1, <2>1, <2>2, <2>3
<1> QED BY <1>1, <1>2 DEF IsRecent

LEMMA InitHashes == Init => HashLedger
BY Constants DEF Init, HashLedger, KeepsRecent, DropsOld, Recent

(* Steps that neither record, drop nor deliver anything.                    *)
LEMMA BystandersKeepHashes ==
  ASSUME HashLedger, UNCHANGED <<startup, rpc_slot, chain, blockVars, hashVars>>
  PROVE  HashLedger'
BY DEF HashLedger, KeepsRecent, DropsOld, Recent, blockVars, hashVars

LEMMA SlotNumbers ==
  ASSUME GeyserTypeOK
  PROVE  /\ chain \in Nat /\ rpc_slot \in Nat /\ block \in Nat /\ in_flight \subseteq Nat
         /\ Slots \subseteq Nat /\ LastSlot \in Nat /\ KeepSlots \in Nat
         /\ \A h \in Slots : recorded[h] # None => recorded[h] \in Nat /\ recorded[h] \in Slots
BY GeyserAssumption DEF GeyserTypeOK, Slots

LEMMA ConfirmKeepsHashes ==
  ASSUME GeyserTypeOK, HashLedger, ConfirmBlock
  PROVE  HashLedger'
<1> PICK s \in Slots :
      /\ s > chain /\ chain' = s
      /\ in_flight' = IF block_task \in {"unspawned", "connecting"} THEN in_flight
                      ELSE in_flight \cup {s}
  BY DEF ConfirmBlock
<1>1. /\ startup' = startup /\ rpc_slot' = rpc_slot /\ block_task' = block_task
      /\ block' = block /\ blockhash_cache' = blockhash_cache /\ recorded' = recorded
  BY DEF ConfirmBlock, startVars, hashVars
<1>2. KeepsRecent' /\ DropsOld'
  BY <1>1 DEF HashLedger, KeepsRecent, DropsOld, Recent
<1>3. /\ rpc_slot <= s /\ \A t \in in_flight' : t <= s
      /\ block_task = "unspawned" => in_flight' = {}
  BY SlotNumbers DEF HashLedger
<1>4. ASSUME NEW h \in Slots, recorded[h] # None
      PROVE  recorded[h] <= s /\ \A t \in in_flight' : recorded[h] < t
  <2>1. recorded[h] \in Nat /\ recorded[h] <= chain /\ \A t \in in_flight : recorded[h] < t
    BY <1>4, SlotNumbers DEF HashLedger
  <2> QED BY <2>1, SlotNumbers
<1> QED BY <1>1, <1>2, <1>3, <1>4 DEF HashLedger

LEMMA StartupKeepsHashes ==
  ASSUME GeyserTypeOK, HashLedger, Startup
  PROVE  HashLedger'
<1>1. CASE RpcGetSlot
  <2>1. /\ startup = "slot" /\ startup' = "blockhash" /\ rpc_slot' = chain /\ chain' = chain
        /\ UNCHANGED <<blockVars, hashVars>>
    BY <1>1 DEF RpcGetSlot
  <2> QED BY <2>1, SlotNumbers
          DEF HashLedger, KeepsRecent, DropsOld, Recent, blockVars, hashVars
<1>2. CASE RpcGetBlockhash
  <2>1. /\ startup # "done" /\ startup' = "done" /\ RememberHash(chain, rpc_slot)
        /\ block_task' = "connecting" /\ chain' = chain /\ rpc_slot' = rpc_slot
        /\ in_flight' = in_flight
    BY <1>2 DEF RpcGetBlockhash
  <2>2. /\ in_flight = {} /\ \A h \in Slots : recorded[h] = None /\ blockhash_cache[h] = None
        /\ rpc_slot <= chain
    BY <2>1 DEF HashLedger
  <2>3. /\ chain \in Slots /\ recorded'[chain] = rpc_slot /\ blockhash_cache'[chain] = rpc_slot
        /\ \A h \in Slots : h # chain => recorded'[h] = None /\ blockhash_cache'[h] = None
    BY <2>1, <2>2 DEF RememberHash, GeyserTypeOK
  <2>4. rpc_slot <= rpc_slot + KeepSlots /\ rpc_slot # None
    BY SlotNumbers, Constants
  <2>5. KeepsRecent' /\ DropsOld'
    BY <2>3, <2>4 DEF KeepsRecent, DropsOld, Recent
  <2> QED BY <2>1, <2>2, <2>3, <2>5 DEF HashLedger
<1> QED BY <1>1, <1>2 DEF Startup

(* A block is recorded under its own slot, newer than all before: what is   *)
(* recent with it was recent without it.                                    *)
LEMMA ReceiveKeepsHashes ==
  ASSUME InOrder, GeyserTypeOK, HashLedger, ReceiveBlock
  PROVE  HashLedger'
<1> PICK s \in in_flight :
      /\ \A t \in in_flight : s <= t
      /\ block' = s /\ in_flight' = in_flight \ {s} /\ RememberHash(s, s)
  BY DEF ReceiveBlock
<1>1. /\ startup' = startup /\ rpc_slot' = rpc_slot /\ chain' = chain
      /\ block_task = "streaming" /\ block_task' = "retaining"
  BY DEF ReceiveBlock, startVars
<1>2. /\ s \in Slots /\ s \in Nat /\ s <= chain /\ s # None
      /\ recorded'[s] = s /\ blockhash_cache'[s] = s
      /\ \A h \in Slots : h # s =>
           recorded'[h] = recorded[h] /\ blockhash_cache'[h] = blockhash_cache[h]
  BY SlotNumbers, Constants DEF HashLedger, GeyserTypeOK, RememberHash
<1>3. \A h \in Slots : recorded[h] # None => recorded[h] \in Nat /\ recorded[h] < s
  BY SlotNumbers DEF HashLedger
<1>4. \A h \in Slots : recorded'[h] # None =>
        recorded'[h] <= chain /\ \A t \in in_flight' : recorded'[h] < t
  <2>1. \A t \in in_flight' : t \in Nat /\ s < t
    BY <1>2, SlotNumbers
  <2>2. ASSUME NEW h \in Slots, recorded[h] # None, h # s
        PROVE  recorded[h] <= chain /\ \A t \in in_flight' : recorded[h] < t
    BY <2>2 DEF HashLedger
  <2> QED BY <1>2, <2>1, <2>2
<1>5. \A h \in Slots : recorded'[h] # None => recorded'[h] <= s
  BY <1>2, <1>3
<1>6. KeepsRecent'
  <2> SUFFICES ASSUME NEW h \in Slots, Recent(h)' PROVE blockhash_cache'[h] # None
    BY DEF KeepsRecent
  <2>1. CASE h = s
    BY <1>2, <2>1
  <2>2. CASE h # s
    <3>1. recorded[h] # None /\ recorded[h] \in Nat /\ s <= recorded[h] + KeepSlots
      BY <1>2, <1>3, <2>2 DEF Recent
    <3>2. ASSUME NEW g \in Slots, recorded[g] # None
          PROVE  recorded[g] <= recorded[h] + KeepSlots
      <4>1. recorded[g] \in Nat /\ recorded[g] < s
        BY <1>3, <3>2
      <4> QED BY <1>2, <3>1, <4>1, SlotNumbers
    <3>3. Recent(h)
      BY <3>1, <3>2 DEF Recent
    <3> QED BY <1>2, <2>2, <3>3 DEF HashLedger, KeepsRecent
  <2> QED BY <2>1, <2>2
<1>7. /\ \A h \in Slots : blockhash_cache'[h] # None => blockhash_cache'[h] = recorded'[h]
      /\ \A t \in in_flight' : t <= chain
      /\ rpc_slot <= chain /\ startup = "done"
  BY <1>1, <1>2 DEF HashLedger
<1> QED BY <1>1, <1>2, <1>4, <1>5, <1>6, <1>7 DEF HashLedger, DropsOld

(* What the retain drops is further from the newest block than KeepSlots.   *)
LEMMA DropKeepsHashes ==
  ASSUME GeyserTypeOK, HashLedger, DropHash
  PROVE  HashLedger'
<1> PICK h \in OldHashes : blockhash_cache' = [blockhash_cache EXCEPT ![h] = None]
  BY DEF DropHash
<1>1. /\ UNCHANGED <<startup, rpc_slot, chain, blockVars, recorded>>
      /\ block_task = "retaining"
  BY DEF DropHash, startVars
<1>2. /\ h \in Slots /\ recorded[h] # None /\ ~IsRecent(recorded[h])
      /\ recorded[block] = block /\ recorded[h] <= block /\ recorded[h] \in Slots
  BY <1>1, SlotNumbers DEF OldHashes, HashLedger
<1>3. ~(block <= recorded[h] + KeepSlots)
  BY <1>2, Distance
<1>4. ~Recent(h)
  <2>1. block \in Slots /\ block # None
    BY SlotNumbers, Constants DEF GeyserTypeOK
  <2> QED BY <1>2, <1>3, <2>1 DEF Recent
<1>5. /\ blockhash_cache'[h] = None
      /\ \A g \in Slots : g # h => blockhash_cache'[g] = blockhash_cache[g]
  BY <1>2 DEF GeyserTypeOK
<1>6. KeepsRecent' /\ DropsOld'
  BY <1>1, <1>4, <1>5 DEF HashLedger, KeepsRecent, DropsOld, Recent, blockVars
<1> QED BY <1>1, <1>5, <1>6 DEF HashLedger, blockVars

(* Once nothing is left to drop, every entry is recent.                     *)
LEMMA RetainedAreRecent ==
  ASSUME GeyserTypeOK, HashLedger, RetainDone
  PROVE  HashLedger'
<1>1. /\ UNCHANGED <<startup, rpc_slot, chain, in_flight, block, blockhash_cache, recorded>>
      /\ block_task = "retaining" /\ block_task' = "caching" /\ OldHashes = {}
  BY DEF RetainDone, startVars, hashVars
<1>2. KeepsRecent'
  BY <1>1 DEF HashLedger, KeepsRecent, Recent
<1>3. DropsOld'
  <2> SUFFICES ASSUME NEW h \in Slots, blockhash_cache[h] # None PROVE Recent(h)
    BY <1>1 DEF DropsOld, Recent
  <2>1. /\ recorded[h] # None /\ recorded[h] \in Slots /\ recorded[h] \in Nat
        /\ recorded[h] <= block /\ IsRecent(recorded[h])
    BY <1>1, SlotNumbers DEF HashLedger, OldHashes
  <2>2. block <= recorded[h] + KeepSlots
    BY <2>1, Distance
  <2>3. ASSUME NEW g \in Slots, recorded[g] # None
        PROVE  recorded[g] <= recorded[h] + KeepSlots
    <3>1. recorded[g] \in Nat /\ recorded[g] <= block
      BY <1>1, <2>3, SlotNumbers DEF HashLedger
    <3> QED BY <2>1, <2>2, <3>1, SlotNumbers
  <2> QED BY <2>1, <2>3 DEF Recent
<1> QED BY <1>1, <1>2, <1>3 DEF HashLedger

(* A node without lag sends nothing again to a subscription that reopens.   *)
LEMMA SubscribeKeepsHashes ==
  ASSUME MaxLag = 0, GeyserTypeOK, HashLedger, SubscribeBlocks
  PROVE  HashLedger'
<1> PICK lag \in 0..MaxLag : in_flight' = {s \in Slots : chain - lag < s /\ s <= chain}
  BY DEF SubscribeBlocks
<1>1. in_flight' = {}
  <2>1. lag = 0
    OBVIOUS
  <2> QED BY <2>1, SlotNumbers
<1>2. /\ UNCHANGED <<startup, rpc_slot, chain, block, blockhash_cache, recorded>>
      /\ block_task = "connecting" /\ block_task' = "streaming"
  BY DEF SubscribeBlocks, startVars, hashVars
<1> QED BY <1>1, <1>2 DEF HashLedger, KeepsRecent, DropsOld, Recent

(* The other steps of the block task lose blocks or leave them alone.       *)
LEMMA LosingKeepsHashes ==
  ASSUME GeyserTypeOK, HashLedger, in_flight' \subseteq in_flight,
         UNCHANGED <<startup, rpc_slot, chain, block, blockhash_cache, recorded>>,
         block_task \notin {"unspawned", "retaining"},
         block_task' \notin {"unspawned", "retaining"}
  PROVE  HashLedger'
BY DEF HashLedger, KeepsRecent, DropsOld, Recent

LEMMA StepKeepsHashes ==
  ASSUME InOrder, MaxLag = 0
  PROVE  GeyserTypeOK /\ HashLedger /\ [Next]_vars => HashLedger'
<1> SUFFICES ASSUME GeyserTypeOK, HashLedger, [Next]_vars PROVE HashLedger'
  OBVIOUS
<1> USE DEF startVars
<1>1. CASE ConfirmBlock
  BY <1>1, ConfirmKeepsHashes
<1>2. CASE Startup
  BY <1>2, StartupKeepsHashes
<1>3. CASE BlockTask
  <2>1. CASE SubscribeBlocks
    BY <2>1, SubscribeKeepsHashes
  <2>2. CASE ReceiveBlock
    BY <2>2, ReceiveKeepsHashes
  <2>3. CASE DropHash
    BY <2>3, DropKeepsHashes
  <2>4. CASE RetainDone
    BY <2>4, RetainedAreRecent
  <2>5. CASE BlockStreamBreaks \/ SkipBlock \/ CacheSignature \/ BlockDone
    <3>1. /\ in_flight' \subseteq in_flight
          /\ UNCHANGED <<startup, rpc_slot, chain, block, blockhash_cache, recorded>>
          /\ block_task \notin {"unspawned", "retaining"}
          /\ block_task' \notin {"unspawned", "retaining"}
      BY <2>5 DEF BlockStreamBreaks, SkipBlock, CacheSignature, BlockDone, hashVars
    <3> QED BY <3>1, LosingKeepsHashes
  <2> QED BY <1>3, <2>1, <2>2, <2>3, <2>4, <2>5 DEF BlockTask
<1>4. CASE SlotTask
  BY <1>4, BystandersKeepHashes
     DEF SlotTask, SubscribeSlots, SendSlotRequest, SlotRequestPanics, ReceiveSlot,
         SlotStreamBreaks, SlotStep
<1>5. CASE CleanSignatures
  BY <1>5, BystandersKeepHashes DEF CleanSignatures
<1>6. CASE \E c \in Calls : StartCall(c) \/ Poll(c)
  BY <1>6, BystandersKeepHashes DEF StartCall, Poll, FindSignature, Look, TimeOut, CallStep
<1>7. CASE Tick
  BY <1>7, BystandersKeepHashes DEF Tick
<1>8. CASE UNCHANGED vars
  BY <1>8, BystandersKeepHashes DEF vars
<1> QED BY <1>1, <1>2, <1>3, <1>4, <1>5, <1>6, <1>7, <1>8 DEF Next

(* With a node that delivers in order and does not lag, whatever streams    *)
(* break and blocks are skipped, the cache is judged by the newest block.   *)
THEOREM HashLedgerInvariant ==
  ASSUME InOrder, MaxLag = 0
  PROVE  Spec => []HashLedger
<1>1. GeyserTypeOK /\ HashLedger /\ [Next]_vars => HashLedger'
  BY StepKeepsHashes
<1> QED BY <1>1, InitHashes, GeyserTypesKept, PTL DEF Spec

(* Then no blockhash of the last KeepSlots slots is missing, in the middle  *)
(* of a retain included.                                                    *)
THEOREM RecentHashesKept ==
  ASSUME InOrder, MaxLag = 0
  PROVE  Spec => []KeepsRecent
<1>1. Spec => []HashLedger
  BY HashLedgerInvariant
<1>2. HashLedger => KeepsRecent
  BY DEF HashLedger
<1> QED BY <1>1, <1>2, PTL

(* And between blocks nothing older is left.                                *)
THEOREM OldHashesDropped ==
  ASSUME InOrder, MaxLag = 0
  PROVE  Spec => []DropsOld
<1>1. Spec => []HashLedger
  BY HashLedgerInvariant
<1>2. HashLedger => DropsOld
  BY DEF HashLedger
<1> QED BY <1>1, <1>2, PTL
=============================================================================
