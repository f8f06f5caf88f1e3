------------------------- MODULE AtlasSystem_proof -------------------------
(***************************************************************************)
(* That every step of the composed service is one of the transaction       *)
(* sender and one of the geyser client, so that what is proved of either   *)
(* holds of the service; that a request is in no batch once its confirmer  *)
(* has its answer, and that no confirmer gives up what was there to find.  *)
(***************************************************************************)
EXTENDS AtlasSystem, TxnSender_refinement

(* Whatever the geyser client does, the sender stutters or takes a step.    *)
LEMMA SenderSteps == [SystemNext]_systemVars => [Next]_vars
<1> SUFFICES ASSUME [SystemNext]_systemVars PROVE [Next]_vars
  OBVIOUS
<1>1. ASSUME NEW r \in Requests,
             Arrive(r) \/ HandlerAlone(r) \/ ConfirmerStep(r)
      PROVE  [Next]_vars
  <2>1. CASE Arrive(r)
    BY <2>1 DEF Arrive, Next
  <2>2. CASE HandlerAlone(r)
    BY <2>2 DEF HandlerAlone, Next
  <2>3. CASE ConfirmerStep(r)
    BY <2>3 DEF ConfirmerStep, BeginCall, LookInVain, Landed, NotLanded, Next
  <2> QED BY <1>1, <2>1, <2>2, <2>3
<1>2. CASE RetryLoopAlone
  BY <1>2 DEF RetryLoopAlone, Next
<1>3. CASE GeyserAlone
  BY <1>3 DEF GeyserAlone
<1>4. CASE UNCHANGED systemVars
  BY <1>4 DEF systemVars
<1> QED BY <1>1, <1>2, <1>3, <1>4 DEF SystemNext

(* The composed service is a transaction sender: for any chain, node and    *)
(* timing of the streams its steps are those of module TxnSender.           *)
THEOREM ServiceIsSender == SystemSpec => Spec
<1>1. SystemInit => Init
  BY DEF SystemInit
<1> QED BY <1>1, SenderSteps, PTL DEF SystemSpec, Spec

(* What the invariant of the sender says of the service.                    *)
THEOREM ServiceBookkeeping == SystemSpec => []Bookkeeping
BY ServiceIsSender, BookkeepingInvariant, PTL

(* The service as a whole keeps the contract of module RetryContract: what  *)
(* it accepts it resends until it closes it, at most as often as it may.    *)
THEOREM ServiceKeepsContract == SystemSpec => ImplementsContract
BY ServiceIsSender, RefinesContract, PTL

-----------------------------------------------------------------------------
(* Confirmers and calls.                                                    *)

(* A confirmer goes with the call it makes, once it has begun, which is for *)
(* the signature of its request.                                            *)
CallOf(place) == CASE place = "none" -> {"idle"}
                   [] place = "waiting" -> {"idle", "waiting"}
                   [] place = "done" -> {"landed", "timeout"}

CallsMatch ==
  \A r \in Requests :
    /\ call[r] \in CallOf(confirmer[r])
    /\ confirmer[r] # "none" => handler[r] \in {"spawned", "replied"}
    /\ call[r] # "idle" => awaited[r] = sig[r]

CallPlaces == {"idle", "waiting", "landed", "timeout"}

Matched ==
  /\ call \in [Requests -> CallPlaces]
  /\ awaited \in [Requests -> Signatures \cup {None}]
  /\ CallsMatch

LEMMA CallOfPlaces ==
  /\ CallOf("none") = {"idle"}
  /\ CallOf("waiting") = {"idle", "waiting"}
  /\ CallOf("done") = {"landed", "timeout"}
BY DEF CallOf

LEMMA InitMatched == SystemInit => Matched
BY CallOfPlaces DEF SystemInit, Init, G!Init, Matched, CallsMatch, CallPlaces

(* Steps that leave the calls and confirmers alone.                         *)
LEMMA SameMatched ==
  ASSUME Matched, UNCHANGED <<call, awaited, confirmer>>,
         \A r \in Requests : confirmer[r] # "none" =>
           sig'[r] = sig[r] /\ handler'[r] \in {"spawned", "replied"}
  PROVE  Matched'
<1>1. \A r \in Requests : call[r] # "idle" => confirmer[r] # "none"
  BY CallOfPlaces DEF Matched, CallsMatch
<1> QED BY <1>1 DEF Matched, CallsMatch

(* A handler spawns its confirmer once, before which there is no call.      *)
LEMMA HandlerMatched ==
  ASSUME Matched, TypeOK, NEW r \in Requests, Arrive(r) \/ HandlerAlone(r)
  PROVE  Matched'
<1>1. UNCHANGED <<call, awaited>>
  BY DEF Arrive, HandlerAlone, SenderAlone, geyserVars
<1>2. Refuse(r) \/ Receive(r) \/ HandlerStep(r)
  BY DEF Arrive, HandlerAlone
<1>3. \A q \in Requests : q # r => sig'[q] = sig[q] /\ handler'[q] = handler[q]
  BY <1>2 DEF Refuse, Receive, HandlerStep, CheckStored, InsertTransaction, PriorityPanics,
              SpawnConfirmer, SendToLeaders, TypeOK
<1>4. CASE SpawnConfirmer(r)
  <2>1. /\ handler[r] = "tracked" /\ sig' = sig
        /\ handler' = [handler EXCEPT ![r] = "spawned"]
        /\ confirmer' = [confirmer EXCEPT ![r] = "waiting"]
    BY <1>4 DEF SpawnConfirmer
  <2>2. confirmer[r] = "none" /\ call[r] = "idle"
    <3>1. confirmer[r] = "none"
      BY <2>1 DEF Matched, CallsMatch
    <3> QED BY <3>1, CallOfPlaces DEF Matched, CallsMatch
  <2>3. /\ handler'[r] = "spawned" /\ confirmer'[r] = "waiting"
        /\ \A q \in Requests : q # r => confirmer'[q] = confirmer[q]
    BY <2>1 DEF TypeOK
  <2>4. CallsMatch'
    <3> SUFFICES ASSUME NEW q \in Requests
                 PROVE  /\ call'[q] \in CallOf(confirmer'[q])
                        /\ confirmer'[q] # "none" => handler'[q] \in {"spawned", "replied"}
                        /\ call'[q] # "idle" => awaited'[q] = sig'[q]
      BY DEF CallsMatch
    <3>1. CASE q = r
      BY <1>1, <2>2, <2>3, <3>1, CallOfPlaces
    <3>2. CASE q # r
      BY <1>1, <1>3, <2>3, <3>2 DEF Matched, CallsMatch
    <3> QED BY <3>1, <3>2
  <2> QED BY <1>1, <2>4 DEF Matched
<1>5. CASE SendToLeaders(r)
  <2>1. /\ sig' = sig /\ confirmer' = confirmer
        /\ handler' = [handler EXCEPT ![r] = "replied"]
    BY <1>5 DEF SendToLeaders
  <2>2. \A q \in Requests : confirmer[q] # "none" => handler'[q] \in {"spawned", "replied"}
    BY <2>1 DEF Matched, CallsMatch, TypeOK
  <2> QED BY <1>1, <2>1, <2>2, SameMatched
<1>6. CASE ~(SpawnConfirmer(r) \/ SendToLeaders(r))
  <2>1. confirmer' = confirmer /\ handler[r] \notin {"spawned", "replied"}
    BY <1>2, <1>6 DEF Refuse, Receive, HandlerStep, CheckStored, InsertTransaction, PriorityPanics
  <2>2. \A q \in Requests : confirmer[q] # "none" =>
          q # r /\ handler[q] \in {"spawned", "replied"}
    BY <2>1 DEF Matched, CallsMatch
  <2> QED BY <1>1, <1>3, <2>1, <2>2, SameMatched
<1> QED BY <1>4, <1>5, <1>6

(* A confirmer begins its call and returns with it.                         *)
LEMMA ConfirmerMatched ==
  ASSUME Matched, TypeOK, NEW r \in Requests, ConfirmerStep(r)
  PROVE  Matched'
<1>1. CASE BeginCall(r)
  <2>1. /\ confirmer[r] = "waiting" /\ UNCHANGED <<handler, sig, confirmer>>
        /\ call' = [call EXCEPT ![r] = "waiting"] /\ awaited'[r] = sig[r]
        /\ \E s \in Signatures : awaited' = [awaited EXCEPT ![r] = s]
    BY <1>1 DEF BeginCall, G!StartCall, vars, taskVars
  <2>2. /\ awaited' \in [Requests -> Signatures \cup {None}]
        /\ call' \in [Requests -> CallPlaces] /\ call'[r] = "waiting"
        /\ \A q \in Requests : q # r => awaited'[q] = awaited[q] /\ call'[q] = call[q]
    BY <2>1 DEF Matched, CallPlaces
  <2>3. CallsMatch'
    <3> SUFFICES ASSUME NEW q \in Requests
                 PROVE  /\ call'[q] \in CallOf(confirmer[q])
                        /\ confirmer[q] # "none" => handler[q] \in {"spawned", "replied"}
                        /\ call'[q] # "idle" => awaited'[q] = sig[q]
      BY <2>1 DEF CallsMatch
    <3>1. CASE q = r
      BY <2>1, <2>2, <3>1, CallOfPlaces DEF Matched, CallsMatch
    <3>2. CASE q # r
      BY <2>2, <3>2 DEF Matched, CallsMatch
    <3> QED BY <3>1, <3>2
  <2> QED BY <2>2, <2>3 DEF Matched
<1>2. CASE LookInVain(r)
  <2>1. UNCHANGED <<call, awaited, confirmer, handler, sig>>
    BY <1>2 DEF LookInVain, G!Look, vars, taskVars
  <2> QED BY <2>1, SameMatched DEF Matched, CallsMatch
<1>3. ASSUME NEW p \in {"landed", "timeout"}, call' = [call EXCEPT ![r] = p],
             call[r] = "waiting", awaited' = awaited, ConfirmReturns(r)
      PROVE  Matched'
  <2>1. /\ confirmer' = [confirmer EXCEPT ![r] = "done"] /\ confirmer[r] = "waiting"
        /\ handler' = handler /\ sig' = sig
    BY <1>3 DEF ConfirmReturns
  <2>2. call' \in [Requests -> CallPlaces]
    BY <1>3 DEF Matched, CallPlaces
  <2>3. CallsMatch'
    <3> SUFFICES ASSUME NEW q \in Requests
                 PROVE  /\ call'[q] \in CallOf(confirmer'[q])
                        /\ confirmer'[q] # "none" => handler[q] \in {"spawned", "replied"}
                        /\ call'[q] # "idle" => awaited[q] = sig[q]
      BY <1>3, <2>1 DEF CallsMatch
    <3>1. CASE q = r
      <4>1. call'[r] = p /\ confirmer'[r] = "done"
        BY <1>3, <2>1 DEF Matched, TypeOK
      <4>2. handler[r] \in {"spawned", "replied"} /\ awaited[r] = sig[r]
        BY <1>3, <2>1 DEF Matched, CallsMatch
      <4> QED BY <1>3, <3>1, <4>1, <4>2, CallOfPlaces
    <3>2. CASE q # r
      <4>1. call'[q] = call[q] /\ confirmer'[q] = confirmer[q]
        BY <1>3, <2>1, <3>2 DEF Matched, TypeOK
      <4> QED BY <4>1 DEF Matched, CallsMatch
    <3> QED BY <3>1, <3>2
  <2> QED BY <1>3, <2>2, <2>3 DEF Matched
<1>4. CASE Landed(r)
  BY <1>3, <1>4 DEF Landed, G!FindSignature
<1>5. CASE NotLanded(r)
  BY <1>3, <1>5 DEF NotLanded, G!TimeOut
<1> QED BY <1>1, <1>2, <1>4, <1>5 DEF ConfirmerStep

LEMMA StepMatched == Matched /\ TypeOK /\ [SystemNext]_systemVars => Matched'
<1> SUFFICES ASSUME Matched, TypeOK, [SystemNext]_systemVars PROVE Matched'
  OBVIOUS
<1>0. \A r \in Requests : confirmer[r] # "none" => handler[r] \in {"spawned", "replied"}
  BY DEF Matched, CallsMatch
<1>1. ASSUME NEW r \in Requests, Arrive(r) \/ HandlerAlone(r) PROVE Matched'
  BY <1>1, HandlerMatched
<1>2. ASSUME NEW r \in Requests, ConfirmerStep(r) PROVE Matched'
  BY <1>2, ConfirmerMatched
<1>3. CASE RetryLoopAlone
  <2>1. UNCHANGED <<call, awaited>> /\ RetryLoop
    BY <1>3 DEF RetryLoopAlone, SenderAlone, geyserVars
  <2>2. UNCHANGED taskVars
    BY <2>1 DEF RetryLoop, MeasureQueue, CollectEntry, StartShedding, SlicePanics,
                ShedFromStore, ShedFromMap, StartScan, VisitAbsent, VisitRetry,
                VisitExhausted, VisitEntry, SendBatch, ReapReached, Sleep
  <2> QED BY <1>0, <2>1, <2>2, SameMatched DEF taskVars
<1>4. CASE GeyserAlone
  <2>1. UNCHANGED <<handler, sig, confirmer>>
    BY <1>4 DEF GeyserAlone, vars, taskVars
  <2>2. UNCHANGED <<call, awaited>>
    BY <1>4 DEF GeyserAlone, G!ConfirmBlock, G!Startup, G!RpcGetSlot, G!RpcGetBlockhash,
                G!BlockTask, G!SubscribeBlocks, G!BlockStreamBreaks, G!ReceiveBlock,
                G!SkipBlock, G!DropHash, G!RetainDone, G!CacheSignature, G!BlockDone,
                G!CleanSignatures, G!Tick, G!callVars
  <2> QED BY <1>0, <2>1, <2>2, SameMatched
<1>5. CASE UNCHANGED systemVars
  BY <1>0, <1>5, SameMatched DEF systemVars, geyserVars, vars, taskVars
<1> QED BY <1>1, <1>2, <1>3, <1>4, <1>5 DEF SystemNext

(* Every confirmer of the service makes one call, for the signature of its  *)
(* own request, and has its answer when the call has returned.              *)
LEMMA MatchedInvariant == SystemSpec => []Matched
<1>1. Bookkeeping => TypeOK
  BY DEF Bookkeeping
<1> QED BY <1>1, InitMatched, StepMatched, ServiceBookkeeping, PTL DEF SystemSpec

-----------------------------------------------------------------------------
(* An entry joins the batch only while it is in the store.                  *)
LEMMA WireFromStore ==
  ASSUME TypeOK, StoreKeyed, [Next]_vars, NEW r \in Requests, r \notin wire, r \in wire'
  PROVE  Live(r)
<1>1. PICK s \in Signatures : VisitRetry(s) \/ VisitExhausted(s)
  <2>1. wire' # wire
    OBVIOUS
  <2>2. CASE RetryLoop
    BY <2>2, <2>1 DEF RetryLoop, MeasureQueue, CollectEntry, StartShedding, SlicePanics,
         ShedFromStore, ShedFromMap, StartScan, VisitAbsent, SendBatch, ReapReached, Sleep,
         scanVars
  <2>3. CASE ~RetryLoop
    BY <2>1, <2>3 DEF Next, vars, loopVars, scanVars, Refuse, Receive, HandlerStep, CheckStored,
         InsertTransaction, PriorityPanics, SpawnConfirmer, SendToLeaders, ConfirmReturns
  <2> QED BY <2>2, <2>3
<1>2. store[s] # None /\ wire' = wire \cup {store[s]}
  BY <1>1 DEF VisitRetry, VisitExhausted
<1>3. r = store[s] /\ s \in Stored
  BY <1>2 DEF Stored
<1> QED BY <1>3 DEF StoreKeyed, Live

(* Once its confirmer has its answer a request is in no further batch of    *)
(* the retry loop, for any number of requests, resubmissions and retries.   *)
THEOREM AnsweredIsQuiet == SystemSpec => SettledIsQuiet
<1>1. ASSUME Bookkeeping, Matched, [SystemNext]_systemVars, NEW r \in Requests,
             call[r] \in {"landed", "timeout"}, r \notin wire
      PROVE  r \notin wire'
  <2>1. confirmer[r] \notin {"none", "waiting"}
    BY <1>1, CallOfPlaces DEF Matched, CallsMatch
  <2>2. handler[r] \in {"spawned", "replied"}
    BY <1>1, <2>1 DEF Matched, CallsMatch
  <2>3. ~Live(r)
    BY <1>1, <2>1, <2>2 DEF Bookkeeping, NoOrphan
  <2> QED BY <1>1, <2>3, SenderSteps, WireFromStore DEF Bookkeeping
<1>2. Bookkeeping /\ Matched /\ [SystemNext]_systemVars =>
        [\A r \in Requests :
           call[r] \in {"landed", "timeout"} /\ r \notin wire => r \notin wire']_systemVars
  BY <1>1
<1> QED BY <1>2, MatchedInvariant, ServiceBookkeeping, PTL DEF SystemSpec, SettledIsQuiet

-----------------------------------------------------------------------------
(* Whatever the sender does, the geyser client stutters or takes a step.    *)
LEMMA GeyserSteps == [SystemNext]_systemVars => [G!Next]_(G!vars)
<1> SUFFICES ASSUME [SystemNext]_systemVars PROVE G!Next \/ UNCHANGED G!vars
  OBVIOUS
<1>1. CASE UNCHANGED geyserVars
  BY <1>1 DEF geyserVars, G!vars, G!startVars, G!blockVars, G!hashVars, G!slotVars,
              G!sigVars, G!callVars
<1>2. ASSUME NEW r \in Requests, Arrive(r) \/ HandlerAlone(r)
      PROVE  UNCHANGED geyserVars
  BY <1>2 DEF Arrive, HandlerAlone, SenderAlone
<1>3. ASSUME NEW r \in Requests, ConfirmerStep(r)
      PROVE  G!Next
  BY <1>3 DEF ConfirmerStep, BeginCall, LookInVain, Landed, NotLanded, G!Poll, G!Next
<1>4. CASE RetryLoopAlone \/ UNCHANGED systemVars
  BY <1>1, <1>4 DEF RetryLoopAlone, SenderAlone, systemVars
<1>5. CASE GeyserAlone
  BY <1>5 DEF GeyserAlone, G!Next
<1> QED BY <1>1, <1>2, <1>3, <1>4, <1>5 DEF SystemNext

(* The composed service is a geyser client too: the calls of its confirmers *)
(* are calls that module GrpcGeyser allows.                                 *)
THEOREM ServiceIsGeyser == SystemSpec => G!Spec
<1>1. SystemInit => G!Init
  BY DEF SystemInit
<1> QED BY <1>1, GeyserSteps, PTL DEF SystemSpec, G!Spec

(* The same module with its proofs. *)
P == INSTANCE GrpcGeyser_proof WITH Calls <- Requests

LEMMA SameAssumption == P!GeyserAssumption
BY GeyserOfService DEF G!GeyserAssumption, P!GeyserAssumption, G!Slots, P!Slots

LEMMA SameGeyser == G!Spec => P!Spec
<1>1. G!Init => P!Init
  BY DEF G!Init, P!Init, G!Slots, P!Slots
<1> USE DEF G!Slots, P!Slots, G!startVars, P!startVars, G!blockVars, P!blockVars,
            G!hashVars, P!hashVars, G!slotVars, P!slotVars, G!sigVars, P!sigVars,
            G!callVars, P!callVars
<1>2. G!ConfirmBlock \/ G!Startup => P!ConfirmBlock \/ P!Startup
  BY DEF G!ConfirmBlock, P!ConfirmBlock, G!Startup, P!Startup, G!RpcGetSlot, P!RpcGetSlot,
         G!RpcGetBlockhash, P!RpcGetBlockhash, G!RememberHash, P!RememberHash
<1>3. G!BlockTask => P!BlockTask
  <2>1. G!OldHashes = P!OldHashes
    BY DEF G!OldHashes, P!OldHashes, G!IsRecent, P!IsRecent
  <2>2. G!ReceiveBlock => P!ReceiveBlock
    BY DEF G!ReceiveBlock, P!ReceiveBlock, G!RememberHash, P!RememberHash
  <2>3. G!DropHash \/ G!RetainDone => P!DropHash \/ P!RetainDone
    BY <2>1 DEF G!DropHash, P!DropHash, G!RetainDone, P!RetainDone
  <2>4. G!CacheSignature => P!CacheSignature
    BY DEF G!CacheSignature, P!CacheSignature, G!LookToCome, P!LookToCome
  <2>5. /\ G!SubscribeBlocks => P!SubscribeBlocks
        /\ G!BlockStreamBreaks => P!BlockStreamBreaks
        /\ G!SkipBlock => P!SkipBlock
        /\ G!BlockDone => P!BlockDone
    BY DEF G!SubscribeBlocks, P!SubscribeBlocks, G!BlockStreamBreaks, P!BlockStreamBreaks,
           G!SkipBlock, P!SkipBlock, G!BlockDone, P!BlockDone
  <2> QED BY <2>2, <2>3, <2>4, <2>5 DEF G!BlockTask, P!BlockTask
<1>4. G!SlotTask => P!SlotTask
  BY DEF G!SlotTask, P!SlotTask, G!SubscribeSlots, P!SubscribeSlots, G!SendSlotRequest,
         P!SendSlotRequest, G!SlotRequestPanics, P!SlotRequestPanics, G!ReceiveSlot,
         P!ReceiveSlot, G!SlotStreamBreaks, P!SlotStreamBreaks, G!SlotStep, P!SlotStep
<1>5. G!CleanSignatures => P!CleanSignatures
  BY DEF G!CleanSignatures, P!CleanSignatures, G!IsFresh, P!IsFresh
<1>6. ASSUME NEW c \in Requests, G!StartCall(c) \/ G!Poll(c)
      PROVE  P!StartCall(c) \/ P!Poll(c)
  BY <1>6 DEF G!Poll, P!Poll, G!StartCall, P!StartCall, G!FindSignature, P!FindSignature,
              G!Look, P!Look, G!TimeOut, P!TimeOut, G!CallStep, P!CallStep, G!IsFresh, P!IsFresh
<1>7. G!Tick => P!Tick
  BY DEF G!Tick, P!Tick, G!NothingDue, P!NothingDue, G!SleepLess, P!SleepLess
<1>8. UNCHANGED G!vars => UNCHANGED P!vars
  BY DEF G!vars, P!vars
<1>9. [G!Next]_(G!vars) => [P!Next]_(P!vars)
  BY <1>2, <1>3, <1>4, <1>5, <1>6, <1>7, <1>8 DEF G!Next, P!Next
<1> QED BY <1>1, <1>9, PTL DEF G!Spec, P!Spec

(* No transaction is taken out of the store as lost that the block stream   *)
(* had reported before its confirmer's last look.                           *)
THEOREM ConfirmersMissNothing == SystemSpec => []GivenUpUnseen
<1>1. Matched /\ P!TimeoutMeansUnseen => GivenUpUnseen
  BY CallOfPlaces DEF Matched, CallsMatch, P!TimeoutMeansUnseen, GivenUpUnseen
<1> QED BY <1>1, SameAssumption, SameGeyser, ServiceIsGeyser, MatchedInvariant,
           P!NoSignatureMissed, PTL
=============================================================================
