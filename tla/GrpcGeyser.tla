----------------------------- MODULE GrpcGeyser -----------------------------
(***************************************************************************)
(* grpc_geyser.rs: the two gRPC streams (confirmed blocks, processed       *)
(* slots) with their reconnections, the cache of recent blockhashes and the*)
(* cache of seen signatures they fill, the task that cleans the latter and *)
(* the confirm_transaction calls that poll it.                             *)
(*                                                                         *)
(* The chain, the geyser node and the RPC node are external.  A block is   *)
(* named by its slot, and so is its blockhash; Contents says which of the  *)
(* service's signatures it holds.  The geyser node may be a few slots      *)
(* behind the RPC node, and may deliver blocks out of order.               *)
(*                                                                         *)
(* Time passes in ticks of 30 seconds.  The tasks run when they are due: a *)
(* waiting call polls every 10 ms and so looks at the cache at least once  *)
(* in a tick, but what is cached after its last look waits for the next.   *)
(***************************************************************************)
EXTENDS Naturals

CONSTANTS
  LastSlot,        \* bound: the last slot of the chain
  Signatures,
  Contents,        \* the signatures in the block of each slot
  Calls,           \* the confirm_transaction calls
  None,
  KeepSlots,       \* the 150 slots whose blockhash is kept
  U64,             \* what u64 arithmetic wraps at
  MaxLag,          \* how many slots the geyser node may be behind the RPC node
  InOrder,         \* whether the geyser node delivers blocks in slot order
  Retention,       \* 90 seconds: from this age on a signature is dropped
  CleanPeriod,     \* 60 seconds
  ConfirmTimeout   \* 60 seconds

Slots == 0..LastSlot

ASSUME GeyserAssumption ==
  /\ LastSlot \in Nat /\ KeepSlots \in Nat /\ MaxLag \in Nat
  /\ U64 \in Nat /\ U64 > LastSlot
  /\ Contents \in [Slots -> SUBSET Signatures]
  /\ InOrder \in BOOLEAN
  /\ Retention \in Nat /\ Retention > 1   \* longer than a tick
  /\ CleanPeriod \in Nat /\ ConfirmTimeout \in Nat \ {0}
  /\ None \notin Nat

VARIABLES
  chain,             \* external: the latest confirmed slot
  (* new_with_rpc *)
  startup,           \* its place
  rpc_slot,          \* what get_slot answered
  (* poll_blocks *)
  block_task,        \* its place
  in_flight,         \* external: the blocks the subscription still delivers
  block,             \* the block being handled
  to_cache,          \* block.transactions, what is left of them
  blockhash_cache,   \* the slot recorded for each blockhash
  recorded,          \* history: the slot last recorded for it
  (* poll_slots *)
  slot_task, cur_slot,
  (* signature_cache, the cleaner and confirm_transaction *)
  signature_cache,   \* the age of each entry
  clean_in,          \* the ticks the cleaner still sleeps
  call, elapsed,     \* the place of each call, and since when it waits
  awaited,           \* its signature
  polled,            \* it has looked at the cache in this tick, in vain
  seen               \* history: its signature was cached before its last look

startVars == <<startup, rpc_slot>>
blockVars == <<block_task, in_flight, block, to_cache>>
hashVars == <<blockhash_cache, recorded>>
slotVars == <<slot_task, cur_slot>>
sigVars == <<signature_cache, clean_in>>
callVars == <<call, elapsed, awaited, polled, seen>>
vars == <<chain, startVars, blockVars, hashVars, slotVars, sigVars, callVars>>

MaxAge == Retention + CleanPeriod

GeyserTypeOK ==
  /\ chain \in Slots
  /\ startup \in {"slot", "blockhash", "done"} /\ rpc_slot \in Slots
  /\ block_task \in {"unspawned", "connecting", "streaming", "retaining", "caching"}
  /\ in_flight \subseteq Slots /\ block \in Slots /\ to_cache \subseteq Signatures
  /\ blockhash_cache \in [Slots -> Slots \cup {None}]
  /\ recorded \in [Slots -> Slots \cup {None}]
  /\ slot_task \in {"unspawned", "connecting", "subscribed", "streaming", "dead"}
  /\ cur_slot \in Slots
  /\ signature_cache \in [Signatures -> Nat \cup {None}]
  /\ clean_in \in 0..CleanPeriod
  /\ call \in [Calls -> {"idle", "waiting", "landed", "timeout"}]
  /\ elapsed \in [Calls -> 0..ConfirmTimeout]
  /\ awaited \in [Calls -> Signatures \cup {None}]
  /\ polled \in [Calls -> BOOLEAN]
  /\ seen \in [Calls -> BOOLEAN]

Init ==
  /\ chain = 0
  /\ startup = "slot" /\ rpc_slot = 0
  /\ block_task = "unspawned" /\ in_flight = {} /\ block = 0 /\ to_cache = {}
  /\ blockhash_cache = [h \in Slots |-> None]
  /\ recorded = [h \in Slots |-> None]
  /\ slot_task = "unspawned" /\ cur_slot = 0
  /\ signature_cache = [s \in Signatures |-> None]
  /\ clean_in = 0
  /\ call = [c \in Calls |-> "idle"]
  /\ elapsed = [c \in Calls |-> 0]
  /\ awaited = [c \in Calls |-> None]
  /\ polled = [c \in Calls |-> FALSE]
  /\ seen = [c \in Calls |-> FALSE]

-----------------------------------------------------------------------------
(* The chain and the node.                                                  *)

(* A block is confirmed, possibly after skipped slots; the node sends it to *)
(* the open subscription.                                                   *)
ConfirmBlock ==
  \E s \in Slots :
    /\ s > chain
    /\ chain' = s
    /\ in_flight' = IF block_task \in {"unspawned", "connecting"} THEN in_flight
                    ELSE in_flight \cup {s}
    /\ UNCHANGED <<startVars, block_task, block, to_cache, hashVars, slotVars, sigVars, callVars>>

-----------------------------------------------------------------------------
(* new_with_rpc: initialize_blockhash_cache in two RPC calls, then the      *)
(* tasks are spawned.                                                       *)

RpcGetSlot ==
  /\ startup = "slot"
  /\ startup' = "blockhash"
  /\ rpc_slot' = chain
  /\ UNCHANGED <<chain, blockVars, hashVars, slotVars, sigVars, callVars>>

RememberHash(h, s) ==
  /\ blockhash_cache' = [blockhash_cache EXCEPT ![h] = s]
  /\ recorded' = [recorded EXCEPT ![h] = s]

(* The latest blockhash of now is recorded under the slot of then. *)
RpcGetBlockhash ==
  /\ startup = "blockhash"
  /\ startup' = "done"
  /\ RememberHash(chain, rpc_slot)
  /\ block_task' = "connecting"
  /\ slot_task' = "connecting"
  /\ UNCHANGED <<chain, rpc_slot, in_flight, block, to_cache, cur_slot, sigVars, callVars>>

-----------------------------------------------------------------------------
(* poll_blocks *)

(* Connecting and subscribing; a failure is retried after a second, which   *)
(* changes nothing.  The node starts from its own latest block.             *)
SubscribeBlocks ==
  /\ block_task = "connecting"
  /\ block_task' = "streaming"
  /\ \E lag \in 0..MaxLag : in_flight' = {s \in Slots : chain - lag < s /\ s <= chain}
  /\ UNCHANGED <<chain, startVars, block, to_cache, hashVars, slotVars, sigVars, callVars>>

(* The stream ends or errs, or a ping fails: what was under way is lost. *)
BlockStreamBreaks ==
  /\ block_task = "streaming"
  /\ block_task' = "connecting"
  /\ in_flight' = {}
  /\ UNCHANGED <<chain, startVars, block, to_cache, hashVars, slotVars, sigVars, callVars>>

(* executor.insert(blockhash, slot) *)
ReceiveBlock ==
  /\ block_task = "streaming"
  /\ \E s \in in_flight :
       /\ InOrder => \A t \in in_flight : s <= t
       /\ block' = s
       /\ in_flight' = in_flight \ {s}
       /\ to_cache' = Contents[s]
       /\ RememberHash(s, s)
  /\ block_task' = "retaining"
  /\ UNCHANGED <<chain, startVars, slotVars, sigVars, callVars>>

(* A block whose blockhash does not parse is skipped, signatures and all. *)
SkipBlock ==
  /\ block_task = "streaming"
  /\ \E s \in in_flight : in_flight' = in_flight \ {s}
  /\ UNCHANGED <<chain, startVars, block_task, block, to_cache, hashVars, slotVars,
                 sigVars, callVars>>

(* Keeps one slot less. *)
IsRecent_Mutant(s) == (block + U64 - s) % U64 < KeepSlots

(* current_slot - *s <= 150, in the wrapping arithmetic of a release build *)
IsRecent(s) == (block + U64 - s) % U64 <= KeepSlots

OldHashes == {h \in Slots : blockhash_cache[h] # None /\ ~IsRecent(blockhash_cache[h])}

(* executor.retain(..) drops the entries one by one. *)
DropHash ==
  /\ block_task = "retaining"
  /\ \E h \in OldHashes : blockhash_cache' = [blockhash_cache EXCEPT ![h] = None]
  /\ UNCHANGED <<chain, startVars, blockVars, recorded, slotVars, sigVars, callVars>>

(* Gives up the retain half way. *)
RetainDone_Mutant ==
  /\ block_task = "retaining"
  /\ block_task' = "caching"
  /\ UNCHANGED <<chain, startVars, in_flight, block, to_cache, hashVars, slotVars,
                 sigVars, callVars>>

RetainDone ==
  /\ block_task = "retaining" /\ OldHashes = {}
  /\ block_task' = "caching"
  /\ UNCHANGED <<chain, startVars, in_flight, block, to_cache, hashVars, slotVars,
                 sigVars, callVars>>

(* The call looks at the cache once more before it looks at the clock for   *)
(* the last time.                                                           *)
LookToCome(c) ==
  /\ call[c] = "waiting"
  /\ elapsed[c] < ConfirmTimeout
  /\ polled[c] => elapsed[c] + 1 < ConfirmTimeout

(* signature_cache.insert(signature, (block_time, now)) *)
CacheSignature ==
  /\ block_task = "caching"
  /\ \E s \in to_cache :
       /\ to_cache' = to_cache \ {s}
       /\ signature_cache' = [signature_cache EXCEPT ![s] = 0]
       /\ seen' = [c \in Calls |-> seen[c] \/ (awaited[c] = s /\ LookToCome(c))]
  /\ UNCHANGED <<chain, startVars, block_task, in_flight, block, hashVars, slotVars,
                 clean_in, call, elapsed, awaited, polled>>

BlockDone ==
  /\ block_task = "caching" /\ to_cache = {}
  /\ block_task' = "streaming"
  /\ UNCHANGED <<chain, startVars, in_flight, block, to_cache, hashVars, slotVars,
                 sigVars, callVars>>

-----------------------------------------------------------------------------
(* poll_slots *)

SlotStep == UNCHANGED <<chain, startVars, blockVars, hashVars, sigVars, callVars>>

SubscribeSlots ==
  /\ slot_task = "connecting"
  /\ slot_task' = "subscribed"
  /\ UNCHANGED cur_slot
  /\ SlotStep

(* grpc_tx.send(..).await.unwrap() on the fresh stream *)
SendSlotRequest ==
  /\ slot_task = "subscribed"
  /\ slot_task' = "streaming"
  /\ UNCHANGED cur_slot
  /\ SlotStep

(* The same when the stream has closed: the task panics. *)
SlotRequestPanics ==
  /\ slot_task = "subscribed"
  /\ slot_task' = "dead"
  /\ UNCHANGED cur_slot
  /\ SlotStep

(* cur_slot.store(slot): any slot, forks and reconnections included *)
ReceiveSlot ==
  /\ slot_task = "streaming"
  /\ cur_slot' \in Slots \ {0}
  /\ UNCHANGED slot_task
  /\ SlotStep

SlotStreamBreaks ==
  /\ slot_task = "streaming"
  /\ slot_task' = "connecting"
  /\ UNCHANGED cur_slot
  /\ SlotStep

-----------------------------------------------------------------------------
(* clean_signature_cache, confirm_transaction and the time they measure.    *)

(* Drops what it should keep. *)
IsFresh_Mutant(s) == signature_cache[s] >= Retention

(* v.elapsed().as_secs() < 90 *)
IsFresh(s) == signature_cache[s] < Retention

CleanSignatures ==
  /\ startup = "done" /\ clean_in = 0
  /\ signature_cache' = [s \in Signatures |->
       IF signature_cache[s] # None /\ IsFresh(s) THEN signature_cache[s] ELSE None]
  /\ clean_in' = CleanPeriod
  /\ UNCHANGED <<chain, startVars, blockVars, hashVars, slotVars, callVars>>

CallStep == UNCHANGED <<chain, startVars, blockVars, hashVars, slotVars, sigVars>>

StartCall(c) ==
  /\ startup = "done"
  /\ call[c] = "idle"
  /\ call' = [call EXCEPT ![c] = "waiting"]
  /\ \E s \in Signatures :
       /\ awaited' = [awaited EXCEPT ![c] = s]
       /\ seen' = [seen EXCEPT ![c] = signature_cache[s] # None /\ IsFresh(s)]
  /\ polled' = [polled EXCEPT ![c] = FALSE]
  /\ UNCHANGED elapsed
  /\ CallStep

(* The clock is looked at before the cache. *)
FindSignature(c) ==
  /\ call[c] = "waiting"
  /\ elapsed[c] < ConfirmTimeout
  /\ signature_cache[awaited[c]] # None
  /\ call' = [call EXCEPT ![c] = "landed"]
  /\ UNCHANGED <<elapsed, awaited, polled, seen>>
  /\ CallStep

(* It is not there: the call sleeps 10 ms, and that may be until the next   *)
(* tick.                                                                    *)
Look(c) ==
  /\ call[c] = "waiting" /\ ~polled[c]
  /\ elapsed[c] < ConfirmTimeout
  /\ signature_cache[awaited[c]] = None
  /\ polled' = [polled EXCEPT ![c] = TRUE]
  /\ UNCHANGED <<call, elapsed, awaited, seen>>
  /\ CallStep

(* The loop has no other way out than the signature. *)
TimeOut_Mutant(c) ==
  /\ call[c] = "waiting" /\ signature_cache[awaited[c]] # None
  /\ call' = [call EXCEPT ![c] = "landed"]
  /\ UNCHANGED <<elapsed, awaited, polled, seen>>
  /\ CallStep

(* The clock has run out during the last sleep: what was cached meanwhile   *)
(* is not looked at.                                                        *)
TimeOut(c) ==
  /\ call[c] = "waiting"
  /\ elapsed[c] >= ConfirmTimeout
  /\ call' = [call EXCEPT ![c] = "timeout"]
  /\ UNCHANGED <<elapsed, awaited, polled, seen>>
  /\ CallStep

(* Waiting calls sleep past their timeout. *)
NothingDue_Mutant == startup = "done" => clean_in > 0

(* A task that is due runs before the clock moves on. *)
NothingDue ==
  /\ startup = "done" => clean_in > 0
  /\ \A c \in Calls : call[c] = "waiting" => elapsed[c] < ConfirmTimeout /\ polled[c]

(* The cleaner sleeps without being woken again. *)
SleepLess_Mutant == clean_in

SleepLess == IF clean_in > 0 THEN clean_in - 1 ELSE 0

Tick ==
  /\ NothingDue
  /\ signature_cache' = [s \in Signatures |->
       IF signature_cache[s] = None THEN None ELSE signature_cache[s] + 1]
  /\ clean_in' = SleepLess
  /\ elapsed' = [c \in Calls |-> IF call[c] = "waiting" THEN elapsed[c] + 1 ELSE elapsed[c]]
  /\ polled' = [c \in Calls |-> FALSE]
  /\ UNCHANGED <<chain, startVars, blockVars, hashVars, slotVars, call, awaited, seen>>

-----------------------------------------------------------------------------
Startup == RpcGetSlot \/ RpcGetBlockhash

BlockTask ==
  \/ SubscribeBlocks
  \/ BlockStreamBreaks
  \/ ReceiveBlock
  \/ SkipBlock
  \/ DropHash
  \/ RetainDone
  \/ CacheSignature
  \/ BlockDone

SlotTask ==
  \/ SubscribeSlots
  \/ SendSlotRequest
  \/ SlotRequestPanics
  \/ ReceiveSlot
  \/ SlotStreamBreaks

Poll(c) == FindSignature(c) \/ Look(c) \/ TimeOut(c)

Next ==
  \/ ConfirmBlock
  \/ Startup
  \/ BlockTask
  \/ SlotTask
  \/ CleanSignatures
  \/ \E c \in Calls : StartCall(c) \/ Poll(c)
  \/ Tick

Spec == Init /\ [][Next]_vars

(* Startup's RPC calls return, the cleaner and the calls are woken when     *)
(* they are due, and time passes.  Nothing is asked of the streams.         *)
Fairness ==
  /\ WF_vars(Startup)
  /\ WF_vars(CleanSignatures)
  /\ WF_vars(Tick)
  /\ \A c \in Calls : WF_vars(Poll(c))

FairSpec == Spec /\ Fairness

-----------------------------------------------------------------------------
(* Safety.                                                                  *)

(* recorded within KeepSlots of the newest slot recorded for any blockhash  *)
Recent(h) ==
  /\ recorded[h] # None
  /\ \A g \in Slots : recorded[g] # None => recorded[g] <= recorded[h] + KeepSlots

(* "keep last 150 slots" (grpc_geyser.rs:169): no blockhash recorded for    *)
(* one of the last KeepSlots slots is ever missing, in the middle of the    *)
(* retain included; a bundle with it would be refused as expired.           *)
KeepsRecent == \A h \in Slots : Recent(h) => blockhash_cache[h] # None

(* "Clean up old blockhashes": outside of handling a block, nothing older   *)
(* is left, however many blocks were missed while reconnecting.             *)
DropsOld ==
  block_task # "retaining" => \A h \in Slots : blockhash_cache[h] # None => Recent(h)

(* A call that gives up was not passed over by its last look at the cache   *)
(* (grpc_geyser.rs:328): until then its signature was neither in the cache, *)
(* fresh, when it began nor cached while it waited, so that neither the     *)
(* cleaner nor a reconnection of the stream took away an entry before or    *)
(* between its polls.  What is cached after that look is another matter,    *)
(* see LandedIsFound.                                                       *)
TimeoutMeansUnseen == \A c \in Calls : call[c] = "timeout" => ~seen[c]

(* A signature is forgotten within Retention + CleanPeriod of being seen:   *)
(* the cache does not grow with the chain.                                  *)
SignaturesForgotten ==
  \A s \in Signatures : signature_cache[s] # None => signature_cache[s] <= MaxAge

(* Why these two hold, as an inductive invariant: a call whose signature    *)
(* was cached in time finds it fresh and has time left to look, by the next *)
(* tick if it has looked in vain in this one, and what an entry ages is     *)
(* time that the cleaner has slept.                                         *)
CallLedger ==
  \A c \in Calls :
    /\ call[c] = "idle" => elapsed[c] = 0
    /\ call[c] # "idle" => awaited[c] \in Signatures
    /\ call[c] = "waiting" /\ seen[c] =>
         /\ signature_cache[awaited[c]] # None /\ IsFresh(awaited[c])
         /\ LookToCome(c)
         /\ polled[c] => signature_cache[awaited[c]] = 0

AgeLedger ==
  /\ startup # "done" => block_task = "unspawned"
  /\ \A s \in Signatures :
       signature_cache[s] # None =>
         startup = "done" /\ signature_cache[s] + clean_in <= MaxAge

GeyserLedger ==
  /\ GeyserTypeOK
  /\ CallLedger
  /\ AgeLedger
  /\ TimeoutMeansUnseen

-----------------------------------------------------------------------------
(* Liveness, under FairSpec.                                                *)

(* confirm_transaction returns, whatever becomes of the block stream: the   *)
(* confirmer of a transaction never waits for good.                         *)
CallsReturn == \A c \in Calls : call[c] = "waiting" ~> call[c] # "waiting"

-----------------------------------------------------------------------------
(* What the source says of itself and the code does not do.                 *)

(* "in practice if a tx doesn't land in less than 60 seconds it's probably  *)
(* not going to land" (grpc_geyser.rs:326): a call gives up only what has   *)
(* not landed in that time.  What is in the cache with an age was cached    *)
(* before the clock ran out, if after the last look.                        *)
LandedIsFound ==
  [][\A c \in Calls : call[c] = "waiting" /\ call'[c] = "timeout" =>
       signature_cache[awaited[c]] \in {None, 0}]_vars
=============================================================================
