----------------------------- MODULE TxnSender -----------------------------
(***************************************************************************)
(* The tracking core of the service: the JSON-RPC sendTransaction handlers *)
(* (rpc_server.rs, transaction.rs), the transaction store they share       *)
(* (transaction_store.rs), the confirmer task each handler spawns and the  *)
(* retry loop (txn_sender.rs).                                             *)
(*                                                                         *)
(* All of them run in parallel on tokio's worker threads and meet in one   *)
(* DashMap keyed by signature.  A DashMap operation is atomic, a sequence  *)
(* of them is not: each action below is one such operation, with the       *)
(* thread-local work around it.                                            *)
(*                                                                         *)
(* A transaction is named by the request that brought it; two requests     *)
(* with one signature are a client's resubmission.  What the stored        *)
(* TransactionData holds is retry_count[r] and limit[r] of its request r.  *)
(*                                                                         *)
(* The operators that end in _Mutant are plausible slips of the code, used *)
(* to show that the properties below can fail; nothing else refers to them.*)
(***************************************************************************)
EXTENDS Naturals, FiniteSets

CONSTANTS
  Requests,        \* the sendTransaction calls
  Signatures,      \* the transaction signatures they carry
  MaxSendRetries,  \* max_txn_send_retries of the operator
  ParamRetries,    \* the values of params.max_retries clients send (None: absent)
  MaxQueue,        \* max_retry_queue_size, or None
  None             \* Option::None

ASSUME SenderAssumption ==
  /\ MaxSendRetries \in Nat
  /\ ParamRetries \subseteq Nat \cup {None}
  /\ MaxQueue \in Nat \cup {None}
  /\ None \notin Nat \cup Requests \cup Signatures

VARIABLES
  (* the handlers, one per request *)
  handler,      \* how far the handler of each request is
  sig,          \* the signature of the request's transaction
  limit,        \* TransactionData.max_retries
  (* the confirmer task of each request *)
  confirmer,
  (* the shared store *)
  store,        \* the request whose TransactionData is under each signature
  retry_count,  \* TransactionData.retry_count
  (* the retry loop *)
  loop,         \* its place in the iteration, or "dead" after a panic
  unvisited,    \* the keys the current iteration over the map still has to reach
  snapshot,     \* "transactions": what the shedding code collected
  doomed,       \* what is left of "transactions_to_remove"
  half,         \* the victim removed through the store and not yet through the map
  wire,         \* "wire_transactions"
  reached,      \* "transactions_reached_max_retries"
  (* history *)
  rounds        \* how often the retry loop handed each transaction to the leaders

taskVars == <<handler, sig, limit, confirmer>>
shedVars == <<snapshot, doomed, half>>
scanVars == <<unvisited, wire, reached>>
loopVars == <<loop, shedVars, scanVars, rounds>>
vars == <<taskVars, store, retry_count, loopVars>>

HandlerStates == {"idle", "refused", "duplicate", "unseen", "missing",
                  "tracked", "spawned", "replied", "panicked"}

(* The handler states before its transaction can be in the store. *)
Early == {"idle", "refused", "duplicate", "unseen", "missing"}

LoopStates == {"measure", "collect", "shed", "scan", "reap", "dead"}

Stored == {s \in Signatures : store[s] # None}

(* The TransactionData of r is in the store. *)
Live(r) == sig[r] \in Signatures /\ store[sig[r]] = r

TypeOK ==
  /\ handler \in [Requests -> HandlerStates]
  /\ sig \in [Requests -> Signatures \cup {None}]
  /\ limit \in [Requests -> 0..MaxSendRetries]
  /\ confirmer \in [Requests -> {"none", "waiting", "done"}]
  /\ store \in [Signatures -> Requests \cup {None}]
  /\ retry_count \in [Requests -> Nat]
  /\ rounds \in [Requests -> Nat]
  /\ loop \in LoopStates
  /\ unvisited \subseteq Signatures
  /\ snapshot \subseteq Requests
  /\ doomed \subseteq snapshot
  /\ half \in Requests \cup {None}
  /\ wire \subseteq Requests
  /\ reached \subseteq Signatures

Init ==
  /\ handler = [r \in Requests |-> "idle"]
  /\ sig = [r \in Requests |-> None]
  /\ limit = [r \in Requests |-> 0]
  /\ confirmer = [r \in Requests |-> "none"]
  /\ store = [s \in Signatures |-> None]
  /\ retry_count = [r \in Requests |-> 0]
  /\ rounds = [r \in Requests |-> 0]
  /\ loop = "measure"
  /\ unvisited = {}
  /\ snapshot = {}
  /\ doomed = {}
  /\ half = None
  /\ wire = {}
  /\ reached = {}

-----------------------------------------------------------------------------
(* The handler of a sendTransaction request.                                *)

(* A preflight request, an encoding that is not binary, bytes that do not   *)
(* decode, or a transaction without a signature (signatures[0] panics).     *)
Refuse(r) ==
  /\ handler[r] = "idle"
  /\ handler' = [handler EXCEPT ![r] = "refused"]
  /\ UNCHANGED <<sig, limit, confirmer, store, retry_count, loopVars>>

(* Takes the client's word for it. *)
GrantedRetries_Mutant(m) == IF m = None THEN MaxSendRetries ELSE m

(* std::cmp::min(max_txn_send_retries, params.max_retries or the former) *)
GrantedRetries(m) ==
  IF m # None /\ m < MaxSendRetries THEN m ELSE MaxSendRetries

(* Decoding, the TransactionData and the has_signature check that follows. *)
Receive(r) ==
  /\ handler[r] = "idle"
  /\ \E s \in Signatures, m \in ParamRetries :
       /\ sig' = [sig EXCEPT ![r] = s]
       /\ limit' = [limit EXCEPT ![r] = GrantedRetries(m)]
       /\ handler' = [handler EXCEPT ![r] = IF s \in Stored THEN "duplicate" ELSE "unseen"]
  /\ UNCHANGED <<confirmer, store, retry_count, loopVars>>

(* track_transaction, up to contains_key in add_transaction, which returns *)
(* early on a key another handler has inserted meanwhile.                  *)
CheckStored(r) ==
  /\ handler[r] = "unseen"
  /\ handler' = [handler EXCEPT ![r] = IF sig[r] \in Stored THEN "tracked" ELSE "missing"]
  /\ UNCHANGED <<sig, limit, confirmer, store, retry_count, loopVars>>

(* DashMap::insert of add_transaction: overwrites what is there by now. *)
InsertTransaction(r) ==
  /\ handler[r] = "missing"
  /\ handler' = [handler EXCEPT ![r] = "tracked"]
  /\ store' = [store EXCEPT ![sig[r]] = r]
  /\ UNCHANGED <<sig, limit, confirmer, retry_count, loopVars>>

(* compute_priority_details: an instruction whose program id index is out  *)
(* of range panics the handler, which leaves its transaction in the store. *)
PriorityPanics(r) ==
  /\ handler[r] = "tracked"
  /\ handler' = [handler EXCEPT ![r] = "panicked"]
  /\ UNCHANGED <<sig, limit, confirmer, store, retry_count, loopVars>>

SpawnConfirmer(r) ==
  /\ handler[r] = "tracked"
  /\ handler' = [handler EXCEPT ![r] = "spawned"]
  /\ confirmer' = [confirmer EXCEPT ![r] = "waiting"]
  /\ UNCHANGED <<sig, limit, store, retry_count, loopVars>>

(* The first send to the leaders, and the reply. *)
SendToLeaders(r) ==
  /\ handler[r] = "spawned"
  /\ handler' = [handler EXCEPT ![r] = "replied"]
  /\ UNCHANGED <<sig, limit, confirmer, store, retry_count, loopVars>>

-----------------------------------------------------------------------------
(* The confirmer task: confirm_transaction returns, because the signature   *)
(* was seen in a block or because 60 seconds passed, and whatever is stored *)
(* under the signature is removed.                                          *)

(* Forgets the entry only when the transaction landed. *)
ConfirmReturns_Mutant(r) ==
  /\ confirmer[r] = "waiting"
  /\ confirmer' = [confirmer EXCEPT ![r] = "done"]
  /\ \/ store' = [store EXCEPT ![sig[r]] = None]
     \/ UNCHANGED store
  /\ UNCHANGED <<handler, sig, limit, retry_count, loopVars>>

ConfirmReturns(r) ==
  /\ confirmer[r] = "waiting"
  /\ confirmer' = [confirmer EXCEPT ![r] = "done"]
  /\ store' = [store EXCEPT ![sig[r]] = None]
  /\ UNCHANGED <<handler, sig, limit, retry_count, loopVars>>

-----------------------------------------------------------------------------
(* The retry loop.  One iteration: read the queue length, shed if it is     *)
(* over the limit, scan the map, send, remove the exhausted, sleep.         *)

(* transaction_map.len() and the comparison with max_retry_queue_size *)
MeasureQueue ==
  /\ loop = "measure"
  /\ loop' = IF MaxQueue # None /\ Cardinality(Stored) > MaxQueue THEN "collect" ELSE "scan"
  /\ unvisited' = Signatures
  /\ UNCHANGED <<taskVars, store, retry_count, shedVars, wire, reached, rounds>>

(* One step of transaction_map.iter().map(..).collect(). *)
CollectEntry(s) ==
  /\ loop = "collect"
  /\ s \in unvisited
  /\ unvisited' = unvisited \ {s}
  /\ snapshot' = snapshot \cup ({store[s]} \ {None})
  /\ UNCHANGED <<taskVars, store, retry_count, loop, doomed, half, wire, reached, rounds>>

(* Sorts the other way. *)
IsSortedPrefix_Mutant(keep) ==
  \A k \in keep, v \in snapshot \ keep : retry_count[k] >= retry_count[v]

(* keep is a prefix of transactions sorted by retry_count: the sort is      *)
(* stable and the order of the map arbitrary, so ties fall either way.      *)
IsSortedPrefix(keep) ==
  \A k \in keep, v \in snapshot \ keep : retry_count[k] <= retry_count[v]

(* Keeps one entry more. *)
StartShedding_Mutant ==
  /\ loop = "collect" /\ unvisited = {}
  /\ \E keep \in SUBSET snapshot :
       /\ Cardinality(keep) = MaxQueue + 2
       /\ IsSortedPrefix(keep)
       /\ doomed' = snapshot \ keep
  /\ loop' = "shed"
  /\ UNCHANGED <<taskVars, store, retry_count, snapshot, half, scanVars, rounds>>

(* sort_by, then transactions[(max_size + 1)..] *)
StartShedding ==
  /\ loop = "collect" /\ unvisited = {}
  /\ \E keep \in SUBSET snapshot :
       /\ Cardinality(keep) = MaxQueue + 1
       /\ IsSortedPrefix(keep)
       /\ doomed' = snapshot \ keep
  /\ loop' = "shed"
  /\ UNCHANGED <<taskVars, store, retry_count, snapshot, half, scanVars, rounds>>

(* The same slice of a shorter vector is out of range: the task panics and  *)
(* nothing restarts it.                                                     *)
SlicePanics ==
  /\ loop = "collect" /\ unvisited = {}
  /\ Cardinality(snapshot) < MaxQueue + 1
  /\ loop' = "dead"
  /\ UNCHANGED <<taskVars, store, retry_count, shedVars, scanVars, rounds>>

(* transaction_store.remove_transaction(signature) *)
ShedFromStore(r) ==
  /\ loop = "shed" /\ half = None
  /\ r \in doomed
  /\ store' = [store EXCEPT ![sig[r]] = None]
  /\ half' = r
  /\ UNCHANGED <<taskVars, retry_count, loop, snapshot, doomed, scanVars, rounds>>

(* transaction_map.remove(&signature): the same map and key once more *)
ShedFromMap ==
  /\ loop = "shed" /\ half # None
  /\ store' = [store EXCEPT ![sig[half]] = None]
  /\ doomed' = doomed \ {half}
  /\ half' = None
  /\ UNCHANGED <<taskVars, retry_count, loop, snapshot, scanVars, rounds>>

StartScan ==
  /\ loop = "shed" /\ doomed = {}
  /\ loop' = "scan"
  /\ unvisited' = Signatures
  /\ UNCHANGED <<taskVars, store, retry_count, shedVars, wire, reached, rounds>>

(* One step of transaction_map.iter_mut(): an entry with retries left is    *)
(* counted, one without is noted for removal; both are sent once more.      *)
VisitEntry(s) ==
  /\ loop = "scan"
  /\ s \in unvisited
  /\ unvisited' = unvisited \ {s}
  /\ UNCHANGED <<taskVars, store, loop, shedVars, rounds>>

VisitAbsent(s) ==
  /\ VisitEntry(s)
  /\ store[s] = None
  /\ UNCHANGED <<retry_count, wire, reached>>

(* Counts with <= where the code has <. *)
VisitRetry_Mutant(s) ==
  /\ VisitEntry(s)
  /\ store[s] # None
  /\ retry_count[store[s]] <= limit[store[s]]
  /\ retry_count' = [retry_count EXCEPT ![store[s]] = @ + 1]
  /\ wire' = wire \cup {store[s]}
  /\ UNCHANGED reached

VisitRetry(s) ==
  /\ VisitEntry(s)
  /\ store[s] # None
  /\ retry_count[store[s]] < limit[store[s]]
  /\ retry_count' = [retry_count EXCEPT ![store[s]] = @ + 1]
  /\ wire' = wire \cup {store[s]}
  /\ UNCHANGED reached

(* An entry without retries left is passed over. *)
VisitExhausted_Mutant(s) ==
  /\ VisitEntry(s)
  /\ store[s] # None
  /\ retry_count[store[s]] >= limit[store[s]]
  /\ UNCHANGED <<retry_count, wire, reached>>

VisitExhausted(s) ==
  /\ VisitEntry(s)
  /\ store[s] # None
  /\ retry_count[store[s]] >= limit[store[s]]
  /\ wire' = wire \cup {store[s]}
  /\ reached' = reached \cup {s}
  /\ UNCHANGED retry_count

(* Empties the batch before it is sent. *)
SendBatch_Mutant ==
  /\ loop = "scan" /\ unvisited = {}
  /\ wire' = {}
  /\ loop' = "reap"
  /\ UNCHANGED <<taskVars, store, retry_count, shedVars, unvisited, reached, rounds>>

(* Every collected wire transaction goes to the current leaders. *)
SendBatch ==
  /\ loop = "scan" /\ unvisited = {}
  /\ rounds' = [r \in Requests |-> IF r \in wire THEN rounds[r] + 1 ELSE rounds[r]]
  /\ wire' = {}
  /\ loop' = "reap"
  /\ UNCHANGED <<taskVars, store, retry_count, shedVars, unvisited, reached>>

(* Reaches for the key without removing it. *)
ReapReached_Mutant(s) ==
  /\ loop = "reap"
  /\ s \in reached
  /\ reached' = reached \ {s}
  /\ UNCHANGED <<taskVars, store, retry_count, loop, shedVars, unvisited, wire, rounds>>

ReapReached(s) ==
  /\ loop = "reap"
  /\ s \in reached
  /\ store' = [store EXCEPT ![s] = None]
  /\ reached' = reached \ {s}
  /\ UNCHANGED <<taskVars, retry_count, loop, shedVars, unvisited, wire, rounds>>

(* The vectors of the iteration are dropped, the interval is slept. *)
Sleep ==
  /\ loop = "reap" /\ reached = {}
  /\ loop' = "measure"
  /\ snapshot' = {}
  /\ UNCHANGED <<taskVars, store, retry_count, doomed, half, scanVars, rounds>>

-----------------------------------------------------------------------------
HandlerStep(r) ==
  \/ CheckStored(r)
  \/ InsertTransaction(r)
  \/ PriorityPanics(r)
  \/ SpawnConfirmer(r)
  \/ SendToLeaders(r)

RetryLoop ==
  \/ MeasureQueue
  \/ \E s \in Signatures : CollectEntry(s)
  \/ StartShedding
  \/ SlicePanics
  \/ \E r \in Requests : ShedFromStore(r)
  \/ ShedFromMap
  \/ StartScan
  \/ \E s \in Signatures : VisitAbsent(s) \/ VisitRetry(s) \/ VisitExhausted(s)
  \/ SendBatch
  \/ \E s \in Signatures : ReapReached(s)
  \/ Sleep

Next ==
  \/ \E r \in Requests : Refuse(r) \/ Receive(r) \/ HandlerStep(r) \/ ConfirmReturns(r)
  \/ RetryLoop

Spec == Init /\ [][Next]_vars

(* The runtime keeps polling the spawned tasks and a handler has no await   *)
(* once it has started; a confirmer returns within 60 seconds.  Requests    *)
(* need not arrive.                                                         *)
Fairness ==
  /\ \A r \in Requests : WF_vars(HandlerStep(r)) /\ WF_vars(ConfirmReturns(r))
  /\ WF_vars(RetryLoop)

FairSpec == Spec /\ Fairness

-----------------------------------------------------------------------------
(* Safety.                                                                  *)

(* Nothing is stored that nobody will remove: the transaction in the store  *)
(* belongs to a handler about to spawn its confirmer, or to one whose       *)
(* confirmer has not returned, or to one that panicked in between.  It is   *)
(* not obvious, because removals go by signature: a removal may hit another *)
(* request's entry, but never leaves an entry its own confirmer has missed. *)
NoOrphan ==
  \A r \in Requests :
    Live(r) => handler[r] \in {"tracked", "panicked"} \/ confirmer[r] = "waiting"

(* The retry loop sends a transaction at most once more than the retries it *)
(* was granted, whatever is inserted, overwritten or removed meanwhile.     *)
RoundsBounded ==
  \A r \in Requests : rounds[r] <= limit[r] + 1

(* However many entries were over the limit, shedding leaves at most one of *)
(* those it saw too many, whoever else removed or replaced some meanwhile.  *)
(* That one is the slice's off-by-one, see ShedsToLimit.                    *)
ShedExcess ==
  loop \in {"scan", "reap"} /\ MaxQueue # None =>
    Cardinality({r \in snapshot : Live(r)}) <= MaxQueue + 1

(* No entry still to be shed has been retried less often than one of the    *)
(* ranked entries that stay ("transactions with highest retry count").      *)
ShedsTheMostRetried ==
  loop = "shed" =>
    \A v \in doomed, k \in snapshot \ doomed : Live(k) => retry_count[k] <= retry_count[v]

(* Why RoundsBounded and NoOrphan hold, as an inductive invariant.          *)

(* An entry is stored under the signature of its transaction. *)
StoreKeyed == \A s \in Stored : sig[store[s]] = s

SigDecoded ==
  \A r \in Requests : handler[r] \notin {"idle", "refused"} => sig[r] \in Signatures

(* Before add_transaction a request has left no trace. *)
EarlyClean ==
  \A r \in Requests :
    handler[r] \in Early =>
      /\ ~Live(r) /\ r \notin wire /\ r \notin snapshot
      /\ retry_count[r] = 0 /\ rounds[r] = 0
      /\ confirmer[r] = "none"

(* The batch holds no entry the scan has yet to reach, and is empty while   *)
(* no scan is under way.                                                    *)
ScanOnce ==
  /\ \A r \in wire : sig[r] \notin unvisited
  /\ reached \cap unvisited = {}
  /\ loop \in {"measure", "collect", "shed"} => reached = {}
  /\ loop \in {"measure", "collect", "shed", "reap"} => wire = {}

(* The shedding vectors are only in use while shedding. *)
ShedClean ==
  /\ doomed # {} => loop = "shed"
  /\ half # None => half \in doomed

Handed(r) == rounds[r] + (IF r \in wire THEN 1 ELSE 0)

(* retry_count keeps up with the sends, but for the last one: that one      *)
(* comes with the removal of the entry.                                     *)
RetryLedger ==
  \A r \in Requests :
    /\ retry_count[r] <= limit[r]
    /\ \/ Handed(r) <= retry_count[r]
       \/ Handed(r) <= limit[r] + 1 /\ (Live(r) => sig[r] \in reached)

(* The retry bookkeeping: what the sends, the store and the handlers agree  *)
(* on between any two operations of any two tasks.                          *)
Bookkeeping ==
  /\ TypeOK
  /\ StoreKeyed
  /\ SigDecoded
  /\ EarlyClean
  /\ NoOrphan
  /\ ScanOnce
  /\ ShedClean
  /\ ShedsTheMostRetried
  /\ RetryLedger

(* The service implements what it promises about retrying: an entry being   *)
(* open until it has left the store and the batch under way.                *)
Stage(r) ==
  CASE Live(r) \/ r \in wire -> "open"
    [] handler[r] = "refused" -> "refused"
    [] handler[r] \in {"idle", "unseen", "missing"} -> "new"
    [] OTHER -> "closed"

Stages == [r \in Requests |-> Stage(r)]

Budgets == [r \in Requests |-> IF Stage(r) \in {"new", "refused"} THEN 0 ELSE limit[r]]

Known == [r \in Requests |-> IF Stage(r) \in {"new", "refused"} THEN None ELSE sig[r]]

Contract == INSTANCE RetryContract WITH
  stage <- Stages, signature <- Known, budget <- Budgets, resends <- rounds

(* Requests are refused, declined in favour of an open one with the same    *)
(* signature, or opened and resent within their budget until they are       *)
(* closed for good; only a request with the same signature displaces one.   *)
ImplementsContract == Contract!ContractSpec

-----------------------------------------------------------------------------
(* Liveness, under FairSpec.                                                *)

(* Every stored transaction leaves the store, even when its handler panics  *)
(* before it has a confirmer.                                               *)
EventuallyForgotten == \A r \in Requests : Live(r) ~> ~Live(r)

(* A request answered as a duplicate is not answered for nothing: some      *)
(* request with its signature is handed to the leaders, by its handler or   *)
(* by the retry loop.                                                       *)
DuplicateIsSent ==
  \A r \in Requests :
    handler[r] = "duplicate" ~>
      \E q \in Requests : sig[q] = sig[r] /\ (rounds[q] > 0 \/ handler[q] = "replied")

-----------------------------------------------------------------------------
(* What the source says of itself and the code does not do.                 *)

(* "Shed transactions by retry_count, if necessary." (txn_sender.rs:126):   *)
(* shedding is part of a loop that goes on; it never ends the loop.         *)
RetryLoopAlive == loop # "dead"

(* "Transaction retry queue length is over the limit of {}" (txn_sender.rs: *)
(* 130) and records_dropped = queue_length - max_size (144): of what a pass *)
(* has ranked, no more than max_retry_queue_size entries are left.          *)
ShedsToLimit ==
  loop \in {"scan", "reap"} /\ MaxQueue # None =>
    Cardinality({r \in snapshot : Live(r)}) <= MaxQueue

(* "Load shedding transactions with highest retry count" (txn_sender.rs:    *)
(* 130): what shedding removes is an entry it has ranked by retry count.    *)
ShedsOnlyRanked ==
  [][\A v \in Requests :
       ShedFromStore(v) \/ ShedFromMap =>
         \A r \in Requests : Live(r) /\ store'[sig[r]] # r => r \in snapshot]_vars
=============================================================================
