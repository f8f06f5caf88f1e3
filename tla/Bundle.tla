------------------------------- MODULE Bundle -------------------------------
(***************************************************************************)
(* Bundles: the sendTransactionBundle handler (rpc_server.rs,              *)
(* transaction.rs, txn_sender.rs), which sends the transactions of a       *)
(* bundle one by one through the RPC node and waits for each               *)
(* (vendor/solana_rpc.rs), and the example client send_bundle.rs.          *)
(*                                                                         *)
(* The clients share their accounts, their amount and so everything but    *)
(* the blockhash: a transaction is named by its blockhash, and that by its *)
(* block.  Two clients may then send the very same transaction, and so may *)
(* one client twice.                                                       *)
(*                                                                         *)
(* External: the chain, the RPC node, whose replies may be lost, and the   *)
(* block stream that fills the blockhash cache (module GrpcGeyser, with    *)
(* blocks in order).  The handler is not asynchronous: it occupies a       *)
(* worker of the runtime for as long as it takes, which the block stream   *)
(* and the other handlers have to do without.                              *)
(***************************************************************************)
EXTENDS Naturals, Sequences

CONSTANTS
  Bundles,      \* the sendTransactionBundle requests
  Examples,     \* those the example client makes
  Size,         \* bound: the transactions of each bundle
  LastBlock,    \* bound: the last block of the chain
  KeepSlots,    \* the slots whose blockhash the cache keeps (150)
  ValidSlots,   \* external: the slots for which the chain accepts a blockhash
  RetryCount,   \* DEFAULT_RETRY_COUNT (3)
  FreeWorkers,  \* how many workers poll_slot, which occupies one for good
                \* (leader_tracker.rs:64), may leave the runtime
  Malformed     \* an item that does not decode, or decodes to no signature
                \* (whose logging panics, transaction.rs:90)

Blockhashes == 0..LastBlock

ASSUME BundleAssumption ==
  /\ Examples \subseteq Bundles
  /\ Size \in [Bundles -> Nat] /\ LastBlock \in Nat /\ KeepSlots \in Nat
  /\ ValidSlots \in Nat /\ RetryCount \in Nat
  /\ FreeWorkers \subseteq Nat \ {0}
  /\ Malformed \notin Nat

VARIABLES
  (* external *)
  latest,           \* the latest block
  ledger,           \* what the chain knows of each transaction
  landings,         \* history: the transactions that landed, in order
  (* the cache of GrpcGeyser *)
  blockhash_cache,  \* its keys
  free_workers,     \* the workers of the runtime that are not occupied
  (* the client and the handler of each bundle *)
  place,            \* how far they are
  transactions,     \* the bundle
  current,          \* the transaction in hand
  attempt,          \* of sending it, from 0
  signatures,       \* the transactions reported under "signatures"
  errors            \* the transactions reported under "errors", and what for

chainVars == <<latest, ledger, landings>>
answerVars == <<signatures, errors>>
handlerVars == <<place, transactions, current, attempt, answerVars>>
vars == <<chainVars, blockhash_cache, free_workers, handlerVars>>

Reasons == {"expired", "send failed", "failed", "timeout"}

BundleTypeOK ==
  /\ latest \in Blockhashes
  /\ ledger \in [Blockhashes -> {"unknown", "received", "landed", "failed"}]
  /\ landings \in Seq(Blockhashes)
  /\ blockhash_cache \subseteq Blockhashes
  /\ free_workers \in Nat
  /\ place \in [Bundles -> {"building", "submitted", "refused",
                           "checking", "sending", "polling", "answered"}]
  /\ transactions \in [Bundles -> Seq(Blockhashes \cup {Malformed})]
  /\ current \in [Bundles -> Nat]
  /\ attempt \in [Bundles -> 0..RetryCount]
  /\ signatures \in [Bundles -> Seq(Nat)]
  /\ errors \in [Bundles -> Seq(Nat \X Reasons)]

Init ==
  /\ latest = 0
  /\ ledger = [h \in Blockhashes |-> "unknown"]
  /\ landings = <<>>
  /\ blockhash_cache = {0}
  /\ free_workers \in FreeWorkers
  /\ place = [b \in Bundles |-> "building"]
  /\ transactions = [b \in Bundles |-> <<>>]
  /\ current = [b \in Bundles |-> 1]
  /\ attempt = [b \in Bundles |-> 0]
  /\ signatures = [b \in Bundles |-> <<>>]
  /\ errors = [b \in Bundles |-> <<>>]

-----------------------------------------------------------------------------
(* The chain and the block stream.                                          *)

NewBlock ==
  /\ latest < LastBlock
  /\ latest' = latest + 1
  /\ UNCHANGED <<ledger, landings, blockhash_cache, free_workers, handlerVars>>

Valid(h) == latest <= h + ValidSlots

(* A received transaction is executed, with success or not; one whose       *)
(* blockhash has expired never is.                                          *)
Execute(h) ==
  /\ ledger[h] = "received" /\ Valid(h)
  /\ \/ /\ ledger' = [ledger EXCEPT ![h] = "landed"]
        /\ landings' = Append(landings, h)
     \/ /\ ledger' = [ledger EXCEPT ![h] = "failed"]
        /\ UNCHANGED landings
  /\ UNCHANGED <<latest, blockhash_cache, free_workers, handlerVars>>

(* The stream delivers a block, those before it may have been missed.  Its  *)
(* task runs on the same workers as the handlers.                           *)
CacheBlock ==
  /\ free_workers > 0
  /\ \E h \in Blockhashes :
       /\ h <= latest /\ \A g \in blockhash_cache : g < h
       /\ blockhash_cache' = {g \in blockhash_cache \cup {h} : h <= g + KeepSlots}
  /\ UNCHANGED <<chainVars, free_workers, handlerVars>>

-----------------------------------------------------------------------------
(* The client.                                                              *)

AddTransaction(b, item) ==
  /\ place[b] = "building" /\ Len(transactions[b]) < Size[b]
  /\ transactions' = [transactions EXCEPT ![b] = Append(@, item)]
  /\ UNCHANGED <<chainVars, blockhash_cache, free_workers, place, current, attempt, answerVars>>

(* send_bundle.rs: one more transfer, under the latest blockhash; the delay *)
(* after it is any number of NewBlock steps.                                *)
BuildTransaction(b) == b \in Examples /\ AddTransaction(b, latest)

(* Other clients send what they like. *)
ForeignTransaction(b) ==
  /\ b \notin Examples
  /\ \E item \in 0..latest \cup {Malformed} : AddTransaction(b, item)

SubmitBundle(b) ==
  /\ place[b] = "building"
  /\ place' = [place EXCEPT ![b] = "submitted"]
  /\ UNCHANGED <<chainVars, blockhash_cache, free_workers, transactions, current, attempt,
                 answerVars>>

-----------------------------------------------------------------------------
(* The handler: TxnSenderImpl::send_transaction_bundle and, for each        *)
(* transaction, send_and_encode_transaction.                                *)

(* A worker takes the request up: the parameters are validated and all      *)
(* transactions decoded before any is sent.                                 *)
StartHandler(b) ==
  /\ place[b] = "submitted" /\ free_workers > 0
  /\ \/ /\ \A i \in 1..Len(transactions[b]) : transactions[b][i] # Malformed
        /\ place' = [place EXCEPT ![b] = "checking"]
        /\ free_workers' = free_workers - 1
     \/ /\ b \in Examples => \E i \in 1..Len(transactions[b]) : transactions[b][i] = Malformed
        /\ place' = [place EXCEPT ![b] = "refused"]
        /\ UNCHANGED free_workers
  /\ UNCHANGED <<chainVars, blockhash_cache, transactions, current, attempt, answerVars>>

InHand(b) == transactions[b][current[b]]

(* The loop goes on with the next transaction. *)
NextTransaction(b) ==
  /\ place' = [place EXCEPT ![b] = "checking"]
  /\ current' = [current EXCEPT ![b] = @ + 1]
  /\ attempt' = [attempt EXCEPT ![b] = 0]
  /\ UNCHANGED <<latest, landings, blockhash_cache, free_workers, transactions>>

Succeed(b) ==
  /\ signatures' = [signatures EXCEPT ![b] = Append(@, current[b])]
  /\ UNCHANGED errors

Fail(b, reason) ==
  /\ errors' = [errors EXCEPT ![b] = Append(@, <<current[b], reason>>)]
  /\ UNCHANGED signatures

(* Reports the error and sends the transaction all the same. *)
RefuseExpired_Mutant(b) ==
  /\ place[b] = "checking" /\ current[b] <= Len(transactions[b])
  /\ InHand(b) \notin blockhash_cache
  /\ Fail(b, "expired")
  /\ place' = [place EXCEPT ![b] = "sending"]
  /\ UNCHANGED <<chainVars, blockhash_cache, free_workers, transactions, current, attempt>>

(* recent_blockhash_cache.iter().any(..) does not find the blockhash. *)
RefuseExpired(b) ==
  /\ place[b] = "checking" /\ current[b] <= Len(transactions[b])
  /\ InHand(b) \notin blockhash_cache
  /\ Fail(b, "expired")
  /\ NextTransaction(b)
  /\ UNCHANGED ledger

AcceptBlockhash(b) ==
  /\ place[b] = "checking" /\ current[b] <= Len(transactions[b])
  /\ InHand(b) \in blockhash_cache
  /\ place' = [place EXCEPT ![b] = "sending"]
  /\ UNCHANGED <<chainVars, blockhash_cache, free_workers, transactions, current, attempt,
                 answerVars>>

(* The reply is sent and the worker is free again. *)
Answer(b) ==
  /\ place[b] = "checking" /\ current[b] > Len(transactions[b])
  /\ place' = [place EXCEPT ![b] = "answered"]
  /\ free_workers' = free_workers + 1
  /\ UNCHANGED <<chainVars, blockhash_cache, transactions, current, attempt, answerVars>>

(* External: the node's preflight lets a transaction through that is not    *)
(* executed yet and whose blockhash has not expired.                        *)
PassesPreflight(h) == ledger[h] \in {"unknown", "received"} /\ Valid(h)

Receive(b) == ledger' = [ledger EXCEPT ![InHand(b)] = "received"]

(* Skips the preflight, as the clients' parameters ask for. *)
SendAccepted_Mutant(b) ==
  /\ place[b] = "sending"
  /\ IF PassesPreflight(InHand(b)) THEN Receive(b) ELSE UNCHANGED ledger
  /\ place' = [place EXCEPT ![b] = "polling"]
  /\ UNCHANGED <<latest, landings, blockhash_cache, free_workers, transactions, current,
                 attempt, answerVars>>

SendAccepted(b) ==
  /\ place[b] = "sending"
  /\ PassesPreflight(InHand(b))
  /\ Receive(b)
  /\ place' = [place EXCEPT ![b] = "polling"]
  /\ UNCHANGED <<latest, landings, blockhash_cache, free_workers, transactions, current,
                 attempt, answerVars>>

(* send_transaction_with_config returns an error: the node is out of reach, *)
(* or refuses the transaction, or its reply is lost on the way back.        *)
SendErrs(b) ==
  /\ place[b] = "sending"
  /\ \/ UNCHANGED ledger
     \/ PassesPreflight(InHand(b)) /\ Receive(b)
  /\ UNCHANGED <<latest, landings, blockhash_cache, free_workers, transactions>>

(* Makes one attempt more. *)
MoreAttempts_Mutant(b) == attempt[b] <= RetryCount

MoreAttempts(b) == attempt[b] < RetryCount

(* The delay is slept and the next attempt made. *)
RetrySend(b) ==
  /\ SendErrs(b) /\ MoreAttempts(b)
  /\ attempt' = [attempt EXCEPT ![b] = @ + 1]
  /\ UNCHANGED <<place, current, answerVars>>

GiveUpSending(b) ==
  /\ SendErrs(b) /\ ~MoreAttempts(b)
  /\ Fail(b, "send failed")
  /\ NextTransaction(b)

(* Takes any status for a success. *)
StatusLanded_Mutant(b) ==
  /\ place[b] = "polling"
  /\ ledger[InHand(b)] \in {"landed", "failed"}
  /\ Succeed(b)
  /\ NextTransaction(b)
  /\ UNCHANGED ledger

(* get_signature_status answers that the transaction was executed. *)
StatusLanded(b) ==
  /\ place[b] = "polling"
  /\ ledger[InHand(b)] = "landed"
  /\ Succeed(b)
  /\ NextTransaction(b)
  /\ UNCHANGED ledger

StatusFailed(b) ==
  /\ place[b] = "polling"
  /\ ledger[InHand(b)] = "failed"
  /\ Fail(b, "failed")
  /\ NextTransaction(b)
  /\ UNCHANGED ledger

(* Polls for as long as there is no status. *)
StatusTimeout_Mutant(b) ==
  /\ place[b] = "polling"
  /\ ledger[InHand(b)] # "received"
  /\ Fail(b, "timeout")
  /\ NextTransaction(b)
  /\ UNCHANGED ledger

(* It errs, which breaks the loop, or the 30 seconds have passed between    *)
(* two polls, whatever has become of the transaction since.                 *)
StatusTimeout(b) ==
  /\ place[b] = "polling"
  /\ Fail(b, "timeout")
  /\ NextTransaction(b)
  /\ UNCHANGED ledger

-----------------------------------------------------------------------------
Client(b) == BuildTransaction(b) \/ ForeignTransaction(b) \/ SubmitBundle(b)

Handler(b) ==
  \/ RefuseExpired(b)
  \/ AcceptBlockhash(b)
  \/ Answer(b)
  \/ SendAccepted(b)
  \/ RetrySend(b)
  \/ GiveUpSending(b)
  \/ StatusLanded(b)
  \/ StatusFailed(b)
  \/ StatusTimeout(b)

Next ==
  \/ NewBlock
  \/ CacheBlock
  \/ \E h \in Blockhashes : Execute(h)
  \/ \E b \in Bundles : Client(b) \/ StartHandler(b) \/ Handler(b)

Spec == Init /\ [][Next]_vars

(* A free worker takes up what is to be done.  The handler is a thread that *)
(* blocks in RPC calls with timeouts and in sleeps.  The chain and the node *)
(* owe it nothing.                                                          *)
Fairness == \A b \in Bundles : WF_vars(StartHandler(b)) /\ WF_vars(Handler(b))

FairSpec == Spec /\ Fairness

-----------------------------------------------------------------------------
(* Safety.                                                                  *)

Succeeded(b) == {signatures[b][k] : k \in DOMAIN signatures[b]}

(* n transactions dealt with, each in one of two lists in their order *)
Accounted(done, failed, n) ==
  /\ {done[k] : k \in DOMAIN done} \cup {failed[k][1] : k \in DOMAIN failed} = 1..n
  /\ Len(done) + Len(failed) = n
  /\ \A k, l \in DOMAIN done : k < l => done[k] < done[l]
  /\ \A k, l \in DOMAIN failed : k < l => failed[k][1] < failed[l][1]

(* Whatever fails on the way, each transaction the handler is through with  *)
(* is reported exactly once, under "signatures" or under "errors", and both *)
(* lists follow the order of the bundle.                                    *)
OneOutcomeEach ==
  \A b \in Bundles : Accounted(signatures[b], errors[b], current[b] - 1)

(* What is reported as a success has landed, although the node's answers    *)
(* may be lost and another client may have sent the transaction.            *)
SuccessLanded ==
  \A b \in Bundles : \A i \in Succeeded(b) : ledger[transactions[b][i]] = "landed"

(* The successes of a bundle landed one after the other in the order of the *)
(* bundle, each on its own: a transaction that is in the bundle twice does  *)
(* not count twice.                                                         *)
SuccessesLandInOrder ==
  \A b \in Bundles : \A i, j \in Succeeded(b) :
    i < j => \E k, l \in DOMAIN landings :
               /\ k < l
               /\ landings[k] = transactions[b][i] /\ landings[l] = transactions[b][j]

-----------------------------------------------------------------------------
(* The contract's view of a bundle.                                         *)

Stage(b) ==
  CASE place[b] \in {"building", "submitted"} -> "new"
    [] place[b] \in {"refused", "answered"} -> place[b]
    [] OTHER -> "open"

Failed(b) == {errors[b][k][1] : k \in DOMAIN errors[b]}

Reports(b) == (Succeeded(b) \X {"success"}) \cup (Failed(b) \X {"failure"})

Stages == [b \in Bundles |-> Stage(b)]

AllReports == [b \in Bundles |-> Reports(b)]

Contract == INSTANCE BundleContract WITH
  Items <- Blockhashes \cup {Malformed}, Sendable <- Blockhashes,
  stage <- Stages, items <- transactions, turn <- current,
  reported <- AllReports, landed <- landings

(* Whatever fails on the way, send_transaction_bundle takes the             *)
(* transactions of a bundle in turn, reports each once and for good, as a   *)
(* success only behind the successes before it, and answers after the last. *)
ImplementsBundleContract == Contract!ContractSpec

-----------------------------------------------------------------------------
(* Liveness, under FairSpec.                                                *)

(* Every bundle is refused or answered, even if the node never gives a      *)
(* status and there are more bundles than workers: the handlers that occupy *)
(* the workers come to an end.                                              *)
EveryBundleAnswered ==
  \A b \in Bundles : place[b] = "submitted" ~> place[b] \in {"refused", "answered"}
=============================================================================
