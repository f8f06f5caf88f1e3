# A TLA+ verification of atlas-txn-sender

atlas-txn-sender accepts signed Solana transactions over JSON-RPC, sends them
to the current and next leaders over QUIC, and resends them until they are seen
in a block, have used up their retries or a minute has passed. It also sends
bundles, transaction by transaction, through an RPC node. It is a handful of
tokio tasks that share three concurrent maps and two atomics without any lock
over two of them; what is hard about it is the interleaving of these tasks, and
that is what the modules here model, check and, where they can, prove. All paths
are relative to the repository (its crate is under `src/`).

## 1. Inventory

| component | state | operations | talks to |
|---|---|---|---|
| JSON-RPC front end, `server/rpc_server.rs` | none | `send_transaction`, `send_transaction_bundle`, `health` | application |
| Application, `application/transaction.rs` | none | duplicate check, pass-through | store, sender |
| Transaction store, `storage/transaction_store.rs` | `DashMap<signature, TransactionData>` | `has_signature`, `add_transaction`, `remove_transaction`, `get_transactions` | shared by handlers, confirmers, retry loop |
| Transaction sender, `infrastructure/txn_sender.rs` | the retry loop's locals, the send tasks | `send_transaction`, `track_transaction` and its confirmer task, `retry_transactions`, `send_transaction_bundle` | store, leader tracker, geyser client, leaders |
| Leader tracker, `infrastructure/leader_tracker.rs` | `cur_slot`, `cur_leaders` | `poll_slot`, `poll_slot_leaders`, `get_leaders` | geyser client, RPC node |
| Geyser client, `infrastructure/grpc_geyser.rs` | `cur_slot`, `signature_cache`, `recent_blockhash_cache` | `poll_blocks`, `poll_slots`, `clean_signature_cache`, `confirm_transaction`, `get_next_slot` | geyser node, RPC node |
| Bundle sending, `vendor/solana_rpc.rs` | none | `send_and_encode_transaction`, decoding | RPC node |
| Example client, `bin/send_bundle.rs` | none | `SendBundle`, account creation, airdrop | service, RPC node |
| Metrics, `metrics.rs`; start, `bin/main.rs` | none | metric tags; wiring | all |

How they interact. A handler decodes a transaction, asks the store whether its
signature is there (then it answers at once), inserts it, spawns a *confirmer*
and hands the transaction to the leaders, one spawned *send task* for each. The
confirmer polls the geyser client's signature cache for up to 60 seconds and
removes the entry. The *retry loop* goes over the store every two seconds: it
sheds the entries above `max_retry_queue_size`, counts a retry for each entry,
spawns send tasks for all of them and removes those without retries left. The
leader tracker follows the slot that the geyser client streams, and refreshes a
map from slots to leaders every minute. A bundle is checked against the
blockhash cache that the block stream fills and is sent through the RPC node;
its handler is synchronous and occupies a worker of the runtime.

What is hard, and what correctness means, part by part:

* **Tracking and retries.** Check-then-insert races of resubmissions; removals
  by signature that may hit another request's entry; a handler that panics
  after the insert; a scan and a shedding pass over a map that changes under
  them. Correct means: nothing is stored that nobody removes, nothing is sent
  beyond its retry budget or after it was closed, shedding drops the right
  entries, a duplicate is only declined for something that is really sent.
* **Send tasks.** Nobody waits for them or cancels them, and they may be slower
  than the retry interval. Correct means: they end, they do not pile up, and
  they fall silent soon after the transaction was removed.
* **Leader tracker.** Leaders are inserted under a slot read before two blocking
  RPC calls, old slots are removed while readers walk the map. Correct means:
  the map agrees with the schedule, has no hole ahead of the current slot and
  stays bounded; `get_leaders` returns the next leaders, all of them, in order.
* **Geyser client.** Reconnections with gaps, lagging nodes, unsigned slot
  arithmetic, two timeouts on one cache. Correct means: the blockhash cache is
  the last 150 slots, a call finds what is cached before its last look, every
  call returns, the caches do not grow, the tasks survive failing streams. (What
  is cached in the 10 ms between a call's last look and its timeout is missed,
  and not all of the rest is true either: section 5.)
* **Bundles.** A partial failure in the middle, retries around a call that may
  have succeeded, the same transaction twice, blocked workers. Correct means:
  one outcome per transaction, successes landed and in order, an answer for
  every bundle.

`PROJECT.json` lists every hazard at its line with the properties that watch it.

## 2. Modules

| module | models |
|---|---|
| `RetryContract` | abstract: requests are refused, declined in favour of an open one with their signature, or opened, resent within their budget and closed for good |
| `BundleContract` | abstract: bundles are refused or taken on as a whole, each transaction reported once, in its turn |
| `TxnSender` | handlers, store, confirmers and retry loop, one action per operation on the shared map |
| `LeaderSend` | the send tasks of one transaction: what `TxnSender` takes for one step |
| `LeaderTracker` | `poll_slot`, `poll_slot_leaders` and a `get_leaders` reader, one action per access to the shared map and slot |
| `GrpcGeyser` | the two streams, both caches, the cleaner, `confirm_transaction`, startup |
| `Bundle` | `sendTransactionBundle` and the example client that calls it |
| `RetryBins` | `bin_counter_to_tag`, a pure function |
| `AtlasSystem` | `TxnSender` and an instance of `GrpcGeyser`, composed as `main.rs` wires them |
| `TxnSender_proof`, `TxnSender_refinement`, `LeaderTracker_proof`, `LeaderSend_proof`, `GrpcGeyser_proof`, `Bundle_proof`, `AtlasSystem_proof`, `RetryBins_proof` | the proofs |
| `MC...` | instances for TLC |

Operators named `..._Mutant` are slips a programmer could make in the operator
that follows them; replacing that operator by its mutant makes a property fail,
which shows the property has teeth. They take no part in the specifications.

### TxnSender

A `TransactionData` is named by the request that brought it, so that `store`
maps a signature to a request and `retry_count`, `limit` hold that request's
fields; a resubmission is another request with the same signature. `handler[r]`
is the program counter of the handler of `r`: `idle`, then `refused`
(preflight, encoding, decoding, no signature), `duplicate` (answered from the
store), or `unseen` (past `has_signature`), `missing` (past `contains_key`),
`tracked` (past `add_transaction`), `spawned`, `replied`, or `panicked`
(`compute_priority_details`). `loop` is that of the retry loop. Each visit of
the iterators over the map is a step of its own, in any order, as it is for the
shards of a `DashMap`. Reading its length (`MeasureQueue`) is one step, where
`DashMap::len` adds up the shards one after the other: the length may then be
one the map never had, which no property depends on, since the entries are
collected one by one later in any case. Sending to the leaders is
one step and its outcome left open (see `LeaderSend`). The confirmer returns at
any time: landed and timed out lead to the same removal (see `AtlasSystem`).

### LeaderSend

One transaction, from the handler's round of sends (`Init`) through those of the
retry loop. A task is named by its round and leader; `attempt` is its loop
variable. Which leaders `get_leaders` returns is left open in every round, and
those without `tpu_quic` are passed over. Time is in ticks of
`MAX_TIMEOUT_SEND_DATA`, 500 ms: a send that is not through after one tick times
out, having reached its leader or not; an error takes no time. A round's scan and
its sends are one step: the code, which takes well under a tick for them, may
still spawn the tasks of a transaction that was removed in between. `gone`
counts the ticks that tasks go on after the transaction was removed.

### LeaderTracker

`cur_slot` and `cur_leaders` are the shared atomics and map; `poller` and
`reader` the places of the refresh and of one `get_leaders` call. One reader is
enough, since readers write nothing. `poll_slot` may see any slot at any time,
in any order. The RPC calls may fail each time, and `get_cluster_nodes` may
leave out any validator outside `StableNodes`. `u64` arithmetic wraps at `U64`.

### GrpcGeyser

A block and its blockhash are named by their slot. Subscribing, reconnecting
and losing what was in flight are steps of the block task, and so are the
insertion, each eviction of `retain` and each cached signature. Time is in
ticks of 30 seconds. The cleaner runs before the next tick when it is due, and a
waiting call, which polls every 10 ms, looks at the cache at least once in every
tick: it finds the signature (`FindSignature`) or does not (`Look`, noted in
`polled`) and then sleeps. A signature cached after that look is found in the
next tick, or never, when the clock has run out first (`TimeOut`): the code
tests the clock before it looks. `LookToCome` says whether a call will look
again, and `seen` records what is cached for it before its last look.
Subtraction of slots wraps at `U64` as in a release build.

### Bundle

The clients share their accounts and amounts, so that two transactions differ
by nothing but their blockhash, which names them: the example client takes the
latest one for each, and others any. Two clients may then send the very same
transaction, and so may one bundle twice. `place[b]` is the program counter of
client and handler: `building`, `submitted` (waiting for a worker), `refused`
or, for each transaction in turn, `checking` (its blockhash), `sending` and
`polling` (its status), then `answered`. A send is one step at the node: the
transaction passes the preflight or not, and the reply may be lost either way,
which the handler cannot tell apart (`SendErrs`). Statuses may err or stay
away. The chain executes a received transaction, successfully or not, while its
blockhash is valid. `free_workers` are the workers of the runtime besides the
one that `poll_slot` never gives back; a handler holds one from start to
answer, and the block task needs one to cache a block. Successes are listed as
transactions; that the code puts the encoded transaction where the field says
`signatures` is not a difference the properties see.

### AtlasSystem

The confirmer of each request is a `confirm_transaction` call of `GrpcGeyser`
for its signature. The handler spawns it (`HandlerAlone`); when it is scheduled
it begins the call (`BeginCall`), so that signatures may be cached and others may
remove or replace the entry in between. It looks in vain (`LookInVain`) or the
call returns in one of two ways, together with the confirmer's removal
(`Landed`, `NotLanded`). The retry loop and the requests begin after `new_with_rpc`. Everything else is a step of one of the two
alone. The slot stream, the leader tracker and bundles meet the store nowhere
and stay out.

## 3. Runs

| run | what it asks | bounds |
|---|---|---|
| `tracking` | without a queue limit: no orphan, budget kept, contract implemented, entries leave the store, a duplicate is really sent; metric tags partition the counters | 3 requests, 1 signature, limit 1; counters -2 to 35 and none |
| `shedding` | with a queue limit of 0 (one entry is kept all the same): the inductive invariant, which includes orphans and budget, how many entries shedding leaves and whom it drops, contract implemented | 3 requests, 2 signatures, limits 0 and 1 |
| `leaders` | map true, without holes ahead, bounded; `get_leaders` exact; the window becomes known for good | slots to 5, refresh of 5 slots, 2 leaders of 2 slots, offset of one leader |
| `geyser` | blockhash cache is exactly the last slots, nothing cached before a call's last look is passed over, signatures forgotten, calls return | slots to 4, 2 slots kept, 1 call |
| `bundle` | one outcome each, successes landed and in order, contract implemented, every bundle answered | a bundle of 2 and one of 1, blocks to 2, 2 retries, 1 or 2 free workers |
| `leader_send` | tasks overlap, fall silent and end | 2 leaders, one without QUIC, 4 attempts, interval of 2, 3 retries |
| `system` | only what was unseen until the last look is given up, the sender and its fairness implemented, a request joins no further batch once its confirmer has its answer (the batch under way may still send it) | 2 requests on 1 signature, no retries beside the last round, 1 further block |
| `shed_panic` | finding: the retry loop can panic | queue limit 1 |
| `shed_stale` | finding: shedding drops a fresh resubmission | queue limit 0 |
| `blockhash_lost` | finding: a lagging block evicts a newer blockhash | lag up to 2 slots |
| `shed_limit` | finding: one entry over the limit stays | queue limit 1, 3 requests |
| `last_poll` | finding: what is cached in a call's last sleep is missed | slots to 2, 1 call |

Why the bounds are enough. The races of `TxnSender` need two requests on one
signature, and a third for a queue over its limit or a second resubmission;
limits 0 and 1 give an entry that is exhausted at once and one that is retried
first. `tracking` is about resubmissions of one transaction, on which liveness
turns too; `shedding` has two, so that its scans, rankings and batches hold more
than one entry, and when the queue is empty as it is measured its rounds are
those of a loop without a limit. The client may ask for 2 retries where 1 is the
maximum. With a refresh
of five slots and a window of four, the leader map is refreshed, outrun and
refreshed again within the run; one validator leads two rotations in a row, so
that a window may hold fewer than `NumLeaders` leaders. The windows that start at
slots 0, 3 and 4 hold only leaders that the cluster always lists, so that
`NextLeadersExact` speaks of readers that start at 3 and 4 too, while a cleanup
removes the slots before them or a refresh begun at an earlier slot is inserting;
its mutant is a cleanup that takes the current slot along. The later windows hold
slots of a validator that may be missing. Two slots kept out of
five let blockhashes age out with and without gaps. In `geyser` retention,
cleaning period and timeout keep their real ratio 3 : 2 : 2; in `system`, for its
size, they are 2 : 1 : 1: the cleaner can still run between the
caching of a signature and the look that finds it. Four attempts at an interval of two
ticks let three rounds overlap (in the code ten and four, again three), and
there are rounds enough for more. Three blocks with a lifetime of one let a
blockhash be fresh, expired and not yet cached; two bundles with one free worker
wait for each other, with two they interleave. In `system` one further block,
delivered, skipped or lost, before or after the last look, is all a confirmer
can meet; retries beyond the one last round are the matter of `tracking`, whose
retry loop is the same.

`CHECK_DEADLOCK FALSE` appears where the retry loop may have panicked and in
`bundle`: when all requests are through there is then nothing left to happen.
In the other runs the tasks never stop.

Symmetry is used where only safety of `TxnSender` is checked: requests and
signatures are interchangeable there.

## 4. Fairness

* `TxnSender`: weak fairness of each started handler (it has no await point
  after its checks), of each confirmer (it returns within 60 seconds) and of the
  retry loop as a whole (its iteration is finite and its sleep ends). No request
  has to arrive.
* `LeaderTracker`: weak fairness of the poller and strong fairness of each RPC
  call: a call that is made again and again succeeds now and then.
* `GrpcGeyser`: weak fairness of the startup calls, the cleaner, the clock and
  the loop of each call (`Poll`: its 10 ms sleeps end); none of the chain or the streams, so that `CallsReturn` holds with
  a stream that never delivers anything.
* `AtlasSystem`: the same, with each spawned confirmer scheduled and polled
  (`ConfirmerStep`), and that of `TxnSender` without its assumption that
  confirmers return, which `ImplementsSender` shows instead.
* `LeaderSend`: weak fairness of the retry loop, the clock and each task's
  timeout; sends need not succeed.
* `Bundle`: weak fairness of each handler, which blocks in calls and sleeps with
  timeouts, and of taking up a request while a worker is free. The chain and the
  node owe nothing.

All of it presupposes that the runtime has a worker beside the one `poll_slot`
occupies for good; `Bundle` has that as its assumption on `FreeWorkers`.

## 5. What the violations show

The five findings in `PROJECT.json` are properties quoted from comments and log
lines of the code that TLC refutes:

* the retry loop panics when an entry goes away between `len()` and `collect()`
  (`RetryLoopAlive`);
* shedding removes by signature something it has not ranked (`ShedsOnlyRanked`);
* shedding leaves one entry more than the limit that it logs, and at one over
  the limit drops nothing (`ShedsToLimit`); `ShedExcess`, which the passing runs
  check, says that it is never more than that one;
* the blockhash cache loses the newer hash to a wrapping subtraction
  (`KeepsRecent`, with a lagging node);
* a call looks at the cache, sleeps 10 ms and then at the clock: what is cached
  in its last sleep is reported as not landed (`LandedIsFound`).

Four more disagreements are in the models as the code has them, each in a single
step that a property could only restate:

* the slot task dies on the `unwrap` of its subscription request
  (`SlotRequestPanics`; `grpc_geyser.rs:258` promises to connect again), and the
  slot the leaders are looked up by then stands still;
* sends are retried after a timeout (`SendTimesOut`), which the comment at
  `txn_sender.rs:171` denies;
* the first blockhash is recorded under the slot of an earlier RPC call
  (`RpcGetBlockhash`) and so leaves the cache before its own slot is out of the
  last 150; `KeepsRecent` and `DropsOld` count from the recorded slot;
* a blockhash newer than the last block of the stream is refused as "expired"
  (`RefuseExpired`).

`TxnSender` keeps the first as the action `SlicePanics`, so that everything else
is checked with it; likewise `SlotRequestPanics`.

## 6. Proofs

The theorems in `PROJECT.json` hold for every value of the constants that
satisfies the module's assumption (`SenderAssumption`, `TrackerAssumption`,
`GeyserAssumption`, `SendAssumption`, `BundleAssumption`, `BinAssumption`): any
set of requests, signatures, validators or bundles, any limits, schedules and
timeouts. The assumptions fix what kind of thing each parameter is (numbers are
numbers, `None` and the names of the open intervals are none of them, the
schedule names validators, `u64` wraps beyond the slots that occur), that
timeouts and intervals are not zero, and that `Retention`, 90 seconds, is longer
than a tick of 30 (a call's sleep of 10 ms lasts into the next tick at most); `AtlasSystem` repeats the geyser client's
for its own parameters (`GeyserOfService`). TLC evaluates them in every run.
Only these theorems assume more, in their statements: those about blockhashes
(`InOrder` and `MaxLag = 0`) and `DuplicatesStayCovered` (`MaxQueue = None`, as
in the run that checks `DuplicateIsSent`).

`TxnSender_proof`:

* `BookkeepingInvariant`: `Bookkeeping` is an invariant. It is inductive: one
  lemma each shows that handlers, confirmers and the retry loop preserve it.
* `RetriesBounded`: no transaction is resent more than its limit plus one times.
  By itself this is not inductive. The counter of an entry and the sends it
  stands for are updated in two places, so `RetryLedger` counts the batch under
  way as sent (`Handed`) and says that only an entry noted for removal is one
  ahead of its counter. That needs `ScanOnce` (a batch holds nothing the scan
  has yet to reach, so nothing is counted twice), `EarlyClean` (an insert brings
  an entry that has no history) and `StoreKeyed` (an iterator over keys visits
  each entry under one key only).
* `NothingOrphaned`: everything stored has somebody who removes it. It needs
  `StoreKeyed`, because a confirmer removes by signature: it could otherwise
  miss its own entry.
* `SheddingIsFair`: the victims still to be removed were retried at least as
  often as the ranked entries that stay. It needs `ShedClean` and the fact that
  nobody but the scan counts retries, and that the scan waits for the shedding.
* `SheddingSuffices` (`ShedExcess`): at most one entry above the limit, the one
  of the slice's off-by-one, is left of what was ranked. Its invariant `ShedInv` names the kept prefix: everything ranked
  outside it is doomed or out of the store, and nobody brings it back.
* `DuplicatesStayCovered`: behind every duplicate that was answered there is a
  request of its signature that is still stored, was handed over to the leaders,
  or is at the point of sending itself (`Covers`). Entries go for three reasons,
  and `CoverInv` has a part for each: a confirmer runs only for a request that
  is at the leaders or about to be (`ConfirmersCovered`), what the batch reaps
  was in it (`ReachedCovered`), and a resubmission that overwrites an entry
  covers in its place. Shedding drops unsent entries, hence `MaxQueue = None`.
  This is the safety half of `DuplicateIsSent`.
* `TypeCorrect`: no granted limit exceeds the operator's, among others.

`TxnSender_refinement`:

* `RefinesContract`: `TxnSender` implements `RetryContract`. The contract's view
  (`Stages`, `Known`, `Budgets`, `rounds`) calls a request open while its entry is
  in the store or in the batch under way, and tells requests apart by signature:
  a request is declined only while one of its own signature is open, and
  displaces only such ones. A handler opens or declines; whoever removes
  an entry closes it, be it a confirmer of another request; `SendBatch` is one
  `Resend` and closes what was removed between the scan and the send. From
  `Bookkeeping` it takes that open requests are past their early states
  (`EarlyClean`), that what is stored under a signature is an open request's
  (`StoreKeyed`), and the budget (`RetryLedger`).

`LeaderTracker_proof`:

* `TrackerInvariant`: `TrackerInv` is an inductive invariant. Its part
  `PollBehind` carries the argument: the slot a poll works on was current when
  it began and the slot only grows, so what has been inserted reaches from the
  present on, and what the cleanup holds in its hands is past for good.
* `MapIsFaithful` and `MapIsCovered` follow: a slow refresh never puts a leader
  under another slot, and neither it nor its cleanup leaves a hole between the
  current slot and the end of the last refresh. `TrackerTypesKept` likewise.
* `LeadersAreInOrder`: `ReaderInv` is inductive; each leader a reader has added
  leads a slot it has passed, and `MapFaithful` says whose slot it was.
* `AnswerIsExact`: `LeadersInOrder` says that nothing wrong is answered, this
  one that nothing is left out. `Firsts(b, k)` are the slots before `k` at which
  a leader turns up for the first time since `b`; `AnswerInv` says that a reader
  at slot `k` has added as many leaders as there are `Firsts` before `k`, while
  the slot it started from stands and its window was in the last refresh
  (`Standing`). Each read keeps that (`ReadKeepsExact`) because by `Covered` the
  slot is in the map and by `MapFaithful` under its own leader, and `Bounds`
  says that a reader stops only with all it was asked for or at the end.
* `MapIsBounded`: `KeysInv` follows the keys through a poll: it inserts below
  the end of what it asked for, its cleanup leaves nothing below the slot it
  began with, and a poll that fails leaves the keys of the one before.

`LeaderSend_proof`: `SendLedger` says that a task that still runs has made as
many attempts, with the one under way, as ticks have passed since the removal.
`SendersFallSilent` follows: it has no attempts left after `SEND_TXN_RETRIES`.
`TasksDoNotPile` needs the past of a task from its state alone: `PileLedger`
says that a task of a round has made at least as many attempts as ticks have
passed since that round, which are the rounds since times the interval
(`Rounded`). What still runs has fewer than `SEND_TXN_RETRIES` attempts, so its
round is one of the last few, and those count the tasks to one leader.

`GrpcGeyser_proof`: `GeyserLedger` has two parts. `CallLedger`: a waiting call
whose signature was cached before its last look still has that look to come
(`LookToCome`) and the entry is fresh then. If it has looked in vain in this
tick, the entry has been cached since and has no age yet, so that it is one tick
old when the call looks next, which the cleaner leaves alone as long as
`Retention` is longer; hence `NoSignatureMissed`. It says nothing of what is
cached in the sleep behind the last look: `LandedIsFound` shows that this is
missed.
`AgeLedger`: the age of an entry and what the cleaner still sleeps stay within
`Retention + CleanPeriod`; hence `SignaturesAreForgotten`. `HashLedger` is about
the blockhashes and needs a node that delivers in order and has no lag (without
that `KeepsRecent` is false, as the run `blockhash_lost` shows): what is still to
come is newer than anything recorded, across skipped slots and reconnections, so
that the block against which the retain judges is the newest one and the `u64`
difference does not wrap (`Distance`). `RecentHashesKept` and `OldHashesDropped`
are its two halves; the second uses that the retain ends with nothing left to
drop.

`Bundle_proof`: `BundleLedger` says that a handler works through decoded
transactions and has accounted for exactly those before the one in hand
(`Accounted`); `EachReportedOnce` and `SuccessesLanded` follow. Order needs an
invariant of its own, `OrderInv`: when a transaction passes the preflight it has
not landed and all successes before it have; if it is executed while the handler
polls, it lands behind them, whoever else sent it. `RefinesBundleContract`
joins the two: `Bundle` implements `BundleContract`, whose view of a bundle
(`Stages`, `AllReports`) is that of its client. A handler's step between two
reports changes nothing there; each way a transaction can fail is the same
`ReportFailure`, and `StatusLanded` is a `ReportSuccess` by `OrderInv`.
`WorkersAreKept` counts workers: the free ones and those of handlers at work
add up to what the runtime had, so that no failing bundle loses one and none is
given back twice; `WaitingForAWorker` is the safety half of
`EveryBundleAnswered`.

`RetryBins_proof`: `CountersAreTagged` holds for every integer and, by its
lemma `Tagged`, for every increasing table of bins: the search stops at the last
bin not above the counter (`ReachedFirst`), and exactly the interval that begins
there holds the counter; a missing counter has the tag `none` and no other
(`MissingTagged`). The two tables of the code increase.

`AtlasSystem_proof`: each step of the composition is a step of the sender or
leaves it alone (`ServiceIsSender`), and likewise for the geyser client
(`ServiceIsGeyser`), so that all of `TxnSender_proof`, `TxnSender_refinement`
and `GrpcGeyser_proof` holds of the service (`ServiceBookkeeping`,
`ServiceKeepsContract`). The lemma `Matched` follows confirmers and calls
together, the confirmer being spawned before its call begins.
`AnsweredIsQuiet`: an answered request is not in the store, by
`NothingOrphaned`, and only what is in the store joins a batch.
`ConfirmersMissNothing` takes `NoSignatureMissed` through the composition: a
confirmer gives up only a transaction whose own signature was not cached before
its call's last look (`GivenUpUnseen`). The proofs of the client are instantiated as a second copy of
its module (`P`), which `SameGeyser` shows to be the one of the composition.

`Bookkeeping`, `TrackerInv`, `GeyserLedger` and `SendLedger` are also checked by
TLC. The invariants that stand with their proofs (`HashLedger`, `ReaderInv`,
`AnswerInv`, `KeysInv`, `PileLedger`, `CoverInv`, `BundleLedger`, `OrderInv`)
are there for properties that the runs check.

Only model-checked: everything under fairness (`EventuallyForgotten`,
`DuplicateIsSent`, `EventuallyKnown`, `CallsReturn`, `EveryBundleAnswered`,
`TasksEnd` and the fairness in `ImplementsSender`), which with ENABLED is out of
the prover's reach. Every other property of the passing runs has its theorem.

## 7. Open

* A run with negative leader offsets; `StartSlot` has the wrap, and on a live
  chain the current slot is far above any offset.
* A larger `AtlasSystem` with the leader tracker: the first sends of a service
  that has just started meet an empty leader map.

Not modelled, and why: the statsd client and logging (nothing reads them; a
panic in a log line counts as a refusal), size limits of the decoder, the
environment, HTTP layers and connection cache that `main.rs` sets up, the
example client's account creation and airdrop (calls of their own), its HTTP
timeout (the library's default) and what it logs, deployment files.
