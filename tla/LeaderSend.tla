----------------------------- MODULE LeaderSend -----------------------------
(***************************************************************************)
(* The sends behind SendToLeaders and SendBatch of module TxnSender, for   *)
(* one transaction: each is a task per leader, spawned by the handler or   *)
(* by an iteration of the retry loop, that tries up to SEND_TXN_RETRIES    *)
(* times to get the transaction to its leader (txn_sender.rs).  Nobody     *)
(* waits for these tasks or cancels them.                                  *)
(*                                                                         *)
(* Time passes in ticks of MAX_TIMEOUT_SEND_DATA, half a second.  An error *)
(* takes no time.  A send that times out may have reached the leader.      *)
(***************************************************************************)
EXTENDS Naturals, FiniteSets

CONSTANTS
  Leaders,           \* the contacts get_leaders may return
  NoQuic,            \* those without tpu_quic
  NumLeaders,        \* how many it returns at most
  SEND_TXN_RETRIES,  \* attempts of a task (10)
  Interval,          \* txn_send_retry_interval_seconds, in ticks (4)
  MaxRetries         \* TransactionData.max_retries

ASSUME SendAssumption ==
  /\ NoQuic \subseteq Leaders
  /\ NumLeaders \in Nat /\ MaxRetries \in Nat
  /\ SEND_TXN_RETRIES \in Nat \ {0} /\ Interval \in Nat \ {0}

(* Round 0 is the handler's, the others are those of the retry loop. *)
Rounds == 0..(MaxRetries + 1)

Tasks == Rounds \X Leaders

VARIABLES
  stored,       \* the transaction is in the store
  retry_count,
  next_round,   \* the ticks the retry loop still sleeps
  task,         \* what each task is doing
  attempt,      \* its loop variable i
  waiting,      \* the ticks its current send has been under way
  received,     \* external: the leaders that have the transaction
  gone          \* history: the ticks it has been out of the store and still
                \* sent, counted up to SEND_TXN_RETRIES + 1

taskVars == <<task, attempt, waiting, received>>
vars == <<stored, retry_count, next_round, taskVars, gone>>

Running == {k \in Tasks : task[k] = "sending"}

SendTypeOK ==
  /\ stored \in BOOLEAN
  /\ retry_count \in 0..MaxRetries
  /\ next_round \in 0..Interval
  /\ task \in [Tasks -> {"unspawned", "sending", "done", "gave up"}]
  /\ attempt \in [Tasks -> 0..(SEND_TXN_RETRIES - 1)]
  /\ waiting \in [Tasks -> {0, 1}]
  /\ received \subseteq Leaders
  /\ gone \in 0..(SEND_TXN_RETRIES + 1)

Init ==
  /\ stored = TRUE
  /\ retry_count = 0
  /\ next_round \in 1..Interval
  /\ \E leaders \in SUBSET Leaders :
       /\ Cardinality(leaders) <= NumLeaders
       /\ task = [k \in Tasks |-> IF k[1] = 0 /\ k[2] \in leaders \ NoQuic
                                  THEN "sending" ELSE "unspawned"]
  /\ attempt = [k \in Tasks |-> 0]
  /\ waiting = [k \in Tasks |-> 0]
  /\ received = {}
  /\ gone = 0

-----------------------------------------------------------------------------
(* The retry loop and the confirmer, as far as they go here.                *)

Spawn(round) ==
  \E leaders \in SUBSET Leaders :
    /\ Cardinality(leaders) <= NumLeaders
    /\ task' = [k \in Tasks |-> IF k[1] = round /\ k[2] \in leaders \ NoQuic
                                THEN "sending" ELSE task[k]]
    /\ UNCHANGED <<attempt, waiting, received>>

RetryRound ==
  /\ next_round = 0 /\ stored
  /\ retry_count < MaxRetries
  /\ retry_count' = retry_count + 1
  /\ Spawn(retry_count + 1)
  /\ next_round' = Interval
  /\ UNCHANGED <<stored, gone>>

LastRound ==
  /\ next_round = 0 /\ stored
  /\ retry_count = MaxRetries
  /\ Spawn(MaxRetries + 1)
  /\ stored' = FALSE
  /\ next_round' = Interval
  /\ UNCHANGED <<retry_count, gone>>

IdleRound ==
  /\ next_round = 0 /\ ~stored
  /\ next_round' = Interval
  /\ UNCHANGED <<stored, retry_count, taskVars, gone>>

(* The transaction is confirmed or given up by its confirmer, or shed. *)
Forget ==
  /\ stored
  /\ stored' = FALSE
  /\ UNCHANGED <<retry_count, next_round, taskVars, gone>>

-----------------------------------------------------------------------------
(* One send task.                                                           *)

Others == UNCHANGED <<stored, retry_count, next_round, gone>>

(* conn.send_data returns Ok: the task returns. *)
SendSucceeds(k) ==
  /\ k \in Running
  /\ task' = [task EXCEPT ![k] = "done"]
  /\ received' = received \cup {k[2]}
  /\ UNCHANGED <<attempt, waiting>>
  /\ Others

(* The attempts are not counted. *)
NextAttempt_Mutant(k) ==
  /\ waiting' = [waiting EXCEPT ![k] = 0]
  /\ UNCHANGED <<task, attempt>>

(* One attempt too many. *)
MoreAttempts_Mutant(k) == attempt[k] < SEND_TXN_RETRIES

(* for i in 0..SEND_TXN_RETRIES *)
MoreAttempts(k) == attempt[k] + 1 < SEND_TXN_RETRIES

(* The loop over the attempts goes on, or ends. *)
NextAttempt(k) ==
  /\ waiting' = [waiting EXCEPT ![k] = 0]
  /\ IF MoreAttempts(k)
     THEN attempt' = [attempt EXCEPT ![k] = @ + 1] /\ UNCHANGED task
     ELSE task' = [task EXCEPT ![k] = "gave up"] /\ UNCHANGED attempt

SendFails(k) ==
  /\ k \in Running
  /\ NextAttempt(k)
  /\ UNCHANGED received
  /\ Others

(* timeout(..) elapses and drops the send, which may be half way. *)
SendTimesOut(k) ==
  /\ k \in Running
  /\ waiting[k] = 1
  /\ NextAttempt(k)
  /\ received' \in {received, received \cup {k[2]}}
  /\ Others

-----------------------------------------------------------------------------
(* The clock moves on when nothing is due. *)
Tick ==
  /\ next_round > 0
  /\ \A k \in Running : waiting[k] = 0
  /\ next_round' = next_round - 1
  /\ waiting' = [k \in Tasks |-> IF k \in Running THEN 1 ELSE 0]
  /\ gone' = IF stored \/ Running = {} \/ gone > SEND_TXN_RETRIES THEN gone ELSE gone + 1
  /\ UNCHANGED <<stored, retry_count, task, attempt, received>>

-----------------------------------------------------------------------------
RetryLoop == RetryRound \/ LastRound \/ IdleRound

SendTask(k) == SendSucceeds(k) \/ SendFails(k) \/ SendTimesOut(k)

Next ==
  \/ RetryLoop
  \/ Forget
  \/ \E k \in Tasks : SendTask(k)
  \/ Tick

Spec == Init /\ [][Next]_vars

(* The runtime polls its tasks, timers fire and time passes. *)
Fairness ==
  /\ WF_vars(RetryLoop)
  /\ WF_vars(Tick)
  /\ \A k \in Tasks : WF_vars(SendTimesOut(k))

FairSpec == Spec /\ Fairness

-----------------------------------------------------------------------------
(* Safety.                                                                  *)

(* The tasks of one round that overlap with those of later ones, since a    *)
(* task may take longer than the retry interval.                            *)
Overlap == SEND_TXN_RETRIES \div Interval + 1

(* At any time at most that many tasks of the retry loop and the one of the *)
(* handler send the transaction to the same leader: slow leaders do not     *)
(* pile tasks up without end.                                               *)
OverlapBounded ==
  \A l \in Leaders : Cardinality({k \in Running : k[2] = l}) <= Overlap + 1

(* The tasks are not told that the transaction has landed or was given up,  *)
(* but they fall silent within SEND_TXN_RETRIES timeouts of that.           *)
QuietAfterRemoval == ~stored /\ Running # {} => gone <= SEND_TXN_RETRIES

(* Why QuietAfterRemoval holds, inductively: every attempt takes a tick at  *)
(* most.                                                                    *)
SendLedger ==
  /\ SendTypeOK
  /\ stored => gone = 0
  /\ \A k \in Running : gone <= attempt[k] + waiting[k]

-----------------------------------------------------------------------------
(* Liveness, under FairSpec.                                                *)

(* Each task comes to an end: by a success, or by its last attempt when its *)
(* leader never answers.                                                    *)
TasksEnd == \A k \in Tasks : task[k] = "sending" ~> task[k] # "sending"
=============================================================================
