-------------------------- MODULE LeaderSend_proof --------------------------
(***************************************************************************)
(* That the send tasks fall silent once their transaction has left the     *)
(* store, for any leaders, attempts, interval and retries.  The inductive  *)
(* invariant is SendLedger: the ticks since the removal are paid for by    *)
(* each task still running, one per attempt.  And that slow leaders do not *)
(* pile tasks up: PileLedger says the same of the ticks since the round    *)
(* that spawned the task.                                                  *)
(***************************************************************************)
EXTENDS LeaderSend, FiniteSetTheorems, FunctionTheorems, TLAPS

LEMMA Constants ==
  /\ SEND_TXN_RETRIES \in Nat /\ SEND_TXN_RETRIES > 0
  /\ Interval \in Nat /\ Interval > 0
  /\ MaxRetries \in Nat
BY SendAssumption

(* What the types say of the numbers.                                       *)
LEMMA Ranges ==
  ASSUME SendLedger
  PROVE  /\ retry_count \in Nat /\ retry_count <= MaxRetries
         /\ next_round \in Nat /\ next_round <= Interval
         /\ gone \in Nat /\ gone <= SEND_TXN_RETRIES + 1
         /\ \A k \in Tasks : /\ attempt[k] \in Nat /\ attempt[k] < SEND_TXN_RETRIES
                              /\ waiting[k] \in {0, 1} /\ waiting[k] \in Nat
         /\ \A k \in Running : k \in Tasks /\ gone <= attempt[k] + waiting[k]
<1>1. SendTypeOK
  BY DEF SendLedger
<1>2. retry_count \in 0..MaxRetries /\ next_round \in 0..Interval
        /\ gone \in 0..(SEND_TXN_RETRIES + 1)
  BY <1>1 DEF SendTypeOK
<1>3. ASSUME NEW k \in Tasks
      PROVE  attempt[k] \in 0..(SEND_TXN_RETRIES - 1) /\ waiting[k] \in {0, 1}
  BY <1>1 DEF SendTypeOK
<1>4. \A k \in Running : k \in Tasks /\ gone <= attempt[k] + waiting[k]
  BY DEF SendLedger, Running
<1> QED BY <1>2, <1>3, <1>4, Constants

LEMMA InitLedger == Init => SendLedger
<1> SUFFICES ASSUME Init PROVE SendLedger
  OBVIOUS
<1> USE DEF Init
<1>1. SendTypeOK
  <2>1. task \in [Tasks -> {"unspawned", "sending", "done", "gave up"}]
    BY DEF Tasks
  <2>2. attempt \in [Tasks -> 0..(SEND_TXN_RETRIES - 1)] /\ waiting \in [Tasks -> {0, 1}]
    BY SendAssumption
  <2>3. /\ retry_count \in 0..MaxRetries /\ next_round \in 0..Interval
        /\ gone \in 0..(SEND_TXN_RETRIES + 1)
    BY SendAssumption
  <2> QED BY <2>1, <2>2, <2>3 DEF SendTypeOK
<1>2. \A k \in Running : gone <= attempt[k] + waiting[k]
  BY <1>1 DEF Running
<1> QED BY <1>1, <1>2 DEF SendLedger

(* A round that spawns tasks for leaders is harmless while the transaction  *)
(* is stored, and so is the last one, which removes it.                     *)
LEMMA SpawnKeepsLedger ==
  ASSUME SendLedger, stored, NEW round, Spawn(round),
         stored' \in BOOLEAN, retry_count' \in 0..MaxRetries,
         next_round' \in 0..Interval, gone' = gone
  PROVE  SendLedger'
<1> PICK leaders \in SUBSET Leaders :
      task' = [k \in Tasks |-> IF k[1] = round /\ k[2] \in leaders \ NoQuic
                               THEN "sending" ELSE task[k]]
  BY DEF Spawn
<1>1. attempt' = attempt /\ waiting' = waiting /\ received' = received
  BY DEF Spawn
<1>2. gone = 0
  BY DEF SendLedger
<1>3. SendTypeOK'
  BY <1>1 DEF SendLedger, SendTypeOK
<1>4. \A k \in Running' : gone' <= attempt'[k] + waiting'[k]
  <2> SUFFICES ASSUME NEW k \in Running' PROVE 0 <= attempt[k] + waiting[k]
    BY <1>1, <1>2
  <2>1. k \in Tasks
    BY DEF Running
  <2>2. attempt[k] \in Nat /\ waiting[k] \in Nat
    BY <2>1, Ranges
  <2> QED BY <2>2
<1> QED BY <1>2, <1>3, <1>4 DEF SendLedger

(* An attempt that ends is counted, unless it was the task's last.          *)
LEMMA AttemptKeepsLedger ==
  ASSUME SendLedger, NEW k \in Running, NextAttempt(k),
         received' \subseteq Leaders, Others
  PROVE  SendLedger'
<1>0. /\ stored' = stored /\ retry_count' = retry_count
      /\ next_round' = next_round /\ gone' = gone
  BY DEF Others
<1>1. k \in Tasks
  BY DEF Running
<1>2. /\ attempt[k] \in Nat /\ waiting[k] \in {0, 1}
      /\ gone \in Nat /\ gone <= attempt[k] + waiting[k]
  BY <1>1, Ranges
<1>3. waiting' = [waiting EXCEPT ![k] = 0]
  BY DEF NextAttempt
<1>4. CASE MoreAttempts(k)
  <2>1. attempt' = [attempt EXCEPT ![k] = @ + 1] /\ task' = task
    BY <1>4 DEF NextAttempt
  <2>2. attempt[k] + 1 \in 0..(SEND_TXN_RETRIES - 1)
    BY <1>2, <1>4, Constants DEF MoreAttempts
  <2>3. SendTypeOK'
    BY <1>0, <1>1, <1>3, <2>1, <2>2 DEF SendLedger, SendTypeOK
  <2>4. ASSUME NEW q \in Running'
        PROVE  gone' <= attempt'[q] + waiting'[q]
    <3>1. q \in Tasks /\ gone <= attempt[q] + waiting[q]
      BY <2>1 DEF Running, SendLedger
    <3>2. attempt[q] \in Nat /\ waiting[q] \in {0, 1}
      BY <3>1, Ranges
    <3>3. attempt'[q] + waiting'[q] >= attempt[q] + waiting[q]
      <4>1. CASE q = k
        <5>1. attempt'[q] = attempt[k] + 1 /\ waiting'[q] = 0
          BY <1>1, <1>3, <2>1, <4>1 DEF SendLedger, SendTypeOK
        <5> QED BY <1>2, <4>1, <5>1
      <4>2. CASE q # k
        <5>1. attempt'[q] = attempt[q] /\ waiting'[q] = waiting[q]
          BY <1>3, <2>1, <3>1, <4>2 DEF SendLedger, SendTypeOK
        <5> QED BY <3>2, <5>1
      <4> QED BY <4>1, <4>2
    <3>4. attempt'[q] + waiting'[q] \in Int
      <4>1. attempt'[q] \in 0..(SEND_TXN_RETRIES - 1) /\ waiting'[q] \in {0, 1}
        BY <2>3, <3>1 DEF SendTypeOK
      <4> QED BY <4>1, Constants
    <3> QED BY <1>0, <1>2, <3>1, <3>2, <3>3, <3>4
  <2> QED BY <1>0, <2>3, <2>4 DEF SendLedger
<1>5. CASE ~MoreAttempts(k)
  <2>1. task' = [task EXCEPT ![k] = "gave up"] /\ attempt' = attempt
    BY <1>5 DEF NextAttempt
  <2>2. SendTypeOK'
    BY <1>0, <1>1, <1>3, <2>1 DEF SendLedger, SendTypeOK
  <2>3. ASSUME NEW q \in Running'
        PROVE  gone' <= attempt'[q] + waiting'[q]
    <3>1. q \in Running /\ q # k
      BY <1>1, <2>1 DEF Running, SendLedger, SendTypeOK
    <3>2. waiting'[q] = waiting[q]
      BY <1>3, <3>1 DEF Running, SendLedger, SendTypeOK
    <3> QED BY <1>0, <2>1, <3>1, <3>2 DEF SendLedger
  <2> QED BY <1>0, <2>2, <2>3 DEF SendLedger
<1> QED BY <1>4, <1>5

(* A tick costs every running task the attempt it is in.                    *)
LEMMA TickKeepsLedger ==
  ASSUME SendLedger, Tick PROVE SendLedger'
<1>0. /\ stored' = stored /\ retry_count' = retry_count /\ task' = task
      /\ attempt' = attempt /\ received' = received
      /\ next_round > 0 /\ next_round' = next_round - 1
  BY DEF Tick
<1>1. /\ waiting' = [k \in Tasks |-> IF k \in Running THEN 1 ELSE 0]
      /\ \A k \in Running : waiting[k] = 0
  BY DEF Tick
<1>2. gone' = IF stored \/ Running = {} \/ gone > SEND_TXN_RETRIES THEN gone ELSE gone + 1
  BY DEF Tick
<1>3. gone \in 0..(SEND_TXN_RETRIES + 1) /\ gone' \in 0..(SEND_TXN_RETRIES + 1)
  BY <1>2, Ranges, Constants
<1>4. next_round' \in 0..Interval
  BY <1>0, Ranges, Constants
<1>5. SendTypeOK'
  BY <1>0, <1>1, <1>3, <1>4 DEF SendLedger, SendTypeOK
<1>6. ASSUME NEW k \in Running'
      PROVE  gone' <= attempt'[k] + waiting'[k]
  <2>1. k \in Tasks /\ k \in Running /\ waiting'[k] = 1
    BY <1>0, <1>1 DEF Running
  <2>2. attempt[k] \in Int /\ gone <= attempt[k] + 0
    BY <1>1, <2>1, Ranges
  <2> QED BY <1>0, <1>2, <1>3, <2>1, <2>2
<1>7. stored' => gone' = 0
  BY <1>0, <1>2 DEF SendLedger
<1> QED BY <1>5, <1>6, <1>7 DEF SendLedger

LEMMA StepKeepsLedger == SendLedger /\ [Next]_vars => SendLedger'
<1> SUFFICES ASSUME SendLedger, [Next]_vars PROVE SendLedger'
  OBVIOUS
<1>1. CASE RetryRound
  <2>1. /\ stored /\ stored' = stored /\ gone' = gone
        /\ retry_count' = retry_count + 1 /\ retry_count < MaxRetries
        /\ next_round' = Interval /\ Spawn(retry_count + 1)
    BY <1>1 DEF RetryRound
  <2>2. retry_count' \in 0..MaxRetries /\ next_round' \in 0..Interval
    BY <2>1, Ranges, Constants
  <2> QED BY <2>1, <2>2, SpawnKeepsLedger
<1>2. CASE LastRound
  <2>1. /\ stored /\ stored' = FALSE /\ gone' = gone /\ retry_count' = retry_count
        /\ next_round' = Interval /\ Spawn(MaxRetries + 1)
    BY <1>2 DEF LastRound
  <2>2. retry_count' \in 0..MaxRetries /\ next_round' \in 0..Interval
    BY <2>1, Ranges, Constants
  <2> QED BY <2>1, <2>2, SpawnKeepsLedger
<1>3. CASE IdleRound
  <2>1. /\ stored' = stored /\ retry_count' = retry_count /\ gone' = gone
        /\ task' = task /\ attempt' = attempt /\ waiting' = waiting
        /\ received' = received /\ next_round' = Interval
    BY <1>3 DEF IdleRound, taskVars
  <2>2. next_round' \in 0..Interval
    BY <2>1, Constants
  <2> QED BY <2>1, <2>2 DEF SendLedger, SendTypeOK, Running
<1>4. CASE Forget
  BY <1>4 DEF Forget, taskVars, SendLedger, SendTypeOK, Running
<1>5. ASSUME NEW k \in Tasks, SendTask(k) PROVE SendLedger'
  <2>1. CASE SendSucceeds(k)
    <3>1. /\ stored' = stored /\ retry_count' = retry_count
          /\ next_round' = next_round /\ gone' = gone
          /\ attempt' = attempt /\ waiting' = waiting
          /\ task' = [task EXCEPT ![k] = "done"] /\ received' = received \cup {k[2]}
      BY <2>1 DEF SendSucceeds, Others
    <3>2. SendTypeOK'
      BY <3>1 DEF SendLedger, SendTypeOK, Tasks
    <3>3. Running' \subseteq Running
      BY <3>1 DEF Running, SendLedger, SendTypeOK
    <3> QED BY <3>1, <3>2, <3>3 DEF SendLedger
  <2>2. CASE SendFails(k)
    <3>1. received' \subseteq Leaders
      BY <2>2 DEF SendFails, SendLedger, SendTypeOK
    <3> QED BY <2>2, <3>1, AttemptKeepsLedger DEF SendFails
  <2>3. CASE SendTimesOut(k)
    <3>1. received' \subseteq Leaders
      BY <2>3 DEF SendTimesOut, SendLedger, SendTypeOK, Tasks
    <3> QED BY <2>3, <3>1, AttemptKeepsLedger DEF SendTimesOut
  <2> QED BY <1>5, <2>1, <2>2, <2>3 DEF SendTask
<1>6. CASE Tick
  BY <1>6, TickKeepsLedger
<1>7. CASE UNCHANGED vars
  BY <1>7 DEF vars, taskVars, SendLedger, SendTypeOK, Running
<1> QED BY <1>1, <1>2, <1>3, <1>4, <1>5, <1>6, <1>7 DEF Next, RetryLoop

(* The ledger is kept whatever the leaders do and however the removal races *)
(* the rounds of the retry loop.                                            *)
THEOREM SendLedgerInvariant == Spec => []SendLedger
BY InitLedger, StepKeepsLedger, PTL DEF Spec

(* The variables of the send tasks keep their types; in particular no task  *)
(* makes more than SEND_TXN_RETRIES attempts.                               *)
THEOREM SendTypesKept == Spec => []SendTypeOK
<1>1. SendLedger => SendTypeOK
  BY DEF SendLedger
<1> QED BY <1>1, SendLedgerInvariant, PTL

(* No task is still sending more than SEND_TXN_RETRIES timeouts after the   *)
(* transaction has left the store.                                          *)
THEOREM SendersFallSilent == Spec => []QuietAfterRemoval
<1>1. SendLedger => QuietAfterRemoval
  <2> SUFFICES ASSUME SendLedger, ~stored, Running # {}
               PROVE  gone <= SEND_TXN_RETRIES
    BY DEF QuietAfterRemoval
  <2>1. PICK k \in Running : TRUE
    OBVIOUS
  <2>2. /\ attempt[k] \in Nat /\ attempt[k] < SEND_TXN_RETRIES
        /\ waiting[k] \in {0, 1} /\ gone <= attempt[k] + waiting[k]
    BY Ranges
  <2> QED BY <2>2, Ranges, Constants
<1> QED BY <1>1, SendLedgerInvariant, PTL
-----------------------------------------------------------------------------
(* Tasks to one leader.  The rounds of the retry loop are Interval apart,   *)
(* so that the round of a task that runs is as many intervals behind the    *)
(* last one as its attempts, a tick each, have lasted.                      *)
Rounded(last, k) == (last - k[1]) * Interval + (Interval - next_round)

Piled(last) ==
  /\ stored => last = retry_count
  /\ \A k \in Running :
       /\ k[1] <= last
       /\ k[1] > 0 => Rounded(last, k) <= attempt[k] + waiting[k]

PileLedger == \E last \in Rounds : Piled(last)

LEMMA TaskRounds ==
  /\ Rounds = 0..(MaxRetries + 1)
  /\ \A k \in Tasks : k[1] \in Rounds /\ k[1] \in Nat /\ k[2] \in Leaders
  /\ \A k \in Running : k \in Tasks
BY Constants DEF Tasks, Rounds, Running

(* The interval and the distance to the last round are what they count.     *)
LEMMA RoundedType ==
  ASSUME SendLedger, NEW last \in Rounds, NEW k \in Tasks
  PROVE  /\ (last - k[1]) * Interval \in Int
         /\ Rounded(last, k) \in Int
<1>1. last - k[1] \in Int /\ Interval \in Int /\ next_round \in Int
  BY Constants, Ranges, TaskRounds
<1>2. \A a, b \in Int : a * b \in Int
  OBVIOUS
<1> QED BY <1>1, <1>2 DEF Rounded

(* A step that keeps the rounds and makes no task older than its attempts.  *)
LEMMA SamePile ==
  ASSUME SendLedger, SendLedger', PileLedger, Running' \subseteq Running,
         next_round' = next_round, stored' => stored, retry_count' = retry_count,
         \A k \in Running' : attempt[k] + waiting[k] <= attempt'[k] + waiting'[k]
  PROVE  PileLedger'
<1> PICK last \in Rounds : Piled(last)
  BY DEF PileLedger
<1>1. ASSUME NEW k \in Running', k[1] > 0
      PROVE  Rounded(last, k)' <= attempt'[k] + waiting'[k]
  <2>1. k \in Tasks /\ k \in Running
    BY TaskRounds
  <2>2. Rounded(last, k) <= attempt[k] + waiting[k] /\ Rounded(last, k) \in Int
    BY <1>1, <2>1, RoundedType DEF Piled
  <2>3. attempt[k] + waiting[k] \in Int /\ attempt'[k] + waiting'[k] \in Int
    <3>1. attempt[k] \in Nat /\ waiting[k] \in Nat
      BY <2>1, Ranges
    <3>2. attempt'[k] \in 0..(SEND_TXN_RETRIES - 1) /\ waiting'[k] \in {0, 1}
      BY <2>1 DEF SendLedger, SendTypeOK
    <3> QED BY <3>1, <3>2, Constants
  <2>4. Rounded(last, k)' = Rounded(last, k)
    BY DEF Rounded
  <2> QED BY <2>2, <2>3, <2>4
<1>2. Piled(last)'
  BY <1>1 DEF Piled
<1> QED BY <1>2 DEF PileLedger

(* A round is spawned when the sleep is over, a whole interval after the    *)
(* one before: every task that runs falls behind by one round and no tick.  *)
LEMMA SpawnPiles ==
  ASSUME SendLedger, stored, next_round = 0, next_round' = Interval, PileLedger,
         retry_count + 1 \in Rounds, Spawn(retry_count + 1),
         stored' => retry_count' = retry_count + 1
  PROVE  PileLedger'
<1> PICK new \in Rounds : new = retry_count + 1
  OBVIOUS
<1>0. /\ \A k \in Running : k[1] <= retry_count
      /\ \A k \in Running : k[1] > 0 => Rounded(retry_count, k) <= attempt[k] + waiting[k]
      /\ retry_count \in Rounds
  BY DEF PileLedger, Piled
<1>1. /\ attempt' = attempt /\ waiting' = waiting
      /\ \A k \in Tasks : k[1] # new => task'[k] = task[k]
  BY DEF Spawn
<1>2. ASSUME NEW k \in Running'
      PROVE  /\ k[1] <= new
             /\ k[1] > 0 => Rounded(new, k)' <= attempt[k] + waiting[k]
  <2>1. k \in Tasks /\ k[1] \in Nat /\ retry_count \in Nat
    BY Ranges, TaskRounds DEF Running
  <2>2. attempt[k] \in Nat /\ waiting[k] \in Nat /\ Interval \in Nat
    BY <2>1, Ranges, Constants
  <2>3. CASE k[1] = new
    <3>1. (new - k[1]) * Interval = 0
      <4>1. new - k[1] = 0
        BY <2>1, <2>3
      <4> QED BY <2>2, <4>1
    <3>2. Rounded(new, k)' = 0
      BY <2>2, <3>1 DEF Rounded
    <3> QED BY <2>1, <2>2, <2>3, <3>2
  <2>4. CASE k[1] # new
    <3>1. k \in Running
      BY <1>1, <2>1, <2>4 DEF Running
    <3>2. k[1] <= retry_count
      BY <1>0, <3>1
    <3>3. (new - k[1]) * Interval = (retry_count - k[1]) * Interval + Interval
      <4>1. \A d, v \in Int : (d + 1) * v = d * v + v
        BY SMT
      <4>2. retry_count - k[1] \in Int /\ new - k[1] = (retry_count - k[1]) + 1
        BY <2>1
      <4> QED BY <2>2, <4>1, <4>2
    <3>4. (retry_count - k[1]) * Interval \in Int
      BY <1>0, <2>1, RoundedType
    <3>5. Rounded(new, k)' = Rounded(retry_count, k)
      BY <2>2, <3>3, <3>4 DEF Rounded
    <3> QED BY <1>0, <2>1, <3>1, <3>2, <3>5
  <2> QED BY <2>3, <2>4
<1>3. Piled(new)'
  BY <1>1, <1>2 DEF Piled
<1> QED BY <1>3 DEF PileLedger

(* An idle round starts the interval again: that makes no task older.       *)
LEMMA IdlePiles ==
  ASSUME SendLedger, IdleRound, PileLedger
  PROVE  PileLedger'
<1> PICK last \in Rounds : Piled(last)
  BY DEF PileLedger
<1>1. /\ next_round = 0 /\ next_round' = Interval /\ ~stored /\ stored' = stored
      /\ attempt' = attempt /\ waiting' = waiting /\ Running' = Running
  BY DEF IdleRound, taskVars, Running
<1>2. ASSUME NEW k \in Running, k[1] > 0
      PROVE  Rounded(last, k)' <= attempt[k] + waiting[k]
  <2>1. k \in Tasks /\ attempt[k] \in Nat /\ waiting[k] \in Nat
    BY TaskRounds, Ranges
  <2>2. (last - k[1]) * Interval \in Int /\ Interval \in Nat
    BY <2>1, RoundedType, Constants
  <2>3. (last - k[1]) * Interval + (Interval - 0) <= attempt[k] + waiting[k]
    BY <1>1, <1>2 DEF Piled, Rounded
  <2>4. Rounded(last, k)' = (last - k[1]) * Interval + (Interval - Interval)
    BY <1>1 DEF Rounded
  <2> QED BY <2>1, <2>2, <2>3, <2>4
<1>3. Piled(last)'
  BY <1>1, <1>2 DEF Piled
<1> QED BY <1>3 DEF PileLedger

(* A tick of the interval costs every task that runs a tick of its attempt. *)
LEMMA TickPiles ==
  ASSUME SendLedger, Tick, PileLedger
  PROVE  PileLedger'
<1> PICK last \in Rounds : Piled(last)
  BY DEF PileLedger
<1>1. /\ next_round' = next_round - 1 /\ stored' = stored /\ retry_count' = retry_count
      /\ attempt' = attempt /\ task' = task
      /\ waiting' = [k \in Tasks |-> IF k \in Running THEN 1 ELSE 0]
      /\ \A k \in Running : waiting[k] = 0
  BY DEF Tick
<1>2. Running' = Running
  BY <1>1 DEF Running
<1>3. ASSUME NEW k \in Running, k[1] > 0
      PROVE  Rounded(last, k)' <= attempt'[k] + waiting'[k]
  <2>1. k \in Tasks /\ attempt[k] \in Nat /\ waiting[k] = 0 /\ waiting'[k] = 1
    BY <1>1, TaskRounds, Ranges
  <2>2. (last - k[1]) * Interval \in Int /\ Interval \in Nat /\ next_round \in Nat
    BY <2>1, RoundedType, Constants, Ranges
  <2>3. (last - k[1]) * Interval + (Interval - next_round) <= attempt[k] + 0
    BY <1>3, <2>1 DEF Piled, Rounded
  <2>4. Rounded(last, k)' = (last - k[1]) * Interval + (Interval - (next_round - 1))
    BY <1>1 DEF Rounded
  <2> QED BY <1>1, <2>1, <2>2, <2>3, <2>4
<1>4. Piled(last)'
  BY <1>1, <1>2, <1>3 DEF Piled
<1> QED BY <1>4 DEF PileLedger

LEMMA AttemptPiles ==
  ASSUME SendLedger, SendLedger', PileLedger, NEW k \in Running, NextAttempt(k), Others
  PROVE  PileLedger'
<1>1. waiting' = [waiting EXCEPT ![k] = 0] /\ k \in Tasks
  BY TaskRounds DEF NextAttempt
<1>2. \/ attempt' = [attempt EXCEPT ![k] = @ + 1] /\ task' = task
      \/ task' = [task EXCEPT ![k] = "gave up"] /\ attempt' = attempt
  BY DEF NextAttempt
<1>3. Running' \subseteq Running
  BY <1>1, <1>2 DEF Running, SendLedger, SendTypeOK
<1>4. ASSUME NEW q \in Running'
      PROVE  attempt[q] + waiting[q] <= attempt'[q] + waiting'[q]
  <2>1. q \in Tasks /\ attempt[q] \in Nat /\ waiting[q] \in {0, 1}
    BY <1>3, TaskRounds, Ranges
  <2>2. CASE q = k
    <3>1. attempt' = [attempt EXCEPT ![k] = @ + 1]
      BY <1>1, <1>2, <2>2 DEF Running, SendLedger, SendTypeOK
    <3>2. attempt'[q] = attempt[q] + 1 /\ waiting'[q] = 0
      BY <1>1, <2>2, <3>1 DEF SendLedger, SendTypeOK
    <3> QED BY <2>1, <3>2
  <2>3. CASE q # k
    <3>1. attempt'[q] = attempt[q] /\ waiting'[q] = waiting[q]
      BY <1>1, <1>2, <2>1, <2>3 DEF SendLedger, SendTypeOK
    <3> QED BY <2>1, <3>1
  <2> QED BY <2>2, <2>3
<1> QED BY <1>3, <1>4, SamePile DEF Others

LEMMA StepPiles == SendLedger /\ SendLedger' /\ PileLedger /\ [Next]_vars => PileLedger'
<1> SUFFICES ASSUME SendLedger, SendLedger', PileLedger, [Next]_vars PROVE PileLedger'
  OBVIOUS
<1>0. /\ retry_count \in Nat /\ retry_count <= MaxRetries /\ MaxRetries \in Nat
      /\ \A k \in Running : attempt[k] + waiting[k] <= attempt[k] + waiting[k]
  <2>1. \A k \in Running : attempt[k] \in Nat /\ waiting[k] \in Nat
    BY TaskRounds, Ranges
  <2> QED BY <2>1, Ranges, Constants
<1>1. CASE RetryRound
  <2>1. retry_count + 1 \in Rounds
    BY <1>0 DEF Rounds
  <2> QED BY <1>1, <2>1, SpawnPiles DEF RetryRound
<1>2. CASE LastRound
  <2>1. retry_count + 1 \in Rounds /\ retry_count = MaxRetries
    BY <1>0, <1>2 DEF Rounds, LastRound
  <2> QED BY <1>2, <2>1, SpawnPiles DEF LastRound
<1>3. CASE IdleRound
  BY <1>3, IdlePiles
<1>4. CASE Forget \/ UNCHANGED vars
  <2>1. /\ Running' = Running /\ attempt' = attempt /\ waiting' = waiting
        /\ next_round' = next_round /\ retry_count' = retry_count /\ (stored' => stored)
    BY <1>4 DEF Forget, vars, taskVars, Running
  <2> QED BY <1>0, <2>1, SamePile
<1>5. ASSUME NEW k \in Tasks, SendTask(k) PROVE PileLedger'
  <2>1. CASE SendSucceeds(k)
    <3>1. /\ task' = [task EXCEPT ![k] = "done"] /\ attempt' = attempt /\ waiting' = waiting
          /\ next_round' = next_round /\ retry_count' = retry_count /\ stored' = stored
      BY <2>1 DEF SendSucceeds, Others
    <3>2. Running' \subseteq Running
      BY <3>1 DEF Running, SendLedger, SendTypeOK
    <3> QED BY <1>0, <3>1, <3>2, SamePile
  <2>2. CASE SendFails(k) \/ SendTimesOut(k)
    BY <2>2, AttemptPiles DEF SendFails, SendTimesOut
  <2> QED BY <1>5, <2>1, <2>2 DEF SendTask
<1>6. CASE Tick
  BY <1>6, TickPiles
<1> QED BY <1>1, <1>2, <1>3, <1>4, <1>5, <1>6 DEF Next, RetryLoop

LEMMA InitPiles == Init => PileLedger
<1> SUFFICES ASSUME Init PROVE PileLedger
  OBVIOUS
<1>1. 0 \in Rounds
  BY Constants DEF Rounds
<1>2. \A k \in Running : k[1] = 0
  BY DEF Init, Running
<1>3. Piled(0)
  BY <1>2 DEF Init, Piled
<1> QED BY <1>1, <1>3 DEF PileLedger

(* What spans no more than r ticks spans no more than r \div v intervals.   *)
LEMMA WholeIntervals ==
  ASSUME NEW r \in Nat, NEW v \in Nat \ {0}, NEW d \in Nat, d * v <= r
  PROVE  d <= r \div v
<1> DEFINE q == r \div v
<1>1. q \in Nat /\ r < q * v + v
  BY SMT
<1> HIDE DEF q
<1>2. ASSUME d >= q + 1 PROVE FALSE
  <2>1. d * v >= (q + 1) * v /\ (q + 1) * v = q * v + v
    BY <1>1, <1>2, SMT
  <2>2. d * v \in Nat /\ q * v \in Nat
    BY <1>1, SMT
  <2> QED BY <1>1, <2>1, <2>2
<1>3. d <= q
  BY <1>1, <1>2
<1> QED BY <1>3 DEF q

(* However slow the leaders are, at most Overlap tasks of the retry loop    *)
(* and the handler's one send to the same leader at a time.                 *)
THEOREM TasksDoNotPile == Spec => []OverlapBounded
<1>1. SendLedger /\ PileLedger => OverlapBounded
  <2> SUFFICES ASSUME SendLedger, PileLedger, NEW l \in Leaders
               PROVE  Cardinality({k \in Running : k[2] = l}) <= Overlap + 1
    BY DEF OverlapBounded
  <2> PICK last \in Rounds : Piled(last)
    BY DEF PileLedger
  <2> DEFINE q == SEND_TXN_RETRIES \div Interval
             T == {k \in Running : k[2] = l}
             S == ((last - q)..last) \cup {0}
             f == [k \in T |-> k[1]]
  <2>0. q \in Nat /\ last \in Nat /\ Overlap = q + 1
    BY Constants, TaskRounds DEF Overlap
  <2>1. ASSUME NEW k \in T PROVE k[1] \in S
    <3>1. /\ k \in Tasks /\ k[1] \in Nat /\ k[1] <= last
          /\ attempt[k] \in Nat /\ attempt[k] < SEND_TXN_RETRIES /\ waiting[k] \in {0, 1}
      BY TaskRounds, Ranges DEF Piled
    <3>2. CASE k[1] = 0
      BY <3>2
    <3>3. CASE k[1] > 0
      <4>1. Rounded(last, k) <= attempt[k] + waiting[k]
        BY <3>3 DEF Piled
      <4>2. (last - k[1]) * Interval \in Int /\ next_round \in Nat /\ next_round <= Interval
        BY <3>1, RoundedType, Ranges
      <4>3. (last - k[1]) * Interval <= SEND_TXN_RETRIES
        BY <3>1, <4>1, <4>2, Constants DEF Rounded
      <4>4. last - k[1] \in Nat
        BY <2>0, <3>1
      <4>5. last - k[1] <= q
        BY <4>3, <4>4, Constants, WholeIntervals
      <4> QED BY <2>0, <3>1, <4>5
    <3> QED BY <3>1, <3>2, <3>3
  <2>2. \A j, k \in T : j[1] = k[1] => j = k
    BY DEF Running, Tasks
  <2>3. f \in Injection(T, S)
    BY <2>1, <2>2, Fun_IsInj
  <2>4. IsFiniteSet(S) /\ Cardinality(S) <= q + 2
    <3> HIDE DEF q
    <3>1. last - q \in Int /\ last \in Int /\ ~(last - q > last)
      BY <2>0
    <3>2. /\ IsFiniteSet((last - q)..last)
          /\ Cardinality((last - q)..last) = last - (last - q) + 1
      BY <3>1, FS_Interval
    <3>3. Cardinality((last - q)..last) = q + 1
      BY <2>0, <3>2
    <3>4. /\ IsFiniteSet(S)
          /\ \/ Cardinality(S) = Cardinality((last - q)..last)
             \/ Cardinality(S) = Cardinality((last - q)..last) + 1
      BY <3>2, FS_AddElement
    <3> QED BY <2>0, <3>3, <3>4
  <2>5. IsFiniteSet(T) /\ Cardinality(T) <= Cardinality(S)
    BY <2>3, <2>4, FS_Injection
  <2>6. Cardinality(T) \in Nat /\ Cardinality(S) \in Nat
    BY <2>4, <2>5, FS_CardinalityType
  <2> QED BY <2>0, <2>4, <2>5, <2>6
<1>2. Spec => []PileLedger
  BY InitPiles, StepPiles, SendLedgerInvariant, PTL DEF Spec
<1> QED BY <1>1, <1>2, SendLedgerInvariant, PTL
=============================================================================
