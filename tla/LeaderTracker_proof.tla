------------------------ MODULE LeaderTracker_proof ------------------------
(***************************************************************************)
(* Proofs about LeaderTracker, for any schedule, offset, number of leaders *)
(* and number of slots looked ahead.  TrackerInv is the inductive          *)
(* invariant.                                                              *)
(***************************************************************************)
EXTENDS LeaderTracker, FiniteSetTheorems, TLAPS

(* Remainders of u64 arithmetic are u64 numbers. *)
LEMMA WrapsIntoRange ==
  ASSUME NEW x \in Int
  PROVE  x % U64 \in 0..(U64 - 1)
BY TrackerAssumption, SMT

(* So the slot poll_slot stores is one, also for a negative leader offset. *)
LEMMA StartSlotRange ==
  ASSUME NEW s \in 1..LastSlot
  PROVE  StartSlot(s) \in 0..(U64 - 1)
<1>1. LeaderOffset * SlotsPerLeader \in Int
  BY TrackerAssumption, SMT
<1>2. s + LeaderOffset * SlotsPerLeader \in Int
  BY <1>1, TrackerAssumption, SMT
<1> QED BY <1>2, WrapsIntoRange DEF StartSlot

(* The tracker starts with an empty map and nothing polled. *)
LEMMA InitTracker == Init => TrackerInv
<1> SUFFICES ASSUME Init PROVE TrackerInv
  OBVIOUS
<1> USE TrackerAssumption DEF Init
<1>1. TypeOK
  BY DEF TypeOK, Slots
<1>2. MapFaithful /\ PollBehind /\ Covered
  BY DEF MapFaithful, PollBehind, Covered, Slots
<1> QED BY <1>1, <1>2 DEF TrackerInv

(* The slots are natural numbers. *)
LEMMA SlotsAreNumbers == \A s \in Slots : s \in Nat
BY TrackerAssumption DEF Slots

(* So are the numbers the type invariant bounds by U64 and LookAhead. *)
LEMMA CountersAreNumbers ==
  ASSUME TypeOK
  PROVE  /\ cur_slot \in Nat /\ next_slot \in Nat /\ start_slot \in Nat
         /\ inserted \in Nat /\ horizon \in Nat
<1>1. /\ cur_slot \in 0..(U64 - 1) /\ next_slot \in 0..(U64 - 1)
      /\ start_slot \in 0..(U64 - 1)
      /\ inserted \in 0..LookAhead /\ horizon \in Nat
  BY DEF TypeOK
<1>2. U64 \in Nat /\ LookAhead \in Nat
  BY TrackerAssumption
<1> QED BY <1>1, <1>2

(* A step of a reader, or one that only moves the slot forward, keeps what  *)
(* the invariant says of the map and of the poll.                           *)
LEMMA MapUntouched ==
  ASSUME TrackerInv, TypeOK', cur_slot <= cur_slot',
         cur_leaders' = cur_leaders, poller' = poller, next_slot' = next_slot,
         nodes' = nodes, inserted' = inserted, slots_to_remove' = slots_to_remove,
         horizon' = horizon
  PROVE  MapFaithful' /\ PollBehind' /\ Covered'
<1> USE DEF TrackerInv
<1>1. cur_slot \in Nat /\ next_slot \in Nat /\ inserted \in Nat /\ horizon \in Nat
  BY CountersAreNumbers
<1>2. cur_slot' \in Nat
  <2>1. cur_slot' \in 0..(U64 - 1)
    BY DEF TypeOK
  <2>2. U64 \in Nat
    BY TrackerAssumption
  <2> QED BY <2>1, <2>2
<1>3. MapFaithful'
  BY DEF MapFaithful
<1>4. next_slot <= cur_slot'
  <2>1. next_slot <= cur_slot
    BY DEF PollBehind
  <2> QED BY <2>1, <1>1, <1>2
<1>5. ASSUME NEW s \in slots_to_remove PROVE s < cur_slot'
  <2>1. s \in Nat
    BY SlotsAreNumbers DEF TypeOK
  <2>2. s < cur_slot
    BY DEF PollBehind
  <2> QED BY <2>1, <2>2, <1>1, <1>2
<1>6. PollBehind'
  BY <1>4, <1>5 DEF PollBehind
<1>7. ASSUME NEW s \in Slots, cur_slot' <= s, s < horizon, Schedule[s] \in StableNodes
      PROVE  cur_leaders[s] # None
  <2>1. cur_slot <= s
    BY <1>1, <1>2, <1>7, SlotsAreNumbers
  <2> QED BY <2>1, <1>7 DEF Covered
<1>8. Covered'
  BY <1>7 DEF Covered
<1> QED BY <1>3, <1>6, <1>8

(* The slot only moves forward. *)
LEMMA PollSlotKeeps == TrackerInv /\ PollSlot => TrackerInv'
<1> SUFFICES ASSUME TrackerInv, PollSlot PROVE TrackerInv'
  OBVIOUS
<1> USE DEF TrackerInv
<1>1. /\ cur_slot' \in 0..(U64 - 1)
      /\ cur_slot' > cur_slot
      /\ UNCHANGED <<cur_leaders, pollVars, readVars>>
  BY StartSlotRange DEF PollSlot
<1>2. /\ cur_leaders' = cur_leaders /\ poller' = poller /\ next_slot' = next_slot
      /\ nodes' = nodes /\ inserted' = inserted
      /\ slots_to_remove' = slots_to_remove /\ horizon' = horizon
      /\ reader' = reader /\ start_slot' = start_slot /\ slot' = slot
      /\ leaders' = leaders /\ promised' = promised
  BY <1>1 DEF pollVars, readVars
<1>3. TypeOK'
  BY <1>1, <1>2 DEF TypeOK
<1>4. cur_slot <= cur_slot'
  <2>1. cur_slot \in Nat /\ U64 \in Nat
    BY CountersAreNumbers, TrackerAssumption
  <2> QED BY <1>1, <2>1
<1> QED BY <1>2, <1>3, <1>4, MapUntouched

(* The conjuncts no step of the poll disturbs: what the readers have. *)
LEMMA ReadersUntouched ==
  ASSUME TypeOK, Poller
  PROVE  /\ cur_slot' = cur_slot
         /\ reader' = reader /\ start_slot' = start_slot /\ slot' = slot
         /\ leaders' = leaders /\ promised' = promised
BY DEF Poller, LoadSlot, GetSlotLeaders, GetClusterNodes, RpcFails, InsertLeader,
       StartCleanup, RemoveSlot, PollDone, readVars

(* Each step of poll_slot_leaders_once keeps the invariant. *)
LEMMA PollerKeeps == TrackerInv /\ Poller => TrackerInv'
<1> SUFFICES ASSUME TrackerInv, Poller PROVE TrackerInv'
  OBVIOUS
<1> USE DEF TrackerInv
<1>0. cur_slot \in Nat /\ next_slot \in Nat /\ inserted \in Nat /\ horizon \in Nat
  BY CountersAreNumbers
<1>R. /\ cur_slot' = cur_slot
      /\ reader' = reader /\ start_slot' = start_slot /\ slot' = slot
      /\ leaders' = leaders /\ promised' = promised
  BY ReadersUntouched
<1>1. CASE LoadSlot
  <2>0. /\ poller' = "slot leaders" /\ next_slot' = cur_slot
        /\ cur_leaders' = cur_leaders /\ nodes' = nodes /\ inserted' = inserted
        /\ slots_to_remove' = slots_to_remove /\ horizon' = horizon
    BY <1>1 DEF LoadSlot
  <2>1. TypeOK'
    BY <1>R, <2>0 DEF TypeOK
  <2>2. MapFaithful' /\ Covered'
    BY <1>R, <2>0 DEF MapFaithful, Covered
  <2>3. next_slot' <= cur_slot'
    <3>1. cur_slot <= cur_slot
      BY <1>0
    <3> QED BY <1>R, <2>0, <3>1
  <2>4. PollBehind'
    BY <1>R, <2>0, <2>3 DEF PollBehind
  <2> QED BY <2>1, <2>2, <2>4
<1>2. CASE GetSlotLeaders
  <2>0. /\ next_slot + LookAhead - 1 \in Slots
        /\ poller' = "cluster nodes" /\ next_slot' = next_slot
        /\ cur_leaders' = cur_leaders /\ nodes' = nodes /\ inserted' = inserted
        /\ slots_to_remove' = slots_to_remove /\ horizon' = horizon
    BY <1>2 DEF GetSlotLeaders
  <2>1. TypeOK'
    BY <1>R, <2>0 DEF TypeOK
  <2>2. MapFaithful' /\ Covered'
    BY <1>R, <2>0 DEF MapFaithful, Covered
  <2>3. \A i \in 0..(LookAhead - 1) : next_slot + i \in Slots
    <3>1. LookAhead \in Nat /\ LastScheduled \in Nat
      BY TrackerAssumption
    <3>2. next_slot + LookAhead - 1 \in 0..LastScheduled
      BY <2>0 DEF Slots
    <3>3. ASSUME NEW i \in 0..(LookAhead - 1) PROVE next_slot + i \in 0..LastScheduled
      BY <1>0, <3>1, <3>2
    <3> QED BY <3>3 DEF Slots
  <2>4. PollBehind'
    BY <1>R, <2>0, <2>3 DEF PollBehind
  <2> QED BY <2>1, <2>2, <2>4
<1>3. CASE GetClusterNodes
  <2>0. /\ poller = "cluster nodes" /\ poller' = "insert" /\ inserted' = 0
        /\ nodes' \subseteq Validators /\ StableNodes \subseteq nodes'
        /\ next_slot' = next_slot /\ cur_leaders' = cur_leaders
        /\ slots_to_remove' = slots_to_remove /\ horizon' = horizon
    BY <1>3 DEF GetClusterNodes
  <2>1. 0 \in 0..LookAhead
    BY TrackerAssumption, SMT
  <2>2. TypeOK'
    BY <1>R, <2>0, <2>1 DEF TypeOK
  <2>3. MapFaithful' /\ Covered'
    BY <1>R, <2>0 DEF MapFaithful, Covered
  <2>4. \A s \in Slots : ~(next_slot <= s /\ s < next_slot + 0)
    BY <1>0, SlotsAreNumbers
  <2>5. PollBehind'
    BY <1>R, <2>0, <2>4 DEF PollBehind
  <2> QED BY <2>2, <2>3, <2>5
<1>4. CASE RpcFails
  <2>0. /\ poller' = "sleep"
        /\ next_slot' = next_slot /\ cur_leaders' = cur_leaders
        /\ nodes' = nodes /\ inserted' = inserted
        /\ slots_to_remove' = slots_to_remove /\ horizon' = horizon
    BY <1>4 DEF RpcFails
  <2> QED BY <1>R, <2>0 DEF TypeOK, MapFaithful, PollBehind, Covered
<1>5. CASE InsertLeader
  <2> DEFINE s == next_slot + inserted
  <2>0. /\ poller = "insert" /\ inserted < LookAhead /\ inserted' = inserted + 1
        /\ cur_leaders' = IF Schedule[s] \in nodes
                          THEN [cur_leaders EXCEPT ![s] = Schedule[s]] ELSE cur_leaders
        /\ poller' = poller /\ next_slot' = next_slot /\ nodes' = nodes
        /\ slots_to_remove' = slots_to_remove /\ horizon' = horizon
    BY <1>5 DEF InsertLeader, MoreToInsert
  <2>1. s \in Slots
    BY <2>0, <1>0, TrackerAssumption DEF PollBehind
  <2>2. Schedule[s] \in Validators /\ Schedule[s] # None
    BY <2>1, TrackerAssumption
  <2>3. cur_leaders' \in [Slots -> Validators \cup {None}]
    BY <2>0, <2>1, <2>2 DEF TypeOK
  <2>4. TypeOK'
    BY <1>R, <2>0, <2>3, <1>0, TrackerAssumption DEF TypeOK
  <2>5. \A t \in Slots : cur_leaders'[t] = cur_leaders[t]
                           \/ (t = s /\ cur_leaders'[t] = Schedule[s])
    BY <2>0, <2>1 DEF TypeOK
  <2>6. MapFaithful'
    BY <2>5 DEF MapFaithful
  <2>7. Covered'
    BY <1>R, <2>0, <2>2, <2>5 DEF Covered
  <2>8. ASSUME NEW t \in Slots, next_slot <= t, t < next_slot + (inserted + 1),
               Schedule[t] \in StableNodes
        PROVE  cur_leaders'[t] # None
    <3>1. CASE t = s
      BY <2>0, <2>1, <2>2, <2>8, <3>1 DEF TypeOK, PollBehind
    <3>2. CASE t < s
      BY <2>0, <2>2, <2>5, <2>8, <3>2 DEF PollBehind
    <3> QED BY <2>8, <3>1, <3>2, <1>0, SlotsAreNumbers
  <2>9. PollBehind'
    BY <1>R, <2>0, <2>8 DEF PollBehind
  <2> QED BY <2>4, <2>6, <2>7, <2>9
<1>6. CASE StartCleanup
  <2>0. /\ poller = "insert" /\ ~(inserted < LookAhead) /\ poller' = "cleanup"
        /\ slots_to_remove' = {s \in Slots : cur_leaders[s] # None /\ s < cur_slot}
        /\ horizon' = next_slot + LookAhead
        /\ cur_leaders' = cur_leaders /\ next_slot' = next_slot
        /\ nodes' = nodes /\ inserted' = inserted
    BY <1>6 DEF StartCleanup, MoreToInsert, IsPast
  <2>1. inserted = LookAhead
    BY <2>0, TrackerAssumption DEF TypeOK
  <2>2. TypeOK'
    BY <1>R, <2>0, <1>0, TrackerAssumption DEF TypeOK
  <2>3. MapFaithful'
    BY <2>0 DEF MapFaithful
  <2>4. PollBehind'
    BY <1>R, <2>0 DEF PollBehind
  <2>5. ASSUME NEW s \in Slots, cur_slot <= s, s < next_slot + LookAhead,
               Schedule[s] \in StableNodes
        PROVE  cur_leaders[s] # None
    <3>1. next_slot <= cur_slot
      BY DEF PollBehind
    <3>2. next_slot <= s
      BY <2>5, <3>1, <1>0, SlotsAreNumbers
    <3> QED BY <2>0, <2>1, <2>5, <3>2 DEF PollBehind
  <2>6. Covered'
    BY <1>R, <2>0, <2>5 DEF Covered
  <2> QED BY <2>2, <2>3, <2>4, <2>6
<1>7. CASE RemoveSlot
  <2>0. PICK s \in slots_to_remove :
           /\ cur_leaders' = [cur_leaders EXCEPT ![s] = None]
           /\ slots_to_remove' = slots_to_remove \ {s}
    BY <1>7 DEF RemoveSlot
  <2>1. /\ poller = "cleanup" /\ poller' = poller /\ next_slot' = next_slot
        /\ nodes' = nodes /\ inserted' = inserted /\ horizon' = horizon
    BY <1>7 DEF RemoveSlot
  <2>2. s \in Slots /\ s < cur_slot
    BY DEF TypeOK, PollBehind
  <2>3. TypeOK'
    BY <1>R, <2>0, <2>1, <2>2 DEF TypeOK
  <2>4. \A t \in Slots : cur_leaders'[t] = IF t = s THEN None ELSE cur_leaders[t]
    BY <2>0, <2>2 DEF TypeOK
  <2>5. MapFaithful'
    BY <2>4 DEF MapFaithful
  <2>6. PollBehind'
    BY <1>R, <2>0, <2>1 DEF PollBehind
  <2>7. ASSUME NEW t \in Slots, cur_slot <= t PROVE t # s
    BY <2>2, <2>7, <1>0, SlotsAreNumbers
  <2>8. Covered'
    BY <1>R, <2>1, <2>4, <2>7 DEF Covered
  <2> QED BY <2>3, <2>5, <2>6, <2>8
<1>8. CASE PollDone
  <2>0. /\ poller' = "sleep"
        /\ next_slot' = next_slot /\ cur_leaders' = cur_leaders
        /\ nodes' = nodes /\ inserted' = inserted
        /\ slots_to_remove' = slots_to_remove /\ horizon' = horizon
    BY <1>8 DEF PollDone
  <2> QED BY <1>R, <2>0 DEF TypeOK, MapFaithful, PollBehind, Covered
<1> QED BY <1>1, <1>2, <1>3, <1>4, <1>5, <1>6, <1>7, <1>8 DEF Poller

(* A reader writes nothing the invariant is about but its own variables. *)
LEMMA ReaderKeeps == TrackerInv /\ Reader => TrackerInv'
<1> SUFFICES ASSUME TrackerInv, Reader PROVE TrackerInv'
  OBVIOUS
<1> USE DEF TrackerInv
<1>1. UNCHANGED <<cur_slot, cur_leaders, pollVars>>
  BY DEF Reader, StartRead, ReadSlot, WindowRead, Return
<1>2. /\ cur_slot' = cur_slot
      /\ cur_leaders' = cur_leaders /\ poller' = poller /\ next_slot' = next_slot
      /\ nodes' = nodes /\ inserted' = inserted
      /\ slots_to_remove' = slots_to_remove /\ horizon' = horizon
  BY <1>1 DEF pollVars
<1>3. cur_slot \in Nat
  BY CountersAreNumbers
<1>4. /\ reader' \in {"idle", "reading", "done"}
      /\ start_slot' \in 0..(U64 - 1) /\ slot' \in Nat /\ promised' \in Nat
  <2>1. CASE StartRead
    BY <2>1, <1>3 DEF StartRead, TypeOK
  <2>2. CASE ReadSlot
    <3>1. /\ reader' = IF Len(leaders') >= NumLeaders THEN "done" ELSE "reading"
          /\ slot' = slot + 1 /\ start_slot' = start_slot /\ promised' = promised
      BY <2>2 DEF ReadSlot
    <3>2. slot \in Nat /\ start_slot \in 0..(U64 - 1) /\ promised \in Nat
      BY DEF TypeOK
    <3>3. slot + 1 \in Nat
      BY <3>2
    <3>4. reader' = "done" \/ reader' = "reading"
      BY <3>1
    <3> QED BY <3>1, <3>2, <3>3, <3>4
  <2>3. CASE WindowRead \/ Return
    BY <2>3 DEF WindowRead, Return, TypeOK
  <2> QED BY <2>1, <2>2, <2>3 DEF Reader
<1>5. leaders' \in Seq(Validators)
  <2>1. CASE StartRead
    BY <2>1 DEF StartRead
  <2>2. CASE ReadSlot
    <3> DEFINE v == IF slot \in Slots THEN cur_leaders[slot] ELSE None
    <3>1. v = None \/ v \in Validators
      BY DEF TypeOK
    <3>2. leaders' = leaders \/ (v \in Validators /\ leaders' = Append(leaders, v))
      BY <2>2, <3>1 DEF ReadSlot, AddLeader
    <3>3. leaders \in Seq(Validators)
      BY DEF TypeOK
    <3> HIDE DEF v
    <3> QED BY <3>2, <3>3
  <2>3. CASE WindowRead \/ Return
    BY <2>3 DEF WindowRead, Return, TypeOK
  <2> QED BY <2>1, <2>2, <2>3 DEF Reader
<1>6. TypeOK'
  BY <1>2, <1>4, <1>5 DEF TypeOK
<1>7. cur_slot <= cur_slot'
  BY <1>2, <1>3
<1> QED BY <1>2, <1>6, <1>7, MapUntouched

(* TrackerInv holds in every reachable state. *)
THEOREM TrackerInvariant == Spec => []TrackerInv
<1>1. Init => TrackerInv
  BY InitTracker
<1>2. TrackerInv /\ [Next]_vars => TrackerInv'
  <2> SUFFICES ASSUME TrackerInv, [Next]_vars PROVE TrackerInv'
    OBVIOUS
  <2>1. CASE UNCHANGED vars
    BY <2>1 DEF vars, pollVars, readVars, TrackerInv, TypeOK, MapFaithful, PollBehind, Covered
  <2> QED BY <2>1, PollSlotKeeps, PollerKeeps, ReaderKeeps DEF Next
<1> QED BY <1>1, <1>2, PTL DEF Spec

(* The map never names a leader for a slot of another one. *)
THEOREM MapIsFaithful == Spec => []MapFaithful
<1>1. TrackerInv => MapFaithful
  BY DEF TrackerInv
<1> QED BY <1>1, TrackerInvariant, PTL

(* No refresh and no cleanup digs a hole ahead of the current slot. *)
THEOREM MapIsCovered == Spec => []Covered
<1>1. TrackerInv => Covered
  BY DEF TrackerInv
<1> QED BY <1>1, TrackerInvariant, PTL

(* Every variable keeps its type; the slots keep within a u64, also for a   *)
(* negative leader offset, for which poll_slot wraps.                       *)
THEOREM TrackerTypesKept == Spec => []TypeOK
<1>1. TrackerInv => TypeOK
  BY DEF TrackerInv
<1> QED BY <1>1, TrackerInvariant, PTL

-----------------------------------------------------------------------------
(* What get_leaders returns.  The loop has room for one more leader, unless *)
(* none is asked for and the window is empty.                               *)
RoomLeft ==
  /\ start_slot <= slot
  /\ reader = "reading" => Len(leaders) < NumLeaders \/ NumLeaders = 0

ReaderInv == RoomLeft /\ LeadersInOrder

(* Nobody else disturbs a reader. *)
LEMMA ReaderAlone ==
  ASSUME ReaderInv, UNCHANGED readVars
  PROVE  ReaderInv'
BY DEF readVars, ReaderInv, RoomLeft, LeadersInOrder

LEMMA EmptyAnswer ==
  ASSUME leaders' = <<>>, slot' = start_slot', start_slot' \in Nat
  PROVE  ReaderInv'
<1>1. Len(leaders') = 0
  OBVIOUS
<1>2. NumLeaders \in Nat /\ (0 < NumLeaders \/ NumLeaders = 0)
  BY TrackerAssumption
<1>3. 1..0 = {} /\ 0 <= NumLeaders
  BY <1>2
<1>4. LeadersInOrder'
  BY <1>1, <1>3 DEF LeadersInOrder
<1>5. RoomLeft'
  BY <1>1, <1>2 DEF RoomLeft
<1> QED BY <1>4, <1>5 DEF ReaderInv

(* The end of the window wraps only where u64 arithmetic does; with no      *)
(* leaders asked for it is empty.                                           *)
LEMMA NoLeadersNoWindow ==
  ASSUME start_slot \in 0..(U64 - 1), NumLeaders = 0
  PROVE  EndSlot = start_slot
<1>1. start_slot + NumLeaders * SlotsPerLeader = start_slot
  BY TrackerAssumption
<1>2. U64 \in Nat /\ start_slot % U64 = start_slot
  BY TrackerAssumption
<1> QED BY <1>1, <1>2 DEF EndSlot

(* A leader that is not listed yet goes last, and leads the last slot read. *)
LEMMA LeaderAppended ==
  ASSUME TypeOK, LeadersInOrder, start_slot <= slot, slot \in Slots,
         NEW v, v = Schedule[slot], ~Listed(v), Len(leaders) < NumLeaders,
         leaders' = Append(leaders, v), slot' = slot + 1, start_slot' = start_slot
  PROVE  LeadersInOrder'
<1> DEFINE n == Len(leaders)
<1>1. /\ n \in Nat /\ slot \in Nat /\ start_slot \in Nat /\ NumLeaders \in Nat
      /\ \A s \in Slots : s \in Nat
  <2>1. leaders \in Seq(Validators) /\ slot \in Nat
    BY DEF TypeOK
  <2>2. n \in Nat
    BY <2>1
  <2> HIDE DEF n
  <2> QED BY <2>1, <2>2, CountersAreNumbers, SlotsAreNumbers, TrackerAssumption
<1>2. v \in Validators /\ leaders \in Seq(Validators)
  BY TrackerAssumption DEF TypeOK
<1>3. /\ Len(leaders') = n + 1
      /\ \A i \in 1..n : leaders'[i] = leaders[i]
      /\ leaders'[n + 1] = v
  BY <1>2
<1>4. \A i \in 1..n : leaders[i] # v
  BY DEF Listed
<1>5. /\ n <= NumLeaders
      /\ \A i, j \in 1..n : i # j => leaders[i] # leaders[j]
      /\ \A i \in 1..n : \E s \in Slots :
           /\ start_slot <= s /\ s < slot /\ Schedule[s] = leaders[i]
           /\ \A j \in (i + 1)..n : \E t \in Slots :
                start_slot <= t /\ t < slot /\ s < t /\ Schedule[t] = leaders[j]
  BY DEF LeadersInOrder
<1> HIDE DEF n
<1>6. \A i \in 1..(n + 1) : i \in 1..n \/ i = n + 1
  BY <1>1
<1>7. n + 1 <= NumLeaders
  BY <1>1 DEF n
<1>8. \A i, j \in 1..(n + 1) : i # j => leaders'[i] # leaders'[j]
  BY <1>3, <1>4, <1>5, <1>6
<1>9. ASSUME NEW i \in 1..(n + 1)
      PROVE  \E s \in Slots :
               /\ start_slot <= s /\ s < slot + 1 /\ Schedule[s] = leaders'[i]
               /\ \A j \in (i + 1)..(n + 1) : \E t \in Slots :
                    start_slot <= t /\ t < slot + 1 /\ s < t /\ Schedule[t] = leaders'[j]
  <2>1. CASE i = n + 1
    <3>1. (i + 1)..(n + 1) = {}
      BY <1>1, <2>1
    <3>2. slot < slot + 1 /\ Schedule[slot] = leaders'[i]
      BY <1>1, <1>3, <2>1
    <3> QED BY <3>1, <3>2
  <2>2. CASE i \in 1..n
    <3>1. PICK s \in Slots :
             /\ start_slot <= s /\ s < slot /\ Schedule[s] = leaders[i]
             /\ \A j \in (i + 1)..n : \E t \in Slots :
                  start_slot <= t /\ t < slot /\ s < t /\ Schedule[t] = leaders[j]
      BY <1>5, <2>2
    <3>2. s < slot + 1 /\ Schedule[s] = leaders'[i] /\ s \in Nat
      BY <1>1, <1>3, <2>2, <3>1
    <3>3. ASSUME NEW j \in (i + 1)..(n + 1)
          PROVE  \E t \in Slots :
                   start_slot <= t /\ t < slot + 1 /\ s < t /\ Schedule[t] = leaders'[j]
      <4>1. CASE j = n + 1
        <5>1. slot < slot + 1 /\ Schedule[slot] = leaders'[j]
          BY <1>1, <1>3, <4>1
        <5> QED BY <3>1, <5>1
      <4>2. CASE j # n + 1
        <5>1. j \in (i + 1)..n /\ j \in 1..n
          BY <1>1, <4>2
        <5>2. PICK t \in Slots :
                 start_slot <= t /\ t < slot /\ s < t /\ Schedule[t] = leaders[j]
          BY <3>1, <5>1
        <5>3. t < slot + 1
          BY <1>1, <5>2
        <5> QED BY <1>3, <5>1, <5>2, <5>3
      <4> QED BY <4>1, <4>2
    <3> QED BY <3>1, <3>2, <3>3
  <2> QED BY <1>6, <2>1, <2>2
<1> DEFINE window == {s \in Slots : start_slot' <= s /\ s < slot'}
<1>10. ASSUME NEW i \in 1..(n + 1)
       PROVE  \E s \in window :
                /\ Schedule[s] = leaders'[i]
                /\ \A j \in (i + 1)..(n + 1) : \E t \in window :
                     s < t /\ Schedule[t] = leaders'[j]
  <2>1. \A s \in Slots : start_slot <= s /\ s < slot + 1 => s \in window
    OBVIOUS
  <2> HIDE DEF window
  <2> QED BY <1>9, <2>1
<1>11. Len(leaders') = n + 1
  BY <1>3
<1> QED BY <1>7, <1>8, <1>10, <1>11 DEF LeadersInOrder

(* A slot that adds no leader only widens the window. *)
LEMMA NoneAppended ==
  ASSUME TypeOK, LeadersInOrder,
         leaders' = leaders, slot' = slot + 1, start_slot' = start_slot
  PROVE  LeadersInOrder'
<1>1. slot \in Nat /\ \A s \in Slots : s \in Nat
  BY SlotsAreNumbers DEF TypeOK
<1>2. \A s \in Slots : s < slot => s < slot'
  BY <1>1
<1> DEFINE window == {s \in Slots : start_slot <= s /\ s < slot}
<1>3. window \subseteq window'
  BY <1>2
<1>4. /\ Len(leaders) <= NumLeaders
      /\ \A i, j \in 1..Len(leaders) : i # j => leaders[i] # leaders[j]
      /\ \A i \in 1..Len(leaders) : \E s \in window :
           /\ Schedule[s] = leaders[i]
           /\ \A j \in (i + 1)..Len(leaders) :
                \E t \in window : s < t /\ Schedule[t] = leaders[j]
  BY DEF LeadersInOrder
<1> HIDE DEF window
<1>5. \A i \in 1..Len(leaders) : \E s \in window' :
        /\ Schedule[s] = leaders[i]
        /\ \A j \in (i + 1)..Len(leaders) :
             \E t \in window' : s < t /\ Schedule[t] = leaders[j]
  BY <1>3, <1>4
<1> QED BY <1>4, <1>5 DEF LeadersInOrder, window

LEMMA ReaderSteps ==
  ASSUME TrackerInv, ReaderInv, [Next]_vars
  PROVE  ReaderInv'
<1>t. TypeOK /\ MapFaithful
  BY DEF TrackerInv
<1>1. CASE PollSlot \/ Poller \/ UNCHANGED vars
  <2>1. UNCHANGED readVars
    BY <1>1 DEF PollSlot, Poller, LoadSlot, GetSlotLeaders, GetClusterNodes, RpcFails,
       InsertLeader, StartCleanup, RemoveSlot, PollDone, vars
  <2> QED BY <2>1, ReaderAlone
<1>2. CASE StartRead
  BY <1>t, <1>2, CountersAreNumbers, EmptyAnswer DEF StartRead
<1>3. CASE WindowRead \/ Return
  BY <1>3 DEF WindowRead, Return, ReaderInv, RoomLeft, LeadersInOrder
<1>4. CASE ReadSlot
  <2> DEFINE v == IF slot \in Slots THEN cur_leaders[slot] ELSE None
  <2>1. /\ reader = "reading" /\ slot < EndSlot
        /\ leaders' = AddLeader(v)
        /\ slot' = slot + 1 /\ start_slot' = start_slot
        /\ reader' = IF Len(leaders') >= NumLeaders THEN "done" ELSE "reading"
    BY <1>4 DEF ReadSlot
  <2>2. slot \in Nat /\ start_slot \in Nat /\ NumLeaders \in Nat /\ Len(leaders) \in Nat
    <3>1. leaders \in Seq(Validators) /\ slot \in Nat
      BY <1>t DEF TypeOK
    <3>2. Len(leaders) \in Nat
      BY <3>1
    <3> QED BY <1>t, <3>1, <3>2, CountersAreNumbers, TrackerAssumption
  <2>3. start_slot <= slot /\ start_slot <= slot'
    BY <2>1, <2>2 DEF ReaderInv, RoomLeft
  <2>4. Len(leaders) < NumLeaders
    <3>1. NumLeaders # 0
      <4> SUFFICES ASSUME NumLeaders = 0 PROVE FALSE
        OBVIOUS
      <4>1. EndSlot = start_slot
        BY <1>t, NoLeadersNoWindow DEF TypeOK
      <4> QED BY <2>1, <2>2, <2>3, <4>1
    <3> QED BY <2>1, <3>1 DEF ReaderInv, RoomLeft
  <2>5. Len(leaders') \in Nat /\ LeadersInOrder'
    <3>1. CASE v = None \/ Listed(v)
      <4>1. leaders' = leaders
        BY <2>1, <3>1 DEF AddLeader
      <4> QED BY <1>t, <2>1, <2>2, <4>1, NoneAppended DEF ReaderInv
    <3>2. CASE ~(v = None \/ Listed(v))
      <4>1. leaders' = Append(leaders, v)
        BY <2>1, <3>2 DEF AddLeader
      <4>2. slot \in Slots /\ v = Schedule[slot]
        BY <1>t, <3>2 DEF MapFaithful
      <4>3. Len(leaders') = Len(leaders) + 1
        <5>1. leaders \in Seq(Validators) /\ v \in Validators
          BY <1>t, <3>2 DEF TypeOK
        <5> HIDE DEF v
        <5> QED BY <4>1, <5>1
      <4> HIDE DEF v
      <4>4. LeadersInOrder'
        BY <1>t, <2>1, <2>3, <2>4, <3>2, <4>1, <4>2, LeaderAppended DEF ReaderInv
      <4> QED BY <2>2, <4>3, <4>4
    <3> QED BY <3>1, <3>2
  <2>6. RoomLeft'
    <3>1. reader' = "reading" => Len(leaders') < NumLeaders
      BY <2>1, <2>2, <2>5
    <3> QED BY <2>3, <3>1, <2>1 DEF RoomLeft
  <2> QED BY <2>5, <2>6 DEF ReaderInv
<1> QED BY <1>1, <1>2, <1>3, <1>4 DEF Next, Reader

(* ReaderInv holds in every reachable state.                                *)
THEOREM ReaderInvariant == Spec => []ReaderInv
<1>1. Init => ReaderInv
  <2> SUFFICES ASSUME Init PROVE ReaderInv
    OBVIOUS
  <2>1. leaders = <<>> /\ Len(leaders) = 0 /\ slot = 0 /\ start_slot = 0 /\ reader = "idle"
    BY DEF Init
  <2>2. 1..0 = {} /\ 0 <= NumLeaders
    BY TrackerAssumption
  <2> QED BY <2>1, <2>2 DEF ReaderInv, RoomLeft, LeadersInOrder
<1>2. TrackerInv /\ ReaderInv /\ [Next]_vars => ReaderInv'
  BY ReaderSteps
<1> QED BY <1>1, <1>2, TrackerInvariant, PTL DEF Spec

(* "get_leaders returns the next slot leaders in order": no leader twice,   *)
(* no more than asked for, each for a slot of the window and in the order   *)
(* of the slots, however the map changes while it is read.                  *)
THEOREM LeadersAreInOrder == Spec => []LeadersInOrder
<1>1. ReaderInv => LeadersInOrder
  BY DEF ReaderInv
<1> QED BY <1>1, ReaderInvariant, PTL

-----------------------------------------------------------------------------
(* The map does not grow.  A poll inserts below the end of what it asked    *)
(* for, and its cleanup leaves nothing below the slot it began with; a poll *)
(* that fails leaves the keys of the one before it.                         *)
Within(k) == \A s \in Keys : k <= s /\ s < k + LookAhead

KeysInv ==
  /\ \A s \in Keys : s < next_slot + LookAhead
  /\ poller \in {"sleep", "slot leaders", "cluster nodes"} => \E k \in Nat : Within(k)
  /\ poller = "cleanup" => \A s \in Keys \ slots_to_remove : next_slot <= s

LEMMA KeysAlone ==
  ASSUME KeysInv, UNCHANGED <<cur_leaders, next_slot, slots_to_remove>>,
         poller' \in {"sleep", "slot leaders", "cluster nodes"} =>
           poller \in {"sleep", "slot leaders", "cluster nodes"},
         poller' = "cleanup" => poller = "cleanup"
  PROVE  KeysInv'
BY DEF KeysInv, Within, Keys

LEMMA KeysSteps ==
  ASSUME TrackerInv, KeysInv, [Next]_vars
  PROVE  KeysInv'
<1>0. /\ TypeOK /\ LookAhead \in Nat /\ next_slot <= cur_slot
      /\ cur_slot \in Nat /\ next_slot \in Nat /\ inserted \in Nat
      /\ \A s \in Slots : s \in Nat
  BY CountersAreNumbers, SlotsAreNumbers, TrackerAssumption DEF TrackerInv, PollBehind
<1>1. CASE PollSlot \/ Reader \/ UNCHANGED vars
  <2>1. UNCHANGED pollVars /\ UNCHANGED cur_leaders
    BY <1>1 DEF PollSlot, Reader, StartRead, ReadSlot, WindowRead, Return, vars
  <2> QED BY <2>1, KeysAlone DEF pollVars
<1>2. CASE GetSlotLeaders \/ GetClusterNodes \/ RpcFails
  BY <1>2, KeysAlone DEF GetSlotLeaders, GetClusterNodes, RpcFails
<1>3. CASE LoadSlot
  <2>1. /\ poller = "sleep" /\ poller' = "slot leaders" /\ next_slot' = cur_slot
        /\ Keys' = Keys /\ slots_to_remove' = slots_to_remove
    BY <1>3 DEF LoadSlot, Keys
  <2>2. ASSUME NEW s \in Keys PROVE s < cur_slot + LookAhead
    <3>1. s \in Nat /\ s < next_slot + LookAhead
      BY <1>0 DEF KeysInv, Keys
    <3> QED BY <1>0, <3>1
  <2> QED BY <2>1, <2>2 DEF KeysInv, Within
<1>4. CASE InsertLeader
  <2>1. /\ poller = "insert" /\ poller' = "insert" /\ inserted < LookAhead
        /\ next_slot' = next_slot
        /\ \A s \in Slots : s # next_slot + inserted => cur_leaders'[s] = cur_leaders[s]
    BY <1>0, <1>4 DEF InsertLeader, MoreToInsert, TypeOK
  <2>2. ASSUME NEW s \in Keys' PROVE s < next_slot + LookAhead
    <3>1. CASE s = next_slot + inserted
      BY <1>0, <2>1, <3>1
    <3>2. CASE s # next_slot + inserted
      BY <2>1, <3>2 DEF Keys, KeysInv
    <3> QED BY <3>1, <3>2
  <2> QED BY <2>1, <2>2 DEF KeysInv
<1>5. CASE StartCleanup
  <2>1. /\ poller' = "cleanup" /\ next_slot' = next_slot /\ Keys' = Keys
        /\ slots_to_remove' = {s \in Slots : cur_leaders[s] # None /\ s < cur_slot}
    BY <1>5 DEF StartCleanup, Keys, IsPast
  <2>2. ASSUME NEW s \in Keys', s \notin slots_to_remove' PROVE next_slot <= s
    <3>1. s \in Nat /\ ~(s < cur_slot)
      BY <1>0, <2>1, <2>2 DEF Keys
    <3> QED BY <1>0, <3>1
  <2> QED BY <2>1, <2>2 DEF KeysInv
<1>6. CASE RemoveSlot
  <2>0. PICK s \in slots_to_remove :
           /\ cur_leaders' = [cur_leaders EXCEPT ![s] = None]
           /\ slots_to_remove' = slots_to_remove \ {s}
    BY <1>6 DEF RemoveSlot
  <2>1. /\ poller = "cleanup" /\ poller' = "cleanup" /\ next_slot' = next_slot
    BY <1>6 DEF RemoveSlot
  <2>2. Keys' = Keys \ {s}
    BY <1>0, <2>0 DEF Keys, TypeOK
  <2> QED BY <2>0, <2>1, <2>2 DEF KeysInv
<1>7. CASE PollDone
  <2>1. /\ poller = "cleanup" /\ slots_to_remove = {} /\ poller' = "sleep"
        /\ next_slot' = next_slot /\ Keys' = Keys
    BY <1>7 DEF PollDone, Keys
  <2>2. Within(next_slot)'
    BY <2>1 DEF KeysInv, Within
  <2> QED BY <1>0, <2>1, <2>2 DEF KeysInv, Within
<1> QED BY <1>1, <1>2, <1>3, <1>4, <1>5, <1>6, <1>7 DEF Next, Poller

(* Between two polls the map holds at most as many slots as one poll asks   *)
(* for, whatever polls failed and however far the slot moved.               *)
THEOREM MapIsBounded == Spec => []MapBounded
<1>1. Init => KeysInv
  <2> SUFFICES ASSUME Init PROVE KeysInv
    OBVIOUS
  <2>1. Keys = {} /\ poller = "sleep" /\ 0 \in Nat
    BY DEF Init, Keys
  <2> QED BY <2>1 DEF KeysInv, Within
<1>2. TrackerInv /\ KeysInv /\ [Next]_vars => KeysInv'
  BY KeysSteps
<1>3. KeysInv => MapBounded
  <2> SUFFICES ASSUME KeysInv, poller = "sleep" PROVE Cardinality(Keys) <= LookAhead
    BY DEF MapBounded
  <2>1. PICK k \in Nat : Within(k)
    BY DEF KeysInv
  <2>2. LookAhead \in Nat /\ \A s \in Keys : s \in Nat
    BY SlotsAreNumbers, TrackerAssumption DEF Keys
  <2>3. Keys \subseteq k..(k + LookAhead - 1)
    BY <2>1, <2>2 DEF Within
  <2>4. k \in Int /\ k + LookAhead - 1 \in Int
    BY <2>2
  <2>5. /\ IsFiniteSet(k..(k + LookAhead - 1))
        /\ Cardinality(k..(k + LookAhead - 1))
             = IF k > k + LookAhead - 1 THEN 0 ELSE (k + LookAhead - 1) - k + 1
    BY <2>4, FS_Interval
  <2>6. Cardinality(k..(k + LookAhead - 1)) = LookAhead
    BY <2>2, <2>5
  <2>7. Cardinality(Keys) <= Cardinality(k..(k + LookAhead - 1))
    BY <2>3, <2>5, FS_Subset
  <2> QED BY <2>6, <2>7
<1> QED BY <1>1, <1>2, <1>3, TrackerInvariant, PTL DEF Spec

-----------------------------------------------------------------------------
(* The exact answer.  From slot b on, the first slot of each leader before  *)
(* slot k: get_leaders adds a leader at these slots and at no other.        *)
Leads(b, s) == \A t \in Slots : b <= t /\ t < s => Schedule[t] # Schedule[s]

Firsts(b, k) == {s \in Slots : b <= s /\ s < k /\ Leads(b, s)}

LEMMA FirstsCounted ==
  ASSUME NEW b \in Nat, NEW k \in Nat
  PROVE  IsFiniteSet(Firsts(b, k)) /\ Cardinality(Firsts(b, k)) \in Nat
<1>1. IsFiniteSet(Slots)
  <2>1. 0 \in Int /\ LastScheduled \in Int
    BY TrackerAssumption
  <2> QED BY <2>1, FS_Interval DEF Slots
<1>2. Firsts(b, k) \subseteq Slots
  BY DEF Firsts
<1>3. IsFiniteSet(Firsts(b, k))
  BY <1>1, <1>2, FS_Subset
<1> QED BY <1>3, FS_CardinalityType

LEMMA FirstsGrow ==
  ASSUME NEW b \in Nat, NEW j \in Nat, NEW k \in Nat, j <= k
  PROVE  /\ Firsts(b, j) \subseteq Firsts(b, k)
         /\ Cardinality(Firsts(b, j)) <= Cardinality(Firsts(b, k))
<1>1. Firsts(b, j) \subseteq Firsts(b, k)
  BY SlotsAreNumbers DEF Firsts
<1> QED BY <1>1, FirstsCounted, FS_Subset

LEMMA FirstsNext ==
  ASSUME NEW b \in Nat, NEW k \in Nat
  PROVE  /\ k \in Firsts(b, k + 1) =>
              /\ Firsts(b, k + 1) = Firsts(b, k) \cup {k}
              /\ Cardinality(Firsts(b, k + 1)) = Cardinality(Firsts(b, k)) + 1
         /\ k \notin Firsts(b, k + 1) => Firsts(b, k + 1) = Firsts(b, k)
<1>1. k \notin Firsts(b, k)
  BY DEF Firsts
<1>2. \A s \in Slots : s < k + 1 <=> s < k \/ s = k
  BY SlotsAreNumbers
<1>3. \A s : s \in Firsts(b, k + 1) /\ s # k <=> s \in Firsts(b, k)
  BY <1>1, <1>2 DEF Firsts
<1>4. ASSUME k \in Firsts(b, k + 1)
      PROVE  /\ Firsts(b, k + 1) = Firsts(b, k) \cup {k}
             /\ Cardinality(Firsts(b, k + 1)) = Cardinality(Firsts(b, k)) + 1
  <2>1. Firsts(b, k + 1) = Firsts(b, k) \cup {k}
    BY <1>3, <1>4
  <2>2. IsFiniteSet(Firsts(b, k))
    BY FirstsCounted
  <2>3. Cardinality(Firsts(b, k) \cup {k}) = Cardinality(Firsts(b, k)) + 1
    BY <1>1, <2>2, FS_AddElement
  <2> QED BY <2>1, <2>3
<1>5. ASSUME k \notin Firsts(b, k + 1)
      PROVE  Firsts(b, k + 1) = Firsts(b, k)
  BY <1>3, <1>5
<1> QED BY <1>4, <1>5

(* The premise of NextLeadersExact: the slot has not moved since the reader *)
(* started, and the window is within the last refresh.                      *)
Standing ==
  /\ cur_slot = start_slot /\ EndSlot <= promised
  /\ \A s \in Slots : start_slot <= s /\ s < EndSlot => Schedule[s] \in StableNodes

Exact ==
  /\ Len(leaders) = Cardinality(Firsts(start_slot, slot))
  /\ \A s \in Firsts(start_slot, slot) :
       leaders[Cardinality(Firsts(start_slot, s + 1))] = Schedule[s]
  /\ \A s \in Slots : start_slot <= s /\ s < slot => Listed(Schedule[s])

(* What holds of the history, and of where the loop is.                     *)
Bounds ==
  /\ horizon <= next_slot + LookAhead
  /\ start_slot <= cur_slot /\ promised <= horizon
  /\ reader = "done" => Len(leaders) >= NumLeaders \/ slot >= EndSlot

AnswerInv == Bounds /\ (Standing /\ reader # "idle" => Exact)

LEMMA ReadNumbers ==
  ASSUME TrackerInv
  PROVE  /\ cur_slot \in Nat /\ next_slot \in Nat /\ start_slot \in Nat /\ slot \in Nat
         /\ inserted \in Nat /\ horizon \in Nat /\ promised \in Nat
         /\ LookAhead \in Nat /\ NumLeaders \in Nat /\ EndSlot \in Nat
         /\ leaders \in Seq(Validators) /\ Len(leaders) \in Nat
<1>1. TypeOK
  BY DEF TrackerInv
<1>2. slot \in Nat /\ promised \in Nat /\ leaders \in Seq(Validators)
  BY <1>1 DEF TypeOK
<1>3. EndSlot \in Nat
  <2>1. NumLeaders * SlotsPerLeader \in Int
    BY TrackerAssumption, SMT
  <2>2. start_slot + NumLeaders * SlotsPerLeader \in Int
    BY <1>1, <2>1, CountersAreNumbers
  <2>3. EndSlot \in 0..(U64 - 1) /\ U64 \in Nat
    BY <2>2, WrapsIntoRange, TrackerAssumption DEF EndSlot
  <2> QED BY <2>3
<1>4. Len(leaders) \in Nat
  BY <1>2
<1> QED BY <1>1, <1>2, <1>3, <1>4, CountersAreNumbers, TrackerAssumption

(* The slot under which a reader stands is in the map, and right.           *)
LEMMA StandingReads ==
  ASSUME TrackerInv, Bounds, Standing, start_slot <= slot, slot < EndSlot, slot \in Slots
  PROVE  cur_leaders[slot] = Schedule[slot] /\ Schedule[slot] \in Validators \ {None}
<1>1. cur_slot <= slot /\ slot < horizon /\ Schedule[slot] \in StableNodes
  BY ReadNumbers DEF Standing, Bounds
<1>2. cur_leaders[slot] # None /\ cur_leaders[slot] \in {Schedule[slot], None}
  BY <1>1 DEF TrackerInv, Covered, MapFaithful
<1> QED BY <1>2, TrackerAssumption

(* Where the reader adds a leader, and where it does not.                   *)
LEMMA ListedBefore ==
  ASSUME TrackerInv, ReaderInv, Exact, slot \in Slots
  PROVE  Listed(Schedule[slot]) <=> slot \notin Firsts(start_slot, slot + 1)
<1>1. slot < slot + 1 /\ start_slot <= slot
  BY ReadNumbers DEF ReaderInv, RoomLeft
<1>2. ASSUME Listed(Schedule[slot])
      PROVE  slot \notin Firsts(start_slot, slot + 1)
  <2>1. \E t \in Slots : start_slot <= t /\ t < slot /\ Schedule[t] = Schedule[slot]
    BY <1>2 DEF ReaderInv, LeadersInOrder, Listed
  <2> QED BY <2>1 DEF Firsts, Leads
<1>3. ASSUME slot \notin Firsts(start_slot, slot + 1)
      PROVE  Listed(Schedule[slot])
  <2>1. PICK t \in Slots : start_slot <= t /\ t < slot /\ Schedule[t] = Schedule[slot]
    BY <1>1, <1>3 DEF Firsts, Leads
  <2> QED BY <2>1 DEF Exact
<1> QED BY <1>2, <1>3

(* One look-up keeps the answer exact.                                      *)
LEMMA ReadKeepsExact ==
  ASSUME TrackerInv, ReaderInv, Bounds, Standing, Exact, ReadSlot
  PROVE  Exact'
<1> DEFINE v == IF slot \in Slots THEN cur_leaders[slot] ELSE None
           b == start_slot
<1>1. /\ slot < EndSlot /\ leaders' = AddLeader(v)
      /\ slot' = slot + 1 /\ start_slot' = b
  BY DEF ReadSlot
<1>2. b \in Nat /\ slot \in Nat /\ b <= slot /\ leaders \in Seq(Validators)
  BY ReadNumbers DEF ReaderInv, RoomLeft
<1>3. \A s \in Slots : s \in Nat /\ (s < slot + 1 <=> s < slot \/ s = slot)
  BY <1>2, SlotsAreNumbers
<1>4. CASE slot \notin Slots \/ Listed(Schedule[slot])
  <2>1. leaders' = leaders
    <3>1. slot \in Slots => v = Schedule[slot]
      BY <1>1, <1>2, StandingReads
    <3>2. v = None \/ Listed(v)
      BY <1>4, <3>1
    <3> QED BY <1>1, <3>2 DEF AddLeader
  <2>2. slot \notin Firsts(b, slot + 1)
    BY <1>4, ListedBefore DEF Firsts
  <2>3. Firsts(b, slot + 1) = Firsts(b, slot)
    BY <1>2, <2>2, FirstsNext
  <2>4. \A s \in Slots : b <= s /\ s < slot + 1 => Listed(Schedule[s])
    BY <1>3, <1>4 DEF Exact
  <2> QED BY <1>1, <2>1, <2>3, <2>4 DEF Exact, Listed
<1>5. CASE slot \in Slots /\ ~Listed(Schedule[slot])
  <2>1. v = Schedule[slot] /\ v \in Validators /\ v # None
    BY <1>1, <1>2, <1>5, StandingReads
  <2>2. leaders' = Append(leaders, Schedule[slot])
    BY <1>1, <1>5, <2>1 DEF AddLeader
  <2> DEFINE n == Len(leaders)
  <2>3. /\ n \in Nat /\ Len(leaders') = n + 1
        /\ \A i \in 1..n : leaders'[i] = leaders[i]
        /\ leaders'[n + 1] = Schedule[slot]
    BY <1>2, <2>1, <2>2
  <2>4. /\ Firsts(b, slot + 1) = Firsts(b, slot) \cup {slot}
        /\ Cardinality(Firsts(b, slot + 1)) = Cardinality(Firsts(b, slot)) + 1
    BY <1>2, <1>5, ListedBefore, FirstsNext
  <2>5. n = Cardinality(Firsts(b, slot))
    BY DEF Exact
  <2> HIDE DEF n
  <2>6. ASSUME NEW s \in Firsts(b, slot + 1)
        PROVE  leaders'[Cardinality(Firsts(b, s + 1))] = Schedule[s]
    <3>1. CASE s = slot
      BY <2>3, <2>4, <2>5, <3>1
    <3>2. CASE s # slot
      <4>1. s \in Firsts(b, slot) /\ s \in Nat /\ s < slot /\ s < s + 1
        <5>1. s \in Firsts(b, slot) /\ s \in Slots
          BY <2>4, <2>6, <3>2 DEF Firsts
        <5>2. s \in Nat /\ s < slot
          BY <1>3, <5>1 DEF Firsts
        <5> QED BY <5>1, <5>2
      <4>2. Cardinality(Firsts(b, s + 1)) <= n /\ Cardinality(Firsts(b, s + 1)) \in Nat
        <5>1. s + 1 \in Nat /\ s + 1 <= slot
          BY <1>2, <4>1
        <5> QED BY <1>2, <2>5, <5>1, FirstsGrow, FirstsCounted
      <4>3. Cardinality(Firsts(b, s + 1)) > 0
        <5>1. s \in Firsts(b, s + 1)
          BY <4>1 DEF Firsts
        <5>2. Cardinality(Firsts(b, s + 1)) = Cardinality(Firsts(b, s)) + 1
          BY <1>2, <4>1, <5>1, FirstsNext
        <5>3. Cardinality(Firsts(b, s)) \in Nat
          BY <1>2, <4>1, FirstsCounted
        <5> QED BY <5>2, <5>3
      <4>4. leaders[Cardinality(Firsts(b, s + 1))] = Schedule[s]
        BY <4>1 DEF Exact
      <4>5. Cardinality(Firsts(b, s + 1)) \in 1..n
        BY <2>3, <4>2, <4>3
      <4> QED BY <2>3, <4>4, <4>5
    <3> QED BY <3>1, <3>2
  <2>7. ASSUME NEW s \in Slots, b <= s, s < slot + 1
        PROVE  \E i \in 1..(n + 1) : leaders'[i] = Schedule[s]
    <3>1. CASE s = slot
      <4>1. n + 1 \in 1..(n + 1)
        BY <2>3
      <4> QED BY <2>3, <3>1, <4>1
    <3>2. CASE s # slot
      <4>1. s < slot
        BY <1>3, <2>7, <3>2
      <4>2. PICK i \in 1..n : leaders[i] = Schedule[s]
        BY <2>7, <4>1 DEF Exact, Listed, n
      <4>3. i \in 1..(n + 1)
        BY <2>3
      <4> QED BY <2>3, <4>2, <4>3
    <3> QED BY <3>1, <3>2
  <2>8. Len(leaders') = Cardinality(Firsts(b, slot + 1))
    BY <2>3, <2>4, <2>5
  <2>9. \A s \in Slots : b <= s /\ s < slot + 1 =>
          \E i \in 1..Len(leaders') : leaders'[i] = Schedule[s]
    BY <2>3, <2>7
  <2>10. /\ Len(leaders') = Cardinality(Firsts(start_slot', slot'))
         /\ \A s \in Firsts(start_slot', slot') :
              leaders'[Cardinality(Firsts(start_slot', s + 1))] = Schedule[s]
         /\ \A s \in Slots : start_slot' <= s /\ s < slot' =>
              \E i \in 1..Len(leaders') : leaders'[i] = Schedule[s]
    BY <1>1, <2>6, <2>8, <2>9
  <2> QED BY <2>10 DEF Exact, Listed
<1> QED BY <1>4, <1>5

(* Whoever moves on while the slot stands still, or moves the slot.         *)
LEMMA AnswerSteps ==
  ASSUME TrackerInv, TrackerInv', ReaderInv, AnswerInv, [Next]_vars
  PROVE  AnswerInv'
<1>n. /\ cur_slot \in Nat /\ next_slot \in Nat /\ start_slot \in Nat /\ slot \in Nat
      /\ inserted \in Nat /\ horizon \in Nat /\ promised \in Nat
      /\ LookAhead \in Nat /\ NumLeaders \in Nat /\ EndSlot \in Nat
      /\ Len(leaders) \in Nat /\ cur_slot' \in Nat /\ next_slot <= cur_slot
  <2>1. cur_slot' \in 0..(U64 - 1) /\ U64 \in Nat
    BY TrackerAssumption DEF TrackerInv, TypeOK
  <2>2. next_slot <= cur_slot
    BY DEF TrackerInv, PollBehind
  <2> QED BY <2>1, <2>2, ReadNumbers
<1>1. CASE PollSlot \/ Poller \/ UNCHANGED vars
  <2>1. /\ reader' = reader /\ start_slot' = start_slot /\ slot' = slot
        /\ leaders' = leaders /\ promised' = promised
    BY <1>1 DEF PollSlot, Poller, LoadSlot, GetSlotLeaders, GetClusterNodes, RpcFails,
       InsertLeader, StartCleanup, RemoveSlot, PollDone, vars, readVars
  <2>2. cur_slot <= cur_slot'
    <3>1. CASE PollSlot
      BY <1>n, <3>1 DEF PollSlot
    <3>2. CASE Poller \/ UNCHANGED vars
      <4>1. cur_slot' = cur_slot
        BY <3>2 DEF Poller, LoadSlot, GetSlotLeaders, GetClusterNodes, RpcFails,
           InsertLeader, StartCleanup, RemoveSlot, PollDone, vars
      <4> QED BY <1>n, <4>1
    <3> QED BY <1>1, <3>1, <3>2
  <2>3. horizon <= horizon' /\ horizon' <= next_slot' + LookAhead /\ horizon' \in Nat
    <3>1. CASE StartCleanup
      BY <1>n, <3>1 DEF StartCleanup, AnswerInv, Bounds
    <3>2. CASE LoadSlot
      <4>1. horizon' = horizon /\ next_slot' = cur_slot
        BY <3>2 DEF LoadSlot
      <4>2. horizon <= next_slot + LookAhead
        BY DEF AnswerInv, Bounds
      <4> QED BY <1>n, <4>1, <4>2
    <3>3. CASE ~StartCleanup /\ ~LoadSlot
      <4>1. horizon' = horizon /\ next_slot' = next_slot
        BY <1>1, <3>3 DEF PollSlot, Poller, GetSlotLeaders, GetClusterNodes, RpcFails,
           InsertLeader, RemoveSlot, PollDone, vars, pollVars
      <4> QED BY <1>n, <4>1 DEF AnswerInv, Bounds
    <3> QED BY <3>1, <3>2, <3>3
  <2>4. EndSlot' = EndSlot
    BY <2>1 DEF EndSlot
  <2>5. Bounds'
    BY <1>n, <2>1, <2>2, <2>3, <2>4 DEF AnswerInv, Bounds
  <2>6. Standing' => Standing
    BY <1>n, <2>1, <2>2, <2>4 DEF AnswerInv, Bounds, Standing
  <2>7. Exact => Exact'
    BY <2>1 DEF Exact, Listed
  <2> QED BY <2>1, <2>5, <2>6, <2>7 DEF AnswerInv
<1>2. CASE StartRead
  <2>1. /\ reader' = "reading" /\ start_slot' = cur_slot /\ slot' = cur_slot
        /\ leaders' = <<>> /\ promised' = horizon
        /\ cur_slot' = cur_slot /\ horizon' = horizon /\ next_slot' = next_slot
    BY <1>2 DEF StartRead, pollVars
  <2>2. Bounds'
    BY <1>n, <2>1 DEF AnswerInv, Bounds
  <2>3. \A s \in Slots : ~(cur_slot <= s /\ s < cur_slot)
    BY <1>n, SlotsAreNumbers
  <2>4. Firsts(cur_slot, cur_slot) = {}
    BY <2>3 DEF Firsts
  <2>5. Len(leaders') = Cardinality(Firsts(cur_slot, cur_slot))
    BY <2>1, <2>4, FS_EmptySet
  <2>6. Exact'
    BY <2>1, <2>3, <2>4, <2>5 DEF Exact
  <2> QED BY <2>2, <2>6 DEF AnswerInv
<1>3. CASE WindowRead \/ Return
  <2>1. /\ start_slot' = start_slot /\ slot' = slot /\ leaders' = leaders
        /\ promised' = promised /\ cur_slot' = cur_slot /\ horizon' = horizon
        /\ next_slot' = next_slot /\ EndSlot' = EndSlot
    BY <1>3 DEF WindowRead, Return, pollVars, EndSlot
  <2>2. \/ reader = "reading" /\ reader' = "done" /\ slot >= EndSlot
        \/ reader' = "idle"
    BY <1>3 DEF WindowRead, Return
  <2>3. Bounds'
    BY <2>1, <2>2 DEF AnswerInv, Bounds
  <2>4. (Standing' => Standing) /\ (Exact => Exact')
    BY <2>1 DEF Standing, Exact, Listed
  <2> QED BY <2>2, <2>3, <2>4 DEF AnswerInv
<1>4. CASE ReadSlot
  <2>1. /\ reader = "reading" /\ start_slot' = start_slot /\ promised' = promised
        /\ cur_slot' = cur_slot /\ horizon' = horizon /\ next_slot' = next_slot
        /\ EndSlot' = EndSlot
        /\ reader' = IF Len(leaders') >= NumLeaders THEN "done" ELSE "reading"
    BY <1>4 DEF ReadSlot, pollVars, EndSlot
  <2>2. Bounds'
    <3>1. reader' = "done" => Len(leaders') >= NumLeaders
      BY <2>1
    <3> QED BY <2>1, <3>1 DEF AnswerInv, Bounds
  <2>3. Standing' => Standing
    BY <2>1 DEF Standing
  <2>4. Standing => Exact'
    BY <1>4, <2>1, ReadKeepsExact DEF AnswerInv
  <2> QED BY <2>2, <2>3, <2>4 DEF AnswerInv
<1> QED BY <1>1, <1>2, <1>3, <1>4 DEF Next, Reader

(* What get_leaders answers misses none of the next leaders, and names      *)
(* nobody else, while the slot stands still and the window was within the   *)
(* last refresh: whatever the poll inserts and removes as the reader walks  *)
(* the map.                                                                 *)
THEOREM AnswerIsExact == Spec => []NextLeadersExact
<1>1. Init => AnswerInv
  <2> SUFFICES ASSUME Init PROVE AnswerInv
    OBVIOUS
  <2>1. LookAhead \in Nat /\ 0 <= 0 + LookAhead
    BY TrackerAssumption
  <2> QED BY <2>1 DEF Init, AnswerInv, Bounds
<1>2. TrackerInv /\ ReaderInv /\ AnswerInv => NextLeadersExact
  <2> SUFFICES ASSUME TrackerInv, ReaderInv, AnswerInv, reader = "done",
                      cur_slot = start_slot, EndSlot <= promised,
                      \A s \in start_slot..(EndSlot - 1) : Schedule[s] \in StableNodes,
                      NEW s \in FirstSlots,
                      Cardinality({t \in FirstSlots : t <= s}) <= NumLeaders
               PROVE  /\ Cardinality({t \in FirstSlots : t <= s}) <= Len(leaders)
                      /\ leaders[Cardinality({t \in FirstSlots : t <= s})] = Schedule[s]
    BY DEF NextLeadersExact
  <2> DEFINE b == start_slot
             i == Cardinality(Firsts(b, s + 1))
  <2>0. /\ b \in Nat /\ slot \in Nat /\ EndSlot \in Nat /\ NumLeaders \in Nat
        /\ Len(leaders) \in Nat /\ b <= slot
        /\ s \in Slots /\ s \in Nat /\ b <= s /\ s < EndSlot /\ Leads(b, s)
        /\ \A t \in Slots : t \in Nat
    BY ReadNumbers, SlotsAreNumbers DEF FirstSlots, Leads, ReaderInv, RoomLeft
  <2>1. {t \in FirstSlots : t <= s} = Firsts(b, s + 1)
    <3>1. \A t \in Slots : t <= s <=> t < s + 1
      BY <2>0
    <3>2. \A t \in Slots : t <= s => t < EndSlot
      BY <2>0
    <3> QED BY <3>1, <3>2 DEF FirstSlots, Firsts, Leads
  <2>2. Exact
    <3>1. \A t \in Slots : b <= t /\ t < EndSlot => t \in b..(EndSlot - 1)
      BY <2>0
    <3>2. Standing
      BY <3>1 DEF Standing
    <3> QED BY <3>2 DEF AnswerInv
  <2>3. s \in Firsts(b, s + 1)
    BY <2>0 DEF Firsts
  <2>4. /\ i = Cardinality(Firsts(b, s)) + 1
        /\ Cardinality(Firsts(b, s)) \in Nat /\ i \in Nat
    BY <2>0, <2>3, FirstsNext, FirstsCounted
  <2>5. s < slot
    <3> SUFFICES ASSUME slot <= s PROVE FALSE
      BY <2>0
    <3>1. Len(leaders) >= NumLeaders
      BY <2>0 DEF AnswerInv, Bounds
    <3>2. Len(leaders) <= Cardinality(Firsts(b, s))
      BY <2>0, <2>2, FirstsGrow DEF Exact
    <3>3. i <= NumLeaders
      BY <2>1
    <3> HIDE DEF i
    <3> QED BY <2>0, <2>4, <3>1, <3>2, <3>3
  <2>6. i <= Len(leaders)
    <3>1. s + 1 \in Nat /\ s + 1 <= slot
      BY <2>0, <2>5
    <3> QED BY <2>0, <2>2, <3>1, FirstsGrow DEF Exact
  <2>7. leaders[i] = Schedule[s]
    BY <2>0, <2>2, <2>5 DEF Exact, Firsts
  <2> QED BY <2>1, <2>6, <2>7
<1>3. TrackerInv /\ TrackerInv' /\ ReaderInv /\ AnswerInv /\ [Next]_vars => AnswerInv'
  BY AnswerSteps
<1> QED BY <1>1, <1>2, <1>3, TrackerInvariant, ReaderInvariant, PTL DEF Spec
=============================================================================
