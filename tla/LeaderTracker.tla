--------------------------- MODULE LeaderTracker ---------------------------
(***************************************************************************)
(* leader_tracker.rs: poll_slot follows the slot the geyser stream reports,*)
(* poll_slot_leaders refreshes the map from slots to leaders, and any      *)
(* number of senders read both in get_leaders, without a lock over the     *)
(* two.  Only poll_slot writes cur_slot and only poll_slot_leaders writes  *)
(* cur_leaders, so one reader shows what every reader can see.             *)
(*                                                                         *)
(* The leader schedule and the cluster are external: Schedule is what      *)
(* get_slot_leaders answers from, and get_cluster_nodes returns some set   *)
(* of validators that contains at least StableNodes.                       *)
(***************************************************************************)
EXTENDS Integers, Sequences, FiniteSets

CONSTANTS
  Validators,      \* the leaders, each with one contact
  None,            \* no leader under a slot
  LastSlot,        \* bound: the last slot the stream reports
  LookAhead,       \* how many slots get_slot_leaders is asked for (1000)
  LastScheduled,   \* the last slot of the epochs whose leaders are known
  Schedule,        \* the leader of each slot up to there
  StableNodes,     \* the validators get_cluster_nodes always lists
  NumLeaders,      \* num_leaders
  SlotsPerLeader,  \* NUM_LEADERS_PER_SLOT (4)
  LeaderOffset,    \* leader_offset, in leaders
  U64              \* what u64 arithmetic wraps at

Slots == 0..LastScheduled

ASSUME TrackerAssumption ==
  /\ LastSlot \in Nat /\ LookAhead \in Nat /\ LastScheduled \in Nat
  /\ NumLeaders \in Nat /\ SlotsPerLeader \in Nat
  /\ LeaderOffset \in Int
  /\ U64 \in Nat /\ U64 > LastSlot /\ U64 > LastScheduled
  /\ Schedule \in [Slots -> Validators]
  /\ StableNodes \subseteq Validators
  /\ None \notin Validators

VARIABLES
  cur_slot,         \* AtomicU64, in leader-offset terms
  cur_leaders,      \* the map; None for an absent key
  (* poll_slot_leaders_once *)
  poller,           \* its place
  next_slot,        \* cur_slot as loaded at its start
  nodes,            \* the keys of cluster_node_map
  inserted,         \* how many of slot_leaders have been dealt with
  slots_to_remove,  \* of clean_up_slot_leaders
  horizon,          \* history: the first slot beyond the last refresh
  (* get_leaders *)
  reader,           \* its place
  start_slot,       \* cur_slot as loaded at its start
  slot,             \* the next slot to look up
  leaders,          \* the keys of the IndexMap, in order
  promised          \* history: horizon at its start

pollVars == <<poller, next_slot, nodes, inserted, slots_to_remove, horizon>>
readVars == <<reader, start_slot, slot, leaders, promised>>
vars == <<cur_slot, cur_leaders, pollVars, readVars>>

TypeOK ==
  /\ cur_slot \in 0..(U64 - 1)
  /\ cur_leaders \in [Slots -> Validators \cup {None}]
  /\ poller \in {"sleep", "slot leaders", "cluster nodes", "insert", "cleanup"}
  /\ next_slot \in 0..(U64 - 1)
  /\ nodes \subseteq Validators
  /\ inserted \in 0..LookAhead
  /\ slots_to_remove \subseteq Slots
  /\ horizon \in Nat
  /\ reader \in {"idle", "reading", "done"}
  /\ start_slot \in 0..(U64 - 1)
  /\ slot \in Nat
  /\ leaders \in Seq(Validators)
  /\ promised \in Nat

Init ==
  /\ cur_slot = 0
  /\ cur_leaders = [s \in Slots |-> None]
  /\ poller = "sleep" /\ next_slot = 0 /\ nodes = {} /\ inserted = 0
  /\ slots_to_remove = {} /\ horizon = 0
  /\ reader = "idle" /\ start_slot = 0 /\ slot = 0 /\ leaders = <<>> /\ promised = 0

-----------------------------------------------------------------------------
(* poll_slot *)

(* _get_start_slot, in the wrapping arithmetic of a release build *)
StartSlot(s) == (s + LeaderOffset * SlotsPerLeader) % U64

(* Follows the stream backwards too. *)
PollSlot_Mutant ==
  \E s \in 1..LastSlot :
    /\ cur_slot' = StartSlot(s)
    /\ UNCHANGED <<cur_leaders, pollVars, readVars>>

(* get_next_slot returns whatever slot the stream reported last, which need *)
(* not be the highest; a zero is no slot.                                   *)
PollSlot ==
  \E s \in 1..LastSlot :
    /\ StartSlot(s) > cur_slot
    /\ cur_slot' = StartSlot(s)
    /\ UNCHANGED <<cur_leaders, pollVars, readVars>>

-----------------------------------------------------------------------------
(* poll_slot_leaders *)

(* The poll starts, a minute after a success, a second after a failure. *)
LoadSlot ==
  /\ poller = "sleep"
  /\ poller' = "slot leaders"
  /\ next_slot' = cur_slot
  /\ UNCHANGED <<cur_slot, cur_leaders, nodes, inserted, slots_to_remove, horizon, readVars>>

(* Past the last known epoch the call returns an error. *)
GetSlotLeaders ==
  /\ poller = "slot leaders"
  /\ next_slot + LookAhead - 1 \in Slots
  /\ poller' = "cluster nodes"
  /\ UNCHANGED <<cur_slot, cur_leaders, next_slot, nodes, inserted, slots_to_remove,
                 horizon, readVars>>

GetClusterNodes ==
  /\ poller = "cluster nodes"
  /\ poller' = "insert"
  /\ nodes' \in {n \in SUBSET Validators : StableNodes \subseteq n}
  /\ inserted' = 0
  /\ UNCHANGED <<cur_slot, cur_leaders, next_slot, slots_to_remove, horizon, readVars>>

(* The error ends the task instead of the poll. *)
RpcFails_Mutant ==
  /\ poller \in {"slot leaders", "cluster nodes"}
  /\ poller' = "ended"
  /\ UNCHANGED <<cur_slot, cur_leaders, next_slot, nodes, inserted, slots_to_remove,
                 horizon, readVars>>

(* Either call returns an error: the poll is given up. *)
RpcFails ==
  /\ poller \in {"slot leaders", "cluster nodes"}
  /\ poller' = "sleep"
  /\ UNCHANGED <<cur_slot, cur_leaders, next_slot, nodes, inserted, slots_to_remove,
                 horizon, readVars>>

MoreToInsert_Mutant == inserted <= LookAhead

MoreToInsert == inserted < LookAhead

(* Takes the slot of now for the slot the leaders were asked for. *)
InsertLeader_Mutant ==
  /\ poller = "insert" /\ MoreToInsert
  /\ LET s == cur_slot + inserted
         leader == Schedule[next_slot + inserted]
     IN  cur_leaders' = IF leader \in nodes /\ s \in Slots
                        THEN [cur_leaders EXCEPT ![s] = leader] ELSE cur_leaders
  /\ inserted' = inserted + 1
  /\ UNCHANGED <<cur_slot, poller, next_slot, nodes, slots_to_remove, horizon, readVars>>

(* One iteration over slot_leaders: cur_leaders.insert, or an error logged  *)
(* when the leader is not in the cluster.                                   *)
InsertLeader ==
  /\ poller = "insert" /\ MoreToInsert
  /\ LET s == next_slot + inserted
     IN  cur_leaders' = IF Schedule[s] \in nodes
                        THEN [cur_leaders EXCEPT ![s] = Schedule[s]] ELSE cur_leaders
  /\ inserted' = inserted + 1
  /\ UNCHANGED <<cur_slot, poller, next_slot, nodes, slots_to_remove, horizon, readVars>>

(* An off-by-one: the current slot goes too. *)
IsPast_Mutant(s) == s <= cur_slot

IsPast(s) == s < cur_slot

(* clean_up_slot_leaders collects the keys of past slots ... *)
StartCleanup ==
  /\ poller = "insert" /\ ~MoreToInsert
  /\ poller' = "cleanup"
  /\ slots_to_remove' = {s \in Slots : cur_leaders[s] # None /\ IsPast(s)}
  /\ horizon' = next_slot + LookAhead
  /\ UNCHANGED <<cur_slot, cur_leaders, next_slot, nodes, inserted, readVars>>

(* ... and removes them one by one. *)
RemoveSlot ==
  /\ poller = "cleanup"
  /\ \E s \in slots_to_remove :
       /\ cur_leaders' = [cur_leaders EXCEPT ![s] = None]
       /\ slots_to_remove' = slots_to_remove \ {s}
  /\ UNCHANGED <<cur_slot, poller, next_slot, nodes, inserted, horizon, readVars>>

(* Returns with keys still to be removed. *)
PollDone_Mutant ==
  /\ poller = "cleanup"
  /\ poller' = "sleep"
  /\ slots_to_remove' = {}
  /\ UNCHANGED <<cur_slot, cur_leaders, next_slot, nodes, inserted, horizon, readVars>>

PollDone ==
  /\ poller = "cleanup" /\ slots_to_remove = {}
  /\ poller' = "sleep"
  /\ UNCHANGED <<cur_slot, cur_leaders, next_slot, nodes, inserted, slots_to_remove,
                 horizon, readVars>>

-----------------------------------------------------------------------------
(* get_leaders *)

Listed(v) == \E i \in 1..Len(leaders) : leaders[i] = v

EndSlot == (start_slot + NumLeaders * SlotsPerLeader) % U64

StartRead ==
  /\ reader = "idle"
  /\ reader' = "reading"
  /\ start_slot' = cur_slot /\ slot' = cur_slot
  /\ leaders' = <<>>
  /\ promised' = horizon
  /\ UNCHANGED <<cur_slot, cur_leaders, pollVars>>

(* Lists a leader again for each of its slots. *)
AddLeader_Mutant(v) == IF v = None THEN leaders ELSE Append(leaders, v)

(* IndexMap::insert keeps the place of a key it has already. *)
AddLeader(v) == IF v = None \/ Listed(v) THEN leaders ELSE Append(leaders, v)

(* One iteration over start_slot..end_slot, with the break at its end. *)
ReadSlot ==
  /\ reader = "reading" /\ slot < EndSlot
  /\ leaders' = AddLeader(IF slot \in Slots THEN cur_leaders[slot] ELSE None)
  /\ slot' = slot + 1
  /\ reader' = IF Len(leaders') >= NumLeaders THEN "done" ELSE "reading"
  /\ UNCHANGED <<cur_slot, cur_leaders, pollVars, start_slot, promised>>

WindowRead ==
  /\ reader = "reading" /\ slot >= EndSlot
  /\ reader' = "done"
  /\ UNCHANGED <<cur_slot, cur_leaders, pollVars, start_slot, slot, leaders, promised>>

Return ==
  /\ reader = "done"
  /\ reader' = "idle"
  /\ UNCHANGED <<cur_slot, cur_leaders, pollVars, start_slot, slot, leaders, promised>>

-----------------------------------------------------------------------------
Poller ==
  \/ LoadSlot
  \/ GetSlotLeaders
  \/ GetClusterNodes
  \/ RpcFails
  \/ InsertLeader
  \/ StartCleanup
  \/ RemoveSlot
  \/ PollDone

Reader == StartRead \/ ReadSlot \/ WindowRead \/ Return

Next == PollSlot \/ Poller \/ Reader

Spec == Init /\ [][Next]_vars

(* The poller task is polled by the runtime, and each of the two RPC calls  *)
(* succeeds now and then if it is tried again and again.                    *)
Fairness ==
  /\ WF_vars(Poller)
  /\ SF_vars(GetSlotLeaders) /\ SF_vars(GetClusterNodes)

FairSpec == Spec /\ Fairness

-----------------------------------------------------------------------------
(* Safety.                                                                  *)

(* A slot of the map never names a leader of another slot, although the     *)
(* slot the leaders were asked for is no longer the current one when they   *)
(* are inserted.                                                            *)
MapFaithful == \A s \in Slots : cur_leaders[s] \in {Schedule[s], None}

(* Every slot from the current one up to the end of the last refresh has    *)
(* its leader in the map, at every step of the next refresh and its         *)
(* cleanup: no reader finds a hole that the refresh dug ahead of it.        *)
Covered ==
  \A s \in Slots :
    cur_slot <= s /\ s < horizon /\ Schedule[s] \in StableNodes => cur_leaders[s] # None

(* Why Covered and MapFaithful hold, as an inductive invariant: the poll    *)
(* works on slots that were current when it began, so what it removes is    *)
(* past and what it has inserted so far reaches from the present on.        *)
PollBehind ==
  /\ next_slot <= cur_slot
  /\ \A s \in slots_to_remove : s < cur_slot
  /\ poller \in {"cluster nodes", "insert"} =>
       \A i \in 0..(LookAhead - 1) : next_slot + i \in Slots
  /\ poller = "insert" =>
       /\ StableNodes \subseteq nodes
       /\ \A s \in Slots :
            next_slot <= s /\ s < next_slot + inserted /\ Schedule[s] \in StableNodes =>
              cur_leaders[s] # None

TrackerInv ==
  /\ TypeOK
  /\ MapFaithful
  /\ PollBehind
  /\ Covered

(* The map does not grow: between two polls it holds at most the slots one  *)
(* refresh asks for.                                                        *)
Keys == {s \in Slots : cur_leaders[s] # None}

MapBounded == poller = "sleep" => Cardinality(Keys) <= LookAhead

(* "get_leaders returns the next slot leaders in order" (leader_tracker.rs: *)
(* 22): no leader twice, at most num_leaders, and each one leads a slot     *)
(* of the window, in the order of these slots, even when the map is being   *)
(* refreshed or emptied under the reader.                                   *)
LeadersInOrder ==
  LET window == {s \in Slots : start_slot <= s /\ s < slot}
      n == Len(leaders)
  IN  /\ n <= NumLeaders
      /\ \A i, j \in 1..n : i # j => leaders[i] # leaders[j]
      /\ \A i \in 1..n : \E s \in window :
           /\ Schedule[s] = leaders[i]
           /\ \A j \in (i + 1)..n : \E t \in window : s < t /\ Schedule[t] = leaders[j]

(* And it misses none of the next num_leaders leaders: while the slot the   *)
(* reader started from is still the current one and its window was within   *)
(* the last refresh, the answer is exactly the first leaders of the window. *)
FirstSlots ==
  {s \in Slots : start_slot <= s /\ s < EndSlot /\
     \A t \in Slots : start_slot <= t /\ t < s => Schedule[t] # Schedule[s]}

NextLeadersExact ==
  reader = "done" /\ cur_slot = start_slot /\ EndSlot <= promised
    /\ (\A s \in start_slot..(EndSlot - 1) : Schedule[s] \in StableNodes) =>
      \A s \in FirstSlots :
        LET i == Cardinality({t \in FirstSlots : t <= s})
        IN  i <= NumLeaders => i <= Len(leaders) /\ leaders[i] = Schedule[s]

-----------------------------------------------------------------------------
(* Liveness, under FairSpec.                                                *)

(* Once the slot stops moving (here at its bound) the map catches up with   *)
(* it for good: a start before the first slot arrived, a jump of the slot   *)
(* beyond the last refresh and failed polls are all made up for.            *)
WindowKnown ==
  \A s \in Slots :
    cur_slot <= s /\ s < cur_slot + NumLeaders * SlotsPerLeader
      /\ Schedule[s] \in StableNodes => cur_leaders[s] # None

EventuallyKnown == <>[]WindowKnown
=============================================================================
