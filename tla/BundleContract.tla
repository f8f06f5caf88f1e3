--------------------------- MODULE BundleContract ---------------------------
(***************************************************************************)
(* What the service promises about a bundle, without saying how: the       *)
(* abstract specification that module Bundle implements.                   *)
(*                                                                         *)
(* A bundle is refused as a whole or taken on as it is.  Its transactions  *)
(* then have their turn one after the other, and each is reported when it  *)
(* has had its turn, as a success only if it landed after every earlier    *)
(* success.  A report is never taken back, and the answer comes when all   *)
(* of them have been made.                                                 *)
(***************************************************************************)
EXTENDS Naturals, Sequences

CONSTANTS
  Bundles,   \* the sendTransactionBundle calls
  Items,     \* what a client may put into a bundle
  Sendable   \* the items that are transactions

VARIABLES
  stage,     \* where each bundle is: new, refused, open or answered
  items,     \* the bundle, which its client makes up while it is new
  turn,      \* the position whose turn it is
  reported,  \* the positions reported so far, each with its outcome
  landed     \* the transactions that landed, in their order

contractVars == <<stage, items, turn, reported, landed>>

ContractInit ==
  /\ stage = [b \in Bundles |-> "new"]
  /\ items = [b \in Bundles |-> <<>>]
  /\ turn = [b \in Bundles |-> 1]
  /\ reported = [b \in Bundles |-> {}]
  /\ landed = <<>>

Land(h) ==
  /\ landed' = Append(landed, h)
  /\ UNCHANGED <<stage, items, turn, reported>>

Draft(b, item) ==
  /\ stage[b] = "new"
  /\ items' = [items EXCEPT ![b] = Append(@, item)]
  /\ UNCHANGED <<stage, turn, reported, landed>>

Refuse(b) ==
  /\ stage[b] = "new"
  /\ stage' = [stage EXCEPT ![b] = "refused"]
  /\ UNCHANGED <<items, turn, reported, landed>>

(* Nothing of a bundle is sent unless all of it can be. *)
TakeOn(b) ==
  /\ stage[b] = "new"
  /\ \A i \in 1..Len(items[b]) : items[b][i] \in Sendable
  /\ stage' = [stage EXCEPT ![b] = "open"]
  /\ UNCHANGED <<items, turn, reported, landed>>

Report(b, outcome) ==
  /\ stage[b] = "open" /\ turn[b] <= Len(items[b])
  /\ reported' = [reported EXCEPT ![b] = @ \cup {<<turn[b], outcome>>}]
  /\ turn' = [turn EXCEPT ![b] = @ + 1]
  /\ UNCHANGED <<stage, items, landed>>

LandedAfter(h, g) ==
  \E k, l \in DOMAIN landed : k < l /\ landed[k] = g /\ landed[l] = h

ReportSuccess(b) ==
  /\ Report(b, "success")
  /\ \E l \in DOMAIN landed : landed[l] = items[b][turn[b]]
  /\ \A p \in reported[b] : p[2] = "success" => LandedAfter(items[b][turn[b]], items[b][p[1]])

(* A failure says that the service does not know of a success. *)
ReportFailure(b) == Report(b, "failure")

Answer(b) ==
  /\ stage[b] = "open" /\ turn[b] > Len(items[b])
  /\ stage' = [stage EXCEPT ![b] = "answered"]
  /\ UNCHANGED <<items, turn, reported, landed>>

ContractNext ==
  \/ \E h \in Sendable : Land(h)
  \/ \E b \in Bundles :
       \/ \E item \in Items : Draft(b, item)
       \/ Refuse(b) \/ TakeOn(b) \/ ReportSuccess(b) \/ ReportFailure(b) \/ Answer(b)

ContractSpec == ContractInit /\ [][ContractNext]_contractVars
=============================================================================
