--------------------------- MODULE RetryContract ---------------------------
(***************************************************************************)
(* What the service promises about retrying, without saying how: the       *)
(* abstract specification that module TxnSender implements.                *)
(*                                                                         *)
(* A request is refused, or opened (its transaction is being retried), or  *)
(* declined because another one with its signature is already open.  An    *)
(* open request is resent at most budget + 1 times and is closed once, for *)
(* good: nothing is ever resent for a request that is new, refused or      *)
(* closed.                                                                 *)
(***************************************************************************)
EXTENDS Naturals

CONSTANTS
  Requests,        \* the sendTransaction calls
  Signatures,      \* what tells their transactions apart
  None,            \* no signature yet
  MaxSendRetries   \* what the operator allows a client to ask for, a number

VARIABLES
  stage,     \* where each request is: new, refused, open or closed
  signature, \* what each request that was opened or declined is known by
  budget,    \* the retries granted to each open request
  resends    \* how often the service has resent each request

contractVars == <<stage, signature, budget, resends>>

StageNames == {"new", "refused", "open", "closed"}

ContractInit ==
  /\ stage = [r \in Requests |-> "new"]
  /\ signature = [r \in Requests |-> None]
  /\ budget = [r \in Requests |-> 0]
  /\ resends = [r \in Requests |-> 0]

(* The requests that are being retried under a signature. *)
Rivals(s) == {o \in Requests : stage[o] = "open" /\ signature[o] = s}

(* Malformed requests have no further effect. *)
Refuse(r) ==
  /\ stage[r] = "new"
  /\ stage' = [stage EXCEPT ![r] = "refused"]
  /\ UNCHANGED <<signature, budget, resends>>

(* A request is turned away only in favour of one with its signature that   *)
(* is being retried.                                                        *)
Decline(r) ==
  /\ stage[r] = "new"
  /\ \E s \in Signatures :
       Rivals(s) # {} /\ signature' = [signature EXCEPT ![r] = s]
  /\ stage' = [stage EXCEPT ![r] = "closed"]
  /\ \E m \in 0..MaxSendRetries : budget' = [budget EXCEPT ![r] = m]
  /\ UNCHANGED resends

(* Opening a request may displace (close) requests with its signature.      *)
Open(r, displaced) ==
  /\ stage[r] = "new"
  /\ \E s \in Signatures :
       displaced \subseteq Rivals(s) /\ signature' = [signature EXCEPT ![r] = s]
  /\ stage' = [o \in Requests |-> IF o = r THEN "open"
                                  ELSE IF o \in displaced THEN "closed" ELSE stage[o]]
  /\ \E m \in 0..MaxSendRetries : budget' = [budget EXCEPT ![r] = m]
  /\ UNCHANGED resends

(* One retry round: every request in it is open and within its budget. *)
Resend(batch, finished) ==
  /\ finished \subseteq batch
  /\ \A r \in batch : stage[r] = "open" /\ resends[r] <= budget[r]
  /\ stage' = [r \in Requests |-> IF r \in finished THEN "closed" ELSE stage[r]]
  /\ resends' = [r \in Requests |-> IF r \in batch THEN resends[r] + 1 ELSE resends[r]]
  /\ UNCHANGED <<signature, budget>>

Close(r) ==
  /\ stage[r] = "open"
  /\ stage' = [stage EXCEPT ![r] = "closed"]
  /\ UNCHANGED <<signature, budget, resends>>

ContractNext ==
  \/ \E r \in Requests : Refuse(r) \/ Decline(r) \/ Close(r)
  \/ \E r \in Requests, displaced \in SUBSET Requests : Open(r, displaced)
  \/ \E batch \in SUBSET Requests : \E finished \in SUBSET batch : Resend(batch, finished)

ContractSpec == ContractInit /\ [][ContractNext]_contractVars
=============================================================================
