----------------------------- MODULE AtlasSystem -----------------------------
(***************************************************************************)
(* The service as main.rs wires it: the geyser client is started first,    *)
(* and its block stream is what the confirmers of the transaction sender   *)
(* wait for.  TxnSender lets a confirmer return at any time and assumes    *)
(* that it does return; here it is a confirm_transaction call of           *)
(* GrpcGeyser, and both are shown rather than assumed.                     *)
(*                                                                         *)
(* The slot stream serves the leader tracker only and stays out, and so do *)
(* bundles, which never meet the store.                                    *)
(***************************************************************************)
EXTENDS TxnSender

CONSTANTS
  LastSlot, Contents, KeepSlots, U64, MaxLag, InOrder,
  Retention, CleanPeriod, ConfirmTimeout

VARIABLES
  chain, startup, rpc_slot, block_task, in_flight, block, to_cache,
  blockhash_cache, recorded, slot_task, cur_slot, signature_cache, clean_in,
  call, elapsed, awaited, polled, seen

(* The confirmer of each request is one call. *)
G == INSTANCE GrpcGeyser WITH Calls <- Requests

ASSUME GeyserOfService == G!GeyserAssumption

geyserVars == <<chain, startup, rpc_slot, block_task, in_flight, block, to_cache,
                blockhash_cache, recorded, slot_task, cur_slot, signature_cache,
                clean_in, call, elapsed, awaited, polled, seen>>

systemVars == <<vars, geyserVars>>

SystemInit == Init /\ G!Init

(* new_with_rpc has returned: main goes on to the sender, which spawns the  *)
(* retry loop, and to the server.                                           *)
Serving == startup = "done"

-----------------------------------------------------------------------------
(* What the sender does on its own.                                         *)
SenderAlone == UNCHANGED geyserVars

Arrive(r) == Serving /\ (Refuse(r) \/ Receive(r)) /\ SenderAlone

HandlerAlone(r) == HandlerStep(r) /\ SenderAlone

RetryLoopAlone == Serving /\ RetryLoop /\ SenderAlone

(* What the geyser client does on its own. *)
GeyserAlone ==
  /\ G!ConfirmBlock \/ G!Startup \/ G!BlockTask \/ G!CleanSignatures \/ G!Tick
  /\ UNCHANGED vars

-----------------------------------------------------------------------------
(* Where they meet.                                                         *)

(* The spawned confirmer is scheduled and calls confirm_transaction for its *)
(* signature.                                                               *)
BeginCall(r) ==
  /\ confirmer[r] = "waiting"
  /\ G!StartCall(r)
  /\ awaited'[r] = sig[r]
  /\ UNCHANGED vars

LookInVain(r) == G!Look(r) /\ UNCHANGED vars

(* The call returns, by the signature or by the clock, and the confirmer    *)
(* removes what is stored under the signature in either case.               *)
Landed(r) == G!FindSignature(r) /\ ConfirmReturns(r)

NotLanded(r) == G!TimeOut(r) /\ ConfirmReturns(r)

ConfirmerStep(r) == BeginCall(r) \/ LookInVain(r) \/ Landed(r) \/ NotLanded(r)

-----------------------------------------------------------------------------
SystemNext ==
  \/ \E r \in Requests : Arrive(r) \/ HandlerAlone(r) \/ ConfirmerStep(r)
  \/ RetryLoopAlone
  \/ GeyserAlone

SystemSpec == SystemInit /\ [][SystemNext]_systemVars

(* As in the components, except that nothing is said of ConfirmReturns: the *)
(* calls are polled, the cleaner is woken and time passes.                  *)
SystemFairness ==
  /\ WF_systemVars(G!Startup /\ UNCHANGED vars)
  /\ WF_systemVars(G!CleanSignatures /\ UNCHANGED vars)
  /\ WF_systemVars(G!Tick /\ UNCHANGED vars)
  /\ WF_systemVars(RetryLoopAlone)
  /\ \A r \in Requests :
       /\ WF_systemVars(ConfirmerStep(r))
       /\ WF_systemVars(HandlerAlone(r))

FairSystem == SystemSpec /\ SystemFairness

-----------------------------------------------------------------------------
(* Properties.                                                              *)

(* The composition implements the sender with its fairness: confirmers do   *)
(* return, whatever becomes of the block stream, so that what TxnSender     *)
(* promises of the store holds of the service.                              *)
ImplementsSender == FairSpec

(* A confirmer takes its transaction out of the store as not landed only    *)
(* when the signature of that very request was neither in the cache, fresh, *)
(* when its call began, nor cached before the call's last look, whatever    *)
(* became of the stream, the cleaner and other requests meanwhile.          *)
GivenUpUnseen ==
  \A r \in Requests :
    confirmer[r] = "done" =>
      awaited[r] = sig[r] /\ (call[r] = "landed" \/ (call[r] = "timeout" /\ ~seen[r]))

(* Once its confirmer has its answer, a request joins no further batch of   *)
(* the retry loop, whoever resubmits its transaction meanwhile; the batch   *)
(* under way may still send it.                                             *)
SettledIsQuiet ==
  [][\A r \in Requests :
       call[r] \in {"landed", "timeout"} /\ r \notin wire => r \notin wire']_systemVars
=============================================================================
