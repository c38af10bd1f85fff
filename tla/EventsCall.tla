----------------------------- MODULE EventsCall ------------------------------
(***************************************************************************)
(* DioxClient.get_events_by_transaction (client/dioxclient.py): fetch the  *)
(* transaction, collect the relays it leads to, keep the external ones.    *)
(***************************************************************************)
EXTENDS RelayCollect

CONSTANT External   \* relays whose Mode has TMF_EXTERNAL: the events

ASSUME ExternalAreRelays == External \subseteq Txs \ {Root}

VARIABLE eventsPc

eventsVars == <<chain, todo, seen, calm, snap, queue, cur, half, res, steady, eventsPc>>

EventsInit == ChainInit /\ WalkInit /\ CollectInit /\ eventsPc = "fetch"

-----------------------------------------------------------------------------

FetchTransaction ==
  /\ eventsPc = "fetch"
  /\ FetchSnapshot
  /\ steady' = TRUE
  /\ StartWalk(HashOf([base |-> Root, group |-> NoGroup], snap'))
  /\ eventsPc' = "confirmed?"
  /\ UNCHANGED chain

CheckOn ==
  /\ eventsPc = "confirmed?"
  /\ AcceptRead(is_tx_confirmed(cur_tx))
  /\ UNCHANGED <<chain, collectVars, steady, eventsPc>>

FaultyNoCheck ==   \* the relays are collected without waiting for the walk
  /\ eventsPc = "confirmed?"
  /\ StartCollect
  /\ eventsPc' = "collect"
  /\ UNCHANGED <<chain, walkVars, steady>>

CheckPassed ==
  /\ eventsPc = "confirmed?"
  /\ todo = <<>>
  /\ StartCollect
  /\ eventsPc' = "collect"
  /\ UNCHANGED <<chain, walkVars, steady>>

(* get_all_relay_transactions returns None, and iterating None raises.     *)
NotConfirmed ==
  /\ eventsPc = "confirmed?"
  /\ RejectRead(is_tx_confirmed(cur_tx))
  /\ eventsPc' = "raised"
  /\ UNCHANGED <<chain, collectVars, steady>>

CollectOn ==
  /\ eventsPc = "collect"
  /\ CollectStep
  /\ UNCHANGED <<chain, walkVars, steady, eventsPc>>

ReturnEvents ==
  /\ eventsPc = "collect"
  /\ Collected
  /\ eventsPc' = "returned"
  /\ UNCHANGED <<chain, walkVars, collectVars, steady>>

RpcRaises ==
  /\ \/ eventsPc = "fetch"
     \/ eventsPc = "confirmed?" /\ todo # <<>>
     \/ eventsPc = "collect" /\ cur # <<>>
  /\ eventsPc' = "raised"
  /\ UNCHANGED <<chain, walkVars, collectVars, steady>>

EventsStep ==
  FetchTransaction \/ CheckOn \/ CheckPassed \/ NotConfirmed \/ CollectOn
    \/ ReturnEvents \/ RpcRaises

EventsNext ==
  \/ EventsStep
  \/ NodeMovesSteady /\ UNCHANGED <<collectVars, eventsPc>>

EventsSpec == EventsInit /\ [][EventsNext]_eventsVars

(* The filter over the collected relays: those the call returns.           *)
Events == Collection \cap External

-----------------------------------------------------------------------------
(* Properties.                                                              *)

(* The variables keep their types; no walk ever asks the node for a hash   *)
(* with a group index.                                                      *)
EventsTypeOK ==
  /\ chain \in [Txs -> TxView]
  /\ snap \in TxView
  /\ \A i \in DOMAIN todo : todo[i] \in [base : Txs \cup {Blank}, group : {NoGroup}]
  /\ queue \in Seq(Seq(Ref)) /\ cur \in Seq(Ref) /\ res \in Seq(Txs \cup {Blank})
  /\ half => cur # <<>>
  /\ eventsPc \in {"fetch", "confirmed?", "collect", "returned", "raised"}

(* When no block was forked out since the transaction was fetched, every   *)
(* event returned is one of this transaction's relays, on the chain and    *)
(* confirmed: neither the old snapshot nor the doubled reads invent one.   *)
EventsGenuine ==
  eventsPc = "returned" /\ steady =>
    \A t \in Events : t \in Closure /\ chain[t].state \in ConfirmedStates

(* If the object fetched first already was a confirmed transaction, and no *)
(* block was forked out since, all the events are returned.                *)
EventsCompleteIfConfirmedFirst ==
  eventsPc = "returned" /\ steady /\ is_tx_confirmed(snap) => Events = External \cap Closure

(* The documented promise, "Get events emitted by transaction": all the    *)
(* events, whenever the call was made.  The traversal starts from the      *)
(* object fetched before the transaction was known to be confirmed, which  *)
(* has no Relays yet, and the events are lost.                             *)
EventsComplete ==
  eventsPc = "returned" /\ steady => Events = External \cap Closure

=============================================================================
