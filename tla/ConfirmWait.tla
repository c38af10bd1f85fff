----------------------------- MODULE ConfirmWait -----------------------------
(***************************************************************************)
(* DioxClient.wait_for_transaction_confirmed (client/dioxclient.py): fetch *)
(* the transaction once, then repeat { walk it and its relays; if the time *)
(* is over give up; sleep } until a walk succeeds.                         *)
(***************************************************************************)
EXTENDS RelayWalk

CONSTANT Timeouts   \* the values callers pass as timeout, in seconds

ASSUME TimeoutsAreNat == Timeouts \subseteq Nat

VARIABLES
  pc,        \* where the call is
  limit,     \* its timeout argument
  elapsed,   \* time.time() - start, counted no further than limit + 1
  target     \* tx.Hash of the one object fetched before the loop

waitVars == <<pc, limit, elapsed, target>>
allWaitVars == <<chain, todo, seen, calm, pc, limit, elapsed, target>>

WaitInit ==
  /\ ChainInit
  /\ WalkInit
  /\ pc = "fetch"
  /\ limit \in Timeouts
  /\ elapsed = 0
  /\ target = Blank

Over == {"true", "false", "raised"}

-----------------------------------------------------------------------------
(* The call's steps.  Every RPC may also fail, see RpcFails.               *)

(* An unknown transaction may be answered by an object without a Hash; the *)
(* client goes on with the default that Box supplies.                      *)
FetchOnce ==
  /\ pc = "fetch"
  /\ LET tx == get_transaction([base |-> Root, group |-> NoGroup]) IN
       target' = IF tx.state = "UNKNOWN" THEN Blank ELSE Root
  /\ StartWalk(target')
  /\ pc' = "walk"
  /\ UNCHANGED <<chain, limit, elapsed>>

WalkOn ==
  /\ pc = "walk"
  /\ AcceptRead(is_tx_confirmed(cur_tx))
  /\ UNCHANGED <<chain, pc, limit, elapsed, target>>

WalkSucceeds ==
  /\ pc = "walk"
  /\ todo = <<>>
  /\ pc' = "true"
  /\ UNCHANGED <<chain, todo, seen, calm, limit, elapsed, target>>

WalkFails ==
  /\ pc = "walk"
  /\ RejectRead(is_tx_confirmed(cur_tx))
  /\ pc' = "check"
  /\ UNCHANGED <<chain, limit, elapsed, target>>

FaultyGiveUpWaiting ==   \* gives up after the first walk that fails
  /\ pc = "check"
  /\ pc' = "false"
  /\ UNCHANGED <<chain, todo, seen, calm, limit, elapsed, target>>

GiveUpWaiting ==
  /\ pc = "check"
  /\ elapsed > limit
  /\ pc' = "false"
  /\ UNCHANGED <<chain, todo, seen, calm, limit, elapsed, target>>

FaultyLater == 0   \* start is taken anew on every turn

Later == IF elapsed > limit THEN elapsed ELSE elapsed + 1

SleepAndRetry ==
  /\ pc = "check"
  /\ elapsed <= limit
  /\ elapsed' = Later
  /\ StartWalk(target)
  /\ pc' = "walk"
  /\ UNCHANGED <<chain, limit, target>>

(* The request times out, the HTTP status is bad, the node answers "err":  *)
(* the exception leaves the call, whatever was sent before it.             *)
RpcFails ==
  /\ pc \in {"fetch", "walk"}
  /\ pc = "walk" => todo # <<>>
  /\ pc' = "raised"
  /\ UNCHANGED <<chain, todo, seen, calm, limit, elapsed, target>>

(* An RPC took a while.                                                     *)
TimePasses ==
  /\ pc \in {"fetch", "walk"}
  /\ elapsed' = Later
  /\ UNCHANGED <<chain, todo, seen, calm, pc, limit, target>>

CallStep ==
  FetchOnce \/ WalkOn \/ WalkSucceeds \/ WalkFails \/ GiveUpWaiting \/ SleepAndRetry
    \/ RpcFails

WaitNext ==
  \/ CallStep
  \/ TimePasses
  \/ NodeMoves /\ UNCHANGED waitVars

WaitSpec == WaitInit /\ [][WaitNext]_allWaitVars

(* The calling thread keeps running: every RPC returns or fails within the *)
(* 10 s of make_post_request, and a sleep ends.  Nothing is assumed of the *)
(* node.                                                                    *)
FairWaitSpec == WaitSpec /\ WF_allWaitVars(CallStep)

-----------------------------------------------------------------------------
(* Properties.                                                              *)

(* Every variable keeps its type; in particular the walk never queries a   *)
(* hash with a group index, which the node would take for a shard.         *)
WaitTypeOK ==
  /\ chain \in [Txs -> TxView]
  /\ \A t \in Txs : Items(chain[t].relays) \subseteq Txs
  /\ todo \in Seq([base : Txs \cup {Blank}, group : {NoGroup}])
  /\ seen \subseteq Txs
  /\ calm \in BOOLEAN
  /\ pc \in {"fetch", "walk", "check"} \cup Over
  /\ limit \in Timeouts
  /\ elapsed \in 0 .. limit + 1
  /\ target \in {Root, Blank}

(* If the chain was not reorganised under the last walk, an answer True    *)
(* means that the transaction and every relay it leads to, to any depth,   *)
(* is confirmed at the moment of the answer: the walk missed no relay that *)
(* was emitted while it was reading others.                                *)
TrueIsConfirmed ==
  pc = "true" /\ calm =>
    \A t \in Closure : chain[t].state \in ConfirmedStates

(* A walk that says "not yet" has a reason: if the fetched object named the *)
(* sent transaction and no block was forked out meanwhile, some transaction *)
(* of the closure is not confirmed.  A relay is never mistaken for missing. *)
NegativeIsWitnessed ==
  [][WalkFails /\ calm /\ target = Root =>
       \E t \in Closure : chain[t].state \notin ConfirmedStates]_allWaitVars

AllConfirmed == \A t \in Closure : chain[t].state \in ConfirmedStates

Await == INSTANCE AwaitCall WITH
  verdict <- IF pc \in Over THEN pc ELSE "undecided",
  whole <- AllConfirmed,
  late <- elapsed > limit

(* The wait is an AwaitCall: its many reads, between any two of which the  *)
(* node moves, amount to one look at the whole relay tree, and it says     *)
(* False only when more time than the caller's timeout has gone by.        *)
ImplementsAwait == Await!Spec

(* The call comes back, whatever the node does: reorganisations may change *)
(* the relays under the walk for ever, and still each walk and the loop    *)
(* around it end.                                                           *)
CallReturns == <>(pc \in Over)

=============================================================================
