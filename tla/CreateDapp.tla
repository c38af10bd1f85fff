----------------------------- MODULE CreateDapp ------------------------------
(***************************************************************************)
(* DioxClient.create_dapp and create_token (client/dioxclient.py), which   *)
(* are the same call but for the function they send: compose, sign and     *)
(* send the transaction, wait for it twice, then judge the deployment by   *)
(* its relays.  The waits are ConfirmWait's, the collection RelayCollect's.*)
(***************************************************************************)
EXTENDS ConfirmWait, RelayCollect

CONSTANTS
  Refunds,          \* relays whose Function is core.coin.address.deposit
  DEFAULT_TIMEOUT,  \* of send_raw_transaction
  Asked             \* the timeouts callers give create_dapp

(* What is sent is core.delegation.create or create_token, no deposit.     *)
ASSUME RefundsAreRelays == Refunds \subseteq Txs \ {Root}
ASSUME LimitsAreTimeouts == Asked \cup {DEFAULT_TIMEOUT} \subseteq Timeouts

VARIABLES
  phase,    \* the stage of the call
  sync,     \* its argument sync
  timeout,  \* its argument timeout
  sent,     \* the node has accepted the transaction
  ok        \* the second component of the result

dappVars == <<phase, sync, timeout, sent, ok>>
allDappVars == <<allWaitVars, collectVars, steady, dappVars>>

DappInit ==
  /\ WaitInit
  /\ CollectInit
  /\ phase = "compose"
  /\ sync \in BOOLEAN
  /\ timeout \in Asked
  /\ limit = DEFAULT_TIMEOUT
  /\ sent = FALSE
  /\ ok = "None"

Ended == {"returned", "timeout_error", "sign_error", "type_error", "raised"}

-----------------------------------------------------------------------------
(* send_transaction: compose_transaction, sign_diox_transaction, tx.send.  *)

Compose ==
  /\ phase = "compose"
  /\ phase' \in {"sign", "raised"}
  /\ UNCHANGED <<allWaitVars, collectVars, steady, sync, timeout, sent, ok>>

Sign ==
  /\ phase = "sign"
  /\ phase' \in {"send", "sign_error"}
  /\ UNCHANGED <<allWaitVars, collectVars, steady, sync, timeout, sent, ok>>

(* The request may fail before or after the node took the transaction.     *)
Send ==
  /\ phase = "send"
  /\ \/ sent' = TRUE /\ phase' = IF sync THEN "first_wait" ELSE "returned"
     \/ sent' \in BOOLEAN /\ phase' = "raised"
  /\ UNCHANGED <<allWaitVars, collectVars, steady, sync, timeout, ok>>

-----------------------------------------------------------------------------
(* The two waits.                                                           *)

Waiting == phase \in {"first_wait", "second_wait"}

(* steady starts over with every walk of a wait.                            *)
WaitStep ==
  /\ Waiting
  /\ CallStep
  /\ steady' = (steady \/ pc \in {"fetch", "check"})
  /\ UNCHANGED <<collectVars, dappVars>>

WaitClock ==
  /\ Waiting
  /\ TimePasses
  /\ UNCHANGED <<collectVars, steady, dappVars>>

FaultySecondLimit == DEFAULT_TIMEOUT   \* nor to wait_for_dapp_deployed

(* The timeout given to create_dapp is for the second wait only: it is not *)
(* passed to send_transaction.                                              *)
SecondLimit == timeout

FirstWaitEnds ==
  /\ phase = "first_wait"
  /\ \/ /\ pc = "true"
        /\ phase' = "second_wait"
        /\ pc' = "fetch" /\ elapsed' = 0 /\ limit' = SecondLimit
     \/ pc = "false" /\ phase' = "timeout_error" /\ UNCHANGED <<pc, elapsed, limit>>
     \/ pc = "raised" /\ phase' = "raised" /\ UNCHANGED <<pc, elapsed, limit>>
  /\ UNCHANGED <<chain, walkVars, target, collectVars, steady, sync, timeout, sent, ok>>

SecondWaitEnds ==
  /\ phase = "second_wait"
  /\ \/ pc = "true" /\ phase' = "refetch" /\ UNCHANGED ok
     \/ pc = "false" /\ phase' = "returned" /\ ok' = "False"
     \/ pc = "raised" /\ phase' = "raised" /\ UNCHANGED ok
  /\ UNCHANGED <<allWaitVars, collectVars, steady, sync, timeout, sent>>

-----------------------------------------------------------------------------
(* wait_for_dapp_deployed, after its wait.                                  *)

FaultyHashOfSnap == Blank   \* tx.hash: Box has a default for it

HashOfSnap == HashOf([base |-> Root, group |-> NoGroup], snap)

Refetch ==
  /\ phase = "refetch"
  /\ FetchSnapshot
  /\ StartWalk(HashOf([base |-> Root, group |-> NoGroup], snap'))
  /\ phase' = "success?"
  /\ UNCHANGED <<chain, waitVars, steady, sync, timeout, sent, ok>>

SuccessWalk ==
  /\ phase = "success?"
  /\ \/ AcceptRead(is_tx_success(cur_tx)) /\ UNCHANGED <<phase, ok>>
     \/ RejectRead(is_tx_success(cur_tx)) /\ phase' = "returned" /\ ok' = "False"
     \/ todo = <<>> /\ StartWalk(HashOfSnap) /\ phase' = "confirmed?" /\ UNCHANGED ok
  /\ UNCHANGED <<chain, waitVars, collectVars, steady, sync, timeout, sent>>

(* A negative walk makes get_all_relay_transactions return None, and       *)
(* iterating None raises.                                                   *)
ConfirmWalk ==
  /\ phase = "confirmed?"
  /\ \/ AcceptRead(is_tx_confirmed(cur_tx)) /\ UNCHANGED <<phase, collectVars>>
     \/ RejectRead(is_tx_confirmed(cur_tx)) /\ phase' = "type_error"
          /\ UNCHANGED collectVars
     \/ todo = <<>> /\ StartCollect /\ phase' = "collect" /\ UNCHANGED walkVars
  /\ UNCHANGED <<chain, waitVars, steady, sync, timeout, sent, ok>>

Collect ==
  /\ phase = "collect"
  /\ CollectStep
  /\ UNCHANGED <<allWaitVars, steady, dappVars>>

FaultyNoRefund == TRUE   \* the relays are not looked at

NoRefund == Collection \cap Refunds = {}

Judge ==
  /\ phase = "collect"
  /\ Collected
  /\ phase' = "returned"
  /\ ok' = IF NoRefund THEN "True" ELSE "False"
  /\ UNCHANGED <<allWaitVars, collectVars, steady, sync, timeout, sent>>

LateRpcRaises ==
  /\ \/ phase = "refetch"
     \/ phase \in {"success?", "confirmed?"} /\ todo # <<>>
     \/ phase = "collect" /\ cur # <<>>
  /\ phase' = "raised"
  /\ UNCHANGED <<allWaitVars, collectVars, steady, sync, timeout, sent, ok>>

DappStep ==
  \/ Compose \/ Sign \/ Send
  \/ WaitStep \/ FirstWaitEnds \/ SecondWaitEnds
  \/ Refetch \/ SuccessWalk \/ ConfirmWalk \/ Collect \/ Judge
  \/ LateRpcRaises

(* The node knows nothing of the transaction before it is sent.            *)
DappNext ==
  \/ DappStep
  \/ WaitClock
  \/ sent /\ NodeMovesSteady /\ UNCHANGED <<waitVars, collectVars, dappVars>>

DappSpec == DappInit /\ [][DappNext]_allDappVars

(* Only the caller's thread is assumed to run on.                          *)
FairDappSpec == DappSpec /\ WF_allDappVars(DappStep)

-----------------------------------------------------------------------------
(* Properties.                                                              *)

(* The variables keep their types, and a transaction that reached the node *)
(* did so through compose, sign and send.                                  *)
DappTypeOK ==
  /\ chain \in [Txs -> TxView] /\ snap \in TxView
  /\ \A i \in DOMAIN todo : todo[i].group = NoGroup
  /\ queue \in Seq(Seq(Ref)) /\ cur \in Seq(Ref)
  /\ elapsed \in 0 .. limit + 1
  /\ phase \in Ended \cup {"compose", "sign", "send", "first_wait", "second_wait",
                           "refetch", "success?", "confirmed?", "collect"}
  /\ ok \in {"None", "True", "False"}
  /\ phase \in {"compose", "sign", "send", "sign_error"} => ~ sent

SecondAwait == INSTANCE AwaitCall WITH
  verdict <- IF pc \in Over /\ phase \notin {"first_wait", "timeout_error"}
               THEN pc ELSE "undecided",
  whole <- AllConfirmed,
  late <- phase = "second_wait" /\ elapsed > timeout

(* The second wait of the call is an AwaitCall with the timeout the caller *)
(* gave, whatever the first one, which has another timeout and is just as  *)
(* long a loop over the same transaction, left behind in the walk and the  *)
(* clock; and no later stage of the call unsettles its verdict.            *)
SecondWaitAwaits == SecondAwait!Spec

(* The call got past its waits: its verdict comes from the relays.         *)
Judged == phase = "returned" /\ sync /\ pc = "true"

(* If no block was forked out since the walk that ended the second wait    *)
(* began, the verdict is exact, although it comes from three more          *)
(* traversals and an object fetched on its own: True if and only if every  *)
(* transaction of the relay tree succeeded and none returned the deposit.  *)
VerdictIsExact ==
  Judged /\ steady =>
    (ok = "True" <=> \A t \in Closure : chain[t].ok /\ t \notin Refunds)

(* The TypeError of iterating None needs a reorganisation after the waits: *)
(* what the second wait found confirmed cannot be missing later on its own.*)
NoneIsNotIterated == phase = "type_error" => ~ steady

(* create_dapp comes back, through both waits and four traversals, even if *)
(* the chain never stops being reorganised under them.                     *)
DappReturns == <>(phase \in Ended)

=============================================================================
