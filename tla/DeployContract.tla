--------------------------- MODULE DeployContract ----------------------------
(***************************************************************************)
(* DioxClient.deploy_contract, deploy_contracts and wait_for_deploy        *)
(* (client/dioxclient.py).  Executing the deployment enters a build in the *)
(* Scheduled state of core.contracts, due at a height to come, unless it   *)
(* fails; the client waits for the transaction (see ConfirmWait, here one  *)
(* step) and then follows the height of the chain past that target.        *)
(***************************************************************************)
EXTENDS Integers

CONSTANTS
  Delays,    \* blocks from executing the deployment to its build
  MaxHeight  \* bound: the chain grows no further in the model

ASSUME DelaysArePositive == Delays \subseteq Nat \ {0}
ASSUME MaxHeightIsNat == MaxHeight \in Nat

VARIABLES
  height,     \* the node's HeadHeight
  deployment, \* "pending", "failed", in Scheduled, or "removed" from it
  due,        \* its TargetHeight there, -1 if it never was in
  forked,     \* history: a block that executed it was forked out
  pc,         \* where the call is
  target_height, base, cur_height   \* the locals of wait_for_deploy

node == <<height, deployment, due, forked>>
locals == <<target_height, base, cur_height>>
vars == <<node, pc, locals>>

Init ==
  /\ height \in 0 .. MaxHeight
  /\ deployment = "pending"
  /\ due = -1
  /\ forked = FALSE
  /\ pc = "check"
  /\ target_height = -1 /\ base = 0 /\ cur_height = 0

Failed == {"params error", "contracts required", "invalid dapp name", "sign error",
           "timeout", "raised", "zero division"}

Stages ==
  Failed \cup {"check", "compose", "send", "wait confirmed", "read schedule",
               "read base", "loop", "read height", "returned"}

-----------------------------------------------------------------------------
(* The node.  What becomes of a deployment the client has turned away from *)
(* is not followed.                                                         *)

Waiting == pc \in {"wait confirmed", "read schedule", "read base", "loop", "read height"}

NewBlock ==
  /\ height < MaxHeight
  /\ height' = height + 1
  /\ UNCHANGED <<deployment, due, forked, pc, locals>>

ExecuteDeploy ==
  /\ Waiting
  /\ deployment = "pending"
  /\ deployment' = "scheduled"
  /\ \E d \in Delays :
       /\ height + d < MaxHeight
       /\ due' = height + d
  /\ UNCHANGED <<height, forked, pc, locals>>

(* A transaction whose Invocation fails is confirmed like any other.       *)
ExecuteFails ==
  /\ Waiting
  /\ deployment = "pending"
  /\ deployment' = "failed"
  /\ UNCHANGED <<height, due, forked, pc, locals>>

(* The block after the target has built the contract.                      *)
Built == height > due

RemoveScheduled ==
  /\ deployment = "scheduled" /\ Built
  /\ deployment' = "removed"
  /\ UNCHANGED <<height, due, forked, pc, locals>>

ForkOut ==
  /\ Waiting
  /\ deployment = "failed" \/ (deployment = "scheduled" /\ ~ Built)
  /\ deployment' = "pending" /\ due' = -1
  /\ forked' = TRUE
  /\ UNCHANGED <<height, pc, locals>>

-----------------------------------------------------------------------------
(* The call, up to the confirmation of its transaction.                    *)

(* The source file may be missing, which raises.                            *)
deploy_contract ==
  /\ pc = "check"
  /\ pc' \in {"compose", "raised", "params error", "invalid dapp name"}
  /\ UNCHANGED <<node, locals>>

deploy_contracts ==
  /\ pc = "check"
  /\ pc' \in {"compose", "raised", "contracts required", "invalid dapp name"}
  /\ UNCHANGED <<node, locals>>

(* Signing that fails yields None, which base64 refuses: there is no check *)
(* for it here as there is in send_transaction.                             *)
ComposeAndSign ==
  /\ pc = "compose"
  /\ pc' \in {"send", "sign error", "raised"}
  /\ UNCHANGED <<node, locals>>

Send ==
  /\ pc = "send"
  /\ pc' \in {"wait confirmed", "raised"}
  /\ UNCHANGED <<node, locals>>

Confirmed ==
  /\ pc = "wait confirmed"
  /\ deployment # "pending"
  /\ pc' = "read schedule"
  /\ UNCHANGED <<node, locals>>

NotConfirmed ==
  /\ pc = "wait confirmed"
  /\ pc' \in {"timeout", "raised"}
  /\ UNCHANGED <<node, locals>>

-----------------------------------------------------------------------------
(* wait_for_deploy.                                                         *)

FaultyReadSchedule ==   \* the last height before the build
  /\ pc = "read schedule"
  /\ target_height' = IF deployment = "scheduled" THEN due - 1 ELSE -1
  /\ pc' = "read base"
  /\ UNCHANGED <<node, base, cur_height>>

(* An entry that is not in the list leaves the target at -1.               *)
ReadSchedule ==
  /\ pc = "read schedule"
  /\ target_height' = IF deployment = "scheduled" THEN due ELSE -1
  /\ pc' = "read base"
  /\ UNCHANGED <<node, base, cur_height>>

ReadBase ==
  /\ pc = "read base"
  /\ base' = height
  /\ cur_height' = height
  /\ pc' = "loop"
  /\ UNCHANGED <<node, target_height>>

FaultyTest == cur_height < target_height   \* stops one block early

LoopTest == cur_height <= target_height

(* progress_bar divides by target_height - base.                           *)
ShowProgress ==
  /\ pc = "loop"
  /\ LoopTest
  /\ pc' = IF target_height = base THEN "zero division" ELSE "read height"
  /\ UNCHANGED <<node, locals>>

FaultyReadHeight ==   \* the height is not read again
  /\ pc = "read height"
  /\ pc' = "loop"
  /\ UNCHANGED <<node, locals>>

ReadHeight ==
  /\ pc = "read height"
  /\ cur_height' = height
  /\ pc' = "loop"
  /\ UNCHANGED <<node, target_height, base>>

Finish ==
  /\ pc = "loop"
  /\ ~ LoopTest
  /\ pc' = "returned"
  /\ UNCHANGED <<node, locals>>

RpcFails ==
  /\ pc \in {"read schedule", "read base", "read height"}
  /\ pc' = "raised"
  /\ UNCHANGED <<node, locals>>

ClientStep ==
  \/ deploy_contract \/ deploy_contracts \/ ComposeAndSign \/ Send
  \/ Confirmed \/ NotConfirmed
  \/ ReadSchedule \/ ReadBase \/ ShowProgress \/ ReadHeight \/ Finish
  \/ RpcFails

Next ==
  \/ NewBlock \/ ExecuteDeploy \/ ExecuteFails \/ RemoveScheduled \/ ForkOut
  \/ ClientStep

Spec == Init /\ [][Next]_vars

(* The loop has no timeout, so the call depends on a chain that grows.     *)
FairSpec == Spec /\ WF_vars(ClientStep) /\ WF_vars(NewBlock)

-----------------------------------------------------------------------------
(* Properties.                                                              *)

TypeOK ==
  /\ height \in 0 .. MaxHeight
  /\ deployment \in {"pending", "failed", "scheduled", "removed"}
  /\ due \in -1 .. MaxHeight
  /\ forked \in BOOLEAN
  /\ target_height \in -1 .. MaxHeight
  /\ ~ forked => target_height \in {-1, due}
  /\ base \in 0 .. MaxHeight /\ cur_height \in 0 .. MaxHeight
  /\ pc \in Stages

(* A call that returns its hash has seen the build through: the chain is   *)
(* past the target, or the entry had left the schedule before the client   *)
(* looked.  It says nothing of a deployment that failed, which is not told *)
(* from one that was built early, nor of one that was forked out.           *)
ReturnedMeansBuilt ==
  pc = "returned" /\ deployment \in {"scheduled", "removed"} /\ ~ forked => Built

(* On a chain that grows the call comes back.                               *)
DeployReturns == <>(pc \in Failed \cup {"returned"})

=============================================================================
