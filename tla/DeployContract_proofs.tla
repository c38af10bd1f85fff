------------------------ MODULE DeployContract_proofs ------------------------
(***************************************************************************)
(* Proofs about DeployContract for every set of delays and every length of *)
(* the chain: type correctness, and that a call that returns has seen its  *)
(* build through.                                                           *)
(***************************************************************************)
EXTENDS DeployContract, TLAPS

(* The entry leaves the schedule only after the build.                     *)
RemovedMeansBuilt == deployment = "removed" => Built

PastConfirmed == {"read schedule", "read base", "loop", "read height", "returned"}
PastSchedule == {"read base", "loop", "read height", "returned"}

(* What the call knows of the deployment it waits for.                     *)
WaitIsInformed ==
  ~ forked =>
    /\ pc \in PastConfirmed => deployment # "pending"
    /\ pc \in PastSchedule /\ deployment = "scheduled" => target_height = due \/ Built

(* Before the schedule is read there is no target.                         *)
NoTargetBefore ==
  pc \in {"check", "compose", "send", "wait confirmed", "read schedule"} => target_height = -1

(* The height the loop compares was the chain's.                            *)
HeightWasRead == pc \in {"loop", "read height"} => cur_height <= height

DeployInv ==
  /\ TypeOK
  /\ RemovedMeansBuilt
  /\ WaitIsInformed
  /\ NoTargetBefore
  /\ HeightWasRead
  /\ ReturnedMeansBuilt

LEMMA InitDeployInv == Init => DeployInv
<1>1. Init => TypeOK
  <2> SUFFICES ASSUME Init PROVE TypeOK
    OBVIOUS
  <2>1. /\ base \in 0 .. MaxHeight /\ cur_height \in 0 .. MaxHeight
        /\ due \in -1 .. MaxHeight /\ target_height \in -1 .. MaxHeight
    BY MaxHeightIsNat DEF Init
  <2>2. pc \in Stages
    BY DEF Init, Stages
  <2> QED  BY <2>1, <2>2 DEF Init, TypeOK
<1>2. Init => /\ RemovedMeansBuilt /\ WaitIsInformed /\ NoTargetBefore
              /\ HeightWasRead /\ ReturnedMeansBuilt
  BY DEF Init, RemovedMeansBuilt, WaitIsInformed, NoTargetBefore, HeightWasRead, ReturnedMeansBuilt,
         PastConfirmed, PastSchedule
<1> QED  BY <1>1, <1>2 DEF DeployInv

(* The variables keep their types, by the kind of step.                    *)
LEMMA TypeStep == TypeOK /\ WaitIsInformed /\ NoTargetBefore /\ [Next]_vars => TypeOK'
<1> SUFFICES ASSUME TypeOK, WaitIsInformed, NoTargetBefore, [Next]_vars PROVE TypeOK'
  OBVIOUS
<1> USE DEF TypeOK
<1>1. CASE NewBlock
  <2>1. height' \in 0 .. MaxHeight
    BY <1>1, MaxHeightIsNat DEF NewBlock
  <2> QED  BY <1>1, <2>1 DEF NewBlock, locals
<1>2. CASE ExecuteDeploy
  <2>1. PICK d \in Delays : height + d < MaxHeight /\ due' = height + d
    BY <1>2 DEF ExecuteDeploy
  <2>2. d \in Nat /\ height \in Nat
    BY DelaysArePositive, MaxHeightIsNat
  <2>3. due' \in -1 .. MaxHeight
    BY <2>1, <2>2, MaxHeightIsNat
  <2>4. ~ forked => target_height = -1
    BY <1>2 DEF ExecuteDeploy, WaitIsInformed, NoTargetBefore, Waiting, PastConfirmed
  <2> QED  BY <1>2, <2>3, <2>4 DEF ExecuteDeploy, locals
<1>3. CASE ExecuteFails \/ RemoveScheduled
  BY <1>3 DEF ExecuteFails, RemoveScheduled, locals
<1>4. CASE ForkOut
  <2>1. due' \in -1 .. MaxHeight
    BY <1>4, MaxHeightIsNat DEF ForkOut
  <2> QED  BY <1>4, <2>1 DEF ForkOut, locals
<1>5. CASE deploy_contract \/ deploy_contracts \/ ComposeAndSign \/ Send
  BY <1>5 DEF deploy_contract, deploy_contracts, ComposeAndSign, Send, node, locals, Stages, Failed
<1>6. CASE Confirmed \/ NotConfirmed \/ ShowProgress \/ Finish \/ RpcFails
  BY <1>6 DEF Confirmed, NotConfirmed, ShowProgress, Finish, RpcFails, node, locals, Stages, Failed
<1>7. CASE ReadSchedule
  <2>1. target_height' \in -1 .. MaxHeight /\ target_height' \in {-1, due}
    <3>1. due \in -1 .. MaxHeight /\ -1 \in -1 .. MaxHeight
      BY MaxHeightIsNat
    <3>2. target_height' \in {-1, due}
      BY <1>7 DEF ReadSchedule
    <3> QED  BY <3>1, <3>2
  <2>2. pc' \in Stages
    BY <1>7 DEF ReadSchedule, Stages
  <2> QED  BY <1>7, <2>1, <2>2 DEF ReadSchedule, node
<1>8. CASE ReadBase \/ ReadHeight
  <2>1. pc' \in Stages
    BY <1>8 DEF ReadBase, ReadHeight, Stages
  <2> QED  BY <1>8, <2>1 DEF ReadBase, ReadHeight, node
<1>9. CASE UNCHANGED vars
  BY <1>9 DEF vars, node, locals
<1> QED  BY <1>1, <1>2, <1>3, <1>4, <1>5, <1>6, <1>7, <1>8, <1>9 DEF Next, ClientStep

(* What the call relies on, by the kind of step.  Only a fork takes it     *)
(* back, and is recorded in forked.                                         *)
LEMMA DeployStep == DeployInv /\ [Next]_vars => DeployInv'
<1> SUFFICES ASSUME DeployInv, [Next]_vars
             PROVE  /\ RemovedMeansBuilt' /\ WaitIsInformed' /\ NoTargetBefore'
                    /\ HeightWasRead' /\ ReturnedMeansBuilt'
  BY TypeStep DEF DeployInv
<1>0. /\ height \in Int /\ due \in Int /\ target_height \in Int /\ cur_height \in Int
  BY MaxHeightIsNat DEF DeployInv, TypeOK
<1> USE <1>0 DEF DeployInv, RemovedMeansBuilt, WaitIsInformed, NoTargetBefore, HeightWasRead,
                 ReturnedMeansBuilt, PastConfirmed, PastSchedule
<1>1. CASE NewBlock
  <2>1. (Built => Built') /\ (cur_height <= height => cur_height' <= height')
    <3> HIDE DEF DeployInv, WaitIsInformed, ReturnedMeansBuilt, HeightWasRead
    <3> QED  BY <1>1 DEF NewBlock, Built, locals
  <2> QED  BY <1>1, <2>1 DEF NewBlock, locals
<1>2. CASE ExecuteDeploy
  BY <1>2 DEF ExecuteDeploy, Waiting, locals
<1>3. CASE ExecuteFails \/ RemoveScheduled
  BY <1>3 DEF ExecuteFails, RemoveScheduled, Waiting, Built, locals
<1>4. CASE ForkOut
  BY <1>4 DEF ForkOut, Waiting, locals
<1>5. CASE deploy_contract \/ deploy_contracts \/ ComposeAndSign \/ Send
  BY <1>5 DEF deploy_contract, deploy_contracts, ComposeAndSign, Send, Built, node, locals
<1>6. CASE Confirmed \/ NotConfirmed \/ ShowProgress \/ RpcFails
  BY <1>6 DEF Confirmed, NotConfirmed, ShowProgress, RpcFails, Built, node, locals
<1>7. CASE ReadSchedule
  BY <1>7 DEF ReadSchedule, Built, node
<1>8. CASE ReadBase \/ ReadHeight
  <2>1. /\ cur_height' = height /\ height' = height
        /\ pc' = "loop" /\ pc \in {"read base", "read height"}
        /\ UNCHANGED <<deployment, due, forked, target_height>>
    BY <1>8 DEF ReadBase, ReadHeight, node
  <2>2. (Built' <=> Built) /\ cur_height' <= height'
    <3> HIDE DEF DeployInv, WaitIsInformed, ReturnedMeansBuilt, HeightWasRead
    <3>1. cur_height' = height /\ height' = height /\ due' = due
      BY <2>1
    <3> QED  BY <3>1 DEF Built
  <2> QED  BY <2>1, <2>2
<1>9. CASE Finish
  <2>1. cur_height <= height /\ cur_height > target_height
    BY <1>9 DEF Finish, LoopTest
  <2>2. deployment = "scheduled" /\ ~ forked => height > due
    BY <1>9, <2>1 DEF Finish, Built
  <2> QED  BY <1>9, <2>2 DEF Finish, Built, node, locals
<1>10. CASE UNCHANGED vars
  BY <1>10 DEF vars, Built, node, locals
<1> QED
  BY <1>1, <1>2, <1>3, <1>4, <1>5, <1>6, <1>7, <1>8, <1>9, <1>10 DEF Next, ClientStep

LEMMA DeployInvAlways == Spec => []DeployInv
BY InitDeployInv, DeployStep, PTL DEF Spec

(* Every variable keeps its type, and the target height is the one in the  *)
(* schedule or -1.                                                          *)
THEOREM DeployTypeCorrect == Spec => []TypeOK
<1>1. DeployInv => TypeOK
  BY DEF DeployInv
<1> QED  BY <1>1, DeployInvAlways, PTL

(* wait_for_deploy returns only past the height of the build, wherever the *)
(* chain stands when the schedule and the base height are read.             *)
THEOREM ReturnedMeansBuiltAlways == Spec => []ReturnedMeansBuilt
<1>1. DeployInv => ReturnedMeansBuilt
  BY DEF DeployInv
<1> QED  BY <1>1, DeployInvAlways, PTL

=============================================================================
