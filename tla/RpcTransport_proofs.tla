------------------------ MODULE RpcTransport_proofs -------------------------
(***************************************************************************)
(* Proofs about RpcTransport for any number of threads and any table of    *)
(* operations whose sends are distinctive.                                 *)
(***************************************************************************)
EXTENDS RpcTransport, TLAPS

(* What the node ran accepted the thread's own body, and a call that       *)
(* returned could read the answer.                                          *)
RanAccepted ==
  \A t \in Threads :
    /\ ran[t] # Unset => Accepts(ran[t], Keys[op[t]])
    /\ pc[t] # "idle" => result[t] = "none"
    /\ result[t] = "returned" => ran[t] # Unset /\ Reads[op[t]] \subseteq Fields[ran[t]]

RpcInv == TypeOK /\ RanAccepted

LEMMA MethodOfOperation == \A o \in Operations : Method[o] \in Methods
BY DEF Methods

LEMMA RpcInit == Init => RpcInv
BY DEF Init, RpcInv, TypeOK, RanAccepted

LEMMA RpcStep == RpcInv /\ [Next]_vars => RpcInv'
<1> SUFFICES ASSUME RpcInv, [Next]_vars PROVE RpcInv'
  OBVIOUS
<1> USE DEF RpcInv, TypeOK, RanAccepted
<1>1. ASSUME NEW t \in Threads, NEW o \in Operations, Encode(t, o)
      PROVE  RpcInv'
  BY <1>1, MethodOfOperation DEF Encode, encode_rpc_request
<1>2. ASSUME NEW t \in Threads, Post(t)
      PROVE  RpcInv'
  BY <1>2 DEF Post
<1>3. ASSUME NEW t \in Threads, NodeRuns(t)
      PROVE  RpcInv'
  BY <1>3 DEF NodeRuns, Body
<1>4. ASSUME NEW t \in Threads, NodeRefuses(t)
      PROVE  RpcInv'
  BY <1>4 DEF NodeRefuses
<1>5. ASSUME NEW t \in Threads, Receive(t)
      PROVE  RpcInv'
  BY <1>5 DEF Receive, Readable, End
<1>6. ASSUME NEW t \in Threads, ReceiveError(t)
      PROVE  RpcInv'
  BY <1>6 DEF ReceiveError, End
<1>7. ASSUME NEW t \in Threads, PostFails(t)
      PROVE  RpcInv'
  BY <1>7 DEF PostFails, End
<1>8. CASE UNCHANGED vars
  BY <1>8 DEF vars
<1> QED  BY <1>1, <1>2, <1>3, <1>4, <1>5, <1>6, <1>7, <1>8 DEF Next

LEMMA RpcInvAlways == Spec => []RpcInv
BY RpcInit, RpcStep, PTL DEF Spec

(* Every variable of the transport keeps its type, for any interleaving.   *)
THEOREM RpcTypeCorrect == Spec => []TypeOK
<1>1. RpcInv => TypeOK
  BY DEF RpcInv
<1> QED  BY <1>1, RpcInvAlways, PTL

(* Whatever method names the shared request_params dict mixes up, the node *)
(* sends a transaction only with the body of a thread that asked for it.   *)
THEOREM SendsAreIntendedAlways == Spec => []SendsAreIntended
<1>1. RpcInv => SendsAreIntended
  BY SendsAreDistinctive, UnsetIsNoMethod, EffectfulAreMethods
     DEF RpcInv, TypeOK, RanAccepted, SendsAreIntended
<1> QED  BY <1>1, RpcInvAlways, PTL

(* A send operation that returns to its caller was run as a send by the    *)
(* node, with the caller's own body.                                        *)
THEOREM ReportedSendHappenedAlways == Spec => []ReportedSendHappened
<1>1. RpcInv => ReportedSendHappened
  BY SendAnswersAreDistinctive DEF RpcInv, TypeOK, RanAccepted, ReportedSendHappened
<1> QED  BY <1>1, RpcInvAlways, PTL

=============================================================================
