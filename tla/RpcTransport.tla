---------------------------- MODULE RpcTransport -----------------------------
(***************************************************************************)
(* HTTPProvide.make_request (utils/rpc.py) under several threads.  The     *)
(* method name travels in request_params, a dict of the CLASS, shared by   *)
(* every thread and every client: encode_rpc_request writes it, and        *)
(* make_post_request reads it later.  The params travel in the body, which *)
(* is the thread's own.  A thread is one caller making one call at a time. *)
(***************************************************************************)
EXTENDS Naturals, FiniteSets

CONSTANTS
  Threads,     \* the threads that use clients
  Operations,  \* the RPC operations of DioxClient
  Method,      \* the "req" each of them asks for
  Keys,        \* the names of the params it puts in the body
  Reads,       \* the fields of the answer that it cannot do without
  Fields,      \* the fields of what the node answers to a method
  Effectful,   \* the methods that change the chain
  Unset        \* request_params before the first call

Methods == {Method[o] : o \in Operations}

(* The node runs a method when the body has the params that the method     *)
(* takes, whatever else it has.                                             *)
Accepts(m, keys) == \E o \in Operations : Method[o] = m /\ Keys[o] \subseteq keys

ASSUME UnsetIsNoMethod == Unset \notin Methods
ASSUME EffectfulAreMethods == Effectful \subseteq Methods

(* A body that passes for a send is a send of the same kind.               *)
ASSUME SendsAreDistinctive ==
  \A o \in Operations : \A m \in Effectful :
    Accepts(m, Keys[o]) => Method[o] = m

(* No other method that accepts the body of a send answers with a Hash.    *)
ASSUME SendAnswersAreDistinctive ==
  \A o \in Operations : \A m \in Methods :
    /\ Method[o] \in Effectful
    /\ Accepts(m, Keys[o])
    /\ Reads[o] \subseteq Fields[m]
    => m = Method[o]

VARIABLES
  request_params,  \* the shared dict's "req"
  pc,              \* where each thread is
  op,              \* the operation it performs, or performed last
  wire,            \* the method its posted request names
  ran,             \* the method the node ran on its body, if any
  result           \* how its last call ended

vars == <<request_params, pc, op, wire, ran, result>>

Init ==
  /\ request_params = Unset
  /\ pc = [t \in Threads |-> "idle"]
  /\ op \in [Threads -> Operations]
  /\ wire = [t \in Threads |-> Unset]
  /\ ran = [t \in Threads |-> Unset]
  /\ result = [t \in Threads |-> "none"]

-----------------------------------------------------------------------------

FaultyEncode(o) == request_params' = o   \* the operation's own name

encode_rpc_request(o) == request_params' = Method[o]

(* make_request begins: encode_rpc_request.                                 *)
Encode(t, o) ==
  /\ pc[t] = "idle"
  /\ encode_rpc_request(o)
  /\ pc' = [pc EXCEPT ![t] = "encoded"]
  /\ op' = [op EXCEPT ![t] = o]
  /\ wire' = [wire EXCEPT ![t] = Unset]
  /\ ran' = [ran EXCEPT ![t] = Unset]
  /\ result' = [result EXCEPT ![t] = "none"]

(* requests.post builds the URL from the shared dict as it is now.         *)
Post(t) ==
  /\ pc[t] = "encoded"
  /\ wire' = [wire EXCEPT ![t] = request_params]
  /\ pc' = [pc EXCEPT ![t] = "posted"]
  /\ UNCHANGED <<request_params, op, ran, result>>

FaultyBody(t) == UNION {Keys[op[u]] : u \in Threads}   \* a shared params dict too

(* json.dumps(params): the thread's own.                                    *)
Body(t) == Keys[op[t]]

(* The node handles the request: it runs the method named, or answers with *)
(* an "err", for a body it does not accept or a reason of its own.         *)
NodeRuns(t) ==
  /\ pc[t] = "posted"
  /\ Accepts(wire[t], Body(t))
  /\ ran' = [ran EXCEPT ![t] = wire[t]]
  /\ pc' = [pc EXCEPT ![t] = "answered"]
  /\ UNCHANGED <<request_params, op, wire, result>>

NodeRefuses(t) ==
  /\ pc[t] = "posted"
  /\ pc' = [pc EXCEPT ![t] = "answered"]
  /\ UNCHANGED <<request_params, op, wire, ran, result>>

End(t, r) ==
  /\ result' = [result EXCEPT ![t] = r]
  /\ pc' = [pc EXCEPT ![t] = "idle"]
  /\ UNCHANGED <<request_params, op, wire, ran>>

FaultyReadable(t) == TRUE   \* response.get("Hash")

(* DioxClient.make_request returns response["ret"], and the operation      *)
(* takes its fields out of it.                                              *)
Readable(t) == Reads[op[t]] \subseteq Fields[ran[t]]

Receive(t) ==
  /\ pc[t] = "answered"
  /\ ran[t] # Unset
  /\ Readable(t)
  /\ End(t, "returned")

(* An "err" answer becomes a DioxError, a missing field a KeyError.        *)
ReceiveError(t) ==
  /\ pc[t] = "answered"
  /\ ran[t] # Unset => ~ Readable(t)
  /\ End(t, "raised")

(* The 10 s of make_post_request are over, or the connection is lost, with *)
(* the request never arrived or its answer still on the way.               *)
PostFails(t) ==
  /\ pc[t] \in {"posted", "answered"}
  /\ End(t, "raised")

Next ==
  \E t \in Threads :
    \/ \E o \in Operations : Encode(t, o)
    \/ Post(t)
    \/ NodeRuns(t)
    \/ NodeRefuses(t)
    \/ Receive(t)
    \/ ReceiveError(t)
    \/ PostFails(t)

Spec == Init /\ [][Next]_vars

-----------------------------------------------------------------------------
(* Properties.                                                              *)

TypeOK ==
  /\ request_params \in Methods \cup {Unset}
  /\ pc \in [Threads -> {"idle", "encoded", "posted", "answered"}]
  /\ op \in [Threads -> Operations]
  /\ wire \in [Threads -> Methods \cup {Unset}]
  /\ ran \in [Threads -> Methods \cup {Unset}]
  /\ result \in [Threads -> {"none", "returned", "raised"}]

(* However the method names are mixed up, a transaction is sent only on    *)
(* behalf of a thread that asked to send, and with its own body.           *)
SendsAreIntended ==
  \A t \in Threads : ran[t] \in Effectful => Method[op[t]] = ran[t]

(* A send that returns a transaction hash did reach the node as a send: a  *)
(* mixed-up answer cannot pass for one.                                     *)
ReportedSendHappened ==
  \A t \in Threads :
    result[t] = "returned" /\ Method[op[t]] \in Effectful => ran[t] = Method[op[t]]

(* What the documentation of each operation says, "Get source code of a    *)
(* deployed contract" and so on: the value returned answers the question   *)
(* that was asked.  Another thread's method name may get in between.       *)
AnswersMatchQuestions ==
  \A t \in Threads : result[t] = "returned" => ran[t] = Method[op[t]]

=============================================================================
