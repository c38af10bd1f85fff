---------------------------- MODULE Subscription -----------------------------
(***************************************************************************)
(* Subscriptions of one DioxClient (client/dioxclient.py: subscribe,       *)
(* unsubscribe, __subscribe, __unsubscribe).  Callers run in threads of    *)
(* their own and only schedule coroutines; the coroutines run one at a     *)
(* time on the client's event loop, and each await lets the others run.    *)
(* What they share is ws_connections, a dict from the identity of the      *)
(* calling thread to its socket.  A subscription, its socket and its       *)
(* coroutine have one name here.                                            *)
(***************************************************************************)
EXTENDS Naturals, FiniteSets

CONSTANTS
  Subs,       \* the subscribe calls made, each once
  Threads,    \* the values threading.get_ident() takes
  NoSocket,   \* no entry in ws_connections
  MaxInbox,   \* bound: messages received and not yet read, per socket
  MaxCloses   \* bound: __unsubscribe coroutines under way, per socket

ASSUME NoSocketIsNoSub == NoSocket \notin Subs
ASSUME BoundsArePositive == MaxInbox \in Nat \ {0} /\ MaxCloses \in Nat \ {0}

VARIABLES
  Caller,          \* the thread identity under which each call is made
  ws_connections,  \* the registry
  task,            \* where the __subscribe coroutine of a subscription is
  sock,            \* the state of its socket
  inbox,           \* number of messages buffered in the socket
  closes,          \* number of __unsubscribe coroutines for the socket
  asked,           \* history: unsubscribe was called for it after subscribe
  failed,          \* history: its connection or its filter failed
  late             \* history: messages handled while it was not registered

vars == <<Caller, ws_connections, task, sock, inbox, closes, asked, failed, late>>

(* Threads share an identity when they are one, or when one has ended and  *)
(* the system gave its identity to the other.                               *)
Init ==
  /\ Caller \in [Subs -> Threads]
  /\ ws_connections = [t \in Threads |-> NoSocket]
  /\ task = [s \in Subs |-> "none"]
  /\ sock = [s \in Subs |-> "none"]
  /\ inbox = [s \in Subs |-> 0]
  /\ closes = [s \in Subs |-> 0]
  /\ asked = [s \in Subs |-> FALSE]
  /\ failed = [s \in Subs |-> FALSE]
  /\ late = [s \in Subs |-> 0]

Registered(s) == \E t \in Threads : ws_connections[t] = s

-----------------------------------------------------------------------------
(* The caller's threads.                                                    *)

subscribe(s) ==
  /\ task[s] = "none"
  /\ task' = [task EXCEPT ![s] = "connecting"]
  /\ UNCHANGED <<ws_connections, sock, inbox, closes, asked, failed, late>>

(* The registry is read in the caller's thread; nothing happens when it    *)
(* has no entry.                                                            *)
unsubscribe(t) ==
  /\ \/ \E s \in Subs :
          /\ ws_connections[t] = s
          /\ closes[s] < MaxCloses
          /\ closes' = [closes EXCEPT ![s] = @ + 1]
     \/ ws_connections[t] = NoSocket /\ UNCHANGED closes
  /\ asked' = [s \in Subs |-> asked[s] \/ (Caller[s] = t /\ task[s] # "none")]
  /\ UNCHANGED <<ws_connections, task, sock, inbox, failed, late>>

-----------------------------------------------------------------------------
(* __subscribe on the event loop.                                           *)

FaultyIdentity(s) ==   \* get_ident() taken in the coroutine: the loop's thread
  ws_connections' = [ws_connections EXCEPT ![CHOOSE t \in Threads : TRUE] = s]

FaultyEntry(s) ==      \* the identity stored as the entry too
  ws_connections' = [ws_connections EXCEPT ![Caller[s]] = Caller[s]]

Register(s) == ws_connections' = [ws_connections EXCEPT ![Caller[s]] = s]

Connected(s) ==
  /\ task[s] = "connecting"
  /\ Register(s)
  /\ sock' = [sock EXCEPT ![s] = "open"]
  /\ task' = [task EXCEPT ![s] = "sending"]
  /\ UNCHANGED <<inbox, closes, asked, failed, late>>

(* The exception stays in a future that nobody looks at.                   *)
ConnectFails(s) ==
  /\ task[s] = "connecting"
  /\ task' = [task EXCEPT ![s] = "ended"]
  /\ failed' = [failed EXCEPT ![s] = TRUE]
  /\ UNCHANGED <<ws_connections, sock, inbox, closes, asked, late>>

(* while ws in self.ws_connections.values()                                 *)
FaultyTest(s) == "waiting"   \* while True

LoopTest(s) == IF Registered(s) THEN "waiting" ELSE "ended"

MessageSent(s) ==
  /\ task[s] = "sending"
  /\ sock[s] \in {"open", "closing"}
  /\ task' = [task EXCEPT ![s] = LoopTest(s)]
  /\ UNCHANGED <<ws_connections, sock, inbox, closes, asked, failed, late>>

(* recv returns; the message passes the filter and goes to the executor,   *)
(* or does not; and the loop condition is tested, all without an await.    *)
Receive(s) ==
  /\ task[s] = "waiting"
  /\ inbox[s] > 0
  /\ inbox' = [inbox EXCEPT ![s] = @ - 1]
  /\ late' = [late EXCEPT ![s] = IF Registered(s) \/ @ = 2 THEN @ ELSE @ + 1]
  /\ task' = [task EXCEPT ![s] = LoopTest(s)]
  /\ UNCHANGED <<ws_connections, sock, closes, asked, failed>>

(* json.loads or the caller's filter raises: the coroutine ends and leaves *)
(* its socket open and registered.                                          *)
FilterRaises(s) ==
  /\ task[s] = "waiting"
  /\ inbox[s] > 0
  /\ inbox' = [inbox EXCEPT ![s] = @ - 1]
  /\ task' = [task EXCEPT ![s] = "ended"]
  /\ failed' = [failed EXCEPT ![s] = TRUE]
  /\ UNCHANGED <<ws_connections, sock, closes, asked, late>>

(* send or recv raises ConnectionClosed.  Messages still buffered may or   *)
(* may not have been returned before.                                       *)
ClosedRaises(s) ==
  /\ task[s] \in {"sending", "waiting"}
  /\ sock[s] = "closed"
  /\ task' = [task EXCEPT ![s] = "ended"]
  /\ UNCHANGED <<ws_connections, sock, inbox, closes, asked, failed, late>>

-----------------------------------------------------------------------------
(* __unsubscribe on the event loop: await ws.close(), then pop.            *)

StartClose(s) ==
  /\ closes[s] > 0
  /\ sock[s] = "open"
  /\ sock' = [sock EXCEPT ![s] = "closing"]
  /\ UNCHANGED <<ws_connections, task, inbox, closes, asked, failed, late>>

FaultyPop(s) == UNCHANGED ws_connections   \* the entry stays

FaultyClear(s) ==   \* every entry goes
  ws_connections' = [t \in Threads |-> NoSocket]

PopEntry(s) ==
  ws_connections' = [ws_connections EXCEPT ![Caller[s]] = NoSocket]

EndClose(s) ==
  /\ closes[s] > 0
  /\ sock[s] = "closed"
  /\ PopEntry(s)
  /\ closes' = [closes EXCEPT ![s] = @ - 1]
  /\ UNCHANGED <<task, sock, inbox, asked, failed, late>>

-----------------------------------------------------------------------------
(* The socket and the node behind it.                                       *)

MessageArrives(s) ==
  /\ sock[s] \in {"open", "closing"}
  /\ inbox[s] < MaxInbox
  /\ inbox' = [inbox EXCEPT ![s] = @ + 1]
  /\ UNCHANGED <<ws_connections, task, sock, closes, asked, failed, late>>

(* The closing handshake is answered, or its timeout is over.              *)
HandshakeEnds(s) ==
  /\ sock[s] = "closing"
  /\ sock' = [sock EXCEPT ![s] = "closed"]
  /\ UNCHANGED <<ws_connections, task, inbox, closes, asked, failed, late>>

ConnectionLost(s) ==
  /\ sock[s] = "open"
  /\ sock' = [sock EXCEPT ![s] = "closed"]
  /\ failed' = [failed EXCEPT ![s] = TRUE]
  /\ UNCHANGED <<ws_connections, task, inbox, closes, asked, late>>

LoopRuns(s) ==
  MessageSent(s) \/ Receive(s) \/ FilterRaises(s) \/ ClosedRaises(s)

Next ==
  /\ UNCHANGED Caller
  /\ \/ \E t \in Threads : unsubscribe(t)
     \/ \E s \in Subs :
          \/ subscribe(s)
          \/ Connected(s) \/ ConnectFails(s)
          \/ LoopRuns(s)
          \/ StartClose(s) \/ EndClose(s)
          \/ MessageArrives(s) \/ HandshakeEnds(s) \/ ConnectionLost(s)

Spec == Init /\ [][Next]_vars

(* The event loop runs what is ready, connect and close end within their   *)
(* timeouts.  No message need ever arrive, and no caller need ever call.   *)
FairSpec ==
  /\ Spec
  /\ \A s \in Subs :
       /\ WF_vars((Connected(s) \/ ConnectFails(s)) /\ UNCHANGED Caller)
       /\ WF_vars(LoopRuns(s) /\ UNCHANGED Caller)
       /\ WF_vars(StartClose(s) /\ UNCHANGED Caller)
       /\ WF_vars(EndClose(s) /\ UNCHANGED Caller)
       /\ WF_vars(HandshakeEnds(s) /\ UNCHANGED Caller)

-----------------------------------------------------------------------------
(* Properties.                                                              *)

TypeOK ==
  /\ ws_connections \in [Threads -> Subs \cup {NoSocket}]
  /\ Caller \in [Subs -> Threads]
  /\ task \in [Subs -> {"none", "connecting", "sending", "waiting", "ended"}]
  /\ sock \in [Subs -> {"none", "open", "closing", "closed"}]
  /\ inbox \in [Subs -> 0 .. MaxInbox]
  /\ closes \in [Subs -> 0 .. MaxCloses]
  /\ asked \in [Subs -> BOOLEAN] /\ failed \in [Subs -> BOOLEAN]
  /\ late \in [Subs -> 0 .. 2]

(* No other subscribe call is made under the thread identity of this one.  *)
OwnIdentity(s) == \A u \in Subs : Caller[u] = Caller[s] => u = s

(* A subscription with an open socket can be stopped: the registry leads   *)
(* from its caller's identity to it, even while other subscriptions come   *)
(* and go and several unsubscribe calls for it overlap.  Holds for those   *)
(* with a thread identity of their own.                                     *)
Stoppable ==
  \A s \in Subs : OwnIdentity(s) /\ sock[s] = "open" => ws_connections[Caller[s]] = s

(* After its entry has gone a coroutine handles one more message at most:  *)
(* the one its pending recv returns.                                        *)
OneLateMessage == \A s \in Subs : late[s] <= 1

(* Another subscription under the same thread identity has its entry, or   *)
(* had it removed by an unsubscribe for the identity.                       *)
Superseded(s) ==
  \E u \in Subs \ {s} :
    /\ Caller[u] = Caller[s]
    /\ sock[u] # "none"
    /\ ws_connections[Caller[u]] = u \/ asked[u]

(* A subscription goes on until it is unsubscribed, something of its own   *)
(* fails, or another takes its thread identity over; and of those that     *)
(* share one, the last to register goes on.  What the subscriptions under  *)
(* other identities do to their entries ends none.                          *)
GoesOnUnlessSuperseded ==
  \A s \in Subs : task[s] = "ended" => asked[s] \/ failed[s] \/ Superseded(s)

(* An unsubscribe that found the socket ends the coroutine, closes the     *)
(* socket and removes the entry, though no message may ever arrive again.  *)
FoundMeansStopped ==
  \A s \in Subs :
    closes[s] > 0 ~> /\ task[s] = "ended" /\ sock[s] = "closed"
                     /\ ws_connections[Caller[s]] # s

=============================================================================
