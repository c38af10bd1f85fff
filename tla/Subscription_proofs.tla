------------------------ MODULE Subscription_proofs --------------------------
(***************************************************************************)
(* Proofs about Subscription for any number of subscriptions, threads and  *)
(* overlapping unsubscribe calls.                                           *)
(***************************************************************************)
EXTENDS Subscription, TLAPS

-----------------------------------------------------------------------------

LEMMA TypeInit == Init => TypeOK
BY BoundsArePositive DEF Init, TypeOK

LEMMA TypeStep == TypeOK /\ [Next]_vars => TypeOK'
<1> SUFFICES ASSUME TypeOK, [Next]_vars PROVE TypeOK'
  OBVIOUS
<1>0. UNCHANGED Caller
  BY DEF Next, vars
<1> USE <1>0, BoundsArePositive DEF TypeOK
<1>1. ASSUME NEW t \in Threads, unsubscribe(t) PROVE TypeOK'
  BY <1>1 DEF unsubscribe
<1>2. ASSUME NEW s \in Subs, subscribe(s) PROVE TypeOK'
  BY <1>2 DEF subscribe
<1>3. ASSUME NEW s \in Subs, Connected(s) PROVE TypeOK'
  BY <1>3 DEF Connected, Register
<1>4. ASSUME NEW s \in Subs, ConnectFails(s) PROVE TypeOK'
  BY <1>4 DEF ConnectFails
<1>5. ASSUME NEW s \in Subs, MessageSent(s) PROVE TypeOK'
  BY <1>5 DEF MessageSent, LoopTest
<1>6. ASSUME NEW s \in Subs, Receive(s) PROVE TypeOK'
  <2>1. late'[s] \in 0 .. 2
    BY <1>6 DEF Receive
  <2> QED  BY <1>6, <2>1 DEF Receive, LoopTest
<1>7. ASSUME NEW s \in Subs, FilterRaises(s) PROVE TypeOK'
  BY <1>7 DEF FilterRaises
<1>8. ASSUME NEW s \in Subs, ClosedRaises(s) PROVE TypeOK'
  BY <1>8 DEF ClosedRaises
<1>9. ASSUME NEW s \in Subs, StartClose(s) PROVE TypeOK'
  BY <1>9 DEF StartClose
<1>10. ASSUME NEW s \in Subs, EndClose(s) PROVE TypeOK'
  BY <1>10 DEF EndClose, PopEntry
<1>11. ASSUME NEW s \in Subs, MessageArrives(s) PROVE TypeOK'
  BY <1>11 DEF MessageArrives
<1>12. ASSUME NEW s \in Subs, HandshakeEnds(s) PROVE TypeOK'
  BY <1>12 DEF HandshakeEnds
<1>13. ASSUME NEW s \in Subs, ConnectionLost(s) PROVE TypeOK'
  BY <1>13 DEF ConnectionLost
<1>14. CASE UNCHANGED vars
  BY <1>14 DEF vars
<1> QED  BY <1>1, <1>2, <1>3, <1>4, <1>5, <1>6, <1>7, <1>8, <1>9, <1>10, <1>11,
            <1>12, <1>13, <1>14 DEF Next, LoopRuns

(* Every variable keeps its type, whoever shares a thread identity.        *)
THEOREM SubscriptionTypeCorrect == Spec => []TypeOK
BY TypeInit, TypeStep, PTL DEF Spec

-----------------------------------------------------------------------------
(* A coroutine that has handled a late message has ended.                  *)

LateHasEnded ==
  \A s \in Subs : late[s] = 0 \/ (late[s] = 1 /\ task[s] = "ended")

LEMMA LateStep == TypeOK /\ LateHasEnded /\ [Next]_vars => LateHasEnded'
<1> SUFFICES ASSUME TypeOK, LateHasEnded, [Next]_vars PROVE LateHasEnded'
  OBVIOUS
<1>0. UNCHANGED Caller
  BY DEF Next, vars
<1> USE <1>0 DEF TypeOK, LateHasEnded
<1>1. ASSUME NEW t \in Threads, unsubscribe(t) PROVE LateHasEnded'
  BY <1>1 DEF unsubscribe
<1>2. ASSUME NEW s \in Subs, Receive(s) PROVE LateHasEnded'
  <2>1. late[s] = 0
    BY <1>2 DEF Receive
  <2>2. late'[s] = 0 \/ (late'[s] = 1 /\ task'[s] = "ended")
    BY <1>2, <2>1 DEF Receive, LoopTest
  <2>3. \A u \in Subs \ {s} : late'[u] = late[u] /\ task'[u] = task[u]
    BY <1>2 DEF Receive
  <2> QED  BY <2>2, <2>3
<1>3. ASSUME NEW s \in Subs,
             \/ subscribe(s) \/ Connected(s) \/ ConnectFails(s)
             \/ MessageSent(s) \/ FilterRaises(s) \/ ClosedRaises(s)
      PROVE  LateHasEnded'
  <2>1. late' = late /\ task[s] # "ended"
        /\ \A u \in Subs \ {s} : task'[u] = task[u]
    BY <1>3 DEF subscribe, Connected, ConnectFails, MessageSent, FilterRaises, ClosedRaises
  <2> QED  BY <2>1
<1>4. ASSUME NEW s \in Subs,
             \/ StartClose(s) \/ EndClose(s) \/ MessageArrives(s)
             \/ HandshakeEnds(s) \/ ConnectionLost(s) 
      PROVE  LateHasEnded'
  BY <1>4 DEF StartClose, EndClose, MessageArrives, HandshakeEnds, ConnectionLost
<1>5. CASE UNCHANGED vars
  BY <1>5 DEF vars
<1> QED  BY <1>1, <1>2, <1>3, <1>4, <1>5 DEF Next, LoopRuns

(* The loop of __subscribe hands over at most one message after its socket *)
(* has left ws_connections, shared thread identities or not.               *)
THEOREM OneLateMessageAlways == Spec => []OneLateMessage
<1>1. Init => LateHasEnded
  BY DEF Init, LateHasEnded
<1>2. LateHasEnded => OneLateMessage
  BY DEF LateHasEnded, OneLateMessage
<1> QED  BY <1>1, <1>2, SubscriptionTypeCorrect, LateStep, PTL DEF Spec

-----------------------------------------------------------------------------
(* With an identity of its own.                                             *)

LEMMA StoppableStep == TypeOK /\ Stoppable /\ [Next]_vars => Stoppable'
<1> SUFFICES ASSUME TypeOK, Stoppable, [Next]_vars PROVE Stoppable'
  OBVIOUS
<1>0. UNCHANGED Caller
  BY DEF Next, vars
<1>00. \A s \in Subs : OwnIdentity(s)' <=> OwnIdentity(s)
  BY <1>0 DEF OwnIdentity
<1> USE <1>0, <1>00 DEF TypeOK, Stoppable
<1>1. ASSUME NEW t \in Threads, unsubscribe(t) PROVE Stoppable'
  BY <1>1 DEF unsubscribe
<1>2. ASSUME NEW s \in Subs, Connected(s) PROVE Stoppable'
  BY <1>2 DEF Connected, Register, OwnIdentity
<1>3. ASSUME NEW s \in Subs, EndClose(s) PROVE Stoppable'
  BY <1>3 DEF EndClose, PopEntry, OwnIdentity
<1>4. ASSUME NEW s \in Subs,
             StartClose(s) \/ HandshakeEnds(s) \/ ConnectionLost(s)
      PROVE  Stoppable'
  BY <1>4 DEF StartClose, HandshakeEnds, ConnectionLost
<1>5. ASSUME NEW s \in Subs,
             \/ subscribe(s) \/ ConnectFails(s) \/ MessageArrives(s)
             \/ MessageSent(s) \/ Receive(s) \/ FilterRaises(s) \/ ClosedRaises(s)
      PROVE  Stoppable'
  BY <1>5 DEF subscribe, ConnectFails, MessageArrives, MessageSent, Receive,
              FilterRaises, ClosedRaises
<1>6. CASE UNCHANGED vars
  BY <1>6 DEF vars
<1> QED  BY <1>1, <1>2, <1>3, <1>4, <1>5, <1>6 DEF Next, LoopRuns

(* The registry leads from a thread identity that no other subscribe call  *)
(* has to its open socket, so unsubscribe finds it.                         *)
THEOREM StoppableAlways == Spec => []Stoppable
<1>1. Init => Stoppable
  BY DEF Init, Stoppable
<1> QED  BY <1>1, SubscriptionTypeCorrect, StoppableStep, PTL DEF Spec

-----------------------------------------------------------------------------
(* Whatever ends a coroutine can be traced to an unsubscribe, a failure or *)
(* another subscription under its identity.                                 *)

(* What an identity leads to, when s has registered under it: to a         *)
(* subscription, or to nothing because of an unsubscribe.                   *)
Accounted(s) ==
  \E u \in Subs :
    /\ Caller[u] = Caller[s]
    /\ sock[u] # "none"
    /\ ws_connections[Caller[u]] = u \/ asked[u]

EntryIsOwn ==
  \A t \in Threads, s \in Subs :
    ws_connections[t] = s => Caller[s] = t /\ sock[s] # "none"

ClosedForAReason(s) ==
  /\ task[s] = "none" => sock[s] = "none"
  /\ task[s] \in {"sending", "waiting"} => sock[s] # "none"
  /\ closes[s] > 0 => asked[s] /\ sock[s] # "none"
  /\ sock[s] = "closing" => asked[s]
  /\ sock[s] = "closed" => asked[s] \/ failed[s]

EndedWithout(s) ==
  /\ sock[s] # "none" => Accounted(s)
  /\ task[s] = "ended" =>
       asked[s] \/ failed[s] \/ (sock[s] # "none" /\ ws_connections[Caller[s]] # s)

EndsHaveReasons ==
  EntryIsOwn /\ \A s \in Subs : ClosedForAReason(s) /\ EndedWithout(s)

(* A step that leaves the sockets' entries to those that had them, or takes *)
(* them for another, keeps every identity accounted for.                    *)
LEMMA AccountedStays ==
  ASSUME TypeOK, UNCHANGED Caller, NEW s \in Subs, Accounted(s),
         \A u \in Subs : (asked[u] => asked'[u]) /\ (sock[u] # "none" => sock'[u] # "none"),
         \/ ws_connections' = ws_connections
         \/ \E v \in Subs :
              /\ sock'[v] # "none"
              /\ \/ ws_connections' = [ws_connections EXCEPT ![Caller[v]] = v]
                 \/ ws_connections' = [ws_connections EXCEPT ![Caller[v]] = NoSocket] /\ asked'[v]
  PROVE  Accounted(s)'
<1>1. PICK u \in Subs :
        /\ Caller[u] = Caller[s] /\ sock[u] # "none"
        /\ ws_connections[Caller[u]] = u \/ asked[u]
  BY DEF Accounted
<1>2. Caller \in [Subs -> Threads] /\ ws_connections \in [Threads -> Subs \cup {NoSocket}]
  BY DEF TypeOK
<1>3. CASE asked'[u] \/ ws_connections'[Caller[u]] = u
  BY <1>1, <1>3 DEF Accounted
<1>4. ASSUME ~ asked'[u], ws_connections'[Caller[u]] # u PROVE Accounted(s)'
  <2>1. ws_connections[Caller[u]] = u /\ Caller[u] \in Threads
    BY <1>1, <1>2, <1>4
  <2>2. PICK v \in Subs :
          /\ sock'[v] # "none"
          /\ \/ ws_connections' = [ws_connections EXCEPT ![Caller[v]] = v]
             \/ ws_connections' = [ws_connections EXCEPT ![Caller[v]] = NoSocket] /\ asked'[v]
    BY <1>4, <2>1
  <2>3. Caller[v] = Caller[u]
    BY <1>2, <1>4, <2>1, <2>2
  <2>4. ws_connections'[Caller[v]] = v \/ asked'[v]
    BY <1>2, <2>1, <2>2, <2>3
  <2> QED  BY <1>1, <2>2, <2>3, <2>4 DEF Accounted
<1> QED  BY <1>3, <1>4

LEMMA ReasonsStep == TypeOK /\ EndsHaveReasons /\ [Next]_vars => EndsHaveReasons'
<1> SUFFICES ASSUME TypeOK, EndsHaveReasons, [Next]_vars PROVE EndsHaveReasons'
  OBVIOUS
<1>0. UNCHANGED Caller
  BY DEF Next, vars
<1> USE <1>0, NoSocketIsNoSub DEF TypeOK, EndsHaveReasons
<1>a. ASSUME UNCHANGED <<ws_connections, sock>>,
             \A s \in Subs :
               /\ asked[s] => asked'[s]
               /\ failed[s] => failed'[s]
               /\ ClosedForAReason(s)'
               /\ task'[s] = "ended" =>
                    \/ task[s] = "ended" \/ asked'[s] \/ failed'[s]
                    \/ sock[s] # "none" /\ ws_connections[Caller[s]] # s
      PROVE  EndsHaveReasons'
  <2>1. EntryIsOwn'
    BY <1>a DEF EntryIsOwn
  <2>2. ASSUME NEW s \in Subs PROVE EndedWithout(s)'
    <3>1. sock'[s] # "none" => Accounted(s)'
      BY <1>a, AccountedStays DEF EndedWithout
    <3> QED  BY <1>a, <3>1 DEF EndedWithout
  <2> QED  BY <1>a, <2>1, <2>2
<1>1. ASSUME NEW t \in Threads, unsubscribe(t) PROVE EndsHaveReasons'
  <2>1. \A s \in Subs : closes'[s] > 0 => closes[s] > 0 \/ ws_connections[t] = s
    BY <1>1 DEF unsubscribe
  <2>2. \A s \in Subs : asked'[s] = (asked[s] \/ (Caller[s] = t /\ task[s] # "none"))
    BY <1>1 DEF unsubscribe
  <2>3. UNCHANGED <<ws_connections, task, sock, failed>>
    BY <1>1 DEF unsubscribe
  <2>4. ASSUME NEW s \in Subs, closes'[s] > 0
        PROVE  asked'[s] /\ sock[s] # "none"
    <3>1. CASE closes[s] > 0
      BY <2>2, <3>1 DEF ClosedForAReason
    <3>2. CASE ws_connections[t] = s
      <4>1. Caller[s] = t /\ sock[s] # "none" /\ task[s] # "none"
        BY <3>2 DEF EntryIsOwn, ClosedForAReason
      <4> QED  BY <2>2, <4>1
    <3> QED  BY <2>1, <2>4, <3>1, <3>2
  <2>5. \A s \in Subs : ClosedForAReason(s)'
    BY <2>2, <2>3, <2>4 DEF ClosedForAReason
  <2> QED  BY <1>a, <2>2, <2>3, <2>5
<1>2. ASSUME NEW s \in Subs, subscribe(s) \/ ConnectFails(s) PROVE EndsHaveReasons'
  BY <1>2, <1>a DEF subscribe, ConnectFails, ClosedForAReason
<1>3. ASSUME NEW s \in Subs, Connected(s) PROVE EndsHaveReasons'
  <2>1. /\ ws_connections' = [ws_connections EXCEPT ![Caller[s]] = s]
        /\ sock' = [sock EXCEPT ![s] = "open"]
        /\ task' = [task EXCEPT ![s] = "sending"]
        /\ UNCHANGED <<closes, asked, failed>>
    BY <1>3 DEF Connected, Register
  <2>2. EntryIsOwn'
    BY <2>1 DEF EntryIsOwn
  <2>3. ASSUME NEW u \in Subs PROVE ClosedForAReason(u)'
    BY <2>1 DEF ClosedForAReason
  <2>4. ASSUME NEW u \in Subs PROVE EndedWithout(u)'
    <3>1. CASE u = s
      <4>1. Accounted(s)'
        BY <2>1 DEF Accounted
      <4> QED  BY <2>1, <3>1, <4>1 DEF EndedWithout
    <3>2. ASSUME u # s PROVE EndedWithout(u)'
      <4>1. sock'[u] # "none" => Accounted(u)'
        BY <2>1, <3>2, AccountedStays DEF EndedWithout
      <4>2. ws_connections[Caller[u]] # u => ws_connections'[Caller[u]] # u
        BY <2>1, <3>2
      <4> QED  BY <2>1, <3>2, <4>1, <4>2 DEF EndedWithout
    <3> QED  BY <3>1, <3>2
  <2> QED  BY <2>2, <2>3, <2>4
<1>4. ASSUME NEW s \in Subs, MessageSent(s) \/ Receive(s) PROVE EndsHaveReasons'
  <2>1. /\ task[s] \in {"sending", "waiting"}
        /\ task' = [task EXCEPT ![s] = LoopTest(s)]
        /\ UNCHANGED <<ws_connections, sock, closes, asked, failed>>
    BY <1>4 DEF MessageSent, Receive
  <2>2. \/ LoopTest(s) = "waiting"
        \/ LoopTest(s) = "ended" /\ ws_connections[Caller[s]] # s
    BY DEF LoopTest, Registered
  <2>3. sock[s] # "none"
    BY <2>1 DEF ClosedForAReason
  <2>4. ASSUME NEW u \in Subs PROVE ClosedForAReason(u)'
    BY <2>1, <2>2, <2>3 DEF ClosedForAReason
  <2> QED  BY <1>a, <2>1, <2>2, <2>3, <2>4
<1>5. ASSUME NEW s \in Subs, FilterRaises(s) \/ ClosedRaises(s) PROVE EndsHaveReasons'
  BY <1>5, <1>a DEF FilterRaises, ClosedRaises, ClosedForAReason
<1>6. ASSUME NEW s \in Subs, StartClose(s) \/ HandshakeEnds(s) \/ ConnectionLost(s)
      PROVE  EndsHaveReasons'
  <2>1. UNCHANGED <<ws_connections, task, closes, asked>>
    BY <1>6 DEF StartClose, HandshakeEnds, ConnectionLost
  <2>2. \A u \in Subs : (sock[u] = "none") = (sock'[u] = "none")
    <3>1. \/ sock[s] # "none" /\ sock' = [sock EXCEPT ![s] = "closing"]
          \/ sock[s] # "none" /\ sock' = [sock EXCEPT ![s] = "closed"]
      BY <1>6 DEF StartClose, HandshakeEnds, ConnectionLost
    <3> QED  BY <3>1
  <2>3. \A u \in Subs : failed[u] => failed'[u]
    <3>1. failed' = failed \/ failed' = [failed EXCEPT ![s] = TRUE]
      BY <1>6 DEF StartClose, HandshakeEnds, ConnectionLost
    <3> QED  BY <3>1
  <2>4. EntryIsOwn'
    BY <2>1, <2>2 DEF EntryIsOwn
  <2>5. ASSUME NEW u \in Subs PROVE ClosedForAReason(u)'
    BY <1>6, <2>1, <2>2 DEF StartClose, HandshakeEnds, ConnectionLost, ClosedForAReason
  <2>6. ASSUME NEW u \in Subs PROVE EndedWithout(u)'
    <3>1. sock'[u] # "none" => Accounted(u)'
      BY <2>1, <2>2, AccountedStays DEF EndedWithout
    <3> QED  BY <2>1, <2>2, <2>3, <3>1 DEF EndedWithout
  <2> QED  BY <2>4, <2>5, <2>6
<1>7. ASSUME NEW s \in Subs, EndClose(s) PROVE EndsHaveReasons'
  <2>1. closes[s] > 0 /\ asked[s] /\ sock[s] # "none"
    BY <1>7 DEF EndClose, ClosedForAReason
  <2>2. /\ ws_connections' = [ws_connections EXCEPT ![Caller[s]] = NoSocket]
        /\ closes' = [closes EXCEPT ![s] = @ - 1]
        /\ UNCHANGED <<task, sock, asked, failed>>
    BY <1>7 DEF EndClose, PopEntry
  <2>3. EntryIsOwn'
    BY <2>2 DEF EntryIsOwn
  <2>4. ASSUME NEW u \in Subs PROVE ClosedForAReason(u)'
    BY <2>1, <2>2 DEF ClosedForAReason
  <2>5. ASSUME NEW u \in Subs PROVE EndedWithout(u)'
    <3>1. sock'[u] # "none" => Accounted(u)'
      BY <2>1, <2>2, AccountedStays DEF EndedWithout
    <3>2. ws_connections[Caller[u]] # u => ws_connections'[Caller[u]] # u
      BY <2>2
    <3> QED  BY <2>2, <3>1, <3>2 DEF EndedWithout
  <2> QED  BY <2>3, <2>4, <2>5
<1>8. ASSUME NEW s \in Subs, MessageArrives(s) PROVE EndsHaveReasons'
  BY <1>8, <1>a DEF MessageArrives, ClosedForAReason
<1>9. CASE UNCHANGED vars
  BY <1>9, <1>a DEF vars, ClosedForAReason
<1> QED  BY <1>1, <1>2, <1>3, <1>4, <1>5, <1>6, <1>7, <1>8, <1>9 DEF Next, LoopRuns

(* A coroutine of __subscribe ends only by an unsubscribe for its identity, *)
(* by a failure of its own, or because another subscription registered     *)
(* under its identity, which then has the entry or was unsubscribed.        *)
THEOREM GoesOnAlways == Spec => []GoesOnUnlessSuperseded
<1>1. Init => EndsHaveReasons
  BY NoSocketIsNoSub DEF Init, EndsHaveReasons, EntryIsOwn, ClosedForAReason, EndedWithout
<1>2. EndsHaveReasons => GoesOnUnlessSuperseded
  <2> SUFFICES ASSUME EndsHaveReasons, NEW s \in Subs, task[s] = "ended",
                      ~ asked[s], ~ failed[s]
               PROVE  Superseded(s)
    BY DEF GoesOnUnlessSuperseded
  <2>1. sock[s] # "none" /\ ws_connections[Caller[s]] # s /\ Accounted(s)
    BY DEF EndsHaveReasons, EndedWithout
  <2> QED  BY <2>1 DEF Accounted, Superseded
<1> QED  BY <1>1, <1>2, SubscriptionTypeCorrect, ReasonsStep, PTL DEF Spec

=============================================================================
