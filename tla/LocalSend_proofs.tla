-------------------------- MODULE LocalSend_proofs ---------------------------
(***************************************************************************)
(* Proofs about LocalSend for any calls, accounts, clock and number of     *)
(* restarts: type correctness, who can abort whom, and how long a          *)
(* transaction lives.                                                       *)
(***************************************************************************)
EXTENDS LocalSend, TLAPS

Sent(x) == state[x] # "unsent"
Numbered(x) == pc[x] = "send" \/ Sent(x)

SentIsPast == \A x \in Calls : Sent(x) => pc[x] \in {"wait", "over"}

BeforeReturned == \A y \in Calls : before[y] \subseteq returned

(* Without forks: an executed transaction's ISN is used up, so whoever     *)
(* begins after it has returned reads a higher one.                        *)
UsedUp == \A x \in Calls : state[x] \in Executed => isn[x] < head[Account[x]]
ReturnedExecuted == \A x \in returned : state[x] \in Executed
LaterIsHigher ==
  \A y \in Calls : Numbered(y) =>
    \A x \in before[y] : Account[x] = Account[y] => isn[x] < isn[y]
AbortedHasWinner ==
  \A y \in Calls : state[y] = "TXN_ABORTED" =>
    \E x \in Calls : /\ x # y /\ Account[x] = Account[y] /\ isn[x] = isn[y]
                     /\ state[x] = "TXN_FINALIZED"

Unforked == UsedUp /\ ReturnedExecuted /\ LaterIsHigher /\ AbortedHasWinner

LifeSpan ==
  \A x \in Calls :
    /\ pc[x] = "compose" => dies[x] <= Ttl + IF x \in Local THEN imported ELSE now
    /\ Numbered(x) => dies[x] <= stamp[x] + Ttl
    /\ state[x] = "TXN_EXPIRED" => now > stamp[x] + Ttl

IInv == TypeOK /\ SentIsPast /\ BeforeReturned /\ (forks = 0 => Unforked) /\ LifeSpan

-----------------------------------------------------------------------------

LEMMA InitIInv == Init => IInv
<1> SUFFICES ASSUME Init PROVE IInv
  OBVIOUS
<1> USE DEF Init
<1>1. TypeOK
  BY DEF TypeOK, States
<1>2. SentIsPast /\ BeforeReturned
  BY DEF SentIsPast, BeforeReturned, Sent
<1>3. Unforked
  BY DEF Unforked, UsedUp, ReturnedExecuted, LaterIsHigher, AbortedHasWinner, Numbered,
         Sent, Executed
<1>4. LifeSpan
  BY DEF LifeSpan, Numbered, Sent
<1> QED  BY <1>1, <1>2, <1>3, <1>4 DEF IInv

(* Types are kept, one action at a time.                                    *)
LEMMA StepKeepsTypes ==
  ASSUME TypeOK, [Next]_vars
  PROVE  TypeOK'
<1> USE DEF TypeOK, nodeVars, history, callVars
<1>0. Ttl \in Nat /\ MaxTime \in Nat /\ \A x \in Calls : Account[x] \in Accounts
  BY BoundsAreNat, CallsTyped
<1>1. ASSUME NEW x \in Calls, Begin(x) PROVE TypeOK'
  BY <1>0, <1>1 DEF Begin
<1>2. ASSUME NEW x \in Calls, GetIsn(x) \/ NodeCompose(x) PROVE TypeOK'
  BY <1>0, <1>2 DEF GetIsn, NodeCompose, Composed, IsnOf, Timestamp
<1>3. ASSUME NEW x \in Calls, Send(x) PROVE TypeOK'
  BY <1>3 DEF Send, States
<1>4. ASSUME NEW x \in Calls, WaitReturns(x) PROVE TypeOK'
  BY <1>4 DEF WaitReturns
<1>5. ASSUME NEW x \in Calls, CallFails(x) PROVE TypeOK'
  BY <1>5 DEF CallFails
<1>6. ASSUME NEW x \in Calls, Execute(x) PROVE TypeOK'
  BY <1>0, <1>6 DEF Execute, States, Executed
<1>7. ASSUME NEW x \in Calls, Finalize(x) \/ Abort(x) \/ Expire(x) PROVE TypeOK'
  BY <1>7 DEF Finalize, Abort, Expire, States, Executed
<1>8. ASSUME NEW x \in Calls, ForkOut(x) PROVE TypeOK'
  BY <1>0, <1>8 DEF ForkOut, States
<1>9. CASE Restart
  BY <1>9 DEF Restart
<1>10. CASE Tick
  BY <1>10 DEF Tick
<1>11. CASE UNCHANGED vars
  BY <1>11 DEF vars
<1> QED  BY <1>1, <1>2, <1>3, <1>4, <1>5, <1>6, <1>7, <1>8, <1>9, <1>10, <1>11
         DEF Next, CallStep, NodeStep

(* What a send leaves behind, and what had returned, only grows.           *)
LEMMA StepKeepsPast ==
  ASSUME TypeOK, SentIsPast, BeforeReturned, [Next]_vars
  PROVE  SentIsPast' /\ BeforeReturned'
<1> USE DEF TypeOK, SentIsPast, BeforeReturned, Sent, nodeVars, history, callVars
<1>1. ASSUME NEW x \in Calls, Begin(x) PROVE SentIsPast' /\ BeforeReturned'
  BY <1>1 DEF Begin
<1>2. ASSUME NEW x \in Calls, GetIsn(x) \/ NodeCompose(x)
      PROVE  SentIsPast' /\ BeforeReturned'
  BY <1>2 DEF GetIsn, NodeCompose, Composed
<1>3. ASSUME NEW x \in Calls, Send(x) \/ WaitReturns(x) \/ CallFails(x)
      PROVE  SentIsPast' /\ BeforeReturned'
  BY <1>3 DEF Send, WaitReturns, CallFails
<1>4. ASSUME NEW x \in Calls, NodeStep(x) PROVE SentIsPast' /\ BeforeReturned'
  BY <1>4 DEF NodeStep, Execute, Finalize, ForkOut, Abort, Expire
<1>5. CASE Restart
  BY <1>5 DEF Restart
<1>6. CASE Tick \/ UNCHANGED vars
  BY <1>6 DEF Tick, vars
<1> QED  BY <1>1, <1>2, <1>3, <1>4, <1>5, <1>6 DEF Next, CallStep

-----------------------------------------------------------------------------
(* ISNs, as long as no block is forked out.                                *)

LEMMA BeginKeepsUnforked ==
  ASSUME IInv, Unforked, NEW x \in Calls, Begin(x)
  PROVE  Unforked'
<1> USE DEF IInv, TypeOK, Begin, nodeVars
<1>1. UsedUp' /\ ReturnedExecuted' /\ AbortedHasWinner'
  BY DEF Unforked, UsedUp, ReturnedExecuted, AbortedHasWinner
<1>2. ~ Numbered(x)' /\ \A y \in Calls \ {x} : /\ Numbered(y)' = Numbered(y)
                                               /\ before'[y] = before[y]
  BY DEF Numbered, Sent, SentIsPast
<1>3. LaterIsHigher'
  BY <1>2 DEF Unforked, LaterIsHigher
<1> QED  BY <1>1, <1>3 DEF Unforked

(* The ISN that is read is higher than any that has returned.              *)
LEMMA ComposeKeepsUnforked ==
  ASSUME IInv, Unforked, NEW x \in Calls, GetIsn(x) \/ NodeCompose(x)
  PROVE  Unforked'
<1> USE DEF IInv, TypeOK
<1>1. /\ pc[x] = "compose"
      /\ isn' = [isn EXCEPT ![x] = head[Account[x]]]
      /\ pc' = [pc EXCEPT ![x] = "send"]
      /\ UNCHANGED <<state, head, returned, before>>
  BY DEF GetIsn, NodeCompose, Composed, IsnOf, nodeVars, history
<1>2. state[x] = "unsent"
  BY <1>1 DEF SentIsPast, Sent
<1>3. \A y \in Calls \ {x} : isn'[y] = isn[y] /\ (Numbered(y)' => Numbered(y))
  BY <1>1 DEF Numbered, Sent
<1>4. x \notin returned /\ \A y \in Calls : x \notin before[y]
  BY <1>2 DEF Unforked, ReturnedExecuted, Executed, BeforeReturned
<1>5. UsedUp' /\ ReturnedExecuted' /\ AbortedHasWinner'
  <2>1. UsedUp' /\ ReturnedExecuted'
    BY <1>1, <1>2, <1>3 DEF Unforked, UsedUp, ReturnedExecuted, Executed
  <2>2. AbortedHasWinner'
    BY <1>1, <1>2, <1>3 DEF Unforked, AbortedHasWinner
  <2> QED  BY <2>1, <2>2
<1>6. ASSUME NEW y \in Calls, Numbered(y)', NEW z \in before'[y], Account[z] = Account[y]
      PROVE  isn'[z] < isn'[y]
  <2>1. z \in before[y] /\ z \in Calls /\ z # x
    BY <1>1, <1>4, <1>6
  <2>2. CASE y = x
    <3>1. isn[z] < head[Account[z]]
      BY <2>1 DEF BeforeReturned, Unforked, ReturnedExecuted, UsedUp
    <3> QED  BY <1>1, <1>6, <2>1, <2>2, <3>1
  <2>3. CASE y # x
    BY <1>3, <1>6, <2>1, <2>3 DEF Unforked, LaterIsHigher
  <2> QED  BY <2>2, <2>3
<1>7. LaterIsHigher'
  BY <1>6 DEF LaterIsHigher
<1> QED  BY <1>5, <1>7 DEF Unforked

LEMMA CallKeepsUnforked ==
  ASSUME IInv, Unforked, NEW x \in Calls, Send(x) \/ WaitReturns(x) \/ CallFails(x)
  PROVE  Unforked'
<1> USE DEF IInv, TypeOK, nodeVars, history
<1>1. UNCHANGED <<isn, head, before>> /\ \A y \in Calls : Numbered(y)' => Numbered(y)
  BY DEF Send, WaitReturns, CallFails, Numbered, Sent
<1>2. LaterIsHigher'
  BY <1>1 DEF Unforked, LaterIsHigher
<1>3. CASE Send(x)
  <2>1. state[x] = "unsent" /\ state' = [state EXCEPT ![x] = "TXN_READY"]
        /\ UNCHANGED <<isn, head, returned>>
    BY <1>3 DEF Send, SentIsPast, Sent
  <2>2. UsedUp' /\ ReturnedExecuted'
    BY <2>1 DEF Unforked, UsedUp, ReturnedExecuted, Executed
  <2>3. AbortedHasWinner'
    BY <2>1 DEF Unforked, AbortedHasWinner
  <2> QED  BY <1>2, <2>2, <2>3 DEF Unforked
<1>4. CASE WaitReturns(x) \/ CallFails(x)
  <2>1. UNCHANGED <<isn, head, state>>
        /\ returned' \subseteq returned \cup {y \in Calls : state[y] \in Executed}
    BY <1>4 DEF WaitReturns, CallFails
  <2>2. UsedUp' /\ ReturnedExecuted'
    BY <2>1 DEF Unforked, UsedUp, ReturnedExecuted
  <2>3. AbortedHasWinner'
    BY <2>1 DEF Unforked, AbortedHasWinner
  <2> QED  BY <1>2, <2>2, <2>3 DEF Unforked
<1> QED  BY <1>3, <1>4

LEMMA NodeKeepsUnforked ==
  ASSUME IInv, Unforked, NEW x \in Calls, Execute(x) \/ Finalize(x) \/ Abort(x) \/ Expire(x)
  PROVE  Unforked'
<1> USE DEF IInv, TypeOK, callVars, history
<1>0. Account \in [Calls -> Accounts]
  BY CallsTyped
<1>1. /\ UNCHANGED <<pc, isn, before, returned>>
      /\ state[x] # "unsent" /\ state[x] # "TXN_FINALIZED"
      /\ \E s \in States \ {"unsent"} : state' = [state EXCEPT ![x] = s]
      /\ \A a \in Accounts : head'[a] >= head[a]
      /\ state[x] \in Executed => state'[x] \in Executed
  BY <1>0 DEF Execute, Finalize, Abort, Expire, Executed, States
<1>2. LaterIsHigher'
  <2>1. \A y \in Calls : Numbered(y)' = Numbered(y)
    BY <1>1 DEF Numbered, Sent
  <2> QED  BY <1>1, <2>1 DEF Unforked, LaterIsHigher
<1>3. ReturnedExecuted'
  BY <1>1 DEF Unforked, ReturnedExecuted
<1>4. UsedUp'
  <2>1. state'[x] \in Executed => isn[x] < head'[Account[x]]
    <3>1. CASE Execute(x)
      BY <1>0, <3>1 DEF Execute
    <3>2. CASE Finalize(x)
      BY <3>2 DEF Finalize, Unforked, UsedUp, Executed
    <3>3. CASE Abort(x) \/ Expire(x)
      BY <3>3 DEF Abort, Expire, Executed
    <3> QED  BY <3>1, <3>2, <3>3
  <2>2. ASSUME NEW y \in Calls, y # x, state'[y] \in Executed
        PROVE  isn[y] < head'[Account[y]]
    <3>1. isn[y] < head[Account[y]] /\ head'[Account[y]] >= head[Account[y]]
          /\ head[Account[y]] \in Nat /\ isn[y] \in Nat
      BY <1>0, <1>1, <2>2 DEF Unforked, UsedUp
    <3>2. head'[Account[y]] \in Nat
      BY <1>0, <3>1 DEF Execute, Finalize, Abort, Expire
    <3> QED  BY <3>1, <3>2
  <2> QED  BY <1>1, <2>1, <2>2 DEF UsedUp
<1>5. AbortedHasWinner'
  <2>1. ASSUME NEW y \in Calls, state'[y] = "TXN_ABORTED"
        PROVE  \E z \in Calls : /\ z # y /\ Account[z] = Account[y] /\ isn[z] = isn[y]
                                /\ state[z] = "TXN_FINALIZED"
    <3>1. CASE y = x
      <4>1. Abort(x)
        BY <1>1, <2>1, <3>1 DEF Execute, Finalize, Abort, Expire
      <4> QED  BY <1>1, <3>1, <4>1 DEF Abort
    <3>2. CASE y # x
      BY <1>1, <2>1, <3>2 DEF Unforked, AbortedHasWinner
    <3> QED  BY <3>1, <3>2
  <2>2. \A z \in Calls : state[z] = "TXN_FINALIZED" => state'[z] = "TXN_FINALIZED"
    BY <1>1
  <2> QED  BY <1>1, <2>1, <2>2 DEF AbortedHasWinner
<1> QED  BY <1>2, <1>3, <1>4, <1>5 DEF Unforked

LEMMA StepKeepsUnforked ==
  ASSUME IInv, [Next]_vars, forks' = 0
  PROVE  Unforked'
<1>1. forks \in Nat /\ ~ \E x \in Calls : ForkOut(x)
  BY DEF IInv, TypeOK, ForkOut
<1>2. forks = 0
  BY <1>1 DEF IInv, TypeOK, Next, CallStep, NodeStep, Begin, GetIsn, NodeCompose, Composed,
     Send, WaitReturns, CallFails, Restart, Execute, Finalize, Abort, Expire, Tick, vars, nodeVars
<1>3. Unforked
  BY <1>2 DEF IInv
<1>4. CASE Restart
  <2>1. UNCHANGED <<isn, head, state, before, returned>>
        /\ \A y \in Calls : Numbered(y)' => Numbered(y)
    BY <1>4 DEF Restart, nodeVars, history, Numbered, Sent, IInv, TypeOK
  <2> QED  BY <1>3, <2>1 DEF Unforked, UsedUp, ReturnedExecuted, LaterIsHigher, AbortedHasWinner
<1>5. CASE Tick \/ UNCHANGED vars
  <2>1. UNCHANGED <<isn, head, state, before, returned, pc>>
    BY <1>5 DEF Tick, vars, nodeVars, callVars, history
  <2> QED  BY <1>3, <2>1 DEF Unforked, UsedUp, ReturnedExecuted, LaterIsHigher,
                             AbortedHasWinner, Numbered, Sent
<1> QED  BY <1>1, <1>3, <1>4, <1>5, BeginKeepsUnforked, ComposeKeepsUnforked,
            CallKeepsUnforked, NodeKeepsUnforked DEF Next, CallStep, NodeStep

-----------------------------------------------------------------------------
(* Life spans.                                                              *)

LEMMA StepKeepsLifeSpan ==
  ASSUME IInv, [Next]_vars
  PROVE  LifeSpan'
<1> USE DEF IInv, TypeOK, LifeSpan, Numbered, Sent, nodeVars, history, callVars
<1>0. Ttl \in Nat
  BY BoundsAreNat
<1>1. ASSUME NEW x \in Calls, Begin(x) PROVE LifeSpan'
  BY <1>0, <1>1 DEF Begin, SentIsPast
<1>2. ASSUME NEW x \in Calls, GetIsn(x) PROVE LifeSpan'
  BY <1>0, <1>2 DEF GetIsn, Composed, Timestamp, SentIsPast
<1>3. ASSUME NEW x \in Calls, NodeCompose(x) PROVE LifeSpan'
  BY <1>0, <1>3 DEF NodeCompose, Composed, SentIsPast
<1>4. ASSUME NEW x \in Calls, Send(x) PROVE LifeSpan'
  BY <1>0, <1>4 DEF Send
<1>5. ASSUME NEW x \in Calls, WaitReturns(x) \/ CallFails(x) PROVE LifeSpan'
  BY <1>0, <1>5 DEF WaitReturns, CallFails
<1>6. ASSUME NEW x \in Calls, NodeStep(x) PROVE LifeSpan'
  BY <1>0, <1>6 DEF NodeStep, Execute, Finalize, ForkOut, Abort, Expire
<1>7. CASE Restart
  BY <1>0, <1>7 DEF Restart
<1>8. CASE Tick \/ UNCHANGED vars
  BY <1>0, <1>8 DEF Tick, vars
<1> QED  BY <1>1, <1>2, <1>3, <1>4, <1>5, <1>6, <1>7, <1>8 DEF Next, CallStep

LEMMA IInvAlways == Spec => []IInv
<1>1. Init => IInv
  BY InitIInv
<1>2. IInv /\ [Next]_vars => IInv'
  <2> SUFFICES ASSUME IInv, [Next]_vars PROVE IInv'
    OBVIOUS
  <2>1. TypeOK' /\ SentIsPast' /\ BeforeReturned'
    BY StepKeepsTypes, StepKeepsPast DEF IInv
  <2> QED  BY <2>1, StepKeepsUnforked, StepKeepsLifeSpan DEF IInv
<1> QED  BY <1>1, <1>2, PTL DEF Spec

-----------------------------------------------------------------------------
(* The theorems.                                                            *)

(* Every variable of the sends keeps its type.                              *)
THEOREM LocalSendTypeCorrect == Spec => []TypeOK
<1>1. IInv => TypeOK
  BY DEF IInv
<1> QED  BY <1>1, IInvAlways, PTL

(* However many calls for however many accounts run, fail and are killed,  *)
(* compose_transaction_local and tx.compose never give a call an ISN that  *)
(* a send which returned before it began had used.                         *)
THEOREM AbortedMeansOverlapAlways == Spec => []AbortedMeansOverlap
<1>1. IInv => AbortedMeansOverlap
  <2> SUFFICES ASSUME IInv, forks = 0, NEW y \in Calls, state[y] = "TXN_ABORTED"
               PROVE  \E x \in Calls \ before[y] :
                        /\ x # y /\ Account[x] = Account[y] /\ isn[x] = isn[y]
                        /\ state[x] = "TXN_FINALIZED"
    BY DEF AbortedMeansOverlap
  <2>1. Unforked /\ isn \in [Calls -> Nat]
    BY DEF IInv, TypeOK
  <2>2. PICK x \in Calls : /\ x # y /\ Account[x] = Account[y] /\ isn[x] = isn[y]
                           /\ state[x] = "TXN_FINALIZED"
    BY <2>1 DEF Unforked, AbortedHasWinner
  <2>3. x \notin before[y]
    BY <2>1, <2>2 DEF Unforked, LaterIsHigher, Numbered, Sent
  <2> QED  BY <2>2, <2>3
<1> QED  BY <1>1, IInvAlways, PTL

(* No transaction expires before its ttl, counted from the call or, for a  *)
(* local one, from the import of the library.                              *)
THEOREM NotExpiredEarlyAlways == Spec => []NotExpiredEarly
<1>1. IInv => NotExpiredEarly
  <2> SUFFICES ASSUME IInv, NEW x \in Calls, state[x] = "TXN_EXPIRED"
               PROVE  now > dies[x]
    BY DEF NotExpiredEarly
  <2>1. now > stamp[x] + Ttl /\ dies[x] <= stamp[x] + Ttl
    BY DEF IInv, LifeSpan, Numbered, Sent
  <2>2. now \in Nat /\ stamp[x] \in Nat /\ dies[x] \in Nat /\ Ttl \in Nat
    BY BoundsAreNat DEF IInv, TypeOK
  <2> QED  BY <2>1, <2>2
<1> QED  BY <1>1, IInvAlways, PTL

=============================================================================
