------------------------ MODULE StateDelivery_proofs -------------------------
(***************************************************************************)
(* Proofs about StateDelivery: type correctness, that a message is         *)
(* overtaken only while its handler runs, and that filter and handler of   *)
(* every wrapper agree on every message.  The last rests on what the loop  *)
(* of the handlers computes for lists of any length.                       *)
(***************************************************************************)
EXTENDS StateDelivery, FiniteSetTheorems, WellFoundedInduction, TLAPS

-----------------------------------------------------------------------------
(* The loop of the handlers.  It is unfolded turn by turn: the induction   *)
(* over the number of turns takes the least one that goes wrong.           *)

LEMMA LeastOf ==
  ASSUME NEW T \in SUBSET Nat, T # {}
  PROVE  \E x \in T : \A y \in T : x <= y
<1>1. PICK x \in T : \A y \in T : ~ (<<y, x>> \in OpToRel(<, Nat))
  BY NatLessThanWellFounded, WFMin
<1>2. \A y \in T : ~ (y < x)
  BY <1>1 DEF OpToRel
<1> QED  BY <1>2

(* kept is what the loop has appended after each of its first m turns.     *)
AfterTurns(list, matches, kept, m) ==
  kept = [n \in 0 .. m |->
            IF n = 0 THEN <<>>
            ELSE IF list[n] \in matches THEN Append(kept[n - 1], list[n])
            ELSE kept[n - 1]]

LEMMA TurnsExist ==
  ASSUME NEW list, NEW matches, NEW m \in Nat
  PROVE  \E kept : AfterTurns(list, matches, kept, m)
<1> DEFINE Bad == {k \in Nat : ~ \E kept : AfterTurns(list, matches, kept, k)}
           Turn(f, n) == IF n = 0 THEN <<>>
                         ELSE IF list[n] \in matches THEN Append(f[n - 1], list[n])
                         ELSE f[n - 1]
<1> SUFFICES ASSUME Bad # {} PROVE FALSE
  OBVIOUS
<1>1. PICK k \in Bad : \A y \in Bad : k <= y
  BY LeastOf
<1>2. CASE k = 0
  <2>1. AfterTurns(list, matches, [n \in 0 .. 0 |-> <<>>], 0)
    BY DEF AfterTurns
  <2> QED  BY <1>2, <2>1
<1>3. CASE k # 0
  <2>1. k - 1 \in Nat /\ k - 1 \notin Bad
    BY <1>1, <1>3
  <2>2. PICK f : AfterTurns(list, matches, f, k - 1)
    BY <2>1
  <2>3. \A n \in 0 .. k - 1 : f[n] = Turn(f, n)
    BY <2>2 DEF AfterTurns
  <2> DEFINE g == [n \in 0 .. k |-> IF n = k THEN Turn(f, n) ELSE f[n]]
  <2>4. ASSUME NEW n \in 0 .. k
        PROVE  g[n] = Turn(g, n)
    <3>1. CASE n = 0
      BY <1>3, <2>1, <2>3, <3>1
    <3>2. CASE n # 0 /\ n # k
      <4>1. n \in 0 .. k - 1 /\ g[n] = f[n] /\ g[n - 1] = f[n - 1]
        BY <2>1, <3>2
      <4> QED  BY <2>3, <3>2, <4>1
    <3>3. CASE n # 0 /\ n = k
      <4>1. g[n - 1] = f[n - 1]
        BY <2>1, <3>3
      <4> QED  BY <3>3, <4>1
    <3> QED  BY <3>1, <3>2, <3>3
  <2>5. AfterTurns(list, matches, g, k)
    <3>1. g = [n \in 0 .. k |-> g[n]]
      OBVIOUS
    <3> HIDE DEF g
    <3> QED  BY <2>4, <3>1 DEF AfterTurns
  <2> QED  BY <2>5
<1> QED  BY <1>2, <1>3

(* What the loop keeps is what it has appended after its last turn.        *)
LEMMA KeptAfterTurns ==
  ASSUME NEW list, NEW matches, Len(list) \in Nat
  PROVE  \E kept : /\ AfterTurns(list, matches, kept, Len(list))
                   /\ Kept(list, matches) = kept[Len(list)]
<1> DEFINE Turns(kept) == [n \in 0 .. Len(list) |->
                             IF n = 0 THEN <<>>
                             ELSE IF list[n] \in matches THEN Append(kept[n - 1], list[n])
                             ELSE kept[n - 1]]
           f == CHOOSE kept : kept = Turns(kept)
<1>1. \E kept : kept = Turns(kept)
  <2>1. PICK kept : AfterTurns(list, matches, kept, Len(list))
    BY TurnsExist
  <2> QED  BY <2>1, Zenon DEF AfterTurns
<1>2. f = Turns(f)
  BY <1>1, Zenon
<1>3. Kept(list, matches) = f[Len(list)]
  BY Zenon DEF Kept
<1> QED  BY <1>2, <1>3 DEF AfterTurns

LEMMA SelectNone ==
  ASSUME NEW list
  PROVE  IsSelection(<<>>, list, {})
<1>1. DOMAIN <<>> = {} /\ <<>> \in [{} -> {}]
  OBVIOUS
<1> QED  BY <1>1 DEF IsSelection

(* A selection goes on with any later place.                               *)
LEMMA SelectOneMore ==
  ASSUME NEW E, NEW list, NEW out \in Seq(E), NEW places \in SUBSET Nat, NEW n \in Nat,
         IsSelection(out, list, places), \A p \in places : p < n, list[n] \in E
  PROVE  /\ Append(out, list[n]) \in Seq(E)
         /\ IsSelection(Append(out, list[n]), list, places \cup {n})
<1> DEFINE next == Append(out, list[n])
<1>1. PICK at \in [DOMAIN out -> places] :
          /\ \A i, j \in DOMAIN out : i < j => at[i] < at[j]
          /\ \A i \in DOMAIN out : out[i] = list[at[i]]
          /\ \A p \in places : \E i \in DOMAIN out : at[i] = p
  BY DEF IsSelection
<1>2. /\ next \in Seq(E)
      /\ Len(out) \in Nat /\ DOMAIN out = 1 .. Len(out)
      /\ DOMAIN next = 1 .. Len(out) + 1
      /\ next[Len(out) + 1] = list[n]
      /\ \A i \in 1 .. Len(out) : next[i] = out[i]
  OBVIOUS
<1> DEFINE more == [i \in DOMAIN next |-> IF i = Len(out) + 1 THEN n ELSE at[i]]
<1>3. more[Len(out) + 1] = n /\ \A i \in 1 .. Len(out) : more[i] = at[i] /\ i # Len(out) + 1
  BY <1>2
<1>4. more \in [DOMAIN next -> places \cup {n}]
  BY <1>1, <1>2
<1> HIDE DEF more, next
<1>5. \A i, j \in DOMAIN next : i < j => more[i] < more[j]
  <2> SUFFICES ASSUME NEW i \in DOMAIN next, NEW j \in DOMAIN next, i < j
               PROVE  more[i] < more[j]
    OBVIOUS
  <2>1. i \in 1 .. Len(out) /\ more[i] = at[i] /\ at[i] \in places
    BY <1>1, <1>2, <1>3
  <2>2. CASE j = Len(out) + 1
    BY <1>3, <2>1, <2>2
  <2>3. CASE j # Len(out) + 1
    <3>1. j \in 1 .. Len(out)
      BY <1>2, <2>3
    <3> QED  BY <1>1, <1>2, <1>3, <2>1, <3>1
  <2> QED  BY <2>2, <2>3
<1>6. \A i \in DOMAIN next : next[i] = list[more[i]]
  <2> SUFFICES ASSUME NEW i \in DOMAIN next PROVE next[i] = list[more[i]]
    OBVIOUS
  <2>1. CASE i = Len(out) + 1
    BY <1>2, <1>3, <2>1
  <2>2. CASE i # Len(out) + 1
    <3>1. i \in 1 .. Len(out)
      BY <1>2, <2>2
    <3> QED  BY <1>1, <1>2, <1>3, <3>1
  <2> QED  BY <2>1, <2>2
<1>7. \A p \in places \cup {n} : \E i \in DOMAIN next : more[i] = p
  BY <1>1, <1>2, <1>3
<1>8. IsSelection(next, list, places \cup {n})
  BY <1>4, <1>5, <1>6, <1>7 DEF IsSelection
<1> QED  BY <1>2, <1>8 DEF next

(* After n turns the loop has selected the matches among the first n.      *)
LEMMA TurnsSelect ==
  ASSUME NEW E, NEW list \in Seq(E), NEW matches, NEW kept,
         AfterTurns(list, matches, kept, Len(list)), NEW m \in 0 .. Len(list)
  PROVE  /\ kept[m] \in Seq(E)
         /\ IsSelection(kept[m], list, {k \in 1 .. m : list[k] \in matches})
<1> DEFINE P(n) == {k \in 1 .. n : list[k] \in matches}
           Good(n) == kept[n] \in Seq(E) /\ IsSelection(kept[n], list, P(n))
           Bad == {n \in 0 .. Len(list) : ~ Good(n)}
<1> SUFFICES ASSUME Bad # {} PROVE FALSE
  OBVIOUS
<1>1. PICK n \in Bad : \A y \in Bad : n <= y
  <2>1. Bad \in SUBSET Nat
    OBVIOUS
  <2> HIDE DEF Bad
  <2> QED  BY <2>1, LeastOf
<1>2. n \in 0 .. Len(list) /\ Len(list) \in Nat
  OBVIOUS
<1>3. kept[n] = IF n = 0 THEN <<>>
                ELSE IF list[n] \in matches THEN Append(kept[n - 1], list[n])
                ELSE kept[n - 1]
  BY <1>2 DEF AfterTurns
<1>4. CASE n = 0
  <2>1. P(n) = {} /\ kept[n] = <<>>
    BY <1>3, <1>4
  <2>2. <<>> \in Seq(E)
    OBVIOUS
  <2>3. Good(n)
    BY <2>1, <2>2, SelectNone
  <2> QED  BY <2>3
<1>5. CASE n # 0
  <2>1. n - 1 \in 0 .. Len(list) /\ n \in 1 .. Len(list) /\ n - 1 < n /\ n \in Nat
    BY <1>2, <1>5
  <2>2. Good(n - 1)
    <3>1. n - 1 \notin Bad
      <4> HIDE DEF Bad
      <4> QED  BY <1>1, <2>1
    <3> HIDE DEF Good
    <3> QED  BY <2>1, <3>1
  <2>3. CASE list[n] \in matches
    <3>1. P(n) = P(n - 1) \cup {n} /\ \A p \in P(n - 1) : p < n
      BY <2>1, <2>3
    <3>2. kept[n] = Append(kept[n - 1], list[n]) /\ list[n] \in E
      BY <1>3, <1>5, <2>1, <2>3
    <3>3. PICK places : places = P(n - 1) /\ places \in SUBSET Nat
      <4>1. P(n - 1) \in SUBSET Nat
        OBVIOUS
      <4> QED  BY <4>1
    <3>4. PICK out \in Seq(E) : out = kept[n - 1]
      BY <2>2
    <3> HIDE DEF P
    <3>5. Append(out, list[n]) \in Seq(E)
          /\ IsSelection(Append(out, list[n]), list, places \cup {n})
      BY <2>1, <2>2, <3>1, <3>2, <3>3, <3>4, SelectOneMore
    <3>6. Good(n)
      BY <3>1, <3>2, <3>3, <3>4, <3>5
    <3> QED  BY <3>6
  <2>4. CASE list[n] \notin matches
    <3>1. P(n) = P(n - 1) /\ kept[n] = kept[n - 1]
      BY <1>3, <1>5, <2>1, <2>4
    <3> HIDE DEF P
    <3>2. Good(n)
      BY <2>2, <3>1
    <3> QED  BY <3>2
  <2> QED  BY <2>3, <2>4
<1> QED  BY <1>4, <1>5

(* The loop keeps the matches of the list, all of them, in their order.    *)
LEMMA KeptSelects ==
  ASSUME NEW E, NEW list \in Seq(E), NEW matches
  PROVE  IsSelection(Kept(list, matches), list, {k \in DOMAIN list : list[k] \in matches})
<1>1. Len(list) \in Nat /\ DOMAIN list = 1 .. Len(list)
  OBVIOUS
<1>2. PICK kept : /\ AfterTurns(list, matches, kept, Len(list))
                  /\ Kept(list, matches) = kept[Len(list)]
  BY <1>1, KeptAfterTurns
<1>3. PICK m \in Nat : m = Len(list)
  BY <1>1
<1>4. IsSelection(kept[m], list, {k \in 1 .. m : list[k] \in matches})
  <2>1. m \in 0 .. m
    OBVIOUS
  <2> QED  BY <1>2, <1>3, <2>1, TurnsSelect
<1> QED  BY <1>1, <1>2, <1>3, <1>4

-----------------------------------------------------------------------------
(* The inductive invariant.                                                 *)

TakenPositions == GivenPositions \cup {work[w] : w \in Workers}

(* The queue is in the order of reception.                                  *)
QueueInOrder ==
  \A a, b \in DOMAIN queue : a < b => queue[a] < queue[b]

(* Whatever has been taken was received before all that is queued.          *)
QueuedAfterTaken ==
  \A a \in DOMAIN queue :
    /\ queue[a] \in DOMAIN received
    /\ \A j \in TakenPositions : j < queue[a]

(* What has been taken was received.                                        *)
TakenWasReceived ==
  \A j \in TakenPositions : j \in DOMAIN received \cup {0}

(* A message the filter let through is queued or taken.                     *)
NoneForgotten ==
  \A i \in DOMAIN received :
    Passes(sub, received[i]) =>
      i \in TakenPositions \/ \E a \in DOMAIN queue : queue[a] = i

IInv ==
  /\ TypeOK
  /\ QueueInOrder
  /\ QueuedAfterTaken
  /\ TakenWasReceived
  /\ NoneForgotten

(* Only what the filter let through is queued, taken and handled; the      *)
(* handler was given what the node sent, whatever came after it.           *)
SubmittedPass ==
  /\ \A a \in DOMAIN queue : Passes(sub, received[queue[a]])
  /\ \A w \in Workers : work[w] # 0 => Passes(sub, received[work[w]])

GivenIsHandled ==
  \A g \in given : /\ g[1] \in DOMAIN received
                   /\ Passes(sub, received[g[1]])
                   /\ g[2] = Handled(sub, received[g[1]])

(* What a worker holds is on no other worker and was not handled before.   *)
TakenOnce ==
  \A w \in Workers :
    work[w] # 0 => /\ work[w] \notin GivenPositions
                   /\ \A v \in Workers : work[v] = work[w] => v = w

DeliveryIInv == IInv /\ SubmittedPass /\ GivenIsHandled /\ TakenOnce

LEMMA InitIInv == Init => IInv
  BY MaxMessagesIsNat
  DEF Init, IInv, TypeOK, QueueInOrder, QueuedAfterTaken, TakenWasReceived,
      NoneForgotten, TakenPositions, GivenPositions, Positions

(* Taking the head of the queue keeps its order and loses no message.       *)
LEMMA TakeKeepsIInv ==
  ASSUME IInv, NEW w \in Workers, Take(w)
  PROVE  IInv'
<1> USE MaxMessagesIsNat DEF Take
<1>1. queue \in Seq(Positions) /\ queue # <<>> /\ Positions \subseteq Nat
  BY DEF IInv, TypeOK, Positions
<1>2. /\ Len(queue') = Len(queue) - 1
      /\ \A a \in DOMAIN queue' : a + 1 \in DOMAIN queue /\ queue'[a] = queue[a + 1]
      /\ 1 \in DOMAIN queue /\ Head(queue) = queue[1]
      /\ \A a \in DOMAIN queue : a \in Nat /\ a >= 1
      /\ queue' \in Seq(Positions)
  BY <1>1
<1>3. GivenPositions' = GivenPositions
  BY DEF GivenPositions
<1>4. TypeOK'
  BY <1>1, <1>2, <1>3 DEF IInv, TypeOK
<1>5. TakenPositions' \subseteq TakenPositions \cup {queue[1]}
  BY <1>2, <1>3 DEF TakenPositions, IInv, TypeOK
<1>6. TakenPositions \subseteq TakenPositions' \cup {0}
  BY <1>2, <1>3 DEF TakenPositions, IInv, TypeOK
<1>7. queue[1] \in TakenPositions'
  BY <1>2 DEF TakenPositions, IInv, TypeOK
<1>8. QueueInOrder'
  BY <1>2 DEF IInv, QueueInOrder
<1>9. QueuedAfterTaken'
  <2> SUFFICES ASSUME NEW a \in DOMAIN queue'
               PROVE  /\ queue'[a] \in DOMAIN received
                      /\ \A j \in TakenPositions' : j < queue'[a]
    BY DEF QueuedAfterTaken
  <2>1. a + 1 \in DOMAIN queue /\ queue'[a] = queue[a + 1] /\ 1 < a + 1
    BY <1>2, <1>1
  <2>2. queue[1] < queue[a + 1]
    BY <2>1, <1>2 DEF IInv, QueueInOrder
  <2> QED
    BY <2>1, <2>2, <1>5 DEF IInv, QueuedAfterTaken
<1>10. TakenWasReceived'
  BY <1>5, <1>2 DEF IInv, TakenWasReceived, QueuedAfterTaken
<1>11. NoneForgotten'
  <2> SUFFICES ASSUME NEW i \in DOMAIN received, Passes(sub, received[i])
               PROVE  i \in TakenPositions' \/ \E a \in DOMAIN queue' : queue'[a] = i
    BY DEF NoneForgotten
  <2>1. i # 0
    BY DEF IInv, TypeOK
  <2>2. CASE i \in TakenPositions
    BY <2>1, <2>2, <1>6
  <2>3. CASE \E a \in DOMAIN queue : queue[a] = i
    <3>1. PICK a \in DOMAIN queue : queue[a] = i
      BY <2>3
    <3>2. CASE a = 1
      BY <3>1, <3>2, <1>7
    <3>3. CASE a # 1
      <4>1. a - 1 \in DOMAIN queue' /\ queue'[a - 1] = queue[a]
        BY <3>3, <1>1, <1>2
      <4> QED
        BY <4>1, <3>1
    <3> QED
      BY <3>2, <3>3
  <2> QED
    BY <2>2, <2>3 DEF IInv, NoneForgotten
<1> QED
  BY <1>4, <1>8, <1>9, <1>10, <1>11 DEF IInv

(* Submitting the newest message keeps the queue in order.                  *)
LEMMA SubmitKeepsIInv ==
  ASSUME IInv, NEW r \in Messages, ReceiveAndSubmit(r)
  PROVE  IInv'
<1> USE MaxMessagesIsNat DEF ReceiveAndSubmit, Submit
<1>1. /\ received \in Seq(Messages) /\ queue \in Seq(Positions)
      /\ Len(received) < MaxMessages /\ Len(received) \in Nat
  BY DEF IInv, TypeOK
<1>2. /\ received' \in Seq(Messages)
      /\ Len(received') = Len(received) + 1
      /\ DOMAIN received' = DOMAIN received \cup {Len(received) + 1}
      /\ \A i \in DOMAIN received : received'[i] = received[i]
      /\ \A i \in DOMAIN received : i \in Nat /\ i < Len(received) + 1
  BY <1>1
<1>3. /\ queue' \in Seq(Positions)
      /\ DOMAIN queue' = DOMAIN queue \cup {Len(queue) + 1}
      /\ \A a \in DOMAIN queue : queue'[a] = queue[a] /\ a \in Nat /\ a < Len(queue) + 1
      /\ queue'[Len(queue) + 1] = Len(received) + 1
      /\ Len(queue) \in Nat
  BY <1>1, <1>2 DEF Positions
<1>4. TakenPositions' = TakenPositions /\ GivenPositions' = GivenPositions
  BY DEF TakenPositions, GivenPositions
<1>5. TypeOK'
  BY <1>1, <1>2, <1>3, <1>4 DEF IInv, TypeOK
<1>6. \A a \in DOMAIN queue : queue[a] < Len(received) + 1
  BY <1>2 DEF IInv, QueuedAfterTaken
<1>7. QueueInOrder'
  BY <1>3, <1>6 DEF IInv, QueueInOrder
<1>8. \A j \in TakenPositions : j < Len(received) + 1
  BY <1>1, <1>2 DEF IInv, TakenWasReceived
<1>9. QueuedAfterTaken'
  BY <1>2, <1>3, <1>4, <1>8 DEF IInv, QueuedAfterTaken
<1>10. TakenWasReceived'
  BY <1>2, <1>4 DEF IInv, TakenWasReceived
<1>11. NoneForgotten'
  BY <1>2, <1>3, <1>4 DEF IInv, NoneForgotten
<1> QED
  BY <1>5, <1>7, <1>9, <1>10, <1>11 DEF IInv

(* A message dropped by the filter is none that is queued or taken.         *)
LEMMA DropKeepsIInv ==
  ASSUME IInv, NEW r \in Messages, ReceiveAndDrop(r)
  PROVE  IInv'
<1> USE MaxMessagesIsNat DEF ReceiveAndDrop
<1>1. /\ received \in Seq(Messages)
      /\ Len(received) < MaxMessages /\ Len(received) \in Nat
  BY DEF IInv, TypeOK
<1>2. /\ received' \in Seq(Messages)
      /\ Len(received') = Len(received) + 1
      /\ DOMAIN received' = DOMAIN received \cup {Len(received) + 1}
      /\ \A i \in DOMAIN received : received'[i] = received[i]
      /\ received'[Len(received) + 1] = r
  BY <1>1
<1>3. TakenPositions' = TakenPositions /\ GivenPositions' = GivenPositions
  BY DEF TakenPositions, GivenPositions
<1>4. TypeOK'
  BY <1>1, <1>2, <1>3 DEF IInv, TypeOK
<1>5. QueueInOrder' /\ QueuedAfterTaken' /\ TakenWasReceived'
  BY <1>2, <1>3 DEF IInv, QueueInOrder, QueuedAfterTaken, TakenWasReceived
<1>6. NoneForgotten'
  BY <1>2, <1>3 DEF IInv, NoneForgotten
<1> QED
  BY <1>4, <1>5, <1>6 DEF IInv

LEMMA FirstsOfUnion ==
  ASSUME NEW S, NEW i, NEW m
  PROVE  {g[1] : g \in S \cup {<<i, m>>}} = {g[1] : g \in S} \cup {i}
<1> DEFINE p == <<i, m>>
<1>1. p[1] = i
  OBVIOUS
<1> HIDE DEF p
<1>2. {g[1] : g \in S \cup {p}} = {g[1] : g \in S} \cup {i}
  BY <1>1
<1> QED
  BY <1>2 DEF p

(* Handling moves a position from the worker to what was given.             *)
LEMMA HandleKeepsIInv ==
  ASSUME IInv, NEW w \in Workers, Handle(w)
  PROVE  IInv'
<1> USE MaxMessagesIsNat DEF Handle, Finish
<1>1. GivenPositions' = GivenPositions \cup {work[w]}
  BY FirstsOfUnion DEF GivenPositions
<1>2. work \in [Workers -> Positions \cup {0}] /\ work[w] \in Positions
  BY DEF IInv, TypeOK
<1>3. TypeOK'
  BY <1>1, <1>2 DEF IInv, TypeOK
<1>4. /\ TakenPositions' \subseteq TakenPositions \cup {0}
      /\ TakenPositions \subseteq TakenPositions'
  BY <1>1, <1>2 DEF TakenPositions
<1>5. QueueInOrder' /\ TakenWasReceived'
  BY <1>4 DEF IInv, QueueInOrder, TakenWasReceived
<1>6. QueuedAfterTaken'
  <2>1. \A a \in DOMAIN queue : 0 < queue[a]
    BY DEF IInv, TypeOK, Positions
  <2> QED
    BY <2>1, <1>4 DEF IInv, QueuedAfterTaken
<1>7. NoneForgotten'
  BY <1>4 DEF IInv, NoneForgotten
<1> QED
  BY <1>3, <1>5, <1>6, <1>7 DEF IInv

LEMMA StutterKeepsIInv ==
  ASSUME IInv, UNCHANGED vars
  PROVE  IInv'
  BY DEF vars, IInv, TypeOK, QueueInOrder, QueuedAfterTaken, TakenWasReceived,
         NoneForgotten, TakenPositions, GivenPositions

LEMMA NextKeepsIInv == IInv /\ [Next]_vars => IInv'
  BY TakeKeepsIInv, SubmitKeepsIInv, DropKeepsIInv, HandleKeepsIInv,
     StutterKeepsIInv
  DEF Next

LEMMA NextKeepsDelivery ==
  ASSUME DeliveryIInv, [Next]_vars
  PROVE  SubmittedPass' /\ GivenIsHandled'
<1> USE MaxMessagesIsNat
<1>1. IInv /\ SubmittedPass /\ GivenIsHandled
  BY DEF DeliveryIInv
<1>2. /\ received \in Seq(Messages) /\ queue \in Seq(Positions)
      /\ work \in [Workers -> Positions \cup {0}] /\ Positions \subseteq Nat \ {0}
  BY <1>1 DEF IInv, TypeOK, Positions
<1>3. /\ \A a \in DOMAIN queue : queue[a] \in DOMAIN received
      /\ \A w \in Workers : work[w] # 0 => work[w] \in DOMAIN received
  BY <1>1, <1>2 DEF IInv, QueuedAfterTaken, TakenWasReceived, TakenPositions
<1>4. ASSUME NEW r \in Messages, received' = Append(received, r)
      PROVE  /\ \A i \in DOMAIN received : i \in DOMAIN received' /\ received'[i] = received[i]
             /\ Len(received') = Len(received) + 1 /\ received'[Len(received')] = r
  BY <1>2, <1>4
<1>5. ASSUME NEW r \in Messages, ReceiveAndSubmit(r)
      PROVE  SubmittedPass' /\ GivenIsHandled'
  <2>1. /\ received' = Append(received, r) /\ Passes(sub, r)
        /\ queue' = Append(queue, Len(received'))
        /\ UNCHANGED <<sub, work, given>>
    BY <1>5 DEF ReceiveAndSubmit, Submit
  <2>2. /\ \A i \in DOMAIN received : i \in DOMAIN received' /\ received'[i] = received[i]
        /\ received'[Len(received')] = r
    BY <1>4, <2>1
  <2>3. \A a \in DOMAIN queue' : \/ a \in DOMAIN queue /\ queue'[a] = queue[a]
                                 \/ queue'[a] = Len(received')
    BY <1>2, <2>1
  <2>4. SubmittedPass'
    BY <1>1, <1>3, <2>1, <2>2, <2>3 DEF SubmittedPass
  <2>5. GivenIsHandled'
    BY <1>1, <2>1, <2>2 DEF GivenIsHandled
  <2> QED  BY <2>4, <2>5
<1>6. ASSUME NEW r \in Messages, ReceiveAndDrop(r)
      PROVE  SubmittedPass' /\ GivenIsHandled'
  <2>1. received' = Append(received, r) /\ UNCHANGED <<sub, queue, work, given>>
    BY <1>6 DEF ReceiveAndDrop
  <2>2. \A i \in DOMAIN received : i \in DOMAIN received' /\ received'[i] = received[i]
    BY <1>4, <2>1
  <2> QED  BY <1>1, <1>3, <2>1, <2>2 DEF SubmittedPass, GivenIsHandled
<1>7. ASSUME NEW w \in Workers, Take(w)
      PROVE  SubmittedPass' /\ GivenIsHandled'
  <2>1. /\ work' = [work EXCEPT ![w] = queue[1]] /\ 1 \in DOMAIN queue
        /\ \A a \in DOMAIN queue' : a + 1 \in DOMAIN queue /\ queue'[a] = queue[a + 1]
        /\ UNCHANGED <<sub, received, given>>
    BY <1>2, <1>7 DEF Take
  <2> QED  BY <1>1, <1>2, <2>1 DEF SubmittedPass, GivenIsHandled
<1>8. ASSUME NEW w \in Workers, Handle(w)
      PROVE  SubmittedPass' /\ GivenIsHandled'
  <2>1. /\ work[w] # 0
        /\ given' = given \cup {<<work[w], Handled(sub, received[work[w]])>>}
        /\ work' = [work EXCEPT ![w] = 0]
        /\ UNCHANGED <<sub, received, queue>>
    BY <1>8 DEF Handle, Finish
  <2>2. SubmittedPass'
    BY <1>1, <1>2, <2>1 DEF SubmittedPass
  <2>3. work[w] \in DOMAIN received /\ Passes(sub, received[work[w]])
    BY <1>1, <1>3, <2>1 DEF SubmittedPass
  <2>4. GivenIsHandled'
    BY <1>1, <2>1, <2>3 DEF GivenIsHandled
  <2> QED  BY <2>2, <2>4
<1>9. CASE UNCHANGED vars
  BY <1>1, <1>9 DEF vars, SubmittedPass, GivenIsHandled
<1> QED  BY <1>5, <1>6, <1>7, <1>8, <1>9 DEF Next

LEMMA QueuedAreNumbers ==
  ASSUME TypeOK
  PROVE  \A a \in DOMAIN queue : queue[a] \in Nat /\ queue[a] # 0 /\ queue[a] \in Positions
<1>1. queue \in Seq(Positions)
  BY DEF TypeOK
<1>2. \A a \in DOMAIN queue : queue[a] \in Positions
  BY <1>1
<1> QED  BY <1>2, MaxMessagesIsNat DEF Positions

LEMMA NextKeepsTakenOnce ==
  ASSUME IInv, TakenOnce, [Next]_vars
  PROVE  TakenOnce'
<1>1. /\ work \in [Workers -> Positions \cup {0}]
      /\ queue \in Seq(Positions) /\ Positions \subseteq Nat \ {0}
      /\ \A a \in DOMAIN queue : queue[a] \in Nat
  BY MaxMessagesIsNat, QueuedAreNumbers DEF IInv, TypeOK, Positions
<1>2. CASE UNCHANGED <<work, given>>
  BY <1>2 DEF TakenOnce, GivenPositions
<1>3. ASSUME NEW w \in Workers, Take(w)
      PROVE  TakenOnce'
  <2>1. /\ work' = [work EXCEPT ![w] = queue[1]] /\ 1 \in DOMAIN queue
        /\ GivenPositions' = GivenPositions
    BY <1>1, <1>3 DEF Take, GivenPositions
  <2>2. queue[1] \in Nat
    BY <1>1, <2>1
  <2>3. \A j \in TakenPositions : j < queue[1]
    BY <2>1 DEF IInv, QueuedAfterTaken
  <2>4. queue[1] \notin TakenPositions
    BY <2>2, <2>3
  <2>5. queue[1] \notin GivenPositions /\ \A v \in Workers : work[v] # queue[1]
    BY <2>4 DEF TakenPositions
  <2> QED  BY <1>1, <2>1, <2>2, <2>5 DEF TakenOnce
<1>4. ASSUME NEW w \in Workers, Handle(w)
      PROVE  TakenOnce'
  <2>1. /\ work[w] # 0 /\ work' = [work EXCEPT ![w] = 0]
        /\ GivenPositions' = GivenPositions \cup {work[w]}
    BY <1>4, FirstsOfUnion DEF Handle, Finish, GivenPositions
  <2> QED  BY <1>1, <2>1 DEF TakenOnce
<1> QED
  BY <1>2, <1>3, <1>4 DEF Next, ReceiveAndSubmit, ReceiveAndDrop, vars

LEMMA DeliveryIInvAlways == Spec => []DeliveryIInv
<1>1. Init => DeliveryIInv
  <2>1. Init => SubmittedPass /\ GivenIsHandled /\ TakenOnce
    BY DEF Init, SubmittedPass, GivenIsHandled, TakenOnce
  <2> QED  BY <2>1, InitIInv DEF DeliveryIInv
<1>2. DeliveryIInv /\ [Next]_vars => DeliveryIInv'
  BY NextKeepsIInv, NextKeepsDelivery, NextKeepsTakenOnce DEF DeliveryIInv
<1> QED  BY <1>1, <1>2, PTL DEF Spec

LEMMA IInvMeansOvertakenRuns == IInv => OnlyRunningIsOvertaken
<1> SUFFICES ASSUME IInv,
                    NEW i \in DOMAIN received, NEW j \in DOMAIN received,
                    i < j, j \in GivenPositions, Passes(sub, received[i])
             PROVE  i \in GivenPositions \/ \E w \in Workers : work[w] = i
  BY DEF OnlyRunningIsOvertaken
<1>1. i \in Nat /\ j \in Nat
  BY DEF IInv, TypeOK
<1>2. ~ \E a \in DOMAIN queue : queue[a] = i
  BY <1>1 DEF IInv, QueuedAfterTaken, TakenPositions
<1>3. i \in TakenPositions
  BY <1>2 DEF IInv, NoneForgotten
<1> QED
  BY <1>3 DEF TakenPositions

-----------------------------------------------------------------------------

(* The delivery of messages to handlers is well typed: workers and queue   *)
(* only ever hold positions of received messages.                          *)
THEOREM DeliveryTypeCorrect == Spec => []TypeOK
<1>1. IInv => TypeOK
  BY DEF IInv
<1> QED
  BY <1>1, InitIInv, NextKeepsIInv, PTL DEF Spec

(* For any number of workers and messages: a handler that has run for a    *)
(* later message implies that the earlier one has run or is running.       *)
THEOREM OnlyRunningIsOvertakenAlways == Spec => []OnlyRunningIsOvertaken
  BY InitIInv, NextKeepsIInv, IInvMeansOvertakenRuns, PTL DEF Spec

-----------------------------------------------------------------------------
(* Filters and handlers.                                                    *)

(* The places of the matches under a scope, when some scopes are looked at. *)
Places(r, scopes, matches, scope) ==
  {k \in DOMAIN r.states[scope] : scope \in scopes /\ r.states[scope][k] \in matches}

(* What a refilled message has under each scope.                           *)
LEMMA RefilledSelects ==
  ASSUME NEW r \in Messages, NEW scopes, NEW matches, NEW scope \in DOMAIN r.states
  PROVE  /\ DOMAIN Refilled(r, scopes, matches).states = DOMAIN r.states
         /\ IsSelection(Refilled(r, scopes, matches).states[scope], r.states[scope],
                        Places(r, scopes, matches, scope))
<1> DEFINE list == r.states[scope]
           out == Refilled(r, scopes, matches).states
<1>1. out = [x \in DOMAIN r.states |->
               IF x \in scopes THEN Kept(r.states[x], matches) ELSE <<>>]
  BY MessagesTyped DEF Refilled
<1>2. list \in Seq(ToSet(list))
  BY MessagesTyped
<1>3. CASE scope \in scopes
  <2>1. IsSelection(Kept(list, matches), list, {k \in DOMAIN list : list[k] \in matches})
    BY <1>2, KeptSelects
  <2>2. {k \in DOMAIN list : list[k] \in matches} = Places(r, scopes, matches, scope)
    BY <1>3 DEF Places
  <2> QED  BY <1>1, <1>3, <2>1, <2>2
<1>4. CASE scope \notin scopes
  <2>1. Places(r, scopes, matches, scope) = {}
    BY <1>4 DEF Places
  <2> QED  BY <1>1, <1>4, <2>1, SelectNone
<1> QED  BY <1>3, <1>4

(* What DeliveredAsFiltered says of one message and its copy.              *)
AsFiltered(s, r, copy) ==
  /\ DOMAIN copy.states = DOMAIN r.states
  /\ \A scope \in DOMAIN r.states :
       IsSelection(copy.states[scope], r.states[scope], About(s, scope, r.states[scope]))
  /\ \E scope \in DOMAIN r.states : copy.states[scope] # <<>>

(* A handler that looks for what the subscription is about, in the scopes  *)
(* it can be in, and whose filter has found some of it.                    *)
LEMMA RefilledAsFiltered ==
  ASSUME NEW s, NEW r \in Messages, NEW scopes, NEW matches,
         matches \subseteq EntriesOf(r, scopes), matches # {},
         \A scope \in DOMAIN r.states : \A e \in ToSet(r.states[scope]) :
           IsAbout(s, scope, e) <=> scope \in scopes /\ e \in matches
  PROVE  AsFiltered(s, r, Refilled(r, scopes, matches))
<1> DEFINE copy == Refilled(r, scopes, matches)
<1>1. ASSUME NEW scope \in DOMAIN r.states
      PROVE  About(s, scope, r.states[scope]) = Places(r, scopes, matches, scope)
  BY DEF About, ToSet, Places
<1>2. ASSUME NEW scope \in DOMAIN r.states
      PROVE  /\ DOMAIN copy.states = DOMAIN r.states
             /\ IsSelection(copy.states[scope], r.states[scope], Places(r, scopes, matches, scope))
  BY RefilledSelects
<1>3. PICK scope \in DOMAIN r.states : Places(r, scopes, matches, scope) # {}
  <2>1. PICK e \in matches : e \in EntriesOf(r, scopes)
    OBVIOUS
  <2>2. PICK x \in scopes : e \in ToSet(Entries(r, x))
    BY <2>1 DEF EntriesOf
  <2>3. x \in DOMAIN r.states /\ e \in ToSet(r.states[x])
    <3>1. ToSet(<<>>) = {}
      BY DEF ToSet
    <3> QED  BY <2>2, <3>1 DEF Entries
  <2>4. PICK k \in DOMAIN r.states[x] : e = r.states[x][k]
    BY <2>3 DEF ToSet
  <2>5. k \in Places(r, scopes, matches, x)
    BY <2>2, <2>4 DEF Places
  <2> QED  BY <2>3, <2>5
<1>4. copy.states[scope] # <<>>
  <2>1. PICK p \in Places(r, scopes, matches, scope) : TRUE
    BY <1>3
  <2>2. IsSelection(copy.states[scope], r.states[scope], Places(r, scopes, matches, scope))
    BY <1>2
  <2> HIDE DEF copy
  <2>3. \E i \in DOMAIN copy.states[scope] : TRUE
    BY <2>1, <2>2 DEF IsSelection
  <2> QED  BY <2>3
<1> HIDE DEF copy
<1>5. AsFiltered(s, r, copy)
  BY <1>1, <1>2, <1>3, <1>4 DEF AsFiltered
<1> QED  BY <1>5 DEF copy

(* Each wrapper's handler keeps what its filter looks for.                 *)
LEMMA HandledAsFiltered ==
  ASSUME NEW s \in Subscriptions, NEW r \in Messages, Passes(s, r),
         s.by \notin {"height", "external"}
  PROVE  AsFiltered(s, r, Handled(s, r))
<1>1. ASSUME NEW scopes, NEW scope \in DOMAIN r.states, NEW e \in ToSet(r.states[scope]),
             scope \in scopes
      PROVE  e \in EntriesOf(r, scopes)
  BY <1>1 DEF EntriesOf, Entries
<1>2. DOMAIN r.states \subseteq AllScopes
  BY MessagesTyped
<1>3. CASE s.by = "dapp"
  <2> DEFINE matches == {e \in EntriesOf(r, AllScopes) : OfDapp(e, s.dapp)}
  <2>1. matches # {}
    BY <1>3 DEF Passes, dapp_filter
  <2>2. Handled(s, r) = Refilled(r, AllScopes, matches)
    BY <1>3 DEF Handled, default_dapp_state_handler
  <2>3. ASSUME NEW scope \in DOMAIN r.states, NEW e \in ToSet(r.states[scope])
        PROVE  IsAbout(s, scope, e) <=> scope \in AllScopes /\ e \in matches
    BY <1>1, <1>2, <1>3 DEF IsAbout, OfDapp
  <2>4. matches \subseteq EntriesOf(r, AllScopes)
    OBVIOUS
  <2> HIDE DEF matches
  <2> QED  BY <2>1, <2>2, <2>3, <2>4, RefilledAsFiltered
<1>4. CASE s.by = "contract"
  <2> DEFINE matches == {e \in EntriesOf(r, AllScopes) : OfContract(e, s.contract)}
  <2>1. matches # {}
    BY <1>4 DEF Passes, contract_filter
  <2>2. Handled(s, r) = Refilled(r, AllScopes, matches)
    BY <1>4 DEF Handled, default_contract_state_handler
  <2>3. ASSUME NEW scope \in DOMAIN r.states, NEW e \in ToSet(r.states[scope])
        PROVE  IsAbout(s, scope, e) <=> scope \in AllScopes /\ e \in matches
    BY <1>1, <1>2, <1>4, SubscriptionsTyped DEF IsAbout, OfContract
  <2>4. matches \subseteq EntriesOf(r, AllScopes)
    OBVIOUS
  <2> HIDE DEF matches
  <2> QED  BY <2>1, <2>2, <2>3, <2>4, RefilledAsFiltered
<1>5. CASE s.by = "key"
  <2> DEFINE matches == {e \in EntriesOf(r, KeyedScopes) : OfKey(e, s.key)}
  <2>1. matches # {}
    BY <1>5 DEF Passes, scopekey_filter
  <2>2. Handled(s, r) = Refilled(r, KeyedScopes, matches)
    BY <1>5 DEF Handled, default_scopekey_state_handler
  <2>3. ASSUME NEW scope \in DOMAIN r.states, NEW e \in ToSet(r.states[scope])
        PROVE  IsAbout(s, scope, e) <=> scope \in KeyedScopes /\ e \in matches
    BY <1>1, <1>5, SubscriptionsTyped DEF IsAbout, OfKey
  <2>4. matches \subseteq EntriesOf(r, KeyedScopes)
    OBVIOUS
  <2> HIDE DEF matches
  <2> QED  BY <2>1, <2>2, <2>3, <2>4, RefilledAsFiltered
<1>6. CASE s.by = "contract_key"
  <2> DEFINE matches == {e \in EntriesOf(r, KeyedScopes) :
                           OfKey(e, s.key) /\ OfContract(e, s.contract)}
  <2>1. matches # {}
    BY <1>6 DEF Passes, contract_and_scopekey_filter
  <2>2. Handled(s, r) = Refilled(r, KeyedScopes, matches)
    BY <1>6 DEF Handled, default_contract_scopekey_state_handler
  <2>3. ASSUME NEW scope \in DOMAIN r.states, NEW e \in ToSet(r.states[scope])
        PROVE  IsAbout(s, scope, e) <=> scope \in KeyedScopes /\ e \in matches
    BY <1>1, <1>6, SubscriptionsTyped DEF IsAbout, OfKey, OfContract
  <2>4. matches \subseteq EntriesOf(r, KeyedScopes)
    OBVIOUS
  <2> HIDE DEF matches
  <2> QED  BY <2>1, <2>2, <2>3, <2>4, RefilledAsFiltered
<1>7. CASE s.by = "contract_state"
  <2> DEFINE matches == {e \in EntriesOf(r, AllScopes) :
                           HoldsState(e, s.name) /\ OfContract(e, s.contract)}
  <2>1. matches # {}
    BY <1>7 DEF Passes, contract_and_statekey_filter
  <2>2. Handled(s, r) = Refilled(r, AllScopes, matches)
    BY <1>7 DEF Handled, default_contract_statekey_state_handler
  <2>3. ASSUME NEW scope \in DOMAIN r.states, NEW e \in ToSet(r.states[scope])
        PROVE  IsAbout(s, scope, e) <=> scope \in AllScopes /\ e \in matches
    BY <1>1, <1>2, <1>7, SubscriptionsTyped DEF IsAbout, HoldsState, OfContract
  <2>4. matches \subseteq EntriesOf(r, AllScopes)
    OBVIOUS
  <2> HIDE DEF matches
  <2> QED  BY <2>1, <2>2, <2>3, <2>4, RefilledAsFiltered
<1> QED  BY <1>3, <1>4, <1>5, <1>6, <1>7, SubscriptionsTyped

(* For lists of any length and any number of workers: the user's handler   *)
(* is called with the matching entries of one received message, all of     *)
(* them, in their order, and never with a message emptied of every entry.  *)
THEOREM DeliveredAsFilteredAlways == Spec => []DeliveredAsFiltered
<1>1. DeliveryIInv => DeliveredAsFiltered
  <2> SUFFICES ASSUME DeliveryIInv, NEW g \in given, sub.by \notin {"height", "external"}
               PROVE  AsFiltered(sub, received[g[1]], g[2])
    BY DEF DeliveredAsFiltered, AsFiltered
  <2>1. /\ g[1] \in DOMAIN received /\ received \in Seq(Messages) /\ sub \in Subscriptions
        /\ Passes(sub, received[g[1]]) /\ g[2] = Handled(sub, received[g[1]])
    BY DEF DeliveryIInv, IInv, TypeOK, GivenIsHandled
  <2>2. received[g[1]] \in Messages
    BY <2>1
  <2> QED  BY <2>1, <2>2, HandledAsFiltered
<1> QED  BY <1>1, DeliveryIInvAlways, PTL

-----------------------------------------------------------------------------
(* Queue and workers implement the abstract pool.                           *)

Waiting == ToSet(queue)
Running == {work[w] : w \in Workers} \ {0}

(* With an idle worker fewer handlers run than there are workers.           *)
LEMMA IdleMeansRoom ==
  ASSUME work \in [Workers -> Positions \cup {0}], NEW w \in Workers, work[w] = 0
  PROVE  Cardinality(Running) < Cardinality(Workers)
<1> DEFINE Busy == {v \in Workers : work[v] # 0}
           at == [v \in Busy |-> work[v]]
<1>1. IsFiniteSet(Workers \ {w}) /\ Cardinality(Workers \ {w}) = Cardinality(Workers) - 1
  BY WorkersAreFinite, FS_RemoveElement
<1>2. Busy \in SUBSET (Workers \ {w})
  OBVIOUS
<1>3. IsFiniteSet(Busy) /\ Cardinality(Busy) <= Cardinality(Workers) - 1
  BY <1>1, <1>2, FS_Subset
<1>4. at \in Surjection(Busy, Running)
  BY DEF Surjection, Running
<1>5. IsFiniteSet(Running) /\ Cardinality(Running) <= Cardinality(Busy)
  BY <1>3, <1>4, FS_Surjection
<1>6. /\ Cardinality(Running) \in Nat /\ Cardinality(Busy) \in Nat
      /\ Cardinality(Workers) \in Nat
  BY <1>3, <1>5, WorkersAreFinite, FS_CardinalityType
<1> QED  BY <1>3, <1>5, <1>6

LEMMA SameCardinality == \A S : Executor!Cardinality(S) = Cardinality(S)
  BY DEF Executor!Cardinality, Cardinality

LEMMA StepIsExecutors ==
  ASSUME DeliveryIInv, [Next]_vars
  PROVE  [Executor!Next]_(Executor!vars)
<1>1. /\ work \in [Workers -> Positions \cup {0}] /\ queue \in Seq(Positions)
      /\ received \in Seq(Messages) /\ Len(received) <= MaxMessages
      /\ Positions \subseteq Nat \ {0} /\ \A a \in DOMAIN queue : queue[a] \in Nat
      /\ IInv /\ TakenOnce
  BY MaxMessagesIsNat, QueuedAreNumbers DEF DeliveryIInv, IInv, TypeOK, Positions
<1>2. TakenPositions = Running \cup GivenPositions \cup (TakenPositions \cap {0})
  BY DEF TakenPositions, Running
<1>3. ASSUME NEW r \in Messages, ReceiveAndSubmit(r)
      PROVE  Executor!Next
  <2>0. PICK i : i = Len(received) + 1
    OBVIOUS
  <2>1. /\ queue' = Append(queue, i) /\ i \in Positions
        /\ UNCHANGED <<work, given>>
    BY <1>1, <1>3, <2>0, MaxMessagesIsNat DEF ReceiveAndSubmit, Submit, Positions
  <2>2. Waiting' = Waiting \cup {i} /\ Running' = Running /\ GivenPositions' = GivenPositions
    <3>1. /\ DOMAIN queue' = DOMAIN queue \cup {Len(queue) + 1}
          /\ \A a \in DOMAIN queue : queue'[a] = queue[a]
          /\ queue'[Len(queue) + 1] = i
      BY <1>1, <2>1
    <3> QED  BY <2>1, <3>1 DEF Waiting, ToSet, Running, GivenPositions
  <2>3. \A j \in Waiting \cup Running \cup GivenPositions : j < i
    <3>1. 0 < i /\ \A j \in DOMAIN received : j < i
      BY <1>1, <2>0
    <3>2. Waiting \subseteq DOMAIN received
      BY <1>1 DEF Waiting, ToSet, IInv, QueuedAfterTaken
    <3>3. Running \cup GivenPositions \subseteq DOMAIN received \cup {0}
      BY <1>1, <1>2 DEF IInv, TakenWasReceived
    <3> QED  BY <3>1, <3>2, <3>3
  <2>4. Executor!LetThrough(i)
    BY <2>2, <2>3 DEF Executor!LetThrough, Waiting, Running
  <2> QED  BY <2>1, <2>4 DEF Executor!Next
<1>4. ASSUME NEW r \in Messages, ReceiveAndDrop(r)
      PROVE  UNCHANGED Executor!vars
  BY <1>4 DEF ReceiveAndDrop, Executor!vars, ToSet, GivenPositions
<1>5. ASSUME NEW w \in Workers, Take(w)
      PROVE  Executor!Next
  <2>0. PICK i : i = queue[1]
    OBVIOUS
  <2>1. /\ work[w] = 0 /\ work' = [work EXCEPT ![w] = i]
        /\ i \in Positions /\ 1 \in DOMAIN queue
        /\ Len(queue') = Len(queue) - 1
        /\ \A a \in DOMAIN queue' : a + 1 \in DOMAIN queue /\ queue'[a] = queue[a + 1]
        /\ queue' \in Seq(Positions)
        /\ given' = given
    BY <1>1, <1>5, <2>0 DEF Take
  <2>2. /\ \A a \in DOMAIN queue : a \in Nat /\ (a # 1 => 1 < a /\ a - 1 \in DOMAIN queue')
        /\ \A a \in DOMAIN queue : a # 1 => queue[1] < queue[a]
    <3>1. \A a \in DOMAIN queue : a \in Nat /\ (a # 1 => 1 < a /\ a - 1 \in DOMAIN queue')
      BY <1>1, <2>1
    <3> QED  BY <1>1, <2>1, <3>1 DEF IInv, QueueInOrder
  <2>3. i \in Waiting /\ \A j \in Waiting : i <= j
    <3>1. i \in Nat /\ \A a \in DOMAIN queue : queue[a] \in Nat
      BY <1>1, <2>0, <2>1
    <3>2. \A a \in DOMAIN queue : i <= queue[a]
      BY <2>0, <2>2, <3>1
    <3> QED  BY <2>0, <2>1, <3>2 DEF Waiting, ToSet
  <2>4. Waiting' = Waiting \ {i}
    <3>1. ASSUME NEW a \in DOMAIN queue'
          PROVE  queue'[a] \in Waiting \ {i}
      <4>1. a + 1 \in DOMAIN queue /\ queue'[a] = queue[a + 1] /\ a + 1 # 1
        BY <2>1
      <4>2. queue[1] < queue[a + 1]
        BY <2>2, <4>1
      <4>3. queue[1] \in Nat /\ queue[a + 1] \in Nat
        BY <1>1, <2>1, <4>1
      <4> QED  BY <2>0, <4>1, <4>2, <4>3 DEF Waiting, ToSet
    <3>2. ASSUME NEW a \in DOMAIN queue, queue[a] # i
          PROVE  queue[a] \in Waiting'
      <4>1. a - 1 \in DOMAIN queue' /\ a \in Nat
        BY <2>0, <2>2, <3>2
      <4>2. queue'[a - 1] = queue[a]
        BY <2>1, <4>1
      <4> QED  BY <4>1, <4>2 DEF Waiting, ToSet
    <3> QED  BY <3>1, <3>2 DEF Waiting, ToSet
  <2>5. Running' = Running \cup {i} /\ GivenPositions' = GivenPositions
    BY <1>1, <2>1 DEF Running, GivenPositions
  <2>6. Cardinality(Running) < Cardinality(Workers)
    BY <1>1, <2>1, IdleMeansRoom
  <2>7. Executor!Begin(i)
    BY <2>3, <2>4, <2>5, <2>6, SameCardinality DEF Executor!Begin, Waiting, Running
  <2> QED  BY <2>1, <2>7 DEF Executor!Next
<1>6. ASSUME NEW w \in Workers, Handle(w)
      PROVE  Executor!Next
  <2>0. PICK i : i = work[w]
    OBVIOUS
  <2>1. /\ i # 0 /\ i \in Positions /\ work' = [work EXCEPT ![w] = 0]
        /\ queue' = queue
        /\ GivenPositions' = GivenPositions \cup {i}
    BY <1>1, <1>6, <2>0, FirstsOfUnion DEF Handle, Finish, GivenPositions
  <2>2. i \in Running /\ Running' = Running \ {i}
    BY <1>1, <2>0, <2>1 DEF Running, TakenOnce
  <2>3. Waiting' = Waiting
    BY <2>1 DEF Waiting, ToSet
  <2>4. Executor!End(i)
    BY <2>1, <2>2, <2>3 DEF Executor!End, Waiting, Running
  <2> QED  BY <2>1, <2>4 DEF Executor!Next
<1>7. CASE UNCHANGED vars
  BY <1>7 DEF vars, Executor!vars, ToSet, GivenPositions
<1> QED  BY <1>3, <1>4, <1>5, <1>6, <1>7 DEF Next

(* For any number of workers and messages and whatever handlers do: each   *)
(* message the filter lets through is handled at most once, the handlers   *)
(* begin in the order of reception, and no more run than there are workers.*)
THEOREM HandledOnceInOrderAlways == Spec => HandledOnceInOrder
<1>1. Init => Executor!Init
  <2> SUFFICES ASSUME Init PROVE Executor!Init
    OBVIOUS
  <2>1. queue = <<>> /\ given = {} /\ \A w \in Workers : work[w] = 0
    BY DEF Init
  <2>2. ToSet(queue) = {} /\ GivenPositions = {} /\ {work[w] : w \in Workers} \ {0} = {}
    BY <2>1 DEF ToSet, GivenPositions
  <2> QED  BY <2>2 DEF Executor!Init
<1>2. DeliveryIInv /\ [Next]_vars => [Executor!Next]_(Executor!vars)
  BY StepIsExecutors
<1> QED
  BY <1>1, <1>2, DeliveryIInvAlways, PTL DEF Spec, HandledOnceInOrder, Executor!Spec

=============================================================================
