-------------------------- MODULE RelayCalls_proofs ---------------------------
(***************************************************************************)
(* Proofs about the calls that walk and collect relay transactions, for    *)
(* every set of transactions, every outcome of their execution, every      *)
(* history of the node and every timeout.                                  *)
(*   First the lemmas they share, about RelayChain, RelayWalk and          *)
(* RelayCollect: what queues hold, what the closure of the root is, what   *)
(* the node's steps keep, and what one turn of a walk or of a collection   *)
(* does.                                                                    *)
(*   EventsCall: type correctness, that no event is invented, and that     *)
(* none is lost when the transaction was confirmed at the first read.      *)
(*   ConfirmWait: type correctness, that an answer True covers every       *)
(* relay, that a negative walk has a witness, and that the wait implements *)
(* AwaitCall.                                                               *)
(*   CreateDapp: that the verdict of a call that runs two such waits       *)
(* before three more traversals is exact, and that its second wait         *)
(* implements AwaitCall.                                                    *)
(***************************************************************************)
EXTENDS EventsCall, CreateDapp, TLAPS

(* What is queued by a walk: hashes without a group index.                 *)
Pure == [base : Txs \cup {Blank}, group : {NoGroup}]

-----------------------------------------------------------------------------
(* Queues and the hashes in them.                                           *)

(* Taking the head off a queue loses exactly its hash: q.get().            *)
LEMMA ItemsOfTail ==
  ASSUME NEW R, NEW q \in Seq(R), q # <<>>
  PROVE  /\ Head(q) \in R
         /\ Tail(q) \in Seq(R)
         /\ Items(q) = {Head(q).base} \cup Items(Tail(q))
<1>1. Head(q) \in R /\ Tail(q) \in Seq(R)
  OBVIOUS
<1>2. /\ Len(q) \in Nat \ {0} /\ DOMAIN q = 1 .. Len(q) /\ Head(q) = q[1]
      /\ DOMAIN Tail(q) = 1 .. Len(q) - 1
  OBVIOUS
<1>3. \A i \in 1 .. Len(q) - 1 : Tail(q)[i] = q[i + 1]
  OBVIOUS
<1>4. Items(q) \subseteq {Head(q).base} \cup Items(Tail(q))
  <2> SUFFICES ASSUME NEW i \in 1 .. Len(q), i # 1
               PROVE  q[i].base \in Items(Tail(q))
    BY <1>2 DEF Items
  <2>1. i - 1 \in 1 .. Len(q) - 1 /\ q[i] = Tail(q)[i - 1]
    BY <1>2, <1>3
  <2> QED  BY <1>1, <1>2, <2>1 DEF Items
<1>5. {Head(q).base} \cup Items(Tail(q)) \subseteq Items(q)
  <2>1. 1 \in DOMAIN q /\ Head(q).base \in Items(q)
    BY <1>2 DEF Items
  <2>2. ASSUME NEW i \in 1 .. Len(q) - 1
        PROVE  Tail(q)[i].base \in Items(q)
    <3>1. i + 1 \in DOMAIN q /\ Tail(q)[i] = q[i + 1]
      BY <1>2, <1>3
    <3> QED  BY <3>1 DEF Items
  <2> QED  BY <1>1, <1>2, <2>1, <2>2 DEF Items
<1> QED  BY <1>1, <1>4, <1>5

(* Queueing the relays of a transaction adds exactly their hashes: q.put.  *)
LEMMA ItemsOfConcat ==
  ASSUME NEW p \in Seq(Pure), NEW q \in Seq(Pure)
  PROVE  p \o q \in Seq(Pure) /\ Items(p \o q) = Items(p) \cup Items(q)
<1>1. /\ p \o q \in Seq(Pure)
      /\ DOMAIN (p \o q) = 1 .. Len(p) + Len(q)
      /\ DOMAIN p = 1 .. Len(p) /\ DOMAIN q = 1 .. Len(q)
      /\ Len(p) \in Nat /\ Len(q) \in Nat
  OBVIOUS
<1>2. \A i \in 1 .. Len(p) : (p \o q)[i] = p[i]
  OBVIOUS
<1>3. \A i \in 1 .. Len(q) : (p \o q)[Len(p) + i] = q[i]
  OBVIOUS
<1>4. ASSUME NEW i \in 1 .. Len(p) + Len(q)
      PROVE  (p \o q)[i].base \in Items(p) \cup Items(q)
  <2>1. CASE i \in 1 .. Len(p)
    BY <1>2, <2>1 DEF Items
  <2>2. CASE i \notin 1 .. Len(p)
    <3>1. i - Len(p) \in 1 .. Len(q) /\ i = Len(p) + (i - Len(p))
      BY <2>2
    <3> QED  BY <1>3, <3>1 DEF Items
  <2> QED  BY <2>1, <2>2
<1>5. ASSUME NEW i \in 1 .. Len(p)
      PROVE  p[i].base \in Items(p \o q)
  <2>1. i \in DOMAIN (p \o q)
    BY <1>1
  <2> QED  BY <1>2, <2>1 DEF Items
<1>6. ASSUME NEW i \in 1 .. Len(q)
      PROVE  q[i].base \in Items(p \o q)
  <2>1. Len(p) + i \in DOMAIN (p \o q)
    BY <1>1
  <2> QED  BY <1>3, <2>1 DEF Items
<1>7. Items(p \o q) \subseteq Items(p) \cup Items(q)
  BY <1>1, <1>4 DEF Items
<1>8. Items(p) \cup Items(q) \subseteq Items(p \o q)
  BY <1>1, <1>5, <1>6 DEF Items
<1> QED  BY <1>1, <1>7, <1>8

(* Normalising relay hashes drops their group index and keeps their hash.  *)
LEMMA ItemsOfNormalized ==
  ASSUME NEW tx \in TxView
  PROVE  /\ NormalizedRelays(tx) \in Seq(Pure)
         /\ Items(NormalizedRelays(tx)) = Items(tx.relays)
<1> DEFINE n == NormalizedRelays(tx)
<1>1. tx.relays \in Seq(Ref) /\ DOMAIN n = 1 .. Len(tx.relays)
  BY DEF TxView, NormalizedRelays
<1>2. ASSUME NEW i \in 1 .. Len(tx.relays)
      PROVE  n[i] \in Pure /\ n[i].base = tx.relays[i].base
  <2>1. tx.relays[i] \in Ref
    BY <1>1
  <2> QED  BY <2>1, <1>1 DEF Ref, Pure, NormalizedRelays, NormalizeRelayHash
<1>3. n \in Seq(Pure)
  <2>1. n \in [1 .. Len(tx.relays) -> Pure]
    BY <1>1, <1>2 DEF NormalizedRelays
  <2> QED  BY <1>1, <2>1
<1> QED  BY <1>1, <1>2, <1>3 DEF Items

-----------------------------------------------------------------------------
(* The closure of the root.                                                 *)

(* The closure contains the root, and with a transaction all its relays.   *)
LEMMA ClosureIsClosed ==
  /\ Root \in Closure
  /\ \A t \in Closure, u \in Txs : u \in EmittedBy(t) => u \in Closure
<1>1. Root \in Closure
  BY RootIsTx DEF Closure
<1>2. ASSUME NEW t \in Closure, NEW u \in Txs, u \in EmittedBy(t)
      PROVE  u \in Closure
  <2> SUFFICES ASSUME NEW S \in SUBSET Txs, Root \in S, RelayClosed(S)
               PROVE  u \in S
    BY DEF Closure
  <2>1. t \in S
    BY DEF Closure
  <2> QED  BY <1>2, <2>1 DEF RelayClosed
<1> QED  BY <1>1, <1>2

(* Any relay-closed set of transactions with the root in it covers it.     *)
LEMMA ClosureIsLeast ==
  ASSUME NEW S \in SUBSET Txs, Root \in S, RelayClosed(S)
  PROVE  Closure \subseteq S
BY DEF Closure

(* A step that takes no relay away takes nothing out of the closure.       *)
LEMMA ClosureGrows ==
  ASSUME \A t \in Txs : EmittedBy(t) \subseteq EmittedBy(t)'
  PROVE  Closure \subseteq Closure'
<1> SUFFICES ASSUME NEW t \in Closure, NEW S \in SUBSET Txs,
                    Root \in S, RelayClosed(S)'
             PROVE  t \in S
  BY DEF Closure
<1>1. RelayClosed(S)
  BY DEF RelayClosed
<1> QED  BY <1>1 DEF Closure

(* Only what is confirmed has relays.                                       *)
NoRelaysUnlessConfirmed ==
  \A t \in Txs : chain[t].state \notin ConfirmedStates => chain[t].relays = <<>>

(* A step that leaves the chain alone leaves the closure alone.            *)
LEMMA ClosureSame ==
  ASSUME chain' = chain
  PROVE  /\ Closure' = Closure
         /\ \A t : EmittedBy(t)' = EmittedBy(t)
         /\ NoRelaysUnlessConfirmed' = NoRelaysUnlessConfirmed
BY DEF Closure, RelayClosed, EmittedBy, NoRelaysUnlessConfirmed

-----------------------------------------------------------------------------
(* What the node's steps keep.                                              *)

ChainTyped ==
  /\ chain \in [Txs -> TxView]
  /\ \A t \in Txs : Items(chain[t].relays) \subseteq Txs

(* A pending view is a view without relays.                                *)
LEMMA PendingTyped ==
  ASSUME NEW s \in TxnConfirmState \cup {"UNKNOWN"}
  PROVE  /\ Pending(s) \in TxView
         /\ Pending(s).state = s
         /\ Pending(s).relays = <<>>
         /\ Items(Pending(s).relays) = {}
<1>1. <<>> \in Seq(Ref) /\ DOMAIN <<>> = {}
  OBVIOUS
<1> QED  BY <1>1 DEF Pending, TxView, Items

(* Replacing one view by another well-formed one keeps the chain's type.   *)
LEMMA ReplaceTyped ==
  ASSUME ChainTyped, NoRelaysUnlessConfirmed, NEW t \in Txs, NEW v \in TxView,
         Items(v.relays) \subseteq Txs,
         v.state \notin ConfirmedStates => v.relays = <<>>,
         chain' = [chain EXCEPT ![t] = v]
  PROVE  ChainTyped' /\ NoRelaysUnlessConfirmed'
<1>1. \A u \in Txs : chain'[u] = IF u = t THEN v ELSE chain[u]
  BY DEF ChainTyped
<1>2. chain' \in [Txs -> TxView]
  BY DEF ChainTyped
<1>3. \A u \in Txs : Items(chain'[u].relays) \subseteq Txs
  BY <1>1 DEF ChainTyped
<1>4. NoRelaysUnlessConfirmed'
  BY <1>1 DEF NoRelaysUnlessConfirmed
<1> QED  BY <1>2, <1>3, <1>4 DEF ChainTyped

(* The view that executing a transaction gives it.                         *)
LEMMA OutcomeTyped ==
  ASSUME NEW t \in Txs, NEW o \in Outcomes[t]
  PROVE  LET v == [state |-> "TXN_CONFIRMED", ok |-> o.ok, relays |-> o.relays]
         IN  v \in TxView /\ Items(v.relays) \subseteq Txs
<1> DEFINE R == [base : Txs, group : Groups \cup {NoGroup}]
<1>1. o \in [ok : BOOLEAN, relays : Seq(R)]
  BY OutcomesTyped
<1>2. o.relays \in Seq(R) /\ o.ok \in BOOLEAN
  BY <1>1
<1>3. \A i \in DOMAIN o.relays : o.relays[i] \in R
  <2> HIDE DEF R
  <2> QED  BY <1>2
<1>4. R \subseteq Ref
  BY DEF Ref
<1>5. o.relays \in Seq(Ref)
  <2> HIDE DEF R
  <2>1. o.relays \in [1 .. Len(o.relays) -> Ref] /\ Len(o.relays) \in Nat
    BY <1>2, <1>3, <1>4
  <2> QED  BY <2>1
<1>6. Items(o.relays) \subseteq Txs
  BY <1>3 DEF Items
<1> QED  BY <1>2, <1>5, <1>6 DEF TxView, TxnConfirmState, ConfirmedStates

(* Every step of the node keeps the chain's type.                          *)
LEMMA NodeKeepsType ==
  ASSUME ChainTyped, NoRelaysUnlessConfirmed, Progress \/ Reorg
  PROVE  ChainTyped' /\ NoRelaysUnlessConfirmed'
<1>1. ASSUME NEW t \in Txs,
             NEW s \in (TxnConfirmState \ ConfirmedStates) \cup {"UNKNOWN"},
             chain' = [chain EXCEPT ![t] = Pending(s)]
      PROVE  ChainTyped' /\ NoRelaysUnlessConfirmed'
  BY <1>1, PendingTyped, ReplaceTyped, {} \subseteq Txs
<1>2. ASSUME NEW t \in Txs, Execute(t)
      PROVE  ChainTyped' /\ NoRelaysUnlessConfirmed'
  <2>1. PICK o \in Outcomes[t] :
          chain' = [chain EXCEPT ![t] =
                     [state |-> "TXN_CONFIRMED", ok |-> o.ok, relays |-> o.relays]]
    BY <1>2 DEF Execute
  <2>2. [state |-> "TXN_CONFIRMED", ok |-> o.ok, relays |-> o.relays].state
          \in ConfirmedStates
    BY DEF ConfirmedStates
  <2> QED  BY <2>1, <2>2, OutcomeTyped, ReplaceTyped
<1>3. ASSUME NEW t \in Txs, NEW s \in ConfirmedStates,
             chain[t].state \in ConfirmedStates,
             chain' = [chain EXCEPT ![t].state = s]
      PROVE  ChainTyped' /\ NoRelaysUnlessConfirmed'
  <2> DEFINE v == [chain[t] EXCEPT !.state = s]
  <2>1. v \in TxView /\ v.state = s /\ v.relays = chain[t].relays
    BY DEF ChainTyped, TxView, TxnConfirmState
  <2>2. Items(v.relays) \subseteq Txs
    BY <2>1 DEF ChainTyped
  <2>3. chain' = [chain EXCEPT ![t] = v]
    BY <1>3
  <2> QED  BY <2>1, <2>2, <2>3, ReplaceTyped
<1>4. ASSUME NEW t \in Txs, Arrive(t)
      PROVE  ChainTyped' /\ NoRelaysUnlessConfirmed'
  BY <1>1, <1>4 DEF Arrive, TxnConfirmState, ConfirmedStates
<1>5. ASSUME NEW t \in Txs, Finalize(t)
      PROVE  ChainTyped' /\ NoRelaysUnlessConfirmed'
  BY <1>3, <1>5 DEF Finalize, ConfirmedStates
<1>6. ASSUME NEW t \in Txs, Archive(t)
      PROVE  ChainTyped' /\ NoRelaysUnlessConfirmed'
  BY <1>3, <1>6 DEF Archive, ConfirmedStates
<1>7. CASE GiveUp
  BY <1>1, <1>7, RootIsTx DEF GiveUp, TxnConfirmState, ConfirmedStates
<1>8. ASSUME NEW t \in Txs, Fork(t)
      PROVE  ChainTyped' /\ NoRelaysUnlessConfirmed'
  BY <1>1, <1>8 DEF Fork, TxnConfirmState, ConfirmedStates
<1>9. ASSUME NEW t \in Txs, Invalidate(t)
      PROVE  ChainTyped' /\ NoRelaysUnlessConfirmed'
  BY <1>1, <1>9 DEF Invalidate, TxnConfirmState, ConfirmedStates
<1> QED  BY <1>2, <1>4, <1>5, <1>6, <1>7, <1>8, <1>9 DEF Progress, Reorg

(* Without a reorganisation what is confirmed stays so with its relays,    *)
(* and no relay that was emitted is taken back.                            *)
LEMMA ProgressKeeps ==
  ASSUME ChainTyped, NoRelaysUnlessConfirmed, Progress
  PROVE  \A u \in Txs :
           /\ chain[u].state \in ConfirmedStates =>
                 /\ chain'[u].state \in ConfirmedStates
                 /\ EmittedBy(u)' = EmittedBy(u)
                 /\ chain'[u].ok = chain[u].ok
           /\ EmittedBy(u) \subseteq EmittedBy(u)'
<1> DEFINE Kept(u) == \/ chain[u].state \notin ConfirmedStates
                      \/ /\ chain'[u].state \in ConfirmedStates
                         /\ chain'[u].relays = chain[u].relays
                         /\ chain'[u].ok = chain[u].ok
<1>1. ASSUME NEW u \in Txs, Kept(u)
      PROVE  /\ chain[u].state \in ConfirmedStates =>
                   /\ chain'[u].state \in ConfirmedStates
                   /\ EmittedBy(u)' = EmittedBy(u)
                   /\ chain'[u].ok = chain[u].ok
             /\ EmittedBy(u) \subseteq EmittedBy(u)'
  BY <1>1 DEF EmittedBy, NoRelaysUnlessConfirmed
<1> SUFFICES ASSUME NEW u \in Txs PROVE Kept(u)
  BY <1>1
<1>2. ASSUME NEW t \in Txs, NEW v, chain' = [chain EXCEPT ![t] = v],
             chain[t].state \notin ConfirmedStates
      PROVE  Kept(u)
  BY <1>2 DEF ChainTyped
<1>3. ASSUME NEW t \in Txs, NEW s \in ConfirmedStates,
             chain' = [chain EXCEPT ![t].state = s]
      PROVE  Kept(u)
  BY <1>3 DEF ChainTyped, TxView
<1>4. ASSUME NEW t \in Txs, Arrive(t) \/ Execute(t)
      PROVE  Kept(u)
  BY <1>2, <1>4 DEF Arrive, Execute, ConfirmedStates
<1>5. ASSUME NEW t \in Txs, Finalize(t) \/ Archive(t)
      PROVE  Kept(u)
  BY <1>3, <1>5 DEF Finalize, Archive, ConfirmedStates
<1>6. ASSUME GiveUp
      PROVE  Kept(u)
  BY <1>2, <1>6, RootIsTx DEF GiveUp, ConfirmedStates
<1> QED  BY <1>4, <1>5, <1>6 DEF Progress

(* All that the root leads to is confirmed.                                *)
ClosureConfirmed == \A t \in Closure : chain[t].state \in ConfirmedStates

(* What is entirely confirmed is so, and leads to nothing more, until a    *)
(* reorganisation: confirmed transactions emit nothing further and keep    *)
(* their outcome.                                                           *)
LEMMA ConfirmedClosureStays ==
  ASSUME ChainTyped, NoRelaysUnlessConfirmed, Progress, ClosureConfirmed
  PROVE  /\ ClosureConfirmed' /\ Closure' = Closure
         /\ \A t \in Closure : /\ EmittedBy(t)' = EmittedBy(t)
                               /\ chain'[t].ok = chain[t].ok
<1>1. ChainTyped' /\ \A u \in Txs : EmittedBy(u) \subseteq EmittedBy(u)'
  BY NodeKeepsType, ProgressKeeps
<1>2. \A t \in Closure : /\ t \in Txs
                         /\ chain'[t].state \in ConfirmedStates
                         /\ EmittedBy(t)' = EmittedBy(t)
                         /\ chain'[t].ok = chain[t].ok
  BY ProgressKeeps DEF ClosureConfirmed, Closure
<1>3. \A t \in Closure : EmittedBy(t)' \subseteq Closure
  <2> SUFFICES ASSUME NEW t \in Closure, NEW u \in EmittedBy(t)
               PROVE  u \in Closure
    BY <1>2
  <2>1. u \in Txs
    BY <1>2 DEF ChainTyped, EmittedBy, Items
  <2> QED  BY <2>1, ClosureIsClosed
<1>4. Closure' \subseteq Closure
  <2> DEFINE C == Closure
  <2>1. C \in SUBSET Txs /\ Root \in C /\ \A t \in C : EmittedBy(t)' \subseteq C
    BY <1>3, ClosureIsClosed DEF Closure
  <2> SUFFICES ASSUME NEW t \in Closure' PROVE t \in C
    OBVIOUS
  <2> HIDE DEF C
  <2> QED  BY <2>1 DEF Closure, RelayClosed
<1>5. Closure \subseteq Closure'
  BY <1>1, ClosureGrows
<1> QED  BY <1>2, <1>4, <1>5 DEF ClosureConfirmed

(* What the head of the queue answers, once it is found confirmed.         *)
LEMMA ConfirmedHead ==
  ASSUME NEW h \in Pure, is_tx_confirmed(get_transaction(h))
  PROVE  h.base \in Txs /\ get_transaction(h) = chain[h.base]
BY DEF Pure, is_tx_confirmed, get_transaction, Answer, Pending, ConfirmedStates

-----------------------------------------------------------------------------
(* One turn of a walk.                                                      *)

(* The hash h and every relay of what was accepted is accepted or queued.  *)
Accounted(h) ==
  /\ h \in seen \cup Items(todo)
  /\ \A t \in seen : /\ chain[t].state \in ConfirmedStates
                     /\ EmittedBy(t) \subseteq seen \cup Items(todo)

WalkTyped == todo \in Seq(Pure) /\ seen \subseteq Txs

(* A walk that begins has accounted for nothing and calls for its first     *)
(* hash.                                                                    *)
LEMMA StartAccounts ==
  ASSUME NEW h \in Txs \cup {Blank}, StartWalk(h)
  PROVE  /\ WalkTyped' /\ Accounted(h)' /\ calm'
         /\ seen' = {} /\ Items(todo)' = {h}
<1> DEFINE r == [base |-> h, group |-> NoGroup]
<1>1. todo' = <<r>> /\ seen' = {} /\ calm' = TRUE /\ r \in Pure /\ r.base = h
  BY DEF StartWalk, Pure
<1>2. todo' \in Seq(Pure) /\ Items(todo)' = {h}
  <2> HIDE DEF r
  <2>1. <<r>> \in Seq(Pure) /\ DOMAIN <<r>> = {1} /\ <<r>>[1] = r
    BY <1>1
  <2> QED  BY <1>1, <2>1 DEF Items
<1> QED  BY <1>1, <1>2 DEF Accounted, WalkTyped

(* The hash read moves from the queue to the accepted ones, and the relays *)
(* of its transaction take its place.                                       *)
LEMMA AcceptMoves ==
  ASSUME ChainTyped, WalkTyped, NEW b, AcceptRead(b), Head(todo).base \in Txs
  PROVE  /\ WalkTyped'
         /\ Head(todo).base \in Items(todo)
         /\ cur_tx = chain[Head(todo).base]
         /\ seen' = seen \cup {Head(todo).base}
         /\ Items(todo) = {Head(todo).base} \cup Items(Tail(todo))
         /\ Items(todo)' = Items(Tail(todo)) \cup EmittedBy(Head(todo).base)
<1> DEFINE h == Head(todo)
           tx == get_transaction(h)
<1>1. /\ todo # <<>>
      /\ todo' = Tail(todo) \o NormalizedRelays(tx)
      /\ seen' = seen \cup {h.base}
  BY DEF AcceptRead, cur_tx
<1>2. /\ h \in Pure /\ Tail(todo) \in Seq(Pure)
      /\ Items(todo) = {h.base} \cup Items(Tail(todo))
  BY <1>1, ItemsOfTail DEF WalkTyped
<1>3. h.base \in Txs /\ tx = chain[h.base]
  BY <1>2 DEF Pure, get_transaction, Answer
<1>4. tx \in TxView /\ Items(tx.relays) = EmittedBy(h.base)
  BY <1>1, <1>3 DEF ChainTyped, Items, EmittedBy
<1>5. todo' \in Seq(Pure) /\ Items(todo)' = Items(Tail(todo)) \cup EmittedBy(h.base)
  <2>1. NormalizedRelays(tx) \in Seq(Pure)
        /\ Items(NormalizedRelays(tx)) = EmittedBy(h.base)
    BY <1>4, ItemsOfNormalized
  <2>2. Items(todo') = Items(Tail(todo)) \cup Items(NormalizedRelays(tx))
        /\ todo' \in Seq(Pure)
    BY <1>1, <1>2, <2>1, ItemsOfConcat
  <2> QED  BY <2>1, <2>2 DEF Items
<1> QED  BY <1>1, <1>2, <1>3, <1>5 DEF WalkTyped, cur_tx

(* A walk for confirmations accounts for what it accepts.                  *)
LEMMA AcceptAccounts ==
  ASSUME ChainTyped, WalkTyped, AcceptRead(is_tx_confirmed(cur_tx)), chain' = chain
  PROVE  WalkTyped' /\ \A x : Accounted(x) => Accounted(x)'
<1> DEFINE h == Head(todo)
<1>1. todo # <<>> /\ is_tx_confirmed(cur_tx)
  BY DEF AcceptRead
<1>2. h \in Pure
  BY <1>1, ItemsOfTail DEF WalkTyped
<1>3. h.base \in Txs
  BY <1>1, <1>2, ConfirmedHead DEF cur_tx
<1>4. /\ WalkTyped' /\ cur_tx = chain[h.base] /\ seen' = seen \cup {h.base}
      /\ Items(todo) = {h.base} \cup Items(Tail(todo))
      /\ Items(todo)' = Items(Tail(todo)) \cup EmittedBy(h.base)
  BY <1>3, AcceptMoves
<1>5. chain[h.base].state \in ConfirmedStates
  BY <1>1, <1>4 DEF is_tx_confirmed
<1>6. \A t : EmittedBy(t)' = EmittedBy(t)
  BY ClosureSame
<1>7. ASSUME NEW x, Accounted(x)
      PROVE  Accounted(x)'
  BY <1>4, <1>5, <1>6, <1>7 DEF Accounted
<1> QED  BY <1>4, <1>7

(* A walk whose queue is empty has accepted everything h leads to.         *)
LEMMA WalkedIsWhole ==
  ASSUME WalkTyped, NEW h, Accounted(h), todo = <<>>
  PROVE  h \in Txs /\ (h = Root => ClosureConfirmed)
<1>1. Items(todo) = {}
  BY DEF Items
<1>2. h \in seen /\ seen \in SUBSET Txs /\ RelayClosed(seen)
      /\ \A t \in seen : chain[t].state \in ConfirmedStates
  BY <1>1 DEF Accounted, WalkTyped, RelayClosed
<1>3. h = Root => Closure \subseteq seen
  BY <1>2, ClosureIsLeast
<1> QED  BY <1>2, <1>3 DEF ClosureConfirmed

(* The node's progress keeps what a walk has accounted for.                *)
LEMMA ProgressAccounts ==
  ASSUME ChainTyped, NoRelaysUnlessConfirmed, WalkTyped, Progress,
         UNCHANGED <<todo, seen>>
  PROVE  \A x : Accounted(x) => Accounted(x)'
<1>1. \A u \in Txs : chain[u].state \in ConfirmedStates =>
        chain'[u].state \in ConfirmedStates /\ EmittedBy(u)' = EmittedBy(u)
  BY ProgressKeeps
<1>2. Items(todo)' = Items(todo)
  BY DEF Items
<1> QED  BY <1>1, <1>2 DEF Accounted, WalkTyped

-----------------------------------------------------------------------------
(* The data of a collection.                                                *)

(* The hashes of the relays in a queue of lists of relays.                 *)
Loaded(q) == UNION {Items(q[i]) : i \in DOMAIN q}

(* Taking a list off the queue moves its hashes out of the queue.          *)
LEMMA LoadedOfTail ==
  ASSUME NEW q \in Seq(Seq(Ref)), q # <<>>
  PROVE  /\ Head(q) \in Seq(Ref)
         /\ Tail(q) \in Seq(Seq(Ref))
         /\ Loaded(q) = Items(Head(q)) \cup Loaded(Tail(q))
<1> DEFINE R == Seq(Ref)
<1>1. q \in Seq(R)
  OBVIOUS
<1> HIDE DEF R
<1>2. Head(q) \in R /\ Tail(q) \in Seq(R)
  BY <1>1
<1>3. /\ Len(q) \in Nat \ {0} /\ DOMAIN q = 1 .. Len(q) /\ Head(q) = q[1]
      /\ DOMAIN Tail(q) = 1 .. Len(q) - 1
  BY <1>1
<1>4. \A i \in 1 .. Len(q) - 1 : Tail(q)[i] = q[i + 1]
  BY <1>1
<1>5. ASSUME NEW i \in DOMAIN q, NEW x \in Items(q[i])
      PROVE  x \in Items(Head(q)) \cup Loaded(Tail(q))
  <2>1. CASE i = 1
    BY <1>3, <1>5, <2>1
  <2>2. CASE i # 1
    <3>1. i - 1 \in DOMAIN Tail(q) /\ q[i] = Tail(q)[i - 1]
      BY <1>3, <1>4, <2>2
    <3> QED  BY <1>5, <3>1 DEF Loaded
  <2> QED  BY <2>1, <2>2
<1>6. Items(Head(q)) \subseteq Loaded(q)
  <2>1. 1 \in DOMAIN q
    BY <1>3
  <2> QED  BY <1>3, <2>1 DEF Loaded
<1>7. ASSUME NEW i \in DOMAIN Tail(q), NEW x \in Items(Tail(q)[i])
      PROVE  x \in Loaded(q)
  <2>1. i + 1 \in DOMAIN q /\ Tail(q)[i] = q[i + 1]
    BY <1>3, <1>4
  <2> QED  BY <1>7, <2>1 DEF Loaded
<1>8. Loaded(q) \subseteq Items(Head(q)) \cup Loaded(Tail(q))
  BY <1>5 DEF Loaded
<1>9. Loaded(Tail(q)) \subseteq Loaded(q)
  BY <1>7 DEF Loaded
<1> QED  BY <1>2, <1>6, <1>8, <1>9 DEF R

(* Queueing a list of relays adds its hashes.                              *)
LEMMA LoadedOfAppend ==
  ASSUME NEW q \in Seq(Seq(Ref)), NEW s \in Seq(Ref)
  PROVE  /\ Append(q, s) \in Seq(Seq(Ref))
         /\ Loaded(Append(q, s)) = Loaded(q) \cup Items(s)
<1> DEFINE R == Seq(Ref)
<1>1. q \in Seq(R) /\ s \in R
  OBVIOUS
<1> HIDE DEF R
<1>2. /\ Append(q, s) \in Seq(R)
      /\ Len(q) \in Nat /\ DOMAIN q = 1 .. Len(q)
      /\ DOMAIN Append(q, s) = 1 .. Len(q) + 1
      /\ Append(q, s)[Len(q) + 1] = s
  BY <1>1
<1>3. \A i \in 1 .. Len(q) : Append(q, s)[i] = q[i]
  BY <1>1
<1>4. ASSUME NEW i \in DOMAIN Append(q, s), NEW x \in Items(Append(q, s)[i])
      PROVE  x \in Loaded(q) \cup Items(s)
  <2>1. CASE i = Len(q) + 1
    BY <1>2, <1>4, <2>1
  <2>2. CASE i \in 1 .. Len(q)
    BY <1>2, <1>3, <1>4, <2>2 DEF Loaded
  <2> QED  BY <1>2, <2>1, <2>2
<1>5. ASSUME NEW i \in DOMAIN q, NEW x \in Items(q[i])
      PROVE  x \in Loaded(Append(q, s))
  <2>1. i \in DOMAIN Append(q, s) /\ Append(q, s)[i] = q[i]
    BY <1>2, <1>3
  <2> QED  BY <1>5, <2>1 DEF Loaded
<1>6. Items(s) \subseteq Loaded(Append(q, s))
  <2>1. Len(q) + 1 \in DOMAIN Append(q, s)
    BY <1>2
  <2> QED  BY <1>2, <2>1 DEF Loaded
<1>7. Loaded(Append(q, s)) \subseteq Loaded(q) \cup Items(s)
  BY <1>4 DEF Loaded
<1>8. Loaded(q) \subseteq Loaded(Append(q, s))
  BY <1>5 DEF Loaded
<1> QED  BY <1>2, <1>6, <1>7, <1>8 DEF R

(* The queue the caller's object starts.                                   *)
LEMMA LoadedOfOne ==
  ASSUME NEW s \in Seq(Ref)
  PROVE  <<s>> \in Seq(Seq(Ref)) /\ Loaded(<<s>>) = Items(s)
<1> DEFINE R == Seq(Ref)
<1>1. s \in R
  OBVIOUS
<1> HIDE DEF R
<1>2. <<s>> \in Seq(R) /\ DOMAIN <<s>> = {1} /\ <<s>>[1] = s
  BY <1>1
<1> QED  BY <1>2 DEF Loaded, R

(* Every answer of the node is a view.                                     *)
LEMMA AnswerTyped ==
  ASSUME ChainTyped, NEW r \in Ref
  PROVE  /\ get_transaction(r) \in TxView
         /\ Items(get_transaction(r).relays) \subseteq Txs
         /\ HashOf(r, get_transaction(r)) \in Txs \cup {Blank}
<1>1. Pending("UNKNOWN") \in TxView /\ Items(Pending("UNKNOWN").relays) = {}
      /\ Pending("UNKNOWN").state = "UNKNOWN"
  BY PendingTyped
<1>2. r.base \in Txs \cup {Blank}
  BY DEF Ref
<1> QED  BY <1>1, <1>2 DEF get_transaction, Answer, ChainTyped, HashOf

(* A normalized hash of a known transaction finds it.                      *)
LEMMA NormalizedFinds ==
  ASSUME NEW r \in Ref
  PROVE  /\ NormalizeRelayHash(r) \in Ref
         /\ NormalizeRelayHash(r).base = r.base
         /\ r.base \in Txs => get_transaction(NormalizeRelayHash(r)) = chain[r.base]
BY DEF Ref, NormalizeRelayHash, get_transaction, Answer

-----------------------------------------------------------------------------
(* A collection, whoever makes it.                                          *)

Root0 == [base |-> Root, group |-> NoGroup]

CollectTyped ==
  /\ snap \in TxView
  /\ queue \in Seq(Seq(Ref)) /\ cur \in Seq(Ref) /\ res \in Seq(Txs \cup {Blank})
  /\ half \in BOOLEAN /\ (half => cur # <<>>)

(* What the caller's object says of the root's relays is true of it still. *)
SnapPast ==
  /\ Items(snap.relays) \subseteq EmittedBy(Root)
  /\ is_tx_confirmed(snap) => /\ chain[Root].state \in ConfirmedStates
                              /\ Items(snap.relays) = EmittedBy(Root)

Awaiting == Items(cur) \cup Loaded(queue)

(* Everything below the root is confirmed, and nothing else is collected.  *)
Inside ==
  /\ ClosureConfirmed
  /\ Awaiting \subseteq Closure
  /\ Collection \subseteq Closure
  /\ half => Head(cur).base \in Collection

(* Every relay of the root, and of what was collected, is collected or     *)
(* still to be; the relay between its two reads is the exception.          *)
Covers ==
  /\ EmittedBy(Root) \subseteq Collection \cup Awaiting
  /\ \A t \in Collection :
       \/ half /\ t = Head(cur).base
       \/ EmittedBy(t) \subseteq Collection \cup Awaiting

(* What is said of the chain, when a step leaves it alone.                 *)
LEMMA ChainSame ==
  ASSUME chain' = chain
  PROVE  /\ ChainTyped' = ChainTyped
         /\ NoRelaysUnlessConfirmed' = NoRelaysUnlessConfirmed
         /\ Closure' = Closure /\ ClosureConfirmed' = ClosureConfirmed
         /\ \A t : EmittedBy(t)' = EmittedBy(t)
BY ClosureSame DEF ChainTyped, ClosureConfirmed, Items

(* The variables of the collection, when a step leaves them alone.         *)
LEMMA CollectSame ==
  ASSUME UNCHANGED collectVars
  PROVE  /\ Awaiting' = Awaiting /\ Collection' = Collection
         /\ Items(snap.relays)' = Items(snap.relays)
         /\ is_tx_confirmed(snap)' = is_tx_confirmed(snap)
         /\ CollectTyped' = CollectTyped
         /\ HashOf(Root0, snap)' = HashOf(Root0, snap)
BY DEF collectVars, Awaiting, Items, Loaded, Collection, is_tx_confirmed, CollectTyped,
       HashOf, Root0

(* A step that touches neither leaves what relates the two alone.          *)
LEMMA InsideSame ==
  ASSUME chain' = chain, UNCHANGED collectVars
  PROVE  Inside' = Inside /\ Covers' = Covers /\ SnapPast' = SnapPast
BY ChainSame, CollectSame DEF Inside, Covers, SnapPast, collectVars

(* A root fetched now.                                                      *)
LEMMA FetchIsPast ==
  ASSUME ChainTyped, CollectTyped, FetchSnapshot, chain' = chain
  PROVE  /\ CollectTyped' /\ SnapPast'
         /\ snap' = chain[Root]
         /\ HashOf(Root0, snap') \in {Root, Blank}
<1>1. Root0 \in Ref /\ Root0.base = Root /\ get_transaction(Root0) = chain[Root]
  BY RootIsTx DEF Root0, Ref, get_transaction, Answer
<1>2. snap' = chain[Root] /\ UNCHANGED <<queue, cur, half, res>>
  BY <1>1 DEF FetchSnapshot, Root0
<1>3. snap' \in TxView
  BY <1>2, RootIsTx DEF ChainTyped
<1>4. SnapPast'
  BY <1>2, ChainSame DEF SnapPast, Items, EmittedBy, is_tx_confirmed
<1> QED  BY <1>1, <1>2, <1>3, <1>4 DEF CollectTyped, HashOf, Root0

(* The collection starts from the relays of the caller's object.           *)
LEMMA StartIsInside ==
  ASSUME ChainTyped, CollectTyped, StartCollect, chain' = chain
  PROVE  /\ CollectTyped'
         /\ ClosureConfirmed /\ SnapPast => Inside' /\ SnapPast'
         /\ SnapPast /\ is_tx_confirmed(snap) => Covers'
<1>1. /\ queue' = <<snap.relays>> /\ cur' = <<>> /\ half' = FALSE /\ res' = <<>>
      /\ snap' = snap
  BY DEF StartCollect, FirstQueued
<1>2. snap.relays \in Seq(Ref)
  BY DEF CollectTyped, TxView
<1>3. queue' \in Seq(Seq(Ref)) /\ cur' \in Seq(Ref) /\ res' \in Seq(Txs \cup {Blank})
  BY <1>1, <1>2, LoadedOfOne
<1>4. Awaiting' = Items(snap.relays) /\ Collection' = {}
  <2>1. Loaded(queue)' = Items(snap.relays)
    BY <1>1, <1>2, LoadedOfOne DEF Loaded
  <2>2. Items(cur)' = {} /\ Collection' = {}
    BY <1>1 DEF Items, Collection
  <2> QED  BY <2>1, <2>2 DEF Awaiting
<1>5. EmittedBy(Root) \subseteq Closure
  BY ClosureIsClosed, RootIsTx DEF ChainTyped, EmittedBy, Items
<1>6. SnapPast' = SnapPast
  BY <1>1, ChainSame DEF SnapPast, Items, is_tx_confirmed
<1>7. ClosureConfirmed /\ SnapPast => Inside'
  BY <1>1, <1>4, <1>5, ChainSame DEF Inside, SnapPast
<1>8. SnapPast /\ is_tx_confirmed(snap) => Covers'
  BY <1>1, <1>4, ChainSame DEF Covers, SnapPast
<1> QED  BY <1>1, <1>3, <1>6, <1>7, <1>8 DEF CollectTyped

(* A list of relays is taken off the queue.                                *)
LEMMA TakeKeeps ==
  ASSUME CollectTyped, TakeObject, chain' = chain
  PROVE  CollectTyped' /\ (Inside => Inside') /\ (Covers => Covers')
<1>1. /\ cur = <<>> /\ queue # <<>> /\ cur' = Head(queue) /\ queue' = Tail(queue)
      /\ UNCHANGED <<snap, half, res>>
  BY DEF TakeObject
<1>2. queue \in Seq(Seq(Ref)) /\ ~ half
  BY <1>1 DEF CollectTyped
<1>3. /\ cur' \in Seq(Ref) /\ queue' \in Seq(Seq(Ref))
      /\ Loaded(queue) = Items(cur') \cup Loaded(queue')
  BY <1>1, <1>2, LoadedOfTail
<1>4. Awaiting' = Awaiting /\ Collection' = Collection
  <2>1. Items(cur) = {}
    BY <1>1 DEF Items
  <2>2. Items(cur)' = Items(cur') /\ Loaded(queue)' = Loaded(queue')
    BY DEF Items, Loaded
  <2> QED  BY <1>1, <1>3, <2>1, <2>2 DEF Awaiting, Collection
<1>5. CollectTyped'
  BY <1>1, <1>2, <1>3 DEF CollectTyped
<1>6. Inside => Inside'
  BY <1>1, <1>2, <1>4, ChainSame DEF Inside
<1>7. Covers => Covers'
  BY <1>1, <1>2, <1>4, ChainSame DEF Covers
<1> QED  BY <1>5, <1>6, <1>7

(* The relay at hand, read for the result: it is there, and confirmed.     *)
LEMMA ResultKeeps ==
  ASSUME ChainTyped, CollectTyped, ReadForResult, chain' = chain
  PROVE  CollectTyped' /\ (Inside => Inside') /\ (Inside /\ Covers => Covers')
<1> DEFINE n == NormalizeRelayHash(Head(cur))
           h == HashOf(n, get_transaction(n))
<1>1. /\ cur # <<>> /\ ~ half /\ half' = TRUE
      /\ res' = Append(res, h) /\ UNCHANGED <<snap, queue, cur>>
  BY DEF ReadForResult
<1>2. cur \in Seq(Ref) /\ queue \in Seq(Seq(Ref)) /\ res \in Seq(Txs \cup {Blank})
  BY DEF CollectTyped
<1>3. Head(cur) \in Ref /\ Head(cur).base \in Items(cur)
  BY <1>1, <1>2, ItemsOfTail
<1>4. /\ n \in Ref /\ n.base = Head(cur).base
      /\ n.base \in Txs => get_transaction(n) = chain[n.base]
  BY <1>3, NormalizedFinds
<1>5. h \in Txs \cup {Blank}
  BY <1>4, AnswerTyped
<1>6. res' \in Seq(Txs \cup {Blank}) /\ Collection' = Collection \cup {h}
  <2> HIDE DEF h
  <2>1. /\ res' \in Seq(Txs \cup {Blank}) /\ DOMAIN res = 1 .. Len(res) /\ Len(res) \in Nat
        /\ DOMAIN res' = 1 .. Len(res) + 1 /\ res'[Len(res) + 1] = h
        /\ \A i \in 1 .. Len(res) : res'[i] = res[i]
    BY <1>1, <1>2, <1>5
  <2> QED  BY <2>1 DEF Collection
<1>7. Awaiting' = Awaiting
  BY <1>1 DEF Awaiting, Items, Loaded
<1>8. CollectTyped'
  BY <1>1, <1>6 DEF CollectTyped
<1>9. ASSUME Inside
      PROVE  h = Head(cur').base /\ h \in Closure
  <2>1. ClosureConfirmed /\ Head(cur).base \in Closure
    BY <1>3, <1>9 DEF Inside, Awaiting
  <2>2. n.base \in Txs /\ chain[n.base].state \in ConfirmedStates
    BY <1>4, <2>1 DEF ClosureConfirmed, Closure
  <2> QED  BY <1>1, <1>4, <2>1, <2>2 DEF HashOf, ConfirmedStates
<1>10. Inside => Inside'
  <2> HIDE DEF h
  <2> QED  BY <1>1, <1>6, <1>7, <1>9, ChainSame DEF Inside
<1>11. Inside /\ Covers => Covers'
  <2> HIDE DEF h
  <2> SUFFICES ASSUME Inside, Covers PROVE Covers'
    OBVIOUS
  <2>1. /\ EmittedBy(Root) \subseteq Collection \cup Awaiting
        /\ \A t \in Collection : EmittedBy(t) \subseteq Collection \cup Awaiting
    BY <1>1 DEF Covers
  <2> QED  BY <1>1, <1>6, <1>7, <1>9, <2>1, ChainSame DEF Covers
<1> QED  BY <1>8, <1>10, <1>11

(* The relay at hand, read again: its relays take its place.               *)
LEMMA QueueKeeps ==
  ASSUME ChainTyped, CollectTyped, ReadForQueue, chain' = chain
  PROVE  CollectTyped' /\ (Inside => Inside') /\ (Inside /\ Covers => Covers')
<1> DEFINE n == NormalizeRelayHash(Head(cur))
           r == get_transaction(n).relays
<1>1. /\ half /\ ~ half' /\ half' = FALSE /\ cur' = Tail(cur) /\ queue' = Append(queue, r)
      /\ UNCHANGED <<snap, res>>
  BY DEF ReadForQueue
<1>2. cur \in Seq(Ref) /\ queue \in Seq(Seq(Ref)) /\ cur # <<>>
  BY <1>1 DEF CollectTyped
<1>3. /\ Head(cur) \in Ref /\ cur' \in Seq(Ref)
      /\ Items(cur) = {Head(cur).base} \cup Items(cur')
  BY <1>1, <1>2, ItemsOfTail
<1>4. /\ n \in Ref /\ n.base = Head(cur).base
      /\ n.base \in Txs => get_transaction(n) = chain[n.base]
  BY <1>3, NormalizedFinds
<1>5. r \in Seq(Ref)
  BY <1>4, AnswerTyped DEF TxView
<1>6. queue' \in Seq(Seq(Ref)) /\ Loaded(queue)' = Loaded(queue) \cup Items(r)
  <2> HIDE DEF r
  <2>1. Loaded(queue') = Loaded(queue) \cup Items(r) /\ queue' \in Seq(Seq(Ref))
    BY <1>1, <1>2, <1>5, LoadedOfAppend
  <2> QED  BY <2>1 DEF Loaded
<1>7. /\ Awaiting' = Items(cur') \cup Loaded(queue) \cup Items(r)
      /\ Collection' = Collection
  BY <1>1, <1>6 DEF Awaiting, Items, Collection
<1>8. CollectTyped'
  BY <1>1, <1>3, <1>6 DEF CollectTyped
<1>9. ASSUME Inside
      PROVE  /\ Head(cur).base \in Collection
             /\ Items(r) = EmittedBy(Head(cur).base) /\ Items(r) \subseteq Closure
  <2>1. Head(cur).base \in Closure /\ Head(cur).base \in Txs
    BY <1>3, <1>9 DEF Inside, Awaiting, Closure
  <2>2. Items(r) = EmittedBy(Head(cur).base)
    BY <1>4, <2>1 DEF Items, EmittedBy
  <2>3. Items(r) \subseteq Txs
    BY <1>4, AnswerTyped
  <2>4. Head(cur).base \in Collection
    BY <1>1, <1>9 DEF Inside
  <2> QED  BY <2>1, <2>2, <2>3, <2>4, ClosureIsClosed
<1>10. Inside => Inside'
  <2>1. Inside => Awaiting' \subseteq Closure
    BY <1>3, <1>7, <1>9 DEF Inside, Awaiting
  <2> QED  BY <1>1, <1>7, <2>1, ChainSame DEF Inside
<1>11. Inside /\ Covers => Covers'
  <2> SUFFICES ASSUME Inside, Covers
               PROVE  /\ EmittedBy(Root) \subseteq Collection' \cup Awaiting'
                      /\ \A t \in Collection : EmittedBy(t) \subseteq Collection' \cup Awaiting'
    BY <1>7, ChainSame DEF Covers
  <2>1. Collection \cup Awaiting \subseteq Collection' \cup Awaiting'
    BY <1>3, <1>7, <1>9 DEF Awaiting
  <2>2. EmittedBy(Head(cur).base) \subseteq Collection' \cup Awaiting'
    BY <1>7, <1>9
  <2> QED  BY <2>1, <2>2 DEF Covers
<1> QED  BY <1>8, <1>10, <1>11

(* A step of the collection keeps its types, its transaction and its        *)
(* account of the tree.                                                     *)
LEMMA CollectKeeps ==
  ASSUME ChainTyped, CollectTyped, CollectStep, chain' = chain
  PROVE  /\ CollectTyped' /\ snap' = snap
         /\ Inside => Inside'
         /\ Inside /\ Covers => Covers'
         /\ SnapPast' = SnapPast
<1>1. snap' = snap
  BY DEF CollectStep, TakeObject, ReadForResult, ReadForQueue
<1>2. SnapPast' = SnapPast
  BY <1>1, ChainSame DEF SnapPast, Items, is_tx_confirmed
<1> QED  BY <1>1, <1>2, TakeKeeps, ResultKeeps, QueueKeeps DEF CollectStep

(* The node's progress takes nothing away from what was collected.         *)
LEMMA ProgressKeepsCollection ==
  ASSUME ChainTyped, NoRelaysUnlessConfirmed, Progress, UNCHANGED collectVars
  PROVE  /\ SnapPast => SnapPast'
         /\ Inside => Inside'
         /\ Inside /\ Covers => Covers'
<1>1. snap' = snap /\ queue' = queue /\ cur' = cur /\ half' = half /\ res' = res
  BY DEF collectVars
<1>2. SnapPast => SnapPast'
  <2>1. /\ chain[Root].state \in ConfirmedStates =>
              chain'[Root].state \in ConfirmedStates /\ EmittedBy(Root)' = EmittedBy(Root)
        /\ EmittedBy(Root) \subseteq EmittedBy(Root)'
    BY ProgressKeeps, RootIsTx
  <2> QED  BY <2>1, CollectSame DEF SnapPast
<1>3. ASSUME Inside
      PROVE  /\ ClosureConfirmed' /\ Closure' = Closure
             /\ \A t \in Closure : EmittedBy(t)' = EmittedBy(t)
  BY <1>3, ConfirmedClosureStays DEF Inside
<1>4. Inside => Inside'
  BY <1>1, <1>3, CollectSame DEF Inside
<1>5. Inside /\ Covers => Covers'
  <2>1. Inside => \A t \in Collection \cup {Root} : EmittedBy(t)' = EmittedBy(t)
    BY <1>3, ClosureIsClosed DEF Inside
  <2> QED  BY <1>1, <2>1, CollectSame DEF Covers
<1> QED  BY <1>2, <1>4, <1>5

(* At the end the collection is what the root leads to.                    *)
LEMMA CollectedIsWhole ==
  ASSUME CollectTyped, Inside, Covers, Collected
  PROVE  Closure = Collection \cup {Root}
<1>1. cur = <<>> /\ queue = <<>> /\ ~ half
  BY DEF Collected, CollectTyped
<1>2. Awaiting = {}
  BY <1>1 DEF Awaiting, Items, Loaded
<1>3. /\ EmittedBy(Root) \subseteq Collection
      /\ \A t \in Collection : EmittedBy(t) \subseteq Collection
      /\ Collection \subseteq Closure
  BY <1>1, <1>2 DEF Inside, Covers
<1> DEFINE S == Collection \cup {Root}
<1>4. S \in SUBSET Txs /\ Root \in S /\ RelayClosed(S)
  BY <1>3, RootIsTx DEF RelayClosed, Closure
<1>5. Closure \subseteq S
  <2> HIDE DEF S
  <2> QED  BY <1>4, ClosureIsLeast
<1> QED  BY <1>3, <1>5, ClosureIsClosed

-----------------------------------------------------------------------------
(* The inductive invariant.                                                 *)

Typed ==
  /\ ChainTyped /\ WalkTyped /\ CollectTyped
  /\ eventsPc \in {"fetch", "confirmed?", "collect", "returned", "raised"}

(* What the first read saw of the root's relays is true of it still.       *)
SnapIsPast == eventsPc \in {"confirmed?", "collect", "returned"} /\ steady => SnapPast

(* The check's walk accounts for everything below the object it was given. *)
CheckCovers == eventsPc = "confirmed?" /\ steady => Accounted(HashOf(Root0, snap))

Collecting == eventsPc \in {"collect", "returned"} /\ steady

CollectInside == Collecting => Inside

CollectCovers == Collecting /\ is_tx_confirmed(snap) => Covers

ReturnedMeansEmpty == eventsPc = "returned" => Collected

IInv ==
  /\ Typed
  /\ NoRelaysUnlessConfirmed
  /\ SnapIsPast
  /\ CheckCovers
  /\ CollectInside
  /\ CollectCovers
  /\ ReturnedMeansEmpty

(* The invariant of get_events_by_transaction holds at the start,           *)
LEMMA InitIInv == EventsInit => IInv
<1> SUFFICES ASSUME EventsInit PROVE IInv
  OBVIOUS
<1> USE DEF EventsInit, ChainInit, WalkInit, CollectInit
<1>1. /\ Pending("UNKNOWN") \in TxView /\ Pending("UNKNOWN").relays = <<>>
      /\ Items(Pending("UNKNOWN").relays) = {}
  BY PendingTyped
<1>2. ChainTyped /\ NoRelaysUnlessConfirmed
  BY <1>1 DEF ChainTyped, NoRelaysUnlessConfirmed
<1>3. WalkTyped /\ CollectTyped
  <2>1. /\ todo \in Seq(Pure) /\ queue \in Seq(Seq(Ref)) /\ cur \in Seq(Ref)
        /\ res \in Seq(Txs \cup {Blank})
    OBVIOUS
  <2> QED  BY <1>1, <2>1 DEF WalkTyped, CollectTyped, NoTx
<1> QED
  BY <1>2, <1>3
     DEF IInv, Typed, SnapIsPast, CheckCovers, CollectInside, CollectCovers,
         Collecting, ReturnedMeansEmpty

-----------------------------------------------------------------------------
(* Every step keeps it.                                                     *)

(* after the fetch,                                                         *)
LEMMA FetchKeepsIInv ==
  ASSUME IInv, FetchTransaction
  PROVE  IInv'
<1>1. /\ FetchSnapshot /\ chain' = chain
      /\ StartWalk(HashOf(Root0, snap')) /\ eventsPc' = "confirmed?"
  BY DEF FetchTransaction, Root0
<1>2. CollectTyped' /\ SnapPast' /\ HashOf(Root0, snap') \in {Root, Blank}
  BY <1>1, FetchIsPast DEF IInv, Typed
<1>3. WalkTyped' /\ Accounted(HashOf(Root0, snap))'
  <2>1. PICK h \in Txs \cup {Blank} : h = HashOf(Root0, snap')
    BY <1>2, RootIsTx
  <2>2. WalkTyped' /\ Accounted(h)'
    BY <1>1, <2>1, StartAccounts
  <2>3. HashOf(Root0, snap)' = h
    BY <2>1 DEF HashOf, Root0
  <2> QED  BY <2>2, <2>3 DEF Accounted
<1> QED
  BY <1>1, <1>2, <1>3, ChainSame
     DEF IInv, Typed, SnapIsPast, CheckCovers, CollectInside, CollectCovers, Collecting,
         ReturnedMeansEmpty

(* after a step of the check,                                               *)
LEMMA CheckKeepsIInv ==
  ASSUME IInv, CheckOn
  PROVE  IInv'
<1>1. /\ eventsPc = "confirmed?" /\ eventsPc' = eventsPc
      /\ AcceptRead(is_tx_confirmed(cur_tx))
      /\ chain' = chain /\ steady' = steady /\ UNCHANGED collectVars
  BY DEF CheckOn
<1>2. WalkTyped' /\ \A x : Accounted(x) => Accounted(x)'
  BY <1>1, AcceptAccounts DEF IInv, Typed
<1>3. CheckCovers'
  <2>1. PICK h : h = HashOf(Root0, snap)
    OBVIOUS
  <2>2. HashOf(Root0, snap)' = h
    BY <1>1, <2>1, CollectSame
  <2> QED  BY <1>1, <1>2, <2>1, <2>2 DEF IInv, CheckCovers, Accounted
<1> QED
  BY <1>1, <1>2, <1>3, ChainSame, CollectSame, InsideSame
     DEF IInv, Typed, SnapIsPast, CollectInside, CollectCovers, Collecting, ReturnedMeansEmpty

(* The walk has found everything confirmed: the collection starts from the *)
(* relays of the object that was fetched first.                            *)
LEMMA StartCollectKeepsIInv ==
  ASSUME IInv, CheckPassed
  PROVE  IInv'
<1>1. /\ eventsPc = "confirmed?" /\ eventsPc' = "collect" /\ todo = <<>>
      /\ StartCollect /\ snap' = snap
      /\ chain' = chain /\ todo' = todo /\ seen' = seen /\ steady' = steady
  BY DEF CheckPassed, StartCollect, walkVars
<1>2. ASSUME steady PROVE ClosureConfirmed /\ SnapPast
  <2>1. Accounted(HashOf(Root0, snap)) /\ WalkTyped /\ SnapPast
    BY <1>1, <1>2 DEF IInv, CheckCovers, Typed, SnapIsPast
  <2>2. HashOf(Root0, snap) \in Txs /\ (HashOf(Root0, snap) = Root => ClosureConfirmed)
    BY <1>1, <2>1, WalkedIsWhole
  <2>3. HashOf(Root0, snap) \in {Root, Blank}
    BY DEF HashOf, Root0
  <2> QED  BY <2>1, <2>2, <2>3, BlankIsNoTx
<1>3. /\ CollectTyped'
      /\ steady => Inside' /\ SnapPast'
      /\ steady /\ is_tx_confirmed(snap) => Covers'
  BY <1>1, <1>2, StartIsInside DEF IInv, Typed
<1>4. WalkTyped' /\ is_tx_confirmed(snap)' = is_tx_confirmed(snap)
  BY <1>1 DEF IInv, Typed, WalkTyped, is_tx_confirmed
<1> QED
  BY <1>1, <1>3, <1>4, ChainSame
     DEF IInv, Typed, SnapIsPast, CheckCovers, CollectInside, CollectCovers, Collecting,
         ReturnedMeansEmpty

(* after a step of the collection,                                          *)
LEMMA CollectKeepsIInv ==
  ASSUME IInv, CollectOn
  PROVE  IInv'
<1>1. /\ eventsPc = "collect" /\ eventsPc' = eventsPc /\ CollectStep
      /\ chain' = chain /\ todo' = todo /\ seen' = seen /\ steady' = steady
  BY DEF CollectOn, walkVars
<1>2. /\ CollectTyped' /\ snap' = snap
      /\ Inside => Inside'
      /\ Inside /\ Covers => Covers'
      /\ SnapPast' = SnapPast
  BY <1>1, CollectKeeps DEF IInv, Typed
<1>3. WalkTyped' /\ is_tx_confirmed(snap)' = is_tx_confirmed(snap)
  BY <1>1, <1>2 DEF IInv, Typed, WalkTyped, is_tx_confirmed
<1> QED
  BY <1>1, <1>2, <1>3, ChainSame
     DEF IInv, Typed, SnapIsPast, CheckCovers, CollectInside, CollectCovers, Collecting,
         ReturnedMeansEmpty

(* A step of the node: progress takes nothing away from what was seen, and *)
(* after a reorganisation nothing more is claimed.                          *)
LEMMA NodeKeepsIInv ==
  ASSUME IInv, NodeMovesSteady, UNCHANGED <<collectVars, eventsPc>>
  PROVE  IInv'
<1>1. /\ Progress \/ Reorg
      /\ UNCHANGED <<todo, seen>> /\ UNCHANGED collectVars /\ eventsPc' = eventsPc
      /\ steady' => steady /\ Progress
  BY DEF NodeMovesSteady, NodeMoves
<1>2. ChainTyped /\ NoRelaysUnlessConfirmed /\ WalkTyped
  BY DEF IInv, Typed
<1>3. ChainTyped' /\ NoRelaysUnlessConfirmed'
  BY <1>1, <1>2, NodeKeepsType
<1>4. WalkTyped'
  BY <1>1, <1>2 DEF WalkTyped
<1>5. ASSUME steady'
      PROVE  SnapIsPast' /\ CheckCovers' /\ CollectInside' /\ CollectCovers'
  <2>1. Progress /\ steady
    BY <1>1, <1>5
  <2>2. (SnapPast => SnapPast') /\ (Inside => Inside') /\ (Inside /\ Covers => Covers')
    BY <1>1, <1>2, <2>1, ProgressKeepsCollection
  <2>3. CheckCovers'
    <3>1. PICK h : h = HashOf(Root0, snap)
      OBVIOUS
    <3>2. HashOf(Root0, snap)' = h /\ (Accounted(h) => Accounted(h)')
      BY <1>1, <1>2, <2>1, <3>1, CollectSame, ProgressAccounts
    <3> QED  BY <1>1, <2>1, <3>1, <3>2 DEF IInv, CheckCovers, Accounted
  <2> QED
    BY <1>1, <2>1, <2>2, <2>3, CollectSame
       DEF IInv, SnapIsPast, CollectInside, CollectCovers, Collecting
<1>6. ASSUME ~ steady'
      PROVE  SnapIsPast' /\ CheckCovers' /\ CollectInside' /\ CollectCovers'
  BY <1>6 DEF SnapIsPast, CheckCovers, CollectInside, CollectCovers, Collecting
<1>7. ReturnedMeansEmpty'
  BY <1>1 DEF IInv, ReturnedMeansEmpty, Collected, collectVars
<1> QED
  BY <1>1, <1>2, <1>3, <1>4, <1>5, <1>6, <1>7, CollectSame DEF IInv, Typed

(* The steps that change nothing but where the call is.                    *)
LEMMA LeavingKeepsIInv ==
  ASSUME IInv, UNCHANGED <<chain, todo, seen, collectVars, steady>>,
         \/ eventsPc' = eventsPc
         \/ eventsPc' = "raised"
         \/ eventsPc = "collect" /\ eventsPc' = "returned" /\ Collected
  PROVE  IInv'
<1>1. chain' = chain /\ todo' = todo /\ seen' = seen /\ steady' = steady
      /\ UNCHANGED collectVars
  OBVIOUS
<1>2. WalkTyped' /\ (Collected => Collected')
  BY <1>1 DEF IInv, Typed, WalkTyped, Collected, collectVars
<1>3. CheckCovers'
  <2>1. PICK h : h = HashOf(Root0, snap)
    OBVIOUS
  <2>2. HashOf(Root0, snap)' = h /\ Accounted(h)' = Accounted(h)
    BY <1>1, <2>1, CollectSame, ChainSame DEF Accounted, Items
  <2> QED  BY <1>1, <2>1, <2>2 DEF IInv, CheckCovers, Accounted
<1> QED
  BY <1>1, <1>2, <1>3, ChainSame, CollectSame, InsideSame
     DEF IInv, Typed, SnapIsPast, CollectInside, CollectCovers, Collecting, ReturnedMeansEmpty

(* and so after every step,                                                 *)
LEMMA StepKeepsIInv ==
  ASSUME IInv, [EventsNext]_eventsVars
  PROVE  IInv'
<1>1. CASE FetchTransaction
  BY <1>1, FetchKeepsIInv
<1>2. CASE CheckOn
  BY <1>2, CheckKeepsIInv
<1>3. CASE CheckPassed
  BY <1>3, StartCollectKeepsIInv
<1>4. CASE NotConfirmed
  BY <1>4, LeavingKeepsIInv DEF NotConfirmed, RejectRead, walkVars
<1>5. CASE CollectOn
  BY <1>5, CollectKeepsIInv
<1>6. CASE ReturnEvents
  BY <1>6, LeavingKeepsIInv DEF ReturnEvents, walkVars
<1>7. CASE RpcRaises
  BY <1>7, LeavingKeepsIInv DEF RpcRaises, walkVars
<1>8. CASE NodeMovesSteady /\ UNCHANGED <<collectVars, eventsPc>>
  BY <1>8, NodeKeepsIInv
<1>9. CASE UNCHANGED eventsVars
  BY <1>9, LeavingKeepsIInv DEF eventsVars, collectVars
<1> QED
  BY <1>1, <1>2, <1>3, <1>4, <1>5, <1>6, <1>7, <1>8, <1>9 DEF EventsNext, EventsStep

(* whatever the node does.                                                  *)
LEMMA IInvAlways == EventsSpec => []IInv
<1>1. IInv /\ [EventsNext]_eventsVars => IInv'
  BY StepKeepsIInv
<1> QED  BY <1>1, InitIInv, PTL DEF EventsSpec

-----------------------------------------------------------------------------
(* The properties.                                                          *)

(* Every variable of get_events_by_transaction keeps its type, for every   *)
(* relay tree; no walk asks the node for a hash with a group index.        *)
THEOREM EventsTypeCorrect == EventsSpec => []EventsTypeOK
<1>1. IInv => EventsTypeOK
  <2> SUFFICES ASSUME IInv PROVE EventsTypeOK
    OBVIOUS
  <2>1. todo \in Seq(Pure) /\ Typed
    BY DEF IInv, Typed, WalkTyped
  <2>2. \A i \in DOMAIN todo : todo[i] \in Pure
    <3> HIDE DEF Pure
    <3> QED  BY <2>1
  <2> QED  BY <2>1, <2>2 DEF EventsTypeOK, Typed, CollectTyped, ChainTyped, Pure
<1> QED  BY <1>1, IInvAlways, PTL

(* For every relay tree, and however the node moves between the reads: an  *)
(* event that is returned without a reorganisation is a relay of this      *)
(* transaction, on the chain and confirmed.                                 *)
THEOREM EventsGenuineAlways == EventsSpec => []EventsGenuine
<1>1. IInv => EventsGenuine
  BY DEF IInv, CollectInside, Collecting, Inside, EventsGenuine, Events, ClosureConfirmed
<1> QED  BY <1>1, IInvAlways, PTL

(* For every relay tree: a call whose first read found the transaction     *)
(* confirmed returns all its events, in spite of the two reads per relay.  *)
THEOREM EventsCompleteAlways == EventsSpec => []EventsCompleteIfConfirmedFirst
<1>1. IInv => EventsCompleteIfConfirmedFirst
  <2> SUFFICES ASSUME IInv, eventsPc = "returned", steady, is_tx_confirmed(snap)
               PROVE  Events = External \cap Closure
    BY DEF EventsCompleteIfConfirmedFirst
  <2>1. CollectTyped /\ Inside /\ Covers /\ Collected
    BY DEF IInv, Typed, CollectInside, CollectCovers, Collecting, ReturnedMeansEmpty
  <2>2. Closure = Collection \cup {Root}
    BY <2>1, CollectedIsWhole
  <2> QED  BY <2>2, ExternalAreRelays DEF Events
<1> QED  BY <1>1, IInvAlways, PTL

-----------------------------------------------------------------------------
(* The inductive invariant of the wait.                                     *)

(* Everything still to be vouched for is in the queue.                     *)
WalkCovers ==
  pc \in {"walk", "true"} /\ calm =>
    /\ target \in seen \cup Items(todo)
    /\ \A t \in seen : /\ chain[t].state \in ConfirmedStates
                       /\ EmittedBy(t) \subseteq seen \cup Items(todo)

(* The walk reads nothing but the root and its relays.                     *)
WalkStaysInside ==
  pc = "walk" /\ calm /\ target = Root => Items(todo) \subseteq Closure

DoneMeansEmpty == pc = "true" => todo = <<>>

WaitIInv ==
  /\ WaitTypeOK
  /\ NoRelaysUnlessConfirmed
  /\ WalkCovers
  /\ WalkStaysInside
  /\ DoneMeansEmpty

-----------------------------------------------------------------------------
(* The invariant holds initially and every step keeps it.                  *)

(* The invariant of the wait holds at the start,                            *)
LEMMA InitWaitIInv == WaitInit => WaitIInv
<1> SUFFICES ASSUME WaitInit PROVE WaitIInv
  OBVIOUS
<1> USE DEF WaitInit, ChainInit, WalkInit
<1>1. ChainTyped /\ NoRelaysUnlessConfirmed
  <2>1. Pending("UNKNOWN") \in TxView /\ Pending("UNKNOWN").relays = <<>>
        /\ Items(Pending("UNKNOWN").relays) = {}
    BY PendingTyped
  <2>2. \A t \in Txs : chain[t] = Pending("UNKNOWN")
    OBVIOUS
  <2> QED  BY <2>1, <2>2 DEF ChainTyped, NoRelaysUnlessConfirmed
<1>2. todo \in Seq(Pure)
  OBVIOUS
<1>3. elapsed \in 0 .. limit + 1
  BY TimeoutsAreNat
<1>4. WaitTypeOK
  BY <1>1, <1>2, <1>3 DEF WaitTypeOK, ChainTyped, Pure, Over
<1> QED  BY <1>1, <1>4 DEF WaitIInv, WalkCovers, WalkStaysInside, DoneMeansEmpty

(* The node's steps, with the call where it was.                           *)
LEMMA NodeKeepsWaitIInv ==
  ASSUME WaitIInv, NodeMoves, UNCHANGED waitVars
  PROVE  WaitIInv'
<1> USE DEF waitVars
<1>1. ChainTyped /\ NoRelaysUnlessConfirmed
  BY DEF WaitIInv, WaitTypeOK, ChainTyped
<1>2. Progress \/ Reorg
  BY DEF NodeMoves
<1>3. ChainTyped' /\ NoRelaysUnlessConfirmed'
  BY <1>1, <1>2, NodeKeepsType
<1>4. WaitTypeOK'
  BY <1>3 DEF WaitIInv, WaitTypeOK, ChainTyped, NodeMoves, Items
<1>5. WalkCovers' /\ WalkStaysInside'
  <2>1. CASE Progress /\ UNCHANGED calm
    <3>1. \A u \in Txs :
            /\ chain[u].state \in ConfirmedStates =>
                  /\ chain'[u].state \in ConfirmedStates
                  /\ EmittedBy(u)' = EmittedBy(u)
            /\ EmittedBy(u) \subseteq EmittedBy(u)'
      BY <1>1, <2>1, ProgressKeeps
    <3>2. Items(todo)' = Items(todo) /\ seen' = seen
      BY DEF NodeMoves, Items
    <3>3. seen \subseteq Txs
      BY DEF WaitIInv, WaitTypeOK
    <3>4. WalkCovers'
      BY <2>1, <3>1, <3>2, <3>3 DEF WaitIInv, WalkCovers
    <3>5. Closure \subseteq Closure'
      BY <3>1, ClosureGrows
    <3>6. WalkStaysInside'
      BY <2>1, <3>2, <3>5 DEF WaitIInv, WalkStaysInside
    <3> QED  BY <3>4, <3>6
  <2>2. CASE Reorg /\ calm' = FALSE
    BY <2>2 DEF WalkCovers, WalkStaysInside
  <2> QED  BY <2>1, <2>2 DEF NodeMoves
<1>6. DoneMeansEmpty'
  BY DEF WaitIInv, DoneMeansEmpty, NodeMoves
<1> QED  BY <1>3, <1>4, <1>5, <1>6 DEF WaitIInv

(* Starting a walk over the fetched object.                                *)
LEMMA StartKeepsWaitIInv ==
  ASSUME WaitIInv, chain' = chain, limit' = limit, elapsed' \in 0 .. limit + 1,
         target' \in {Root, Blank}, StartWalk(target'), pc' = "walk"
  PROVE  WaitIInv'
<1> DEFINE h == [base |-> target', group |-> NoGroup]
<1>1. todo' = <<h>> /\ seen' = {} /\ calm' = TRUE
  BY DEF StartWalk
<1>2. h \in Pure /\ h.base = target'
  BY RootIsTx DEF Pure
<1>3. todo' \in Seq(Pure) /\ Items(todo)' = {target'}
  <2> HIDE DEF h
  <2>1. <<h>> \in Seq(Pure) /\ DOMAIN <<h>> = {1} /\ <<h>>[1] = h
    BY <1>2
  <2> QED  BY <1>1, <1>2, <2>1 DEF Items
<1>4. WaitTypeOK'
  BY <1>1, <1>3 DEF WaitIInv, WaitTypeOK, Pure, Items
<1>5. WalkCovers'
  BY <1>1, <1>3 DEF WalkCovers
<1>6. WalkStaysInside'
  BY <1>3, ClosureIsClosed, ClosureSame DEF WalkStaysInside
<1>7. NoRelaysUnlessConfirmed' /\ DoneMeansEmpty'
  BY ClosureSame DEF WaitIInv, DoneMeansEmpty
<1> QED  BY <1>4, <1>5, <1>6, <1>7 DEF WaitIInv

(* A turn of the walk: the hash moves from the queue to the accepted ones, *)
(* and its relays take its place in the queue.                             *)
LEMMA WalkOnKeepsWaitIInv ==
  ASSUME WaitIInv, WalkOn
  PROVE  WaitIInv'
<1> DEFINE h == Head(todo)
           tx == get_transaction(h)
<1>1. /\ pc = "walk" /\ pc' = "walk" /\ todo # <<>>
      /\ is_tx_confirmed(tx)
      /\ todo' = Tail(todo) \o NormalizedRelays(tx)
      /\ seen' = seen \cup {h.base}
      /\ UNCHANGED <<chain, calm, limit, elapsed, target>>
  BY DEF WalkOn, AcceptRead, cur_tx
<1>2. todo \in Seq(Pure) /\ seen \subseteq Txs /\ chain \in [Txs -> TxView]
  BY DEF WaitIInv, WaitTypeOK, Pure
<1>3. /\ h \in Pure
      /\ Tail(todo) \in Seq(Pure)
      /\ Items(todo) = {h.base} \cup Items(Tail(todo))
  BY <1>1, <1>2, ItemsOfTail
<1>4. h.base \in Txs /\ tx = chain[h.base]
  BY <1>1, <1>3, ConfirmedHead
<1>5. tx \in TxView /\ tx.state \in ConfirmedStates /\ Items(tx.relays) = EmittedBy(h.base)
  BY <1>1, <1>2, <1>4 DEF is_tx_confirmed, Items, EmittedBy
<1>6. todo' \in Seq(Pure) /\ Items(todo)' = Items(Tail(todo)) \cup EmittedBy(h.base)
  <2>1. NormalizedRelays(tx) \in Seq(Pure)
        /\ Items(NormalizedRelays(tx)) = EmittedBy(h.base)
    BY <1>5, ItemsOfNormalized
  <2>2. Items(todo') = Items(Tail(todo)) \cup Items(NormalizedRelays(tx))
        /\ todo' \in Seq(Pure)
    BY <1>1, <1>3, <2>1, ItemsOfConcat
  <2> QED  BY <2>1, <2>2 DEF Items
<1>7. WaitTypeOK'
  BY <1>1, <1>4, <1>6 DEF WaitIInv, WaitTypeOK, Pure, Items
<1>8. WalkCovers'
  <2> SUFFICES ASSUME calm'
               PROVE  /\ target' \in seen' \cup Items(todo)'
                      /\ \A t \in seen' :
                           /\ chain'[t].state \in ConfirmedStates
                           /\ EmittedBy(t)' \subseteq seen' \cup Items(todo)'
    BY DEF WalkCovers
  <2>1. /\ target \in seen \cup Items(todo)
        /\ \A t \in seen : /\ chain[t].state \in ConfirmedStates
                           /\ EmittedBy(t) \subseteq seen \cup Items(todo)
    BY <1>1 DEF WaitIInv, WalkCovers
  <2>2. seen \cup Items(todo) \subseteq seen' \cup Items(todo)'
    BY <1>1, <1>3, <1>6
  <2>3. EmittedBy(h.base) \subseteq seen' \cup Items(todo)'
    BY <1>6
  <2>4. \A t : EmittedBy(t)' = EmittedBy(t)
    BY <1>1, ClosureSame
  <2> QED  BY <1>1, <1>4, <1>5, <2>1, <2>2, <2>3, <2>4
<1>9. WalkStaysInside'
  <2> SUFFICES ASSUME calm', target' = Root
               PROVE  Items(todo)' \subseteq Closure'
    BY DEF WalkStaysInside
  <2>1. Items(todo) \subseteq Closure
    BY <1>1 DEF WaitIInv, WalkStaysInside
  <2>2. EmittedBy(h.base) \subseteq Txs
    BY <1>4 DEF WaitIInv, WaitTypeOK, Items, EmittedBy
  <2>3. EmittedBy(h.base) \subseteq Closure
    BY <1>3, <2>1, <2>2, ClosureIsClosed
  <2>4. Closure' = Closure
    BY <1>1, ClosureSame
  <2> QED  BY <1>3, <1>6, <2>1, <2>3, <2>4
<1>10. NoRelaysUnlessConfirmed' /\ DoneMeansEmpty'
  BY <1>1, ClosureSame DEF WaitIInv, DoneMeansEmpty
<1> QED  BY <1>7, <1>8, <1>9, <1>10 DEF WaitIInv

(* Steps that leave the chain and the walk alone and do not start one.     *)
LEMMA RestKeepsWaitIInv ==
  ASSUME WaitIInv, UNCHANGED <<chain, todo, seen, calm, limit, target>>,
         elapsed' \in 0 .. limit + 1,
         \/ pc' = pc
         \/ pc' \in {"check", "false", "raised"}
         \/ pc = "walk" /\ pc' = "true" /\ todo = <<>>
  PROVE  WaitIInv'
<1>1. WaitTypeOK'
  BY DEF WaitIInv, WaitTypeOK, Over, Items
<1>2. Closure' = Closure /\ NoRelaysUnlessConfirmed'
      /\ \A t : EmittedBy(t)' = EmittedBy(t)
  BY ClosureSame DEF WaitIInv
<1>3. Items(todo)' = Items(todo)
  BY DEF Items
<1>4. WalkCovers' /\ WalkStaysInside' /\ DoneMeansEmpty'
  BY <1>2, <1>3 DEF WaitIInv, WalkCovers, WalkStaysInside, DoneMeansEmpty
<1> QED  BY <1>1, <1>2, <1>4 DEF WaitIInv

(* and after every step,                                                    *)
LEMMA StepKeepsWaitIInv ==
  ASSUME WaitIInv, [WaitNext]_allWaitVars
  PROVE  WaitIInv'
<1>1. limit \in Nat /\ elapsed \in 0 .. limit + 1 /\ target \in {Root, Blank}
  BY TimeoutsAreNat DEF WaitIInv, WaitTypeOK
<1>2. Later \in 0 .. limit + 1
  BY <1>1 DEF Later
<1>3. CASE FetchOnce
  BY <1>1, <1>3, StartKeepsWaitIInv DEF FetchOnce
<1>4. CASE WalkOn
  BY <1>4, WalkOnKeepsWaitIInv
<1>5. CASE WalkSucceeds
  BY <1>1, <1>5, RestKeepsWaitIInv DEF WalkSucceeds
<1>6. CASE WalkFails
  BY <1>1, <1>6, RestKeepsWaitIInv DEF WalkFails, RejectRead, walkVars
<1>7. CASE GiveUpWaiting
  BY <1>1, <1>7, RestKeepsWaitIInv DEF GiveUpWaiting
<1>8. CASE SleepAndRetry
  <2>1. target' = target /\ StartWalk(target') /\ chain' = chain /\ limit' = limit
        /\ elapsed' = Later /\ pc' = "walk"
    BY <1>8 DEF SleepAndRetry, StartWalk
  <2> QED  BY <1>1, <1>2, <2>1, StartKeepsWaitIInv
<1>9. CASE RpcFails
  BY <1>1, <1>9, RestKeepsWaitIInv DEF RpcFails
<1>10. CASE TimePasses
  BY <1>1, <1>2, <1>10, RestKeepsWaitIInv DEF TimePasses
<1>11. CASE NodeMoves /\ UNCHANGED waitVars
  BY <1>11, NodeKeepsWaitIInv
<1>12. CASE UNCHANGED allWaitVars
  BY <1>1, <1>12, RestKeepsWaitIInv DEF allWaitVars
<1> QED  BY <1>3, <1>4, <1>5, <1>6, <1>7, <1>8, <1>9, <1>10, <1>11, <1>12
         DEF WaitNext, CallStep

(* whatever the node does.                                                  *)
LEMMA WaitIInvAlways == WaitSpec => []WaitIInv
<1>1. WaitInit => WaitIInv
  BY InitWaitIInv
<1>2. WaitIInv /\ [WaitNext]_allWaitVars => WaitIInv'
  BY StepKeepsWaitIInv
<1> QED  BY <1>1, <1>2, PTL DEF WaitSpec

-----------------------------------------------------------------------------
(* The theorems.                                                            *)

(* The wait keeps every variable in its type, for any node history.        *)
THEOREM WaitTypeCorrect == WaitSpec => []WaitTypeOK
<1>1. WaitIInv => WaitTypeOK
  BY DEF WaitIInv
<1> QED  BY <1>1, WaitIInvAlways, PTL

(* What a finished, undisturbed walk has seen is all there is.             *)
LEMMA DoneIsWhole ==
  ASSUME WaitIInv, pc \in {"walk", "true"}, todo = <<>>, calm
  PROVE  AllConfirmed
<1>1. Items(todo) = {}
  BY DEF Items
<1>2. /\ target \in seen
      /\ \A t \in seen : chain[t].state \in ConfirmedStates
      /\ RelayClosed(seen)
  BY <1>1 DEF WaitIInv, WalkCovers, RelayClosed
<1>3. Root \in seen /\ seen \in SUBSET Txs
  BY <1>2, BlankIsNoTx DEF WaitIInv, WaitTypeOK
<1>4. Closure \subseteq seen
  BY <1>2, <1>3, ClosureIsLeast
<1> QED  BY <1>2, <1>4 DEF AllConfirmed

(* wait_for_transaction_confirmed returns True, no reorganisation having   *)
(* hit its last walk, only when the whole relay tree is confirmed.         *)
THEOREM TrueIsConfirmedAlways == WaitSpec => []TrueIsConfirmed
<1>1. WaitIInv => TrueIsConfirmed
  BY DoneIsWhole DEF TrueIsConfirmed, AllConfirmed, WaitIInv, DoneMeansEmpty
<1> QED  BY <1>1, WaitIInvAlways, PTL

(* A walk of is_tx_confirmed_with_relays that returns False has read some  *)
(* transaction of the relay tree that is indeed not confirmed.             *)
THEOREM NegativeIsWitnessedAlways == WaitSpec => NegativeIsWitnessed
<1>1. ASSUME WaitIInv, WalkFails, calm, target = Root
      PROVE  \E t \in Closure : chain[t].state \notin ConfirmedStates
  <2> DEFINE h == Head(todo)
  <2>1. /\ pc = "walk" /\ todo # <<>> /\ todo \in Seq(Pure)
        /\ ~ is_tx_confirmed(get_transaction(h))
    BY <1>1 DEF WalkFails, RejectRead, cur_tx, WaitIInv, WaitTypeOK, Pure
  <2>2. h \in Pure /\ h.base \in Items(todo)
    BY <2>1, ItemsOfTail
  <2>3. h.base \in Closure /\ h.base \in Txs
    BY <1>1, <2>1, <2>2 DEF WaitIInv, WalkStaysInside, Closure
  <2>4. get_transaction(h) = chain[h.base]
    BY <2>2, <2>3 DEF get_transaction, Answer, Pure
  <2>5. chain[h.base].state \notin ConfirmedStates
    BY <2>1, <2>4 DEF is_tx_confirmed
  <2> QED  BY <2>3, <2>5
<1>2. WaitIInv /\ [WaitNext]_allWaitVars =>
        [WalkFails /\ calm /\ target = Root =>
           \E t \in Closure : chain[t].state \notin ConfirmedStates]_allWaitVars
  BY <1>1
<1> QED  BY <1>2, WaitIInvAlways, PTL DEF WaitSpec, NegativeIsWitnessed

-----------------------------------------------------------------------------
(* The wait implements AwaitCall.                                           *)

(* What is entirely confirmed is so until a reorganisation.                *)
LEMMA WholeIsStable ==
  ASSUME WaitIInv, Progress, AllConfirmed
  PROVE  AllConfirmed'
<1>1. ChainTyped /\ NoRelaysUnlessConfirmed
  BY DEF WaitIInv, WaitTypeOK, ChainTyped
<1>2. ClosureConfirmed'
  BY <1>1, ConfirmedClosureStays DEF AllConfirmed, ClosureConfirmed
<1> QED  BY <1>2 DEF AllConfirmed, ClosureConfirmed

(* The pieces of the refinement mapping, by name.                           *)
verdict == IF pc \in Over THEN pc ELSE "undecided"
late == elapsed > limit

(* A step of the call itself leaves the world alone.                        *)
LEMMA CallLeavesWorld ==
  ASSUME UNCHANGED <<chain, limit>>, elapsed' = elapsed
  PROVE  AllConfirmed' = AllConfirmed /\ late' = late
BY ClosureSame DEF AllConfirmed, late

(* A step of the wait is one of AwaitCall, or changes nothing there.        *)
LEMMA StepAwaits ==
  ASSUME WaitIInv, [WaitNext]_allWaitVars
  PROVE  [Await!Next]_(Await!vars)
<1> USE DEF Over
<1>1. calm \in BOOLEAN /\ calm' \in BOOLEAN
  BY StepKeepsWaitIInv DEF WaitIInv, WaitTypeOK
<1>2. AllConfirmed \in BOOLEAN /\ AllConfirmed' \in BOOLEAN /\ late' \in BOOLEAN
  BY DEF AllConfirmed, late
<1>3. ASSUME AllConfirmed' = AllConfirmed \/ ~ calm' \/ AllConfirmed', verdict' = verdict
      PROVE  Await!World
  BY <1>1, <1>2, <1>3 DEF Await!World, verdict, late
<1>4. CASE FetchOnce \/ SleepAndRetry
  <2>1. verdict' = verdict /\ chain' = chain
    BY <1>4 DEF FetchOnce, SleepAndRetry, verdict
  <2> QED  BY <1>3, <2>1, ClosureSame DEF AllConfirmed, Await!Next
<1>5. CASE WalkOn \/ WalkFails
  <2>1. verdict' = verdict /\ chain' = chain
    BY <1>5 DEF WalkOn, WalkFails, verdict
  <2> QED  BY <1>3, <2>1, ClosureSame DEF AllConfirmed, Await!Next
<1>6. CASE WalkSucceeds
  <2>1. verdict = "undecided" /\ verdict' = "true"
    BY <1>6 DEF WalkSucceeds, verdict
  <2>2. AllConfirmed' = AllConfirmed /\ late' = late /\ calm' = calm
    BY <1>6, CallLeavesWorld DEF WalkSucceeds
  <2>3. calm' => AllConfirmed'
    <3>1. calm => AllConfirmed
      BY <1>6, DoneIsWhole DEF WalkSucceeds
    <3> QED  BY <3>1, <2>2
  <2> QED  BY <2>1, <2>2, <2>3 DEF Await!AnswerTrue, Await!Next, verdict, late
<1>7. CASE GiveUpWaiting
  <2>1. verdict = "undecided" /\ verdict' = "false" /\ late
    BY <1>7 DEF GiveUpWaiting, verdict, late
  <2>2. AllConfirmed' = AllConfirmed /\ late' = late /\ calm' = calm
    BY <1>7, CallLeavesWorld DEF GiveUpWaiting
  <2> QED  BY <2>1, <2>2 DEF Await!AnswerFalse, Await!Next, verdict, late
<1>8. CASE RpcFails
  <2>1. verdict = "undecided" /\ verdict' = "raised"
    BY <1>8 DEF RpcFails, verdict
  <2>2. AllConfirmed' = AllConfirmed /\ late' = late /\ calm' = calm
    BY <1>8, CallLeavesWorld DEF RpcFails
  <2> QED  BY <2>1, <2>2 DEF Await!Raise, Await!Next, verdict, late
<1>9. CASE TimePasses
  <2>1. verdict' = verdict /\ chain' = chain
    BY <1>9 DEF TimePasses, verdict
  <2> QED  BY <1>3, <2>1, ClosureSame DEF AllConfirmed, Await!Next
<1>10. CASE NodeMoves /\ UNCHANGED waitVars
  <2>1. verdict' = verdict
    BY <1>10 DEF waitVars, verdict
  <2>2. CASE Progress
    BY <1>3, <2>1, <2>2, WholeIsStable, <1>2 DEF Await!Next
  <2>3. CASE calm' = FALSE
    BY <1>3, <2>1, <2>3 DEF Await!Next
  <2> QED  BY <1>10, <2>2, <2>3 DEF NodeMoves
<1>11. CASE UNCHANGED allWaitVars
  <2>1. verdict' = verdict /\ chain' = chain
    BY <1>11 DEF allWaitVars, verdict
  <2> QED  BY <1>3, <2>1, ClosureSame, <1>11 DEF AllConfirmed, allWaitVars, Await!Next
<1> QED  BY <1>4, <1>5, <1>6, <1>7, <1>8, <1>9, <1>10, <1>11 DEF WaitNext, CallStep

(* wait_for_transaction_confirmed, for every node history and every        *)
(* timeout, behaves as one atomic look at the relay tree: it implements    *)
(* AwaitCall.                                                               *)
THEOREM WaitImplementsAwait == WaitSpec => ImplementsAwait
<1>1. WaitInit => Await!Init
  <2> SUFFICES ASSUME WaitInit PROVE Await!Init
    OBVIOUS
  <2>1. pc = "fetch" /\ calm = TRUE /\ elapsed = 0 /\ limit \in Nat
    BY TimeoutsAreNat DEF WaitInit, WalkInit
  <2>2. ~ (elapsed > limit) /\ AllConfirmed \in BOOLEAN /\ pc \notin Over
    BY <2>1 DEF AllConfirmed, Over
  <2> QED  BY <2>1, <2>2 DEF Await!Init
<1>2. WaitIInv /\ [WaitNext]_allWaitVars => [Await!Next]_(Await!vars)
  BY StepAwaits
<1> QED  BY <1>1, <1>2, WaitIInvAlways, PTL DEF WaitSpec, ImplementsAwait, Await!Spec

-----------------------------------------------------------------------------
(* The inductive invariant of create_dapp.                                  *)

Before == {"compose", "sign", "send"}

(* Up to the end of the second wait the call is a wait.                    *)
WaitsAsWait ==
  /\ phase \in Before \cup {"first_wait", "second_wait"} => WaitIInv
  /\ phase \in Before => pc = "fetch" /\ ~ sent
  /\ phase = "second_wait" => limit = timeout
  /\ phase = "sign_error" => ~ sent

(* steady is marked no later than the walk that may end the wait.          *)
SteadyIsCalm == Waiting /\ pc \in {"walk", "true"} /\ steady => calm

AllSucceeded == \A t \in Closure : chain[t].ok

(* The object fetched after the waits is the confirmed root.               *)
SnapIsWhole == SnapPast /\ is_tx_confirmed(snap)

(* The walk for success: all it read succeeded, the rest is in its queue.  *)
SuccessAccounted ==
  /\ seen \cup Items(todo) \subseteq Closure
  /\ Root \in seen \cup Items(todo)
  /\ \A t \in seen : chain[t].ok /\ EmittedBy(t) \subseteq seen \cup Items(todo)

(* The walk for confirmations reads nothing but the tree.                  *)
RestInside == Items(todo) \subseteq Closure

Exact == ok = "True" <=> \A t \in Closure : chain[t].ok /\ t \notin Refunds

(* What each stage after the waits rests on, as long as no block is forked *)
(* out.  The whole tree is confirmed all the time, so it is frozen.        *)
Grounds ==
  steady =>
    /\ phase \in {"refetch", "success?", "confirmed?", "collect"} => ClosureConfirmed
    /\ phase \in {"success?", "confirmed?", "collect"} => SnapIsWhole
    /\ phase = "success?" => SuccessAccounted
    /\ phase \in {"confirmed?", "collect"} => AllSucceeded
    /\ phase = "confirmed?" => RestInside
    /\ phase = "collect" => Inside /\ Covers
    /\ Judged => ClosureConfirmed /\ Exact
    /\ phase # "type_error"

DappTyped ==
  /\ WaitTypeOK /\ CollectTyped /\ steady \in BOOLEAN
  /\ phase \in Before \cup Ended \cup {"first_wait", "second_wait", "refetch", "success?",
                                       "confirmed?", "collect"}
  /\ timeout \in Asked
  /\ ok \in {"None", "True", "False"}

DappIInv ==
  /\ DappTyped
  /\ NoRelaysUnlessConfirmed
  /\ WaitsAsWait
  /\ SteadyIsCalm
  /\ Grounds

(* The invariant of create_dapp holds at the start,                         *)
LEMMA InitDappIInv == DappInit => DappIInv
<1> SUFFICES ASSUME DappInit PROVE DappIInv
  OBVIOUS
<1> USE DEF DappInit
<1>1. WaitIInv /\ WaitTypeOK /\ NoRelaysUnlessConfirmed /\ pc = "fetch"
  BY InitWaitIInv DEF WaitIInv, WaitInit
<1>2. CollectTyped /\ steady = TRUE
  <2>1. /\ queue \in Seq(Seq(Ref)) /\ cur \in Seq(Ref)
        /\ res \in Seq(Txs \cup {Blank})
    BY DEF CollectInit
  <2>2. Pending("UNKNOWN") \in TxView
    BY PendingTyped
  <2> QED  BY <2>1, <2>2 DEF CollectTyped, CollectInit, NoTx
<1> QED
  BY <1>1, <1>2
     DEF DappIInv, DappTyped, WaitsAsWait, SteadyIsCalm, Waiting, Before, Grounds, Judged

-----------------------------------------------------------------------------
(* Every step keeps it.                                                     *)

(* What the stages rest on, when a step leaves the data of the call alone. *)
LEMMA GroundsSame ==
  ASSUME UNCHANGED <<chain, todo, seen, collectVars>>
  PROVE  /\ ClosureConfirmed => ClosureConfirmed'
         /\ SnapIsWhole => SnapIsWhole'
         /\ SuccessAccounted => SuccessAccounted'
         /\ AllSucceeded => AllSucceeded'
         /\ RestInside => RestInside'
         /\ Inside => Inside'
         /\ Covers => Covers'
         /\ Exact /\ ok' = ok => Exact'
<1>1. /\ chain' = chain /\ Items(todo)' = Items(todo) /\ seen' = seen
      /\ UNCHANGED collectVars
  BY DEF Items
<1> QED
  BY <1>1, ChainSame, CollectSame, InsideSame
     DEF SnapIsWhole, SuccessAccounted, AllSucceeded, RestInside, Exact

(* The types of the wait's variables, once the call has left its waits.    *)
LEMMA LateTyped ==
  ASSUME WaitTypeOK, chain' = chain, UNCHANGED waitVars, WalkTyped', calm' \in BOOLEAN
  PROVE  WaitTypeOK'
BY DEF WaitTypeOK, waitVars, WalkTyped, Pure, Items

(* After the waits the call leaves the chain and the waits' variables, so  *)
(* what is left to show of a step is what its stage rests on.              *)
Late == {"refetch", "success?", "confirmed?", "collect"}

(* after a step behind the waits that keeps the types and the grounds of    *)
(* the verdict,                                                             *)
LEMMA LateStepKeeps ==
  ASSUME DappIInv, phase \in Late, phase' \in Late \cup {"returned", "type_error"},
         chain' = chain, UNCHANGED waitVars, steady' = steady, timeout' = timeout,
         WalkTyped', calm' \in BOOLEAN, CollectTyped', ok' \in {"None", "True", "False"},
         Grounds'
  PROVE  DappIInv'
<1>1. WaitTypeOK' /\ NoRelaysUnlessConfirmed'
  BY LateTyped, ChainSame DEF DappIInv, DappTyped
<1>2. DappTyped'
  BY <1>1 DEF DappIInv, DappTyped, Late, Ended
<1>3. WaitsAsWait' /\ SteadyIsCalm'
  BY DEF WaitsAsWait, SteadyIsCalm, Waiting, Before, Late
<1> QED  BY <1>1, <1>2, <1>3 DEF DappIInv

(* The types that the invariant holds of.                                   *)
LEMMA LateIsTyped ==
  ASSUME DappIInv
  PROVE  /\ ChainTyped /\ NoRelaysUnlessConfirmed /\ WalkTyped /\ CollectTyped
         /\ calm \in BOOLEAN /\ steady \in BOOLEAN /\ ok \in {"None", "True", "False"}
BY DEF DappIInv, DappTyped, WaitTypeOK, ChainTyped, WalkTyped, Pure

(* The steps that change nothing but the stage of the call and its result. *)
LEMMA StageKeepsDappIInv ==
  ASSUME DappIInv, UNCHANGED <<allWaitVars, collectVars, steady, sync, timeout>>,
         ok' \in {"None", "True", "False"},
         \/ phase' = phase /\ sent' = sent /\ ok' = ok
         \/ phase \in Before /\ phase' \in Before \cup {"sign_error"} /\ sent' = sent
         \/ phase \in Before /\ phase' = "first_wait"
         \/ phase' \in {"raised", "timeout_error"}
         \/ phase' = "returned" /\ pc # "true"
  PROVE  DappIInv'
<1>1. /\ UNCHANGED <<chain, todo, seen, calm, pc, limit, elapsed, target>>
      /\ UNCHANGED collectVars /\ UNCHANGED allWaitVars
      /\ steady' = steady /\ sync' = sync /\ timeout' = timeout
  BY DEF allWaitVars
<1>2. WaitTypeOK' /\ CollectTyped' /\ NoRelaysUnlessConfirmed'
  BY <1>1, ChainSame, CollectSame DEF DappIInv, DappTyped, WaitTypeOK, Items
<1>3. WaitIInv => WaitIInv'
  BY <1>1, StepKeepsWaitIInv
<1>4. DappTyped'
  BY <1>1, <1>2 DEF DappIInv, DappTyped, Before, Ended
<1>5. WaitsAsWait'
  <2>1. WaitsAsWait
    BY DEF DappIInv
  <2> QED  BY <1>1, <1>3, <2>1 DEF WaitsAsWait, Before
<1>6. SteadyIsCalm'
  <2>1. WaitsAsWait /\ SteadyIsCalm
    BY DEF DappIInv
  <2> QED  BY <1>1, <2>1 DEF WaitsAsWait, SteadyIsCalm, Waiting, Before
<1>7. Grounds'
  <2>1. CASE phase' = phase /\ ok' = ok
    <3>1. Grounds
      BY DEF DappIInv
    <3> QED  BY <1>1, <2>1, <3>1, GroundsSame DEF Grounds, Judged
  <2>2. CASE ~ (phase' = phase /\ ok' = ok)
    BY <1>1, <2>2 DEF Grounds, Judged, Before, DappIInv, WaitsAsWait
  <2> QED  BY <2>1, <2>2
<1> QED  BY <1>2, <1>4, <1>5, <1>6, <1>7 DEF DappIInv

(* A step of one of the two waits.                                          *)
LEMMA WaitStepKeepsDappIInv ==
  ASSUME DappIInv, WaitStep \/ WaitClock
  PROVE  DappIInv'
<1>1. /\ phase \in {"first_wait", "second_wait"}
      /\ UNCHANGED collectVars
      /\ UNCHANGED <<phase, sync, timeout, sent, ok>>
      /\ CallStep \/ TimePasses
  BY DEF WaitStep, WaitClock, Waiting, dappVars
<1>2. WaitIInv
  BY <1>1 DEF DappIInv, WaitsAsWait
<1>3. WaitIInv' /\ WaitTypeOK' /\ NoRelaysUnlessConfirmed'
  BY <1>1, <1>2, StepKeepsWaitIInv DEF WaitNext, WaitIInv
<1>4. limit' = limit /\ steady' \in BOOLEAN
  BY <1>1
     DEF WaitStep, WaitClock, CallStep, TimePasses, FetchOnce, WalkOn, WalkSucceeds, WalkFails,
         GiveUpWaiting, SleepAndRetry, RpcFails, DappIInv, DappTyped
<1>5. DappTyped' /\ WaitsAsWait'
  BY <1>1, <1>3, <1>4, CollectSame
     DEF DappIInv, DappTyped, WaitsAsWait, Before, Waiting
<1>6. SteadyIsCalm'
  <2>1. CASE WaitStep
    <3>1. \/ calm' = TRUE
          \/ pc' \notin {"walk", "true"}
          \/ pc = "walk" /\ calm' = calm
      BY <2>1
         DEF WaitStep, CallStep, FetchOnce, WalkOn, WalkSucceeds, WalkFails, AcceptRead,
             GiveUpWaiting, SleepAndRetry, RpcFails, StartWalk
    <3>2. pc = "walk" => steady' = steady
      BY <2>1 DEF WaitStep, DappIInv, DappTyped
    <3> QED  BY <1>1, <3>1, <3>2 DEF DappIInv, SteadyIsCalm, Waiting
  <2>2. CASE WaitClock
    BY <1>1, <2>2 DEF WaitClock, TimePasses, DappIInv, SteadyIsCalm, Waiting
  <2> QED  BY <2>1, <2>2
<1>7. Grounds'
  BY <1>1 DEF Grounds, Judged
<1> QED  BY <1>3, <1>5, <1>6, <1>7 DEF DappIInv

(* The end of the first wait: send_transaction returns and the second wait *)
(* begins, with its own clock and limit.                                   *)
LEMMA FirstWaitEndsKeepsDappIInv ==
  ASSUME DappIInv, FirstWaitEnds
  PROVE  DappIInv'
<1> USE DEF FirstWaitEnds
<1>1. CASE pc = "true"
  <2>1. /\ phase' = "second_wait" /\ pc' = "fetch" /\ elapsed' = 0 /\ limit' = timeout
        /\ UNCHANGED <<chain, todo, seen, calm, target>> /\ UNCHANGED collectVars
        /\ steady' = steady /\ ok' = ok /\ timeout' = timeout
    BY <1>1 DEF walkVars, SecondLimit
  <2>2. limit' \in Timeouts /\ elapsed' \in 0 .. limit' + 1
    <3>1. timeout \in Timeouts /\ timeout \in Nat
      BY LimitsAreTimeouts, TimeoutsAreNat DEF DappIInv, DappTyped
    <3>2. \A n \in Nat : 0 \in 0 .. n + 1
      OBVIOUS
    <3> QED  BY <2>1, <3>1, <3>2
  <2>3. WaitIInv
    BY DEF DappIInv, WaitsAsWait
  <2>4. WaitTypeOK'
    BY <2>1, <2>2, <2>3 DEF WaitIInv, WaitTypeOK, Items
  <2>5. WaitIInv'
    BY <2>1, <2>3, <2>4, ChainSame
       DEF WaitIInv, WalkCovers, WalkStaysInside, DoneMeansEmpty
  <2>6. DappTyped' /\ WaitsAsWait'
    BY <2>1, <2>4, <2>5, CollectSame DEF DappIInv, DappTyped, WaitsAsWait, Before
  <2>7. SteadyIsCalm' /\ Grounds' /\ NoRelaysUnlessConfirmed'
    BY <2>1, <2>5 DEF SteadyIsCalm, Grounds, Judged, WaitIInv
  <2> QED  BY <2>6, <2>7 DEF DappIInv
<1>2. CASE pc # "true"
  BY <1>2, StageKeepsDappIInv DEF walkVars, allWaitVars, DappIInv, DappTyped
<1> QED  BY <1>1, <1>2

(* The end of the second wait: if no block was forked out since its last   *)
(* walk began, the whole relay tree is confirmed, and hence frozen.        *)
LEMMA SecondWaitEndsKeepsDappIInv ==
  ASSUME DappIInv, SecondWaitEnds
  PROVE  DappIInv'
<1> USE DEF SecondWaitEnds
<1>1. CASE pc = "true"
  <2>1. /\ phase' = "refetch"
        /\ UNCHANGED <<chain, todo, seen, calm, pc, limit, elapsed, target>>
        /\ UNCHANGED collectVars
        /\ steady' = steady /\ ok' = ok
    BY <1>1 DEF allWaitVars
  <2>2. ASSUME steady
        PROVE  ClosureConfirmed
    <3>1. WaitIInv /\ calm /\ todo = <<>>
      BY <1>1, <2>2
         DEF DappIInv, WaitsAsWait, SteadyIsCalm, Waiting, WaitIInv, DoneMeansEmpty
    <3> QED  BY <1>1, <3>1, DoneIsWhole DEF AllConfirmed, ClosureConfirmed
  <2>3. WaitTypeOK' /\ NoRelaysUnlessConfirmed'
    BY <2>1, ChainSame DEF DappIInv, DappTyped, WaitTypeOK, Items
  <2>4. DappTyped' /\ WaitsAsWait' /\ SteadyIsCalm'
    BY <2>1, <2>3, CollectSame
       DEF DappIInv, DappTyped, WaitsAsWait, Before, SteadyIsCalm, Waiting
  <2>5. Grounds'
    <3>1. steady' => ClosureConfirmed'
      <4>1. ClosureConfirmed => ClosureConfirmed'
        BY <2>1, ChainSame
      <4> QED  BY <2>1, <2>2, <4>1
    <3> QED  BY <2>1, <3>1 DEF Grounds, Judged
  <2> QED  BY <2>3, <2>4, <2>5 DEF DappIInv
<1>2. CASE pc # "true"
  BY <1>2, StageKeepsDappIInv DEF allWaitVars, DappIInv, DappTyped
<1> QED  BY <1>1, <1>2

(* The stages after the waits.                                              *)
LEMMA RefetchKeepsDappIInv ==
  ASSUME DappIInv, Refetch
  PROVE  DappIInv'
<1>1. /\ phase = "refetch" /\ phase' = "success?"
      /\ FetchSnapshot /\ StartWalk(HashOf(Root0, snap'))
      /\ chain' = chain /\ UNCHANGED waitVars
      /\ steady' = steady /\ timeout' = timeout /\ ok' = ok
  BY DEF Refetch, Root0
<1>2. ChainTyped /\ CollectTyped /\ ok \in {"None", "True", "False"}
  BY LateIsTyped
<1>3. /\ CollectTyped' /\ SnapPast' /\ snap' = chain[Root]
      /\ HashOf(Root0, snap') \in {Root, Blank}
  BY <1>1, <1>2, FetchIsPast
<1>4. PICK h \in Txs \cup {Blank} : h = HashOf(Root0, snap')
  BY <1>3, RootIsTx
<1>5. WalkTyped' /\ calm' /\ seen' = {} /\ Items(todo)' = {h}
  BY <1>1, <1>4, StartAccounts
<1>6. calm' \in BOOLEAN
  BY <1>1 DEF StartWalk
<1>7. ASSUME steady
      PROVE  ClosureConfirmed' /\ SnapIsWhole' /\ SuccessAccounted'
  <2>1. ClosureConfirmed /\ chain[Root].state \in ConfirmedStates
    BY <1>1, <1>7, ClosureIsClosed DEF DappIInv, Grounds, ClosureConfirmed
  <2>2. ClosureConfirmed' /\ SnapIsWhole'
    BY <1>1, <1>3, <2>1, ChainSame DEF SnapIsWhole, is_tx_confirmed
  <2>3. h = Root
    BY <1>3, <1>4, <2>1 DEF HashOf, Root0, ConfirmedStates
  <2>4. Root \in Closure'
    BY <1>1, ClosureIsClosed, ChainSame
  <2>5. SuccessAccounted'
    BY <1>5, <2>3, <2>4 DEF SuccessAccounted
  <2> QED  BY <2>2, <2>5
<1>8. Grounds'
  BY <1>1, <1>7 DEF Grounds, Judged
<1> QED  BY <1>1, <1>2, <1>3, <1>5, <1>6, <1>8, LateStepKeeps DEF Late

(* What a later walk reads of the tree: the transaction at the head of its *)
(* queue, and what it puts there in its place.                             *)
LEMMA LateReads ==
  ASSUME ChainTyped, WalkTyped, NEW b, AcceptRead(b), Head(todo).base \in Closure
  PROVE  /\ cur_tx = chain[Head(todo).base]
         /\ EmittedBy(Head(todo).base) \subseteq Closure
<1>1. Head(todo).base \in Txs
  BY DEF Closure
<1>2. EmittedBy(Head(todo).base) \subseteq Txs
  BY <1>1 DEF ChainTyped, EmittedBy, Items
<1>3. cur_tx = chain[Head(todo).base]
  BY <1>1, AcceptMoves
<1> QED  BY <1>2, <1>3, ClosureIsClosed

(* The walk for success. What it rejects is the witness of the verdict.    *)
LEMMA SuccessWalkKeepsDappIInv ==
  ASSUME DappIInv, SuccessWalk
  PROVE  DappIInv'
<1>1. /\ phase = "success?"
      /\ chain' = chain /\ UNCHANGED waitVars /\ UNCHANGED collectVars
      /\ steady' = steady /\ timeout' = timeout /\ sent' = sent
  BY DEF SuccessWalk
<1>2. ChainTyped /\ WalkTyped /\ calm \in BOOLEAN /\ ok \in {"None", "True", "False"}
  BY LateIsTyped
<1>3. ASSUME steady
      PROVE  ClosureConfirmed /\ SnapIsWhole /\ SuccessAccounted
  BY <1>1, <1>3 DEF DappIInv, Grounds
<1>4. ASSUME WalkTyped', calm' \in BOOLEAN, ok' \in {"None", "True", "False"},
             phase' \in {"success?", "returned", "confirmed?"}, Grounds'
      PROVE  DappIInv'
  <2>1. CollectTyped'
    BY <1>1, CollectSame, LateIsTyped
  <2> QED  BY <1>1, <1>4, <2>1, LateStepKeeps DEF Late
<1>5. ASSUME AcceptRead(is_tx_success(cur_tx)), UNCHANGED <<phase, ok>>
      PROVE  DappIInv'
  <2> DEFINE h == Head(todo)
  <2>1. todo # <<>> /\ cur_tx.ok /\ calm' = calm
    BY <1>5 DEF AcceptRead, is_tx_success
  <2>2. h \in Pure
    BY <1>2, <2>1, ItemsOfTail DEF WalkTyped
  <2>3. h.base \in Txs
    BY <2>1, <2>2 DEF Pure, cur_tx, get_transaction, Answer, Pending
  <2>4. /\ WalkTyped' /\ h.base \in Items(todo) /\ cur_tx = chain[h.base]
        /\ seen' = seen \cup {h.base}
        /\ Items(todo) = {h.base} \cup Items(Tail(todo))
        /\ Items(todo)' = Items(Tail(todo)) \cup EmittedBy(h.base)
    BY <1>2, <1>5, <2>3, AcceptMoves
  <2>5. ASSUME steady
        PROVE  SuccessAccounted'
    <3>1. SuccessAccounted
      BY <1>3, <2>5
    <3>2. EmittedBy(h.base) \subseteq Closure
      BY <1>2, <1>5, <2>4, <3>1, LateReads DEF SuccessAccounted
    <3> QED  BY <1>1, <2>1, <2>4, <3>1, <3>2, ChainSame DEF SuccessAccounted
  <2>6. steady => ClosureConfirmed' /\ SnapIsWhole'
    BY <1>1, <1>3, ChainSame, CollectSame, InsideSame DEF SnapIsWhole
  <2>7. Grounds'
    BY <1>1, <1>5, <2>5, <2>6 DEF Grounds, Judged
  <2> QED  BY <1>1, <1>2, <1>4, <1>5, <2>1, <2>4, <2>7
<1>6. ASSUME RejectRead(is_tx_success(cur_tx)), phase' = "returned", ok' = "False"
      PROVE  DappIInv'
  <2> DEFINE h == Head(todo)
  <2>1. todo # <<>> /\ ~ cur_tx.ok /\ UNCHANGED <<todo, seen, calm>>
    BY <1>6 DEF RejectRead, is_tx_success, walkVars
  <2>2. h \in Pure /\ h.base \in Items(todo)
    BY <1>2, <2>1, ItemsOfTail DEF WalkTyped
  <2>3. ASSUME steady
        PROVE  ClosureConfirmed' /\ Exact'
    <3>1. h.base \in Closure /\ h.base \in Txs
      BY <1>3, <2>2, <2>3 DEF SuccessAccounted, Closure
    <3>2. ~ chain[h.base].ok
      BY <2>1, <2>2, <3>1 DEF cur_tx, get_transaction, Answer, Pure
    <3>3. Closure' = Closure /\ (ClosureConfirmed => ClosureConfirmed')
      BY <1>1, ChainSame
    <3> QED  BY <1>1, <1>3, <1>6, <2>3, <3>1, <3>2, <3>3 DEF Exact
  <2>4. Grounds'
    BY <1>1, <1>6, <2>3 DEF Grounds
  <2>5. WalkTyped'
    BY <1>2, <2>1 DEF WalkTyped
  <2> QED  BY <1>2, <1>4, <1>6, <2>1, <2>4, <2>5
<1>7. ASSUME todo = <<>>, StartWalk(HashOfSnap), phase' = "confirmed?", UNCHANGED ok
      PROVE  DappIInv'
  <2>1. PICK h \in Txs \cup {Blank} : h = HashOf(Root0, snap)
    BY RootIsTx DEF HashOf, Root0
  <2>2. WalkTyped' /\ calm' \in BOOLEAN /\ Items(todo)' = {h}
    BY <1>7, <2>1, StartAccounts DEF HashOfSnap, Root0, StartWalk
  <2>3. ASSUME steady
        PROVE  /\ ClosureConfirmed' /\ SnapIsWhole' /\ AllSucceeded' /\ RestInside'
    <3>1. ClosureConfirmed /\ SnapIsWhole /\ SuccessAccounted
      BY <1>3, <2>3
    <3>2. h = Root
      BY <2>1, <3>1 DEF HashOf, Root0, SnapIsWhole, is_tx_confirmed, ConfirmedStates
    <3>3. Items(todo) = {}
      BY <1>7 DEF Items
    <3>4. Root \in seen /\ seen \in SUBSET Txs /\ RelayClosed(seen)
          /\ \A t \in seen : chain[t].ok
      BY <1>2, <3>1, <3>3 DEF SuccessAccounted, RelayClosed, WalkTyped
    <3>5. AllSucceeded
      BY <3>4, ClosureIsLeast DEF AllSucceeded
    <3>6. AllSucceeded' /\ ClosureConfirmed' /\ SnapIsWhole' /\ Closure' = Closure
      BY <1>1, <3>1, <3>5, ChainSame, CollectSame, InsideSame DEF AllSucceeded, SnapIsWhole
    <3> QED  BY <2>2, <3>2, <3>6, ClosureIsClosed DEF RestInside
  <2>4. Grounds'
    BY <1>1, <1>7, <2>3 DEF Grounds, Judged
  <2> QED  BY <1>4, <1>7, <1>2, <2>2, <2>4
<1> QED  BY <1>5, <1>6, <1>7 DEF SuccessWalk

(* The walk for confirmations finds what the waits found: everything.      *)
LEMMA ConfirmWalkKeepsDappIInv ==
  ASSUME DappIInv, ConfirmWalk
  PROVE  DappIInv'
<1>1. /\ phase = "confirmed?"
      /\ chain' = chain /\ UNCHANGED waitVars
      /\ steady' = steady /\ timeout' = timeout /\ sent' = sent /\ ok' = ok
  BY DEF ConfirmWalk
<1>2. /\ ChainTyped /\ WalkTyped /\ CollectTyped /\ calm \in BOOLEAN
      /\ ok \in {"None", "True", "False"}
  BY LateIsTyped
<1>3. ASSUME steady
      PROVE  ClosureConfirmed /\ SnapIsWhole /\ AllSucceeded /\ RestInside
  BY <1>1, <1>3 DEF DappIInv, Grounds
<1>4. ASSUME steady
      PROVE  ClosureConfirmed' /\ AllSucceeded'
  BY <1>1, <1>3, <1>4, ChainSame DEF AllSucceeded
<1>5. ASSUME AcceptRead(is_tx_confirmed(cur_tx)), UNCHANGED <<phase, collectVars>>
      PROVE  DappIInv'
  <2> DEFINE h == Head(todo)
  <2>1. todo # <<>> /\ is_tx_confirmed(cur_tx) /\ calm' = calm
    BY <1>5 DEF AcceptRead
  <2>2. h \in Pure
    BY <1>2, <2>1, ItemsOfTail DEF WalkTyped
  <2>3. h.base \in Txs
    BY <2>1, <2>2, ConfirmedHead DEF cur_tx
  <2>4. /\ WalkTyped' /\ h.base \in Items(todo)
        /\ Items(todo) = {h.base} \cup Items(Tail(todo))
        /\ Items(todo)' = Items(Tail(todo)) \cup EmittedBy(h.base)
    BY <1>2, <1>5, <2>3, AcceptMoves
  <2>5. ASSUME steady
        PROVE  RestInside' /\ SnapIsWhole'
    <3>1. RestInside /\ SnapIsWhole
      BY <1>3, <2>5
    <3>2. EmittedBy(h.base) \subseteq Closure
      BY <1>2, <1>5, <2>4, <3>1, LateReads DEF RestInside
    <3> QED
      BY <1>1, <1>5, <2>4, <3>1, <3>2, ChainSame, CollectSame, InsideSame
         DEF RestInside, SnapIsWhole
  <2>6. Grounds'
    BY <1>1, <1>4, <1>5, <2>5 DEF Grounds, Judged
  <2>7. CollectTyped' /\ phase' \in Late /\ phase \in Late
    BY <1>1, <1>2, <1>5, CollectSame DEF Late
  <2> QED  BY <1>1, <1>2, <2>1, <2>4, <2>6, <2>7, LateStepKeeps
<1>6. ASSUME RejectRead(is_tx_confirmed(cur_tx)), phase' = "type_error",
             UNCHANGED collectVars
      PROVE  DappIInv'
  <2> DEFINE h == Head(todo)
  <2>1. todo # <<>> /\ ~ is_tx_confirmed(cur_tx) /\ UNCHANGED <<todo, seen, calm>>
    BY <1>6 DEF RejectRead, walkVars
  <2>2. h \in Pure /\ h.base \in Items(todo)
    BY <1>2, <2>1, ItemsOfTail DEF WalkTyped
  <2>3. ~ steady
    <3> SUFFICES ASSUME steady PROVE FALSE
      OBVIOUS
    <3>1. h.base \in Closure /\ h.base \in Txs /\ ClosureConfirmed
      BY <1>3, <2>2 DEF RestInside, Closure
    <3>2. cur_tx = chain[h.base]
      BY <2>2, <3>1 DEF cur_tx, get_transaction, Answer, Pure
    <3> QED  BY <2>1, <3>1, <3>2 DEF ClosureConfirmed, is_tx_confirmed
  <2>4. Grounds' /\ WalkTyped' /\ CollectTyped' /\ phase \in Late
    BY <1>1, <1>2, <2>1, <2>3, <1>6, CollectSame DEF Grounds, WalkTyped, Late
  <2> QED  BY <1>1, <1>2, <1>6, <2>1, <2>4, LateStepKeeps
<1>7. ASSUME StartCollect, phase' = "collect", UNCHANGED walkVars
      PROVE  DappIInv'
  <2>1. UNCHANGED <<todo, seen, calm>> /\ snap' = snap
    BY <1>7 DEF walkVars, StartCollect
  <2>2. /\ CollectTyped'
        /\ ClosureConfirmed /\ SnapPast => Inside' /\ SnapPast'
        /\ SnapPast /\ is_tx_confirmed(snap) => Covers'
    BY <1>1, <1>2, <1>7, StartIsInside
  <2>3. steady => Inside' /\ Covers' /\ SnapIsWhole'
    BY <1>3, <2>1, <2>2 DEF SnapIsWhole, is_tx_confirmed
  <2>4. Grounds'
    BY <1>1, <1>4, <1>7, <2>3 DEF Grounds, Judged
  <2>5. WalkTyped' /\ phase \in Late /\ phase' \in Late
    BY <1>1, <1>2, <1>7, <2>1 DEF WalkTyped, Late
  <2> QED  BY <1>1, <1>2, <2>1, <2>2, <2>4, <2>5, LateStepKeeps
<1> QED  BY <1>5, <1>6, <1>7 DEF ConfirmWalk

(* The collection, and the verdict it ends in.                             *)
LEMMA CollectKeepsDappIInv ==
  ASSUME DappIInv, Collect
  PROVE  DappIInv'
<1>1. /\ phase = "collect" /\ phase' = phase /\ CollectStep
      /\ UNCHANGED <<chain, todo, seen, calm>> /\ UNCHANGED waitVars
      /\ steady' = steady /\ timeout' = timeout /\ ok' = ok
  BY DEF Collect, allWaitVars, dappVars, waitVars
<1>2. /\ ChainTyped /\ WalkTyped /\ CollectTyped /\ calm \in BOOLEAN
      /\ ok \in {"None", "True", "False"}
  BY LateIsTyped
<1>3. /\ CollectTyped' /\ snap' = snap
      /\ Inside => Inside'
      /\ Inside /\ Covers => Covers'
      /\ SnapPast' = SnapPast
  BY <1>1, <1>2, CollectKeeps
<1>4. ASSUME steady
      PROVE  ClosureConfirmed' /\ SnapIsWhole' /\ AllSucceeded' /\ Inside' /\ Covers'
  <2>1. ClosureConfirmed /\ SnapIsWhole /\ AllSucceeded /\ Inside /\ Covers
    BY <1>1, <1>4 DEF DappIInv, Grounds
  <2>2. ClosureConfirmed' /\ AllSucceeded'
    BY <1>1, <2>1, ChainSame DEF AllSucceeded
  <2> QED  BY <1>3, <2>1, <2>2 DEF SnapIsWhole, is_tx_confirmed
<1>5. Grounds'
  BY <1>1, <1>4 DEF Grounds, Judged
<1>6. WalkTyped' /\ phase \in Late /\ phase' \in Late
  BY <1>1, <1>2 DEF WalkTyped, Late
<1> QED  BY <1>1, <1>2, <1>3, <1>5, <1>6, LateStepKeeps

(* It holds after a verdict,                                                *)
LEMMA JudgeKeepsDappIInv ==
  ASSUME DappIInv, Judge
  PROVE  DappIInv'
<1>1. /\ phase = "collect" /\ phase' = "returned" /\ Collected
      /\ ok' = IF NoRefund THEN "True" ELSE "False"
      /\ UNCHANGED <<chain, todo, seen, calm>> /\ UNCHANGED waitVars
      /\ UNCHANGED collectVars /\ steady' = steady /\ timeout' = timeout
  BY DEF Judge, allWaitVars, waitVars
<1>2. WalkTyped /\ CollectTyped /\ calm \in BOOLEAN
  BY LateIsTyped
<1>3. ASSUME steady
      PROVE  ClosureConfirmed' /\ Exact'
  <2>1. ClosureConfirmed /\ AllSucceeded /\ Inside /\ Covers
    BY <1>1, <1>3 DEF DappIInv, Grounds
  <2>2. Closure = Collection \cup {Root}
    BY <1>1, <1>2, <2>1, CollectedIsWhole
  <2>3. NoRefund <=> \A t \in Closure : chain[t].ok /\ t \notin Refunds
    BY <2>1, <2>2, RefundsAreRelays DEF NoRefund, AllSucceeded
  <2>4. ok' = "True" <=> NoRefund
    BY <1>1
  <2>5. ClosureConfirmed' /\ Closure' = Closure
    BY <1>1, <2>1, ChainSame
  <2> QED  BY <1>1, <2>3, <2>4, <2>5 DEF Exact
<1>4. Grounds'
  BY <1>1, <1>3 DEF Grounds
<1>5. WalkTyped' /\ CollectTyped' /\ phase \in Late /\ ok' \in {"True", "False"}
  BY <1>1, <1>2, CollectSame DEF WalkTyped, Late
<1> QED  BY <1>1, <1>2, <1>4, <1>5, LateStepKeeps

(* A step of the node: a tree that is confirmed to its leaves is frozen,   *)
(* and after a reorganisation nothing more is claimed.                      *)
LEMMA NodeKeepsDappIInv ==
  ASSUME DappIInv, sent, NodeMovesSteady, UNCHANGED <<waitVars, collectVars, dappVars>>
  PROVE  DappIInv'
<1>1. /\ NodeMoves
      /\ Progress \/ Reorg
      /\ todo' = todo /\ seen' = seen /\ calm' \in BOOLEAN
      /\ UNCHANGED waitVars /\ UNCHANGED collectVars
      /\ UNCHANGED <<phase, sync, timeout, sent, ok>>
      /\ steady' \in BOOLEAN
      /\ steady' => steady /\ Progress /\ calm' = calm
  BY LateIsTyped DEF NodeMovesSteady, NodeMoves, dappVars
<1>2. ChainTyped /\ NoRelaysUnlessConfirmed
  BY LateIsTyped
<1>3. ChainTyped' /\ NoRelaysUnlessConfirmed'
  BY <1>1, <1>2, NodeKeepsType
<1>4. WaitTypeOK' /\ CollectTyped'
  BY <1>1, <1>3, CollectSame
     DEF DappIInv, DappTyped, WaitTypeOK, ChainTyped, waitVars, Items
<1>5. DappTyped'
  BY <1>1, <1>4 DEF DappIInv, DappTyped
<1>6. WaitsAsWait'
  <2>1. WaitsAsWait
    BY DEF DappIInv
  <2>2. WaitIInv => WaitIInv'
    BY <1>1, NodeKeepsWaitIInv
  <2> QED  BY <1>1, <2>1, <2>2 DEF WaitsAsWait, Before, waitVars
<1>7. SteadyIsCalm'
  BY <1>1 DEF DappIInv, SteadyIsCalm, Waiting, waitVars
<1>8. ASSUME steady', ClosureConfirmed
      PROVE  /\ ClosureConfirmed'
             /\ SnapIsWhole => SnapIsWhole'
             /\ SuccessAccounted => SuccessAccounted'
             /\ AllSucceeded => AllSucceeded'
             /\ RestInside => RestInside'
             /\ Inside => Inside'
             /\ Inside /\ Covers => Covers'
             /\ Exact => Exact'
  <2>1. /\ ClosureConfirmed' /\ Closure' = Closure
        /\ \A t \in Closure : EmittedBy(t)' = EmittedBy(t) /\ chain'[t].ok = chain[t].ok
    BY <1>1, <1>2, <1>8, ConfirmedClosureStays
  <2>2. (SnapPast => SnapPast') /\ (Inside => Inside') /\ (Inside /\ Covers => Covers')
    BY <1>1, <1>2, <1>8, ProgressKeepsCollection
  <2>3. Items(todo)' = Items(todo)
    BY <1>1 DEF Items
  <2>4. SnapIsWhole => SnapIsWhole'
    BY <1>1, <2>2, CollectSame DEF SnapIsWhole
  <2>5. SuccessAccounted => SuccessAccounted'
    BY <1>1, <2>1, <2>3 DEF SuccessAccounted
  <2>6. (AllSucceeded => AllSucceeded') /\ (RestInside => RestInside') /\ (Exact => Exact')
    BY <1>1, <2>1, <2>3 DEF AllSucceeded, RestInside, Exact
  <2> QED  BY <2>1, <2>2, <2>4, <2>5, <2>6
<1>9. Grounds'
  <2>1. Grounds
    BY DEF DappIInv
  <2>2. Judged' = Judged
    BY <1>1 DEF Judged, waitVars
  <2> QED  BY <1>1, <1>8, <2>1, <2>2 DEF Grounds
<1> QED  BY <1>3, <1>5, <1>6, <1>7, <1>9 DEF DappIInv

(* and so after every step,                                                 *)
LEMMA StepKeepsDappIInv ==
  ASSUME DappIInv, [DappNext]_allDappVars
  PROVE  DappIInv'
<1>1. ok \in {"None", "True", "False"}
  BY LateIsTyped
<1>2. CASE Compose \/ Sign
  BY <1>1, <1>2, StageKeepsDappIInv DEF Compose, Sign, Before
<1>3. CASE Send
  <2>1. pc # "true"
    BY <1>3 DEF Send, DappIInv, WaitsAsWait, Before
  <2> QED  BY <1>1, <1>3, <2>1, StageKeepsDappIInv DEF Send, Before
<1>4. CASE WaitStep \/ WaitClock
  BY <1>4, WaitStepKeepsDappIInv
<1>5. CASE FirstWaitEnds
  BY <1>5, FirstWaitEndsKeepsDappIInv
<1>6. CASE SecondWaitEnds
  BY <1>6, SecondWaitEndsKeepsDappIInv
<1>7. CASE Refetch
  BY <1>7, RefetchKeepsDappIInv
<1>8. CASE SuccessWalk
  BY <1>8, SuccessWalkKeepsDappIInv
<1>9. CASE ConfirmWalk
  BY <1>9, ConfirmWalkKeepsDappIInv
<1>10. CASE Collect
  BY <1>10, CollectKeepsDappIInv
<1>11. CASE Judge
  BY <1>11, JudgeKeepsDappIInv
<1>12. CASE LateRpcRaises
  BY <1>1, <1>12, StageKeepsDappIInv DEF LateRpcRaises
<1>13. CASE sent /\ NodeMovesSteady /\ UNCHANGED <<waitVars, collectVars, dappVars>>
  BY <1>13, NodeKeepsDappIInv
<1>14. CASE UNCHANGED allDappVars
  BY <1>1, <1>14, StageKeepsDappIInv DEF allDappVars, dappVars
<1> QED
  BY <1>2, <1>3, <1>4, <1>5, <1>6, <1>7, <1>8, <1>9, <1>10, <1>11, <1>12, <1>13, <1>14
     DEF DappNext, DappStep

(* whatever the node does.                                                  *)
LEMMA DappIInvAlways == DappSpec => []DappIInv
<1>1. DappIInv /\ [DappNext]_allDappVars => DappIInv'
  BY StepKeepsDappIInv
<1> QED  BY <1>1, InitDappIInv, PTL DEF DappSpec

-----------------------------------------------------------------------------
(* The theorems about create_dapp and create_token.                         *)

(* Every variable of create_dapp keeps its type through two waits, four    *)
(* traversals and an object fetched on its own, and nothing reaches the    *)
(* node before it was composed and signed.                                  *)
THEOREM DappTypeCorrect == DappSpec => []DappTypeOK
<1>1. DappIInv => DappTypeOK
  <2> SUFFICES ASSUME DappIInv PROVE DappTypeOK
    OBVIOUS
  <2>1. WalkTyped /\ CollectTyped /\ DappTyped /\ WaitTypeOK /\ WaitsAsWait
    BY LateIsTyped DEF DappIInv, DappTyped
  <2>2. \A i \in DOMAIN todo : todo[i] \in Pure
    <3> HIDE DEF Pure
    <3> QED  BY <2>1 DEF WalkTyped
  <2>3. \A i \in DOMAIN todo : todo[i].group = NoGroup
    BY <2>2 DEF Pure
  <2> QED
    BY <2>1, <2>3 DEF DappTypeOK, CollectTyped, DappTyped, WaitTypeOK, WaitsAsWait, Before
<1> QED  BY <1>1, DappIInvAlways, PTL

(* For every relay tree, every outcome of its transactions and every       *)
(* history of the node: unless a block was forked out since the last walk  *)
(* of the second wait began, create_dapp says True if and only if all of   *)
(* the tree succeeded and none of it returned the deposit.                  *)
THEOREM VerdictIsExactAlways == DappSpec => []VerdictIsExact
<1>1. DappIInv => VerdictIsExact
  BY DEF DappIInv, Grounds, Exact, VerdictIsExact
<1> QED  BY <1>1, DappIInvAlways, PTL

(* The TypeError of iterating None never happens without a reorganisation. *)
THEOREM NoneIsNotIteratedAlways == DappSpec => []NoneIsNotIterated
<1>1. DappIInv => NoneIsNotIterated
  BY DEF DappIInv, Grounds, NoneIsNotIterated
<1> QED  BY <1>1, DappIInvAlways, PTL

-----------------------------------------------------------------------------
(* The second wait implements AwaitCall.                                    *)

(* The pieces of this refinement mapping, by name.                          *)
dappVerdict ==
  IF pc \in Over /\ phase \notin {"first_wait", "timeout_error"} THEN pc ELSE "undecided"

dappLate == phase = "second_wait" /\ elapsed > timeout

(* A step that leaves the verdict and keeps what is whole is the world's.  *)
LEMMA WorldMoves ==
  ASSUME DappIInv, DappIInv', dappVerdict' = dappVerdict,
         chain' = chain \/ ~ calm' \/ (AllConfirmed => AllConfirmed')
  PROVE  SecondAwait!Next
<1>1. calm' \in BOOLEAN
  BY DEF DappIInv, DappTyped, WaitTypeOK
<1>2. AllConfirmed' \in BOOLEAN /\ dappLate' \in BOOLEAN
  BY DEF AllConfirmed, dappLate
<1>3. AllConfirmed /\ ~ AllConfirmed' => ~ calm'
  BY ChainSame DEF AllConfirmed
<1> QED  BY <1>1, <1>2, <1>3 DEF SecondAwait!Next, SecondAwait!World, dappVerdict, dappLate

(* The steps of the second wait are those of the wait that was proved to   *)
(* implement AwaitCall; its limit is the timeout given to create_dapp.     *)
LEMMA SecondWaitStepAwaits ==
  ASSUME DappIInv, phase = "second_wait", CallStep \/ TimePasses,
         phase' = phase, timeout' = timeout
  PROVE  [SecondAwait!Next]_(SecondAwait!vars)
<1>1. WaitIInv /\ limit = timeout
  BY DEF DappIInv, WaitsAsWait
<1>2. limit' = limit
  BY DEF CallStep, TimePasses, FetchOnce, WalkOn, WalkSucceeds, WalkFails, GiveUpWaiting,
         SleepAndRetry, RpcFails
<1>3. [Await!Next]_(Await!vars)
  BY <1>1, StepAwaits DEF WaitNext
<1>4. /\ dappVerdict = verdict /\ dappVerdict' = verdict'
      /\ dappLate = late /\ dappLate' = late'
  BY <1>1, <1>2 DEF dappVerdict, verdict, dappLate, late
<1>5. CASE Await!Next
  BY <1>4, <1>5
     DEF Await!Next, Await!World, Await!AnswerTrue, Await!AnswerFalse, Await!Raise,
         SecondAwait!Next, SecondAwait!World, SecondAwait!AnswerTrue,
         SecondAwait!AnswerFalse, SecondAwait!Raise, dappVerdict, verdict, dappLate, late
<1>6. CASE UNCHANGED Await!vars
  BY <1>4, <1>6 DEF Await!vars, SecondAwait!vars, dappVerdict, verdict, dappLate, late
<1> QED  BY <1>3, <1>5, <1>6

(* A step of create_dapp is one of its second wait's AwaitCall, or changes  *)
(* nothing there.                                                           *)
LEMMA DappStepAwaits ==
  ASSUME DappIInv, [DappNext]_allDappVars
  PROVE  [SecondAwait!Next]_(SecondAwait!vars)
<1>1. DappIInv'
  BY StepKeepsDappIInv
<1>2. CASE Compose \/ Sign \/ Send
  <2>1. pc = "fetch" /\ pc' = pc /\ chain' = chain
    BY <1>2 DEF Compose, Sign, Send, allWaitVars, DappIInv, WaitsAsWait, Before
  <2>2. dappVerdict' = dappVerdict
    BY <2>1 DEF dappVerdict, Over
  <2> QED  BY <1>1, <2>1, <2>2, WorldMoves
<1>3. CASE WaitStep \/ WaitClock
  <2>1. /\ phase' = phase /\ timeout' = timeout
        /\ CallStep \/ TimePasses
        /\ phase \in {"first_wait", "second_wait"}
    BY <1>3 DEF WaitStep, WaitClock, dappVars, Waiting
  <2>2. CASE phase = "first_wait"
    <3>1. dappVerdict' = dappVerdict /\ chain' = chain
      BY <2>1, <2>2
         DEF dappVerdict, CallStep, TimePasses, FetchOnce, WalkOn, WalkSucceeds, WalkFails,
             GiveUpWaiting, SleepAndRetry, RpcFails
    <3> QED  BY <1>1, <3>1, WorldMoves
  <2>3. CASE phase = "second_wait"
    BY <2>1, <2>3, SecondWaitStepAwaits
  <2> QED  BY <2>1, <2>2, <2>3
<1>4. CASE FirstWaitEnds
  <2>1. phase = "first_wait" /\ chain' = chain /\ calm' = calm
    BY <1>4 DEF FirstWaitEnds, walkVars
  <2>2. CASE pc \in {"true", "false"}
    <3>1. dappVerdict' = dappVerdict
      BY <1>4, <2>1, <2>2 DEF FirstWaitEnds, dappVerdict, Over
    <3> QED  BY <1>1, <2>1, <3>1, WorldMoves
  <2>3. CASE pc = "raised"
    <3>1. /\ dappVerdict = "undecided" /\ dappVerdict' = "raised"
          /\ ~ dappLate /\ ~ dappLate'
      BY <1>4, <2>1, <2>3 DEF FirstWaitEnds, dappVerdict, dappLate, Over
    <3>2. AllConfirmed' = AllConfirmed /\ dappLate' = dappLate
      BY <2>1, <3>1, ClosureSame DEF AllConfirmed, dappLate
    <3> QED
      BY <2>1, <3>1, <3>2 DEF SecondAwait!Next, SecondAwait!Raise, dappVerdict, dappLate
  <2> QED  BY <1>4, <2>2, <2>3 DEF FirstWaitEnds
<1>5. CASE SecondWaitEnds
  <2>1. dappVerdict' = dappVerdict /\ chain' = chain
    BY <1>5 DEF SecondWaitEnds, dappVerdict, allWaitVars
  <2> QED  BY <1>1, <2>1, WorldMoves
<1>6. CASE Refetch \/ SuccessWalk \/ ConfirmWalk \/ Collect \/ Judge \/ LateRpcRaises
  <2>1. /\ chain' = chain /\ pc' = pc
        /\ phase \notin {"first_wait", "timeout_error"}
        /\ phase' \notin {"first_wait", "timeout_error"}
    BY <1>6
       DEF Refetch, SuccessWalk, ConfirmWalk, Collect, Judge, LateRpcRaises, waitVars,
           allWaitVars, dappVars
  <2>2. dappVerdict' = dappVerdict
    BY <2>1 DEF dappVerdict
  <2> QED  BY <1>1, <2>1, <2>2, WorldMoves
<1>7. CASE sent /\ NodeMovesSteady /\ UNCHANGED <<waitVars, collectVars, dappVars>>
  <2>1. dappVerdict' = dappVerdict
    BY <1>7 DEF dappVerdict, waitVars, dappVars
  <2>2. Progress \/ ~ calm'
    BY <1>7 DEF NodeMovesSteady, NodeMoves
  <2>3. Progress /\ AllConfirmed => AllConfirmed'
    BY LateIsTyped, ConfirmedClosureStays DEF AllConfirmed, ClosureConfirmed
  <2> QED  BY <1>1, <2>1, <2>2, <2>3, WorldMoves
<1>8. CASE UNCHANGED allDappVars
  <2>1. dappVerdict' = dappVerdict /\ chain' = chain
    BY <1>8 DEF allDappVars, dappVars, allWaitVars, dappVerdict
  <2> QED  BY <1>1, <2>1, WorldMoves
<1> QED
  BY <1>2, <1>3, <1>4, <1>5, <1>6, <1>7, <1>8 DEF DappNext, DappStep

(* For every timeout the caller gives and every history of the node, the   *)
(* second wait is one atomic look at the relay tree, bounded by that       *)
(* timeout, and no later stage of create_dapp unsettles its verdict.       *)
THEOREM SecondWaitImplementsAwait == DappSpec => SecondWaitAwaits
<1>1. DappInit => SecondAwait!Init
  <2> SUFFICES ASSUME DappInit PROVE SecondAwait!Init
    OBVIOUS
  <2>1. pc = "fetch" /\ calm = TRUE /\ phase = "compose"
    BY DEF DappInit, WaitInit, WalkInit
  <2>2. AllConfirmed \in BOOLEAN /\ pc \notin Over
    BY <2>1 DEF AllConfirmed, Over
  <2> QED  BY <2>1, <2>2 DEF SecondAwait!Init
<1>2. DappIInv /\ [DappNext]_allDappVars => [SecondAwait!Next]_(SecondAwait!vars)
  BY DappStepAwaits
<1> QED
  BY <1>1, <1>2, DappIInvAlways, PTL DEF DappSpec, SecondWaitAwaits, SecondAwait!Spec

=============================================================================
