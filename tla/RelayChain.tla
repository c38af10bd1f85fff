----------------------------- MODULE RelayChain -----------------------------
(***************************************************************************)
(* The node as the client can observe it: one sent transaction, Root, and  *)
(* the relay transactions that executing it may emit.  The node is outside *)
(* src/; what is modelled is what the client reads of it, the ConfirmState *)
(* (client/types.py), the Invocation.Status and the Invocation.Relays of   *)
(* each transaction, and how these move: transactions arrive, are executed *)
(* in a block, are forked out of the chain again, become final.            *)
(***************************************************************************)
EXTENDS Naturals, Sequences, FiniteSets

CONSTANTS
  Txs,       \* the transactions a call can meet, named by their hash
  Root,      \* the transaction the client sent
  Blank,     \* the Hash of an answer that has none (Box's default)
  NoGroup,   \* a relay hash without a ":<GroupIndex>" suffix
  Groups,    \* the group indices relay hashes carry
  ShardOf,   \* the shard that holds a transaction
  Outcomes   \* what executing a transaction in some block may yield

(* A reference to a transaction: its hash and the suffix that followed ":" *)
Ref == [base : Txs \cup {Blank}, group : Groups \cup {NoGroup}]

ASSUME RootIsTx == Root \in Txs
ASSUME BlankIsNoTx == Blank \notin Txs
ASSUME OutcomesTyped ==
  Outcomes \in [Txs -> SUBSET [ok : BOOLEAN,
                               relays : Seq([base : Txs, group : Groups \cup {NoGroup}])]]

(* A transaction names the relays it emits after it has run, so the hash   *)
(* of a relay depends on its emitter's and no cycle of emissions exists.   *)
ASSUME RelaysAcyclic ==
  \E rank \in [Txs -> 0 .. Cardinality(Txs)] :
    \A t \in Txs : \A o \in Outcomes[t] : \A i \in DOMAIN o.relays :
      rank[t] < rank[o.relays[i].base]

(* For the same reason no relay is emitted by two transactions.            *)
ASSUME OneEmitter ==
  \A t, u \in Txs : \A o \in Outcomes[t], p \in Outcomes[u] :
    (\E i \in DOMAIN o.relays, j \in DOMAIN p.relays :
       o.relays[i].base = p.relays[j].base) => t = u

VARIABLE chain   \* the node's view of every transaction

ConfirmedStates == {"TXN_CONFIRMED", "TXN_FINALIZED", "TXN_ARCHIVED"}

TxnConfirmState ==
  ConfirmedStates \cup
  {"TXN_RELAY_INVALIDED", "TXN_READY", "TXN_ABORTED", "TXN_EXPIRED"}

TxView == [state : TxnConfirmState \cup {"UNKNOWN"}, ok : BOOLEAN, relays : Seq(Ref)]

Pending(s) == [state |-> s, ok |-> FALSE, relays |-> <<>>]

ChainInit == chain = [t \in Txs |-> Pending("UNKNOWN")]

EmittedBy(t) == {chain[t].relays[i].base : i \in DOMAIN chain[t].relays}

Wanted(t) == t = Root \/ \E p \in Txs : t \in EmittedBy(p)

-----------------------------------------------------------------------------
(* The node's steps.                                                        *)

Arrive(t) ==
  /\ chain[t].state \in {"UNKNOWN", "TXN_RELAY_INVALIDED"}
  /\ Wanted(t)
  /\ chain' = [chain EXCEPT ![t] = Pending("TXN_READY")]

Execute(t) ==
  /\ chain[t].state = "TXN_READY"
  /\ Wanted(t)
  /\ \E o \in Outcomes[t] :
       chain' = [chain EXCEPT ![t] =
                   [state |-> "TXN_CONFIRMED", ok |-> o.ok, relays |-> o.relays]]

(* A relay is final only once every transaction that emits it is.          *)
Finalize(t) ==
  /\ chain[t].state = "TXN_CONFIRMED"
  /\ Wanted(t)
  /\ \A p \in Txs : t \in EmittedBy(p) => chain[p].state # "TXN_CONFIRMED"
  /\ chain' = [chain EXCEPT ![t].state = "TXN_FINALIZED"]

Archive(t) ==
  /\ chain[t].state = "TXN_FINALIZED"
  /\ chain' = [chain EXCEPT ![t].state = "TXN_ARCHIVED"]

(* Only a normal transaction, never a relay, is given up for its ISN or    *)
(* for its age.                                                             *)
GiveUp ==
  /\ chain[Root].state = "TXN_READY"
  /\ \E s \in {"TXN_ABORTED", "TXN_EXPIRED"} :
       chain' = [chain EXCEPT ![Root] = Pending(s)]

Fork(t) ==
  /\ chain[t].state = "TXN_CONFIRMED"
  /\ chain' = [chain EXCEPT ![t] = Pending("TXN_READY")]

Invalidate(t) ==
  /\ chain[t].state \in {"TXN_READY", "TXN_CONFIRMED"}
  /\ ~ Wanted(t)
  /\ chain' = [chain EXCEPT ![t] = Pending("TXN_RELAY_INVALIDED")]

Progress ==
  \/ \E t \in Txs : Arrive(t) \/ Execute(t) \/ Finalize(t) \/ Archive(t)
  \/ GiveUp

Reorg == \E t \in Txs : Fork(t) \/ Invalidate(t)

-----------------------------------------------------------------------------
(* What a query answers, and the set of transactions a root stands for.    *)

(* The node finds a transaction by its hash alone, or by its hash and its  *)
(* own shard.  An unknown one is an error or an answer without a state.    *)
Answer(ref) ==
  IF ref.base \in Txs /\ (ref.group = NoGroup \/ ref.group = ShardOf[ref.base])
    THEN chain[ref.base]
    ELSE Pending("UNKNOWN")

RelayClosed(S) == \A t \in S : EmittedBy(t) \subseteq S

(* Root and every relay it leads to, on the chain as it is now.            *)
Closure ==
  {t \in Txs : \A S \in SUBSET Txs : Root \in S /\ RelayClosed(S) => t \in S}

=============================================================================
