------------------------------ MODULE RelayWalk ------------------------------
(***************************************************************************)
(* The breadth-first walks of DioxClient over a transaction and its relays *)
(* (client/dioxclient.py: is_tx_confirmed_with_relays and                  *)
(* is_tx_success_with_relays).  A walk owns a queue of hashes and makes    *)
(* one RPC per element, so the node moves between any two of its reads.    *)
(***************************************************************************)
EXTENDS RelayChain

VARIABLES
  todo,   \* the queue of the walk in progress
  seen,   \* history: the hashes the walk has read and accepted
  calm    \* history: no block was forked out since the walk's first read

walkVars == <<todo, seen, calm>>

is_tx_confirmed(tx) == tx.state \in ConfirmedStates

is_tx_success(tx) == tx.ok

(* get_transaction: a numeric suffix of the hash becomes the shard_index.  *)
get_transaction(ref) == Answer(ref)

FaultyNormalize(ref) == ref   \* queried as the Relays array has it

(* A relay hash carries a group index that is no shard index: drop it.     *)
NormalizeRelayHash(ref) == [ref EXCEPT !.group = NoGroup]

FaultyRelays(tx) ==   \* only the first relay is followed
  [i \in DOMAIN tx.relays \cap {1} |-> NormalizeRelayHash(tx.relays[i])]

NormalizedRelays(tx) ==
  [i \in DOMAIN tx.relays |-> NormalizeRelayHash(tx.relays[i])]

Items(q) == {q[i].base : i \in DOMAIN q}

WalkInit == todo = <<>> /\ seen = {} /\ calm = TRUE

(* h is the Hash of the transaction object the walk was given.             *)
StartWalk(h) ==
  /\ todo' = <<[base |-> h, group |-> NoGroup]>>
  /\ seen' = {}
  /\ calm' = TRUE

(* The object this turn of the loop reads.                                  *)
cur_tx == get_transaction(Head(todo))

(* One turn of the loop whose read is accepted: its relays are queued.     *)
AcceptRead(accepted) ==
  /\ todo # <<>>
  /\ accepted
  /\ todo' = Tail(todo) \o NormalizedRelays(cur_tx)
  /\ seen' = seen \cup {Head(todo).base}
  /\ UNCHANGED calm

(* One turn whose read is not accepted: the walk returns False.            *)
RejectRead(accepted) ==
  /\ todo # <<>>
  /\ ~ accepted
  /\ UNCHANGED walkVars

(* The node's own steps, as the history variable sees them.                *)
NodeMoves ==
  /\ \/ Progress /\ UNCHANGED calm
     \/ Reorg /\ calm' = FALSE
  /\ UNCHANGED <<todo, seen>>

=============================================================================
