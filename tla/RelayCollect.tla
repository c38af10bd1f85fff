---------------------------- MODULE RelayCollect -----------------------------
(***************************************************************************)
(* DioxClient.get_all_relay_transactions(tx, detail=True), the part after  *)
(* its confirmation walk: a second breadth-first traversal that starts     *)
(* from the object tx the CALLER fetched earlier, and reads every relay    *)
(* twice, once for the result and once for the queue.                      *)
(***************************************************************************)
EXTENDS RelayWalk

VARIABLES
  snap,    \* the transaction object the caller fetched and passes as tx
  queue,   \* the Relays of the objects still to be taken off the queue
  cur,     \* the rest of the Relays of the object taken off last
  half,    \* TRUE between the two reads of the same relay
  res,     \* the result: the hashes of the relay objects read for it
  steady   \* history: no block was forked out since a moment the caller marks

collectVars == <<snap, queue, cur, half, res>>

NoTx == Pending("UNKNOWN")

CollectInit ==
  /\ snap = NoTx
  /\ queue = <<>> /\ cur = <<>> /\ res = <<>>
  /\ half = FALSE
  /\ steady = TRUE

(* tx = self.get_transaction(tx_hash), in the callers.                      *)
FetchSnapshot ==
  /\ snap' = get_transaction([base |-> Root, group |-> NoGroup])
  /\ UNCHANGED <<queue, cur, half, res>>

(* Hash of a fetched object; an object without one yields Box's default.   *)
HashOf(ref, tx) == IF tx.state = "UNKNOWN" THEN Blank ELSE ref.base

FirstQueued(tx) == <<tx.relays>>

StartCollect ==
  /\ queue' = FirstQueued(snap)
  /\ cur' = <<>>
  /\ half' = FALSE
  /\ res' = <<>>
  /\ UNCHANGED snap

TakeObject ==
  /\ cur = <<>>
  /\ queue # <<>>
  /\ cur' = Head(queue)
  /\ queue' = Tail(queue)
  /\ UNCHANGED <<snap, half, res>>

ReadForResult ==
  /\ cur # <<>> /\ ~ half
  /\ LET h == NormalizeRelayHash(Head(cur))
     IN  res' = Append(res, HashOf(h, get_transaction(h)))
  /\ half' = TRUE
  /\ UNCHANGED <<snap, queue, cur>>

FaultyOneLevel ==    \* the relays of a relay are not queued
  /\ half
  /\ cur' = Tail(cur)
  /\ half' = FALSE
  /\ UNCHANGED <<snap, queue, res>>

FaultyReadAgain ==   \* res and q are set up inside the loop
  /\ half
  /\ StartCollect

ReadForQueue ==
  /\ half
  /\ queue' = Append(queue, get_transaction(NormalizeRelayHash(Head(cur))).relays)
  /\ cur' = Tail(cur)
  /\ half' = FALSE
  /\ UNCHANGED <<snap, res>>

CollectStep == TakeObject \/ ReadForResult \/ ReadForQueue

Collected == cur = <<>> /\ queue = <<>>

(* The node's steps, as this module's history variable sees them.          *)
NodeMovesSteady ==
  /\ NodeMoves
  /\ steady' = (steady /\ ~ Reorg)

Collection == {res[i] : i \in DOMAIN res}

=============================================================================
