---------------------------- MODULE MCConfirmWait ----------------------------
(***************************************************************************)
(* A small instance of ConfirmWait.  Root emits relays a and b, or none; a *)
(* emits c or none; c's emission is two levels below the root.  The group  *)
(* indices of a and c are not their shards, so a query of the hash with    *)
(* its suffix misses them; that of b happens to be its shard.  Timeouts of *)
(* 0 and 1 second allow one and two further walks.                         *)
(***************************************************************************)
EXTENDS ConfirmWait, TLC

CONSTANTS root, a, b, c

MCTxs == {root, a, b, c}
MCShardOf == root :> 0 @@ a :> 1 @@ b :> 0 @@ c :> 1

Relay(t, g) == [base |-> t, group |-> g]
Yields(ok, relays) == [ok |-> ok, relays |-> relays]

MCOutcomes ==
  root :> {Yields(TRUE, <<Relay(a, 0), Relay(b, 0)>>), Yields(FALSE, <<>>)} @@
  a :> {Yields(TRUE, <<Relay(c, 0)>>), Yields(TRUE, <<>>)} @@
  b :> {Yields(TRUE, <<>>)} @@
  c :> {Yields(TRUE, <<>>)}

=============================================================================
