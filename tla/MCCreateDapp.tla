---------------------------- MODULE MCCreateDapp -----------------------------
(***************************************************************************)
(* A small instance of CreateDapp: root emits a, or a and the refund r, or *)
(* fails; a succeeds or fails.                                              *)
(***************************************************************************)
EXTENDS CreateDapp, TLC

CONSTANTS root, a, r

MCTxs == {root, a, r}
MCShardOf == root :> 0 @@ a :> 1 @@ r :> 0

Relay(t, g) == [base |-> t, group |-> g]
Yields(success, relays) == [ok |-> success, relays |-> relays]

MCOutcomes ==
  root :> {Yields(TRUE, <<Relay(a, 0)>>), Yields(FALSE, <<>>)} @@
  a :> {Yields(TRUE, <<>>), Yields(FALSE, <<>>), Yields(TRUE, <<Relay(r, 0)>>)} @@
  r :> {Yields(TRUE, <<>>)}

=============================================================================
