----------------------------- MODULE MCEventsCall ----------------------------
(***************************************************************************)
(* A small instance of EventsCall: root emits a and the event b, or none;  *)
(* a emits the event c, or none.  An event at either level can be missed.  *)
(***************************************************************************)
EXTENDS EventsCall, TLC

CONSTANTS root, a, b, c

MCTxs == {root, a, b, c}
MCShardOf == root :> 0 @@ a :> 1 @@ b :> 0 @@ c :> 1

Relay(t, g) == [base |-> t, group |-> g]
Yields(ok, relays) == [ok |-> ok, relays |-> relays]

MCOutcomes ==
  root :> {Yields(TRUE, <<Relay(a, 0), Relay(b, NoGroup)>>), Yields(FALSE, <<>>)} @@
  a :> {Yields(TRUE, <<Relay(c, 0)>>), Yields(TRUE, <<>>)} @@
  b :> {Yields(TRUE, <<>>)} @@
  c :> {Yields(TRUE, <<>>)}

=============================================================================
