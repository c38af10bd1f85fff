-------------------------- MODULE MCStateDelivery ----------------------------
(***************************************************************************)
(* StateDelivery on messages with the entries the filters tell apart.      *)
(***************************************************************************)
EXTENDS StateDelivery, FiniteSets

Entry(c, k, s) == [contract |-> c, key |-> k, state |-> s]

Bank == <<"dex", "bank">>
Pool == <<"dex", "pool">>

e1 == Entry(Bank, "alice", {"balance"})
e2 == Entry(Pool, "alice", {"rate"})
e3 == Entry(<<"game", "bank">>, "bob", {"balance"})
e4 == Entry(Bank, Missing, {"total"})
e5 == Entry(Missing, "alice", Missing)

Message(height, mode, target, states) ==
  [height |-> height, mode |-> mode, target |-> target, states |-> states]

State(height, states) == Message(height, {}, "none", states)

MCMessages ==
  { State(Missing, [x \in {} |-> <<>>]),
    State(1, [KeyedScopeStates |-> <<e1, e2, e3>>, GlobalStates |-> <<e4>>]),
    State(2, [GlobalScatteredMaps |-> <<e5, e2, e1>>]),
    State(3, [ShardStates |-> <<e1, e3>>, ScatteredMapOnShard_CloneScale |-> <<e3, e5>>]),
    Message(2, {"TMF_EXTERNAL"}, "evm", [x \in {} |-> <<>>]) }

MCSubscriptions ==
  { [by |-> "dapp", dapp |-> "dex"],
    [by |-> "contract", contract |-> Bank],
    [by |-> "key", key |-> "alice"],
    [by |-> "contract_key", contract |-> Bank, key |-> "alice"],
    [by |-> "contract_state", contract |-> Bank, name |-> "balance"],
    [by |-> "contract_state", contract |-> Bank, name |-> "total"],
    [by |-> "height", start |-> 2, end |-> 3],
    [by |-> "external", names |-> {"evm"}],
    [by |-> "external", names |-> Missing] }

=============================================================================
