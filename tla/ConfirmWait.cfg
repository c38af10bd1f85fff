SPECIFICATION FairWaitSpec
CONSTANTS
  root = root
  a = a
  b = b
  c = c
  Root = root
  Blank = Blank
  NoGroup = NoGroup
  Groups = {0, 1}
  Timeouts = {0, 1}
  Txs <- MCTxs
  ShardOf <- MCShardOf
  Outcomes <- MCOutcomes
INVARIANTS
  WaitTypeOK
  TrueIsConfirmed
PROPERTIES
  NegativeIsWitnessed
  ImplementsAwait
  CallReturns
CHECK_DEADLOCK FALSE
