SPECIFICATION EventsSpec
CONSTANTS
  root = root
  a = a
  b = b
  c = c
  Root = root
  Blank = Blank
  NoGroup = NoGroup
  Groups = {0, 1}
  External = {b, c}
  Txs <- MCTxs
  ShardOf <- MCShardOf
  Outcomes <- MCOutcomes
INVARIANTS
  EventsTypeOK
  EventsGenuine
  EventsCompleteIfConfirmedFirst
CHECK_DEADLOCK FALSE
