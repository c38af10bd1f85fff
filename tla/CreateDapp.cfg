SPECIFICATION FairDappSpec
CONSTANTS
  root = root
  a = a
  r = r
  Root = root
  Blank = Blank
  NoGroup = NoGroup
  Groups = {0, 1}
  Timeouts = {0, 1, 2}
  DEFAULT_TIMEOUT = 1
  Asked = {0, 2}
  Refunds = {r}
  Txs <- MCTxs
  ShardOf <- MCShardOf
  Outcomes <- MCOutcomes
INVARIANTS
  DappTypeOK
  VerdictIsExact
  NoneIsNotIterated
CHECK_DEADLOCK FALSE
PROPERTIES
  SecondWaitAwaits
  DappReturns
