SPECIFICATION FairSpec
CONSTANTS
  a = a
  Calls = {x, y, z}
  Local = {x, y}
  Accounts = {a}
  Account <- MCAccount
  Ttl = 0
  MaxTime = 1
  MaxForks = 1
  MaxRestarts = 1
INVARIANTS
  TypeOK
  AbortedMeansOverlap
  NotExpiredEarly
PROPERTY
  EveryIsnSettles
CHECK_DEADLOCK FALSE
