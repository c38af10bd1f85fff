SPECIFICATION FairSpec
CONSTANTS
  Subs = {s1, s2}
  Threads = {t1, t2}
  NoSocket = NoSocket
  MaxInbox = 1
  MaxCloses = 2
INVARIANTS
  TypeOK
  Stoppable
  GoesOnUnlessSuperseded
  OneLateMessage
PROPERTY
  FoundMeansStopped
