CONSTANTS
  Missing = Missing
  Subscriptions <- MCSubscriptions
  Messages <- MCMessages
  Workers = {w1, w2}
  MaxMessages = 4
SPECIFICATION FairSpec
INVARIANTS TypeOK DeliveredAsFiltered OnlyRunningIsOvertaken
CHECK_DEADLOCK FALSE
PROPERTY
  HandledOnceInOrder
  EveryMatchDelivered
