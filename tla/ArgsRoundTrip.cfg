CONSTANTS
  Base = 16
  LenBytes = 2
  StrLenBytes = 1
  LimbBytes = 1
  None = None
  Types <- MCTypes
  Depth <- MCDepth
  serialize <- MCSerialize
  deserialize <- MCDeserialize
  Restorable <- MCRestorable
  Calls <- MCCalls
SPECIFICATION Spec
INVARIANT RoundTrip
CHECK_DEADLOCK FALSE
