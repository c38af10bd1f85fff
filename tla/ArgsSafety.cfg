SPECIFICATION TxSpec
CONSTANTS
  Base = 16
  LenBytes = 2
  StrLenBytes = 1
  LimbBytes = 1
  None = None
  Types <- MCTypes
  Depth <- MCDepth
  serialize <- MCSerialize
  deserialize <- MCDeserialize
  Restorable <- MCRestorable
  Calls <- TxCalls
  ByteBits = 4
  CoreSpan = 4
  TtlSpan = 8
  NameBytes = 4
  CrcBytes = 1
  NameSizes <- MCNameSizes
  Seeds = {k}
  NoAccount = NoAccount
  BitsPerByte = 4
  HashBytes = 7
  WordBytes = 4
  PowBase = 10
  PowTtl = 1
  PowSize = 1
  NonceSpan = 4
  Hashes <- MCHashes
  Trips <- MCTrips
INVARIANTS
  TypeOK
  CompleteArgumentsSurvive
  OffsetIsExact
  AccountSurvives
  ReadsBack
  WorkIsAsked
CHECK_DEADLOCK FALSE
