SPECIFICATION Spec
CONSTANTS
  MaxConns = 2
  MaxBytes = 2
  MaxEffects = 1
  BufSize = 2
  PipeCap = 1
  SendCap = 1
  SubsChoices <- AllChoices
INVARIANTS
  TypeOK
  NotifyAccounting
  ChannelOrder
  ThreadOrder
  BytesInFlight
  HandlesReclaimed
PROPERTIES
  BytesInOrder
  ImplementsProtocol
