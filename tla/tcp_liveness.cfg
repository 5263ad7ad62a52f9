SPECIFICATION FairSpec
CONSTANTS
  MaxConns = 2
  MaxBytes = 1
  MaxEffects = 1
  BufSize = 1
  PipeCap = 1
  SendCap = 1
  SubsChoices <- ServerOnly
PROPERTIES
  DisconnectReported
  AllBytesDelivered
  SendErrorReported
