SPECIFICATION HostSpec
CONSTANTS
  MaxConns = 1
  MaxBytes = 0
  MaxEffects = 2
  BufSize = 1
  PipeCap = 1
  SendCap = 1
  SubsChoices <- ServerOnly
PROPERTIES
  WriteReturns
