SPECIFICATION FairSpec
CONSTANTS
  TicksPerMs = 2
  PollMax = 2
  ReadSize = 2
  ReaderCap = 2
  ExitCodes <- Codes
  MaxTime = 4
  MaxKeys = 0
  MaxPending = 0
  MaxEffects = 0
PROPERTIES
  TimerNeverEarly
