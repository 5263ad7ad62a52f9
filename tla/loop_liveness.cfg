SPECIFICATION FairSpec
CONSTANTS
  TicksPerMs = 2
  PollMax = 1
  ReadSize = 2
  ReaderCap = 2
  ExitCodes <- Codes
  MaxTime = 3
  MaxKeys = 2
  MaxPending = 1
  MaxEffects = 0
PROPERTIES
  TimerEndsWait
  KeysHeard
  TcpTaken
