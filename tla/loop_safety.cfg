SPECIFICATION Spec
CONSTANTS
  TicksPerMs = 2
  PollMax = 1
  ReadSize = 2
  ReaderCap = 2
  ExitCodes <- Codes
  MaxTime = 4
  MaxKeys = 2
  MaxPending = 2
  MaxEffects = 1
INVARIANTS
  TypeOK
  DueTimerOvertakenOnce
  NoKeyLeftBehind
  CleanReturn
PROPERTIES
  TimerNearlyOnTime
  ImplementsElmLoop
