SPECIFICATION FairSpec
CONSTANTS
  MaxFds = 6
  MaxInherited = 2
  MaxConns = 2
  MaxReads = 1
  PipeCap = 1
INVARIANTS
  TypeOK
  HeldOnce
  LoopUndisturbed
  StraysUnheard
PROPERTIES
  DescriptorsReturned
  BacklogServed
