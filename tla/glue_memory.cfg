CONSTANTS
  l1 = l1
  l2 = l2
  Locals <- Variables
  PtrWidth = 8
  MaxAddr = 400
  Lengths <- ShortAndLong
  MaxItems = 2
SPECIFICATION Spec
SYMMETRY Symmetric
INVARIANTS
  TypeOK
  AllocatorContract
  CountsInHeaders
  NothingLeaks
  PayloadsIntact
