SPECIFICATION Spec
CONSTANTS
  MaxCells = 3
  l1 = l1
  l2 = l2
  l3 = l3
  Locals <- Variables
  ActiveChoices <- NoneOneAll
  MaxCopies = 2
  MaxAbandoned = 1
SYMMETRY Symmetric
INVARIANTS
  TypeOK
  NothingDangles
  CountsAreOwners
PROPERTIES
  StaticIsKept
