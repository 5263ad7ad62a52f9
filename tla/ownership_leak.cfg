SPECIFICATION Spec
CONSTANTS
  MaxCells = 6
  MaxSends = 2
  MaxKept = 1
  KeepsEffects = FALSE
INVARIANTS
  NothingLost
