SPECIFICATION Spec

CONSTANTS
  Block = {b1, b2, b3, b4, b5}
  TypeSizes <- MCTypeSizes
  InitialCount = 1
  Counts = {1, 2}

SYMMETRY Addresses

INVARIANT TypeOK
INVARIANT InUseKept
INVARIANT SmallestFit
PROPERTY GrowsOnlyWhenFull
PROPERTY GivesBackFree
PROPERTY AllocatorSpec

CHECK_DEADLOCK FALSE
