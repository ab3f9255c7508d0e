SPECIFICATION Spec
CONSTANTS
  HEADER = 2
  REGION = 30
  Chunks = 1
  Sizes = {3}
  MayFree = TRUE
  MaxCalls = 13
INVARIANTS TypeOK Disjoint
