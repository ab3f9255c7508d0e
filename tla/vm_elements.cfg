SPECIFICATION ElementsSpec
CONSTANTS
  HEADER = 2
  REGION = 20
  Chunks = 1
  Sizes = {1, 2, 3, 10, 11, 16, 18}
  MayFree = TRUE
  MaxCalls = 11
  MaxPages = 3
  Workloads <- MCWorkloads
INVARIANTS ElementsTypeOK Disjoint InPages  PagesBounded
