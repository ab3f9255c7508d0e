SPECIFICATION OSSpec
CONSTANTS
  HEADER = 14
  REGION = 780
  Chunks = 1
  Sizes = {1, 2, 4, 6, 8, 38}
  MayFree = TRUE
  MaxCalls = 26
  NThreads = 3
  NMutexes = 2
  ThreadSize = 80
  StackSize = 90
  Programs <- MCPrograms
  MaxNodes = 4
INVARIANTS OSTypeOK Disjoint  QueuesStartEmpty NoExhaustion
