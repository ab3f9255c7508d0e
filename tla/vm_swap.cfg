SPECIFICATION Spec
CONSTANTS
  NThreads = 3
  NFrames = 3
  NSwap = 2
  MaxPages = 4
  Requests = {"create", "malloc", "grow", "os"}
  PreemptHandler = TRUE
INVARIANTS TypeOK 
