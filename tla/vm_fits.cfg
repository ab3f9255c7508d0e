SPECIFICATION Spec
CONSTANTS
  NThreads = 3
  NFrames = 6
  NSwap = 1
  MaxPages = 2
  Requests = {"create", "malloc", "grow"}
  PreemptHandler = FALSE
INVARIANTS FirstPageGuarded Contiguous 
