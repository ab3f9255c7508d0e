SPECIFICATION Spec
CONSTANTS
  NThreads = 3
  Mutex = {m1}
  PreemptAt = {"user", "tas"}
  Calls = {"yield"}
  ExitValues = {"null"}
  MaxSchedulings = 9
  MaxPriority = 2
  Rounds = 1
INVARIANT MutualExclusion
