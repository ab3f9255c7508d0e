SPECIFICATION FairSpec
CONSTANTS
  NThreads = 4
  Mutex = {m1}
  PreemptAt = {"user"}
  Calls = {"yield"}
  ExitValues = {}
  MaxSchedulings = 4
  MaxPriority = 2
  Rounds = 0
PROPERTY OldestRuns
