SPECIFICATION FairSpec
CONSTANTS
  NThreads = 3
  Mutex = {m1}
  PreemptAt <- OutsideWindows
  Calls = {"exit", "join"}
  ExitValues = {"null"}
  MaxSchedulings = 2
  MaxPriority = 2
  Rounds = 1
PROPERTY Termination
