SPECIFICATION Spec
CONSTANTS
  NThreads = 3
  Mutex = {m1}
  PreemptAt <- OutsideWindows
  Calls = {"yield", "exit", "join", "destroy"}
  ExitValues = {"null"}
  MaxSchedulings = 2
  MaxPriority = 1
  Rounds = 2
INVARIANTS MutualExclusion NoLostWakeup ContextIntact NoCrash JoinWaits ExitEnds
