SPECIFICATION Spec
CONSTANTS
  NThreads = 3
  Mutex = {m1}
  PreemptAt <- Anywhere
  Calls = {"yield", "exit", "mainexit", "join", "destroyContended"}
  ExitValues = {"null"}
  MaxSchedulings = 2
  MaxPriority = 1
  Rounds = 1
INVARIANTS TypeOK JoinersWoken Conservation
PROPERTY Implements
