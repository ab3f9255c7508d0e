SPECIFICATION Spec
CONSTANTS
  Worker = {w1}
  Writer = {w1}
  Request = {"create", "mkdir", "unlink"}
  Name = {"a", "b"}
  Depth = 2
  NInodes = 4
  NData = 2
  PerMap = 2
  NEntries = 4
  NPointers = 2
  FirstIndex = {0, 1, 2}
  MaxCalls = 4
  MaxCrashes = 1
  FailAt = {"dmapWrite", "initDir"}
  MaxFailures = 1
INVARIANTS TypeOK Consistent Durable RootUnlessCut LeakBounded
PROPERTY TreeGrowsAtomically
