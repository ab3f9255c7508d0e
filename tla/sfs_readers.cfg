SPECIFICATION FairSpec
CONSTANTS
  Worker = {w1, w2}
  Writer = {w1}
  Request = {"getattr", "opendir", "readdir", "create", "mkdir", "open", "release", "read", "write",
             "rmdir", "releasedir"}
  Name = {"a", "b"}
  Depth = 2
  NInodes = 4
  NData = 4
  PerMap = 2
  NEntries = 4
  NPointers = 2
  FirstIndex = {0}
  MaxCalls = 4
  MaxCrashes = 0
  FailAt = {"dmapWrite"}
  MaxFailures = 1
PROPERTIES GetattrTruthful ReaddirExact Returns
