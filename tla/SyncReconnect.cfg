CONSTANTS
  Client = {"a", "b"}
  Op = {"a1", "d"}
  Delete <- MCDelete
  Past <- MCPast
  Own <- OwnOfB
  Preloaded <- A1Preloaded
  Stored = {}
  Joined = {"b"}
  Worker = {w1}
  MaxFrameOps = 9
  MaxDrops = 1
  MaxFaults = 0
  LoadFails = {}
SPECIFICATION FairSpec
INVARIANTS NothingLost SettledIsConverged
PROPERTY EventuallyConverged
CHECK_DEADLOCK FALSE
