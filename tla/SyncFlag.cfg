CONSTANTS
  Client = {"a"}
  Op = {"a1", "b1"}
  Delete <- MCDelete
  Past <- MCPast
  Own <- MCOwn
  Preloaded <- NothingPreloaded
  Stored = {"b1"}
  Joined = {}
  Worker = {w1}
  MaxFrameOps = 9
  MaxDrops = 0
  MaxFaults = 0
  LoadFails = {}
SPECIFICATION ClaimSpec
INVARIANT SyncedMeansCaughtUp
CHECK_DEADLOCK FALSE
