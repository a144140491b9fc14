CONSTANTS
  Client = {"a", "b"}
  Op = {"a1", "b2"}
  Delete <- MCDelete
  Past <- MCPast
  Own <- MCOwn
  Preloaded <- NothingPreloaded
  Stored = {}
  Joined = {"a", "b"}
  Worker = {w1, w2}
  MaxFrameOps = 9
  MaxDrops = 0
  MaxFaults = 1
  LoadFails = {"step2", "update"}
SPECIFICATION FairSpec
INVARIANTS
  TypeOK
  NothingLost
  TailNeverGaps
  SyncInv
  SettledIsConverged
PROPERTIES
  KeepsPromise
  PrunedIsTold
  EventuallyConverged
CHECK_DEADLOCK FALSE
