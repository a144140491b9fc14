CONSTANTS
  Client = {"a"}
  Op = {"a1", "a2"}
  Delete <- MCDelete
  Past <- MCPast
  Own <- MCOwn
  Preloaded <- NothingPreloaded
  Stored = {}
  Joined = {"a"}
  Worker = {w1}
  MaxFrameOps = 1
  MaxDrops = 1
  MaxFaults = 0
  LoadFails = {}
SPECIFICATION Spec
INVARIANTS NothingLost CapExact
CHECK_DEADLOCK FALSE
