CONSTANTS
  Client = {"a"}
  Op = {"a1", "a2"}
  Delete <- MCDelete
  Past <- MCPast
  Own <- MCOwn
  Preloaded <- A1Preloaded
  Stored = {}
  Joined = {}
  Worker = {w1}
  MaxFrameOps = 9
  MaxDrops = 0
  MaxFaults = 1
  LoadFails = {}
SPECIFICATION ClaimSpec
PROPERTY RejectedStaysPending
CHECK_DEADLOCK FALSE
