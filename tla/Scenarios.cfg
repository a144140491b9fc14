CONSTANTS
  Client = {"a", "b", "c"}
  Worker = {1, 2}
  Op <- ScenarioOp
  Past <- ScenarioPast
  Own <- ScenarioOwn
  Preloaded <- ScenarioPreloaded
  Delete = {}
  MaxFrameOps = 9
SPECIFICATION ScenarioSpec
INVARIANTS ScenarioTypeOK ChecksHold SeenOnlyStored
PROPERTIES ScriptsFinish
CHECK_DEADLOCK FALSE
