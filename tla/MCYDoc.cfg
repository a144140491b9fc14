CONSTANTS
  Client = {}
  Op = {"a1", "a2", "a3", "b1", "d"}
  MaxMerged = 2
  Delete = {"d"}
  Past <- MCPast
  Earlier <- MCEarlier
  Update <- MCUpdate
  Thread = {t1, t2}
SPECIFICATION YSpec
INVARIANTS
  YTypeOK
  ReadyExact
  AdvancesExact
  ServedComplete
