CONSTANTS
  Client = {c1, c2}
  Op = {1, 2, 3, 4}
  Delete = {}
  Past <- NoPast
  Cursor = {cursor}
  Blank = blank
  Null = null
  Active = c1
  Budget = 4
  Little = 0
SPECIFICATION MCSpec
INVARIANTS
  RSTypeOK
  SeqsContiguous
  TimerArmed
  TailComplete
  ProviderTypeOK
  InStep
  StatusTruthful
  
  PeersTold
PROPERTIES
  FarewellSaid
  GhostsFade
CHECK_DEADLOCK FALSE
