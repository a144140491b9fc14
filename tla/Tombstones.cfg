CONSTANTS
  Client = {c1, c2}
  Op = {1}
  Delete = {}
  Past <- NoPast
  Cursor = {cursor}
  Blank = blank
  Null = null
  Active = c1
  Budget = 2
  Little = 0
SPECIFICATION MCSpec
INVARIANT OwnPresenceOnly
CHECK_DEADLOCK FALSE
