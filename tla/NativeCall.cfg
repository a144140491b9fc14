CONSTANTS
  Thread = {t1, t2, t3, t4}
  Caller = {t1, t2, t3}
  NoThread = NoThread
  MaxCalls = 2
SPECIFICATION NativeSpec
INVARIANTS
  NativeTypeOK
  LockDiscipline
  SomebodyGoesOn
PROPERTY
  CallsReturn
