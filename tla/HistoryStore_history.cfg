SPECIFICATION Spec
CONSTANTS
  Caller = {c1, c2}
  Record = {r1, r2}
  MaxRecords = 2
  DirSync = TRUE
  Null = Null
  MaxCalls = 4
  MaxMishaps = 2
INVARIANT TypeOK
INVARIANT AcknowledgedFound
PROPERTY KeepsLog
CHECK_DEADLOCK FALSE
