SPECIFICATION FairSpec
CONSTANTS
  Requester = {q1, q2}
  Account = {a1, a2}
  RunId = {r1, r2}
  Null = Null
  WorkerLimit = 1
  MaxRequests = 2
  MaxOthers = 2
INVARIANT TypeOK
INVARIANT BusyExact
INVARIANT OneActiveRun
INVARIANT ProgressExact
INVARIANT QuietAfterStop
PROPERTY RunsEnd
PROPERTY StopCompletes
CHECK_DEADLOCK FALSE
