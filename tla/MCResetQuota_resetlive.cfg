SPECIFICATION FairSpec
CONSTANTS
  Caller = {c1, c2}
  Key = {k1, k2}
  Account = {a1}
  Null = Null
  Panel = Panel
  WriteOutcomes = {"ok", "lost", "kept"}
  MaxCredits = 1
  MaxCalls = 2
  MaxRefreshes = 1
  MaxFaults = 1
  MaxErasures = 1
  MaxStops = 1
PROPERTY ConsumesAvailableCredit
PROPERTY NoConsumeAfterGate
PROPERTY CallsAnswered
PROPERTY StopCompletes
CHECK_DEADLOCK FALSE
