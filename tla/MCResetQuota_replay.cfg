SPECIFICATION Spec
CONSTANTS
  Caller = {c1, c2}
  Key = {k1}
  Account = {a1}
  Null = Null
  Panel = Panel
  WriteOutcomes = {"ok"}
  MaxCredits = 1
  MaxCalls = 2
  MaxRefreshes = 0
  MaxFaults = 0
  MaxErasures = 0
  MaxStops = 0
PROPERTY OutcomeStands
CHECK_DEADLOCK FALSE
