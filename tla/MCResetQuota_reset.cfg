SPECIFICATION Spec
CONSTANTS
  Caller = {c1, c2, c3}
  Key = {k1}
  Account = {a1, a2}
  Null = Null
  Panel = Panel
  WriteOutcomes = {"ok", "lost", "kept"}
  MaxCredits = 1
  MaxCalls = 3
  MaxRefreshes = 0
  MaxFaults = 1
  MaxErasures = 1
  MaxStops = 1
SYMMETRY Symmetry
INVARIANT TypeOK
INVARIANT ConsumesBounded
INVARIANT OutcomeTruthful
PROPERTY KeepsPromise
CHECK_DEADLOCK FALSE
