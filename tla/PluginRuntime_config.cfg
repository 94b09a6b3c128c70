SPECIFICATION FairSpec
CONSTANTS
  Client = {c1, c2}
  HostThread = {h1}
  Job = {j1}
  Draft = {d0, d1}
  DefaultDraft = d0
  Null = Null
  Missing = Missing
  Corrupt = Corrupt
  WriteOutcomes = {"ok", "lost", "kept"}
  MaxRevision = 2
  MaxLives = 2
  MaxMishaps = 2
INVARIANT TypeOK
INVARIANT QuietOutsideLife
PROPERTY KeepsRegister
PROPERTY CallsReturn
CHECK_DEADLOCK FALSE
