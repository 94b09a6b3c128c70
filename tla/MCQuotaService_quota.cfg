SPECIFICATION FairSpec
CONSTANTS
  Account = {a1}
  Reader = {r1}
  Null = Null
  Answers <- MCAnswers
  Configs <- MCConfigs
  WriteOutcomes = {"ok", "lost", "kept"}
  StaleAfter = 2
  MaxTime = 3
  MaxFlights = 3
  MaxClears = 1
  MaxFaults = 1
  MaxRestarts = 1
INVARIANT TypeOK
INVARIANT ClearedNotTrusted
PROPERTY HoldEndsByLaterSnapshot
PROPERTY HoldBlocksUnproved
PROPERTY RefreshesAnswered
CHECK_DEADLOCK FALSE
