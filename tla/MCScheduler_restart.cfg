SPECIFICATION Spec
CONSTANTS
  a1 = a1
  a2 = a2
  o1 = o1
  o2 = o2
  Account = {a1, a2}
  Occ = {o1, o2}
  NoOcc = NoOcc
  AccountOf <- MCAccountOf
  DateOf <- SameDay
  Configs <- DayConfigs
  DayLength = 4
  HorizonDays = 1
  RetryDelay = 1
  CompDelay = 1
  WriteOutcomes = {"ok", "lost"}
  MaxTime = 5
  MaxFaults = 0
  MaxUpdates = 0
  MaxStops = 1
PROPERTY RestartKeepsFutureOccurrences
CHECK_DEADLOCK FALSE
