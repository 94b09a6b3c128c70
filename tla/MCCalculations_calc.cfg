SPECIFICATION Spec
CONSTANTS
  DayMinutes = 12
  Grain = 4
  DefaultCycle = 5
  Accounts = {0, 1, 2, 3}
  Hash <- MCHash
  PreviewLead = 2
  PreviewSpan = 1
  ScheduleQuestions <- MCSchedules
  UsageQuestions <- MCUsages
INVARIANT PlannedWhereAllowed
INVARIANT PlanComplete
INVARIANT PlanStaggered
INVARIANT CoverageByCycle
INVARIANT ChartsAgree
INVARIANT SnapshotWhole
CHECK_DEADLOCK FALSE
