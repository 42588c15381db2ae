SPECIFICATION OpsSpec
CONSTANTS
  MaxRuns = 1
  StageOrder <- TwoStages
  Origins <- SomeOrigins
  Outputs <- SomeOutputs
  MaxAttempts = 2
  Day = 2
  TopN = 1
  InspectMax = 1
  MinForSlo = 1
  SloWarn = 1
  SloCritical = 2
  LatencyCritical = 2
  MinForLatency = 1
  MaxClock = 2
  WarnPct = 5
  CriticalPct = 20
  MinCompletedWindow = 5
  MaxHours = 2
INVARIANT BreakdownTellsWaits
CHECK_DEADLOCK FALSE
