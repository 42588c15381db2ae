SPECIFICATION BackendSpec
CONSTANTS
  images1 = images1
  images2 = images2
  images3 = images3
  render = render
  lyrics1 = lyrics1
  lyrics2 = lyrics2
  Callers <- AllCallers
  Types <- JobTypes
  Heavy <- HeavyTypes
  HeavyPool = "HEAVY_GLOBAL"
  typeOf <- TypeOf
  Limit <- Limits
  MaxRuns = 2
  StageOrder <- OneStage
  Origins <- SomeOrigins
  Outputs <- SomeOutputs
  MaxAttempts = 2
  Day = 2
  TopN = 1
  InspectMax = 1
  MinForSlo = 1
  SloWarn = 1
  SloCritical = 2
  LatencyCritical = 2
  MinForLatency = 1
  MaxClock = 2
  WarnPct = 5
  CriticalPct = 20
  MinCompletedWindow = 5
  MaxHours = 2
  Stages = {"YOUTUBE_DOWNLOAD", "TRANSCRIPTION", "ANALYZE_LYRICS", "GENERATE_IMAGES", "RENDER_VIDEO"}
  StageAttempts = 2
  Segments = {50}
  Percents = {60}
  Results <- SomeResults
  MaxMessages = 1
INVARIANTS
  LimitsHold
  
  RetryingAreCounted
  RowTellsOutcome
PROPERTIES
  EveryCallRuns
CHECK_DEADLOCK FALSE
