SPECIFICATION PageFairSpec
CONSTANTS
  first = first
  second = second
  Stages = 2
  Polls = {first, second}
  MaxWire = 2
  MaxStops = 2
  TrainingFailed = FALSE
INVARIANT FinalStatusWasReal
INVARIANT ShownResultsAreReal
PROPERTY WatchEnds
CHECK_DEADLOCK FALSE
