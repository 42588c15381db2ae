SPECIFICATION PageFairSpec
CONSTANTS
  first = first
  second = second
  Stages = 3
  Polls = {first, second}
  MaxWire = 1
  MaxStops = 0
  TrainingFailed = TRUE
PROPERTY NoDrift
CHECK_DEADLOCK FALSE
