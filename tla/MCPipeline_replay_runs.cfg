SPECIFICATION FairSpec
CONSTANTS
  Stages = 3
  Attempts = 2
  c1 = c1
  Clients = {c1}
  Limit <- StartReplay
PROPERTY ReplayRuns
CHECK_DEADLOCK FALSE
