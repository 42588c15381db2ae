SPECIFICATION FairSpec
CONSTANTS
  Stages = 3
  Attempts = 2
  c1 = c1
  Clients = {c1}
  Limit <- Failures
INVARIANTS  QueuedRunIsAttended
PROPERTY QueuedRunSettles
CHECK_DEADLOCK FALSE
