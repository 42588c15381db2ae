SPECIFICATION Spec
CONSTANTS
  Stages = 4
  Attempts = 2
  c1 = c1
  Clients = {c1}
  Limit <- StartCrash
INVARIANT StagesInOrder
CHECK_DEADLOCK FALSE
