SPECIFICATION Spec
CONSTANTS
  Stages = 3
  Attempts = 2
  c1 = c1
  Clients = {c1}
  Limit <- StartCancel
PROPERTY CancelledNeverCompletes
CHECK_DEADLOCK FALSE
