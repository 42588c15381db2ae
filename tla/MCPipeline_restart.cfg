SPECIFICATION Spec
CONSTANTS
  Stages = 3
  Attempts = 2
  c1 = c1
  c2 = c2
  Clients = {c1, c2}
  Limit <- RestartCancel
SYMMETRY ClientSymmetry
INVARIANT CompletedMeansAllRan
PROPERTY NoUnfinishedRunReplaced
 
PROPERTY CompletedStagesStayCompleted
PROPERTY CancelledStageStaysDropped
CHECK_DEADLOCK FALSE
