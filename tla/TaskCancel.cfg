SPECIFICATION TaskSpec
CONSTANTS
  MaxTasks = 4
  MaxSubmits = 3
  MaxRuns = 3
  MaxAfter = 2
  MaxTargets = 2
  MaxCancels = 1
  MaxTaskFaults = 1
CHECK_DEADLOCK FALSE
INVARIANTS
  CancelReachesOwner
