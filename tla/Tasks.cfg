SPECIFICATION TasksSpec
CONSTANTS
  MaxTasks = 4
  MaxSubmits = 3
  MaxRuns = 3
  MaxAfter = 2
  MaxTargets = 2
  MaxCancels = 1
  MaxTaskFaults = 1
  Callers = {1, 2}
  Ops = {1, 2}
  Waiting <- TwoWait
  Named = {"x"}
  Devices = {0, 1}
  ByHand <- HandMade
  Tries = 2
  MaxAttentions = 1
  MaxBoots = 2
CHECK_DEADLOCK FALSE
INVARIANTS
  WaitGraphAcyclic
  LaunchesInOrder
  OneOwner
  OperationsHappenOnce
  LanesAreKept
