SPECIFICATION LanesSpec
CONSTANTS
  j1 = j1
  j2 = j2
  j3 = j3
  NoJob = NoJob
  Jobs <- MCJobs3
  Resources <- Lanes2
  Specs <- LaneSpecs
  Submissions <- LaneSubmissions
  Priorities = {0, 2}
  Reminders = FALSE
  Movable <- OnlyThird
  MaxRuns = 1
  MaxAttempts = 1
CHECK_DEADLOCK FALSE
INVARIANTS
  QueueIsOrdered
  DecisionIsRight
PROPERTIES
  StopsAreJustified
