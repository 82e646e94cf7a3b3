SPECIFICATION LaunchesSpec
CONSTANTS
  j1 = j1
  j2 = j2
  NoJob = NoJob
  Resources <- OneLane
  Priorities = {0, 2}
  Movable <- Nobody
  Reminders = FALSE
  Jobs <- MCJobs2
  Specs <- OnceSpecs
  Submissions <- OnceSubmissions
  Cancellable <- OnlySecond
  MaxRuns = 1
  MaxAttempts = 2
  MaxCrashes = 1
  RemoteTasks = {1, 2}
  MaxGaveUp = 1
  MaxRetries = 1
  MaxIntents = 1
CHECK_DEADLOCK FALSE
INVARIANTS
  RunsStayApart
  RunsEndAsReported
  RoutesAgree
  CancelTakesEffect
