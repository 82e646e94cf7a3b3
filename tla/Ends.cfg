SPECIFICATION EndsSpec
CONSTANTS
  j1 = j1
  j2 = j2
  NoJob = NoJob
  Resources <- OneLane
  Priorities = {0, 2}
  Movable <- Nobody
  Reminders = FALSE
  Jobs <- MCJobs1
  Specs <- RetriedSpecs
  Submissions <- RetriedSubmissions
  Cancellable <- OnlyFirst
  MaxRuns = 2
  MaxAttempts = 4
  MaxCrashes = 2
  AdoptionLimit = 3
  MaxFaults = 6
  Prints = {"p1", "p2"}
  ProbeRetries = 3
  MaxServers = 3
  MaxGlitches = 2
CHECK_DEADLOCK FALSE
INVARIANTS
  ContainerRowIsTrue
PROPERTIES
  LaunchSettles
  CancelCompletes
  CleanupSettles
  CancelEndsTask
  ChangeIsTold
