SPECIFICATION JobEventsSpec
CONSTANTS
  j1 = j1
  j2 = j2
  j3 = j3
  NoJob = NoJob
  Jobs <- MCJobs2
  Resources <- Lanes2
  Specs <- StepSpecs
  Submissions <- StepSubmissions
  Priorities = {0, 2}
  Reminders = TRUE
  Movable <- Nobody
  MaxRuns = 2
  MaxAttempts = 2
  MaxJobSeq = 3
  MaxEpisodes = 2
  MaxJobFaults = 1
CHECK_DEADLOCK FALSE
INVARIANTS
  RunsAreHeld
  WorkIsNotRepeated
  JobNewsIsTrue
PROPERTIES
  EndsOnce
  ContractSpec
  AcceptedStays
  EndIsTold
