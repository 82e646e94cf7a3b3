SPECIFICATION EventsSpec
CONSTANTS
  Producible = {"queued", "state", "reported"}
  MaxSeq = 3
  MaxFaults = 2
  MaxPerCycle = 2
  MaxAttempts = 2
  CanRestore = TRUE
  Follows = {"task", "chain", "job"}
  MaxStreams = 2
  MaxWaitFaults = 1
INVARIANTS EventsInOrder WaitIsTrue
PROPERTIES EventsSettle WaitEnds
CHECK_DEADLOCK FALSE
