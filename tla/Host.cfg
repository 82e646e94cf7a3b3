SPECIFICATION HostSpec
CONSTANTS
  Pids = {1, 2, 3}
  MaxStarts = 4
  Rounds = 1
  BusyScans = 3
  Daemons = {1, 2, 3}
  Commands = {1}
  Works = {1}
  MaxCrashes = 2
  Kinds = {"install", "stop", "uninstall", "restart", "update"}
  InUseFor = 4
  MaxSampleGap = 2
  MaxClock = 10
CHECK_DEADLOCK FALSE
INVARIANTS
  SignalsReachTheRun
  SweepEndsClear
  StopIsTrue
  ReadyAfterUse
