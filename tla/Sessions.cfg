SPECIFICATION SessionsSpec
CONSTANTS
  Hosts = {"here", "there"}
  Projects = {"x", "y"}
  LaunchCalls = {1, 2}
  MaxLost = 1
  LineKinds = {"task", "notice", "message"}
  Peers = {"m1", "m2"}
  Sessions = {"s1", "s2"}
  Contents = {"a", "b"}
  SendCalls = {c1, c2, c3}
  MaxMoves = 1
  MaxMishaps = 1
CHECK_DEADLOCK FALSE
INVARIANTS
  LaunchReportIsTrue
  LineArrivesOnce
  OneMessage
