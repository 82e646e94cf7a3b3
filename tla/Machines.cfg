SPECIFICATION MachinesSpec
CONSTANTS
  Addresses = {"a", "b"}
  Configured = {"a"}
  Local = "here"
  Peers = {"p"}
  Boots = {1, 2}
  Providers = {"mdns"}
  Old = {2}
  MaxShifts = 2
  MaxReports = 1
  MaxCalls = 1
  MaxStarts = 1
  Queries = {"show", "log", "worker", "thread", "cancel"}
CHECK_DEADLOCK FALSE
INVARIANTS
  DirectoryIsTrue
  InspectionIsTrue
PROPERTIES
  DuplicateNeedsEvidence
  PeerIsFound
