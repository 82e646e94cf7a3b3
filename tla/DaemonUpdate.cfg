SPECIFICATION DaemonSpec
CONSTANTS
  Daemons = {1, 2, 3}
  Commands = {1}
  Works = {1}
  MaxCrashes = 0
  Kinds = {"install", "stop", "uninstall", "restart", "update"}
CHECK_DEADLOCK FALSE
INVARIANTS
  UpdateRestarts
