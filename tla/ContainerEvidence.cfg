SPECIFICATION ContainerSpec
CONSTANTS
  AdoptionLimit = 3
  MaxFaults = 1
CHECK_DEADLOCK FALSE
INVARIANTS
  NeverStartedNeverRan
