SPECIFICATION Spec
CONSTANTS
  Repos = {a, b}
  MaxAttempts = 2
  MaxEvents = 3
  MaxFaults = 0
SYMMETRY Symmetry
INVARIANTS
  RemovedIsInactive
CHECK_DEADLOCK FALSE
