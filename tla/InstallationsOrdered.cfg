SPECIFICATION Spec
CONSTANTS
  Repos = {a, b}
  MaxAttempts = 2
  MaxEvents = 3
  MaxFaults = 2
SYMMETRY Symmetry
INVARIANTS
  TypeOK
  OrderedAgree
  RemovalAudited
CHECK_DEADLOCK FALSE
