SPECIFICATION Spec
CONSTANTS
  Deliveries = {d1}
  NoDelivery = none
  Handlers = {h1}
  Workers = {w1}
  MaxAttempts = 2
  RetryBase = 1
  Minute = 3
  DurationBits = 2
  ChanCap = 1
  MaxCrashes = 1
  MaxErrors = 0
  MaxOverruns = 0
SYMMETRY Symmetry
INVARIANT AckImpliesJob
