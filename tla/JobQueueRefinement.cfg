SPECIFICATION FairSpec
CONSTANTS
  Deliveries = {d1, d2}
  NoDelivery = none
  Handlers = {h1}
  Workers = {w1}
  MaxAttempts = 2
  RetryBase = 1
  Minute = 3
  DurationBits = 2
  ChanCap = 1
  MaxCrashes = 1
  MaxErrors = 1
  MaxOverruns = 0
PROPERTIES
  EveryJobSettles
  ImplementsLifecycle
