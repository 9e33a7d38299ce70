SPECIFICATION Spec
CONSTANTS
  Deliveries = {d1}
  NoDelivery = none
  Handlers = {h1, h2}
  Workers = {w1, w2}
  MaxAttempts = 4
  RetryBase = 1
  Minute = 3
  DurationBits = 3
  ChanCap = 1
  MaxCrashes = 1
  MaxErrors = 2
  MaxOverruns = 2
SYMMETRY Symmetry
INVARIANT TypeOK
INVARIANT QueueInv
INVARIANT ExclusiveLease
INVARIANT FailedMeansExhausted
INVARIANT AttemptsAccounted
INVARIANT DeliveryMirrorsJob
INVARIANT AckedHasJob
INVARIANT FailedIsAlerted
INVARIANT AlertedIsFailed
PROPERTY TerminalStays
PROPERTY RetryWaits
