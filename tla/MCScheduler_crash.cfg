CONSTANTS
  Keys = {k1}
  Workers = {w1, w2}
  Targets = {t1}
  MaxAttempts = 2
  TickLimit = 1
  Lease = 4
  SendTimeout = 1
  AckTimeout = 1
  ClaimLatency = 1
  RetryUnit = 1
  Day = 3
  MaxClock = 1
  MaxPuts = 1
  MaxFaults = 2
SPECIFICATION FairSpec
INVARIANTS NoOverlap StartsBounded
PROPERTY Settles
CHECK_DEADLOCK FALSE
