CONSTANTS
  Keys = {k1}
  Workers = {w1}
  Targets = {t1}
  MaxAttempts = 2
  TickLimit = 1
  Lease = 4
  SendTimeout = 2
  AckTimeout = 1
  ClaimLatency = 3
  RetryUnit = 1
  Day = 3
  MaxClock = 4
  MaxPuts = 1
  MaxFaults = 0
SPECIFICATION Spec
INVARIANT LeaseCoversDelivery
CHECK_DEADLOCK FALSE
