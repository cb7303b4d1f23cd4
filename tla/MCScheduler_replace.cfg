CONSTANTS
  Keys = {k1}
  Workers = {w1, w2}
  Targets = {t1}
  MaxAttempts = 2
  TickLimit = 1
  Lease = 4
  SendTimeout = 1
  AckTimeout = 1
  ClaimLatency = 1
  RetryUnit = 1
  Day = 3
  MaxClock = 3
  MaxPuts = 2
  MaxFaults = 0
SYMMETRY Interchangeable
SPECIFICATION Spec
INVARIANTS Fencing LeaseExclusion
PROPERTIES NoResurrection ContractKept
CHECK_DEADLOCK FALSE
