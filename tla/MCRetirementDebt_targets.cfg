CONSTANTS
  Keys = {k1}
  Workers = {w1}
  Targets = {t1, t2}
  MaxAttempts = 2
  TickLimit = 1
  Lease = 3
  SendTimeout = 1
  AckTimeout = 1
  ClaimLatency = 0
  RetryUnit = 1
  Day = 2
  MaxClock = 5
  MaxPuts = 1
  MaxFaults = 1
SYMMETRY Interchangeable
SPECIFICATION DebtSpec
INVARIANTS TypeOK AtMostOnceRecorded RetirementOutstanding
CHECK_DEADLOCK FALSE
