CONSTANTS
  Targets <- Addresses
  Malformed <- Bad
  Inputs <- Lists
  Tokens <- TokenAddresses
  MaxBatchTargets = 2
  concurrency = 3
  MaxBatchConcurrency = 2
  maxAttempts = 3
SPECIFICATION FcmSpec
INVARIANTS TypeOK AcceptedOnce QuotaFloor VerdictEarned
PROPERTIES ContractKept Returns
CHECK_DEADLOCK FALSE
