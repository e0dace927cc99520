SPECIFICATION FairSpec
CONSTANTS
  e1 = e1
  k1 = k1
  k2 = k2
  c1 = c1
  c2 = c2
  Events = {e1}
  Keys = {k1, k2}
  Requests <- MCRequests
  Callers = {c1, c2}
  MAX_DELIVERY_ATTEMPTS = 2
  MAX_EFFECTS_PER_ALARM = 1
  ATTEMPT_LEASE = 1
  RETRY_BASE_DELAY = 1
  Backoff <- MCBackoff
  COMPLETED_EXECUTION_TTL = 1
  MaxCrashes = 1
  MaxRearms = 1
INVARIANTS
  TypeOK
  LedgerConsistent
  NoStrandedEffect
  EveryCallAccounted
  RevocationBoundsCalls
  AttemptsExplained
PROPERTIES
  ImplementsLedger
  EveryExecutionSettles
