SPECIFICATION FairSpec
CONSTANTS
  m1 = m1
  m2 = m2
  d1 = d1
  d2 = d2
  Ids = {m1, m2}
  IdOrder <- MCIdOrder
  Bodies = {"chat", "other"}
  RequestDrains = {d1, d2}
  AlarmDrain = "alarm"
  MAX_DELIVERY_ATTEMPTS = 2
  DRAIN_BATCH_SIZE = 1
  ATTEMPT_LEASE = 2
  RETRY_DELAYS <- MCRetryDelays
  ENQUEUE_WAKE = 1
  MaxCrashes = 1
  MaxSlow = 1
INVARIANTS
  TypeOK
PROPERTIES
  MessagesAccounted
  EveryMessageSettles
