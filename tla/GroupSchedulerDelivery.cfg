SPECIFICATION FairSpec
CONSTANTS
  j1 = j1
  j2 = j2
  p1 = p1
  p2 = p2
  s1 = s1
  s2 = s2
  Sources = {s1, s2}
  Ids = {j1, j2}
  PlannedIds = {j1}
  Plans = {p1, p2}
  Delays = {1}
  DELIVERED_TTL = 1
  MAX_DELIVERY_ATTEMPTS = 2
  MAX_JOBS_PER_ALARM = 1
  MAX_DEAD_LETTERS = 1
  MAX_SCHEDULE_SOURCES = 1
  SOURCE_PRUNE_INTERVAL = 2
  SOURCE_PRUNE_BATCH_SIZE = 2
  MaxOccurrences = 2
  Loads <- MCLoads
  MaxCrashes = 1
  MaxCalcFailures = 3
  Backoff <- MCBackoff
INVARIANTS
  TypeOK
PROPERTIES
  JobsAccounted
  EveryOccurrenceSettles
