SPECIFICATION FairSpec
CONSTANTS
  r1 = r1
  r2 = r2
  c1 = c1
  c2 = c2
  Realms = {r1, r2}
  Callers = {c1, c2}
  Kinds = {"group_local", "effective_shareable"}
  maxAttempts = 2
  sourceLifetime = 1
  receiptRetention = 1
  MaxRevision = 1
  Settings <- commitSettings
INVARIANTS
  TypeOK
  OutcomeKnown
PROPERTIES
  BarrierResolved
  CommitsGuarded
