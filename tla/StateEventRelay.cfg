SPECIFICATION FairSpec
CONSTANTS
  Operations = 2
  Settings <- relaySettings
INVARIANTS
  TypeOK
  OutcomesAgree
PROPERTIES
  Settles
CHECK_DEADLOCK FALSE
