SPECIFICATION FairSpec
CONSTANTS
  Pages <- observerPages
  Keys <- observerKeys
  Attempts = 2
  Settings <- observerSettings
INVARIANTS
  TypeOK
  NothingUnsaid
PROPERTIES
  PagesServed
CHECK_DEADLOCK FALSE
