SPECIFICATION FairSpec
CONSTANTS
  Callers = {1, 2}
  title = title
  score = score
  Plain = {title}
  Counters = {score}
  Initial = 0
  Most = 2
  Nothing = Nothing
  Settings <- namespaceSettings
INVARIANT
  TypeOK
PROPERTIES
  VersionNamesContent
  ImplementsStore
  Served
CHECK_DEADLOCK FALSE
