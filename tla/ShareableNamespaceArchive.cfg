SPECIFICATION Spec
CONSTANTS
  Callers = {1, 2}
  title = title
  score = score
  Plain = {title}
  Counters = {score}
  Initial = 0
  Most = 2
  Nothing = Nothing
  Settings <- archiveSettings
INVARIANT
  ArchiveStaysReadable
CHECK_DEADLOCK FALSE
