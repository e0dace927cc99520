SPECIFICATION FairSpec
CONSTANTS
  Flows <- twitchFlows
  Types <- twitchTypes
  Tokens <- twitchTokens
  Settings <- twitchSettings
INVARIANTS
  TypeOK
  PromisesKept
PROPERTIES
  EventuallyAgreed
CHECK_DEADLOCK FALSE
