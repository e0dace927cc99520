SPECIFICATION FairSpec
CONSTANTS
  Realms = {realmA, realmB}
  Home = realmA
  Events = {e1, e2}
  Commands = {c1, c2}
  Grants = {g1, g2}
  Sockets = {s1, s2}
  None = None
  realmA = realmA
  realmB = realmB
  e1 = e1
  e2 = e2
  c1 = c1
  c2 = c2
  g1 = g1
  g2 = g2
  s1 = s1
  s2 = s2
  Settings <- MCSettings
INVARIANTS
  TypeOK
  EventsAccounted
  ConsumersServed
PROPERTIES
  MovedConsumerTold
CHECK_DEADLOCK FALSE
