\* Two teammates with URLs, the clock standing still.
SPECIFICATION FairSpec
CONSTANTS
  s1 = s1
  s2 = s2
  Shares = {s1, s2}
  Clients = {c1, c2}
  Offers <- UrlOffers
  Commands <- UrlCommands
  Limit = 1
  DefaultTTL = 2
  MaxTime = 1
  None = None
INVARIANTS
  NeverTheWrongBaseline
  ResolveIsFree
PROPERTIES
  ClientsEnd
  EveryShareKeepsItsQuota
CHECK_DEADLOCK FALSE
