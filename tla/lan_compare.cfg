\* One teammate browses while two LAN shares come and go.
SPECIFICATION Spec
CONSTANTS
  s1 = s1
  s2 = s2
  Shares = {s1, s2}
  Clients = {c1}
  Offers <- LanOffers
  Commands <- LanCommands
  Limit = 1
  DefaultTTL = 2
  MaxTime = 3
  None = None
INVARIANTS
  NoBaselineWithoutCode
  RunningShareIsNotExpired
  PrintedCommandIsEnough
  DiscoverMissesAtMostOne
CHECK_DEADLOCK FALSE
