\* share current --lan --open --ttl 0.
SPECIFICATION Spec
CONSTANTS
  s1 = s1
  s2 = s2
  Shares = {s1, s2}
  Clients = {c1}
  Offers <- ZeroTTL
  Commands <- GivenCode
  Limit = 1
  DefaultTTL = 2
  MaxTime = 3
  None = None
INVARIANTS
  RunningShareIsNotExpired
CHECK_DEADLOCK FALSE
