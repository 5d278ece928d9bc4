\* Three requests of every kind compete for the two slots of the default.
SPECIFICATION Spec
CONSTANTS
  Requests = {r1, r2, r3}
  Asks <- EveryAsk
  MaxOption = 0
  DefaultLimit = 2
  CodeSet = TRUE
SYMMETRY Symmetry
INVARIANTS
  TypeOK
  AtMostLimitServed
  SlotsNeedTheGate
  NothingCutInAGracefulStop
  FinalCountExact
PROPERTIES
  ImplementsQuota
CHECK_DEADLOCK FALSE
