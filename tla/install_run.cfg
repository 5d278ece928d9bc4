SPECIFICATION FairSpec
CONSTANTS
  p1 = p1
  p2 = p2
  p3 = p3
  Procs = {p1, p2, p3}
  Launchers = {p3}
  NoFile = NoFile
  MaxFaults = 1
INVARIANTS
  RunsWhole
  CacheIsWhole
PROPERTIES
  WrapperEnds
  SuccessOfTheOthersIsReal
CHECK_DEADLOCK FALSE
