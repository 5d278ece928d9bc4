\* One installation; nothing is killed and no write fails.
SPECIFICATION FairSpec
CONSTANTS
  p1 = p1
  p2 = p2
  p3 = p3
  Procs = {p1}
  Launchers = {}
  NoFile = NoFile
  MaxFaults = 0
PROPERTIES
  SuccessMeansInstalled
CHECK_DEADLOCK FALSE
