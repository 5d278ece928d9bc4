\* Two clients, one slot, every goroutine scheduled fairly.
SPECIFICATION FairSpec
CONSTANTS
  Requests = {r1, r2}
  Asks <- Downloads
  MaxOption = 1
  DefaultLimit = 20
  CodeSet = TRUE
PROPERTIES
  ShareEnds
CHECK_DEADLOCK FALSE
