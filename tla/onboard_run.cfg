SPECIFICATION Spec
CONSTANTS
  Keys <- MCKeys
  Sensitive <- MCSensitive
  Disables <- MCDisables
  Machines <- MCMachines
  Handwritten <- MCHandwritten
  Slow = {"node", "git status"}
  NoConfig = NoConfig
  Unreadable = Unreadable
  MaxEdits = 2
  Base = 100
INVARIANTS
  ClassesAreMeant
PROPERTIES
  ReadyMeansReady
  AcceptsItsOrigin
CHECK_DEADLOCK FALSE
