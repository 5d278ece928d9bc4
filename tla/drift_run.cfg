\* Two members, four machines, two commands that overlap.
SPECIFICATION Spec
CONSTANTS
  Members = {m1, m2}
  Machines <- MCMachines
  Ports = {"5432", "8080"}
  Keys = {"API_KEY", "PORT"}
  Baseline = baseline
  MaxCommands = 2
  MaxEdits = 1
  MaxFaults = 1
SYMMETRY Symmetry
INVARIANTS
  TypeOK
  VerdictIsOnTheMaker
  DiffIsFair
  SummaryIsFair
PROPERTIES
  NobodyIsLeftOut
CHECK_DEADLOCK FALSE
