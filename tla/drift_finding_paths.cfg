\* What a baseline still says of the machine it was made on.
SPECIFICATION Spec
CONSTANTS
  Members = {m1, m2}
  Machines <- MCMachines
  Ports = {"5432", "8080"}
  Keys = {"API_KEY", "PORT"}
  Baseline = baseline
  MaxCommands = 2
  MaxEdits = 0
  MaxFaults = 0
PROPERTY
  BaselinesHaveNoPaths
CHECK_DEADLOCK FALSE
