\* A whole `snagify check` with custom checks and plugins: how the children
\* end, against the report, the exit code, and the end of the command.
CONSTANTS
  Configs <- MCConfigs
  Answers <- MCAnswers
SPECIFICATION FairSpec
INVARIANTS
  ExitCodeIsExact
  NoFailureIsSilent
PROPERTIES
  CheckEnds
  NothingIsDoneTwice
CHECK_DEADLOCK FALSE
