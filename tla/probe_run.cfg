SPECIFICATION FairSpec
CONSTANTS
  h1 = h1
  h2 = h2
  Hosts = {h1, h2}
  Configs <- MCConfigs
  Answers <- MCAnswers
  Certificate <- MCCertificate
  Statuses <- MCStatuses
  CommandLines <- MCCommandLines
  TwoSeconds = 2
  MaxDBRead = 3
  MaxChanges = 1
INVARIANTS
  ExitCodeTells
  WarningsTell
PROPERTIES
  KeepsItsBudgets
  ProbeEnds
  NothingIsTriedTwice
CHECK_DEADLOCK FALSE
