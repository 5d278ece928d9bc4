\* A handshake that fails for a reason of the moment.
SPECIFICATION Spec
CONSTANTS
  h1 = h1
  h2 = h2
  Hosts = {h1, h2}
  Configs <- MCConfigs
  Answers <- MCAnswers
  Certificate <- MCCertificate
  Statuses <- MCStatuses
  CommandLines <- MCCommandLines
  TwoSeconds = 2
  MaxDBRead = 3
  MaxChanges = 1
INVARIANTS
  TLSFailureIsReal
CHECK_DEADLOCK FALSE
