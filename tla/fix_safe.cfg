\* Two runs that may fail or be killed anywhere, and an edit between them.
SPECIFICATION Spec
CONSTANTS
  token = token
  port = port
  url = url
  Keys = {token, port, url}
  Sensitive = {token}
  Required = {token, url}
  Recommended = {port}
  Examples <- FullExamples
  Files <- EndedFiles
  Named = {TRUE, FALSE}
  Image = img
  Container = ctr
  MaxRuns = 2
  MaxEdits = 1
  EditsDuring = FALSE
  Ended = {TRUE}
  Failures = TRUE
  None = None
INVARIANTS
  SuccessMeansPresent
PROPERTIES
  UserValuesKept
  OnlyWhatWasAllowed
  FixedStaysFixed
CHECK_DEADLOCK FALSE
