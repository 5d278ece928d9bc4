\* .env.example does not give every declared key.
SPECIFICATION Spec
CONSTANTS
  token = token
  port = port
  url = url
  Keys = {token, port, url}
  Sensitive = {token}
  Required = {token, url}
  Recommended = {port}
  Examples <- ShortExamples
  Files <- NothingYet
  Named = {TRUE}
  Image = img
  Container = ctr
  MaxRuns = 1
  MaxEdits = 0
  EditsDuring = FALSE
  Ended = {TRUE}
  Failures = FALSE
  None = None
INVARIANTS
  SuccessMeansPresent
CHECK_DEADLOCK FALSE
