\* Somebody writes .env between the plan and the write.
SPECIFICATION Spec
CONSTANTS
  token = token
  port = port
  url = url
  Keys = {token, port, url}
  Sensitive = {token}
  Required = {token, url}
  Recommended = {port}
  Examples <- OneExample
  Files <- NothingYet
  Named = {TRUE}
  Image = img
  Container = ctr
  MaxRuns = 1
  MaxEdits = 1
  EditsDuring = TRUE
  Ended = {TRUE}
  Failures = FALSE
  None = None
PROPERTIES
  UserValuesKept
CHECK_DEADLOCK FALSE
