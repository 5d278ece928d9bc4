\* The last line of .env is not ended.
SPECIFICATION Spec
CONSTANTS
  token = token
  port = port
  url = url
  Keys = {token, port, url}
  Sensitive = {token}
  Required = {token, url}
  Recommended = {port}
  Examples <- OneExample
  Files <- CutFiles
  Named = {TRUE}
  Image = img
  Container = ctr
  MaxRuns = 1
  MaxEdits = 0
  EditsDuring = FALSE
  Ended = {TRUE}
  Failures = FALSE
  None = None
PROPERTIES
  UserValuesKept
CHECK_DEADLOCK FALSE
