\* One request with a chunked body on the share of one baseline.
SPECIFICATION Spec
CONSTANTS
  Requests = {r1}
  Asks <- Uploads
  MaxOption = 1
  DefaultLimit = 20
  CodeSet = TRUE
INVARIANTS
  NoUploadServed
CHECK_DEADLOCK FALSE
