\* One share with a code that is given by its URL.
SPECIFICATION Spec
CONSTANTS
  s1 = s1
  s2 = s2
  Shares = {s1, s2}
  Clients = {c1}
  Offers <- CodeByUrl
  Commands <- GivenUrl
  Limit = 1
  DefaultTTL = 2
  MaxTime = 1
  None = None
INVARIANTS
  PrintedCommandWorks
CHECK_DEADLOCK FALSE
