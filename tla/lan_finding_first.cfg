\* Two shares of a repository, each with a code of its own.
SPECIFICATION Spec
CONSTANTS
  s1 = s1
  s2 = s2
  Shares = {s1, s2}
  Clients = {c1}
  Offers <- SameRepo
  Commands <- GivenCode
  Limit = 1
  DefaultTTL = 2
  MaxTime = 1
  None = None
INVARIANTS
  PrintedCommandWorks
CHECK_DEADLOCK FALSE
