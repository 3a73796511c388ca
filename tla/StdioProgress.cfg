SPECIFICATION FairSpec
CONSTANTS
  Calls = {c1}
  Closers = {k1, k2}
  Malformed = {}
  StdinCap = 1
  StdoutCap = 1
  MaxNoise = 0
  ServerIds = {}
  Silent = FALSE
  Forks = TRUE
  None = None
PROPERTIES CloseReturns ReaderFailureWakes DeadlineHonoured
