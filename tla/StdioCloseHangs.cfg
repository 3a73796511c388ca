SPECIFICATION FairSpec
CONSTANTS
  Calls = {c1}
  Closers = {k1}
  Malformed = {}
  StdinCap = 1
  StdoutCap = 2
  MaxNoise = 0
  ServerIds = {}
  Silent = TRUE
  Forks = TRUE
  None = None
PROPERTIES CloseReturns
