SPECIFICATION FairSpec
CONSTANTS
  Calls = {c1, c2}
  Closers = {}
  Malformed = {}
  StdinCap = 1
  StdoutCap = 2
  MaxNoise = 0
  ServerIds = {}
  Silent = FALSE
  Forks = FALSE
  None = None
PROPERTIES DeadlineHonoured
