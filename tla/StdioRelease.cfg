SPECIFICATION FairSpec
CONSTANTS
  Calls = {c1, c2}
  Closers = {k1}
  Malformed = {}
  StdinCap = 1
  StdoutCap = 1
  MaxNoise = 0
  ServerIds = {}
  Silent = FALSE
  Forks = FALSE
  None = None
INVARIANTS ResultIsMine NoneStranded
PROPERTIES CloseReleasesCalls
