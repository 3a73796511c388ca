SPECIFICATION Spec
CONSTANTS
  Calls = {c1}
  Closers = {}
  Malformed = {}
  StdinCap = 1
  StdoutCap = 2
  MaxNoise = 1
  ServerIds = {}
  Silent = FALSE
  Forks = FALSE
  None = None
PROPERTIES LateCallsFailAsTransport
