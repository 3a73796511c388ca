SPECIFICATION Spec
CONSTANTS
  Calls = {c1, c2}
  Closers = {k1, k2}
  Malformed = {c2}
  StdinCap = 1
  StdoutCap = 2
  MaxNoise = 1
  ServerIds = {1}
  Silent = TRUE
  Forks = TRUE
  None = None
SYMMETRY Symmetry
INVARIANTS TypeOK NoLostWakeup NoDroppedResult NoLeakedEntry CloseComplete
PROPERTIES ImplementsContract
