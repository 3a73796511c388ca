SPECIFICATION FairSpec
CONSTANTS
  Calls = {c1, c2}
  Malformed = {c2}
  StreamLines = {"mine1", "foreign", "blank", "done"}
  MaxLines = 3
INVARIANTS TypeOK DeadlinesAreTimeouts
PROPERTIES ImplementsContract DeadlineHonoured
