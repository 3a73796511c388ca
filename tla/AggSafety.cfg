SPECIFICATION Spec
CONSTANTS
  Workers = {w1, w2}
  Tools = {t1, t2}
  Durations = {1, 2}
  Errs <- SomeErrs
  Size = 2
  MaxRecords = 4
  None = None
SYMMETRY Symmetry
INVARIANTS TypeOK BooksBalance SamplesCounted CodesCounted
PROPERTIES ImplementsLedger
