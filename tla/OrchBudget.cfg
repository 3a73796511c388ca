SPECIFICATION Spec
CONSTANTS
  Workers = {w1, w2}
  Requests = 5
  Warmup = TRUE
  Rated = TRUE
  Think = TRUE
  MaxIter = 1
  NoJob = NoJob
SYMMETRY Symmetry
INVARIANTS TypeOK JobsAccounted BudgetMeasured
