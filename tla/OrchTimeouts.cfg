SPECIFICATION FairSpec
CONSTANTS
  Workers = {w1, w2}
  Requests = 0
  Warmup = FALSE
  Rated = FALSE
  Think = FALSE
  MaxIter = 3
  NoJob = NoJob
PROPERTIES TimeoutMeansTimer
