SPECIFICATION RunFairSpec
CONSTANTS
  Workers = {w1, w2}
  Requests = 2
  Warmup = TRUE
  Rated = TRUE
  Think = TRUE
  MaxIter = 1
  NoJob = NoJob
  Tools = {"read", "search"}
  None = None
  CallErrs <- Rpc
  Mix <- Draw
  Formats = {"json", "prom", "unknown"}
INVARIANTS RunTypeOK ReportTrue SeedFixesTheMix ExitTells
PROPERTIES CommandExits
