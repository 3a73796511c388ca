SPECIFICATION Spec
CONSTANTS
  Samples <- SomeSamples
  MaxShort = 5
  MaxLen = 121
  MaxLines = 5
  MaxTools = 4
  MaxWeight = 3
  MaxPieces = 3
  MaxChars = 1
  MaxItems = 2
  MaxDepth = 3
  MaxScenario = 1
  MaxName = 2
  Tools = {t1, t2}
  Latencies <- SomeLatencies
  ErrorRates <- SomeErrorRates
  Strict = 5
  Loose = 20
INVARIANTS QuantilesRight LastFrameWins PreparedRuns OnlyFlagsBreak PicksAreWeighted
           SpawnRoundTrips SelfIsClean SummaryOrdered CallsCountForTheirCause ExpositionScrapes
PROPERTIES GateIsMonotonic
