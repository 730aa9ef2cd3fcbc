CHECK_DEADLOCK FALSE
SPECIFICATION FairSpec
CONSTANTS
  Concurrency <- ConcurrencyDef
  Requests = 2
  Default = 2
  Rates <- RatesDef
  MaxWaves = 2
  ReservoirSize = 2
  Believable = 2
  BelievableAtOnce = 1
INVARIANTS WithinConcurrency BatchIsWhole BestIsTop ReservoirIsSample
PROPERTIES StopsCalling RunEnds
