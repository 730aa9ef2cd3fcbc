SPECIFICATION PathSpec
CONSTANTS
  Keys = {k1, k2}
  Values <- MCValues
  NoValue = None
  MaxSize = 1
  Ttls = {2}
  MemoryTtl = 2
  RedisTtl = 3
  Delay = 1
  Tasks = {t1, t2}
  MaxStores = 2
  Names = {"cerebras", "diffusiongemma", "other"}
  MaxRetries = 1
  MaxChunks = 2
  Buttons = {race, news}
  MaxTests = 3
  MaxLines = 4
INVARIANTS TiersAgree FailsOverInTurn ShowsTheTruth
PROPERTIES ButtonComesBack
CHECK_DEADLOCK FALSE
