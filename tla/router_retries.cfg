SPECIFICATION RouterSpec
CONSTANTS
  Names = {"cerebras", "diffusiongemma", "other"}
  MaxRetries = 1
  MaxChunks = 2
CHECK_DEADLOCK FALSE
INVARIANT TriesAtMostMaxRetries
