SPECIFICATION FairSpec
CONSTANTS
  Threads = {main, worker}
  Owner = main
  Streamer = worker
  MaxRetries = 1
  Texts <- MCTexts
CHECK_DEADLOCK FALSE
INVARIANTS ClosedBeforeStopped StreamIsFaithful
PROPERTY CallersReturn
