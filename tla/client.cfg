SPECIFICATION FairSpec
CONSTANTS
  t1 = t1
  t2 = t2
  s1 = s1
  k1 = k1
  k2 = k2
  Tasks = {t1, t2, s1}
  Streams = {s1}
  Keys = {k1, k2}
  KeyOf <- MCKeyOf
  Concurrency = 2
  MaxRetries = 1
  Threshold = 2
  Cooldown = 1
CHECK_DEADLOCK FALSE
INVARIANTS SlotsConserved RequestsAccounted
PROPERTIES RetriesOnlyRetryable FailingBackendIsLeftAlone EveryRequestEnds
