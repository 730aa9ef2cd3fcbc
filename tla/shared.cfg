SPECIFICATION PartsSpec
CONSTANTS
  small = small
  medium = medium
  large = large
  oversize = oversize
  Callers = {small, medium, large, oversize}
  Tokens <- MCTokens
  ReqLimit = 2
  TokLimit = 3
  Window = 3
  Keys = {k1, k2, k3}
  Values = {v1, v2}
  NoValue = None
  MaxSize = 2
  Ttls = {0, 2}
INVARIANTS BudgetsKept SleepsOnlyWhileBlocked StoreConsistent
PROPERTIES WaitersGetThrough EvictsLeastRecentlyUsed ForgetsButNeverLies
