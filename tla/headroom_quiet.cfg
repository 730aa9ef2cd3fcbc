SPECIFICATION DashboardSpec
CONSTANTS
  Streams = {s1, s2}
  MaxRuns = 2
  MaxQueue = 2
  Lines <- MCLines
  Pages = {p1}
  QueueSize = 1
  Recent = 1
  MaxFiles = 2
CHECK_DEADLOCK FALSE
INVARIANT QuietStreamsGoOn
