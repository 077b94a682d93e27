\* The message of an empty cluster is shown for one with metrics.
SPECIFICATION Spec
CONSTANTS
  Slots = {s1, s2}
  Clusters = {c1}
  Types = {cpu}
  Sizes = {1, 2}
  DefaultSize = 1
  Rows <- MCRows
  MaxPage = 3
  None = None
  MaxChanges = 3
  MaxFailures = 0
INVARIANT NoMetricsMeansNone
CHECK_DEADLOCK FALSE
