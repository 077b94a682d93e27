SPECIFICATION Spec
CONSTANTS
  Jobs = {j1, j2}
  Workers = {w1, w2}
  WorkerCount = 2
  Capacity = 2
  None = None
INVARIANT
  SnapshotIsQueue
CHECK_DEADLOCK FALSE
