\* Two generations of one worker, a channel of one slot and one id more than
\* they can hold.  No symmetry: it is not sound for liveness.
SPECIFICATION FairSpec
CONSTANTS
  Jobs = {j1, j2, j3, j4}
  Workers = {w1, w2}
  WorkerCount = 1
  Capacity = 1
  None = None
PROPERTIES
  AcceptedIsHandled
  StopHalts
CHECK_DEADLOCK FALSE
