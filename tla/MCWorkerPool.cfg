\* Five ids, a channel of two slots and two goroutines: one id more than the
\* pool can hold, and a channel long enough for its order to matter.  The
\* goroutines are two generations of one worker; there is never a third, for
\* the second Stop panics.
SPECIFICATION Spec
CONSTANTS
  Jobs = {j1, j2, j3, j4, j5}
  Workers = {w1, w2}
  WorkerCount = 1
  Capacity = 2
  None = None
SYMMETRY Symmetry
INVARIANTS
  TypeOK
  ExactlyOnce
  Backlog
  ActiveCounts
  ListCoversQueue
PROPERTY
  ImplementsQueue
CHECK_DEADLOCK FALSE
