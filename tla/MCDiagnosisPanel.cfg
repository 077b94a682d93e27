SPECIFICATION Spec
CONSTANTS
  Clusters = {c1, c2}
  Kept = 2
  RecCount = 2
  None = None
  MaxDiagnoses = 3
  MaxOrders = 1
  MaxMounts = 2
SYMMETRY Symmetry
INVARIANTS
  TypeOK
  HistoryPersisted
  ShownWhole
  Settles
  MarksWereAccepted
CHECK_DEADLOCK FALSE
