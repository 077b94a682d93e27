SPECIFICATION Spec
CONSTANTS
  j1 = j1
  j2 = j2
  Jobs = {j1}
  Workers = {w1}
  Capacity = 1
  None = None
  Kind <- OneProvision
  Clusters = {"named", "blank", "absent"}
  MaxCopies = 1
  MaxFaults = 0
INVARIANT
  LeftToConsumer
CHECK_DEADLOCK FALSE
