\* An orchestrated and a local job on one worker and one slot, so that the
\* queue fills; one fault or crash anywhere.
SPECIFICATION Spec
CONSTANTS
  j1 = j1
  j2 = j2
  Jobs = {j1, j2}
  Workers = {w1}
  Capacity = 1
  None = None
  Kind <- OneOfEach
  Clusters = {"named", "blank", "absent"}
  MaxCopies = 1
  MaxFaults = 1
INVARIANTS
  TypeOK
  CompletedHasResult
  CompletedIsFull
  RefusedStaysRefused
  SettlesFaultFree
  RecordsBounded
PROPERTY
  ImplementsExecution
CHECK_DEADLOCK FALSE
