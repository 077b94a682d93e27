\* One job whose request record may be written twice, and two more faults:
\* failed calls, panics, lost records, crashes.
SPECIFICATION FairSpec
CONSTANTS
  j1 = j1
  j2 = j2
  Jobs = {j1}
  Workers = {w1}
  Capacity = 1
  None = None
  Kind <- OneProvision
  Clusters = {"named", "blank", "absent"}
  MaxCopies = 2
  MaxFaults = 3
INVARIANTS
  CompletedHasResult
  RecordsBounded
PROPERTIES
  ImplementsExecution
  CreatedQuiesces
CHECK_DEADLOCK FALSE
