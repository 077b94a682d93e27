\* A rule edited is saved under another key.
SPECIFICATION Spec
CONSTANTS
  Slots = {s1}
  Names = {jobs}
  ScopeIds = {c1}
  Fields = {"capacity"}
  None = None
  MaxChanges = 2
  MaxFailures = 0
INVARIANT EditTargetsRule
CHECK_DEADLOCK FALSE
