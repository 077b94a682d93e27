SPECIFICATION Spec
CONSTANTS
  c1 = c1
  p1 = p1
  p2 = p2
  cpu = cpu
  None = None
  Unset = Unset
  Slots = {s1, s2}
  Clusters = {c1}
  Changes <- MCChanges
  MaxFailures = 1
  JobSizes = {1, 2}
  JobSize = 1
  MaxJobs = 2
  Types = {cpu}
  MetricSizes = {1, 2}
  MetricSize = 1
  Rows <- MCRows
  MaxPage = 3
  Policies = {p1, p2}
  Owner <- MCOwner
  Statuses = {healthy, warning}
  Terms <- MCTerms
  RowSizes = {1, 2}
  FirstSize = 1
  Order <- MCOrder
  MaxDroplets = 2
  MaxDeployments = 2
  Steps = 2
  Monitor = 1
  MaxProviders = 2
  Names = {jobs}
  ScopeIds = {c1}
  Fields = {"capacity"}
  Droplets = {d1}
  Waits = {"dashboard", "clusters", "new"}
INVARIANTS
  TypeOK
  OneAtATime
  OneSave
  BusyFlagsSettle
  JobsPageExists
  EditorMatchesTarget
  CardsAgree
  ClustersAgree
  PagesAreRows
  NoDeletedDroplets
  ShownTogether
PROPERTIES
  CreatedIsShown
  JobsConverge
  StatusRecovers
  RolloutsEnd
CHECK_DEADLOCK FALSE
