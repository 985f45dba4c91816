CONSTANTS
  i1 = i1
  i2 = i2
  k1 = k1
  None = None
  Clients = {c1, c2}
  Workers = {c1, c2}
  WorkerOf <- OwnName
  Items = {i1, i2}
  Tenants = {1}
  TenantOf <- OneTenant
  KeyOf <- SharedKey
  PriorityOf <- SecondIsUrgent
  CrashIn <- WorkersCalls
  LeaseSeconds = 2
  MaxAttempts = 2
  BackoffSeconds = 0
  BackoffCap = 0
  MaxLeaseSeconds = 2
  AskedLeases = {}
  Offers <- FreshOrSentAgain
  MaxTime = 3
  MaxEnqueues = 2
CHECK_DEADLOCK FALSE
SPECIFICATION FairSpec
INVARIANTS
  RecordFollowsColumns
  OneLivePerKey
  SweepSparesTheLiving
PROPERTIES
  ClaimsEnd
  OnlyLateWritesDepart
