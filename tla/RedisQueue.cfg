CONSTANTS
  i1 = i1
  i2 = i2
  i3 = i3
  k1 = k1
  None = None
  Clients = {c1, c2}
  Workers = {c1, c2}
  WorkerOf <- OwnName
  Items = {i1, i2, i3}
  Tenants = {1, 2}
  TenantOf <- TwoTenants
  KeyOf <- SharedKey
  PriorityOf <- SecondIsUrgent
  CrashIn <- AnyCall
  LeaseSeconds = 2
  MaxAttempts = 4
  BackoffSeconds = 1
  BackoffCap = 1
  MaxLeaseSeconds = 2
  AskedLeases = {1}
  Offers <- OnlySentAgain
  MaxTime = 3
  MaxEnqueues = 2
  MaxClaims = 3
CHECK_DEADLOCK FALSE
SPECIFICATION Spec
SYMMETRY ClientSymmetry
INVARIANTS
  IndexesAgree
  NothingIsLost
  OneLivePerKey
  FairTurns
PROPERTIES
  LiveClaimIsItsWorkers
  OnlyUncountedReturnsDepart
