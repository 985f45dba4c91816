CONSTANTS
  i1 = i1
  i2 = i2
  i3 = i3
  k1 = k1
  None = None
  Clients = {c1, c2}
  Workers = {c1, c2}
  WorkerOf <- OwnName
  Items = {i1}
  Tenants = {1}
  TenantOf <- OneTenant
  KeyOf <- NoKeys
  PriorityOf <- SecondIsUrgent
  CrashIn <- TheClaim
  LeaseSeconds = 1
  MaxAttempts = 2
  BackoffSeconds = 0
  BackoffCap = 0
  MaxLeaseSeconds = 1
  AskedLeases = {}
  Offers <- OnlyFresh
  MaxTime = 2
  MaxEnqueues = 1
  MaxClaims = 2
CHECK_DEADLOCK FALSE
SPECIFICATION FairSpec
PROPERTY ClaimsEnd
