CONSTANTS
  i1 = i1
  i2 = i2
  i3 = i3
  k1 = k1
  None = None
  Workers = {w1, w2}
  Items = {i1, i2, i3}
  Tenants = {1, 2}
  TenantOf <- TwoTenants
  KeyOf <- SharedKey
  PriorityOf <- SecondIsUrgent
  LeaseSeconds = 2
  MaxAttempts = 2
  BackoffSeconds = 1
  BackoffCap = 1
  MaxLeaseSeconds = 2
  AskedLeases = {5}
  Offers <- FreshOrSentAgain
  MaxTime = 5
  MaxEnqueues = 2
SPECIFICATION FairSpec
CHECK_DEADLOCK FALSE
INVARIANTS
  BoundedHold
PROPERTIES
  KeepsThePromise
  ClaimsEnd
