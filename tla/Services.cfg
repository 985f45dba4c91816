CONSTANTS
  LeaseStores = {"memory", "redis", "postgres"}
  LeaseWorkers = {w1, w2, w3}
  LeaseTtl = 2
  RenewWithin = 1
  LeaseHorizon = 5
  MaxFence = 4
  Nobody = Nobody
  LedgerStores = {"memory", "redis", "postgres"}
  Payers = {p1, p2}
  Amounts = {1, 2}
  Ceiling = 3
  WindowLength = 1
  HoldLeases = {1, 3}
  MaxCharge = 3
  LedgerHorizon = 3
  c1 = c1
  c2 = c2
  c3 = c3
  c4 = c4
  c5 = c5
  tx = tx
  ty = ty
  LaneCalls = {c1, c2, c3, c4, c5}
  LaneLoads <- SmallLoads
  LaneTurns = {"r1", "r2", "r3", "n1", "n2"}
  LaneTenants = {"t", "u"}
  LaneTools = {tx, ty}
  TenantWidth = 2
  BatchWidth = 2
  ToolWidth <- OneEach
  TurnToolWidth <- OneEach
  a = a
  b = b
  Tools = {a, b}
  Sagas <- SmallSagas
  Attempts = 2
  Unwinds = {u1, u2}
  StateStores = {"memory", "redis", "postgres"}
  StateWorkers = {w1, w2}
  MaxVersion = 4
  MaxLanded = 3
  Steps = {1, 2, 3}
  PlanInputs <- SmallPlans
  Keys = {"k", "l"}
  NoKey = "none"
  Executors = {e1, e2}
  MaxEntries = 3
  Callers = {w1, w2, w3}
  Audiences = {x, y}
  Clients = {u, v}
  Kinds = {"delta", "fact"}
  MaxEvents = 3
  HighWater = 1
  History = 2
  Branches = {1, 2, 3}
  FanInputs <- SmallFans
  NoWrite = "none"
  MaxConcurrency = 2
  MaxFanOut = 2
  RunCeiling = 3
  CallEstimate = 1
  CallCosts = {0, 1, 2}
  MaxParallelCalls = 2
  Requests = {w1, w2, w3}
  Spawns = 2
  MaxInFlight = 2
  Askers = {w1, w2, w3}
  Digests = {x, y}
  Nothing = Nothing
  Senders = {u, v}
  Credentials = {x, y}
  MaxClients = 3
  BlockingCalls = {w1, w2, w3, u1}
  PoolSize = 2
  SessionStores = {"memory", "redis", "postgres"}
  SessionKeys <- TenantSessions
  RunKeys <- TenantRuns
  Deleters = {u1}
CHECK_DEADLOCK FALSE
SPECIFICATION Spec
INVARIANTS
  OneCarriesTheRun
  CeilingHolds
  ChargedAsTold
  JamsAreCrossings
  CleanMeansClean
  SpendAddsUp
  PlanLandsOnce
  HaltLatches
  NothingIsMissedUnsaid
  OverrunIsBounded
  RequestsEndTruly
  NoKeyIsWedged
  OnlyTheAbandonedHoldUp
  SessionsTakeTheirRuns
