CONSTANTS
  Senders = {u, v}
  Credentials = {x, y}
  MaxClients = 3
SPECIFICATION PoolSpec
CHECK_DEADLOCK FALSE
INVARIANT RotationSparesRequests
