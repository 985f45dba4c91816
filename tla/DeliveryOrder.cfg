\* The rows of one claim go out in the order PostgreSQL hands them back.
CONSTANTS
  e1 = e1
  e2 = e2
  None = None
  Events = {e1, e2}
  Runs = {1, 2}
  Inputs <- Either
  Relays = {r1}
  Batch = 1
  Hands = {h1, op}
  Operators = {op}
  Subscribed = {e1}
  MaxDeliver = 2
  MaxAttempts = 2
  MaxCopies = 2
  MaxFaults = 1
CHECK_DEADLOCK FALSE
SPECIFICATION Spec
INVARIANT RunOrder
