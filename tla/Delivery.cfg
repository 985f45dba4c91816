CONSTANTS
  e1 = e1
  e2 = e2
  None = None
  Events = {e1, e2}
  Runs = {1, 2}
  Inputs <- Either
  Relays = {r1, r2}
  Batch = 1
  Hands = {h1, h2, op}
  Operators = {op}
  Subscribed = {e1}
  MaxDeliver = 2
  MaxAttempts = 2
  MaxCopies = 2
  MaxFaults = 1
CHECK_DEADLOCK FALSE
SPECIFICATION Spec
INVARIANTS
  AppliedOnce
  NothingIsLost
  AttemptsAreBounded
PROPERTIES
  OnlyAClaimReorders
  OnlyTheAnsweredLeave
  EventsArrive
