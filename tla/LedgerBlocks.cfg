CONSTANTS
  LedgerStores = {"memory"}
  Payers = {b1, b2, p}
  Amounts = {1, 2}
  Ceiling = 3
  WindowLength = 2
  HoldLeases = {2}
  MaxCharge = 2
  LedgerHorizon = 3
  Blocks = {b1, b2}
  BlockSize = 2
  Draws = {d1, d2}
  NoBlock = NoBlock
SPECIFICATION BlocksSpec
CHECK_DEADLOCK FALSE
INVARIANT DrawsFitTheCeiling
