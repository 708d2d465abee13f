CONSTANTS
  h1 = h1
  h2 = h2
  h3 = h3
  t1 = t1
  q1 = q1
  q2 = q2
  e1 = e1
  None = None
  Sweeper = Sweeper
  Handlers <- TwoHandlers
  Transfers <- NoTransfers
  Requests <- OneRequest
  Erasers <- NoErasers
  MaxDevices = 2
  MaxGrants = 0
  MaxFaults = 0
SPECIFICATION KSpec
INVARIANT CalledOffIsKept
CHECK_DEADLOCK FALSE
