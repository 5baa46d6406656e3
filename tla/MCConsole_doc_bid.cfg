SPECIFICATION Spec
CONSTANTS
  None = None
  Key = {k1, k2}
  Console = {1}
  Batch = {1}
  Concurrent = FALSE
  IntMax = 7
  FactorDen = 4
  FirstClock = 6
  MaxClock = 6
  Config <- MCConfig
  Path <- MCPath
  Scripts <- OneBid
INVARIANT BidSent
CHECK_DEADLOCK FALSE
