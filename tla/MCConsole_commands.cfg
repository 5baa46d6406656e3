SPECIFICATION OneSession
CONSTANTS
  None = None
  Key = {k1, k2}
  Console = {1, 2}
  Batch = {1}
  Concurrent = FALSE
  IntMax = 7
  FactorDen = 4
  FirstClock = 7
  MaxClock = 8
  Config <- LimitConfig
  Path <- MCPath
  Scripts <- NoOrCommandScripts
INVARIANTS TypeOK FactorInRange
PROPERTY EventuallyExits
CHECK_DEADLOCK FALSE
