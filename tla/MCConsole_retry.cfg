SPECIFICATION Spec
CONSTANTS
  None = None
  Key = {k1, k2, k3, k4}
  Console = {1, 2}
  Batch = {1, 2}
  Concurrent = FALSE
  IntMax = 7
  FactorDen = 4
  FirstClock = 7
  MaxClock = 8
  Config <- MCConfig
  Path <- MCPath
  Scripts <- RetryScripts
SYMMETRY KeySymmetry
INVARIANTS SentFresh SeqInv
CHECK_DEADLOCK FALSE
