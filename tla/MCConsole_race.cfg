SPECIFICATION Spec
CONSTANTS
  None = None
  Key = {k1, k2, k3, k4}
  Console = {c1, c2}
  Batch = {c1, c2}
  Concurrent = TRUE
  IntMax = 7
  FactorDen = 4
  FirstClock = 6
  MaxClock = 8
  Config <- MCConfig
  Path <- MCPath
  Scripts <- OneBid
SYMMETRY Symmetry
INVARIANTS BidBacked BidLasting CredentialsUnshared AbandonedNeverSaved BidInv KeyInv
PROPERTY KeepsPromise
CHECK_DEADLOCK FALSE
