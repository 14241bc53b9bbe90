CONSTANTS
  Workers = {w1, w2}
  Versions = {}
  NoVersion = none
  TTL = 1
  MaxUnits = 1
  MaxLeaseId = 5
  MaxLag = 0
  DepsDiffer = FALSE
  Modes = {"off"}
  Bootstrap = FALSE
  HasRelease = TRUE
  Unlimited = TRUE
  Attempts = 2
  MaxItems = 2
  MaxFaults = 2
  Categories <- PoolCategories
  Bundle <- Bundles
SPECIFICATION PoolSpec
SYMMETRY WorkerSymmetry
INVARIANTS
  LiveLeaseIsMine
  NoDoubleExecution
  GoneOnlyForLost
