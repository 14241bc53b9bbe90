CONSTANTS
  Workers = {w1}
  Versions = {"v1", "missing", "broken", "no_agent"}
  NoVersion = none
  TTL = 1
  MaxUnits = 2
  MaxLeaseId = 4
  MaxLag = 0
  DepsDiffer = TRUE
  Modes = {"off", "refuse", "in-process"}
  Bootstrap = TRUE
  HasRelease = TRUE
  Unlimited = FALSE
  Attempts = 2
  MaxItems = 0
  MaxFaults = 1
  Categories <- PoolCategories
  Bundle <- Bundles
SPECIFICATION PoolSpec
INVARIANTS
  RunMatchesOutcome
  NoDanglingLease
  RunEndsAfterItsLease
