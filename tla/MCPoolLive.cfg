CONSTANTS
  Workers = {w1}
  Versions = {}
  NoVersion = none
  TTL = 1
  MaxUnits = 1
  MaxLeaseId = 4
  MaxLag = 0
  DepsDiffer = FALSE
  Modes = {"off"}
  Bootstrap = FALSE
  HasRelease = FALSE
  Unlimited = TRUE
  Attempts = 1
  MaxItems = 0
  MaxFaults = 2
  Categories <- PoolCategories
  Bundle <- Bundles
SPECIFICATION FairPoolSpec
PROPERTIES
  EveryItemSettles
  DrainEnds
