CONSTANTS
  p1 = p1
  p2 = p2
  none = none
  Procs = {p1, p2}
  Deployments <- FourBundles
  None = none
  LockWorks = FALSE
  MaxLoads = 2
  MaxFaults = 2
SPECIFICATION BundlesSpec
INVARIANTS
  RunsItsOwnCode
PROPERTIES
  OnceAndWhole
  AskedIsAnswered
CHECK_DEADLOCK FALSE
