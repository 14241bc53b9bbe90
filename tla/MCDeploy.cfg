CONSTANTS
  d1 = d1
  d2 = d2
  w1 = w1
  w2 = w2
  Deployers = {d1, d2}
  Workers = {w1, w2}
  Trees <- SomeTrees
  HasProject = TRUE
  None = none
  none = none
  MaxDeploys = 2
  MaxChecks = 2
  MaxFaults = 1
SPECIFICATION DeploySpec
INVARIANTS
  VerdictIsEarned
  SuccessIsConverged
PROPERTIES
  DeployEnds
  TriggersFollowTheBundle
CHECK_DEADLOCK FALSE
