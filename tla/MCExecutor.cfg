CONSTANTS
  plain = plain
  async = async
  raising = raising
  exiting = exiting
  bare = bare
  Agents = {plain, async, raising, exiting, bare}
  Async = {async}
  OwnLimit = {plain}
  Bundle <- Bundles
  Secrets <- TwoProjects
  Reserved = {"PATH"}
  Ambient = {}
  Reuse = "version"
  MaxLeases = 3
  MaxFaults = 1
SPECIFICATION ExecutorSpec
INVARIANTS
  ReportIsForItsItem
  RunsUnderItsOwn
  NothingLeaksToTheNext
PROPERTIES
  BudgetedItemSettles
CHECK_DEADLOCK FALSE
