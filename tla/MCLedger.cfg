CONSTANTS
  Procs = {p1, p2}
  Batch = 2
  PauseAfter = 1
  Window = 2
  MinDegraded = 2
  MaxItems = 3
  Verdicts = {"degraded"}
  MaxRows = 1
  MaxRuns = 2
  MaxFaults = 1
SPECIFICATION LedgerSpec
SYMMETRY ProcSymmetry
INVARIANTS
  CountersMatchEnds
  RunTellsItsItems
  AggregatesMatchRows
PROPERTIES
  DispositionIsFinal
CHECK_DEADLOCK FALSE
