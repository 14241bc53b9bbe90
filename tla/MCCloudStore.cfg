CONSTANTS
  Procs = {p1}
  Runs = {r1}
  Elsewhere = elsewhere
  Lanes = {"project", "runtime"}
  Saves = 2
  MaxAttempts = 2
  Batch = 1
  MaxFaults = 6
SPECIFICATION FairStoreSpec
INVARIANTS
  NothingLost
PROPERTIES
  DrainInOrder
  JournalDrains
