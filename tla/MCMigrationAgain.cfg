CONSTANTS
  Procs = {p1}
  Starts = {11}
  MaxCrashes = 1
SPECIFICATION MigrationSpec
INVARIANTS
  SafeToCallAgain
