CONSTANTS
  Procs = {p1}
  Starts = {0, 1, 2, 3, 4, 5, 6, 7, 8, 9, 10, 11, 12, 13, 14, 15}
  MaxCrashes = 3
SPECIFICATION MigrationSpec
INVARIANTS
  VersionTellsTables
  OlderVersionsReopen
  CheckpointsSurvive
