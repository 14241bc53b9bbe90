CONSTANTS
  Workers = {w1, w2}
  Versions = {v1}
  NoVersion = none
  Categories = {none}
  TTL = 1
  MaxUnits = 2
  MaxLeaseId = 5
  MaxLag = 1
SPECIFICATION DispatcherSpec
INVARIANTS
  OnePlace
  DrainedMeansDone
PROPERTIES
  RetiredForGood
  ReapedOnlySilent
  ImplementsQueue
