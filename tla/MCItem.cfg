CONSTANTS
  NumCalls = 3
  StepOf <- Body
  RecordOf <- BodyRecords
  Waits <- BodyWaits
  Document = "document"
  Copied <- PageTwo
  MaxFaults = 3
SPECIFICATION FairItemSpec
INVARIANTS
  HitIsTheSameWork
  CountedNotReused
  CompletedIsRecorded
PROPERTIES
  FenceSpentOnce
  KeysFollowTheRecord
  ItemEnds
CHECK_DEADLOCK FALSE
