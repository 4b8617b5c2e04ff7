SPECIFICATION Spec
CONSTANTS
  MaxLog = 3
  MaxFaults = 2
  MaxCrashes = 1
INVARIANTS
  DeletedStaysDeleted
  ListedIsTrue
PROPERTIES
  QuietAfterClose
  SummaryCatchesUp
CHECK_DEADLOCK FALSE
