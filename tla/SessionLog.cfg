SPECIFICATION FairSpec
CONSTANTS
  Types = {"turn/start", "tool/call", "tool/result"}
  Ids = {1}
  MaxLog = 2
  MaxWaiting = 2
  MaxCrashes = 2
  MaxFaults = 1
  ShortWrites = FALSE
INVARIANTS
  TypeOK
  AckedSurvives
  FileIsPrefixOfMemory
  MissingStaysMissing
  RestartClosesOnce
PROPERTIES
  BarriersSettle
  KeepsPromises
CHECK_DEADLOCK FALSE
