SPECIFICATION Spec
CONSTANTS
  Calls = {c1, c2}
  MaxJournals = 2
  MaxFaults = 0
  MaxCrashes = 2
INVARIANTS
  SentIsRecorded
CHECK_DEADLOCK FALSE
