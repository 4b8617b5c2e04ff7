SPECIFICATION Spec
CONSTANTS
  Calls = {c1, c2}
  MaxJournals = 1
  MaxFaults = 1
  MaxCrashes = 0
INVARIANTS
  Readable
CHECK_DEADLOCK FALSE
