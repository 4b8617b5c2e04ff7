SPECIFICATION Spec
CONSTANTS
  Calls = {c1, c2}
  MaxJournals = 2
  MaxFaults = 0
  MaxCrashes = 0
INVARIANTS
  OneOutcome
CHECK_DEADLOCK FALSE
