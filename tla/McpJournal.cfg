SPECIFICATION Spec
CONSTANTS
  Calls = {c1, c2}
  MaxJournals = 4
  MaxFaults = 2
  MaxCrashes = 2
INVARIANTS
  ReadableInOrder
PROPERTIES
  KeepsEvidence
CHECK_DEADLOCK FALSE
