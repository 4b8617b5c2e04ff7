SPECIFICATION ClientFairSpec
CONSTANTS
  Calls = {c1}
  Threshold = 2
  MaxTransports = 3
INVARIANTS
  NoOrphan
CHECK_DEADLOCK FALSE
