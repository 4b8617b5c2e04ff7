SPECIFICATION ClientFairSpec
CONSTANTS
  Calls = {c1}
  Threshold = 2
  MaxTransports = 3
PROPERTIES
  FencedLeavesNothing
CHECK_DEADLOCK FALSE
