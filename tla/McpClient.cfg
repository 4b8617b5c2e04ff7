SPECIFICATION ClientFairSpec
CONSTANTS
  Calls = {c1}
  Threshold = 2
  MaxTransports = 3
INVARIANTS
  OrphansAreForgotten
PROPERTIES
  FencedStartsNothing
  EveryCallEnds
CHECK_DEADLOCK FALSE
