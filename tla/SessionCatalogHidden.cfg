SPECIFICATION Spec
CONSTANTS
  MaxLog = 2
  MaxFaults = 1
  MaxCrashes = 1
INVARIANTS
  NoneHidden
CHECK_DEADLOCK FALSE
