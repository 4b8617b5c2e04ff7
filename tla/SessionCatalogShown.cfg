SPECIFICATION Spec
CONSTANTS
  MaxLog = 2
  MaxFaults = 1
  MaxCrashes = 1
INVARIANTS
  ShownIsDurable
CHECK_DEADLOCK FALSE
