SPECIFICATION SilentSpec
CONSTANTS
  TailTurns = 1
  Loads = {{}}
  Budgets = {4}
  MaxInput = 3
  MaxWork = 2
  MaxCalls = 0
PROPERTIES
  StopFreesLoop
CHECK_DEADLOCK FALSE
