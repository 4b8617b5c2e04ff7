SPECIFICATION ContextSpec
CONSTANTS
  TailTurns = 1
  Loads = {{}}
  Budgets = {6}
  MaxInput = 1
  MaxWork = 3
  MaxCalls = 0
INVARIANTS
  SummaryStandsForAll
CHECK_DEADLOCK FALSE
