SPECIFICATION ContextSpec
CONSTANTS
  TailTurns = 1
  Loads = {{"skill-catalog", "memory"}}
  Budgets = {3, 6}
  MaxInput = 3
  MaxWork = 5
  MaxCalls = 1
INVARIANTS
  NothingForgotten
  TrimsLeast
  CheckpointsTrue
PROPERTIES
  CompactionEnds
CHECK_DEADLOCK FALSE
