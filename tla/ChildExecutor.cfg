SPECIFICATION FairSpec
CONSTANTS
  r1 = r1
  chat = chat
  manual = manual
  a = a
  b = b
  m = m
  Roots <- TheRoots
  Turns <- TheTurns
  Manual <- TheManual
  RootOf <- TheRootOf
  Children <- TheChildren
  TurnOf <- TheTurnOf
  MaxPerRoot = 2
  MaxGlobal = 1
  MaxPerTurn = 1
  OrderedReads = TRUE
  MaxFaults = 1
  MaxSpawns = 2
  MaxRestarts = 1
INVARIANTS CapacityExact RunsOnCommit CompletedIsTrue
PROPERTIES ComesToRest
CHECK_DEADLOCK FALSE
