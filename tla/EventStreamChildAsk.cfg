SPECIFICATION StreamSpec
CONSTANTS
  Own = {q1}
  Relayed = {k1}
  MaxEvents = 3
  MaxDrops = 1
  MaxRestarts = 1
INVARIANT ChildAskIsShown
CHECK_DEADLOCK FALSE
