SPECIFICATION StreamSpec
CONSTANTS
  Own = {q1}
  Relayed = {}
  MaxEvents = 3
  MaxDrops = 1
  MaxRestarts = 1
INVARIANT OpenViewIsTrue
CHECK_DEADLOCK FALSE
