SPECIFICATION StreamSpec
CONSTANTS
  Own = {q1}
  Relayed = {}
  MaxEvents = 4
  MaxDrops = 1
  MaxRestarts = 1
INVARIANTS
  ViewIsHistory
  CardsAgree
PROPERTIES
  ViewCatchesUp
CHECK_DEADLOCK FALSE
