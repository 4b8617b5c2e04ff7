SPECIFICATION FairSpec
CONSTANTS
  Requests = {1, 2, 3}
  Callers = {3}
  MaxClients = 4
  MaxMishaps = 2
INVARIANTS
  OneKept
  DisabledKeepsNone
  AnsweredStays
PROPERTIES
  EveryRequestEnds
CHECK_DEADLOCK FALSE
