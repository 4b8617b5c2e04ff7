SPECIFICATION Spec
CONSTANTS
  Requests = {1, 2}
  Callers = {}
  MaxClients = 3
  MaxMishaps = 2
INVARIANT
  DisabledIsDown
CHECK_DEADLOCK FALSE
