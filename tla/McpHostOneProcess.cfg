SPECIFICATION Spec
CONSTANTS
  Requests = {1, 2}
  Callers = {}
  MaxClients = 3
  MaxMishaps = 2
INVARIANT
  OneProcess
CHECK_DEADLOCK FALSE
