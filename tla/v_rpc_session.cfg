\* The server goes away while its socket file stays.
SPECIFICATION Spec
CONSTANTS
  c1 = c1
  c2 = c2
  Callers = {c1, c2}
  None = None
  Lengths = {1}
  MAX_DATA = 1
  SLOTS = 1
  MaxConns = 2
  MaxCalls = 1
  MaxLate = 0
  MaxDeaths = 1
INVARIANTS
  SessionReused
CHECK_DEADLOCK FALSE
