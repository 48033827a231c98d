\* Two threads share a handle; one request is too long for an answer, requests time
\* out, and the server or the client goes away twice.
SPECIFICATION FairSpec
CONSTANTS
  c1 = c1
  c2 = c2
  Callers = {c1, c2}
  None = None
  Lengths = {1, 3}
  MAX_DATA = 2
  SLOTS = 1
  MaxConns = 2
  MaxCalls = 1
  MaxLate = 2
  MaxDeaths = 2
INVARIANTS
    AnswerOwn

    
CHECK_DEADLOCK FALSE
