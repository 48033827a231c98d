\* Two mothers start jobs in two regular slots and a special one, wait for them,
\* and the pool is released at any moment.
SPECIFICATION FairSpec
CONSTANTS
  priv = priv
  unpriv = unpriv
  Mothers = {priv, unpriv}
  None = None
  Destroyed = Destroyed
  MAX_THREADS = 2
  MAX_SPECIAL = 1
  CreateMayFail = TRUE
  MayRelease = TRUE
  MaxCalls <- ThreeCalls
INVARIANTS
    JobKept
PROPERTIES
    JobsRun
    ReleaseEnds
CHECK_DEADLOCK FALSE
