\* A reader of /dev/urandom without a bound on its calls and a prediction
\* resistance reader; every generate call is followed by a reseed attempt.
SPECIFICATION Spec
CONSTANTS
  t1 = t1
  t2 = t2
  Threads = {t1, t2}
  BootThread = t1
  None = None
  NodeSeq <- NoNodes
  Ops <- OpsGetPr
  STRENGTH = 2
  INIT_ADD = 1
  MIN_SEED = 1
  INIT_ENT = 1
  NTG1_MIN = 2
  SP80090C = FALSE
  NTG1 = FALSE
  MaxEnt <- EntTwo
  RESEED_THRESH = 1
  MAX_WO_RESEED = 1
  THRESH_BITS = 0
  MAX_BITS = 0
  MaxCalls <- ReaderGoesOn
  SeedMayFail = FALSE
  EsMayFail = FALSE
INVARIANTS
    PoolExclusive
    PrBudget
PROPERTIES
    SeededEarned
