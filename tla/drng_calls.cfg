\* The calls that do not wait for entropy and esdm_get_seed() against a prediction
\* resistance reader and entropy that is added, in portions smaller than a seeding needs.
SPECIFICATION FairSpec
CONSTANTS
  t1 = t1
  t2 = t2
  Threads = {t1, t2}
  BootThread = t1
  None = None
  NodeSeq <- NoNodes
  Ops <- OpsCalls
  STRENGTH = 2
  INIT_ADD = 1
  MIN_SEED = 1
  INIT_ENT = 1
  NTG1_MIN = 2
  SP80090C = FALSE
  NTG1 = FALSE
  MaxEnt <- EntOne
  RESEED_THRESH = 1
  MAX_WO_RESEED = 1
  THRESH_BITS = 0
  MAX_BITS = 0
  MaxCalls <- OneCall
  SeedMayFail = FALSE
  EsMayFail = FALSE

  
PROPERTIES
  GetSeedYields
  EveryCallReturns
CHECK_DEADLOCK FALSE
