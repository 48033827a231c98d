\* A DRNG per node, forced reseeds, the monitor, and the NTG.1 and SP800-90C modes:
\* two sources have to deliver, they may fail, and so may the crypto backend.
SPECIFICATION Spec
CONSTANTS
  t1 = t1
  t2 = t2
  Threads = {t1, t2}
  BootThread = t1
  None = None
  NodeSeq <- OneNode
  Ops <- OpsNodes
  STRENGTH = 1
  INIT_ADD = 1
  MIN_SEED = 1
  INIT_ENT = 1
  NTG1_MIN = 1
  SP80090C = TRUE
  NTG1 = TRUE
  MaxEnt <- EntBoth
  RESEED_THRESH = 1
  MAX_WO_RESEED = 1
  THRESH_BITS = 0
  MAX_BITS = 0
  MaxCalls <- OneCall
  SeedMayFail = TRUE
  EsMayFail = TRUE
INVARIANTS
    SeedingAtomic
CHECK_DEADLOCK FALSE
