SPECIFICATION KernelSpec
CONSTANTS
    Cpus = {c1, c2}
    APT_WINDOW_SIZE = 2
    STARTUP_BLOCKS = 2
    APT_CUTOFF = 1
    APT_CUTOFF_PERMANENT = 2
    RCT_CUTOFF = 1
    RCT_CUTOFF_PERMANENT = 2
    NoCpu = NoCpu
    SECURITY_STRENGTH_BITS = 1
    INIT_SEED_SIZE_BITS = 2
    ESDM_ES_OVERSAMPLING_FACTOR = 2
    OVERSAMPLE_ES_BITS = 1
    DIGESTSIZE_BITS = 2
    HashSizes = {1, 2}
    DATA_NUM_VALUES = 2
    GCD_WINDOW_SIZE = 1
    Rates = {2}
    MaxHeld = 2
    ESDM_DATA_NUM_VALUES = 6
    ESDM_DATA_SLOTS_PER_UINT = 2
    MaxCounted = 8
    Hashes = {h1, h2, h3}
    Reader = Reader
    Null = Null
    MaxLoads = 2
    Readers = {r1}
    ESDM_TESTING_RINGBUFFER_SIZE = 4
    WordSize = 2
    MaxWriter = 9
INVARIANTS
    StartupEarned
    
    
    UnloadClean
    ReadsInsideRing
PROPERTIES
    EventsNotDuplicated
    KernelGateReopens
\* A panic() on a permanent failure of the health tests stops the system.
CHECK_DEADLOCK FALSE
