SPECIFICATION EsSpec
CONSTANTS
    Getters = {g1, g2}
    NoGetter = NoGetter
    ESDM_JENT_ENTROPY_BLOCKS = 2
    MaxBlocks = 2
    Raters = {m}
    MonitorThread = m
    ESDM_DRNG_SECURITY_STRENGTH_BITS = 2
    ESDM_DRNG_INIT_SEED_SIZE_BITS = 3
    ESDM_ES_IRQ_MAX_KERNEL_RNG_ENTROPY = 1
    Inputs = {0, 3}
    STRENGTH = 2
    RequestSizes = {2, 3}
    Rates = {0, 4}
    DigestSizes = {1, 4}
    CpuMultiplier = 1
    ESDM_CPU_FULL_ENT_MULTIPLIER = 2
    HBlock = 8
    HWord = 4
    HDigest = 7
    Pieces = {0, 1, 4, 9}
    KeyLens = {3, 9}
    MaxMessage = 17
    MaxSqueeze = 17
    BYTE = 4
    LC_DRBG_HASH_STATELEN = 3
    LC_DRBG_HASH_BLOCKLEN = 2
    DrbgLens = {0, 1, 5, 6}
    lc_drbg_max_request_bytes = 5
    lc_drbg_max_addtl = 1
    MaxReseedCtr = 4
    WORD = 2
    LC_CC20_KEY_SIZE_WORDS = 2
    SeedLens = {0, 1, 4, 5, 8}
    OutLens = {0, 1, 2, 3, 4, 5, 7, 8, 9, 12, 16}
    CounterValues = 4
    NonceValues = 2
INVARIANTS
    CreditBacked
    RequestHonoured
    
    DigestOfWhole
    
PROPERTIES
    BlocksHandedOnce
    HashDrbgStandard
