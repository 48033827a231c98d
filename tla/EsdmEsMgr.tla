------------------------------ MODULE EsdmEsMgr ------------------------------
(***************************************************************************)
(* The entropy source manager, esdm/esdm_es_mgr.c: the seeding stages of   *)
(* the ESDM kept in esdm_state, and the pure decisions taken from them.    *)
(* The handlers that change this state run inside the threads of           *)
(* EsdmDrngMgr, which extends this module.                                 *)
(*                                                                         *)
(* Entropy is counted in abstract units.  One unit may stand for any       *)
(* number of bits: only the order of the thresholds below matters.         *)
(***************************************************************************)
EXTENDS Integers

CONSTANTS
    STRENGTH,           \* esdm_security_strength(), 256 bits
    INIT_ADD,           \* ESDM_SEED_BUFFER_INIT_ADD_BITS, 128 bits
    MIN_SEED,           \* ESDM_MIN_SEED_ENTROPY_BITS, 128 bits
    INIT_ENT,           \* ESDM_INIT_ENTROPY_BITS, 32 bits
    NTG1_MIN,           \* ESDM_AIS2031_NPTRNG_MIN_ENTROPY, 240 bits
    SP80090C,           \* esdm_sp80090c_compliant()
    NTG1,               \* esdm_ntg1_2024_compliant()
    MaxEnt              \* bound: what each source holds at most

(* The array esdm_es[]: the auxiliary pool, which clients fill, and one    *)
(* source for all the others.                                              *)
Es == {"aux", "noise"}

ASSUME EsAssumption ==
    /\ INIT_ENT \in Nat \ {0} /\ MIN_SEED \in Nat /\ STRENGTH \in Nat
    /\ INIT_ENT <= MIN_SEED /\ MIN_SEED <= STRENGTH
    /\ INIT_ADD \in Nat /\ NTG1_MIN \in Nat /\ STRENGTH <= 2 * NTG1_MIN
    /\ MaxEnt \in [Es -> Nat]
    /\ SP80090C \in BOOLEAN /\ NTG1 \in BOOLEAN

VARIABLES
    operational,        \* esdm_state.esdm_operational
    fullySeeded,        \* esdm_state.esdm_fully_seeded
    minSeeded,          \* esdm_state.esdm_min_seeded
    allNodes,           \* esdm_state.all_online_nodes_seeded
    thresh,             \* esdm_state.boot_entropy_thresh
    pool,               \* holder of esdm_state.reseed_in_progress
    shmOp,              \* the operational flag in the shared memory segment
    ent                 \* curr_entropy() of each entropy source

esVars == <<operational, fullySeeded, minSeeded, allNodes, thresh, pool,
            shmOp, ent>>

MinOf(a, b) == IF a <= b THEN a ELSE b

(* The sum of the entropy of all sources: esdm_entropy_rate_eb() for a     *)
(* seed buffer, esdm_avail_entropy() for the sources themselves.           *)
TotalEnt(eb) == eb["aux"] + eb["noise"]

(* esdm_get_seed_entropy_osr(): SP800-90C asks for more initial entropy.   *)
Osr(full) == IF SP80090C /\ ~full THEN STRENGTH + INIT_ADD ELSE STRENGTH

(* Counters of collected entropy are only compared with thresholds of at   *)
(* most CollCap, so saturating them there loses nothing.                   *)
CollCap == (IF STRENGTH + INIT_ADD >= NTG1_MIN
              THEN STRENGTH + INIT_ADD ELSE NTG1_MIN)
SatEnt(n) == MinOf(n, CollCap)

(* Bug variant of EnoughEntropy: the level of a minimally seeded ESDM      *)
(* taken for the fully seeded one.                                         *)
BugEnoughAtMinSeed(full, coll, eb) == coll >= MIN_SEED

(* esdm_fully_seeded(): does a seeding with `coll` units in total, `eb`    *)
(* per source, bring a DRNG to the fully seeded level?                     *)
EnoughEntropy(full, coll, eb) ==
    IF NTG1 THEN \E e, f \in Es : /\ e # f
                                  /\ eb[e] >= NTG1_MIN /\ eb[f] >= NTG1_MIN
            ELSE coll >= Osr(full)

(* esdm_init_entropy_level(): the next boot threshold.                     *)
InitEntropyLevel(full) == IF NTG1 THEN 2 * NTG1_MIN ELSE Osr(full)

(* esdm_es_reseed_wanted(), the ESDM being available.                      *)
ReseedWanted == ~allNodes /\ TotalEnt(ent) >= thresh

(* The level below which a seed buffer stays empty, and the test of it in  *)
(* esdm_fill_seed_buffer().                                                *)
ReqEnt == IF SP80090C THEN STRENGTH ELSE MIN_SEED
FillRefused(emergency) ==
    ~emergency /\ fullySeeded /\ TotalEnt(ent) < ReqEnt

(* What the sources put into the seed buffer when `ok` of them deliver.    *)
FillGot(emergency, requested, ok) ==
    [e \in Es |-> IF FillRefused(emergency) \/ e \notin ok
                    THEN 0 ELSE MinOf(ent[e], requested)]

(* What they hold afterwards: a source that fails loses what it took.      *)
FillLeft(emergency, requested) ==
    [e \in Es |-> IF FillRefused(emergency)
                    THEN ent[e] ELSE ent[e] - MinOf(ent[e], requested)]

(* num_es_delivered suffices to go on with the emergency reseeding.        *)
Delivered(buf) ==
    IF NTG1 THEN \E e, f \in Es : e # f /\ buf[e] > 0 /\ buf[f] > 0
            ELSE \E e \in Es : buf[e] > 0

EsTypeOK ==
    /\ operational \in BOOLEAN
    /\ fullySeeded \in BOOLEAN
    /\ minSeeded \in BOOLEAN
    /\ allNodes \in BOOLEAN
    /\ shmOp \in BOOLEAN
    /\ thresh \in Nat
    /\ ent \in [Es -> Nat] /\ \A e \in Es : ent[e] <= MaxEnt[e]

(* esdm_es_mgr_initialize() sets the boot threshold before anything seeds. *)
EsInit ==
    /\ operational = FALSE
    /\ fullySeeded = FALSE
    /\ minSeeded = FALSE
    /\ allNodes = FALSE
    /\ shmOp = FALSE
    /\ thresh = InitEntropyLevel(FALSE)
    /\ ent \in {[e \in Es |-> 0], MaxEnt}

(* An entropy source gains entropy: noise arrives, or a client adds some.  *)
EsArrive(e) ==
    /\ \E n \in (ent[e] + 1)..MaxEnt[e] : ent' = [ent EXCEPT ![e] = n]
    /\ UNCHANGED <<operational, fullySeeded, minSeeded, allNodes, thresh,
                   pool, shmOp>>

=============================================================================
