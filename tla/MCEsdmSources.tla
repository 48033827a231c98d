----------------------------- MODULE MCEsdmSources -----------------------------
(***************************************************************************)
(* Model checking of the entropy sources of libesdm beside the auxiliary   *)
(* pool: the Jitter RNG (EsdmEsJent), the clients of the kernel module     *)
(* (EsdmEsKernelClient) and the fast sources (EsdmEsFast); and of the      *)
(* cryptography their data goes through: the hashes (EsdmHash) and the two *)
(* generators (EsdmHashDrbg, EsdmChaChaDrng).  Each is a system of its     *)
(* own; the first choice says which of them runs.                          *)
(***************************************************************************)
EXTENDS EsdmEsJent, Sequences

CONSTANTS
    Raters, MonitorThread, ESDM_DRNG_SECURITY_STRENGTH_BITS, ESDM_DRNG_INIT_SEED_SIZE_BITS,
    ESDM_ES_IRQ_MAX_KERNEL_RNG_ENTROPY, Inputs,
    STRENGTH, RequestSizes, Rates, DigestSizes, CpuMultiplier, ESDM_CPU_FULL_ENT_MULTIPLIER,
    HBlock, HWord, HDigest, Pieces, KeyLens, MaxMessage, MaxSqueeze,
    BYTE, LC_DRBG_HASH_STATELEN, LC_DRBG_HASH_BLOCKLEN, DrbgLens,
    lc_drbg_max_request_bytes, lc_drbg_max_addtl, MaxReseedCtr,
    WORD, LC_CC20_KEY_SIZE_WORDS, SeedLens, OutLens, CounterValues, NonceValues

VARIABLES
    part,
    fd, retry, rate, cache, kbits, asked, root, get, ask, conf, mixed, unseen,
    used, rates, usable, multiplier, digest, read, side, seen, broken, stale, raced,
    alg, phase, ctx, key, given, out, uneven,
    V, C, reseed_ctr, seeded, buf,
    cc20, again, updates, rekeyed, outbuf, absorbed

(* A hash small enough for the model that depends on all of its input.     *)
SmallHash(s) ==
    LET Values == BYTE ^ LC_DRBG_HASH_BLOCKLEN
        f[i \in 0..Len(s)] == IF i = 0 THEN 5
                              ELSE (f[i - 1] * 7 + s[i] + 3) % Values
    IN [i \in 1..LC_DRBG_HASH_BLOCKLEN |->
           (f[Len(s)] \div (BYTE ^ (LC_DRBG_HASH_BLOCKLEN - i))) % BYTE]

Client == INSTANCE EsdmEsKernelClient
FastEs == INSTANCE EsdmEsFast
Hashes == INSTANCE EsdmHash
Drbg == INSTANCE EsdmHashDrbg WITH
    DrbgHash <- SmallHash, DrbgStrings <- {<<>>, <<1>>, <<3, 2>>}
ChaCha == INSTANCE EsdmChaChaDrng

clientVars == <<fd, retry, rate, cache, kbits, asked, root, get, ask, conf, mixed, unseen>>
fastVars == <<used, rates, usable, multiplier, digest, read, side, seen, broken, stale, raced>>
hashVars == <<alg, phase, ctx, key, given, out, uneven>>
drbgVars == <<V, C, reseed_ctr, seeded, buf>>
ccVars == <<cc20, again, updates, rekeyed, outbuf, absorbed>>
cryptoVars == <<hashVars, drbgVars, ccVars>>
esVars == <<part, vars, clientVars, fastVars, cryptoVars>>

(* A part that does not run has only one initial state.  Both clients      *)
(* retry or neither does.                                                  *)
EsInit ==
    /\ part \in {"jent", "client", "fast", "hash", "drbg", "chacha"}
    /\ Init /\ Client!Init /\ FastEs!Init
    /\ Hashes!HashInitial /\ Drbg!DrbgInit /\ ChaCha!CcInit
    /\ retry["irq"] = retry["sched"]
    /\ part # "client" => retry["irq"] /\ asked = "irq"
    /\ part # "fast" => used = "cpu" /\ \A d \in DigestSizes : digest <= d

EsNext ==
    \/ /\ part = "jent" /\ Next
       /\ UNCHANGED <<part, clientVars, fastVars, cryptoVars>>
    \/ /\ part = "client" /\ Client!Next
       /\ UNCHANGED <<part, vars, fastVars, cryptoVars>>
    \/ /\ part = "fast" /\ FastEs!Next
       /\ UNCHANGED <<part, vars, clientVars, cryptoVars>>
    \/ /\ part = "hash" /\ Hashes!HashNext
       /\ UNCHANGED <<part, vars, clientVars, fastVars, drbgVars, ccVars>>
    \/ /\ part = "drbg" /\ Drbg!DrbgNext
       /\ UNCHANGED <<part, vars, clientVars, fastVars, hashVars, ccVars>>
    \/ /\ part = "chacha" /\ ChaCha!CcNext
       /\ UNCHANGED <<part, vars, clientVars, fastVars, hashVars, drbgVars>>

EsSpec == EsInit /\ [][EsNext]_esVars

(***************************************************************************)
(* The kernel collects as many bits as esdm_irq_get() or esdm_sched_get()  *)
(* was asked for, unless it refused the size or a query of the level       *)
(* overlapped the last change.                                             *)
(***************************************************************************)
RequestHonoured == Client!RequestHonoured

(***************************************************************************)
(* What a fast source credits is earned: no more than a rate configured in *)
(* its time, nothing from one that failed, and no block of the CPU from    *)
(* too few reads (esdm_krng_get(), esdm_get_cpu_data(),                    *)
(* esdm_cpu_multiplier()).  And beside the interrupt-based source the      *)
(* kernel RNG counts little (esdm_config_es_krng_entropy_rate_set()),      *)
(* unless its rate was set while that source was off.                      *)
(***************************************************************************)
CreditEarned == FastEs!CreditEarned /\ Client!KrngCapped

(***************************************************************************)
(* A digest, MAC or output stream is that of the whole data, however it    *)
(* was cut into updates and squeezes (sha256_update(), sha512_update(),    *)
(* keccak_absorb(), keccak_squeeze(), lc_hmac_final()), but for a squeeze  *)
(* that follows one of a partial block.                                    *)
(***************************************************************************)
DigestOfWhole == part = "hash" => Hashes!DigestOfWhole

(***************************************************************************)
(* crypto/hash_drbg.c implements Hash_DRBG of SP 800-90A: every call is a  *)
(* step of the standard's algorithm on numbers (Drbg!HashDrbgStandard,     *)
(* here asked of the steps of that part).                                  *)
(***************************************************************************)
HashDrbgStandard ==
    Drbg!Standard!Init /\ [][part = "drbg" => Drbg!Standard!Next]_drbgVars

(***************************************************************************)
(* lc_cc20_drng_update() renews the whole key from words nobody got, for   *)
(* every length of request, through the wraps of counter and nonce.        *)
(***************************************************************************)
ChaChaRenewed == part = "chacha" => ChaCha!ChaChaRenewed
==============================================================================
