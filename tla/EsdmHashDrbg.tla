----------------------------- MODULE EsdmHashDrbg -----------------------------
(***************************************************************************)
(* The Hash DRBG of crypto/drbg.c and crypto/hash_drbg.c, one of the       *)
(* built-in generators of the DRNG manager.  V and C are arrays of bytes,  *)
(* added with carries by hand; the strings to hash are linked lists of     *)
(* buffers, and the hash is a parameter.                                   *)
(***************************************************************************)
EXTENDS Integers, Sequences

CONSTANTS
    BYTE,                           \* values of a byte
    LC_DRBG_HASH_STATELEN,          \* bytes of V and C
    LC_DRBG_HASH_BLOCKLEN,          \* bytes of a hash
    DrbgHash(_),
    DrbgStrings,                    \* seeds and additional input
    DrbgLens,                       \* lengths asked for
    lc_drbg_max_request_bytes,
    lc_drbg_max_addtl,
    MaxReseedCtr                    \* bound: requests between two seeds

VARIABLES V, C, reseed_ctr, seeded, buf

drbgVars == <<V, C, reseed_ctr, seeded, buf>>

ZeroState == [i \in 1..LC_DRBG_HASH_STATELEN |-> 0]

(* Bug variant of drbg_add_buf: the carry ends with the shorter buffer.    *)
BugNoCarry(dst, add) ==
    LET n == Len(dst)
        k == Len(add)
        remainder[i \in 0..k] == IF i = 0 THEN 0 ELSE
            (remainder[i - 1] + dst[n + 1 - i] + add[k + 1 - i]) \div BYTE
    IN [j \in 1..n |->
           IF n + 1 - j <= k
             THEN (remainder[n - j] + dst[j] + add[k - (n - j)]) % BYTE
             ELSE dst[j]]

(* Big-endian addition from the last byte on; beyond the shorter buffer    *)
(* only as far as the carry goes.                                          *)
drbg_add_buf(dst, add) ==
    LET n == Len(dst)
        k == Len(add)
        remainder[i \in 0..n] ==
            IF i = 0 THEN 0
            ELSE IF i <= k
              THEN (remainder[i - 1] + dst[n + 1 - i] + add[k + 1 - i])
                       \div BYTE
            ELSE IF remainder[i - 1] > 0 THEN (dst[n + 1 - i] + 1) \div BYTE
            ELSE 0
    IN [j \in 1..n |->
           LET i == n - j IN
           IF i < k THEN (remainder[i] + dst[j] + add[k - i]) % BYTE
           ELSE IF remainder[i] > 0 THEN (dst[j] + 1) % BYTE
           ELSE dst[j]]

Least(a, b) == IF a < b THEN a ELSE b

(* The loop of drbg_hash_df(): input[0] counts the blocks.                 *)
RECURSIVE HashDfFrom(_, _, _)
HashDfFrom(input, outlen, entropylist) ==
    IF outlen = 0 THEN <<>>
    ELSE LET blocklen == Least(LC_DRBG_HASH_BLOCKLEN, outlen)
             tmp == DrbgHash(<<input % BYTE,
                               (8 * LC_DRBG_HASH_STATELEN) % BYTE>>
                             \o entropylist)
         IN SubSeq(tmp, 1, blocklen)
            \o HashDfFrom(input + 1, outlen - blocklen, entropylist)

drbg_hash_df(entropylist) == HashDfFrom(1, LC_DRBG_HASH_STATELEN, entropylist)

(* drbg_hash_update() and the end of lc_drbg_hash_seed(): the counter is   *)
(* raised before it is used.                                               *)
drbg_hash_update(seed) ==
    /\ V' = drbg_hash_df(IF seeded THEN <<1>> \o V \o seed ELSE seed)
    /\ C' = drbg_hash_df(<<0>> \o V')
    /\ reseed_ctr' = 0

(* lc_drbg_seed() by esdm_hash_drbg_seed(): an empty seed and too long a   *)
(* personalisation string are refused.                                     *)
lc_drbg_seed(seed, pers) ==
    /\ Len(pers) <= lc_drbg_max_addtl /\ seed # <<>>
    /\ drbg_hash_update(seed \o pers)
    /\ seeded' = TRUE
    /\ UNCHANGED buf

(* drbg_hash_process_addtl()                                               *)
ProcessAddtl(v, addtl) ==
    IF addtl = <<>> THEN v
    ELSE drbg_add_buf(v, DrbgHash(<<2>> \o v \o addtl))

(* drbg_hash_hashgen(): V is copied, and raised between two blocks.        *)
RECURSIVE HashgenFrom(_, _)
HashgenFrom(src, buflen) ==
    LET outlen == Least(LC_DRBG_HASH_BLOCKLEN, buflen)
        out == SubSeq(DrbgHash(src), 1, outlen)
    IN IF buflen = 0 THEN <<>>
       ELSE IF outlen < buflen
         THEN out \o HashgenFrom(drbg_add_buf(src, <<1>>), buflen - outlen)
       ELSE out

(* reseed_ctr as eight big-endian bytes; the bound keeps it small.         *)
CounterBytes(n) == <<(n \div BYTE) % BYTE, n % BYTE>>

(* drbg_hash_generate_internal()                                           *)
drbg_hash_generate_internal(buflen, addtl) ==
    LET v2 == ProcessAddtl(V, addtl)
        ctr == reseed_ctr + 1
        H == DrbgHash(<<3>> \o v2)
    IN /\ reseed_ctr' = ctr
       /\ buf' = HashgenFrom(v2, buflen)
       /\ V' = drbg_add_buf(drbg_add_buf(drbg_add_buf(v2, H), C),
                            CounterBytes(ctr))
       /\ UNCHANGED C

(* What lc_drbg_generate() refuses with -EINVAL, without a change of state.*)
Refused(buflen, addtllen) == \/ buflen = 0
                             \/ buflen > lc_drbg_max_request_bytes
                             \/ addtllen > lc_drbg_max_addtl

(* Whether the generator was ever seeded is not asked.                     *)
lc_drbg_generate(buflen, addtl) ==
    /\ ~Refused(buflen, Len(addtl))
    /\ reseed_ctr < MaxReseedCtr
    /\ drbg_hash_generate_internal(buflen, addtl)
    /\ UNCHANGED seeded

(* lc_drbg_zero(), lc_drbg_hash_zero()                                     *)
lc_drbg_zero ==
    /\ V' = ZeroState /\ C' = ZeroState /\ reseed_ctr' = 0 /\ seeded' = FALSE
    /\ UNCHANGED buf

(* lc_drbg_healthcheck_sanity(), the first step of the self-test           *)
lc_drbg_healthcheck_sanity == /\ Refused(1, lc_drbg_max_addtl + 1)
                              /\ Refused(lc_drbg_max_request_bytes + 1, 0)

(* lc_drbg_hash_alloc(), which the self-test precedes.                     *)
DrbgInit == /\ lc_drbg_healthcheck_sanity
            /\ V = ZeroState /\ C = ZeroState /\ reseed_ctr = 0
            /\ seeded = FALSE /\ buf = <<>>

DrbgNext == \/ \E s, p \in DrbgStrings : lc_drbg_seed(s, p)
            \/ \E n \in DrbgLens, a \in DrbgStrings : lc_drbg_generate(n, a)
            \/ lc_drbg_zero

Number(s) == LET f[i \in 0..Len(s)] == IF i = 0 THEN 0
                                       ELSE f[i - 1] * BYTE + s[i]
             IN f[Len(s)]

(* The refinement mapping: arrays stand for numbers, and the standard's    *)
(* counter names the request to come, the code's the last one.             *)
Standard == INSTANCE EsdmSp80090aHash WITH
    Base <- BYTE, SeedLen <- LC_DRBG_HASH_STATELEN,
    OutLen <- LC_DRBG_HASH_BLOCKLEN, Hash <- DrbgHash,
    Entropy <- DrbgStrings \ {<<>>},
    Additional <- {s \in DrbgStrings : Len(s) <= lc_drbg_max_addtl},
    Requests <- DrbgLens \cap 1..lc_drbg_max_request_bytes,
    v <- Number(V), c <- Number(C),
    counter <- reseed_ctr + 1, instantiated <- seeded, bytes <- buf

(* crypto/drbg.c and crypto/hash_drbg.c implement Hash_DRBG as SP 800-90A  *)
(* defines it: every seed, reseed, request with or without additional      *)
(* input and zeroisation of the byte-wise code is a step of the number     *)
(* algorithm, whatever carries the additions meet, however many blocks a   *)
(* request or hash_df takes, and in whatever order the calls come; the     *)
(* counter that starts one too low makes up for it by the early increment. *)
HashDrbgStandard == Standard!Spec
=============================================================================
