----------------------------- MODULE EsdmEsFast -----------------------------
(***************************************************************************)
(* The fast entropy sources: the CPU (esdm/esdm_es_cpu.c), the kernel RNG  *)
(* (esdm/esdm_es_krng.c), /dev/hwrng (esdm/esdm_es_hwrand.c) and the       *)
(* kernel's Jitter RNG (esdm/esdm_es_jent_kernel.c).                       *)
(*                                                                         *)
(* A thread that holds the pool lock reads them.  Beside it an application *)
(* sets rates, a switch of the hash caps the rate of the CPU, status       *)
(* queries ask for the multiplier of the CPU, and the sources are opened   *)
(* anew.                                                                   *)
(***************************************************************************)
EXTENDS Naturals

CONSTANTS
    STRENGTH,           \* ESDM_DRNG_SECURITY_STRENGTH_BITS
    RequestSizes,       \* bits that a seeding asks for
    Rates,              \* rates that an application sets
    DigestSizes,        \* sizes in bits of the conditioning hashes
    CpuMultiplier,      \* cpu_es_multiplier() of the CPU
    ESDM_CPU_FULL_ENT_MULTIPLIER

VARIABLES
    used,               \* the source that is looked at: they share nothing
    rates,              \* the configured rates
    usable,             \* /dev/hwrng and the kernel's Jitter RNG are open
    multiplier,         \* esdm_cpu_data_multiplier, 0 before the first use
    digest,             \* size of the current hash
    read,               \* the thread that reads entropy
    side,               \* the thread that switches the hash or shows the status
    seen,               \* history: rates of the source in the time of the read
    broken,             \* history: the CPU failed and no application set its rate since
    stale,              \* history: a hash switch stored a rate read before the failure
    raced               \* history: the multiplier was taken from a half-done setup

fastVars == <<used, rates, usable, multiplier, digest, read, side, seen, broken, stale, raced>>

Fast == {"cpu", "krng", "hwrand", "jent_kernel"}
Least(a, b) == IF a < b THEN a ELSE b
Most(a, b) == IF a > b THEN a ELSE b
AtRest == [pc |-> "idle"]

(* esdm_fast_noise_entropylevel().                                         *)
Level(rt, bits) == Least((rt * bits) \div STRENGTH, bits)

Init ==
    /\ used \in Fast
    /\ rates = [s \in Fast |-> STRENGTH]
    /\ usable = [s \in {"hwrand", "jent_kernel"} |-> FALSE]
    /\ multiplier = 0
    /\ digest \in DigestSizes
    /\ read = AtRest /\ side = AtRest
    /\ seen = {} /\ broken = FALSE /\ stale = FALSE /\ raced = FALSE

(* Storing a rate, which a read of the source that is under way may see.   *)
SetRate(s, v) ==
    /\ rates' = [rates EXCEPT ![s] = v]
    /\ seen' = IF read.pc # "idle" /\ read.source = s THEN seen \cup {v} ELSE seen

RateSet(s, v) ==
    /\ s = used
    /\ SetRate(s, Least(v, STRENGTH))
    /\ UNCHANGED <<used, usable, multiplier, digest, read, side, raced>>

esdm_config_es_cpu_entropy_rate_set(v) == RateSet("cpu", v) /\ broken' = FALSE /\ stale' = FALSE
esdm_config_es_hwrand_entropy_rate_set(v) == RateSet("hwrand", v) /\ UNCHANGED <<broken, stale>>
esdm_config_es_jent_kernel_entropy_rate_set(v) ==
    RateSet("jent_kernel", v) /\ UNCHANGED <<broken, stale>>
KrngRateSet(v) == RateSet("krng", v) /\ UNCHANGED <<broken, stale>>

(* A source is opened anew, when it is missing or has no provider it stays *)
(* closed.  Only the kernel's Jitter RNG keeps a lock against its readers. *)
Reopen(s, up) ==
    /\ s = used
    /\ usable' = [usable EXCEPT ![s] = up]
    /\ UNCHANGED <<used, rates, multiplier, digest, read, side, seen, broken, stale, raced>>

JentLockFree == IF read.pc = "idle" THEN TRUE ELSE read.source # "jent_kernel"

esdm_hwrand_init == \E up \in BOOLEAN : Reopen("hwrand", up)
esdm_hwrand_finalize == Reopen("hwrand", FALSE)
esdm_jent_kernel_init == JentLockFree /\ \E up \in BOOLEAN : Reopen("jent_kernel", up)
esdm_jent_kernel_finalize == JentLockFree /\ Reopen("jent_kernel", FALSE)

-----------------------------------------------------------------------------
(* esdm_cpu_multiplier(): the value of the CPU is stored first and raised  *)
(* to the configured one in a second step; whoever finds a value uses it.  *)

Raised == Most(Most(CpuMultiplier, 1), ESDM_CPU_FULL_ENT_MULTIPLIER)

(* The value stored by the first of the two steps.                         *)
FirstMultiplier(old, new) ==
    IF old > 0 THEN new = old ELSE new = Most(CpuMultiplier, 1)

esdm_cpu_multiplier(old, new) == new = Most(old, ESDM_CPU_FULL_ENT_MULTIPLIER)

-----------------------------------------------------------------------------
(* Reading entropy.                                                        *)

StartRead(s) ==
    /\ s = used
    /\ read.pc = "idle"
    /\ seen' = {rates[s]}
    /\ UNCHANGED <<used, rates, usable, multiplier, digest, side, broken, stale, raced>>

Reading(s, bits, ent) == read' = [pc |-> "read", source |-> s, bits |-> bits, ent |-> ent]
Got(s, bits, e_bits, failed) ==
    read' = [pc |-> "got", source |-> s, bits |-> bits, e_bits |-> e_bits, failed |-> failed]

esdm_cpu_get(bits) ==
    StartRead("cpu") /\ read' = [pc |-> "multiplier", source |-> "cpu", bits |-> bits]

(* The level is taken before the read.                                     *)
esdm_krng_get(bits) == StartRead("krng") /\ Reading("krng", bits, Level(rates["krng"], bits))

(* The level is taken after the read.                                      *)
OpenGet(s, bits) ==
    /\ StartRead(s)
    /\ IF usable[s] THEN Reading(s, bits, 0) ELSE Got(s, bits, 0, TRUE)

esdm_hwrand_get(bits) == OpenGet("hwrand", bits)
esdm_jent_kernel_get(bits) == OpenGet("jent_kernel", bits)

esdm_hwrand_entropylevel(bits) ==
    IF usable["hwrand"] THEN Level(rates["hwrand"], bits) ELSE 0
esdm_jent_kernel_entropylevel(bits) ==
    IF usable["jent_kernel"] THEN Level(rates["jent_kernel"], bits) ELSE 0
esdm_cpu_entropylevel(bits) == Level(rates["cpu"], bits)

Credit(s) ==
    CASE s = "krng" -> read.ent
      [] s = "hwrand" -> esdm_hwrand_entropylevel(read.bits)
      [] s = "jent_kernel" -> esdm_jent_kernel_entropylevel(read.bits)

(* The read of the kernel RNG, of the device or of the kernel's Jitter RNG *)
(* ends, or fails.                                                         *)
FinishRead(s) ==
    /\ read.pc = "read" /\ read.source = s
    /\ \/ Got(s, read.bits, Credit(s), FALSE)
       \/ Got(s, read.bits, 0, TRUE)
    /\ UNCHANGED <<used, rates, usable, multiplier, digest, side, seen, broken, stale, raced>>

(* The CPU: the multiplier, in one or two steps, then as many reads,       *)
(* compressed by the hash, whose size caps the request.                    *)
CpuMultiplierRead ==
    /\ read.pc = "multiplier"
    /\ FirstMultiplier(multiplier, multiplier')
    /\ raced' = (multiplier > 0 /\ side.pc = "raise")
    /\ read' = IF multiplier = 0
               THEN [pc |-> "raise", source |-> "cpu", bits |-> read.bits]
               ELSE [pc |-> "pull", source |-> "cpu", left |-> multiplier, done |-> 0,
                     bits |-> IF multiplier > 1 THEN Least(read.bits, digest) ELSE read.bits]
    /\ UNCHANGED <<used, rates, usable, digest, side, seen, broken, stale>>

CpuMultiplierRaise ==
    /\ read.pc = "raise"
    /\ esdm_cpu_multiplier(multiplier, multiplier')
    /\ read' = [pc |-> "pull", source |-> "cpu", left |-> multiplier', done |-> 0,
                bits |-> IF multiplier' > 1 THEN Least(read.bits, digest) ELSE read.bits]
    /\ UNCHANGED <<used, rates, usable, digest, side, seen, broken, stale, raced>>

(* esdm_get_cpu_data(): a failure switches the source off for good.        *)
BugCpuFailureKeepsRate ==
    /\ read.pc = "pull" /\ read.left > 0
    /\ Got("cpu", read.bits, 0, TRUE)
    /\ broken' = TRUE
    /\ UNCHANGED <<used, rates, usable, multiplier, digest, side, seen, stale, raced>>

CpuFails ==
    /\ read.pc = "pull" /\ read.left > 0
    /\ SetRate("cpu", 0)
    /\ Got("cpu", read.bits, 0, TRUE)
    /\ broken' = TRUE
    /\ UNCHANGED <<used, usable, multiplier, digest, side, stale, raced>>

esdm_get_cpu_data ==
    /\ read.pc = "pull" /\ read.left > 0
    /\ read' = [pc |-> "pull", source |-> "cpu", left |-> read.left - 1, done |-> read.done + 1,
                bits |-> read.bits]
    /\ UNCHANGED <<used, rates, usable, multiplier, digest, side, seen, broken, stale, raced>>

esdm_get_cpu_data_compress ==
    /\ read.pc = "pull" /\ read.left = 0
    /\ \/ read' = [pc |-> "got", source |-> "cpu", bits |-> read.bits, failed |-> FALSE,
                   pulls |-> read.done, e_bits |-> esdm_cpu_entropylevel(read.bits)]
       \/ Got("cpu", read.bits, 0, TRUE)                            \* the hash failed
    /\ UNCHANGED <<used, rates, usable, multiplier, digest, side, seen, broken, stale, raced>>

EndRead ==
    /\ read.pc = "got"
    /\ read' = AtRest /\ seen' = {} /\ raced' = FALSE
    /\ UNCHANGED <<used, rates, usable, multiplier, digest, side, broken, stale>>

-----------------------------------------------------------------------------
(* esdm_cpu_switch_hash(), and esdm_cpu_es_state(), which ends after the   *)
(* multiplier.                                                             *)

SideStart ==
    /\ used = "cpu"
    /\ side.pc = "idle"
    /\ \/ digest' \in DigestSizes /\ side' = [pc |-> "multiplier", switch |-> TRUE]
       \/ side' = [pc |-> "multiplier", switch |-> FALSE] /\ UNCHANGED digest
    /\ UNCHANGED <<used, rates, usable, multiplier, read, seen, broken, stale, raced>>

SideMultiplier ==
    /\ \/ /\ side.pc = "multiplier"
          /\ FirstMultiplier(multiplier, multiplier')
          /\ side' = [pc |-> IF multiplier = 0 THEN "raise" ELSE "rate", switch |-> side.switch]
       \/ /\ side.pc = "raise"
          /\ esdm_cpu_multiplier(multiplier, multiplier')
          /\ side' = [pc |-> "rate", switch |-> side.switch]
    /\ UNCHANGED <<used, rates, usable, digest, read, seen, broken, stale, raced>>

SideRate ==
    /\ side.pc = "rate"
    /\ side' = IF side.switch THEN [pc |-> "cap", rate |-> rates["cpu"]] ELSE AtRest
    /\ UNCHANGED <<used, rates, usable, multiplier, digest, read, seen, broken, stale, raced>>

esdm_cpu_switch_hash ==
    /\ side.pc = "cap"
    /\ SetRate("cpu", Least(digest, side.rate))
    /\ stale' = (stale \/ (broken /\ side.rate # 0))
    /\ side' = AtRest
    /\ UNCHANGED <<used, usable, multiplier, digest, read, broken, raced>>

Next ==
    \/ \E v \in Rates : \/ esdm_config_es_cpu_entropy_rate_set(v) \/ KrngRateSet(v)
                        \/ esdm_config_es_hwrand_entropy_rate_set(v)
                        \/ esdm_config_es_jent_kernel_entropy_rate_set(v)
    \/ esdm_hwrand_init \/ esdm_hwrand_finalize
    \/ esdm_jent_kernel_init \/ esdm_jent_kernel_finalize
    \/ \E bits \in RequestSizes : \/ esdm_cpu_get(bits) \/ esdm_krng_get(bits)
                                  \/ esdm_hwrand_get(bits) \/ esdm_jent_kernel_get(bits)
    \/ \E s \in Fast \ {"cpu"} : FinishRead(s)
    \/ CpuMultiplierRead \/ CpuMultiplierRaise \/ CpuFails \/ esdm_get_cpu_data
    \/ esdm_get_cpu_data_compress \/ EndRead
    \/ SideStart \/ SideMultiplier \/ SideRate \/ esdm_cpu_switch_hash

Spec == Init /\ [][Next]_fastVars

-----------------------------------------------------------------------------
(***************************************************************************)
(* Credit is earned.  A read credits no more than the share of a rate that *)
(* was configured while it was under way, and nothing when the source      *)
(* failed.  Once a read of the CPU failed, the CPU counts no entropy until *)
(* an application sets its rate again or a switch of the hash stores a     *)
(* rate that it took before the failure.  And where the CPU delivers less  *)
(* than full entropy, each credited block is compressed from as many reads *)
(* as the larger of the CPU's and the configured multiplier asks for,      *)
(* unless another thread was just setting the multiplier up.               *)
(***************************************************************************)
CreditEarned ==
    /\ read.pc = "got" =>
         /\ \E rt \in seen : read.e_bits <= Level(rt, read.bits)
         /\ read.failed => read.e_bits = 0
         /\ read.source = "cpu" /\ ~read.failed => read.pulls >= Raised \/ raced
    /\ broken /\ ~stale => rates["cpu"] = 0
=============================================================================
