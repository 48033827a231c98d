--------------------------- MODULE EsdmKernelPools ---------------------------
(***************************************************************************)
(* The per-CPU entropy pools of the kernel module: the interrupt source    *)
(* (addon/linux_esdm_es/esdm_es_irq.c) or the scheduler source             *)
(* (esdm_es_sched.c), the common divisor of the time stamps they share     *)
(* (esdm_es_timer_common.c), and the ioctls by which user space reads and  *)
(* configures a source (esdm_es_mgr_irq.c, esdm_es_mgr_sched.c).           *)
(*                                                                         *)
(* Events are counted on each CPU in interrupt context.  An ioctl holds    *)
(* esdm_cdev_lock, so one runs at a time, but the interrupts and the       *)
(* resets of failed health tests go on below it.  EsdmKernelHealth says    *)
(* when a health test fails and when its startup test is done; here either *)
(* may happen at any time.  The contents of arrays and pools are left to   *)
(* EsdmKernelArray.                                                        *)
(***************************************************************************)
EXTENDS Integers, Functions, FiniteSetsExt

CONSTANTS
    Cpus, NoCpu,
    SECURITY_STRENGTH_BITS,     \* ESDM_DRNG_SECURITY_STRENGTH_BITS
    INIT_SEED_SIZE_BITS,        \* ESDM_DRNG_INIT_SEED_SIZE_BITS
    ESDM_ES_OVERSAMPLING_FACTOR,
    OVERSAMPLE_ES_BITS,         \* ESDM_OVERSAMPLE_ES_BITS
    DIGESTSIZE_BITS,            \* ESDM_HASH_DIGESTSIZE_BITS
    HashSizes,                  \* digest sizes of the hashes esdm_hash_name may name
    DATA_NUM_VALUES,            \* ESDM_DATA_NUM_VALUES
    GCD_WINDOW_SIZE,            \* ESDM_GCD_WINDOW_SIZE
    Rates,                      \* bound: entropy rates that user space sets
    MaxHeld                     \* bound: events counted and not yet delivered

VARIABLES
    es,             \* which source: "irq" or "sched"
    fips,           \* fips_enabled
    hashBits,       \* digest size of the hash in use
    done,           \* sp80090b_startup_done of the source
    events,         \* esdm_irq_array_irqs, esdm_sched_array_events
    online,         \* esdm_irq_lock_init, esdm_sched_lock_init
    gcdKnown,       \* esdm_gcd_timer # 0
    gcdPtr,         \* esdm_gcd_history_ptr
    rate,           \* esdm_irq_entropy_bits, esdm_sched_entropy_bits
    requested,      \* esdm_requested_irq_bits, esdm_requested_sched_bits
    pc,             \* where a CPU is in esdm_time_process()
    ipc,            \* where the ioctl that holds esdm_cdev_lock is
    todo,           \* CPUs whose pool it has still to hash
    cpu,            \* the CPU whose pool it hashes
    found,          \* found_irqs, found_events
    collected,      \* collected_irqs, collected_events
    wanted,         \* requested_irqs, requested_events
    bits,           \* e_bits of the last buffer handed to user space
    announced,      \* history: what ESDM_*_AVAIL_ENTROPY returned last, as long as
                    \* nothing has taken events away
    old,            \* history: CPUs that still count events of before the last reset
    inFlight        \* history: a read was under way at a reset

params == <<es, fips, hashBits>>
conf == <<rate, requested>>
gcdVars == <<gcdKnown, gcdPtr>>
readVars == <<todo, cpu, found, collected, wanted>>
histVars == <<announced, old, inFlight>>
vars == <<params, done, events, online, gcdVars, conf, pc, ipc, readVars, bits, histVars>>

esdm_entropy_to_data(b, r) == (b * r) \div SECURITY_STRENGTH_BITS
esdm_data_to_entropy(n, r) == (n * SECURITY_STRENGTH_BITS) \div r
esdm_compress_osr == IF fips THEN OVERSAMPLE_ES_BITS ELSE 0
esdm_reduce_by_osr(b) ==
    IF b >= esdm_compress_osr THEN b - esdm_compress_osr ELSE 0

(* The most events of one CPU that a hash of b bits can hold.  The         *)
(* interrupt source compresses its array whenever it is full, as           *)
(* esdm_irq_continuous_compression says by default; the scheduler source   *)
(* holds no more than one array.                                           *)
IrqCapacity(b) == esdm_entropy_to_data(b, rate)
SchedCapacity(b) == Min({esdm_entropy_to_data(b, rate), DATA_NUM_VALUES})

(* The initial rate: without a high-resolution timer more events are asked *)
(* for.                                                                    *)
esdm_irq_es_init(highres) ==
    IF highres THEN SECURITY_STRENGTH_BITS
    ELSE SECURITY_STRENGTH_BITS * ESDM_ES_OVERSAMPLING_FACTOR

esdm_sched_es_init(highres) ==
    IF highres THEN SECURITY_STRENGTH_BITS
    ELSE SECURITY_STRENGTH_BITS * ESDM_ES_OVERSAMPLING_FACTOR

Init ==
    /\ es \in {"irq", "sched"} /\ fips \in BOOLEAN /\ hashBits \in HashSizes
    /\ done = FALSE
    /\ events = [c \in Cpus |-> 0]
    /\ online = [c \in Cpus |-> FALSE]
    /\ gcdKnown = FALSE /\ gcdPtr = -1
    /\ \E highres \in BOOLEAN : rate = IF es = "irq" THEN esdm_irq_es_init(highres)
                                     ELSE esdm_sched_es_init(highres)
    /\ requested = INIT_SEED_SIZE_BITS
    /\ pc = [c \in Cpus |-> "idle"]
    /\ ipc = "idle"
    /\ todo = {} /\ cpu = NoCpu /\ found = 0 /\ collected = 0 /\ wanted = 0
    /\ bits = 0
    /\ announced = 0 /\ old = {} /\ inFlight = FALSE

(* The events that are counted or in the hands of a read.                  *)
Held == SumFunction(events) + found + collected

Goto(c, l) == pc' = [pc EXCEPT ![c] = l]

-----------------------------------------------------------------------------
(* Interrupt context.                                                      *)

(* The time stamp is taken, and how it is stored depends on whether the    *)
(* common divisor is known.                                                *)
esdm_time_process(c) ==
    /\ pc[c] = "idle"
    /\ Goto(c, IF gcdKnown THEN "slot" ELSE "word")
    /\ UNCHANGED <<params, done, events, online, gcdVars, conf, ipc, readVars, bits, histVars>>

(* Storing the time stamp filled the array: the interrupt source           *)
(* compresses it into the pool, which the first compression brings online  *)
(* unless its hash cannot be set up.  When a test interface takes the raw  *)
(* array instead, what the CPU has counted is void.                        *)
esdm_irq_array_to_hash(c, counted) ==
    \/ /\ \E ok \in BOOLEAN : online' = [online EXCEPT ![c] = @ \/ ok]
       /\ events' = counted
       /\ UNCHANGED announced
    \/ /\ events' = [counted EXCEPT ![c] = 0]
       /\ announced' = 0
       /\ UNCHANGED online

(* Only an event that passed the health test counts.                       *)
CountedEvents(c, health) ==
    IF health = "pass" /\ Held < MaxHeld THEN [events EXCEPT ![c] = @ + 1] ELSE events

AfterStamp(c) == Goto(c, IF pc[c] = "word" THEN "gcd" ELSE "idle")

(* The division by the common divisor is one by zero when a reset has      *)
(* forgotten it since esdm_time_process() looked.  A stamp otherwise       *)
(* may be dropped by the health test or taken by a test interface.         *)
StampNotStored(c) ==
    /\ pc[c] \in {"slot", "word"}
    /\ IF pc[c] = "slot" /\ ~gcdKnown THEN Goto(c, "divided_by_zero") ELSE AfterStamp(c)
    /\ UNCHANGED <<params, done, events, online, gcdVars, conf, ipc, readVars, bits, histVars>>

StoreStamp(c) ==
    /\ pc[c] = "word" \/ (pc[c] = "slot" /\ gcdKnown)
    /\ AfterStamp(c)
    /\ UNCHANGED <<params, done, gcdVars, conf, ipc, readVars, bits, old, inFlight>>

esdm_irq_time_process_common(c) ==
    /\ es = "irq"
    /\ StoreStamp(c)
    /\ \E health \in {"pass", "fail_use"} :
         \/ esdm_irq_array_to_hash(c, CountedEvents(c, health))
         \/ events' = CountedEvents(c, health) /\ UNCHANGED <<online, announced>>

esdm_sched_time_process_common(c) ==
    /\ es = "sched"
    /\ StoreStamp(c)
    /\ \E health \in {"pass", "fail_use"} : events' = CountedEvents(c, health)
    /\ UNCHANGED <<online, announced>>

(* The window of time stamps from which the common divisor is derived; the *)
(* CPU that finds it full derives it.  Beyond the window the counter has   *)
(* no effect, it is not followed there.                                    *)
esdm_gcd_add_value(c) ==
    /\ pc[c] = "gcd"
    /\ gcdPtr' = Min({gcdPtr, GCD_WINDOW_SIZE}) + 1
    /\ Goto(c, IF gcdPtr + 1 = GCD_WINDOW_SIZE THEN "gcd_set" ELSE "idle")
    /\ UNCHANGED <<params, done, events, online, gcdKnown, conf, ipc, readVars, bits, histVars>>

esdm_gcd_set_check(c) ==
    /\ pc[c] = "gcd_set"
    /\ gcdKnown' = TRUE
    /\ gcdPtr' = 0
    /\ Goto(c, "idle")
    /\ UNCHANGED <<params, done, events, online, conf, ipc, readVars, bits, histVars>>

BugResetKeepsEvents ==
    /\ gcdKnown' = FALSE
    /\ UNCHANGED events
    /\ announced' = 0
    /\ old' = {c \in Cpus : events'[c] > 0}
    /\ inFlight' = (ipc # "idle")

(* esdm_irq_reset(), esdm_sched_reset(): forget the common divisor and     *)
(* what every CPU has counted.                                             *)
Reset ==
    /\ gcdKnown' = FALSE
    /\ events' = [c \in Cpus |-> 0]
    /\ announced' = 0
    /\ old' = {c \in Cpus : events'[c] > 0}
    /\ inFlight' = (ipc # "idle")

(* A health test fails: esdm_reset_state().                                *)
esdm_reset_state ==
    /\ fips
    /\ Reset
    /\ UNCHANGED <<params, done, online, gcdPtr, conf, pc, ipc, readVars, bits>>

(* The startup test begins or ends.                                        *)
StartupTest ==
    /\ fips
    /\ done' = ~done
    /\ announced' = 0
    /\ UNCHANGED <<params, events, online, gcdVars, conf, pc, ipc, readVars, bits, old, inFlight>>

-----------------------------------------------------------------------------
(* The ioctls.                                                             *)

esdm_sp80090b_startup_complete_es == fips => done

EntropyOf(counts) == esdm_reduce_by_osr(esdm_data_to_entropy(SumFunction(counts), rate))

esdm_irq_avail_entropy ==
    IF ~esdm_sp80090b_startup_complete_es THEN 0
    ELSE EntropyOf([c \in Cpus |-> IF ~online[c] THEN 0
                                   ELSE Min({IrqCapacity(DIGESTSIZE_BITS), events[c]})])

esdm_sched_avail_entropy ==
    IF ~esdm_sp80090b_startup_complete_es THEN 0
    ELSE EntropyOf([c \in Cpus |-> Min({SchedCapacity(DIGESTSIZE_BITS), events[c]})])

IoctlAvailEntropy(entropy) ==
    /\ ipc = "idle"
    /\ announced' = entropy
    /\ UNCHANGED <<params, done, events, online, gcdVars, conf, pc, ipc, readVars, bits, old,
                   inFlight>>

(* ESDM_IRQ_CONF, ESDM_SCHED_CONF: an optional reset, an optional amount   *)
(* of requested bits, an optional rate.  An amount the kernel does not     *)
(* know is refused, but only after the reset.                              *)
IoctlConf ==
    /\ ipc = "idle"
    /\ \E reset \in BOOLEAN,
          data \in {0, SECURITY_STRENGTH_BITS, INIT_SEED_SIZE_BITS, INIT_SEED_SIZE_BITS + 1},
          data2 \in Rates \cup {0} :
         /\ IF reset THEN Reset ELSE announced' = 0 /\ UNCHANGED <<gcdKnown, events, old, inFlight>>
         /\ IF data = INIT_SEED_SIZE_BITS + 1
            THEN UNCHANGED conf
            ELSE /\ requested' = IF data > 0 THEN data ELSE requested
                 /\ rate' = IF data2 > 0 THEN Max({SECURITY_STRENGTH_BITS, data2}) ELSE rate
    /\ UNCHANGED <<params, done, online, gcdPtr, pc, ipc, readVars, bits>>

(* ESDM_IRQ_ENT_BUF, ESDM_SCHED_ENT_BUF: nothing is delivered before the   *)
(* startup test is done.                                                   *)
PoolHash(cpus) ==
    /\ ipc = "idle"
    /\ inFlight' = (inFlight /\ old # {})
    /\ \/ /\ ~esdm_sp80090b_startup_complete_es
          /\ bits' = 0 /\ announced' = 0
          /\ UNCHANGED <<ipc, readVars>>
       \/ /\ esdm_sp80090b_startup_complete_es
          /\ wanted' = esdm_entropy_to_data(Min({hashBits, requested}) + esdm_compress_osr, rate)
          /\ todo' = cpus
          /\ collected' = 0
          /\ ipc' = "hash"
          /\ UNCHANGED <<cpu, found, bits, announced>>
    /\ UNCHANGED <<params, done, events, online, gcdVars, conf, pc, old>>

esdm_irq_pool_hash == PoolHash({c \in Cpus : online[c]})
esdm_sched_pool_hash == PoolHash(Cpus)

(* What an ioctl that has the lock begins with.                            *)
esdm_es_mgr_irq_ioctl ==
    es = "irq" /\ (IoctlAvailEntropy(esdm_irq_avail_entropy) \/ IoctlConf \/ esdm_irq_pool_hash)

esdm_es_mgr_sched_ioctl ==
    es = "sched" /\ (IoctlAvailEntropy(esdm_sched_avail_entropy) \/ IoctlConf \/ esdm_sched_pool_hash)

(* Take what a CPU has counted, capped by what its pool can hold; it is    *)
(* lost if the hashing fails.                                              *)
Harvest(c, ok, cap) ==
    /\ found' = IF ok THEN Min({events[c], cap}) ELSE 0
    /\ events' = [events EXCEPT ![c] = 0]
    /\ old' = old \ {c}

HashOne(c, ok) ==
    /\ ipc = "hash"
    /\ cpu' = c
    /\ todo' = todo \ {c}
    /\ announced' = IF ok THEN announced ELSE 0
    /\ ipc' = "credit"
    /\ UNCHANGED <<params, done, gcdVars, conf, pc, collected, wanted, bits, inFlight>>

esdm_irq_pool_hash_one(c) ==
    /\ es = "irq"
    /\ \E ok \in BOOLEAN : HashOne(c, ok) /\ Harvest(c, ok, IrqCapacity(hashBits))
    /\ UNCHANGED online

(* The scheduler source brings the pool online here.                       *)
esdm_sched_pool_hash_one(c) ==
    /\ es = "sched"
    /\ \E ok \in BOOLEAN :
         /\ HashOne(c, ok)
         /\ IF ~online[c] /\ ~ok
            THEN found' = 0 /\ UNCHANGED <<events, online, old>>
            ELSE Harvest(c, ok, SchedCapacity(hashBits)) /\ online' = [online EXCEPT ![c] = TRUE]

BugCreditAll ==
    /\ ipc = "credit"
    /\ LET sum == collected + found IN
       /\ collected' = Min({sum, wanted})
       /\ events' = IF sum > wanted THEN [events EXCEPT ![cpu] = @ + found] ELSE events
       /\ old' = IF inFlight /\ sum > wanted THEN old \cup {cpu} ELSE old
    /\ found' = 0 /\ cpu' = NoCpu
    /\ ipc' = "hash"
    /\ UNCHANGED <<params, done, online, gcdVars, conf, pc, todo, wanted, bits, announced, inFlight>>

(* Add it to what was collected; the surplus is given back to the CPU.     *)
Credit ==
    /\ ipc = "credit"
    /\ LET sum == collected + found IN
       /\ collected' = Min({sum, wanted})
       /\ events' = IF sum > wanted THEN [events EXCEPT ![cpu] = @ + (sum - wanted)] ELSE events
       /\ old' = IF inFlight /\ sum > wanted THEN old \cup {cpu} ELSE old
    /\ found' = 0 /\ cpu' = NoCpu
    /\ ipc' = "hash"
    /\ UNCHANGED <<params, done, online, gcdVars, conf, pc, todo, wanted, bits, announced, inFlight>>

(* All pools are hashed, or hashing into the common state failed.          *)
PoolHashEnd ==
    /\ ipc = "hash"
    /\ \/ /\ todo = {}
          /\ bits' = esdm_reduce_by_osr(esdm_data_to_entropy(collected, rate))
          /\ UNCHANGED announced
       \/ /\ bits' = 0
          /\ announced' = 0
    /\ ipc' = "done"
    /\ todo' = {}
    /\ UNCHANGED <<params, done, events, online, gcdVars, conf, pc, cpu, found, collected, wanted,
                   old, inFlight>>

(* The buffer is copied to user space and the lock released.               *)
IoctlReturn ==
    /\ ipc = "done"
    /\ ipc' = "idle"
    /\ collected' = 0 /\ wanted' = 0
    /\ bits' = 0
    /\ announced' = 0
    /\ UNCHANGED <<params, done, events, online, gcdVars, conf, pc, todo, cpu, found, old, inFlight>>

CpuStep(c) ==
    \/ esdm_time_process(c)
    \/ StampNotStored(c)
    \/ esdm_irq_time_process_common(c)
    \/ esdm_sched_time_process_common(c)
    \/ esdm_gcd_add_value(c)
    \/ esdm_gcd_set_check(c)

(* A division by zero in an interrupt stops the kernel.                    *)
Next ==
    /\ \A c \in Cpus : pc[c] # "divided_by_zero"
    /\ \/ \E c \in Cpus : CpuStep(c)
       \/ esdm_reset_state
       \/ StartupTest
       \/ esdm_es_mgr_irq_ioctl
       \/ esdm_es_mgr_sched_ioctl
       \/ \E c \in todo : esdm_irq_pool_hash_one(c) \/ esdm_sched_pool_hash_one(c)
       \/ Credit
       \/ PoolHashEnd
       \/ IoctlReturn

Spec == Init /\ [][Next]_vars

(***************************************************************************)
(* Type invariant.                                                         *)
(***************************************************************************)
PoolsTypeOK ==
    /\ events \in [Cpus -> 0..MaxHeld]
    /\ online \in [Cpus -> BOOLEAN]
    /\ gcdPtr \in -1..GCD_WINDOW_SIZE + 1
    /\ todo \subseteq Cpus /\ cpu \in Cpus \cup {NoCpu}
    /\ {found, collected, wanted, bits, announced} \subseteq Nat
    /\ old \subseteq Cpus

(***************************************************************************)
(* No event is credited twice.  While interrupts, reads and resets         *)
(* interleave, the events that are counted or in the hands of a read grow  *)
(* only by the one event that a CPU has just tested, never by what a read  *)
(* takes, caps and gives back.                                             *)
(***************************************************************************)
EventsNotDuplicated ==
    [][Held' > Held => Held' = Held + 1 /\ \E c \in Cpus : pc[c] # pc'[c]]_vars

(***************************************************************************)
(* What a read says of its buffer can be relied on.  After a failed health *)
(* test, or a reset by user space, no CPU counts events of before it,      *)
(* except what a read that was under way at the reset gives back.  A       *)
(* buffer never claims more entropy than was requested, and with the hash  *)
(* that esdm_get_digestsize() assumes it holds what AVAIL_ENTROPY          *)
(* announced, up to the request, if no failure came between the two.       *)
(***************************************************************************)
EntropyAccounted ==
    /\ old # {} => inFlight
    /\ ipc = "done" => /\ bits <= requested
                       /\ hashBits = DIGESTSIZE_BITS => bits >= Min({announced, requested})
=============================================================================
