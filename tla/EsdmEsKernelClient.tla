------------------------- MODULE EsdmEsKernelClient -------------------------
(***************************************************************************)
(* The two sources that live in the kernel module, as libesdm uses them    *)
(* (esdm/esdm_es_irq.c, esdm/esdm_es_sched.c, the helpers of               *)
(* esdm/esdm_es_mgr.c), with the entropy rates of esdm/esdm_config.c.      *)
(*                                                                         *)
(* Nothing here is protected by a lock of its own: one thread reads        *)
(* entropy (it holds the pool lock), others ask for the entropy level at   *)
(* any time and write the rate to the kernel, an application changes       *)
(* rates, and the monitor opens the device when it appears.                *)
(***************************************************************************)
EXTENDS Naturals

CONSTANTS
    Raters,                                 \* threads that ask for the entropy level
    MonitorThread,                          \* the one that is the ES monitor at times
    ESDM_DRNG_SECURITY_STRENGTH_BITS,
    ESDM_DRNG_INIT_SEED_SIZE_BITS,
    ESDM_ES_IRQ_MAX_KERNEL_RNG_ENTROPY,
    Inputs                                  \* rates an application asks for

VARIABLES
    fd,             \* esdm_{irq,sched}_entropy_fd is open
    retry,          \* esdm_es_{irq,sched}_retry
    rate,           \* entropy rates of the configuration
    cache,          \* esdm_{irq,sched}_requested_bits_set
    kbits,          \* requested bits as the kernel has them
    asked,          \* the source that is read and asked for its level
    root,           \* the process still has its privileges
    get,            \* the thread that reads entropy
    ask,            \* the threads that ask for the level
    conf,           \* the thread that sets rates
    mixed,          \* history: a level query overlapped the last change of kbits
    unseen          \* history: the kernel RNG rate was checked with the IRQ source off

Sources == {"irq", "sched"}
Requests == {ESDM_DRNG_SECURITY_STRENGTH_BITS, ESDM_DRNG_INIT_SEED_SIZE_BITS}
Other(s) == IF s = "irq" THEN "sched" ELSE "irq"
Smaller(a, b) == IF a < b THEN a ELSE b

clientVars == <<fd, retry, rate, cache, kbits, asked, root, get, ask, conf,
                mixed, unseen>>

Idle == [pc |-> "idle"]

esdm_config_entropy_rate_max(v) == Smaller(v, ESDM_DRNG_SECURITY_STRENGTH_BITS)

(* The default configuration after esdm_config_init().                     *)
esdm_config_init ==
    rate = [irq |-> esdm_config_entropy_rate_max(ESDM_DRNG_SECURITY_STRENGTH_BITS), sched |-> 0,
            krng |-> esdm_config_entropy_rate_max(ESDM_DRNG_SECURITY_STRENGTH_BITS)]

Init ==
    /\ asked \in Sources
    /\ root = TRUE
    /\ fd = [s \in Sources |-> FALSE]
    /\ retry \in [Sources -> BOOLEAN]
    /\ esdm_config_init
    /\ cache = [s \in Sources |-> 0]
    /\ kbits = [s \in Sources |-> ESDM_DRNG_SECURITY_STRENGTH_BITS]
    /\ get = Idle /\ conf = Idle
    /\ ask = [r \in Raters |-> Idle]
    /\ mixed = [s \in Sources |-> FALSE]
    /\ unseen = FALSE

esdm_irq_enabled == fd["irq"] /\ rate.irq # 0
esdm_sched_enabled == fd["sched"] /\ rate.sched # 0

(* esdm_fast_noise_entropylevel(): the share of a rate in a request.       *)
esdm_fast_noise_entropylevel(ent, requested) ==
    Smaller((ent * requested) \div ESDM_DRNG_SECURITY_STRENGTH_BITS, requested)

(* The kernel RNG counts nothing beside the scheduler-based source.        *)
esdm_krng_properties_entropylevel(level) == IF esdm_sched_enabled THEN 0 ELSE level

esdm_krng_entropylevel(requested) ==
    esdm_fast_noise_entropylevel(esdm_krng_properties_entropylevel(rate.krng), requested)

-----------------------------------------------------------------------------
(* The configuration: the rates of the interrupt- and the scheduler-based  *)
(* source exclude each other, and the kernel RNG counts little beside the  *)
(* interrupt-based one.                                                    *)

RateSet(s, v) ==
    /\ conf.pc = "idle"
    /\ LET val == esdm_config_entropy_rate_max(v) IN
       /\ rate' = IF val > 0 THEN [rate EXCEPT ![Other(s)] = 0] ELSE rate
       /\ conf' = [pc |-> "store", source |-> s, val |-> val]
    /\ UNCHANGED <<asked, fd, retry, cache, kbits, root, get, ask, mixed,
                   unseen>>

esdm_config_es_irq_entropy_rate_set(v) == RateSet("irq", v)
esdm_config_es_sched_entropy_rate_set(v) == RateSet("sched", v)

esdm_config_es_krng_entropy_rate_set(v) ==
    /\ conf.pc = "idle"
    /\ LET ent == IF esdm_irq_enabled THEN Smaller(ESDM_ES_IRQ_MAX_KERNEL_RNG_ENTROPY, v) ELSE v
       IN conf' = [pc |-> "store", source |-> "krng", val |-> esdm_config_entropy_rate_max(ent)]
    /\ unseen' = (unseen \/ ~esdm_irq_enabled)
    /\ UNCHANGED <<asked, fd, retry, rate, cache, kbits, root, get, ask,
                   mixed>>

StoreRate ==
    /\ conf.pc = "store"
    /\ rate' = [rate EXCEPT ![conf.source] = conf.val]
    /\ conf' = Idle
    /\ UNCHANGED <<asked, fd, retry, cache, kbits, root, get, ask, mixed,
                   unseen>>

-----------------------------------------------------------------------------
(* Opening the device.                                                     *)

(* The device is missing, the kernel refuses its buffer size, or the       *)
(* source opens.  The interrupt-based source then lowers the rate of the   *)
(* kernel RNG.                                                             *)
esdm_irq_initialize ==
    /\ root
    /\ fd' = [fd EXCEPT !["irq"] = TRUE]
    /\ rate' = [rate EXCEPT !.krng = ESDM_ES_IRQ_MAX_KERNEL_RNG_ENTROPY]
    /\ unseen' = (conf.pc = "store" /\ conf.source = "krng" /\ unseen)

esdm_sched_initialize ==
    /\ root
    /\ fd' = [fd EXCEPT !["sched"] = TRUE]
    /\ UNCHANGED <<rate, unseen>>

(* esdm_es_mgr_monitor_initialize(): one pass over the sources' monitors   *)
(* esdm_irq_seed_monitor() and esdm_sched_seed_monitor().  A source that   *)
(* is still to be opened with the privileges of root holds them back.      *)
MonitorSource(s, initialize) ==
    /\ ask[MonitorThread].pc = s
    /\ LET next == IF s = "irq" THEN "sched" ELSE "pass"
           level == IF s = asked THEN "arg" ELSE next
           Go(pc, blocks) == ask' = [ask EXCEPT ![MonitorThread] = [pc |-> pc, from |-> next,
                                        source |-> s, blocks |-> blocks \/ ask[MonitorThread].blocks]]
       IN \/ Go(next, FALSE) /\ UNCHANGED <<fd, rate, unseen>>      \* all nodes are seeded
          \/ /\ ~fd[s] /\ retry[s]
             /\ \/ initialize /\ Go(level, FALSE)
                \/ Go(next, root) /\ UNCHANGED <<fd, rate, unseen>>
                \/ root /\ Go(next, TRUE) /\ UNCHANGED <<fd, rate, unseen>>
          \/ ~fd[s] /\ ~retry[s] /\ Go(next, FALSE) /\ UNCHANGED <<fd, rate, unseen>>
          \/ fd[s] /\ Go(level, FALSE) /\ UNCHANGED <<fd, rate, unseen>>
    /\ UNCHANGED <<asked, retry, cache, kbits, root, get, conf, mixed>>

esdm_irq_seed_monitor == MonitorSource("irq", esdm_irq_initialize)
esdm_sched_seed_monitor == MonitorSource("sched", esdm_sched_initialize)

esdm_es_mgr_monitor_initialize ==
    /\ \/ ask[MonitorThread].pc = "idle"
          /\ ask' = [ask EXCEPT ![MonitorThread] = [pc |-> "irq", from |-> "idle", source |-> "irq",
                                              blocks |-> FALSE]]
          /\ UNCHANGED root
       \/ ask[MonitorThread].pc = "pass"
          /\ root' = (root /\ ask[MonitorThread].blocks)
          /\ ask' = [ask EXCEPT ![MonitorThread] = Idle]
    /\ UNCHANGED <<asked, fd, retry, rate, cache, kbits, get, conf, mixed,
                   unseen>>

-----------------------------------------------------------------------------
(* The entropy level: esdm_irq_entropylevel(), esdm_sched_entropylevel().  *)
(* They first write the rate, with the helper that passes the cached size  *)
(* of requests and stores it back.                                         *)

Asking(r, s) == ask[r].pc \in {"compare", "ioctl", "keep"} /\ ask[r].source = s
Step(r, f) == ask' = [ask EXCEPT ![r] = f]

EntropyLevel(r, s) ==
    /\ s = asked
    /\ ask[r].pc = "idle" \/ (ask[r].pc = "arg" /\ ask[r].source = s)
    /\ LET back == IF ask[r].pc = "arg" THEN ask[r].from ELSE "idle"
           held == IF ask[r].pc = "arg" THEN ask[r].blocks ELSE FALSE IN
       IF fd[s]
       THEN Step(r, [pc |-> "compare", source |-> s, arg |-> cache[s], from |-> back,
                     blocks |-> held])
       ELSE Step(r, IF back = "idle" THEN Idle
                    ELSE [pc |-> back, from |-> back, source |-> s, blocks |-> held])
    /\ mixed' = [mixed EXCEPT ![s] = @ \/ (get.pc = "keep" /\ get.source = s)]
    /\ UNCHANGED <<asked, fd, retry, rate, cache, kbits, root, get, conf,
                   unseen>>

esdm_irq_entropylevel(r) == EntropyLevel(r, "irq")
esdm_sched_entropylevel(r) == EntropyLevel(r, "sched")

(* The rate goes along as a number of events, which no property looks at.  *)
SetEntropyRate(r, s) ==
    /\ ask[r].pc = "compare" /\ ask[r].source = s
    /\ Step(r, [pc |-> "ioctl", source |-> s, arg |-> ask[r].arg, from |-> ask[r].from,
                blocks |-> ask[r].blocks,
                bits |-> IF cache[s] # ask[r].arg THEN ask[r].arg ELSE 0])
    /\ UNCHANGED <<asked, fd, retry, rate, cache, kbits, root, get, conf,
                   mixed, unseen>>

esdm_irq_set_entropy_rate(r) == SetEntropyRate(r, "irq")
esdm_sched_set_entropy_rate(r) == SetEntropyRate(r, "sched")

Back(r) ==
    Step(r, IF ask[r].from = "idle" THEN Idle
            ELSE [pc |-> ask[r].from, from |-> ask[r].from, source |-> ask[r].source,
                  blocks |-> ask[r].blocks])

(* ioctl(ESDM_IRQ_CONF), which may fail.                                   *)
RateIoctl(r) ==
    /\ ask[r].pc = "ioctl"
    /\ LET s == ask[r].source IN
       \/ /\ kbits' = IF ask[r].bits > 0 THEN [kbits EXCEPT ![s] = ask[r].bits] ELSE kbits
          /\ Step(r, [pc |-> "keep", source |-> s, arg |-> ask[r].arg, from |-> ask[r].from,
                      blocks |-> ask[r].blocks])
       \/ Back(r) /\ UNCHANGED kbits
    /\ UNCHANGED <<asked, fd, retry, rate, cache, root, get, conf, mixed, unseen>>

RateKeep(r) ==
    /\ ask[r].pc = "keep"
    /\ cache' = [cache EXCEPT ![ask[r].source] = ask[r].arg]
    /\ Back(r)
    /\ UNCHANGED <<asked, fd, retry, rate, kbits, root, get, conf, mixed,
                   unseen>>

-----------------------------------------------------------------------------
(* Reading entropy.                                                        *)

BugRequestKept(s, b) ==
    /\ s = asked
    /\ get.pc = "idle"
    /\ get' = IF ~fd[s] THEN Idle
              ELSE [pc |-> IF cache[s] < b THEN "ioctl" ELSE "read", source |-> s, bits |-> b,
                    refused |-> FALSE]
    /\ UNCHANGED <<asked, fd, retry, rate, cache, kbits, root, ask, conf,
                   mixed, unseen>>

KernelGet(s, b) ==
    /\ s = asked
    /\ get.pc = "idle"
    /\ get' = IF ~fd[s] THEN Idle
              ELSE [pc |-> IF cache[s] # b THEN "ioctl" ELSE "read", source |-> s, bits |-> b,
                    refused |-> FALSE]
    /\ UNCHANGED <<asked, fd, retry, rate, cache, kbits, root, ask, conf,
                   mixed, unseen>>

esdm_irq_get(b) == KernelGet("irq", b)
esdm_sched_get(b) == KernelGet("sched", b)

(* esdm_kernel_set_requested_bits(): the kernel may refuse the size.       *)
esdm_kernel_set_requested_bits ==
    /\ get.pc = "ioctl"
    /\ \/ /\ kbits' = [kbits EXCEPT ![get.source] = get.bits]
          /\ mixed' = [mixed EXCEPT ![get.source] =
                         \E r \in Raters : Asking(r, get.source)]
          /\ get' = [get EXCEPT !.pc = "keep"]
       \/ get' = [get EXCEPT !.pc = "read", !.refused = TRUE] /\ UNCHANGED <<kbits, mixed>>
    /\ UNCHANGED <<asked, fd, retry, rate, cache, root, ask, conf, unseen>>

KeepRequested ==
    /\ get.pc = "keep"
    /\ cache' = [cache EXCEPT ![get.source] = get.bits]
    /\ get' = [get EXCEPT !.pc = "read"]
    /\ UNCHANGED <<asked, fd, retry, rate, kbits, root, ask, conf, mixed,
                   unseen>>

(* The kernel delivers up to kbits; its buffer has the size of the one     *)
(* here or is cut to it, and a request has at most that size.              *)
esdm_kernel_read ==
    /\ get.pc = "read"
    /\ \E e_bits \in {0, kbits[get.source]} :
         get' = [pc |-> "got", source |-> get.source, bits |-> get.bits, refused |-> get.refused,
                 e_bits |-> Smaller(ESDM_DRNG_INIT_SEED_SIZE_BITS, e_bits)]
    /\ UNCHANGED <<asked, fd, retry, rate, cache, kbits, root, ask, conf, mixed, unseen>>

GetReturn ==
    /\ get.pc = "got"
    /\ get' = Idle
    /\ UNCHANGED <<asked, fd, retry, rate, cache, kbits, root, ask, conf, mixed, unseen>>

Next ==
    \/ \E v \in Inputs : \/ esdm_config_es_irq_entropy_rate_set(v)
                         \/ esdm_config_es_sched_entropy_rate_set(v)
                         \/ esdm_config_es_krng_entropy_rate_set(v)
    \/ StoreRate
    \/ esdm_irq_seed_monitor \/ esdm_sched_seed_monitor
    \/ esdm_es_mgr_monitor_initialize
    \/ \E r \in Raters : \/ esdm_irq_entropylevel(r) \/ esdm_irq_set_entropy_rate(r)
                         \/ esdm_sched_entropylevel(r) \/ esdm_sched_set_entropy_rate(r)
                         \/ RateIoctl(r) \/ RateKeep(r)
    \/ \E b \in Requests : esdm_irq_get(b) \/ esdm_sched_get(b)
    \/ esdm_kernel_set_requested_bits \/ KeepRequested \/ esdm_kernel_read \/ GetReturn

Spec == Init /\ [][Next]_clientVars

-----------------------------------------------------------------------------
(***************************************************************************)
(* The kernel collects as many bits as esdm_irq_get() was asked for, and   *)
(* no more are credited, when it did not refuse the size and no query of   *)
(* the level, which writes the cached size back, overlapped the last       *)
(* change of it.                                                           *)
(***************************************************************************)
RequestHonoured ==
    get.pc \in {"read", "got"} /\ ~get.refused /\ ~mixed[get.source] =>
      /\ kbits[get.source] = get.bits
      /\ get.pc = "got" => get.e_bits <= get.bits

(***************************************************************************)
(* Beside an enabled interrupt-based source the kernel RNG counts at most  *)
(* ESDM_ES_IRQ_MAX_KERNEL_RNG_ENTROPY bits, unless its rate was set while  *)
(* that source was off.                                                    *)
(***************************************************************************)
KrngCapped ==
    esdm_irq_enabled /\ ~unseen =>
      esdm_krng_entropylevel(ESDM_DRNG_SECURITY_STRENGTH_BITS)
        <= ESDM_ES_IRQ_MAX_KERNEL_RNG_ENTROPY
=============================================================================
