-------------------------- MODULE EsdmKernelHealth --------------------------
(***************************************************************************)
(* The SP800-90B health tests of the kernel module's entropy sources,      *)
(* addon/linux_esdm_es/esdm_health.c, for one internal entropy source.     *)
(*                                                                         *)
(* Every CPU runs esdm_health_test() in interrupt context and without a    *)
(* lock; what the CPUs share are atomic counters and two plain flags.  A   *)
(* step of the model is one access that another CPU can notice.            *)
(*                                                                         *)
(* A time stamp is abstracted to what the tests make of it: whether its    *)
(* masked value equals the base of the adaptive proportion test, and       *)
(* whether one of its three derivatives is zero.                           *)
(***************************************************************************)
EXTENDS Integers, FiniteSets

CONSTANTS
    Cpus,
    APT_WINDOW_SIZE,        \* ESDM_APT_WINDOW_SIZE
    STARTUP_BLOCKS,         \* ESDM_SP80090B_STARTUP_BLOCKS
    APT_CUTOFF, APT_CUTOFF_PERMANENT,
    RCT_CUTOFF, RCT_CUTOFF_PERMANENT

ASSUME HealthAssumption ==
    /\ IsFiniteSet(Cpus)
    /\ {APT_WINDOW_SIZE, STARTUP_BLOCKS} \subseteq Nat \ {0}
    /\ {APT_CUTOFF, RCT_CUTOFF} \subseteq Nat \ {0}
    /\ APT_CUTOFF_PERMANENT \in Nat /\ APT_CUTOFF <= APT_CUTOFF_PERMANENT
    /\ RCT_CUTOFF_PERMANENT \in Nat /\ RCT_CUTOFF <= RCT_CUTOFF_PERMANENT

VARIABLES
    fips,               \* esdm_sp80090b_health_requested()
    enabled,            \* health_test_enabled
    panicParam,         \* esdm_panic_on_permanent_health_failure
    done,               \* sp80090b_startup_done
    blocks,             \* sp80090b_startup_blocks
    aptBaseSet,         \* apt_base_set
    aptCount,           \* apt_count
    aptTrigger,         \* apt_trigger
    rctCount,           \* rct_count
    pc,                 \* where a CPU is in esdm_health_test()
    event,              \* the time stamp it tests
    failed,             \* the kind of failure it handles, and where it returns to
    halted,             \* panic()
    clean,              \* history: samples the APT took since the last failure
    staleWindow,        \* history: the last failure missed a window that had
                        \* ended before it
    overtaken           \* history: startup testing went on between the two
                        \* stores of a runtime failure

params == <<fips, enabled, panicParam>>
shared == <<done, blocks, aptBaseSet, aptCount, aptTrigger, rctCount>>
local == <<pc, event, failed>>
history == <<clean, staleWindow, overtaken>>
vars == <<params, shared, local, halted, history>>

Events == [same : BOOLEAN, stuck : BOOLEAN]
NoFailure == [kind |-> "none", then |-> "idle"]

(* The samples that the code makes startup testing last at least: the rest *)
(* of the window in which the failure occurred, and all further windows.   *)
StartupSamples == (STARTUP_BLOCKS - 1) * APT_WINDOW_SIZE + 1

(* ESDM_HEALTH_ES_INIT                                                     *)
HealthInit ==
    /\ done = FALSE
    /\ blocks = STARTUP_BLOCKS
    /\ aptBaseSet = FALSE
    /\ aptCount = 0
    /\ aptTrigger = APT_WINDOW_SIZE
    /\ rctCount = 0

(* esdm_init_time_source(): without a high-resolution timer the tests are  *)
(* switched off with esdm_health_disable().                                *)
Init ==
    /\ fips \in BOOLEAN /\ enabled \in BOOLEAN /\ panicParam \in BOOLEAN
    /\ HealthInit
    /\ pc = [c \in Cpus |-> "idle"]
    /\ event = [c \in Cpus |-> [same |-> FALSE, stuck |-> FALSE]]
    /\ failed = [c \in Cpus |-> NoFailure]
    /\ halted = FALSE
    /\ clean = 0 /\ staleWindow = FALSE /\ overtaken = FALSE

Goto(c, l) == pc' = [pc EXCEPT ![c] = l]

(* The handling of a failure goes on at l, or is over.                     *)
Handle(c, l, over) ==
    /\ Goto(c, IF over THEN failed[c].then ELSE l)
    /\ failed' = IF over THEN [failed EXCEPT ![c] = NoFailure] ELSE failed

(* What esdm_sp80090b_startup_complete_es() tells the readers.             *)
esdm_sp80090b_startup_complete == (fips /\ enabled) => done

(* What esdm_sp80090b_compliant() puts into the status.                    *)
esdm_sp80090b_compliant == fips /\ enabled /\ done

(* esdm_sp80090b_failure(): whether the failure is one of startup or of    *)
(* runtime testing depends on the flag at this moment.                     *)
esdm_sp80090b_failure == IF done THEN "runtime" ELSE "startup"

(* A test has found a failure: reset the source and go on at `then`.       *)
Fail(c, kind, then) ==
    /\ failed' = [failed EXCEPT ![c] = [kind |-> kind, then |-> then]]
    /\ IF kind = "permanent" /\ panicParam
       THEN halted' = TRUE /\ UNCHANGED pc
       ELSE Goto(c, "failure") /\ UNCHANGED halted

(* A counter of a test reached `count`: compare it with the two cutoffs.   *)
Verdict(c, count, cutoff, permanent, then) ==
    IF count >= permanent THEN Fail(c, "permanent", then)
    ELSE IF count >= cutoff THEN Fail(c, esdm_sp80090b_failure, then)
    ELSE Goto(c, then) /\ UNCHANGED <<failed, halted>>

(* An interrupt or context switch occurs on an idle CPU.                   *)
esdm_health_test(c) ==
    /\ pc[c] = "idle"
    /\ enabled
    /\ \E e \in Events : event' = [event EXCEPT ![c] = e]
    /\ Goto(c, "apt")
    /\ UNCHANGED <<params, shared, failed, halted, history>>

(* The adaptive proportion test up to its counter.                         *)
esdm_apt_insert(c) ==
    /\ pc[c] = "apt"
    /\ \/ /\ ~fips
          /\ Goto(c, "rct") /\ UNCHANGED <<aptBaseSet, aptCount, failed, halted>>
       \/ /\ fips /\ ~aptBaseSet
          /\ aptBaseSet' = TRUE
          /\ Goto(c, "rct") /\ UNCHANGED <<aptCount, failed, halted>>
       \/ /\ fips /\ aptBaseSet /\ event[c].same
          /\ aptCount' = aptCount + 1
          /\ Verdict(c, aptCount + 1, APT_CUTOFF, APT_CUTOFF_PERMANENT, "trigger")
          /\ UNCHANGED aptBaseSet
       \/ /\ fips /\ aptBaseSet /\ ~event[c].same
          /\ Goto(c, "trigger") /\ UNCHANGED <<aptBaseSet, aptCount, failed, halted>>
    /\ event' = [event EXCEPT ![c].same = FALSE]
    /\ UNCHANGED <<params, done, blocks, aptTrigger, rctCount, history>>

(* The end of a window: esdm_apt_restart() and esdm_apt_reset().           *)
AptTrigger(c) ==
    /\ pc[c] = "trigger"
    /\ IF aptTrigger = 1
       THEN aptTrigger' = APT_WINDOW_SIZE /\ aptCount' = 0 /\ Goto(c, "startup")
       ELSE aptTrigger' = aptTrigger - 1 /\ UNCHANGED aptCount /\ Goto(c, "rct")
    /\ clean' = IF clean < StartupSamples THEN clean + 1 ELSE clean
    /\ UNCHANGED <<params, done, blocks, aptBaseSet, rctCount, event, failed,
                   halted, staleWindow, overtaken>>

(* A completed window counts only as long as startup testing lasts.  Below *)
(* zero the counter has 2^32 windows to go: LastBlock bounds it there.     *)
LastBlock == -1

esdm_sp80090b_startup(c) ==
    /\ pc[c] = "startup"
    /\ blocks' = IF done \/ blocks = LastBlock THEN blocks ELSE blocks - 1
    /\ Goto(c, IF ~done /\ blocks = 1 THEN "done" ELSE "rct")
    /\ overtaken' = (overtaken \/ (~done /\ \E d \in Cpus : pc[d] = "undone"))
    /\ UNCHANGED <<params, done, aptBaseSet, aptCount, aptTrigger, rctCount,
                   event, failed, halted, clean, staleWindow>>

StartupDone(c) ==
    /\ pc[c] = "done"
    /\ done' = TRUE
    /\ Goto(c, "rct")
    /\ UNCHANGED <<params, blocks, aptBaseSet, aptCount, aptTrigger, rctCount,
                   event, failed, halted, history>>

(* A failure that CPU c handles does not undo all windows that ended       *)
(* before it: another CPU has one still to book, or has raised the flag    *)
(* since c took the failure for one of startup testing.                    *)
MissesWindow(c) ==
    \/ \E d \in Cpus \ {c} : pc[d] \in {"startup", "done"}
    \/ failed[c].kind = "startup" /\ done

BugFailureKeepsBlocks(c) ==
    /\ pc[c] = "failure"
    /\ UNCHANGED blocks
    /\ Handle(c, "undone", failed[c].kind = "startup")
    /\ clean' = 0
    /\ staleWindow' = MissesWindow(c)
    /\ UNCHANGED <<params, done, aptBaseSet, aptCount, aptTrigger, rctCount,
                   event, halted, overtaken>>

(* The entropy collected so far is invalidated, which EsdmKernelPools      *)
(* models, and startup testing begins anew.                                *)
esdm_sp80090b_startup_failure(c) ==
    /\ pc[c] = "failure"
    /\ blocks' = STARTUP_BLOCKS
    /\ Handle(c, "undone", failed[c].kind = "startup")
    /\ clean' = 0
    /\ staleWindow' = MissesWindow(c)
    /\ UNCHANGED <<params, done, aptBaseSet, aptCount, aptTrigger, rctCount,
                   event, halted, overtaken>>

BugRuntimeFailureKeepsDone(c) ==
    /\ pc[c] = "undone"
    /\ Handle(c, "restart", failed[c].kind # "permanent")
    /\ UNCHANGED <<params, shared, event, halted, history>>

(* The second store of a failure that is not one of startup testing.       *)
esdm_sp80090b_runtime_failure(c) ==
    /\ pc[c] = "undone"
    /\ done' = FALSE
    /\ Handle(c, "restart", failed[c].kind # "permanent")
    /\ UNCHANGED <<params, blocks, aptBaseSet, aptCount, aptTrigger, rctCount,
                   event, halted, history>>

(* A permanent failure also restarts both tests.                           *)
esdm_sp80090b_permanent_failure(c) ==
    /\ pc[c] = "restart"
    /\ rctCount' = 0 /\ aptCount' = 0 /\ aptTrigger' = APT_WINDOW_SIZE
    /\ Handle(c, "idle", TRUE)
    /\ UNCHANGED <<params, done, blocks, aptBaseSet, event, halted, history>>

(* The repetition count test; its input is the verdict of the stuck test,  *)
(* esdm_irq_stuck().                                                       *)
esdm_rct(c) ==
    /\ pc[c] = "rct"
    /\ \/ /\ ~fips
          /\ Goto(c, "result") /\ UNCHANGED <<rctCount, failed, halted>>
       \/ /\ fips /\ event[c].stuck
          /\ rctCount' = rctCount + 1
          /\ Verdict(c, rctCount + 1, RCT_CUTOFF, RCT_CUTOFF_PERMANENT, "result")
       \/ /\ fips /\ ~event[c].stuck
          /\ rctCount' = 0
          /\ Goto(c, "result") /\ UNCHANGED <<failed, halted>>
    /\ UNCHANGED <<params, done, blocks, aptBaseSet, aptCount, aptTrigger, event, history>>

(* enum esdm_health_res: what the caller may do with the time stamp.       *)
HealthResult(c) ==
    CASE ~event[c].stuck -> "pass"
      [] event[c].stuck /\ fips -> "fail_drop"
      [] event[c].stuck /\ ~fips -> "fail_use"

(* esdm_health_test() returns.                                             *)
Return(c) ==
    /\ pc[c] = "result"
    /\ Goto(c, "idle")
    /\ event' = [event EXCEPT ![c] = [same |-> FALSE, stuck |-> FALSE]]
    /\ UNCHANGED <<params, shared, failed, halted, history>>

CpuStep(c) ==
    \/ esdm_apt_insert(c)
    \/ AptTrigger(c)
    \/ esdm_sp80090b_startup(c)
    \/ StartupDone(c)
    \/ esdm_sp80090b_startup_failure(c)
    \/ esdm_sp80090b_runtime_failure(c)
    \/ esdm_sp80090b_permanent_failure(c)
    \/ esdm_rct(c)
    \/ Return(c)

Next == ~halted /\ \E c \in Cpus : esdm_health_test(c) \/ CpuStep(c)

Spec == Init /\ [][Next]_vars

(* Interrupts keep coming on every CPU, and none is left unfinished.       *)
FairSpec ==
    /\ Spec
    /\ \A c \in Cpus : WF_vars(~halted /\ (esdm_health_test(c) \/ CpuStep(c)))

Places == {"idle", "apt", "trigger", "startup", "done", "rct", "failure",
           "undone", "restart", "result"}
Failures == [kind : {"none", "startup", "runtime", "permanent"},
             then : {"idle", "trigger", "result"}]

(***************************************************************************)
(* Type invariant.                                                         *)
(***************************************************************************)
HealthTypeOK ==
    /\ fips \in BOOLEAN /\ enabled \in BOOLEAN /\ panicParam \in BOOLEAN
    /\ done \in BOOLEAN /\ aptBaseSet \in BOOLEAN /\ halted \in BOOLEAN
    /\ staleWindow \in BOOLEAN /\ overtaken \in BOOLEAN
    /\ blocks \in LastBlock..STARTUP_BLOCKS
    /\ aptCount \in Nat /\ rctCount \in Nat
    /\ aptTrigger \in 1..APT_WINDOW_SIZE
    /\ pc \in [Cpus -> Places]
    /\ event \in [Cpus -> Events] /\ failed \in [Cpus -> Failures]
    /\ clean \in 0..StartupSamples

(***************************************************************************)
(* Entropy is released after a failed health test only when startup        *)
(* testing has run anew: since the last failure the adaptive proportion    *)
(* test has taken the rest of its window and all further windows of the    *)
(* startup test.  The one way around it is a CPU that had ended a window   *)
(* before the failure and books it, or raises the flag, after the failure  *)
(* has looked at the flag.                                                 *)
(***************************************************************************)
StartupEarned ==
    done => \/ clean = StartupSamples
            \/ \E c \in Cpus : pc[c] = "undone"
            \/ staleWindow

(***************************************************************************)
(* The comment in esdm_sp80090b_startup_failure() has a failure restart    *)
(* the health test.  A restarted test is one that can come to its end:     *)
(* while it is not done, blocks are left to count down, or a CPU is about  *)
(* to store the flag or the number of blocks.                              *)
(***************************************************************************)
StartupCanComplete ==
    ~done => blocks > 0 \/ \E c \in Cpus : pc[c] \in {"done", "failure"}

HealthyEvents == \A c \in Cpus : ~event[c].same /\ ~event[c].stuck

(***************************************************************************)
(* If from some point on all events are healthy, the source comes to       *)
(* release entropy again, however the failures before it interleaved,      *)
(* unless startup testing of other CPUs overtook a runtime failure between *)
(* its two stores.                                                         *)
(***************************************************************************)
GateReopens ==
    enabled /\ fips => (<>[]HealthyEvents => []<>(done \/ overtaken \/ halted))
=============================================================================
