--------------------------- MODULE MCEsdmKernelEs ---------------------------
(***************************************************************************)
(* Model checking of the kernel module: its health tests                   *)
(* (EsdmKernelHealth), its pools (EsdmKernelPools), its data arrays        *)
(* (EsdmKernelArray), its life cycle (EsdmKernelModule) and its test       *)
(* interface (EsdmKernelTesting).  Each is a system of its own; the first  *)
(* choice says which of them runs.                                         *)
(***************************************************************************)
EXTENDS EsdmKernelHealth

CONSTANTS
    NoCpu, SECURITY_STRENGTH_BITS, INIT_SEED_SIZE_BITS, ESDM_ES_OVERSAMPLING_FACTOR,
    OVERSAMPLE_ES_BITS, DIGESTSIZE_BITS, HashSizes, DATA_NUM_VALUES, GCD_WINDOW_SIZE, Rates, MaxHeld,
    ESDM_DATA_NUM_VALUES, ESDM_DATA_SLOTS_PER_UINT, MaxCounted,
    Hashes, Reader, Null, MaxLoads,
    Readers, ESDM_TESTING_RINGBUFFER_SIZE, WordSize, MaxWriter

VARIABLES
    part,
    es, poolFips, hashBits, poolDone, events, online, gcdKnown, gcdPtr, rate, requested, ppc, ipc,
    todo, cpu, found, collected, wanted, bits, announced, old, inFlight,
    source, highres, gcdTested, array, ptr, counted, hashed, words, lost,
    lpc, loads, initState, wpc, tmp, hash, callback, live, device, opened, debugfs, using,
    crashed, lateWork,
    boot, testing, writer, reader, rpc, sampled, chunk, bootTest, index

Pools == INSTANCE EsdmKernelPools WITH fips <- poolFips, done <- poolDone, pc <- ppc
Array == INSTANCE EsdmKernelArray
Module == INSTANCE EsdmKernelModule
Testing == INSTANCE EsdmKernelTesting WITH enabled <- testing

poolVars == <<es, poolFips, hashBits, poolDone, events, online, gcdKnown, gcdPtr, rate, requested,
              ppc, ipc, todo, cpu, found, collected, wanted, bits, announced, old, inFlight>>
arrayVars == <<source, highres, gcdTested, array, ptr, counted, hashed, words, lost>>
moduleVars == <<lpc, loads, initState, wpc, tmp, hash, callback, live, device, opened, debugfs,
                using, crashed, lateWork>>
testingVars == <<boot, testing, writer, reader, rpc, sampled, chunk, bootTest, index>>
kernelVars == <<part, vars, poolVars, arrayVars, moduleVars, testingVars>>

(* A part that does not run has only one initial state.  The sources share *)
(* their structure: the mode outside FIPS, and a hash smaller than the     *)
(* pool, are looked at for one of them.                                    *)
KernelInit ==
    /\ part \in {"health", "pools", "array", "module", "testing"}
    /\ Init /\ Pools!Init /\ Array!Init /\ Module!Init /\ Testing!Init
    /\ part # "health" => fips /\ enabled /\ ~panicParam
    /\ part # "pools" => es = "irq" /\ poolFips /\ hashBits = DIGESTSIZE_BITS
                       /\ rate = SECURITY_STRENGTH_BITS
    /\ hashBits # DIGESTSIZE_BITS => es = "irq" /\ ~poolFips
    /\ es = "sched" => poolFips
    /\ part # "array" => source = "irq" /\ highres
    /\ part # "testing" => boot = 0

KernelNext ==
    \/ part = "health" /\ Next /\ UNCHANGED <<part, poolVars, arrayVars, moduleVars, testingVars>>
    \/ part = "pools" /\ Pools!Next /\ UNCHANGED <<part, vars, arrayVars, moduleVars, testingVars>>
    \/ part = "array" /\ Array!Next /\ UNCHANGED <<part, vars, poolVars, moduleVars, testingVars>>
    \/ part = "module" /\ Module!Next /\ UNCHANGED <<part, vars, poolVars, arrayVars, testingVars>>
    \/ part = "testing" /\ Testing!Next /\ UNCHANGED <<part, vars, poolVars, arrayVars, moduleVars>>

(* Interrupts keep coming on every CPU, and none is left unfinished.       *)
KernelSpec ==
    /\ KernelInit
    /\ [][KernelNext]_kernelVars
    /\ \A c \in Cpus : WF_kernelVars(/\ part = "health" /\ ~halted
                                     /\ esdm_health_test(c) \/ CpuStep(c)
                                     /\ UNCHANGED <<part, poolVars, arrayVars, moduleVars,
                                                    testingVars>>)

(***************************************************************************)
(* If all events are healthy from some point on, the health tests come to  *)
(* release entropy again (GateReopens of EsdmKernelHealth, in the systems  *)
(* in which the health tests run).                                         *)
(***************************************************************************)
KernelGateReopens == part = "health" => GateReopens

(***************************************************************************)
(* No event is credited twice: a read of the pools takes what it credits   *)
(* (esdm_irq_pool_hash(), esdm_sched_pool_hash()).                         *)
(***************************************************************************)
EventsNotDuplicated == Pools!EventsNotDuplicated

(***************************************************************************)
(* What a read says of its buffer is right: at least the entropy that was  *)
(* announced and at most what was requested, and none of before a reset    *)
(* (esdm_irq_avail_entropy(), esdm_irq_pool_hash(), esdm_irq_reset()).     *)
(***************************************************************************)
EntropyAccounted == Pools!EntropyAccounted

(***************************************************************************)
(* A read of the pools never credits more events than there are time       *)
(* stamps that it hashes (esdm_irq_array_add_slot(), add_u32()).           *)
(***************************************************************************)
CreditedHashed == Array!CreditedHashed

(***************************************************************************)
(* The exit of the module frees no hash that is in use and leaves no       *)
(* callback, device or hash behind (esdm_es_irq_module_exit()), unless the *)
(* registration work was still under way.                                  *)
(***************************************************************************)
UnloadClean == Module!UnloadClean

(***************************************************************************)
(* The test interface reads no word behind its ring, but for the one that  *)
(* the boot test counts too many (esdm_testing_reader()).                  *)
(***************************************************************************)
ReadsInsideRing == Testing!ReadsInsideRing
=============================================================================
