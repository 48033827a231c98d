-------------------------- MODULE EsdmKernelModule --------------------------
(***************************************************************************)
(* Loading and unloading of the kernel module, addon/linux_esdm_es:        *)
(* esdm_es_mgr.c registers the two sources, the test interface and the     *)
(* device; the interrupt source registers itself from a work item that     *)
(* first waits for the kernel's own random number generator                *)
(* (esdm_es_irq.c).  Interrupt handlers and ioctls use the hash of a       *)
(* source below its read lock.                                             *)
(*                                                                         *)
(* A write section of a lock is one step that has to find no reader        *)
(* inside; a read section is entered with the hash that it finds.  The     *)
(* statics of the module are fresh on every load.                          *)
(***************************************************************************)
EXTENDS Naturals, FiniteSets

CONSTANTS
    Hashes,             \* hash objects: esdm_kcapi_hash_alloc()
    Cpus,               \* their interrupt handlers compress into the hash
    Reader,             \* the process that uses the device
    Null,
    MaxLoads            \* bound: how often the module is loaded

VARIABLES
    lpc,                \* where the loading or unloading process is
    loads,              \* how often the module was loaded
    initState,          \* esdm_es_irq_init_state
    wpc,                \* where the work esdm_es_irq_set_callbackfn() is
    tmp,                \* tmp_hash_state of the work and of the exit
    hash,               \* esdm_irq_hash_state, esdm_sched_hash_state
    callback,           \* sources whose callback the kernel will call
    live,               \* hash objects that are allocated
    device,             \* the device node exists
    opened,             \* it is open, which pins the module
    debugfs,            \* the directory of the test interface exists
    using,              \* what each user has found in its read section
    crashed,            \* the kernel ran into a null or a stale pointer
    lateWork            \* history: the exit found the work between its exchange
                        \* of the state and its registration, or before it

Users == Cpus \cup {Reader}
Sources == {"irq", "sched"}
Outside == <<"irq", Null>>
vars == <<lpc, loads, initState, wpc, tmp, hash, callback, live, device, opened, debugfs,
          using, crashed, lateWork>>

Init ==
    /\ lpc = "unloaded" /\ loads = 0
    /\ initState = "unused"
    /\ wpc = "none" /\ tmp = [work |-> Null, exit |-> Null]
    /\ hash = [s \in Sources |-> Null]
    /\ callback = {} /\ live = {}
    /\ device = FALSE /\ opened = FALSE /\ debugfs = FALSE
    /\ using = [u \in Users |-> Outside]
    /\ crashed = FALSE
    /\ lateWork = FALSE

Held == {using[u][2] : u \in Users} \ {Null}
NoReader(s) == \A u \in Users : using[u] = Outside \/ using[u][1] # s

(* esdm_kcapi_hash_alloc(), when it succeeds.                              *)
Alloc(h) ==
    /\ h \notin live \cup Held
    /\ live' = live \cup {h}

(* esdm_kcapi_hash_dealloc(): it looks into the object it is given.        *)
Dealloc(h) ==
    /\ live' = live \ {h}
    /\ crashed' = (h \notin live)

-----------------------------------------------------------------------------
(* Loading: esdm_es_mgr_init().                                            *)

(* esdm_init_time_source() and esdm_es_irq_module_init(), which queues the *)
(* work.  A load that follows an exit with the work still queued is left   *)
(* out: the step of that work, which crashes, is what the model follows.   *)
Load ==
    /\ lpc = "unloaded" /\ loads < MaxLoads
    /\ wpc = "none"
    /\ loads' = loads + 1
    /\ initState' = "registering"
    /\ hash' = [s \in Sources |-> Null]
    /\ wpc' = "wait"
    /\ lpc' = "init_sched"
    /\ UNCHANGED <<tmp, callback, live, device, opened, debugfs, using, crashed, lateWork>>

(* esdm_es_sched_module_init().  When the kernel refuses the callback, the *)
(* pointer to the hash is cleared before it is freed.                      *)
esdm_es_sched_module_init ==
    /\ lpc = "init_sched"
    /\ NoReader("sched")
    /\ \/ /\ \E h \in Hashes : Alloc(h) /\ hash' = [hash EXCEPT !["sched"] = h]
          /\ callback' = callback \cup {"sched"}
          /\ lpc' = "init_test" /\ UNCHANGED crashed
       \/ /\ lpc' = "failed" /\ UNCHANGED <<hash, callback, live, crashed>>     \* hash_alloc()
       \/ /\ \E h \in Hashes : Alloc(h)
          /\ crashed' = TRUE
          /\ UNCHANGED <<lpc, hash, callback>>
    /\ UNCHANGED <<loads, initState, wpc, tmp, device, opened, debugfs, using, lateWork>>

esdm_test_init ==
    /\ lpc = "init_test"
    /\ \/ debugfs' = TRUE /\ lpc' = "init_dev"
       \/ lpc' = "failed" /\ UNCHANGED debugfs
    /\ UNCHANGED <<loads, initState, wpc, tmp, hash, callback, live, device, opened, using,
                   crashed, lateWork>>

(* esdm_es_mgr_dev_init(): the class, the region, the device; a failure    *)
(* takes back what was there before it.                                    *)
esdm_es_mgr_dev_init ==
    /\ lpc = "init_dev"
    /\ \/ device' = TRUE /\ lpc' = "loaded"
       \/ lpc' = "failed" /\ UNCHANGED device
    /\ UNCHANGED <<loads, initState, wpc, tmp, hash, callback, live, opened, debugfs, using,
                   crashed, lateWork>>

(* The error path, esdm_es_mgr_init(): first the interrupt source, then    *)
(* the scheduler source.                                                   *)
LoadFails ==
    /\ lpc = "failed"
    /\ lpc' = "fail_irq_exit"
    /\ UNCHANGED <<loads, initState, wpc, tmp, hash, callback, live, device, opened, debugfs,
                   using, crashed, lateWork>>

-----------------------------------------------------------------------------
(* Unloading: esdm_es_mgr_exit(), when no file pins the module.            *)

(* esdm_es_mgr_dev_fini() and esdm_test_exit()                             *)
Unload ==
    /\ lpc = "loaded" /\ ~opened
    /\ device' = FALSE /\ debugfs' = FALSE
    /\ lpc' = "exit_sched"
    /\ UNCHANGED <<loads, initState, wpc, tmp, hash, callback, live, opened, using, crashed,
                   lateWork>>

(* The hash is freed below the write lock.                                 *)
esdm_es_sched_module_exit ==
    /\ lpc \in {"exit_sched", "fail_sched_exit"}
    /\ NoReader("sched")
    /\ callback' = callback \ {"sched"}
    /\ Dealloc(hash["sched"])
    /\ hash' = [hash EXCEPT !["sched"] = Null]
    /\ lpc' = IF lpc = "exit_sched" THEN "exit_irq" ELSE "unloaded"
    /\ UNCHANGED <<loads, initState, wpc, tmp, device, opened, debugfs, using, lateWork>>

(* Where the exit of the interrupt source returns to.                      *)
AfterIrqExit == IF lpc \in {"fail_irq_exit", "fail_irq_lock", "fail_irq_free"}
                THEN "fail_sched_exit" ELSE "unloaded"

(* esdm_es_irq_module_exit() up to its exchange of the state: while the    *)
(* work has not registered the source there is nothing to do.              *)
esdm_es_irq_module_exit ==
    /\ lpc \in {"exit_irq", "fail_irq_exit"}
    /\ lateWork' = (lateWork \/ wpc # "none")
    /\ IF initState = "unused"
       THEN lpc' = AfterIrqExit /\ UNCHANGED initState
       ELSE /\ initState' = "unregistering"
            /\ lpc' = IF initState = "registering" THEN AfterIrqExit
                      ELSE IF lpc = "exit_irq" THEN "irq_lock" ELSE "fail_irq_lock"
    /\ UNCHANGED <<loads, wpc, tmp, hash, callback, live, device, opened, debugfs, using,
                   crashed>>

BugIrqExitKeepsCallback ==
    /\ lpc \in {"irq_lock", "fail_irq_lock"}
    /\ NoReader("irq")
    /\ tmp' = [tmp EXCEPT !.exit = hash["irq"]]
    /\ hash' = [hash EXCEPT !["irq"] = Null]
    /\ lpc' = IF lpc = "irq_lock" THEN "irq_free" ELSE "fail_irq_free"
    /\ UNCHANGED <<loads, initState, wpc, callback, live, device, opened, debugfs, using, crashed,
                   lateWork>>

(* Its write section.                                                      *)
IrqExitLocked ==
    /\ lpc \in {"irq_lock", "fail_irq_lock"}
    /\ NoReader("irq")
    /\ tmp' = [tmp EXCEPT !.exit = hash["irq"]]
    /\ hash' = [hash EXCEPT !["irq"] = Null]
    /\ callback' = callback \ {"irq"}
    /\ lpc' = IF lpc = "irq_lock" THEN "irq_free" ELSE "fail_irq_free"
    /\ UNCHANGED <<loads, initState, wpc, live, device, opened, debugfs, using, crashed, lateWork>>

(* The hash is freed after the lock is released.                           *)
IrqExitFree ==
    /\ lpc \in {"irq_free", "fail_irq_free"}
    /\ Dealloc(tmp.exit)
    /\ tmp' = [tmp EXCEPT !.exit = Null]
    /\ initState' = "unused"
    /\ lpc' = AfterIrqExit
    /\ UNCHANGED <<loads, wpc, hash, callback, device, opened, debugfs, using, lateWork>>

-----------------------------------------------------------------------------
(* The work item: esdm_es_irq_set_callbackfn().                            *)

(* wait_for_random_bytes() is over: exchange the state.  Once the module   *)
(* is gone there is no function to run.                                    *)
WorkExchange ==
    /\ wpc = "wait"
    /\ crashed' = (lpc = "unloaded")
    /\ IF initState = "registering"
       THEN initState' = "registered" /\ wpc' = "alloc"
       ELSE initState' = "unused" /\ wpc' = "none"
    /\ UNCHANGED <<lpc, loads, tmp, hash, callback, live, device, opened, debugfs, using, lateWork>>

WorkAlloc ==
    /\ wpc = "alloc"
    /\ crashed' = (lpc = "unloaded")
    /\ \/ /\ \E h \in Hashes : Alloc(h) /\ tmp' = [tmp EXCEPT !.work = h]
          /\ wpc' = "register" /\ UNCHANGED initState
       \/ /\ initState' = "unused" /\ wpc' = "none"
          /\ UNCHANGED <<tmp, live>>
    /\ UNCHANGED <<lpc, loads, hash, callback, device, opened, debugfs, using, lateWork>>

(* Its write section: the kernel may refuse the callback.                  *)
WorkRegister ==
    /\ wpc = "register"
    /\ NoReader("irq")
    /\ \/ /\ hash' = [hash EXCEPT !["irq"] = tmp.work]
          /\ callback' = callback \cup {"irq"}
          /\ crashed' = (lpc = "unloaded")
          /\ UNCHANGED <<initState, live>>
       \/ /\ hash' = [hash EXCEPT !["irq"] = Null]
          /\ live' = live \ {tmp.work}
          /\ initState' = "unused"
          /\ crashed' = (lpc = "unloaded")
          /\ UNCHANGED callback
    /\ tmp' = [tmp EXCEPT !.work = Null]
    /\ wpc' = "none"
    /\ UNCHANGED <<lpc, loads, device, opened, debugfs, using, lateWork>>

-----------------------------------------------------------------------------
(* The users of the hash.                                                  *)

(* esdm_cdev_open(), esdm_cdev_release(): the device is open or not.       *)
OpenOrClose ==
    /\ device
    /\ using[Reader] = Outside
    /\ opened' = ~opened
    /\ UNCHANGED <<lpc, loads, initState, wpc, tmp, hash, callback, live, device, debugfs, using,
                   crashed, lateWork>>

(* A read section begins: esdm_irq_array_compress() in an interrupt while  *)
(* the callback is registered, or a read of either source through the open *)
(* device.  Scheduling events never compress.                              *)
Enter(u, s) ==
    /\ using[u] = Outside
    /\ IF u = Reader THEN opened ELSE s = "irq" /\ "irq" \in callback
    /\ hash[s] # Null
    /\ using' = [using EXCEPT ![u] = <<s, hash[s]>>]
    /\ UNCHANGED <<lpc, loads, initState, wpc, tmp, hash, callback, live, device, opened, debugfs,
                   crashed, lateWork>>

Leave(u) ==
    /\ using[u] # Outside
    /\ using' = [using EXCEPT ![u] = Outside]
    /\ UNCHANGED <<lpc, loads, initState, wpc, tmp, hash, callback, live, device, opened, debugfs,
                   crashed, lateWork>>

Next ==
    /\ ~crashed
    /\ \/ Load \/ esdm_es_sched_module_init \/ esdm_test_init \/ esdm_es_mgr_dev_init
       \/ LoadFails \/ Unload \/ esdm_es_sched_module_exit \/ esdm_es_irq_module_exit
       \/ IrqExitLocked \/ IrqExitFree
       \/ WorkExchange \/ WorkAlloc \/ WorkRegister
       \/ OpenOrClose
       \/ \E u \in Users : Leave(u) \/ \E s \in Sources : Enter(u, s)

Spec == Init /\ [][Next]_vars

(***************************************************************************)
(* The exit takes nothing away that is in use and leaves nothing behind: a *)
(* user inside a read section never works with a hash that the exit of the *)
(* module, or the failed registration, has freed; and once the module is   *)
(* unloaded or its loading has failed, the kernel calls neither callback,  *)
(* no device is left and no hash allocated, unless the exit came while the *)
(* work of the interrupt source was not through.                           *)
(***************************************************************************)
UnloadClean ==
    /\ Held \subseteq live
    /\ lpc = "unloaded" /\ ~crashed /\ ~lateWork =>
        callback = {} /\ ~device /\ live = {}
=============================================================================
