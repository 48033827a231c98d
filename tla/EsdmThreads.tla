----------------------------- MODULE EsdmThreads -----------------------------
(***************************************************************************)
(* The thread pool, common/threading_support.c: mother threads start jobs  *)
(* in the slots of threads[] and wait for them, workers run the jobs, and  *)
(* one thread releases the pool at the end of the process.                 *)
(*                                                                         *)
(* The regular slots make up one thread group, as thread_init(1) of the    *)
(* RPC server has it; each special slot is a group of its own.  A mother   *)
(* scans the slots of its group in the order of their numbers.             *)
(***************************************************************************)
EXTENDS Naturals, FiniteSets

CONSTANTS
    Mothers,            \* threads that call thread_start() and thread_wait()
    MAX_THREADS,        \* THREADING_MAX_THREADS
    MAX_SPECIAL,        \* ESDM_THREAD_MAX_SPECIAL_GROUPS
    None,               \* no thread, no job
    Destroyed,          \* a mutex after mutex_w_destroy()
    CreateMayFail,      \* pthread_create() may fail
    MayRelease,         \* the process may come to thread_release()
    MaxCalls            \* bound: how many calls each mother makes

Regular == 1..MAX_THREADS
Special == (MAX_THREADS + 1)..(MAX_THREADS + MAX_SPECIAL)
Slots == Regular \cup Special
Worker(s) == <<"worker", s>>

(* The calls the mothers may make, and so the jobs they may start.         *)
Jobs == UNION {{m} \X (1..MaxCalls[m]) : m \in Mothers}

ASSUME ThreadsAssumption ==
    /\ MAX_THREADS \in Nat \ {0} /\ MAX_SPECIAL \in Nat
    /\ MaxCalls \in [Mothers -> Nat]
    /\ CreateMayFail \in BOOLEAN /\ MayRelease \in BOOLEAN
    /\ None # Destroyed /\ {None, Destroyed} \cap Mothers = {}
    /\ \A s \in Slots : Worker(s) \notin Mothers \cup {None, Destroyed}
    /\ None \notin Jobs

VARIABLES
    inuse,              \* owner of threads[].inuse
    routine,            \* threads[].start_routine: the job to run
    scheduled,          \* threads[].scheduled
    parent,             \* threads[].parent
    pending,            \* threads[].thread_pending
    shutdown,           \* threads[].shutdown
    inCancel,           \* threads_in_cancel
    wpc,                \* where the worker of a slot is
    wjob,               \* the job it runs
    killed,             \* slots whose worker got pthread_cancel()
    mpc,                \* where a mother is
    slot,               \* the slot its scan is at
    again,              \* the local `wait` of thread_wait()
    calls,              \* calls a mother has made
    rpc,                \* where the releasing thread is
    rslot,              \* the slot its loop is at
    accepted,           \* history: jobs thread_start() returned 0 for
    ran                 \* history: jobs that have run to their end

slotVars == <<inuse, routine, scheduled, parent, pending, shutdown>>
workVars == <<wpc, wjob, killed>>
motherVars == <<mpc, slot, again, calls>>
relVars == <<inCancel, rpc, rslot>>
vars == <<slotVars, workVars, motherVars, relVars, accepted, ran>>

(* The job a mother starts with its present call.                          *)
Job(m) == <<m, calls[m]>>

(* The last slot of the group that slot s belongs to.                      *)
Upper(s) == IF s \in Special THEN s ELSE MAX_THREADS

(* thread_init()                                                           *)
Init ==
    /\ inuse = [s \in Slots |-> None]
    /\ routine = [s \in Slots |-> None]
    /\ scheduled = [s \in Slots |-> FALSE]
    /\ parent = [s \in Slots |-> None]
    /\ pending = [s \in Slots |-> FALSE]
    /\ shutdown = [s \in Slots |-> FALSE]
    /\ inCancel = FALSE
    /\ wpc = [s \in Slots |-> "none"]
    /\ wjob = [s \in Slots |-> None]
    /\ killed = {}
    /\ mpc = [m \in Mothers |-> "idle"]
    /\ slot = [m \in Mothers |-> 1]
    /\ again = [m \in Mothers |-> FALSE]
    /\ calls = [m \in Mothers |-> 0]
    /\ rpc = "off"
    /\ rslot = 1
    /\ accepted = {}
    /\ ran = {}

(* pthread_cond_broadcast() of thread_schedule_cv, where mothers are       *)
(* "asleep", and of thread_wait_cv, where they are "wasleep": those among  *)
(* `cvs` run again.  `places` is where the mothers are otherwise.          *)
Broadcast(cvs, places) ==
    mpc' = [m \in Mothers |->
              IF places[m] \notin cvs THEN places[m]
              ELSE IF places[m] = "asleep" THEN "scan" ELSE "wscan"]
BothCvs == {"asleep", "wasleep"}

(* pthread_cond_broadcast() of worker_cv of slot s.                        *)
WakeWorker(s) ==
    wpc' = [wpc EXCEPT ![s] = IF @ = "idle" THEN "lock" ELSE @]

Goto(m, place) == mpc' = [mpc EXCEPT ![m] = place]

(* The end of a call.                                                      *)
Leave(m) ==
    /\ Goto(m, "idle")
    /\ slot' = [slot EXCEPT ![m] = 1]
    /\ again' = [again EXCEPT ![m] = FALSE]

-----------------------------------------------------------------------------
(* thread_start() and thread_schedule()                                    *)

ThreadStart(m) ==
    /\ mpc[m] = "idle" /\ calls[m] < MaxCalls[m]
    /\ Goto(m, "scan")
    /\ calls' = [calls EXCEPT ![m] = @ + 1]
    /\ \E s \in {1} \cup Special : slot' = [slot EXCEPT ![m] = s]
    /\ UNCHANGED <<slotVars, workVars, again, relVars, accepted, ran>>

(* On to the next slot of the group; after the last one thread_schedule()  *)
(* returns -EAGAIN and thread_start() blocks.                              *)
NextSlot(m) ==
    IF slot[m] = Upper(slot[m])
      THEN Goto(m, "block") /\ UNCHANGED slot
      ELSE Goto(m, "scan") /\ slot' = [slot EXCEPT ![m] = @ + 1]

TrySlot(m) ==
    LET s == slot[m]
    IN  /\ mpc[m] = "scan" /\ ~inCancel
        /\ IF inuse[s] = None
             THEN /\ inuse' = [inuse EXCEPT ![s] = m]
                  /\ Goto(m, "locked")
                  /\ UNCHANGED slot
             ELSE NextSlot(m) /\ UNCHANGED inuse
        /\ UNCHANGED <<routine, scheduled, parent, pending, shutdown, workVars,
                       again, calls, relVars, accepted, ran>>

(* -ESHUTDOWN                                                              *)
StartRefused(m) ==
    /\ mpc[m] = "scan" /\ inCancel
    /\ Leave(m)
    /\ UNCHANGED <<slotVars, workVars, calls, relVars, accepted, ran>>

(* mutex_w_unlock(): a destroyed mutex stays destroyed.                    *)
Unlocked(s) == IF inuse[s] = Destroyed THEN Destroyed ELSE None

(* Bug variant of SlotTaken: a job that was scheduled but not picked up by *)
(* its worker yet is overlooked.                                           *)
BugSlotTakenScheduled(m, s) ==
    shutdown[s] \/ (scheduled[s] /\ parent[s] # m)

(* The slot cannot take a job: it has one, it shall end, or the return     *)
(* code of its last job belongs to another mother.                         *)
SlotTaken(m, s) ==
    routine[s] # None \/ shutdown[s] \/ (scheduled[s] /\ parent[s] # m)

(* Bug variant of SkipSlot: the lock of the slot is kept.                  *)
BugSkipKeepsLock(m) ==
    /\ mpc[m] = "locked" /\ SlotTaken(m, slot[m])
    /\ WakeWorker(slot[m])
    /\ NextSlot(m)
    /\ UNCHANGED <<slotVars, wjob, killed, again, calls, relVars, accepted, ran>>

SkipSlot(m) ==
    LET s == slot[m]
    IN  /\ mpc[m] = "locked" /\ SlotTaken(m, s)
        /\ inuse' = [inuse EXCEPT ![s] = Unlocked(s)]
        /\ WakeWorker(s)
        /\ NextSlot(m)
        /\ UNCHANGED <<routine, scheduled, parent, pending, shutdown, wjob,
                       killed, again, calls, relVars, accepted, ran>>

(* The slot is free: a thread is created for it unless it has one.         *)
UseSlot(m) ==
    LET s == slot[m]
    IN  /\ mpc[m] = "locked" /\ ~SlotTaken(m, s)
        /\ Goto(m, "assign")
        /\ IF pending[s]
             THEN UNCHANGED <<pending, wpc>>
             ELSE /\ pending' = [pending EXCEPT ![s] = TRUE]
                  /\ wpc' = [wpc EXCEPT ![s] = "lock"]
        /\ UNCHANGED <<inuse, routine, scheduled, parent, shutdown, wjob,
                       killed, slot, again, calls, relVars, accepted, ran>>

(* thread_cleanup_full() of slot s.  The mutex is a robust one: destroying *)
(* it succeeds whoever holds it, and no trylock succeeds afterwards.       *)
CleanupFull(s) ==
    /\ routine' = [routine EXCEPT ![s] = None]
    /\ pending' = [pending EXCEPT ![s] = FALSE]
    /\ scheduled' = [scheduled EXCEPT ![s] = FALSE]
    /\ inuse' = [inuse EXCEPT ![s] = Destroyed]
    /\ UNCHANGED <<parent, shutdown>>

(* thread_create() fails: the error is returned with the slot locked.      *)
CreateFails(m) ==
    LET s == slot[m]
    IN  /\ CreateMayFail /\ mpc[m] = "locked"
        /\ ~SlotTaken(m, s) /\ ~pending[s]
        /\ CleanupFull(s)
        /\ Broadcast(BothCvs, [mpc EXCEPT ![m] = "idle"])
        /\ slot' = [slot EXCEPT ![m] = 1]
        /\ UNCHANGED <<workVars, again, calls, relVars, accepted, ran>>

(* Bug variant of Assign: the worker is not told.                          *)
BugAssignNoKick(m) ==
    LET s == slot[m]
    IN  /\ mpc[m] = "assign"
        /\ routine' = [routine EXCEPT ![s] = Job(m)]
        /\ parent' = [parent EXCEPT ![s] = m]
        /\ scheduled' = [scheduled EXCEPT ![s] = TRUE]
        /\ inuse' = [inuse EXCEPT ![s] = Unlocked(s)]
        /\ Broadcast({"wasleep"}, [mpc EXCEPT ![m] = "idle"])
        /\ slot' = [slot EXCEPT ![m] = 1]
        /\ accepted' = accepted \cup {Job(m)}
        /\ UNCHANGED <<pending, shutdown, workVars, again, calls, relVars, ran>>

(* The job is handed over, the worker told, and thread_start() returns 0.  *)
Assign(m) ==
    LET s == slot[m]
    IN  /\ mpc[m] = "assign"
        /\ routine' = [routine EXCEPT ![s] = Job(m)]
        /\ parent' = [parent EXCEPT ![s] = m]
        /\ scheduled' = [scheduled EXCEPT ![s] = TRUE]
        /\ inuse' = [inuse EXCEPT ![s] = Unlocked(s)]
        /\ WakeWorker(s)
        /\ Broadcast({"wasleep"}, [mpc EXCEPT ![m] = "idle"])
        /\ slot' = [slot EXCEPT ![m] = 1]
        /\ accepted' = accepted \cup {Job(m)}
        /\ UNCHANGED <<pending, shutdown, wjob, killed, again, calls, relVars,
                       ran>>

(* thread_block() of thread_schedule_cv: the mother sleeps until the next  *)
(* broadcast, whatever happened since its scan.                            *)
Block(m) ==
    /\ mpc[m] = "block"
    /\ Goto(m, "asleep")
    /\ slot' = [slot EXCEPT ![m] = IF @ \in Special THEN @ ELSE 1]
    /\ UNCHANGED <<slotVars, workVars, again, calls, relVars, accepted, ran>>

-----------------------------------------------------------------------------
(* thread_wait()                                                           *)

ThreadWait(m) ==
    /\ mpc[m] = "idle" /\ calls[m] < MaxCalls[m]
    /\ Goto(m, "wscan")
    /\ calls' = [calls EXCEPT ![m] = @ + 1]
    /\ UNCHANGED <<slotVars, workVars, slot, again, relVars, accepted, ran>>

(* On to the next slot; behind the last thread_wait() blocks or returns.   *)
NextWait(m, wait) ==
    IF slot[m] < MAX_THREADS
      THEN /\ Goto(m, "wscan")
           /\ slot' = [slot EXCEPT ![m] = @ + 1]
           /\ again' = [again EXCEPT ![m] = wait]
      ELSE /\ Goto(m, IF wait THEN "wblock" ELSE "wdone")
           /\ slot' = [slot EXCEPT ![m] = 1]
           /\ again' = [again EXCEPT ![m] = FALSE]

(* A slot without a thread, or another mother's, is passed over; one whose *)
(* lock is taken is waited for.                                            *)
WaitSlot(m) ==
    LET s == slot[m]
        mine == pending[s] /\ parent[s] = m
    IN  /\ mpc[m] = "wscan" /\ ~shutdown[s]
        /\ IF mine /\ inuse[s] = None
             THEN /\ inuse' = [inuse EXCEPT ![s] = m]
                  /\ Goto(m, "wlocked")
                  /\ UNCHANGED <<slot, again>>
             ELSE NextWait(m, again[m] \/ mine) /\ UNCHANGED inuse
        /\ UNCHANGED <<routine, scheduled, parent, pending, shutdown, workVars,
                       calls, relVars, accepted, ran>>

(* -ESHUTDOWN                                                              *)
WaitRefused(m) ==
    /\ mpc[m] = "wscan" /\ shutdown[slot[m]]
    /\ Leave(m)
    /\ UNCHANGED <<slotVars, workVars, calls, relVars, accepted, ran>>

(* With the lock held: the job is still to run, or its return code is      *)
(* collected.                                                              *)
WaitLocked(m) ==
    LET s == slot[m]
    IN  /\ mpc[m] = "wlocked"
        /\ scheduled' = [scheduled EXCEPT ![s] = @ /\ routine[s] # None]
        /\ inuse' = [inuse EXCEPT ![s] = Unlocked(s)]
        /\ NextWait(m, again[m] \/ routine[s] # None)
        /\ UNCHANGED <<routine, parent, pending, shutdown, workVars, calls,
                       relVars, accepted, ran>>

(* thread_block() of thread_wait_cv.                                       *)
WaitBlock(m) ==
    /\ mpc[m] = "wblock"
    /\ Goto(m, "wasleep")
    /\ UNCHANGED <<slotVars, workVars, slot, again, calls, relVars, accepted,
                   ran>>

WaitReturn(m) ==
    /\ mpc[m] = "wdone"
    /\ Goto(m, "idle")
    /\ UNCHANGED <<slotVars, workVars, slot, again, calls, relVars, accepted,
                   ran>>

(* pthread_cond_wait() may return without a broadcast.                     *)
Spurious(m) ==
    /\ mpc[m] \in BothCvs
    /\ Goto(m, IF mpc[m] = "asleep" THEN "scan" ELSE "wscan")
    /\ UNCHANGED <<slotVars, workVars, slot, again, calls, relVars, accepted,
                   ran>>

-----------------------------------------------------------------------------
(* thread_worker()                                                         *)

(* The worker has the lock: it ends, runs its job with the lock held, or   *)
(* waits for worker_cv without the lock.                                   *)
WorkerLock(s) ==
    /\ wpc[s] = "lock" /\ inuse[s] = None
    /\ \/ /\ shutdown[s]
          /\ wpc' = [wpc EXCEPT ![s] = "exit"]
          /\ UNCHANGED <<inuse, wjob>>
       \/ /\ ~shutdown[s] /\ routine[s] # None
          /\ wpc' = [wpc EXCEPT ![s] = "run"]
          /\ wjob' = [wjob EXCEPT ![s] = routine[s]]
          /\ inuse' = [inuse EXCEPT ![s] = Worker(s)]
       \/ /\ ~shutdown[s] /\ routine[s] = None
          /\ wpc' = [wpc EXCEPT ![s] = "idle"]
          /\ UNCHANGED <<inuse, wjob>>
    /\ UNCHANGED <<routine, scheduled, parent, pending, shutdown, killed,
                   motherVars, relVars, accepted, ran>>

(* The job returns; thread_cleanup() wakes the mothers while the worker    *)
(* still holds the lock of the slot.                                       *)
JobDone(s) ==
    /\ wpc[s] = "run"
    /\ ran' = ran \cup {wjob[s]}
    /\ routine' = [routine EXCEPT ![s] = None]
    /\ scheduled' = [scheduled EXCEPT ![s] = @ /\ s \notin Special]
    /\ Broadcast(BothCvs, mpc)
    /\ wpc' = [wpc EXCEPT ![s] = "cleaned"]
    /\ wjob' = [wjob EXCEPT ![s] = None]
    /\ UNCHANGED <<inuse, parent, pending, shutdown, killed, slot, again,
                   calls, relVars, accepted>>

(* Only then it unlocks the slot, and tells those in thread_wait().        *)
WorkerUnlock(s) ==
    /\ wpc[s] = "cleaned"
    /\ inuse' = [inuse EXCEPT ![s] = Unlocked(s)]
    /\ Broadcast({"wasleep"}, mpc)
    /\ wpc' = [wpc EXCEPT ![s] = "lock"]
    /\ UNCHANGED <<routine, scheduled, parent, pending, shutdown, wjob, killed,
                   slot, again, calls, relVars, accepted, ran>>

WorkerExit(s) ==
    /\ wpc[s] = "exit"
    /\ CleanupFull(s)
    /\ Broadcast(BothCvs, mpc)
    /\ wpc' = [wpc EXCEPT ![s] = "dead"]
    /\ UNCHANGED <<wjob, killed, slot, again, calls, relVars, accepted, ran>>

(* A cancellation is acted upon in the job and in the logger after it: the *)
(* worker dies with the lock held.  Idle workers have been woken by Mark   *)
(* and end by themselves.                                                  *)
WorkerKilled(s) ==
    /\ s \in killed /\ wpc[s] \in {"run", "cleaned"}
    /\ wpc' = [wpc EXCEPT ![s] = "dead"]
    /\ wjob' = [wjob EXCEPT ![s] = None]
    /\ UNCHANGED <<slotVars, killed, motherVars, relVars, accepted, ran>>

-----------------------------------------------------------------------------
(* esdm_rpc_server_fini(): thread_stop_spawning(), thread_release(true,    *)
(* false) and with it thread_cancel() of the regular slots                 *)

StopSpawning ==
    /\ MayRelease /\ rpc = "off"
    /\ inCancel' = TRUE
    /\ rpc' = "mark"
    /\ UNCHANGED <<slotVars, workVars, motherVars, rslot, accepted, ran>>

(* The slots are marked and their jobs dropped, without their locks.       *)
Mark ==
    /\ rpc = "mark"
    /\ shutdown' = [shutdown EXCEPT ![rslot] = TRUE]
    /\ routine' = [routine EXCEPT ![rslot] = None]
    /\ WakeWorker(rslot)
    /\ IF rslot < MAX_THREADS
         THEN rslot' = rslot + 1 /\ UNCHANGED <<rpc, mpc>>
         ELSE rslot' = 1 /\ rpc' = "kill" /\ Broadcast({"wasleep"}, mpc)
    /\ UNCHANGED <<inuse, scheduled, parent, pending, wjob, killed, slot,
                   again, calls, inCancel, accepted, ran>>

NextKill ==
    IF rslot < MAX_THREADS
      THEN rslot' = rslot + 1 /\ rpc' = "kill"
      ELSE rslot' = 1 /\ rpc' = "done"

Kill ==
    /\ rpc = "kill"
    /\ IF pending[rslot]
         THEN killed' = killed \cup {rslot} /\ rpc' = "join" /\ UNCHANGED rslot
         ELSE NextKill /\ UNCHANGED killed
    /\ UNCHANGED <<slotVars, wpc, wjob, motherVars, inCancel, accepted, ran>>

Join ==
    /\ rpc = "join" /\ wpc[rslot] = "dead"
    /\ CleanupFull(rslot)
    /\ Broadcast(BothCvs, mpc)
    /\ NextKill
    /\ UNCHANGED <<workVars, slot, again, calls, inCancel, accepted, ran>>

-----------------------------------------------------------------------------

MotherStep(m) ==
    \/ TrySlot(m) \/ StartRefused(m) \/ SkipSlot(m) \/ UseSlot(m)
    \/ CreateFails(m) \/ Assign(m) \/ Block(m)
    \/ WaitSlot(m) \/ WaitRefused(m) \/ WaitLocked(m) \/ WaitBlock(m)
    \/ WaitReturn(m)

WorkerStep(s) ==
    WorkerLock(s) \/ JobDone(s) \/ WorkerUnlock(s) \/ WorkerExit(s)
    \/ WorkerKilled(s)

Next ==
    \/ \E m \in Mothers : \/ ThreadStart(m) \/ ThreadWait(m) \/ Spurious(m)
                          \/ MotherStep(m)
    \/ \E s \in Slots : WorkerStep(s)
    \/ StopSpawning \/ Mark \/ Kill \/ Join

Spec == Init /\ [][Next]_vars

(* Fairness: a thread that can run is scheduled; jobs come to their end,   *)
(* as the connection handlers do, whose reads time out; and a worker gets  *)
(* the lock of its slot, which mothers only hold for a moment.             *)
FairSpec ==
    /\ Spec
    /\ \A m \in Mothers : WF_vars(MotherStep(m))
    /\ \A s \in Slots : WF_vars(WorkerStep(s))  /\ SF_vars(WorkerLock(s))
    /\ WF_vars(Mark \/ Kill \/ Join)

-----------------------------------------------------------------------------

Owners == Mothers \cup {None, Destroyed} \cup {Worker(s) : s \in Slots}
WorkerPlaces == {"none", "lock", "run", "cleaned", "idle", "exit", "dead"}
MotherPlaces ==
    {"idle", "scan", "locked", "assign", "block", "asleep", "wscan", "wlocked",
     "wblock", "wasleep", "wdone"}

ThreadsTypeOK ==
    /\ inuse \in [Slots -> Owners]
    /\ routine \in [Slots -> Jobs \cup {None}]
    /\ wjob \in [Slots -> Jobs \cup {None}]
    /\ parent \in [Slots -> Mothers \cup {None}]
    /\ scheduled \in [Slots -> BOOLEAN] /\ pending \in [Slots -> BOOLEAN]
    /\ shutdown \in [Slots -> BOOLEAN] /\ inCancel \in BOOLEAN
    /\ wpc \in [Slots -> WorkerPlaces] /\ mpc \in [Mothers -> MotherPlaces]
    /\ slot \in [Mothers -> Slots] /\ again \in [Mothers -> BOOLEAN]
    /\ calls \in [Mothers -> Nat] /\ \A m \in Mothers : calls[m] <= MaxCalls[m]
    /\ rpc \in {"off", "mark", "kill", "join", "done"} /\ rslot \in Regular
    /\ killed \subseteq Regular
    /\ accepted \subseteq Jobs /\ ran \subseteq Jobs

(* A job thread_start() returned 0 for is neither overwritten nor run      *)
(* twice: until it has run it is in exactly one slot, afterwards in none.  *)
(* Only the release of the pool drops jobs.  And thread_wait() returns     *)
(* only when every job its caller started in the thread group has come to  *)
(* its end, although it reads thread_pending and parent without the lock   *)
(* of the slot.                                                            *)
JobKept ==
    /\ ~inCancel => \A j \in accepted :
          Cardinality({s \in Slots : routine[s] = j}) =
              IF j \in ran THEN 0 ELSE 1
    /\ \A m \in Mothers : mpc[m] = "wdone" =>
          \A s \in Regular, k \in 1..MaxCalls[m] :
              routine[s] # <<m, k>> /\ wjob[s] # <<m, k>>

(* No worker sleeps over its job: a slot that has one becomes free again.  *)
(* With JobKept every job thread_start() returned 0 for is run.            *)
JobsRun ==
    \A s \in Slots : routine[s] # None ~> routine[s] = None

(* thread_release() returns, and no worker of the thread group survives,   *)
(* not even one that a mother creates while the pool is being released.    *)
ReleaseEnds ==
    inCancel ~> /\ rpc = "done"
                /\ \A s \in Regular : wpc[s] \in {"none", "dead"}
=============================================================================
