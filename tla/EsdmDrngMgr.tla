----------------------------- MODULE EsdmDrngMgr -----------------------------
(***************************************************************************)
(* The DRNG manager, esdm/esdm_drng_mgr.c, with the parts of the entropy   *)
(* source manager and of esdm_node.c that it calls: seeding, reseeding,    *)
(* the waiting for a seeded ESDM and the generation of random numbers by   *)
(* any number of threads.                                                  *)
(*                                                                         *)
(* A thread runs one call of the API at a time.  pc is the place it has    *)
(* reached; between two places the code touches shared state once, or      *)
(* touches state that it protects by a lock it holds.  A mutex is a        *)
(* variable holding its owner, and the condition variable esdm_init_wait   *)
(* is the set of threads at "asleep": a broadcast moves only those.        *)
(***************************************************************************)
EXTENDS EsdmEsMgr, Sequences

CONSTANTS
    Threads,            \* threads calling the API, RPC worker threads
    BootThread,         \* the thread that runs esdm_init()
    None,               \* the owner of a free mutex
    NodeSeq,            \* the DRNGs of the nodes above 0, in node order
    RESEED_THRESH,      \* ESDM_DRNG_RESEED_THRESH
    MAX_WO_RESEED,      \* esdm_config_drng_max_wo_reseed()
    THRESH_BITS,        \* ESDM_DRNG_RESEED_THRESH_BITS, 0: UINT32_MAX
    MAX_BITS,           \* esdm_config_drng_max_wo_reseed_bits(), 0: UINT32_MAX
    Ops,                \* the calls each thread makes
    MaxCalls,           \* bound: calls of each thread, 0: no bound
    SeedMayFail,        \* can drng_seed() of the crypto backend fail?
    EsMayFail           \* can get_ent() deliver nothing despite entropy?

NodeDrngs == {NodeSeq[i] : i \in DOMAIN NodeSeq}
Drngs == {"init", "pr"} \cup NodeDrngs

PrCalls == {"pr", "pr_noblock"}
SeedCalls == {"get_seed", "get_seed_noblock"}
NoBlockCalls == {"full_noblock", "min_noblock", "pr_noblock",
                 "get_seed_noblock"}
ApiCalls == {"get", "full", "full_timeout", "full_noblock", "min",
             "min_noblock", "force_reseed", "add_entropy", "monitor"}
              \cup PrCalls \cup SeedCalls

ASSUME MgrAssumption ==
    /\ BootThread \in Threads /\ None \notin Threads
    /\ NodeSeq \in Seq(STRING)
    /\ NodeDrngs \cap {"init", "pr"} = {}
    /\ RESEED_THRESH \in Nat \ {0} /\ MAX_WO_RESEED \in Nat
    /\ THRESH_BITS \in Nat /\ MAX_BITS \in Nat
    /\ MaxCalls \in [Threads -> Nat]
    /\ Ops \in [Threads -> SUBSET ApiCalls]
    /\ SeedMayFail \in BOOLEAN /\ EsMayFail \in BOOLEAN

VARIABLES
    fully, force, requests, since, bits,  \* the fields of struct esdm_drng
    lock,               \* holder of the lock of each DRNG
    prLock, seedLock,   \* holders of esdm_pr_lock and esdm_get_seed_lock
    published,          \* is the array esdm_drng of esdm_node.c published?
    booted,             \* has esdm_init() returned?
    fresh,              \* history: entropy seeded since the last generate
    pc, call, left,     \* control of the threads
    dr, sd, sk, uk, idx, forced, got, coll, eb, lvl, again,
    todo                \* their locals

drngVars == <<fully, force, requests, since, bits, lock, fresh>>
mgrVars == <<prLock, seedLock, published, booted>>
seedVars == <<sd, sk, forced, got, coll, eb, lvl, again>>
getVars == <<dr, uk, idx, todo>>
ctlVars == <<pc, call, left>>
vars == <<esVars, drngVars, mgrVars, seedVars, getVars, ctlVars>>

NoEnt == [e \in Es |-> 0]

(* Bug variant of SeedOrder: the prediction resistance DRNG first.         *)
BugSeedOrderPrFirst == IF published THEN <<"pr", "init">> \o NodeSeq
                                    ELSE <<"pr", "init">>

(* The DRNGs __esdm_drng_seed_work() looks at, in its order.               *)
SeedOrder == IF published THEN <<"init">> \o NodeSeq \o <<"pr">>
                          ELSE <<"init", "pr">>

(* requests, since and bits are only compared with these limits, so the    *)
(* counters saturate there.                                                *)
MaxOf(a, b) == IF a >= b THEN a ELSE b
MinRequests == MinOf(-1, RESEED_THRESH - MAX_WO_RESEED)
BitsCap == MaxOf(THRESH_BITS, MAX_BITS)

(* esdm_drng_check_disable_threshold()                                     *)
DisableThreshold(d) ==
    \/ since[d] >= MAX_WO_RESEED
    \/ MAX_BITS # 0 /\ bits[d] >= MAX_BITS

Goto(t, l) == pc' = [pc EXCEPT ![t] = l]

(* thread_wake_all(&esdm_init_wait) by t, which goes on at l.              *)
WakeAllGoto(t, l) ==
    pc' = [u \in Threads |-> IF u = t THEN l
                             ELSE IF pc[u] = "asleep" THEN "recheck"
                             ELSE pc[u]]

(* Where a thread goes when its call of the seeding code is over.          *)
AfterForce(t) == CASE uk[t] # "none" -> "monwake"
                   [] call[t] = "boot" -> "nodealloc"
                   [] OTHER -> "gate"
AfterAdd(t) == CASE call[t] = "boot" -> "shminit"
                 [] call[t] = "monitor" -> "moncheck"
                 [] OTHER -> "ret"
InForce(t) == \/ uk[t] # "none"
              \/ /\ call[t] \notin {"add_entropy", "monitor"}
                 /\ ~(call[t] = "boot" /\ published)
AfterWork(t) == IF InForce(t) THEN AfterForce(t) ELSE AfterAdd(t)

(* Does the thread repeat the seeding as long as a reseed is wanted?       *)
SeedsAll(t) == InForce(t) /\ uk[t] = "none"
                 /\ call[t] \in SeedCalls \cup {"boot"}

(* The condition a waiting call waits for.                                 *)
GateOpen(t) == CASE call[t] \in SeedCalls -> allNodes
                 [] call[t] \in {"min", "min_noblock"} -> minSeeded
                 [] OTHER -> operational
AfterGate(t) == CASE call[t] \in SeedCalls -> "gs_lock"
                  [] call[t] = "pr" -> "prlock"
                  [] OTHER -> "pick"

-----------------------------------------------------------------------------
(* The waiting of the API calls                                            *)

(* Entry of a call: what the API function does first.                      *)
StartCall(t) ==
    /\ pc[t] = "idle" /\ booted
    /\ MaxCalls[t] = 0 \/ left[t] > 0
    /\ \E c \in Ops[t] :
         /\ call' = [call EXCEPT ![t] = c]
         /\ Goto(t, CASE c = "get" -> "pick"
                      [] c = "force_reseed" -> "freseed"
                      [] c \in {"add_entropy", "monitor"} -> "wanted"
                      [] c \in SeedCalls -> "seedlock"
                      [] OTHER -> "force")
    /\ left' = IF MaxCalls[t] = 0 THEN left ELSE [left EXCEPT ![t] = @ - 1]
    /\ UNCHANGED <<esVars, drngVars, mgrVars, seedVars, getVars>>

(* esdm_force_fully_seeded() and esdm_force_fully_seeded_all_drbgs() up to *)
(* the pool lock                                                           *)
ForceFullySeeded(t) ==
    /\ pc[t] = "force"
    /\ Goto(t, IF allNodes THEN AfterForce(t) ELSE "plock")
    /\ UNCHANGED <<esVars, drngVars, mgrVars, seedVars, getVars, call, left>>

(* The test of the state after the forced seeding.                         *)
SleepGate(t) ==
    /\ pc[t] = "gate"
    /\ Goto(t, IF GateOpen(t) THEN AfterGate(t)
               ELSE IF call[t] \in NoBlockCalls THEN "ret" ELSE "recheck")
    /\ UNCHANGED <<esVars, drngVars, mgrVars, seedVars, getVars, call, left>>

(* The loop condition of thread_wait_event(): tested without the lock.     *)
WaitTest(t) ==
    /\ pc[t] = "recheck"
    /\ Goto(t, IF GateOpen(t) THEN AfterGate(t) ELSE "towait")
    /\ UNCHANGED <<esVars, drngVars, mgrVars, seedVars, getVars, call, left>>

(* pthread_cond_wait(): only now a broadcast reaches the thread.           *)
CondWait(t) ==
    /\ pc[t] = "towait"
    /\ Goto(t, "asleep")
    /\ UNCHANGED <<esVars, drngVars, mgrVars, seedVars, getVars, call, left>>

(* pthread_cond_clockwait() of esdm_get_random_bytes_full_timeout() ends   *)
(* by its timeout: the call returns -ETIMEDOUT.                            *)
WaitTimeout(t) ==
    /\ pc[t] = "asleep" /\ call[t] = "full_timeout"
    /\ Goto(t, "ret")
    /\ UNCHANGED <<esVars, drngVars, mgrVars, seedVars, getVars, call, left>>

(* The call returns; esdm_get_random_bytes_pr() and esdm_get_seed() give   *)
(* their own lock back.  The locals of the thread are gone.                *)
Return(t) ==
    /\ pc[t] = "ret"
    /\ prLock' = IF prLock = t THEN None ELSE prLock
    /\ seedLock' = IF seedLock = t THEN None ELSE seedLock
    /\ call' = [call EXCEPT ![t] = "none"]
    /\ dr' = [dr EXCEPT ![t] = "init"]
    /\ Goto(t, "idle")
    /\ UNCHANGED <<esVars, drngVars, published, booted, seedVars, uk, idx,
                   todo, left>>

-----------------------------------------------------------------------------
(* __esdm_drng_seed_work(): seed one DRNG that is not fully seeded         *)

PoolLock(t) ==
    /\ pc[t] = "plock" /\ pool = None
    /\ pool' = t
    /\ idx' = [idx EXCEPT ![t] = 1]
    /\ Goto(t, "scan")
    /\ UNCHANGED <<operational, fullySeeded, minSeeded, allNodes, thresh,
                   shmOp, ent, drngVars, mgrVars, seedVars, dr, uk, todo,
                   call, left>>

(* Look at the next DRNG: seed it when it is not fully seeded.  Only the   *)
(* forced seeding raises its force_reseed.                                 *)
SeedWorkScan(t) ==
    /\ pc[t] = "scan" /\ idx[t] <= Len(SeedOrder)
    /\ LET d == SeedOrder[idx[t]] IN
         \/ /\ fully[d]
            /\ idx' = [idx EXCEPT ![t] = @ + 1]
            /\ UNCHANGED <<pc, force, sd, sk>>
         \/ /\ ~fully[d]
            /\ force' = [force EXCEPT ![d] = @ \/ InForce(t)]
            /\ sd' = [sd EXCEPT ![t] = d]
            /\ sk' = [sk EXCEPT ![t] = "work"]
            /\ idx' = [idx EXCEPT ![t] = 1]
            /\ Goto(t, "slock")
    /\ UNCHANGED <<esVars, fully, requests, since, bits, lock, fresh,
                   mgrVars, forced, got, coll, eb, lvl, again, dr, uk, todo,
                   call, left>>

(* All were found fully seeded: esdm_pool_all_nodes_seeded(true)           *)
SeedWorkAllSeeded(t) ==
    /\ pc[t] = "scan" /\ idx[t] > Len(SeedOrder)
    /\ allNodes' = TRUE
    /\ idx' = [idx EXCEPT ![t] = 1]
    /\ WakeAllGoto(t, "workout")
    /\ UNCHANGED <<operational, fullySeeded, minSeeded, thresh, pool, shmOp,
                   ent, drngVars, mgrVars, seedVars, dr, uk, todo, call, left>>

(* Repeat it, or unlock the pool.                                          *)
SeedWorkOut(t) ==
    /\ pc[t] = "workout"
    /\ IF SeedsAll(t) /\ ReseedWanted
         THEN Goto(t, "scan") /\ UNCHANGED pool
         ELSE Goto(t, AfterWork(t)) /\ pool' = None
    /\ UNCHANGED <<operational, fullySeeded, minSeeded, allNodes, thresh,
                   shmOp, ent, drngVars, mgrVars, seedVars, getVars, call,
                   left>>

(* esdm_es_add_entropy(): called when entropy arrived, and by the monitor. *)
AddEntropyWanted(t) ==
    /\ pc[t] = "wanted"
    /\ Goto(t, IF ReseedWanted THEN "tryadd" ELSE AfterAdd(t))
    /\ UNCHANGED <<esVars, drngVars, mgrVars, seedVars, getVars, call, left>>

AddEntropyTryLock(t) ==
    /\ pc[t] = "tryadd"
    /\ IF pool = None THEN pool' = t /\ Goto(t, "scan")
                      ELSE UNCHANGED pool /\ Goto(t, AfterAdd(t))
    /\ UNCHANGED <<operational, fullySeeded, minSeeded, allNodes, thresh,
                   shmOp, ent, drngVars, mgrVars, seedVars, getVars, call,
                   left>>

(* The monitor loop: it sleeps on esdm_monitor_wait when all is seeded.    *)
MonitorCheck(t) ==
    /\ pc[t] = "moncheck"
    /\ Goto(t, IF allNodes THEN "montowait" ELSE "wanted")
    /\ UNCHANGED <<esVars, drngVars, mgrVars, seedVars, getVars, call, left>>

MonitorSleep(t) ==
    /\ pc[t] = "montowait"
    /\ Goto(t, "monasleep")
    /\ UNCHANGED <<esVars, drngVars, mgrVars, seedVars, getVars, call, left>>

(* esdm_drngs_node_alloc(): publish the DRNGs of the nodes, unseeded.      *)
NodeAlloc(t) ==
    /\ pc[t] = "nodealloc"
    /\ published' = TRUE
    /\ allNodes' = FALSE
    /\ Goto(t, "wanted")
    /\ UNCHANGED <<operational, fullySeeded, minSeeded, thresh, pool, shmOp,
                   ent, drngVars, prLock, seedLock, booted, seedVars, getVars,
                   call, left>>

(* esdm_shm_status_init(), the last step of esdm_init()                    *)
ShmStatusInit(t) ==
    /\ pc[t] = "shminit"
    /\ shmOp' = operational
    /\ booted' = TRUE
    /\ Goto(t, "ret")
    /\ UNCHANGED <<operational, fullySeeded, minSeeded, allNodes, thresh,
                   pool, ent, drngVars, prLock, seedLock, published, seedVars,
                   getVars, call, left>>

-----------------------------------------------------------------------------
(* esdm_drng_seed_es(): one seeding operation on the DRNG sd[t].  It runs  *)
(* with the pool locked by t, on behalf of "work", of a reseed in "get" or *)
(* of the prediction resistance DRNG in "pr".                              *)

(* The locals of esdm_drng_seed_es_nolock() at its entry.                  *)
SeedEnter(t, d) ==
    /\ forced' = [forced EXCEPT ![t] = force[d]]
    /\ got' = [got EXCEPT ![t] = 0]
    /\ coll' = [coll EXCEPT ![t] = 0]
    /\ eb' = [eb EXCEPT ![t] = NoEnt]
    /\ lvl' = [lvl EXCEPT ![t] = FALSE]
    /\ again' = [again EXCEPT ![t] = FALSE]

(* Its return: the locals are gone.                                        *)
SeedLeave(t) ==
    /\ sd' = [sd EXCEPT ![t] = "init"]
    /\ sk' = [sk EXCEPT ![t] = "work"]
    /\ forced' = [forced EXCEPT ![t] = FALSE]
    /\ got' = [got EXCEPT ![t] = 0]
    /\ coll' = [coll EXCEPT ![t] = 0]
    /\ eb' = [eb EXCEPT ![t] = NoEnt]
    /\ lvl' = [lvl EXCEPT ![t] = FALSE]
    /\ again' = [again EXCEPT ![t] = FALSE]

SeedLockDrng(t) ==
    /\ pc[t] = "slock" /\ lock[sd[t]] = None
    /\ lock' = [lock EXCEPT ![sd[t]] = t]
    /\ SeedEnter(t, sd[t])
    /\ Goto(t, "fill")
    /\ UNCHANGED <<esVars, fully, force, requests, since, bits, fresh,
                   mgrVars, sd, sk, getVars, call, left>>

(* esdm_fill_seed_buffer() and the sums over the iterations                *)
SeedFill(t) ==
    /\ pc[t] = "fill"
    /\ \E ok \in IF EsMayFail THEN SUBSET Es ELSE {Es} :
         LET emergency == forced[t] /\ ~fully[sd[t]]
             requested == Osr(fully[sd[t]])
             buf == FillGot(emergency, requested, ok)
         IN /\ ent' = FillLeft(emergency, requested)
            /\ got' = [got EXCEPT ![t] = SatEnt(TotalEnt(buf))]
            /\ coll' = [coll EXCEPT ![t] = SatEnt(@ + TotalEnt(buf))]
            /\ eb' = [eb EXCEPT ![t] = [e \in Es |-> SatEnt(@[e] + buf[e])]]
            /\ again' = [again EXCEPT ![t] = Delivered(buf)]
    /\ Goto(t, "eval")
    /\ UNCHANGED <<operational, fullySeeded, minSeeded, allNodes, thresh,
                   pool, shmOp, drngVars, mgrVars, sd, sk, forced, lvl,
                   getVars, call, left>>

(* The argument esdm_fully_seeded(drng->fully_seeded, ...) of the          *)
(* injection: computed before it.                                          *)
SeedEval(t) ==
    /\ pc[t] = "eval"
    /\ lvl' = [lvl EXCEPT ![t] = EnoughEntropy(fully[sd[t]], coll[t], eb[t])]
    /\ Goto(t, "inject")
    /\ UNCHANGED <<esVars, drngVars, mgrVars, sd, sk, forced, got, coll, eb,
                   again, getVars, call, left>>

(* esdm_drng_inject(): the backend takes the seed ...                      *)
InjectOk(t) ==
    LET d == sd[t] IN
    /\ since' = [since EXCEPT ![d] =
          IF lvl[t] THEN 0
          ELSE MinOf(@ + (RESEED_THRESH - requests[d]), MAX_WO_RESEED)]
    /\ bits' = [bits EXCEPT ![d] = IF lvl[t] THEN 0 ELSE @]
    /\ requests' = [requests EXCEPT ![d] = RESEED_THRESH]
    /\ force' = [force EXCEPT ![d] = FALSE]
    /\ fully' = [fully EXCEPT ![d] = @ \/ lvl[t]]
    /\ fresh' = [fresh EXCEPT ![d] = SatEnt(@ + got[t])]

(* ... or fails, and a reseed is asked for.                                *)
InjectFail(t) ==
    /\ force' = [force EXCEPT ![sd[t]] = TRUE]
    /\ UNCHANGED <<fully, requests, since, bits, fresh>>

SeedInject(t) ==
    /\ pc[t] = "inject"
    /\ InjectOk(t) \/ (SeedMayFail /\ InjectFail(t))
    /\ Goto(t, "initops")
    /\ UNCHANGED <<esVars, lock, mgrVars, seedVars, getVars, call, left>>

(* esdm_init_ops(): move the ESDM to its next seeding stage.               *)
InitOps(t) ==
    /\ pc[t] = "initops"
    /\ \/ /\ operational
          /\ Goto(t, "again")
          /\ UNCHANGED <<fullySeeded, minSeeded, thresh>>
       \/ /\ ~operational
          /\ fullySeeded \/ EnoughEntropy(allNodes, coll[t], eb[t])
          /\ fullySeeded' = TRUE
          /\ thresh' = InitEntropyLevel(allNodes)
          /\ Goto(t, "setop")
          /\ UNCHANGED minSeeded
       \/ /\ ~operational
          /\ ~fullySeeded /\ ~EnoughEntropy(allNodes, coll[t], eb[t])
          /\ UNCHANGED fullySeeded
          /\ IF ~minSeeded /\ coll[t] >= MIN_SEED
               THEN /\ minSeeded' = TRUE
                    /\ thresh' = InitEntropyLevel(allNodes)
                    /\ WakeAllGoto(t, "again")
               ELSE /\ thresh' = IF ~minSeeded /\ coll[t] >= INIT_ENT
                                   THEN MIN_SEED ELSE thresh
                    /\ Goto(t, "again")
                    /\ UNCHANGED minSeeded
    /\ UNCHANGED <<operational, allNodes, pool, shmOp, ent, drngVars, mgrVars,
                   seedVars, getVars, call, left>>

(* esdm_set_operational(): the flag and the wake-up ...                    *)
SetOperational(t) ==
    /\ pc[t] = "setop"
    /\ operational' = (operational \/ fullySeeded)
    /\ minSeeded' = TRUE
    /\ IF fullySeeded THEN WakeAllGoto(t, "shmop") ELSE Goto(t, "again")
    /\ UNCHANGED <<fullySeeded, allNodes, thresh, pool, shmOp, ent, drngVars,
                   mgrVars, seedVars, getVars, call, left>>

(* ... and its copy in the shared memory, once that exists.                *)
ShmSetOperational(t) ==
    /\ pc[t] = "shmop"
    /\ shmOp' = (shmOp \/ booted)
    /\ Goto(t, "again")
    /\ UNCHANGED <<operational, fullySeeded, minSeeded, allNodes, thresh,
                   pool, ent, drngVars, mgrVars, seedVars, getVars, call, left>>

(* The emergency loop: go on while entropy comes and more is needed.       *)
SeedMore(t) == forced[t] /\ ~fully[sd[t]] /\ again[t]
SeedAgain(t) ==
    /\ pc[t] = "again" /\ SeedMore(t)
    /\ Goto(t, "fill")
    /\ UNCHANGED <<esVars, drngVars, mgrVars, seedVars, getVars, call, left>>

(* The end of esdm_drng_seed_es(): unlock the DRNG.                        *)
SeedUnlockDrng(t) ==
    /\ pc[t] = "again" /\ ~SeedMore(t) /\ sk[t] # "pr"
    /\ lock' = [lock EXCEPT ![sd[t]] = None]
    /\ Goto(t, IF sk[t] = "work" THEN "workout" ELSE "punlock")
    /\ SeedLeave(t)
    /\ UNCHANGED <<esVars, fully, force, requests, since, bits, fresh,
                   mgrVars, getVars, call, left>>

(* Bug variant of GetPoolUnlock: the pool stays locked.                    *)
BugGetKeepsPool(t) ==
    /\ pc[t] = "punlock"
    /\ Goto(t, "genlock")
    /\ UNCHANGED <<esVars, drngVars, mgrVars, seedVars, getVars, call, left>>

(* The reseed of esdm_drng_get() is over.                                  *)
GetPoolUnlock(t) ==
    /\ pc[t] = "punlock"
    /\ pool' = None
    /\ Goto(t, "genlock")
    /\ UNCHANGED <<operational, fullySeeded, minSeeded, allNodes, thresh,
                   shmOp, ent, drngVars, mgrVars, seedVars, getVars, call,
                   left>>

-----------------------------------------------------------------------------
(* esdm_drng_get_sleep() and esdm_drng_get(): generate random numbers      *)

(* esdm_get_random_bytes_pr() allows one call in flight.                   *)
PrTryLock(t) ==
    /\ pc[t] = "prlock"
    /\ IF prLock = None THEN prLock' = t /\ Goto(t, "pick")
                        ELSE UNCHANGED prLock /\ Goto(t, "ret")
    /\ UNCHANGED <<esVars, drngVars, seedLock, published, booted, seedVars,
                   getVars, call, left>>

(* Choose the DRNG: the one of the current node when it is fully seeded.   *)
PickDrng(t) ==
    /\ pc[t] = "pick"
    /\ \E n \in {"init"} \cup NodeDrngs :
         dr' = [dr EXCEPT ![t] = IF call[t] \in PrCalls THEN "pr"
                                 ELSE IF published /\ fully[n] THEN n
                                 ELSE "init"]
    /\ Goto(t, "check")
    /\ UNCHANGED <<esVars, drngVars, mgrVars, seedVars, uk, idx, todo, call,
                   left>>

(* Too long without a full reseed: the DRNG is unseeded from now on.       *)
CheckDisable(t) ==
    /\ pc[t] = "check"
    /\ IF DisableThreshold(dr[t])
         THEN uk' = [uk EXCEPT ![t] = "check"] /\ Goto(t, "unset")
         ELSE UNCHANGED uk /\ Goto(t, "loop")
    /\ UNCHANGED <<esVars, drngVars, mgrVars, seedVars, dr, idx, todo, call,
                   left>>

(* The head of the loop with esdm_drng_must_reseed(); the reseed timer may *)
(* have expired at any time.                                               *)
GetLoop(t) ==
    /\ pc[t] = "loop"
    /\ LET d == dr[t]
           counted == MaxOf(requests[d] - 1, MinRequests)
           must == \/ counted = 0
                   \/ force[d]
                   \/ THRESH_BITS # 0 /\ bits[d] >= THRESH_BITS
       IN IF d = "pr"
            THEN Goto(t, "genlock") /\ UNCHANGED requests
            ELSE /\ requests' = [requests EXCEPT ![d] = counted]
                 /\ \E expired \in BOOLEAN :
                      Goto(t, IF must \/ expired THEN "trypool"
                                                ELSE "genlock")
    /\ UNCHANGED <<esVars, fully, force, since, bits, lock, fresh, mgrVars,
                   seedVars, getVars, call, left>>

(* Reseed when the pool is free, else remember to do it the next time.     *)
GetTryPool(t) ==
    /\ pc[t] = "trypool"
    /\ IF pool = None
         THEN /\ pool' = t
              /\ sd' = [sd EXCEPT ![t] = dr[t]]
              /\ sk' = [sk EXCEPT ![t] = "get"]
              /\ Goto(t, "slock")
              /\ UNCHANGED force
         ELSE /\ force' = [force EXCEPT ![dr[t]] = TRUE]
              /\ Goto(t, "genlock")
              /\ UNCHANGED <<pool, sd, sk>>
    /\ UNCHANGED <<operational, fullySeeded, minSeeded, allNodes, thresh,
                   shmOp, ent, fully, requests, since, bits, lock, fresh,
                   mgrVars, forced, got, coll, eb, lvl, again, getVars, call,
                   left>>

(* Bug variant of GenLock: random numbers without the lock of the DRNG.    *)
BugGenNoLock(t) ==
    /\ pc[t] = "genlock"
    /\ todo' = [todo EXCEPT ![t] = STRENGTH]
    /\ Goto(t, IF dr[t] = "pr" /\ ~fully["pr"] THEN "prtry" ELSE "gen")
    /\ UNCHANGED <<esVars, drngVars, mgrVars, seedVars, dr, uk, idx, call, left>>

(* Lock the DRNG.  The prediction resistance DRNG delivers at most its     *)
(* security strength, and needs a seeding first when it has none.          *)
GenLock(t) ==
    /\ pc[t] = "genlock" /\ lock[dr[t]] = None
    /\ lock' = [lock EXCEPT ![dr[t]] = t]
    /\ todo' = [todo EXCEPT ![t] = STRENGTH]
    /\ Goto(t, IF dr[t] = "pr" /\ ~fully["pr"] THEN "prtry" ELSE "gen")
    /\ UNCHANGED <<esVars, fully, force, requests, since, bits, fresh,
                   mgrVars, seedVars, dr, uk, idx, call, left>>

PrTryPool(t) ==
    /\ pc[t] = "prtry"
    /\ IF pool = None
         THEN /\ pool' = t
              /\ sd' = [sd EXCEPT ![t] = "pr"]
              /\ sk' = [sk EXCEPT ![t] = "pr"]
              /\ SeedEnter(t, "pr")
              /\ Goto(t, "fill")
              /\ UNCHANGED lock
         ELSE /\ lock' = [lock EXCEPT !["pr"] = None]
              /\ Goto(t, "loop")
              /\ UNCHANGED <<pool, seedVars>>
    /\ UNCHANGED <<operational, fullySeeded, minSeeded, allNodes, thresh,
                   shmOp, ent, fully, force, requests, since, bits, fresh,
                   mgrVars, getVars, call, left>>

PrPoolUnlock(t) ==
    /\ pc[t] = "again" /\ ~SeedMore(t) /\ sk[t] = "pr"
    /\ pool' = None
    /\ Goto(t, "prcheck")
    /\ UNCHANGED <<operational, fullySeeded, minSeeded, allNodes, thresh,
                   shmOp, ent, drngVars, mgrVars, seedVars, getVars, call,
                   left>>

(* Bug variant of PrLimit: the early exit does not unlock the DRNG.        *)
BugPrExitLocked(t) ==
    /\ pc[t] = "prcheck"
    /\ Goto(t, IF coll[t] = 0 THEN "ret" ELSE "gen")
    /\ todo' = [todo EXCEPT ![t] = MinOf(coll[t], STRENGTH)]
    /\ SeedLeave(t)
    /\ UNCHANGED <<esVars, drngVars, mgrVars, dr, uk, idx, call, left>>

(* No more output than entropy was collected, and none without entropy.    *)
PrLimit(t) ==
    /\ pc[t] = "prcheck"
    /\ IF coll[t] = 0
         THEN /\ lock' = [lock EXCEPT !["pr"] = None]
              /\ Goto(t, "ret")
              /\ UNCHANGED todo
         ELSE /\ todo' = [todo EXCEPT ![t] = MinOf(coll[t], STRENGTH)]
              /\ Goto(t, "gen")
              /\ UNCHANGED lock
    /\ SeedLeave(t)
    /\ UNCHANGED <<esVars, fully, force, requests, since, bits, fresh,
                   mgrVars, dr, uk, idx, call, left>>

(* drng_generate() and the unlock; it may fail.                            *)
Generate(t) ==
    /\ pc[t] = "gen"
    /\ lock' = [lock EXCEPT ![dr[t]] = None]
    /\ todo' = [todo EXCEPT ![t] = 0]
    /\ \/ /\ fresh' = [fresh EXCEPT ![dr[t]] = 0]
          /\ Goto(t, "post")
       \/ /\ Goto(t, "ret")
          /\ UNCHANGED fresh
    /\ UNCHANGED <<esVars, fully, force, requests, since, bits, mgrVars,
                   seedVars, dr, uk, idx, call, left>>

(* Bug variant of GetAccount: the prediction resistance DRNG stays seeded. *)
BugPrStaysSeeded(t) ==
    /\ pc[t] = "post"
    /\ bits' = [bits EXCEPT ![dr[t]] = MinOf(@ + 1, BitsCap)]
    /\ Goto(t, "more")
    /\ UNCHANGED <<esVars, fully, force, requests, since, lock, fresh,
                   mgrVars, seedVars, dr, uk, idx, todo, call, left>>

(* After the unlock: count the output; the prediction resistance DRNG is   *)
(* unseeded from now on.                                                   *)
GetAccount(t) ==
    /\ pc[t] = "post"
    /\ bits' = [bits EXCEPT ![dr[t]] = MinOf(@ + 1, BitsCap)]
    /\ IF dr[t] = "pr"
         THEN uk' = [uk EXCEPT ![t] = "post"] /\ Goto(t, "unset")
         ELSE UNCHANGED uk /\ Goto(t, "more")
    /\ UNCHANGED <<esVars, fully, force, requests, since, lock, fresh,
                   mgrVars, seedVars, dr, idx, todo, call, left>>

(* The request may want more than one generate call delivers.              *)
GetMore(t) ==
    /\ pc[t] = "more"
    /\ \E l \in {"ret", "loop"} : Goto(t, l)
    /\ UNCHANGED <<esVars, drngVars, mgrVars, seedVars, getVars, call, left>>

-----------------------------------------------------------------------------
(* esdm_unset_fully_seeded(): without any lock, one store after the other  *)

UnsetDrng(t) ==
    /\ pc[t] = "unset"
    /\ fully' = [fully EXCEPT ![dr[t]] = FALSE]
    /\ Goto(t, "unset_all")
    /\ UNCHANGED <<esVars, force, requests, since, bits, lock, fresh, mgrVars,
                   seedVars, getVars, call, left>>

UnsetAllNodes(t) ==
    /\ pc[t] = "unset_all"
    /\ allNodes' = FALSE
    /\ Goto(t, IF dr[t] = "init" THEN "unset_op" ELSE "force")
    /\ UNCHANGED <<operational, fullySeeded, minSeeded, thresh, pool, shmOp,
                   ent, drngVars, mgrVars, seedVars, getVars, call, left>>

UnsetOperational(t) ==
    /\ pc[t] = "unset_op"
    /\ operational' = FALSE
    /\ Goto(t, IF operational THEN "unset_full" ELSE "force")
    /\ UNCHANGED <<fullySeeded, minSeeded, allNodes, thresh, pool, shmOp, ent,
                   drngVars, mgrVars, seedVars, getVars, call, left>>

UnsetFullySeeded(t) ==
    /\ pc[t] = "unset_full"
    /\ fullySeeded' = FALSE
    /\ Goto(t, "unset_shm")
    /\ UNCHANGED <<operational, minSeeded, allNodes, thresh, pool, shmOp, ent,
                   drngVars, mgrVars, seedVars, getVars, call, left>>

UnsetShm(t) ==
    /\ pc[t] = "unset_shm"
    /\ shmOp' = FALSE
    /\ Goto(t, "force")
    /\ UNCHANGED <<operational, fullySeeded, minSeeded, allNodes, thresh,
                   pool, ent, drngVars, mgrVars, seedVars, getVars, call, left>>

(* esdm_es_mgr_monitor_wakeup(), the end of esdm_unset_fully_seeded()      *)
MonitorWakeup(t) ==
    /\ pc[t] = "monwake"
    /\ pc' = [u \in Threads |->
                IF u = t THEN (IF uk[t] = "check" THEN "loop" ELSE "more")
                ELSE IF pc[u] = "monasleep" THEN "wanted" ELSE pc[u]]
    /\ uk' = [uk EXCEPT ![t] = "none"]
    /\ UNCHANGED <<esVars, drngVars, mgrVars, seedVars, dr, idx, todo, call,
                   left>>

(* esdm_drng_force_reseed()                                                *)
ForceReseed(t) ==
    /\ pc[t] = "freseed"
    /\ force' = [d \in Drngs |->
         IF d = "init" \/ (published /\ ~DisableThreshold("init")
                            /\ d \in NodeDrngs)
           THEN fully[d] ELSE force[d]]
    /\ Goto(t, "ret")
    /\ UNCHANGED <<esVars, fully, requests, since, bits, lock, fresh, mgrVars,
                   seedVars, getVars, call, left>>

-----------------------------------------------------------------------------
(* esdm_get_seed(): hand a seed buffer to the caller                       *)

(* One caller at any time; it first forces the seeding of all DRNGs.       *)
GetSeedTryLock(t) ==
    /\ pc[t] = "seedlock"
    /\ IF seedLock = None THEN seedLock' = t /\ Goto(t, "force")
                          ELSE UNCHANGED seedLock /\ Goto(t, "ret")
    /\ UNCHANGED <<esVars, drngVars, prLock, published, booted, seedVars,
                   getVars, call, left>>

GetSeedPoolLock(t) ==
    /\ pc[t] = "gs_lock" /\ pool = None
    /\ pool' = t
    /\ Goto(t, "gs_check")
    /\ UNCHANGED <<operational, fullySeeded, minSeeded, allNodes, thresh,
                   shmOp, ent, drngVars, mgrVars, seedVars, getVars, call,
                   left>>

(* A DRNG that became unseeded takes precedence.                           *)
GetSeedCheck(t) ==
    /\ pc[t] = "gs_check"
    /\ Goto(t, IF allNodes THEN "gs_fill" ELSE "gs_unlock")
    /\ UNCHANGED <<esVars, drngVars, mgrVars, seedVars, getVars, call, left>>

(* Bug variant of GetSeedFill: the loop ignores a DRNG become unseeded.    *)
BugGetSeedInsists(t) ==
    /\ pc[t] = "gs_fill"
    /\ \E full \in BOOLEAN, ok \in IF EsMayFail THEN SUBSET Es ELSE {Es} :
         /\ ent' = FillLeft(FALSE, Osr(full))
         /\ Goto(t, IF \/ TotalEnt(FillGot(FALSE, Osr(full), ok)) > 0
                       \/ call[t] = "get_seed_noblock"
                      THEN "gs_unlock" ELSE "gs_fill")
    /\ UNCHANGED <<operational, fullySeeded, minSeeded, allNodes, thresh,
                   pool, shmOp, drngVars, mgrVars, seedVars, getVars, call,
                   left>>

(* One round of the polling loop, for either value of the flag             *)
(* ESDM_GET_SEED_FULLY_SEEDED.                                             *)
GetSeedFill(t) ==
    /\ pc[t] = "gs_fill"
    /\ \E full \in BOOLEAN, ok \in IF EsMayFail THEN SUBSET Es ELSE {Es} :
         /\ ent' = FillLeft(FALSE, Osr(full))
         /\ Goto(t, IF \/ TotalEnt(FillGot(FALSE, Osr(full), ok)) > 0
                       \/ ~allNodes
                       \/ call[t] = "get_seed_noblock"
                      THEN "gs_unlock" ELSE "gs_fill")
    /\ UNCHANGED <<operational, fullySeeded, minSeeded, allNodes, thresh,
                   pool, shmOp, drngVars, mgrVars, seedVars, getVars, call,
                   left>>

GetSeedPoolUnlock(t) ==
    /\ pc[t] = "gs_unlock"
    /\ pool' = None
    /\ Goto(t, "ret")
    /\ UNCHANGED <<operational, fullySeeded, minSeeded, allNodes, thresh,
                   shmOp, ent, drngVars, mgrVars, seedVars, getVars, call,
                   left>>

-----------------------------------------------------------------------------
(* The state after esdm_drng_mgr_initialize(): both DRNGs are reset, and   *)
(* esdm_es_mgr_initialize() is about to seed them.                         *)
Init ==
    /\ EsInit
    /\ pool = None
    /\ fully = [d \in Drngs |-> FALSE]
    /\ force = [d \in Drngs |-> FALSE]
    /\ requests = [d \in Drngs |-> 1]
    /\ since = [d \in Drngs |-> 0]
    /\ bits = [d \in Drngs |-> 0]
    /\ lock = [d \in Drngs |-> None]
    /\ fresh = [d \in Drngs |-> 0]
    /\ prLock = None /\ seedLock = None
    /\ published = FALSE /\ booted = FALSE
    /\ pc = [t \in Threads |-> IF t = BootThread THEN "force" ELSE "idle"]
    /\ call = [t \in Threads |-> IF t = BootThread THEN "boot" ELSE "none"]
    /\ left = MaxCalls
    /\ dr = [t \in Threads |-> "init"]
    /\ sd = [t \in Threads |-> "init"]
    /\ sk = [t \in Threads |-> "work"]
    /\ uk = [t \in Threads |-> "none"]
    /\ idx = [t \in Threads |-> 1]
    /\ forced = [t \in Threads |-> FALSE]
    /\ got = [t \in Threads |-> 0]
    /\ coll = [t \in Threads |-> 0]
    /\ eb = [t \in Threads |-> NoEnt]
    /\ lvl = [t \in Threads |-> FALSE]
    /\ again = [t \in Threads |-> FALSE]
    /\ todo = [t \in Threads |-> 0]

WaitStep(t) ==
    \/ ForceFullySeeded(t) \/ SleepGate(t) \/ WaitTest(t) \/ CondWait(t)
    \/ Return(t)
WorkStep(t) ==
    \/ PoolLock(t) \/ SeedWorkScan(t) \/ SeedWorkAllSeeded(t) \/ SeedWorkOut(t)
    \/ AddEntropyWanted(t) \/ AddEntropyTryLock(t)
    \/ MonitorCheck(t) \/ MonitorSleep(t) \/ NodeAlloc(t) \/ ShmStatusInit(t)
SeedStep(t) ==
    \/ SeedLockDrng(t) \/ SeedFill(t) \/ SeedEval(t) \/ SeedInject(t)
    \/ InitOps(t) \/ SetOperational(t) \/ ShmSetOperational(t)
    \/ SeedAgain(t) \/ SeedUnlockDrng(t) \/ GetPoolUnlock(t)
GetStep(t) ==
    \/ PrTryLock(t) \/ PickDrng(t) \/ CheckDisable(t) \/ GetLoop(t)
    \/ GetTryPool(t) \/ GenLock(t) \/ PrTryPool(t) \/ PrPoolUnlock(t)
    \/ PrLimit(t) \/ Generate(t) \/ GetAccount(t) \/ GetMore(t)
UnsetStep(t) ==
    \/ UnsetDrng(t) \/ UnsetAllNodes(t) \/ UnsetOperational(t)
    \/ UnsetFullySeeded(t) \/ UnsetShm(t) \/ MonitorWakeup(t)
    \/ ForceReseed(t)
GetSeedStep(t) ==
    \/ GetSeedTryLock(t) \/ GetSeedPoolLock(t) \/ GetSeedCheck(t)
    \/ GetSeedFill(t) \/ GetSeedPoolUnlock(t)

(* One step of the call t is in.                                           *)
Step(t) == \/ WaitStep(t) \/ WorkStep(t) \/ SeedStep(t) \/ GetStep(t)
           \/ UnsetStep(t) \/ GetSeedStep(t)

Arrive == /\ \E e \in Es : EsArrive(e)
          /\ UNCHANGED <<drngVars, mgrVars, seedVars, getVars, ctlVars>>

Next == \/ \E t \in Threads : StartCall(t) \/ WaitTimeout(t) \/ Step(t)
        \/ Arrive

Spec == Init /\ [][Next]_vars

-----------------------------------------------------------------------------
(* Fairness: a thread that can run is scheduled, a timeout expires, a      *)
(* request asks for a finite number of bytes, and a thread blocked on a    *)
(* mutex gets it if it becomes free again and again.  The last is needed:  *)
(* PrTryPool releases and retakes the lock of the DRNG in a busy loop that *)
(* SeedLockDrng has to get in between.  Nothing is assumed of entropy      *)
(* arriving or of clients making calls.                                    *)
Fairness ==
    \A t \in Threads :
        /\ WF_vars(Step(t))
        /\ WF_vars(WaitTimeout(t))
        /\ SF_vars(GetMore(t) /\ pc'[t] = "ret")
        /\ SF_vars(PoolLock(t) \/ SeedLockDrng(t) \/ GenLock(t)
                     \/ GetSeedPoolLock(t))

FairSpec == Spec /\ Fairness

-----------------------------------------------------------------------------
(* The sections of code that hold a lock                                   *)

SeedPcs == {"fill", "eval", "inject", "initops", "setop", "shmop", "again"}
InPool(t) == pc[t] \in SeedPcs \cup {"scan", "workout", "slock", "punlock",
                                     "gs_check", "gs_fill", "gs_unlock"}
Seeding(t, d) == pc[t] \in SeedPcs /\ sd[t] = d
Generating(t, d) == pc[t] \in {"prtry", "prcheck", "gen"} /\ dr[t] = d

AllPcs == SeedPcs \cup
    {"idle", "force", "gate", "recheck", "towait", "asleep", "ret", "plock",
     "scan", "workout", "wanted", "tryadd", "moncheck", "montowait",
     "monasleep", "nodealloc", "shminit", "slock", "punlock", "prlock",
     "pick", "check", "loop", "trypool", "genlock", "prtry", "prcheck",
     "gen", "post", "more", "unset", "unset_all", "unset_op", "unset_full",
     "unset_shm", "monwake", "freseed", "seedlock", "gs_lock", "gs_check",
     "gs_fill", "gs_unlock"}

DrngTypeOK ==
    /\ fully \in [Drngs -> BOOLEAN] /\ force \in [Drngs -> BOOLEAN]
    /\ requests \in [Drngs -> MinRequests..RESEED_THRESH]
    /\ since \in [Drngs -> 0..MAX_WO_RESEED]
    /\ bits \in [Drngs -> 0..BitsCap]
    /\ lock \in [Drngs -> Threads \cup {None}]
    /\ fresh \in [Drngs -> 0..CollCap]
MgrTypeOK ==
    /\ prLock \in Threads \cup {None} /\ seedLock \in Threads \cup {None}
    /\ published \in BOOLEAN /\ booted \in BOOLEAN
SeedTypeOK ==
    /\ sd \in [Threads -> Drngs]
    /\ sk \in [Threads -> {"work", "get", "pr"}]
    /\ forced \in [Threads -> BOOLEAN]
    /\ got \in [Threads -> 0..CollCap] /\ coll \in [Threads -> 0..CollCap]
    /\ eb \in [Threads -> [Es -> 0..CollCap]]
    /\ lvl \in [Threads -> BOOLEAN] /\ again \in [Threads -> BOOLEAN]
GetTypeOK ==
    /\ dr \in [Threads -> Drngs]
    /\ uk \in [Threads -> {"none", "check", "post"}]
    /\ idx \in [Threads -> 1..(Len(NodeSeq) + 3)]
    /\ todo \in [Threads -> 0..STRENGTH]
CtlTypeOK ==
    /\ pc \in [Threads -> AllPcs]
    /\ call \in [Threads -> ApiCalls \cup {"boot", "none"}]
    /\ left \in [Threads -> Nat]

(* Type invariant of the DRNG manager and the entropy source manager: the  *)
(* counters stay in their ranges, and no step takes a thread to a place    *)
(* the code does not have.                                                 *)
TypeOK ==
    /\ EsTypeOK /\ pool \in Threads \cup {None}
    /\ DrngTypeOK /\ MgrTypeOK /\ SeedTypeOK /\ GetTypeOK /\ CtlTypeOK

(* The comment at esdm_pool_trylock(): "Reading of the ESDM pool is only   *)
(* allowed by one caller."  At most one thread is between the lock and the *)
(* unlock of the pool, on every path that takes it (work, reseed in get,   *)
(* prediction resistance, get_seed), and no thread leaves a call owning it.*)
PoolExclusive ==
    /\ \A t, u \in Threads : InPool(t) /\ InPool(u) => t = u
    /\ pool # None => InPool(pool)

(* The comment in esdm_drng_seed_es_nolock(): the seeding loop may add up  *)
(* entropy since "the entire operation is atomic which means that the DRNG *)
(* is not producing data while this is ongoing".                           *)
SeedingAtomic ==
    \A t, u \in Threads, d \in Drngs :
        /\ Seeding(t, d) /\ Seeding(u, d) => t = u
        /\ ~(Seeding(t, d) /\ Generating(u, d))

(* "only deliver as much data as received entropy": what the prediction    *)
(* resistance DRNG is about to generate is covered by entropy seeded into  *)
(* it since it generated last.                                             *)
PrBudget ==
    \A t \in Threads :
        pc[t] = "gen" /\ dr[t] = "pr" => todo[t] <= fresh["pr"]

(* A DRNG only becomes fully seeded when it received, since it last        *)
(* produced data, at least the entropy demanded of an initial seeding.     *)
SeededEarned ==
    [][\A d \in Drngs : ~fully[d] /\ fully'[d] => fresh'[d] >= Osr(FALSE)]_vars

(* No call is between its entry and its return, but for sleeping ones.     *)
Quiescent == \A t \in Threads : pc[t] \in {"idle", "asleep", "monasleep"}

(* "ESDM is operational if the initial DRNG is fully seeded", read as the  *)
(* code is meant: once all calls are over, the ESDM does not count as      *)
(* operational while its fall-back DRNG is not fully seeded.               *)
OperationalInitSeeded == Quiescent /\ operational => fully["init"]

(* The calls that may wait for entropy.                                    *)
MayBlock == {"full", "min", "pr", "get_seed", "monitor"}

(* Every call that does not wait for entropy returns, whatever the other   *)
(* threads do: neither the locks nor the retry loop of esdm_drng_get()     *)
(* keep it.                                                                *)
EveryCallReturns ==
    \A t \in Threads : pc[t] # "idle" /\ call[t] \notin MayBlock
                        ~> pc[t] = "idle"

(* esdm_get_seed() polls the entropy sources with the pool locked; it does *)
(* not keep the lock from a DRNG that became unseeded.                     *)
GetSeedYields ==
    \A t \in Threads : pc[t] = "gs_fill" /\ ~allNodes ~> pool # t
=============================================================================
