------------------------------ MODULE EsdmEsAux ------------------------------
(***************************************************************************)
(* The auxiliary entropy pool, esdm/esdm_es_aux.c, with the RPC handlers   *)
(* that change its entropy counter and an entropy provider that sleeps in  *)
(* frontends/aux-client/esdm_aux_need_entropy.c until the server asks.     *)
(*                                                                         *)
(* The counter is an atomic variable.  Inserting and extracting hold       *)
(* esdm_pool.lock, the handlers of RNDADDTOENTCNT and RNDCLEARPOOL do not. *)
(* Every change of the counter ends in EsdmShmStatus.                      *)
(***************************************************************************)
EXTENDS EsdmShmStatus, Integers

CONSTANTS
    Provider,           \* the thread that serves the entropy provider
    AuxOps,             \* the operations each other thread is called for
    DIGEST,             \* esdm_get_digestsize(): the capacity of the pool
    OSR,                \* esdm_compress_osr()
    WAKEUP,             \* esdm_write_wakeup_bits
    WORD,               \* 2^32 in the code: the counters are uint32_t
    Amounts,            \* entropy a caller may claim
    Requests,           \* entropy a reseed may ask for
    None                \* no thread

ASSUME AuxAssumption ==
    /\ Provider \in Server /\ None \notin Server
    /\ \A t \in Server \ {Provider} :
          AuxOps[t] \subseteq {"add", "get", "addcnt", "clear"}
    /\ DIGEST \in Nat /\ OSR \in Nat /\ WAKEUP \in Nat
    /\ Amounts \subseteq Nat /\ Requests \subseteq Nat
    /\ WORD \in Nat /\ \A n \in Amounts : n + DIGEST < WORD

VARIABLES
    aux,                \* esdm_pool.aux_entropy_bits
    initialized,        \* esdm_pool.initialized
    lock,               \* holder of esdm_pool.lock
    apc, op, amt, val,  \* place, operation, argument and local of a thread
    ledger,             \* history: credited by callers, not yet delivered
    raced               \* history: a reseed overlapped RNDADDTOENTCNT

auxVars == <<aux, initialized, lock, apc, op, amt, val, ledger, raced>>
vars == <<auxVars, shmVars>>

LeastOf(a, b) == IF a <= b THEN a ELSE b

(* esdm_reduce_by_osr(), esdm_aux_avail_entropy(), esdm_need_entropy()     *)
ReduceByOsr(n) == IF n >= OSR THEN n - OSR ELSE 0
AuxAvail == ReduceByOsr(LeastOf(DIGEST, aux))
NeedEntropy == AuxAvail < WAKEUP

(* The history counter is only compared with aux, which stays below the    *)
(* bound, so it may saturate there; once overdrawn it stays so.            *)
LedgerCap == 2 * DIGEST
Overdrawn == -1
Credit(n) == ledger' = IF ledger = Overdrawn
                         THEN ledger ELSE LeastOf(ledger + n, LedgerCap)
Deliver(n) == ledger' = IF ledger < n THEN Overdrawn ELSE ledger - n

Goto(t, l) == apc' = [apc EXCEPT ![t] = l]

(* The thread returned from its operation, the telling included.           *)
Free(t) == apc[t] = "idle" /\ spc[t] = "out"

(* The operation has changed the pool and only has to tell of it.          *)
Finish(t) == Goto(t, "idle") /\ op' = [op EXCEPT ![t] = "none"]

(* A caller's request reaches the server.  Only one thread reseeds at a    *)
(* time, it holds esdm_state.reseed_in_progress.                           *)
Start(t) ==
    /\ Free(t) /\ t # Provider
    /\ \E o \in AuxOps[t] :
         /\ o = "get" => \A u \in Server : op[u] # "get"
         /\ op' = [op EXCEPT ![t] = o]
         /\ \E n \in (IF o = "get" THEN Requests
                      ELSE IF o = "clear" THEN {0} ELSE Amounts) :
              amt' = [amt EXCEPT ![t] = n]
         /\ Goto(t, IF o \in {"add", "get"} THEN "lock"
                    ELSE IF o = "addcnt" THEN "count" ELSE "set")
    /\ UNCHANGED <<aux, initialized, lock, val, ledger, raced, shmVars>>

(* The provider calls esdm_aux_timedwait_for_need_entropy(): it goes on at *)
(* once when the flag is up, else when the semaphore could be lowered or   *)
(* the time is over, and then adds entropy.                                *)
ProviderGive(t) ==
    /\ op' = [op EXCEPT ![t] = "add"]
    /\ \E n \in Amounts : amt' = [amt EXCEPT ![t] = n]
    /\ Goto(t, "lock")

ProviderCheck(t) ==
    /\ Free(t) /\ t = Provider
    /\ IF shmNeed THEN ProviderGive(t)
                  ELSE Goto(t, "wait") /\ UNCHANGED <<op, amt>>
    /\ UNCHANGED <<aux, initialized, lock, val, ledger, raced, shmVars>>

ProviderWoken(t) ==
    /\ apc[t] = "wait" /\ sem["level"] > 0
    /\ sem' = [sem EXCEPT !["level"] = @ - 1]
    /\ ProviderGive(t)
    /\ UNCHANGED <<aux, initialized, lock, val, ledger, raced,
                   shmNeed, shmOper, suspend, spc, curr, new, ups>>

ProviderTimeout(t) ==
    /\ apc[t] = "wait"
    /\ ProviderGive(t)
    /\ UNCHANGED <<aux, initialized, lock, val, ledger, raced, shmVars>>

(* mutex_w_lock(&pool->lock) of esdm_pool_insert_aux() and                 *)
(* esdm_aux_get_backtrack().                                               *)
Lock(t) ==
    /\ apc[t] = "lock" /\ lock = None
    /\ lock' = t
    /\ Goto(t, IF op[t] = "get" THEN "take" ELSE "insert")
    /\ UNCHANGED <<aux, initialized, op, amt, val, ledger, raced, shmVars>>

(* Bug variant of GetTake: the counter is read and not exchanged.          *)
BugGetRead(t) ==
    /\ apc[t] = "take"
    /\ IF initialized
         THEN /\ val' = [val EXCEPT ![t] = LeastOf(DIGEST, aux)]
              /\ Goto(t, "return")
         ELSE Goto(t, "insert") /\ UNCHANGED val
    /\ raced' = (raced \/ \E u \in Server : op[u] = "addcnt" /\ apc[u] = "set")
    /\ UNCHANGED <<aux, initialized, lock, op, amt, ledger, shmVars>>

(* esdm_aux_get_pool(): the whole counter is taken ...                     *)
GetTake(t) ==
    /\ apc[t] = "take"
    /\ IF initialized
         THEN /\ aux' = 0
              /\ val' = [val EXCEPT ![t] = LeastOf(DIGEST, aux)]
              /\ raced' = (raced \/ \E u \in Server :
                                       op[u] = "addcnt" /\ apc[u] = "set")
              /\ Goto(t, "return")
         ELSE Goto(t, "insert") /\ UNCHANGED <<aux, val, raced>>
    /\ UNCHANGED <<initialized, lock, op, amt, ledger, shmVars>>

(* ... and what was not asked for is put back.  The rest is delivered,     *)
(* unless the hash fails.                                                  *)
GetReturn(t) ==
    /\ apc[t] = "return"
    /\ LET want == LeastOf(amt[t], DIGEST) + OSR
           coll == LeastOf(val[t], want)
       IN  /\ aux' = aux + (val[t] - coll)
           /\ \E ok \in BOOLEAN : Deliver(IF ok THEN ReduceByOsr(coll) ELSE 0)
    /\ val' = [val EXCEPT ![t] = 0]
    /\ Goto(t, "insert")
    /\ UNCHANGED <<initialized, lock, op, amt, raced, shmVars>>

(* esdm_aux_pool_insert_locked(): mix data into the pool; the counter is   *)
(* read here and written by SetEntropy.  The extracted data is mixed back  *)
(* without credit.                                                         *)
Insert(t) ==
    /\ apc[t] = "insert"
    /\ \/ LET n == IF op[t] = "get" THEN 0 ELSE amt[t]
          IN  /\ initialized' = TRUE
              /\ val' = [val EXCEPT ![t] = LeastOf(n + aux, DIGEST)]
              /\ Credit(n)
              /\ Goto(t, "set")
       \/ /\ initialized' \in {initialized, TRUE}    \* hash_init, hash_update
          /\ Goto(t, "unlock")
          /\ UNCHANGED <<val, ledger>>
    /\ amt' = [amt EXCEPT ![t] = 0]
    /\ UNCHANGED <<aux, lock, op, raced, shmVars>>

(* esdm_rpc_rnd_add_to_ent_cnt(): the available entropy is read, without   *)
(* esdm_pool.lock, and the sum is written by SetEntropy.                   *)
CountRead(t) ==
    /\ apc[t] = "count"
    /\ val' = [val EXCEPT ![t] = LeastOf((AuxAvail + amt[t]) % WORD, DIGEST)]
    /\ Credit(amt[t])
    /\ amt' = [amt EXCEPT ![t] = 0]
    /\ Goto(t, "set")
    /\ UNCHANGED <<aux, initialized, lock, op, raced, shmVars>>

(* esdm_pool_set_entropy(); esdm_rpc_rnd_clear_pool() calls it with 0.     *)
SetEntropy(t) ==
    /\ apc[t] = "set"
    /\ aux' = IF op[t] = "clear" THEN 0 ELSE val[t]
    /\ val' = [val EXCEPT ![t] = 0]
    /\ ShmGoto(t, "need")
    /\ IF op[t] \in {"add", "get"} THEN Goto(t, "unlock") /\ UNCHANGED op
                                    ELSE Finish(t)
    /\ UNCHANGED <<initialized, lock, amt, ledger, raced,
                   shmNeed, shmOper, suspend, sem, curr, new, ups>>

(* The lock is left and the status told again: at the end of               *)
(* esdm_pool_insert_aux(), or by the esdm_writer_wakeup() that ends        *)
(* esdm_fill_seed_buffer().                                                *)
Unlock(t) ==
    /\ apc[t] = "unlock" /\ spc[t] = "out"
    /\ lock' = None
    /\ ShmGoto(t, "need")
    /\ Finish(t)
    /\ UNCHANGED <<aux, initialized, amt, val, ledger, raced,
                   shmNeed, shmOper, suspend, sem, curr, new, ups>>

(* A thread inside esdm_shm_status_set_need_entropy().                     *)
ShmStep(t) == NeedStep(t, NeedEntropy) /\ UNCHANGED auxVars

Init ==
    /\ ShmInit
    /\ aux = 0 /\ initialized = FALSE /\ lock = None
    /\ apc = [t \in Server |-> "idle"] /\ op = [t \in Server |-> "none"]
    /\ amt = [t \in Server |-> 0] /\ val = [t \in Server |-> 0]
    /\ ledger = 0 /\ raced = FALSE

Next ==
    \E t \in Server :
      \/ Start(t)
      \/ ProviderCheck(t) \/ ProviderWoken(t) \/ ProviderTimeout(t)
      \/ Lock(t) \/ GetTake(t) \/ GetReturn(t) \/ Insert(t) \/ CountRead(t)
      \/ SetEntropy(t) \/ Unlock(t) \/ ShmStep(t)

Spec == Init /\ [][Next]_vars

-----------------------------------------------------------------------------
(* The counters stay in their ranges; only the overlap of a reseed with an *)
(* unlocked update may leave more than DIGEST, never twice as much.        *)
AuxTypeOK ==
    /\ ShmTypeOK
    /\ aux \in 0..(2 * DIGEST) /\ ledger \in Overdrawn..LedgerCap
    /\ lock \in Server \cup {None}
    /\ initialized \in BOOLEAN /\ raced \in BOOLEAN
    /\ apc \in [Server -> {"idle", "wait", "lock", "take", "return", "insert",
                           "count", "set", "unlock"}]
    /\ op \in [Server -> {"none", "add", "get", "addcnt", "clear"}]
    /\ amt \in [Server -> Amounts \cup Requests \cup {0}]
    /\ val \in [Server -> 0..DIGEST]

(* Entropy is used once: what the pool claims to hold was credited by      *)
(* callers and not yet delivered to a reseed - insertions, extractions and *)
(* clearing may interleave in any way.  The one exception is the update of *)
(* esdm_rpc_rnd_add_to_ent_cnt(), which reads the counter before a reseed  *)
(* takes it and writes it back afterwards.                                 *)
EntropyOnce == raced \/ aux <= ledger

(* A sleeping provider is not forgotten: when no operation is under way    *)
(* and the pool is low, the level semaphore lets the provider go on, even  *)
(* though the flag in the segment may be stale.                            *)
ProviderTold ==
    (/\ apc[Provider] = "wait" /\ NeedEntropy
     /\ \A t \in Server \ {Provider} : Free(t))
      => sem["level"] > 0
=============================================================================
