------------------------- MODULE EsdmSourcesProofs --------------------------
(***************************************************************************)
(* The proofs about the sources of libesdm beside the Jitter RNG, for any  *)
(* number of threads, any sizes, rates and amounts. The auxiliary pool     *)
(* (EsdmEsAux) never claims entropy twice and a waiting entropy provider   *)
(* is told of a low pool; the clients of the kernel module                 *)
(* (EsdmEsKernelClient) honour the size of a request and cap the kernel    *)
(* RNG; and the fast sources (EsdmEsFast) earn what they credit.           *)
(***************************************************************************)
EXTENDS EsdmEsAux, TLAPS

-----------------------------------------------------------------------------
(* The auxiliary pool                                                      *)

(* The thread is between mutex_w_lock() and mutex_w_unlock().              *)
Holds(t) ==
    \/ apc[t] \in {"take", "return", "insert", "unlock"}
    \/ apc[t] = "set" /\ op[t] \in {"add", "get"}

(* The place of a thread goes with its operation, the lock is held where   *)
(* the code holds it, and the status is told only when the pool is left.   *)
PlaceInv ==
    \A t \in Server :
      /\ apc[t] \in {"idle", "wait"} => op[t] = "none"
      /\ apc[t] \in {"lock", "insert", "unlock"} => op[t] \in {"add", "get"}
      /\ apc[t] \in {"take", "return"} => op[t] = "get"
      /\ apc[t] = "set" => op[t] # "none"
      /\ apc[t] = "count" => op[t] = "addcnt" /\ amt[t] \in Amounts
      /\ Holds(t) => lock = t
      /\ apc[t] = "return" => aux <= DIGEST
      /\ spc[t] = "out" \/ apc[t] \in {"idle", "unlock"}
      /\ spc[t] \in {"up", "post"} => ups[t] # <<>>

StateInv == AuxTypeOK /\ PlaceInv

(* The operations of the pool, without the telling.                        *)
Pool(t) ==
    \/ Start(t) \/ ProviderCheck(t) \/ ProviderWoken(t) \/ ProviderTimeout(t)
    \/ Lock(t) \/ GetTake(t) \/ GetReturn(t) \/ Insert(t) \/ CountRead(t)
    \/ SetEntropy(t) \/ Unlock(t)

(* The thread has read the counter and is about to write its value.        *)
Writes(t) == apc[t] = "set" /\ op[t] # "clear"

(* Both the counter and every value that is about to replace it are        *)
(* backed by the ledger; while a reseed has taken the counter and not put  *)
(* the rest back, together with what it took.                              *)
CoverInv ==
    ~raced =>
      /\ aux <= ledger
      /\ \A t \in Server : Writes(t) => val[t] <= ledger
      /\ \A h \in Server : apc[h] = "return" =>
           /\ aux + val[h] <= ledger
           /\ \A t \in Server : Writes(t) => val[t] + val[h] <= ledger

(* The semaphore the thread is still to raise is the provider's.           *)
RaisesLevel(t) == \E i \in DOMAIN ups[t] : ups[t][i] = "level"

(* The thread has something to tell, or will look at the pool once more.   *)
WillTell(t) ==
    \/ apc[t] \notin {"idle", "wait"}
    \/ spc[t] \in {"need", "test"}
    \/ spc[t] = "store" /\ new[t]
    \/ spc[t] \in {"up", "post"} /\ RaisesLevel(t)

(* When the pool is low the semaphore is up or somebody will see to it.    *)
TellInv == NeedEntropy => sem["level"] > 0 \/ \E t \in Server : WillTell(t)

-----------------------------------------------------------------------------

(* esdm_reduce_by_osr() takes no more than there is.                       *)
LEMMA ReduceFacts ==
    ASSUME NEW n \in Nat
    PROVE  ReduceByOsr(n) \in Nat /\ ReduceByOsr(n) <= n
BY AuxAssumption DEF ReduceByOsr

(* A remainder is no larger than the number.                               *)
LEMMA ModFacts ==
    ASSUME NEW n \in Nat, NEW w \in Nat, n < w
    PROVE  n % w = n
OBVIOUS

(* What the proofs below need of the types.                                *)
LEMMA TypeFacts ==
    ASSUME AuxTypeOK
    PROVE  /\ aux \in Nat /\ aux <= 2 * DIGEST /\ DIGEST \in Nat /\ OSR \in Nat
           /\ ledger \in Int /\ ledger <= 2 * DIGEST
           /\ sem["level"] \in Nat
           /\ \A t \in Server : /\ val[t] \in Nat /\ val[t] <= DIGEST
                                /\ amt[t] \in Nat
                                /\ ups[t] \in Seq(Sems)
<1>1. aux \in Nat /\ aux <= 2 * DIGEST /\ DIGEST \in Nat /\ OSR \in Nat
  BY AuxAssumption DEF AuxTypeOK
<1>2. ledger \in Int /\ ledger <= 2 * DIGEST
  BY AuxAssumption DEF AuxTypeOK, Overdrawn, LedgerCap
<1>3. "level" \in Sems
  BY Zenon DEF Sems
<1>4. sem["level"] \in Nat
  BY <1>3, Zenon DEF AuxTypeOK, ShmTypeOK
<1>5. ASSUME NEW t \in Server
      PROVE  val[t] \in Nat /\ val[t] <= DIGEST /\ amt[t] \in Nat
  <2>1. val[t] \in 0..DIGEST /\ amt[t] \in Amounts \cup Requests \cup {0}
    BY Zenon DEF AuxTypeOK
  <2>2. DIGEST \in Nat /\ Amounts \subseteq Nat /\ Requests \subseteq Nat
    BY AuxAssumption, Zenon
  <2>3. \A n \in Amounts \cup Requests \cup {0} : n \in Nat
    BY <2>2
  <2>4. amt[t] \in Nat
    BY <2>1, <2>3, Zenon
  <2> QED
    BY <2>1, <2>2, <2>4
<1>6. ASSUME NEW t \in Server PROVE ups[t] \in Seq(Sems)
  BY Zenon DEF AuxTypeOK, ShmTypeOK
<1> QED
  BY <1>1, <1>2, <1>4, <1>5, <1>6, Zenon

(* The semaphores to raise are semaphores.                                 *)
LEMMA SemFacts ==
    /\ CuseSems \in Seq(Sems) /\ "level" \in Sems
    /\ \A t \in Server : /\ LevelUp(t) \in Seq(Sems)
                         /\ StatusUp \o LevelUp(t) \in Seq(Sems)
<1>1. CuseSems \in Seq(Sems) /\ "level" \in Sems
  BY StatusAssumption DEF Sems
<1>2. ASSUME NEW t \in Server PROVE LevelUp(t) \in Seq(Sems)
  BY <1>1 DEF LevelUp
<1> QED
  BY <1>1, <1>2 DEF StatusUp

(* Where everything starts.                                                *)
LEMMA InitState == Init => StateInv
<1> SUFFICES ASSUME Init PROVE StateInv
  BY Zenon
<1>1. ShmTypeOK
  <2>1. <<>> \in Seq(Sems)
    OBVIOUS
  <2> QED
    BY <2>1, Zenon DEF Init, ShmInit, ShmTypeOK
<1>2. AuxTypeOK
  <2>1. 0 \in 0..(2 * DIGEST) /\ 0 \in 0..DIGEST /\ 0 \in Overdrawn..LedgerCap
    BY AuxAssumption DEF Overdrawn, LedgerCap
  <2> QED
    BY <1>1, <2>1, Zenon DEF Init, AuxTypeOK
<1>3. PlaceInv
  BY AuxAssumption, Zenon DEF Init, ShmInit, PlaceInv, Holds
<1> QED
  BY <1>2, <1>3, Zenon DEF StateInv

(* What esdm_rpc_rnd_add_to_ent_cnt() computes: at most the sum, without   *)
(* an overflow.                                                            *)
LEMMA CountValue ==
    ASSUME StateInv, NEW t \in Server, apc[t] = "count"
    PROVE  LET v == LeastOf((AuxAvail + amt[t]) % WORD, DIGEST)
           IN  v \in Nat /\ v <= DIGEST /\ v <= aux + amt[t]
<1>0. /\ aux \in Nat /\ DIGEST \in Nat /\ amt[t] \in Nat
  BY TypeFacts, Zenon DEF StateInv
<1>1. amt[t] \in Amounts
  BY Zenon DEF StateInv, PlaceInv
<1>2. LeastOf(DIGEST, aux) \in Nat /\ LeastOf(DIGEST, aux) <= aux /\ LeastOf(DIGEST, aux) <= DIGEST
  BY <1>0 DEF LeastOf
<1>3. AuxAvail \in Nat /\ AuxAvail <= aux /\ AuxAvail <= DIGEST
  BY <1>0, <1>2, ReduceFacts DEF AuxAvail
<1> DEFINE w == (AuxAvail + amt[t]) % WORD
<1>4. w \in Nat /\ w <= AuxAvail + amt[t]
  <2>1. AuxAvail + amt[t] \in Nat /\ AuxAvail + amt[t] < WORD /\ WORD \in Nat
    BY <1>0, <1>1, <1>3, AuxAssumption
  <2> QED
    BY <2>1, ModFacts
<1> HIDE DEF w
<1>5. LeastOf(w, DIGEST) \in Nat /\ LeastOf(w, DIGEST) <= w /\ LeastOf(w, DIGEST) <= DIGEST
  BY <1>0, <1>4 DEF LeastOf
<1> QED
  BY <1>0, <1>3, <1>4, <1>5 DEF w

(* The operations of the pool keep the places.                             *)
LEMMA PoolState ==
    ASSUME StateInv, NEW t \in Server, Pool(t)
    PROVE  StateInv'
<1> USE AuxAssumption DEF StateInv
<1>0. /\ aux \in Nat /\ aux <= 2 * DIGEST /\ DIGEST \in Nat /\ OSR \in Nat
      /\ ledger \in Int /\ ledger <= 2 * DIGEST
      /\ sem["level"] \in Nat
      /\ \A u \in Server : /\ val[u] \in Nat /\ val[u] <= DIGEST
                           /\ amt[u] \in Nat
  BY TypeFacts, Zenon
<1>1. ASSUME Start(t) PROVE StateInv'
  <2>1. ShmTypeOK'
    BY <1>1, Zenon DEF Start, Goto, Free, AuxTypeOK, ShmTypeOK, shmVars, Sems
  <2>2. AuxTypeOK'
    BY <1>0, <1>1, <2>1 DEF Start, Goto, Free, AuxTypeOK
  <2>3. /\ \A u \in Server \ {t} : /\ apc'[u] = apc[u] /\ op'[u] = op[u]
                                  /\ amt'[u] = amt[u] /\ spc'[u] = spc[u]
        /\ ups' = ups /\ spc'[t] = spc[t]
        /\ apc[t] = "idle" /\ spc[t] = "out" /\ aux' = aux /\ lock' = lock
        /\ \/ op'[t] \in {"add", "get"} /\ apc'[t] = "lock"
           \/ op'[t] = "addcnt" /\ apc'[t] = "count" /\ amt'[t] \in Amounts
           \/ op'[t] = "clear" /\ apc'[t] = "set"
    BY <1>0, <1>1 DEF Start, Goto, Free, AuxTypeOK, ShmTypeOK, shmVars
  <2>4. PlaceInv'
    BY <2>3 DEF PlaceInv, Holds
  <2> QED
    BY <2>2, <2>4, Zenon
<1>2. ASSUME ProviderCheck(t) PROVE StateInv'
  <2>1. ShmTypeOK'
    BY <1>2, Zenon DEF ProviderCheck, Goto, Free, ProviderGive, AuxTypeOK, ShmTypeOK, shmVars, Sems
  <2>2. AuxTypeOK'
    BY <1>0, <1>2, <2>1 DEF ProviderCheck, Goto, Free, ProviderGive, AuxTypeOK
  <2>3. /\ \A u \in Server \ {t} : /\ apc'[u] = apc[u] /\ op'[u] = op[u]
                                  /\ amt'[u] = amt[u] /\ spc'[u] = spc[u]
        /\ ups' = ups /\ spc'[t] = spc[t]
        /\ apc[t] = "idle" /\ spc[t] = "out" /\ aux' = aux /\ lock' = lock
        /\ \/ op'[t] = "add" /\ apc'[t] = "lock"
           \/ op'[t] = op[t] /\ apc'[t] = "wait"
    BY <1>0, <1>2 DEF ProviderCheck, Goto, Free, ProviderGive, AuxTypeOK, ShmTypeOK, shmVars
  <2>4. PlaceInv'
    BY <2>3 DEF PlaceInv, Holds
  <2> QED
    BY <2>2, <2>4
<1>3. ASSUME ProviderWoken(t) PROVE StateInv'
  <2>1. ShmTypeOK'
    <3>1. "level" \in Sems
      BY SemFacts, Zenon
    <3>2. sem' = [sem EXCEPT !["level"] = sem["level"] - 1] /\ sem["level"] - 1 \in Nat
      BY <1>0, <1>3 DEF ProviderWoken
    <3>3. sem' \in [Sems -> Nat]
      BY <3>1, <3>2, Zenon DEF AuxTypeOK, ShmTypeOK
    <3> QED
      BY <1>3, <3>3, Zenon DEF ProviderWoken, AuxTypeOK, ShmTypeOK
  <2>2. AuxTypeOK'
    BY <1>0, <1>3, <2>1 DEF ProviderWoken, Goto, ProviderGive, AuxTypeOK
  <2>3. /\ \A u \in Server \ {t} : /\ apc'[u] = apc[u] /\ op'[u] = op[u]
                                  /\ amt'[u] = amt[u] /\ spc'[u] = spc[u]
        /\ ups' = ups /\ spc'[t] = spc[t]
        /\ apc[t] = "wait" /\ aux' = aux /\ lock' = lock
        /\ op'[t] = "add" /\ apc'[t] = "lock"
    BY <1>0, <1>3 DEF ProviderWoken, Goto, ProviderGive, AuxTypeOK, ShmTypeOK, shmVars
  <2>4. PlaceInv'
    BY <2>3 DEF PlaceInv, Holds
  <2> QED
    BY <2>2, <2>4
<1>4. ASSUME ProviderTimeout(t) PROVE StateInv'
  <2>1. ShmTypeOK'
    BY <1>4, Zenon DEF ProviderTimeout, Goto, ProviderGive, AuxTypeOK, ShmTypeOK, shmVars, Sems
  <2>2. AuxTypeOK'
    BY <1>0, <1>4, <2>1 DEF ProviderTimeout, Goto, ProviderGive, AuxTypeOK
  <2>3. /\ \A u \in Server \ {t} : /\ apc'[u] = apc[u] /\ op'[u] = op[u]
                                  /\ amt'[u] = amt[u] /\ spc'[u] = spc[u]
        /\ ups' = ups /\ spc'[t] = spc[t]
        /\ apc[t] = "wait" /\ aux' = aux /\ lock' = lock
        /\ op'[t] = "add" /\ apc'[t] = "lock"
    BY <1>0, <1>4 DEF ProviderTimeout, Goto, ProviderGive, AuxTypeOK, ShmTypeOK, shmVars
  <2>4. PlaceInv'
    BY <2>3 DEF PlaceInv, Holds
  <2> QED
    BY <2>2, <2>4
<1>5. ASSUME Lock(t) PROVE StateInv'
  <2>1. ShmTypeOK'
    BY <1>5, Zenon DEF Lock, Goto, AuxTypeOK, ShmTypeOK, shmVars, Sems
  <2>2. AuxTypeOK'
    BY <1>0, <1>5, <2>1, Zenon DEF Lock, Goto, AuxTypeOK
  <2>3. /\ \A u \in Server \ {t} : /\ apc'[u] = apc[u] /\ op'[u] = op[u]
                                  /\ amt'[u] = amt[u] /\ spc'[u] = spc[u]
        /\ ups' = ups /\ spc'[t] = spc[t]
        /\ apc[t] = "lock" /\ aux' = aux /\ lock = None /\ lock' = t /\ op'[t] = op[t]
        /\ apc'[t] = IF op[t] = "get" THEN "take" ELSE "insert"
    BY <1>0, <1>5 DEF Lock, Goto, AuxTypeOK, ShmTypeOK, shmVars
  <2>4. PlaceInv'
    BY <2>3 DEF PlaceInv, Holds
  <2> QED
    BY <2>2, <2>4
<1>6. ASSUME GetTake(t) PROVE StateInv'
  <2>0. LeastOf(DIGEST, aux) \in 0..DIGEST /\ 0 \in 0..(2 * DIGEST)
    BY <1>0 DEF LeastOf
  <2>1. ShmTypeOK'
    BY <1>6, Zenon DEF GetTake, Goto, AuxTypeOK, ShmTypeOK, shmVars, Sems
  <2>2. AuxTypeOK'
    BY <1>0, <1>6, <2>0, <2>1 DEF GetTake, Goto, AuxTypeOK
  <2>3. /\ \A u \in Server \ {t} : /\ apc'[u] = apc[u] /\ op'[u] = op[u]
                                  /\ amt'[u] = amt[u] /\ spc'[u] = spc[u]
        /\ ups' = ups /\ spc'[t] = spc[t]
        /\ apc[t] = "take" /\ lock' = lock /\ op'[t] = op[t]
        /\ \/ aux' = 0 /\ apc'[t] = "return"
           \/ aux' = aux /\ apc'[t] = "insert"
    BY <1>0, <1>6, <2>0 DEF GetTake, Goto, AuxTypeOK, ShmTypeOK, shmVars
  <2>4. PlaceInv'
    BY <1>0, <2>3 DEF PlaceInv, Holds
  <2> QED
    BY <2>2, <2>4
<1>7. ASSUME GetReturn(t) PROVE StateInv'
  <2>a. DEFINE want == LeastOf(amt[t], DIGEST) + OSR
        coll == LeastOf(val[t], want)
  <2>b. want \in Nat
    BY <1>0 DEF LeastOf
  <2>c. coll \in Nat /\ coll <= val[t]
    BY <1>0, <2>b DEF LeastOf
  <2>d. aux <= DIGEST
    BY <1>7, Zenon DEF PlaceInv, GetReturn
  <2> HIDE DEF want, coll
  <2>e. aux + (val[t] - coll) \in 0..(2 * DIGEST)
    BY <1>0, <2>c, <2>d
  <2>f. ReduceByOsr(coll) \in Nat
    BY <2>c, ReduceFacts, Zenon
  <2>g. /\ aux' \in 0..(2 * DIGEST)
        /\ ledger' \in Overdrawn..LedgerCap
    <3>1. aux' = aux + (val[t] - coll)
      BY <1>7, Zenon DEF GetReturn, want, coll
    <3>2. PICK ok \in BOOLEAN : Deliver(IF ok THEN ReduceByOsr(coll) ELSE 0)
      BY <1>7, Zenon DEF GetReturn, want, coll
    <3>3. ledger' \in Overdrawn..LedgerCap
      BY <1>0, <3>2, <2>f DEF Deliver, Overdrawn, LedgerCap, AuxTypeOK
    <3> QED
      BY <2>e, <3>1, <3>3, Zenon
  <2>1. ShmTypeOK'
    BY <1>7, Zenon DEF GetReturn, Goto, AuxTypeOK, ShmTypeOK, shmVars, Sems
  <2>2. AuxTypeOK'
    BY <1>0, <1>7, <2>g, <2>1 DEF GetReturn, Goto, AuxTypeOK
  <2>3. /\ \A u \in Server \ {t} : /\ apc'[u] = apc[u] /\ op'[u] = op[u]
                                  /\ amt'[u] = amt[u] /\ spc'[u] = spc[u]
        /\ ups' = ups /\ spc'[t] = spc[t]
        /\ apc[t] = "return" /\ lock' = lock /\ op'[t] = op[t] /\ apc'[t] = "insert"
    BY <1>0, <1>7, <2>g DEF GetReturn, Goto, AuxTypeOK, ShmTypeOK, shmVars
  <2>4. PlaceInv'
    BY <2>3 DEF PlaceInv, Holds
  <2> QED
    BY <2>2, <2>4
<1>8. ASSUME Insert(t) PROVE StateInv'
  <2>a. ASSUME NEW n \in Nat, Credit(n) PROVE ledger' \in Overdrawn..LedgerCap
    BY <1>0, <2>a DEF Credit, LeastOf, Overdrawn, LedgerCap, AuxTypeOK
  <2>b. ASSUME NEW n \in Nat PROVE LeastOf(n + aux, DIGEST) \in 0..DIGEST
    BY <1>0 DEF LeastOf
  <2>c. ledger' \in Overdrawn..LedgerCap
    BY <1>0, <1>8, <2>a, Zenon DEF Insert, AuxTypeOK
  <2>d. val' \in [Server -> 0..DIGEST]
    <3>1. PICK n \in Nat : n = IF op[t] = "get" THEN 0 ELSE amt[t]
      BY <1>0, Zenon
    <3>2. \/ val' = [val EXCEPT ![t] = LeastOf(n + aux, DIGEST)]
          \/ val' = val
      BY <1>8, <3>1, Zenon DEF Insert
    <3> QED
      BY <2>b, <3>2 DEF AuxTypeOK
  <2>1. ShmTypeOK'
    BY <1>8, Zenon DEF Insert, Goto, AuxTypeOK, ShmTypeOK, shmVars, Sems
  <2>2. AuxTypeOK'
    BY <1>0, <1>8, <2>c, <2>d, <2>1, Zenon DEF Insert, Goto, AuxTypeOK
  <2>3. /\ \A u \in Server \ {t} : /\ apc'[u] = apc[u] /\ op'[u] = op[u]
                                  /\ amt'[u] = amt[u] /\ spc'[u] = spc[u]
        /\ ups' = ups /\ spc'[t] = spc[t]
        /\ apc[t] = "insert" /\ aux' = aux /\ lock' = lock /\ op'[t] = op[t]
        /\ apc'[t] \in {"set", "unlock"}
    BY <1>0, <1>8, <2>c, <2>d, Zenon DEF Insert, Goto, AuxTypeOK, ShmTypeOK, shmVars
  <2>4. PlaceInv'
    BY <2>3 DEF PlaceInv, Holds
  <2> QED
    BY <2>2, <2>4
<1>9. ASSUME CountRead(t) PROVE StateInv'
  <2>a. ledger' \in Overdrawn..LedgerCap
    BY <1>0, <1>9 DEF CountRead, Credit, LeastOf, Overdrawn, LedgerCap, AuxTypeOK
  <2>b. LeastOf((AuxAvail + amt[t]) % WORD, DIGEST) \in 0..DIGEST
    BY <1>0, <1>9, CountValue DEF CountRead
  <2>1. ShmTypeOK'
    BY <1>9, Zenon DEF CountRead, Goto, AuxTypeOK, ShmTypeOK, shmVars, Sems
  <2>2. AuxTypeOK'
    BY <1>0, <1>9, <2>a, <2>b, <2>1, Zenon DEF CountRead, Goto, AuxTypeOK
  <2>3. /\ \A u \in Server \ {t} : /\ apc'[u] = apc[u] /\ op'[u] = op[u]
                                  /\ amt'[u] = amt[u] /\ spc'[u] = spc[u]
        /\ ups' = ups /\ spc'[t] = spc[t]
        /\ apc[t] = "count" /\ aux' = aux /\ lock' = lock /\ op'[t] = op[t] /\ apc'[t] = "set"
    BY <1>0, <1>9, <2>a, <2>b DEF CountRead, Goto, AuxTypeOK, ShmTypeOK, shmVars
  <2>4. PlaceInv'
    BY <2>3 DEF PlaceInv, Holds
  <2> QED
    BY <2>2, <2>4
<1>10. ASSUME SetEntropy(t) PROVE StateInv'
  <2>1. ShmTypeOK'
    BY <1>10, Zenon DEF SetEntropy, Goto, Finish, ShmGoto, AuxTypeOK, ShmTypeOK, shmVars, Sems
  <2>2. AuxTypeOK'
    BY <1>0, <1>10, <2>1 DEF SetEntropy, Goto, Finish, ShmGoto, AuxTypeOK
  <2>3. /\ \A u \in Server \ {t} : /\ apc'[u] = apc[u] /\ op'[u] = op[u]
                                  /\ amt'[u] = amt[u] /\ spc'[u] = spc[u]
        /\ ups' = ups /\ spc'[t] = "need"
        /\ apc[t] = "set" /\ aux' \in 0..DIGEST /\ lock' = lock
        /\ \/ op[t] \in {"add", "get"} /\ op'[t] = op[t] /\ apc'[t] = "unlock"
           \/ op[t] \notin {"add", "get"} /\ op'[t] = "none" /\ apc'[t] = "idle"
    BY <1>0, <1>10 DEF SetEntropy, Goto, Finish, ShmGoto, AuxTypeOK, ShmTypeOK, shmVars
  <2>4. PlaceInv'
    BY <1>0, <2>3 DEF PlaceInv, Holds
  <2> QED
    BY <2>2, <2>4
<1>11. ASSUME Unlock(t) PROVE StateInv'
  <2>1. ShmTypeOK'
    BY <1>11, Zenon DEF Unlock, Goto, Finish, ShmGoto, AuxTypeOK, ShmTypeOK, shmVars, Sems
  <2>2. AuxTypeOK'
    BY <1>0, <1>11, <2>1, Zenon DEF Unlock, Goto, Finish, ShmGoto, AuxTypeOK
  <2>3. /\ \A u \in Server \ {t} : /\ apc'[u] = apc[u] /\ op'[u] = op[u]
                                  /\ amt'[u] = amt[u] /\ spc'[u] = spc[u]
        /\ ups' = ups /\ spc'[t] = "need"
        /\ apc[t] = "unlock" /\ aux' = aux /\ lock' = None
        /\ op'[t] = "none" /\ apc'[t] = "idle"
    BY <1>0, <1>11 DEF Unlock, Goto, Finish, ShmGoto, AuxTypeOK, ShmTypeOK, shmVars
  <2>4. PlaceInv'
    BY <2>3 DEF PlaceInv, Holds
  <2> QED
    BY <2>2, <2>4
<1> QED
  BY <1>1, <1>2, <1>3, <1>4, <1>5, <1>6, <1>7, <1>8, <1>9, <1>10, <1>11, Zenon DEF Pool

(* Telling the status keeps them.                                          *)
LEMMA ShmState ==
    ASSUME StateInv, NEW t \in Server, ShmStep(t)
    PROVE  StateInv'
<1> USE DEF StateInv
<1>0. /\ UNCHANGED auxVars
      /\ \A u \in Server : ups[u] \in Seq(Sems)
      /\ NeedRead(t) \/ NeedTest(t, NeedEntropy) \/ NeedStore(t) \/ UpTest(t) \/ UpPost(t)
  BY TypeFacts, Zenon DEF ShmStep, NeedStep
<1>a. \A u \in Server : spc[u] # "out" => apc[u] \in {"idle", "unlock"}
  BY Zenon DEF PlaceInv
<1>1. ASSUME NeedRead(t) PROVE StateInv'
  <2>1. ShmTypeOK'
    BY <1>0, <1>a, <1>1, Zenon DEF NeedRead, ShmGoto, AuxTypeOK, ShmTypeOK
  <2>2. AuxTypeOK'
    BY <1>0, <2>1, Zenon DEF AuxTypeOK, auxVars
  <2>3. /\ \A u \in Server \ {t} : spc'[u] = spc[u] /\ ups'[u] = ups[u]
        /\ spc[t] # "out" /\ (spc'[t] \in {"up", "post"} => ups'[t] # <<>>)
    BY <1>0, <1>a, <1>1, Zenon DEF NeedRead, ShmGoto, AuxTypeOK, ShmTypeOK
  <2>4. PlaceInv'
    BY <1>0, <1>a, <2>3 DEF PlaceInv, Holds, auxVars
  <2> QED
    BY <2>2, <2>4, Zenon
<1>2. ASSUME NeedTest(t, NeedEntropy) PROVE StateInv'
  <2>1. ShmTypeOK'
    BY <1>0, <1>a, <1>2 DEF NeedTest, ShmGoto, AuxTypeOK, ShmTypeOK, NeedEntropy
  <2>2. AuxTypeOK'
    BY <1>0, <2>1 DEF AuxTypeOK, auxVars
  <2>3. /\ \A u \in Server \ {t} : spc'[u] = spc[u] /\ ups'[u] = ups[u]
        /\ spc[t] # "out" /\ (spc'[t] \in {"up", "post"} => ups'[t] # <<>>)
    BY <1>0, <1>a, <1>2, Zenon DEF NeedTest, ShmGoto, AuxTypeOK, ShmTypeOK
  <2>4. PlaceInv'
    BY <1>0, <1>a, <2>3 DEF PlaceInv, Holds, auxVars
  <2> QED
    BY <2>2, <2>4
<1>3. ASSUME NeedStore(t) PROVE StateInv'
  <2>0. PICK s \in Seq(Sems) : RaiseNext(t, s)
    BY <1>3, SemFacts, Zenon DEF NeedStore
  <2>1. ShmTypeOK'
    BY <1>0, <1>a, <1>3, <2>0, Zenon DEF NeedStore, RaiseNext, ForgetLocals, ShmGoto, AuxTypeOK, ShmTypeOK
  <2>2. AuxTypeOK'
    BY <1>0, <2>1, Zenon DEF AuxTypeOK, auxVars
  <2>3. /\ \A u \in Server \ {t} : spc'[u] = spc[u] /\ ups'[u] = ups[u]
        /\ spc[t] # "out" /\ (spc'[t] \in {"up", "post"} => ups'[t] # <<>>)
    BY <1>0, <1>a, <1>3, <2>0, Zenon DEF NeedStore, RaiseNext, ForgetLocals, ShmGoto, AuxTypeOK, ShmTypeOK
  <2>4. PlaceInv'
    BY <1>0, <1>a, <2>3 DEF PlaceInv, Holds, auxVars
  <2> QED
    BY <2>2, <2>4, Zenon
<1>4. ASSUME UpTest(t) PROVE StateInv'
  <2>0. ups[t] # <<>> /\ Tail(ups[t]) \in Seq(Sems) /\ Head(ups[t]) \in Sems
    <3>1. ups[t] # <<>> /\ ups[t] \in Seq(Sems)
      BY <1>0, <1>4, Zenon DEF PlaceInv, UpTest
    <3> QED
      BY <3>1
  <2>1. ShmTypeOK'
    BY <1>0, <1>a, <1>4, <2>0, Zenon DEF UpTest, RaiseNext, ShmGoto, AuxTypeOK, ShmTypeOK
  <2>2. AuxTypeOK'
    BY <1>0, <2>1 DEF AuxTypeOK, auxVars
  <2>3. /\ \A u \in Server \ {t} : spc'[u] = spc[u] /\ ups'[u] = ups[u]
        /\ spc[t] # "out" /\ (spc'[t] \in {"up", "post"} => ups'[t] # <<>>)
    BY <1>0, <1>a, <1>4, <2>0 DEF UpTest, RaiseNext, ShmGoto, AuxTypeOK, ShmTypeOK
  <2>4. PlaceInv'
    BY <1>0, <1>a, <2>3 DEF PlaceInv, Holds, auxVars
  <2> QED
    BY <2>2, <2>4
<1>5. ASSUME UpPost(t) PROVE StateInv'
  <2>0. ups[t] # <<>> /\ Tail(ups[t]) \in Seq(Sems) /\ Head(ups[t]) \in Sems
    <3>1. ups[t] # <<>> /\ ups[t] \in Seq(Sems)
      BY <1>0, <1>5, Zenon DEF PlaceInv, UpPost
    <3> QED
      BY <3>1
  <2>1. ShmTypeOK'
    <3>1. sem[Head(ups[t])] + 1 \in Nat
      BY <2>0 DEF AuxTypeOK, ShmTypeOK
    <3>2. sem' \in [Sems -> Nat]
      BY <1>5, <2>0, <3>1, Zenon DEF UpPost, AuxTypeOK, ShmTypeOK
    <3> QED
      BY <1>5, <2>0, <3>2, Zenon DEF UpPost, RaiseNext, ShmGoto, AuxTypeOK, ShmTypeOK
  <2>2. AuxTypeOK'
    BY <1>0, <2>1 DEF AuxTypeOK, auxVars
  <2>3. /\ \A u \in Server \ {t} : spc'[u] = spc[u] /\ ups'[u] = ups[u]
        /\ spc[t] # "out" /\ (spc'[t] \in {"up", "post"} => ups'[t] # <<>>)
    BY <1>0, <1>a, <1>5, <2>0, Zenon DEF UpPost, RaiseNext, ShmGoto, AuxTypeOK, ShmTypeOK
  <2>4. PlaceInv'
    BY <1>0, <1>a, <2>3 DEF PlaceInv, Holds, auxVars
  <2> QED
    BY <2>2, <2>4
<1> QED
  BY <1>0, <1>1, <1>2, <1>3, <1>4, <1>5, Zenon

-----------------------------------------------------------------------------
(* A step that touches neither counter nor ledger, and after which nobody  *)
(* new is about to write, keeps the cover.                                 *)
LEMMA CoverQuiet ==
    ASSUME CoverInv, aux' = aux, ledger' = ledger, raced' = raced,
           \A u \in Server :
             /\ Writes(u)' => Writes(u) /\ val'[u] = val[u]
             /\ apc'[u] = "return" => apc[u] = "return" /\ val'[u] = val[u]
    PROVE  CoverInv'
BY Zenon DEF CoverInv

(* Only one thread is in the section of esdm_pool.lock.                    *)
LEMMA OneHolder ==
    ASSUME PlaceInv, NEW t \in Server, Holds(t)
    PROVE  \A u \in Server \ {t} : ~Holds(u)
BY Zenon DEF PlaceInv

(* The operations keep the cover.                                          *)
LEMMA PoolCover ==
    ASSUME StateInv, CoverInv, NEW t \in Server, Pool(t)
    PROVE  CoverInv'
<1> USE DEF StateInv
<1>0. /\ aux \in Nat /\ aux <= 2 * DIGEST /\ DIGEST \in Nat /\ OSR \in Nat
      /\ ledger \in Int /\ ledger <= 2 * DIGEST
      /\ \A u \in Server : /\ val[u] \in Nat /\ val[u] <= DIGEST
                           /\ amt[u] \in Nat
  BY TypeFacts, Zenon
<1>a. ~raced => /\ 0 <= ledger
                /\ aux <= ledger
                /\ \A u \in Server : Writes(u) => val[u] <= ledger
                /\ \A h \in Server : apc[h] = "return" =>
                     /\ aux + val[h] <= ledger
                     /\ \A u \in Server : Writes(u) => val[u] + val[h] <= ledger
  BY <1>0 DEF CoverInv
<1>1. CASE Start(t)
  <2>1. /\ aux' = aux /\ ledger' = ledger /\ raced' = raced
        /\ \A u \in Server : /\ val'[u] = val[u] /\ (u # t => apc'[u] = apc[u] /\ op'[u] = op[u])
        /\ apc'[t] # "return" /\ ~Writes(t)'
    BY <1>1, AuxAssumption DEF Start, Goto, Free, Writes, AuxTypeOK
  <2> QED
    BY <2>1, CoverQuiet, Zenon DEF Writes
<1>2. CASE ProviderCheck(t)
  <2>1. /\ aux' = aux /\ ledger' = ledger /\ raced' = raced
        /\ \A u \in Server : /\ val'[u] = val[u] /\ (u # t => apc'[u] = apc[u] /\ op'[u] = op[u])
        /\ apc'[t] # "return" /\ ~Writes(t)'
    BY <1>2, Zenon DEF ProviderCheck, Goto, Free, ProviderGive, Writes, AuxTypeOK
  <2> QED
    BY <2>1, CoverQuiet DEF Writes
<1>3. CASE ProviderWoken(t)
  <2>1. /\ aux' = aux /\ ledger' = ledger /\ raced' = raced
        /\ \A u \in Server : /\ val'[u] = val[u] /\ (u # t => apc'[u] = apc[u] /\ op'[u] = op[u])
        /\ apc'[t] # "return" /\ ~Writes(t)'
    BY <1>3, Zenon DEF ProviderWoken, Goto, ProviderGive, Writes, AuxTypeOK
  <2> QED
    BY <2>1, CoverQuiet DEF Writes
<1>4. CASE ProviderTimeout(t)
  <2>1. /\ aux' = aux /\ ledger' = ledger /\ raced' = raced
        /\ \A u \in Server : /\ val'[u] = val[u] /\ (u # t => apc'[u] = apc[u] /\ op'[u] = op[u])
        /\ apc'[t] # "return" /\ ~Writes(t)'
    BY <1>4, Zenon DEF ProviderTimeout, Goto, ProviderGive, Writes, AuxTypeOK
  <2> QED
    BY <2>1, CoverQuiet DEF Writes
<1>5. CASE Lock(t)
  <2>1. /\ aux' = aux /\ ledger' = ledger /\ raced' = raced
        /\ \A u \in Server : /\ val'[u] = val[u] /\ (u # t => apc'[u] = apc[u] /\ op'[u] = op[u])
        /\ apc'[t] # "return" /\ ~Writes(t)'
    BY <1>5, Zenon DEF Lock, Goto, Writes, AuxTypeOK
  <2> QED
    BY <2>1, CoverQuiet DEF Writes
<1>6. CASE Unlock(t)
  <2>1. /\ aux' = aux /\ ledger' = ledger /\ raced' = raced
        /\ \A u \in Server : /\ val'[u] = val[u] /\ (u # t => apc'[u] = apc[u] /\ op'[u] = op[u])
        /\ apc'[t] # "return" /\ ~Writes(t)'
    BY <1>6, Zenon DEF Unlock, Goto, Finish, ShmGoto, Writes, AuxTypeOK
  <2> QED
    BY <2>1, CoverQuiet DEF Writes
<1>7. CASE GetTake(t)
  <2>0. \A u \in Server \ {t} : ~Holds(u)
    BY <1>7, OneHolder, Zenon DEF GetTake, Holds
  <2>1. CASE ~initialized
    <3>1. /\ aux' = aux /\ ledger' = ledger /\ raced' = raced
          /\ \A u \in Server : /\ val'[u] = val[u] /\ (u # t => apc'[u] = apc[u] /\ op'[u] = op[u])
          /\ apc'[t] # "return" /\ ~Writes(t)'
      BY <1>7, <2>1, Zenon DEF GetTake, Goto, Writes, AuxTypeOK
    <3> QED
      BY <3>1, CoverQuiet DEF Writes
  <2>2. CASE initialized
    <3>1. /\ aux' = 0 /\ ledger' = ledger /\ op' = op
          /\ \A u \in Server \ {t} : apc'[u] = apc[u] /\ val'[u] = val[u]
          /\ apc'[t] = "return" /\ val'[t] = LeastOf(DIGEST, aux)
          /\ ~raced' => ~raced /\ \A u \in Server : ~(op[u] = "addcnt" /\ apc[u] = "set")
      BY <1>7, <2>2, Zenon DEF GetTake, Goto, AuxTypeOK
    <3>2. ASSUME ~raced' PROVE \A u \in Server : ~Writes(u)'
      <4>1. \A u \in Server : apc[u] = "set" => op[u] \in {"add", "get", "addcnt", "clear"}
        BY Zenon DEF PlaceInv, AuxTypeOK
      <4> QED
        BY <2>0, <3>1, <3>2, <4>1, Zenon DEF Writes, Holds
    <3>3. \A u \in Server \ {t} : apc'[u] # "return"
      BY <2>0, <3>1, Zenon DEF Holds
    <3>4. LeastOf(DIGEST, aux) \in Nat /\ LeastOf(DIGEST, aux) <= aux
      BY <1>0 DEF LeastOf
    <3> QED
      BY <1>0, <1>a, <3>1, <3>2, <3>3, <3>4 DEF CoverInv
  <2> QED
    BY <2>1, <2>2, Zenon
<1>8. CASE GetReturn(t)
  <2>0. apc[t] = "return" /\ \A u \in Server \ {t} : ~Holds(u)
    BY <1>8, OneHolder, Zenon DEF GetReturn, Holds
  <2> DEFINE want == LeastOf(amt[t], DIGEST) + OSR
             coll == LeastOf(val[t], want)
  <2>1. want \in Nat
    BY <1>0 DEF LeastOf
  <2>2. coll \in Nat /\ coll <= val[t]
    BY <1>0, <2>1 DEF LeastOf
  <2>3. ReduceByOsr(coll) \in Nat /\ ReduceByOsr(coll) <= coll
    BY <2>2, ReduceFacts, Zenon
  <2>4. PICK d \in Nat : Deliver(d) /\ d <= coll
    BY <1>8, <2>2, <2>3 DEF GetReturn
  <2>5. /\ aux' = aux + (val[t] - coll) /\ raced' = raced /\ op' = op
        /\ \A u \in Server \ {t} : apc'[u] = apc[u] /\ val'[u] = val[u]
        /\ apc'[t] = "insert"
    BY <1>8, Zenon DEF GetReturn, Goto, AuxTypeOK
  <2> HIDE DEF want, coll
  <2>6. ~raced => ledger' = ledger - d /\ d <= ledger
    BY <1>0, <1>a, <2>0, <2>2, <2>4 DEF Deliver
  <2>7. \A u \in Server : /\ apc'[u] # "return"
                          /\ Writes(u)' => u # t /\ Writes(u) /\ val'[u] = val[u]
    BY <2>0, <2>5, Zenon DEF Holds, Writes
  <2>8. ASSUME ~raced PROVE aux' <= ledger' /\ \A u \in Server : Writes(u) => val[u] <= ledger'
    BY <1>0, <1>a, <2>0, <2>2, <2>4, <2>5, <2>6, <2>8
  <2> QED
    BY <2>5, <2>7, <2>8, Zenon DEF CoverInv
<1>9. CASE Insert(t)
  <2>0. \A u \in Server \ {t} : ~Holds(u)
    BY <1>9, OneHolder, Zenon DEF Insert, Holds
  <2>1. PICK n \in Nat : n = IF op[t] = "get" THEN 0 ELSE amt[t]
    BY <1>0, Zenon
  <2>2. /\ aux' = aux /\ raced' = raced /\ op' = op
        /\ \A u \in Server \ {t} : apc'[u] = apc[u] /\ val'[u] = val[u]
        /\ \/ apc'[t] = "set" /\ val'[t] = LeastOf(n + aux, DIGEST) /\ Credit(n)
           \/ apc'[t] = "unlock" /\ ledger' = ledger
    BY <1>9, <2>1, Zenon DEF Insert, Goto, AuxTypeOK
  <2>3. \A u \in Server : apc'[u] # "return"
    BY <2>0, <2>2, Zenon DEF Holds
  <2>4. LeastOf(n + aux, DIGEST) \in Nat /\ LeastOf(n + aux, DIGEST) <= n + aux
        /\ LeastOf(n + aux, DIGEST) <= DIGEST
    BY <1>0 DEF LeastOf
  <2>5. ASSUME ~raced, Credit(n)
        PROVE  ledger <= ledger' /\ (ledger + n <= ledger' \/ 2 * DIGEST <= ledger')
    BY <1>0, <1>a, <2>5 DEF Credit, LeastOf, LedgerCap, Overdrawn
  <2>6. ASSUME ~raced PROVE ledger <= ledger' /\ (apc'[t] = "set" => val'[t] <= ledger') /\ ledger' \in Int
    <3>1. ledger' \in Int
      BY <1>0, <2>2 DEF Credit, LeastOf, LedgerCap
    <3> QED
      BY <1>0, <1>a, <2>2, <2>4, <2>5, <2>6, <3>1
  <2>7. \A u \in Server \ {t} : Writes(u)' => Writes(u)
    BY <2>2, Zenon DEF Writes
  <2> QED
    BY <1>0, <1>a, <2>2, <2>3, <2>6, <2>7 DEF CoverInv, Writes
<1>10. CASE CountRead(t)
  <2>1. /\ aux' = aux /\ raced' = raced /\ op' = op /\ Credit(amt[t])
        /\ \A u \in Server \ {t} : apc'[u] = apc[u] /\ val'[u] = val[u]
        /\ apc'[t] = "set" /\ apc[t] = "count"
        /\ val'[t] = LeastOf((AuxAvail + amt[t]) % WORD, DIGEST)
    BY <1>10, Zenon DEF CountRead, Goto, AuxTypeOK
  <2>2. val'[t] \in Nat /\ val'[t] <= DIGEST /\ val'[t] <= aux + amt[t]
    BY <2>1, CountValue, Zenon
  <2>3. ASSUME ~raced
        PROVE  /\ ledger' \in Int /\ ledger <= ledger'
               /\ ledger + amt[t] <= ledger' \/ 2 * DIGEST <= ledger'
    BY <1>0, <1>a, <2>1, <2>3 DEF Credit, LeastOf, LedgerCap, Overdrawn
  <2>4. \A u \in Server \ {t} : Writes(u)' => Writes(u)
    BY <2>1, Zenon DEF Writes
  <2>5. ASSUME ~raced
        PROVE  /\ aux <= ledger' /\ val'[t] <= ledger'
               /\ \A u \in Server : Writes(u) => val[u] <= ledger'
    BY <1>0, <1>a, <2>2, <2>3, <2>5
  <2>6. ASSUME ~raced, NEW h \in Server, apc[h] = "return"
        PROVE  /\ aux + val[h] <= ledger' /\ val'[t] + val[h] <= ledger'
               /\ \A u \in Server : Writes(u) => val[u] + val[h] <= ledger'
    BY <1>0, <1>a, <2>2, <2>3, <2>6
  <2> QED
    BY <2>1, <2>4, <2>5, <2>6, Zenon DEF CoverInv
<1>11. CASE SetEntropy(t)
  <2>1. /\ ledger' = ledger /\ raced' = raced /\ apc[t] = "set"
        /\ aux' = IF op[t] = "clear" THEN 0 ELSE val[t]
        /\ \A u \in Server \ {t} : apc'[u] = apc[u] /\ val'[u] = val[u] /\ op'[u] = op[u]
        /\ apc'[t] \in {"idle", "unlock"}
    BY <1>11, Zenon DEF SetEntropy, Goto, Finish, AuxTypeOK
  <2>2. \A u \in Server : /\ Writes(u)' => u # t /\ Writes(u)
                          /\ apc'[u] = "return" => u # t /\ apc[u] = "return"
    BY <2>1, Zenon DEF Writes
  <2>3. ASSUME ~raced
        PROVE  /\ aux' <= ledger
               /\ \A h \in Server : apc[h] = "return" => aux' + val[h] <= ledger
    BY <1>0, <1>a, <2>1, <2>3 DEF Writes
  <2> QED
    BY <1>a, <2>1, <2>2, <2>3, Zenon DEF CoverInv
<1> QED
  BY <1>1, <1>2, <1>3, <1>4, <1>5, <1>6, <1>7, <1>8, <1>9, <1>10, <1>11, Zenon DEF Pool

(* Of the semaphores to raise, the first one is gone.                      *)
LEMMA LevelTail ==
    ASSUME NEW s \in Seq(Sems), s # <<>>, NEW i \in DOMAIN s, s[i] = "level"
    PROVE  Head(s) = "level" \/ \E j \in DOMAIN Tail(s) : Tail(s)[j] = "level"
<1>1. CASE i = 1
  BY <1>1
<1>2. CASE i # 1
  <2>1. i - 1 \in DOMAIN Tail(s) /\ Tail(s)[i - 1] = s[i]
    BY <1>2
  <2> QED
    BY <2>1, Zenon
<1> QED
  BY <1>1, <1>2, Zenon

-----------------------------------------------------------------------------
(* As long as the pool is not touched, whoever will tell still does or the *)
(* semaphore is up.                                                        *)
LEMMA TellQuiet ==
    ASSUME TellInv, aux' = aux,
           sem["level"] > 0 => sem'["level"] > 0,
           \A u \in Server : WillTell(u) => WillTell(u)' \/ sem'["level"] > 0
    PROVE  TellInv'
BY Zenon DEF TellInv, NeedEntropy, AuxAvail

(* Every operation of the pool ends in telling the status.                 *)
LEMMA PoolTell ==
    ASSUME StateInv, TellInv, NEW t \in Server, Pool(t)
    PROVE  TellInv'
<1> USE DEF StateInv
<1>1. CASE Start(t)
  <2>1. apc'[t] \notin {"idle", "wait"}
    BY <1>1 DEF Start, Goto, Free, AuxTypeOK
  <2> QED
    BY <2>1, Zenon DEF TellInv, WillTell
<1>2. CASE ProviderWoken(t)
  <2>1. apc'[t] \notin {"idle", "wait"}
    BY <1>2, Zenon DEF ProviderWoken, Goto, ProviderGive, AuxTypeOK
  <2> QED
    BY <2>1 DEF TellInv, WillTell
<1>3. CASE ProviderTimeout(t)
  <2>1. apc'[t] \notin {"idle", "wait"}
    BY <1>3, Zenon DEF ProviderTimeout, Goto, ProviderGive, AuxTypeOK
  <2> QED
    BY <2>1 DEF TellInv, WillTell
<1>4. CASE Lock(t)
  <2>1. apc'[t] \notin {"idle", "wait"}
    BY <1>4, Zenon DEF Lock, Goto, AuxTypeOK
  <2> QED
    BY <2>1 DEF TellInv, WillTell
<1>5. CASE GetTake(t)
  <2>1. apc'[t] \notin {"idle", "wait"}
    BY <1>5, Zenon DEF GetTake, Goto, AuxTypeOK
  <2> QED
    BY <2>1 DEF TellInv, WillTell
<1>6. CASE GetReturn(t)
  <2>1. apc'[t] \notin {"idle", "wait"}
    BY <1>6, Zenon DEF GetReturn, Goto, AuxTypeOK
  <2> QED
    BY <2>1 DEF TellInv, WillTell
<1>7. CASE Insert(t)
  <2>1. apc'[t] \notin {"idle", "wait"}
    BY <1>7, Zenon DEF Insert, Goto, AuxTypeOK
  <2> QED
    BY <2>1 DEF TellInv, WillTell
<1>8. CASE CountRead(t)
  <2>1. apc'[t] \notin {"idle", "wait"}
    BY <1>8, Zenon DEF CountRead, Goto, AuxTypeOK
  <2> QED
    BY <2>1 DEF TellInv, WillTell
<1>9. CASE SetEntropy(t)
  <2>1. spc'[t] = "need"
    BY <1>9, Zenon DEF SetEntropy, Goto, Finish, ShmGoto, AuxTypeOK, ShmTypeOK
  <2> QED
    BY <2>1, Zenon DEF TellInv, WillTell
<1>10. CASE Unlock(t)
  <2>1. spc'[t] = "need"
    BY <1>10, Zenon DEF Unlock, Goto, Finish, ShmGoto, AuxTypeOK, ShmTypeOK
  <2> QED
    BY <2>1 DEF TellInv, WillTell
<1>11. CASE ProviderCheck(t)
  <2>1. /\ aux' = aux /\ sem' = sem /\ spc' = spc /\ new' = new /\ ups' = ups
        /\ \A u \in Server \ {t} : apc'[u] = apc[u]
        /\ apc[t] = "idle" /\ spc[t] = "out"
    BY <1>11, Zenon DEF ProviderCheck, ProviderGive, Goto, Free, AuxTypeOK, shmVars
  <2>2. \A u \in Server : WillTell(u) => WillTell(u)'
    BY <2>1, Zenon DEF WillTell, RaisesLevel
  <2> QED
    BY <2>1, <2>2, TellQuiet, Zenon
<1> QED
  BY <1>1, <1>2, <1>3, <1>4, <1>5, <1>6, <1>7, <1>8, <1>9, <1>10, <1>11, Zenon DEF Pool

(* So does telling the status itself: the level is looked at after the     *)
(* change, and the level semaphore is among those to raise while it is     *)
(* low.                                                                    *)
LEMMA ShmTell ==
    ASSUME StateInv, TellInv, NEW t \in Server, ShmStep(t)
    PROVE  TellInv'
<1> USE DEF StateInv
<1>0. /\ aux' = aux /\ apc' = apc
      /\ NeedRead(t) \/ NeedTest(t, NeedEntropy) \/ NeedStore(t) \/ UpTest(t) \/ UpPost(t)
      /\ ups[t] \in Seq(Sems) /\ sem["level"] \in Nat
  BY TypeFacts, Zenon DEF ShmStep, NeedStep, auxVars
<1>1. CASE NeedRead(t)
  <2>1. spc'[t] = "test"
    BY <1>1, Zenon DEF NeedRead, ShmGoto, AuxTypeOK, ShmTypeOK
  <2> QED
    BY <2>1, Zenon DEF TellInv, WillTell
<1>2. CASE NeedTest(t, NeedEntropy)
  <2>1. spc'[t] = "store" /\ new'[t] = NeedEntropy
    BY <1>2, Zenon DEF NeedTest, ShmGoto, AuxTypeOK, ShmTypeOK
  <2>2. NeedEntropy' = NeedEntropy
    BY <1>0, Zenon DEF NeedEntropy, AuxAvail
  <2> QED
    BY <2>1, <2>2, Zenon DEF TellInv, WillTell
<1>3. CASE NeedStore(t)
  <2>1. /\ spc[t] = "store" /\ sem' = sem
        /\ \A u \in Server \ {t} : spc'[u] = spc[u] /\ new'[u] = new[u] /\ ups'[u] = ups[u]
    BY <1>3 DEF NeedStore, RaiseNext, ForgetLocals, ShmGoto, AuxTypeOK, ShmTypeOK
  <2>2. ASSUME new[t] PROVE spc'[t] = "up" /\ RaisesLevel(t)'
    <3>1. PICK s \in {StatusUp \o <<"level">>, <<"level">>} : RaiseNext(t, s)
      BY <1>3, <2>2, Zenon DEF NeedStore, LevelUp
    <3>2. s # <<>> /\ s[Len(s)] = "level" /\ Len(s) \in DOMAIN s
      <4>1. CASE s = <<"level">>
        BY <4>1
      <4>2. CASE s = CuseSems \o <<"level">>
        <5>1. CuseSems \in Seq(Sems)
          BY SemFacts, Zenon
        <5> QED
          BY <4>2, <5>1
      <4> QED
        BY <3>1, <4>1, <4>2, Zenon DEF StatusUp
    <3>3. spc'[t] = "up" /\ ups'[t] = s
      BY <3>1, <3>2 DEF RaiseNext, ShmGoto, AuxTypeOK, ShmTypeOK
    <3> QED
      BY <3>2, <3>3, Zenon DEF RaisesLevel
  <2>3. \A u \in Server : WillTell(u) => WillTell(u)'
    BY <1>0, <2>1, <2>2 DEF WillTell, RaisesLevel
  <2> QED
    BY <1>0, <2>1, <2>3, TellQuiet, Zenon
<1>4. CASE UpTest(t)
  <2>0. ups[t] # <<>>
    BY <1>4, Zenon DEF PlaceInv, UpTest
  <2>1. /\ spc[t] = "up" /\ sem' = sem /\ new' = new
        /\ \A u \in Server \ {t} : spc'[u] = spc[u] /\ ups'[u] = ups[u]
        /\ \/ sem[Head(ups[t])] > 0 /\ ups'[t] = Tail(ups[t])
              /\ spc'[t] = IF Tail(ups[t]) = <<>> THEN "out" ELSE "up"
           \/ spc'[t] = "post" /\ ups'[t] = ups[t]
    BY <1>4 DEF UpTest, RaiseNext, ShmGoto, AuxTypeOK, ShmTypeOK
  <2>2. RaisesLevel(t) => RaisesLevel(t)' \/ sem'["level"] > 0
    BY <1>0, <2>0, <2>1, LevelTail, Zenon DEF RaisesLevel
  <2>3. RaisesLevel(t)' => spc'[t] \in {"up", "post"}
    <3>1. RaisesLevel(t)' => ups'[t] # <<>>
      BY DEF RaisesLevel
    <3> QED
      BY <2>1, <3>1, Zenon
  <2>4. \A u \in Server : WillTell(u) => WillTell(u)' \/ sem'["level"] > 0
    BY <1>0, <2>1, <2>2, <2>3 DEF WillTell, RaisesLevel
  <2> QED
    BY <1>0, <2>1, <2>4, TellQuiet, Zenon
<1>5. CASE UpPost(t)
  <2>0. ups[t] # <<>>
    BY <1>5, Zenon DEF PlaceInv, UpPost
  <2>1. /\ spc[t] = "post" /\ new' = new
        /\ \A u \in Server \ {t} : spc'[u] = spc[u] /\ ups'[u] = ups[u]
        /\ ups'[t] = Tail(ups[t])
        /\ spc'[t] = IF Tail(ups[t]) = <<>> THEN "out" ELSE "up"
    BY <1>5, Zenon DEF UpPost, RaiseNext, ShmGoto, AuxTypeOK, ShmTypeOK
  <2>2. /\ sem["level"] > 0 => sem'["level"] > 0
        /\ Head(ups[t]) = "level" => sem'["level"] > 0
    <3>1. "level" \in Sems /\ sem \in [Sems -> Nat]
      BY SemFacts, Zenon DEF AuxTypeOK, ShmTypeOK
    <3>2. sem'["level"] = IF Head(ups[t]) = "level" THEN sem["level"] + 1 ELSE sem["level"]
      BY <1>5, <3>1, Zenon DEF UpPost
    <3> QED
      BY <1>0, <3>2
  <2>3. RaisesLevel(t) => RaisesLevel(t)' \/ sem'["level"] > 0
    BY <1>0, <2>0, <2>1, <2>2, LevelTail, Zenon DEF RaisesLevel
  <2>4. RaisesLevel(t)' => spc'[t] \in {"up", "post"}
    <3>1. RaisesLevel(t)' => ups'[t] # <<>>
      BY DEF RaisesLevel
    <3> QED
      BY <2>1, <3>1, Zenon
  <2>5. \A u \in Server : WillTell(u) => WillTell(u)' \/ sem'["level"] > 0
    BY <1>0, <2>1, <2>3, <2>4, Zenon DEF WillTell, RaisesLevel
  <2> QED
    BY <1>0, <2>2, <2>5, TellQuiet, Zenon
<1> QED
  BY <1>0, <1>1, <1>2, <1>3, <1>4, <1>5, Zenon

-----------------------------------------------------------------------------
(* The invariant of the auxiliary pool and of the telling that follows.    *)
AuxInv == StateInv /\ CoverInv /\ TellInv

LEMMA InitInv == Init => AuxInv
<1> SUFFICES ASSUME Init PROVE AuxInv
  BY Zenon
<1>1. CoverInv
  BY AuxAssumption DEF Init, CoverInv, Writes
<1>2. TellInv
  <2>1. sem["level"] = 1
    BY SemFacts, Zenon DEF Init, ShmInit
  <2> QED
    BY <2>1 DEF TellInv
<1> QED
  BY <1>1, <1>2, InitState, Zenon DEF AuxInv

LEMMA StutterInv == AuxInv /\ UNCHANGED vars => AuxInv'
<1> SUFFICES ASSUME AuxInv, UNCHANGED vars PROVE AuxInv'
  BY Zenon
<1> USE DEF AuxInv, StateInv, vars, auxVars, shmVars
<1>1. AuxTypeOK'
  BY Zenon DEF AuxTypeOK, ShmTypeOK
<1>2. PlaceInv'
  BY DEF PlaceInv, Holds
<1>3. CoverInv'
  BY Zenon DEF CoverInv, Writes
<1>4. TellInv'
  BY Zenon DEF TellInv, NeedEntropy, AuxAvail, WillTell, RaisesLevel
<1> QED
  BY <1>1, <1>2, <1>3, <1>4, Zenon

(* It is inductive.                                                        *)
THEOREM AuxInvariant == Spec => []AuxInv
<1>1. Init => AuxInv
  BY InitInv, Zenon
<1>2. AuxInv /\ [Next]_vars => AuxInv'
  <2> SUFFICES ASSUME AuxInv, [Next]_vars PROVE AuxInv'
    BY Zenon
  <2>1. ASSUME NEW t \in Server, Pool(t) PROVE AuxInv'
    BY <2>1, PoolState, PoolCover, PoolTell, Zenon DEF AuxInv
  <2>2. ASSUME NEW t \in Server, ShmStep(t) PROVE AuxInv'
    <3>1. CoverInv'
      BY <2>2, CoverQuiet, Zenon DEF AuxInv, ShmStep, auxVars, Writes
    <3> QED
      BY <2>2, <3>1, ShmState, ShmTell, Zenon DEF AuxInv
  <2>3. CASE UNCHANGED vars
    BY <2>3, StutterInv, Zenon
  <2> QED
    BY <2>1, <2>2, <2>3, Zenon DEF Next, Pool
<1> QED
  BY <1>1, <1>2, PTL DEF Spec

(* The counters of the pool stay in their ranges: esdm_pool_set_entropy()  *)
(* and esdm_aux_get_pool() never leave more than two pools' worth, and no  *)
(* sum of esdm_rpc_rnd_add_to_ent_cnt() overflows.                         *)
THEOREM AuxTypeCorrect == Spec => []AuxTypeOK
<1>1. AuxInv => AuxTypeOK
  BY Zenon DEF AuxInv, StateInv
<1> QED
  BY <1>1, AuxInvariant, PTL

(* Entropy is used once: what esdm_pool.aux_entropy_bits claims was        *)
(* credited and not yet delivered, whatever esdm_pool_insert_aux(),        *)
(* esdm_aux_get_backtrack(), esdm_rpc_rnd_add_to_ent_cnt() and             *)
(* esdm_rpc_rnd_clear_pool() do at the same time, but for the one overlap. *)
THEOREM EntropyOnceCorrect == Spec => []EntropyOnce
<1>1. AuxInv => EntropyOnce
  BY Zenon DEF AuxInv, CoverInv, EntropyOnce
<1> QED
  BY <1>1, AuxInvariant, PTL

(* A provider that sleeps in esdm_aux_timedwait_for_need_entropy() while   *)
(* the pool is low and nobody works on it has its semaphore raised by      *)
(* esdm_shm_status_set_need_entropy().                                     *)
THEOREM ProviderToldCorrect == Spec => []ProviderTold
<1>1. AuxInv => ProviderTold
  <2> SUFFICES ASSUME AuxInv, apc[Provider] = "wait", NeedEntropy,
                      \A t \in Server \ {Provider} : Free(t)
               PROVE  sem["level"] > 0
    BY Zenon DEF ProviderTold
  <2>1. spc[Provider] = "out"
    BY AuxAssumption, Zenon DEF AuxInv, StateInv, PlaceInv
  <2>2. \A t \in Server : ~WillTell(t)
    BY <2>1, Zenon DEF WillTell, Free
  <2> QED
    BY <2>2, Zenon DEF AuxInv, TellInv
<1> QED
  BY <1>1, AuxInvariant, PTL

-----------------------------------------------------------------------------
(* The clients of the kernel module                                        *)

CONSTANTS
    Raters, MonitorThread, ESDM_DRNG_SECURITY_STRENGTH_BITS, ESDM_DRNG_INIT_SEED_SIZE_BITS,
    ESDM_ES_IRQ_MAX_KERNEL_RNG_ENTROPY, Inputs
VARIABLES fd, retry, rate, cache, kbits, asked, root, get, ask, conf, mixed, unseen

Client == INSTANCE EsdmEsKernelClient

(* The sizes of requests are positive: 256 bits and, for the first seed,   *)
(* 384 (esdm/esdm_definitions.h).                                          *)
ClientHypotheses ==
    /\ ESDM_DRNG_SECURITY_STRENGTH_BITS \in Nat \ {0}
    /\ ESDM_DRNG_INIT_SEED_SIZE_BITS \in Nat \ {0}

(* The places of a thread on its way through the helper that writes the    *)
(* rate.                                                                   *)
Writing == {"compare", "ioctl", "keep"}

(* A read of the kernel source under way, and one that is back.            *)
Under == [pc : {"ioctl", "keep", "read"}, source : Client!Sources, bits : Client!Requests, refused : BOOLEAN]
Done == [pc : {"got"}, source : Client!Sources, bits : Client!Requests, refused : BOOLEAN, e_bits : Nat]

(* What the threads that ask for the level carry: the argument of the      *)
(* helper once it is taken.                                                *)
AskTypeOK ==
    /\ DOMAIN ask = Raters
    /\ \A r \in Raters :
         /\ ask[r].pc \in Writing \cup {"arg"} => ask[r].from \in {"idle", "sched", "pass"}
         /\ ask[r].pc \in Writing => ask[r].arg \in Nat
         /\ ask[r].pc = "ioctl" => ask[r].bits \in Nat

(* The types of the cached and the real size, of the history and of the    *)
(* reader.                                                                 *)
ClientTypeOK ==
    /\ cache \in [Client!Sources -> Nat] /\ kbits \in [Client!Sources -> Nat] /\ mixed \in [Client!Sources -> BOOLEAN]
    /\ get \in {Client!Idle} \cup Under \cup Done

(* The reader is between its ioctl and the store of the new size in the    *)
(* cache.                                                                  *)
Keeping(s) == get.pc = "keep" /\ get.source = s

(* A query took the size that is cached now, so that its ioctl leaves the  *)
(* kernel alone and its store stores the same again.                       *)
WritesNothing(r, s) ==
    Client!Asking(r, s) => ask[r].arg = cache[s] /\ (ask[r].pc = "ioctl" => ask[r].bits = 0)

(* Without an overlap, cache and kernel differ only while the reader is    *)
(* between its ioctl and its store, and no query is on its way then.       *)
Consistent(s) ==
    ~mixed[s] =>
      /\ Keeping(s) => kbits[s] = get.bits /\ \A r \in Raters : ~Client!Asking(r, s)
      /\ ~Keeping(s) => cache[s] \in {0, kbits[s]} /\ \A r \in Raters : WritesNothing(r, s)

(* Cache and kernel agree for both sources.                                *)
AllConsistent == \A s \in Client!Sources : Consistent(s)

(* The inductive invariant of the client.                                  *)
ClientInv == AskTypeOK /\ ClientTypeOK /\ AllConsistent /\ Client!RequestHonoured

(* What a place of the reader says of its record.                          *)
LEMMA GetKinds ==
    ASSUME ClientTypeOK
    PROVE  /\ get.pc \in {"idle", "ioctl", "keep", "read", "got"}
           /\ get.pc = "idle" => get = Client!Idle
           /\ get.pc \in {"ioctl", "keep", "read"} => get \in Under
           /\ get.pc = "got" => get \in Done
           /\ get.pc # "idle" => get.source \in Client!Sources /\ get.bits \in Client!Requests
BY DEF ClientTypeOK, Under, Done, Client!Idle

(* A request is a positive number of bits, which the 0 of an unset cache   *)
(* is not.                                                                 *)
LEMMA RequestsPositive ==
    ASSUME ClientHypotheses, NEW b \in Client!Requests PROVE b \in Nat /\ b # 0
BY Zenon DEF ClientHypotheses, Client!Requests

(* ClientInv holds at the start.                                           *)
LEMMA ClientInitOK == ASSUME ClientHypotheses, Client!Init PROVE ClientInv
<1>1. AskTypeOK BY Zenon DEF Client!Init, AskTypeOK, Client!Idle, Writing
<1>2. ClientTypeOK
  <2>1. cache \in [Client!Sources -> Nat] /\ kbits \in [Client!Sources -> Nat] /\ get \in {Client!Idle} \cup Under \cup Done
    BY Zenon DEF Client!Init, ClientHypotheses
  <2>2. mixed \in [Client!Sources -> BOOLEAN] BY Zenon DEF Client!Init
  <2> QED BY <2>1, <2>2, Zenon DEF ClientTypeOK
<1>3. AllConsistent
  BY Zenon DEF Client!Init, AllConsistent, Consistent, Keeping, WritesNothing, Client!Asking, Client!Idle
<1>4. Client!RequestHonoured BY Zenon DEF Client!Init, Client!RequestHonoured, Client!Idle
<1> QED BY <1>1, <1>2, <1>3, <1>4, Zenon DEF ClientInv

(* A step that only moves threads that do not write the rate.              *)
LEMMA OtherKept ==
    ASSUME ClientInv, UNCHANGED <<cache, kbits, get, mixed>>, DOMAIN ask' = Raters,
           \A r \in Raters : \/ ask'[r] = ask[r]
                             \/ /\ ask'[r].pc \notin Writing
                                /\ ask'[r].pc = "arg" => ask'[r].from \in {"idle", "sched", "pass"}
    PROVE  ClientInv'
<1>1. AskTypeOK' BY Zenon DEF ClientInv, AskTypeOK, Writing
<1>2. ClientTypeOK' BY Zenon DEF ClientInv, ClientTypeOK
<1>3. AllConsistent'
  <2> SUFFICES ASSUME NEW s \in Client!Sources PROVE Consistent(s)' BY Zenon DEF AllConsistent
  <2>1. \A r \in Raters : Client!Asking(r, s)' => Client!Asking(r, s) /\ ask'[r] = ask[r]
    BY Zenon DEF Client!Asking, Writing
  <2>2. Consistent(s) BY Zenon DEF ClientInv, AllConsistent
  <2>3. (Keeping(s)' <=> Keeping(s)) /\ get'.bits = get.bits BY Zenon DEF Keeping
  <2> QED BY <2>1, <2>2, <2>3 DEF Consistent, WritesNothing
<1>4. Client!RequestHonoured' BY Zenon DEF ClientInv, Client!RequestHonoured
<1> QED BY <1>1, <1>2, <1>3, <1>4, Zenon DEF ClientInv

(* Setting a rate keeps it.                                                *)
LEMMA ConfKept ==
    ASSUME ClientInv,
           \/ \E s \in Client!Sources, v \in Inputs : Client!RateSet(s, v)
           \/ \E v \in Inputs : Client!esdm_config_es_krng_entropy_rate_set(v)
           \/ Client!StoreRate
    PROVE  ClientInv'
<1>1. UNCHANGED <<cache, kbits, get, ask, mixed>>
  BY Zenon DEF Client!RateSet, Client!esdm_config_es_krng_entropy_rate_set, Client!StoreRate
<1>2. DOMAIN ask' = Raters BY <1>1, Zenon DEF ClientInv, AskTypeOK
<1> QED BY <1>1, <1>2, OtherKept, Zenon

(* A pass of the monitor keeps it.                                         *)
LEMMA MonitorKept ==
    ASSUME ClientInv, Client!esdm_irq_seed_monitor \/ Client!esdm_sched_seed_monitor \/ Client!esdm_es_mgr_monitor_initialize
    PROVE  ClientInv'
<1>1. UNCHANGED <<cache, kbits, get, mixed>>
  BY Zenon DEF Client!esdm_irq_seed_monitor, Client!esdm_sched_seed_monitor, Client!MonitorSource, Client!esdm_es_mgr_monitor_initialize
<1> DEFINE Aside(f) == f.pc \notin Writing /\ (f.pc = "arg" => f.from \in {"idle", "sched", "pass"})
<1>2. \E f : ask' = [ask EXCEPT ![MonitorThread] = f] /\ Aside(f)
  <2>1. CASE Client!esdm_irq_seed_monitor
    <3>0. PICK p \in {"sched", "arg"} : \E b : ask' = [ask EXCEPT ![MonitorThread] =
             [pc |-> p, from |-> "sched", source |-> "irq", blocks |-> b]]
      BY <2>1, Zenon DEF Client!esdm_irq_seed_monitor, Client!MonitorSource
    <3>1. PICK b : ask' = [ask EXCEPT ![MonitorThread] =
             [pc |-> p, from |-> "sched", source |-> "irq", blocks |-> b]]
      BY <3>0, Zenon
    <3> DEFINE f == [pc |-> p, from |-> "sched", source |-> "irq", blocks |-> b]
    <3>2. Aside(f) BY <3>0, Zenon DEF Writing
    <3> QED BY <3>1, <3>2, Zenon
  <2>2. CASE Client!esdm_sched_seed_monitor
    <3>0. PICK p \in {"pass", "arg"} : \E b : ask' = [ask EXCEPT ![MonitorThread] =
             [pc |-> p, from |-> "pass", source |-> "sched", blocks |-> b]]
      BY <2>2, Zenon DEF Client!esdm_sched_seed_monitor, Client!MonitorSource
    <3>1. PICK b : ask' = [ask EXCEPT ![MonitorThread] =
             [pc |-> p, from |-> "pass", source |-> "sched", blocks |-> b]]
      BY <3>0, Zenon
    <3> DEFINE f == [pc |-> p, from |-> "pass", source |-> "sched", blocks |-> b]
    <3>2. Aside(f) BY <3>0, Zenon DEF Writing
    <3> QED BY <3>1, <3>2, Zenon
  <2>3. CASE Client!esdm_es_mgr_monitor_initialize
    <3>1. \/ ask' = [ask EXCEPT ![MonitorThread] = [pc |-> "irq", from |-> "idle", source |-> "irq",
                                              blocks |-> FALSE]]
          \/ ask' = [ask EXCEPT ![MonitorThread] = Client!Idle]
      BY <2>3, Zenon DEF Client!esdm_es_mgr_monitor_initialize
    <3>2. Aside(Client!Idle) BY Zenon DEF Writing, Client!Idle
    <3>3. Aside([pc |-> "irq", from |-> "idle", source |-> "irq", blocks |-> FALSE]) BY Zenon DEF Writing
    <3> QED BY <3>1, <3>2, <3>3, Zenon
  <2> QED BY <2>1, <2>2, <2>3, Zenon
<1>3. PICK f : ask' = [ask EXCEPT ![MonitorThread] = f] /\ Aside(f) BY <1>2, Zenon
<1>4. DOMAIN ask' = Raters /\ \A r \in Raters : ask'[r] = IF r = MonitorThread THEN f ELSE ask[r]
  BY <1>3, Zenon DEF ClientInv, AskTypeOK
<1> QED BY <1>1, <1>3, <1>4, OtherKept, Zenon

(* A query writes the cached size, and nothing else, unless a change of    *)
(* the size overlaps it.                                                   *)
LEMMA LevelKept ==
    ASSUME ClientInv, NEW r \in Raters, NEW s \in Client!Sources, Client!EntropyLevel(r, s)
    PROVE  ClientInv'
<1>1. UNCHANGED <<cache, kbits, get>> BY Zenon DEF Client!EntropyLevel
<1>2. mixed' = [mixed EXCEPT ![s] = mixed[s] \/ (get.pc = "keep" /\ get.source = s)]
  BY Zenon DEF Client!EntropyLevel
<1>3. /\ mixed' \in [Client!Sources -> BOOLEAN]
      /\ \A t \in Client!Sources : ~mixed'[t] => ~mixed[t] /\ (t = s => ~Keeping(s))
  BY <1>2, Zenon DEF ClientInv, ClientTypeOK, Keeping
<1> DEFINE back == IF ask[r].pc = "arg" THEN ask[r].from ELSE "idle"
           held == IF ask[r].pc = "arg" THEN ask[r].blocks ELSE FALSE
           f == IF fd[s] THEN [pc |-> "compare", source |-> s, arg |-> cache[s], from |-> back,
                               blocks |-> held]
                ELSE IF back = "idle" THEN Client!Idle
                ELSE [pc |-> back, from |-> back, source |-> s, blocks |-> held]
<1>4. ask' = [ask EXCEPT ![r] = f] BY Zenon DEF Client!EntropyLevel, Client!Step
<1>5. back \in {"idle", "sched", "pass"} BY Zenon DEF ClientInv, AskTypeOK
<1>6. /\ f.pc \in {"compare", "idle", "sched", "pass"}
      /\ f.pc = "compare" => f.arg = cache[s] /\ f.source = s /\ f.from \in {"idle", "sched", "pass"}
  BY <1>5, Zenon DEF Client!Idle
<1> HIDE DEF f, back
<1>7. DOMAIN ask' = Raters /\ \A q \in Raters : ask'[q] = IF q = r THEN f ELSE ask[q]
  BY <1>4, Zenon DEF ClientInv, AskTypeOK
<1>8. AskTypeOK' BY <1>1, <1>6, <1>7 DEF ClientInv, AskTypeOK, ClientTypeOK, Writing
<1>9. ClientTypeOK' BY <1>1, <1>3, Zenon DEF ClientInv, ClientTypeOK
<1>10. AllConsistent'
  <2> SUFFICES ASSUME NEW t \in Client!Sources, ~mixed'[t] PROVE Consistent(t)'
    BY Zenon DEF AllConsistent, Consistent, Client!Sources
  <2>1. Consistent(t) /\ ~mixed[t] /\ (Keeping(t)' <=> Keeping(t)) /\ get'.bits = get.bits
    BY <1>1, <1>3, Zenon DEF ClientInv, AllConsistent, Keeping
  <2>2. CASE Keeping(t)
    <3>1. t # s BY <1>3, <2>2, Zenon
    <3>2. \A q \in Raters : ~Client!Asking(q, t)' BY <1>6, <1>7, <2>1, <2>2, <3>1 DEF Consistent, Client!Asking
    <3> QED BY <1>1, <2>1, <2>2, <3>2, Zenon DEF Consistent
  <2>3. CASE ~Keeping(t)
    <3>1. \A q \in Raters : WritesNothing(q, t)'
      BY <1>1, <1>6, <1>7, <2>1, <2>3 DEF Consistent, WritesNothing, Client!Asking
    <3> QED BY <1>1, <2>1, <2>3, <3>1, Zenon DEF Consistent
  <2> QED BY <2>2, <2>3, Zenon
<1>11. Client!RequestHonoured'
  <2>1. get'.pc \in {"read", "got"} => get.source \in Client!Sources
    BY <1>1, GetKinds, Zenon DEF ClientInv
  <2> QED BY <1>1, <1>3, <2>1, Zenon DEF ClientInv, Client!RequestHonoured
<1> QED BY <1>8, <1>9, <1>10, <1>11, Zenon DEF ClientInv

(* The helper compares its argument with the cache: without an overlap     *)
(* they agree and no bits are passed on.                                   *)
LEMMA SetRateKept ==
    ASSUME ClientInv, NEW r \in Raters, NEW s \in Client!Sources, Client!SetEntropyRate(r, s)
    PROVE  ClientInv'
<1>1. UNCHANGED <<cache, kbits, get, mixed>> /\ ask[r].pc = "compare" /\ ask[r].source = s
  BY Zenon DEF Client!SetEntropyRate
<1> DEFINE f == [pc |-> "ioctl", source |-> s, arg |-> ask[r].arg, from |-> ask[r].from,
                 blocks |-> ask[r].blocks,
                 bits |-> IF cache[s] # ask[r].arg THEN ask[r].arg ELSE 0]
<1>2. ask' = [ask EXCEPT ![r] = f] BY Zenon DEF Client!SetEntropyRate, Client!Step
<1>3. f.pc = "ioctl" /\ f.source = s /\ f.arg = ask[r].arg /\ f.from = ask[r].from
      /\ f.bits = IF cache[s] # ask[r].arg THEN ask[r].arg ELSE 0
  BY Zenon
<1> HIDE DEF f
<1>4. DOMAIN ask' = Raters /\ \A q \in Raters : ask'[q] = IF q = r THEN f ELSE ask[q]
  BY <1>2 DEF ClientInv, AskTypeOK
<1>5. AskTypeOK' BY <1>1, <1>3, <1>4 DEF ClientInv, AskTypeOK, Writing
<1>6. ClientTypeOK' BY <1>1, Zenon DEF ClientInv, ClientTypeOK
<1>7. AllConsistent'
  <2> SUFFICES ASSUME NEW t \in Client!Sources, ~mixed'[t] PROVE Consistent(t)'
    BY Zenon DEF AllConsistent, Consistent, Client!Sources
  <2>1. Consistent(t) /\ ~mixed[t] /\ (Keeping(t)' <=> Keeping(t)) /\ get'.bits = get.bits
    BY <1>1, Zenon DEF ClientInv, AllConsistent, Keeping
  <2>2. \A q \in Raters : Client!Asking(q, t)' <=> Client!Asking(q, t)
    BY <1>1, <1>3, <1>4 DEF Client!Asking
  <2>3. ~Keeping(t) => \A q \in Raters : WritesNothing(q, t)'
    BY <1>1, <1>3, <1>4, <2>1, <2>2 DEF Consistent, WritesNothing, Client!Asking
  <2> QED BY <1>1, <2>1, <2>2, <2>3, Zenon DEF Consistent
<1>8. Client!RequestHonoured' BY <1>1, Zenon DEF ClientInv, Client!RequestHonoured
<1> QED BY <1>5, <1>6, <1>7, <1>8 DEF ClientInv

(* A thread that leaves the helper writes nothing any more.                *)
LEMMA BackAside ==
    ASSUME ClientInv, NEW r \in Raters, ask[r].pc \in Writing, Client!Back(r)
    PROVE  /\ DOMAIN ask' = Raters
           /\ \A q \in Raters : \/ ask'[q] = ask[q]
                                \/ /\ ask'[q].pc \notin Writing /\ ask'[q].pc # "arg"
           /\ \A q \in Raters : q # r => ask'[q] = ask[q]
<1> DEFINE f == IF ask[r].from = "idle" THEN Client!Idle
                ELSE [pc |-> ask[r].from, from |-> ask[r].from, source |-> ask[r].source,
                      blocks |-> ask[r].blocks]
<1>1. ask' = [ask EXCEPT ![r] = f] BY Zenon DEF Client!Back, Client!Step
<1>2. ask[r].from \in {"idle", "sched", "pass"} BY Zenon DEF ClientInv, AskTypeOK
<1>3. f.pc \in {"idle", "sched", "pass"} BY <1>2, Zenon DEF Client!Idle
<1> HIDE DEF f
<1> QED BY <1>1, <1>3, Zenon DEF ClientInv, AskTypeOK, Writing

(* The ioctl of a query keeps it: it changes the size in the kernel only   *)
(* after an overlap.                                                       *)
LEMMA RateIoctlKept == ASSUME ClientInv, NEW r \in Raters, Client!RateIoctl(r) PROVE ClientInv'
<1>1. UNCHANGED <<cache, get, mixed>> /\ ask[r].pc = "ioctl" BY Zenon DEF Client!RateIoctl
<1>2. CASE Client!Back(r) /\ UNCHANGED kbits
  BY <1>1, <1>2, BackAside, OtherKept, Zenon DEF Writing
<1>3. ASSUME kbits' = (IF ask[r].bits > 0 THEN [kbits EXCEPT ![ask[r].source] = ask[r].bits] ELSE kbits),
             Client!Step(r, [pc |-> "keep", source |-> ask[r].source, arg |-> ask[r].arg,
                      from |-> ask[r].from, blocks |-> ask[r].blocks])
      PROVE  ClientInv'
  <2> DEFINE f == [pc |-> "keep", source |-> ask[r].source, arg |-> ask[r].arg,
                   from |-> ask[r].from, blocks |-> ask[r].blocks]
  <2>1. ask' = [ask EXCEPT ![r] = f] BY <1>3, Zenon DEF Client!Step
  <2>2. f.pc = "keep" /\ f.source = ask[r].source /\ f.arg = ask[r].arg /\ f.from = ask[r].from
    BY Zenon
  <2> HIDE DEF f
  <2>3. DOMAIN ask' = Raters /\ \A q \in Raters : ask'[q] = IF q = r THEN f ELSE ask[q]
    BY <2>1, Zenon DEF ClientInv, AskTypeOK
  <2>4. \A t \in Client!Sources : t # ask[r].source \/ ask[r].bits = 0 => kbits'[t] = kbits[t]
    BY <1>3 DEF ClientInv, ClientTypeOK
  <2>5. AskTypeOK' BY <1>1, <2>2, <2>3 DEF ClientInv, AskTypeOK, Writing
  <2>6. ask[r].bits \in Nat BY <1>1, Zenon DEF ClientInv, AskTypeOK
  <2>7. ClientTypeOK' BY <1>1, <1>3, <2>6, Zenon DEF ClientInv, ClientTypeOK
  <2>8. ASSUME NEW t \in Client!Sources, ~mixed[t] PROVE kbits'[t] = kbits[t]
    <3>1. Consistent(t) BY Zenon DEF ClientInv, AllConsistent
    <3>2. CASE t = ask[r].source
      <4>1. Client!Asking(r, t) BY <1>1, <3>2, Zenon DEF Client!Asking
      <4>2. ask[r].bits = 0 BY <1>1, <2>8, <3>1, <4>1, Zenon DEF Consistent, WritesNothing
      <4> QED BY <2>4, <4>2, Zenon
    <3>3. CASE t # ask[r].source BY <2>4, <3>3, Zenon
    <3> QED BY <3>2, <3>3, Zenon
  <2>9. AllConsistent'
    <3> SUFFICES ASSUME NEW t \in Client!Sources, ~mixed'[t] PROVE Consistent(t)'
      BY Zenon DEF AllConsistent, Consistent, Client!Sources
    <3>1. Consistent(t) /\ ~mixed[t] /\ (Keeping(t)' <=> Keeping(t)) /\ get'.bits = get.bits
      BY <1>1, Zenon DEF ClientInv, AllConsistent, Keeping
    <3>2. \A q \in Raters : Client!Asking(q, t)' <=> Client!Asking(q, t)
      BY <1>1, <2>2, <2>3 DEF Client!Asking
    <3>3. ~Keeping(t) => \A q \in Raters : WritesNothing(q, t)'
      BY <1>1, <2>2, <2>3, <3>1, <3>2 DEF Consistent, WritesNothing, Client!Asking
    <3>4. kbits'[t] = kbits[t] BY <2>8, <3>1, Zenon
    <3> QED BY <1>1, <3>1, <3>2, <3>3, <3>4, Zenon DEF Consistent
  <2>10. Client!RequestHonoured'
    <3>1. get'.pc \in {"read", "got"} => get.source \in Client!Sources
      BY <1>1, GetKinds, Zenon DEF ClientInv
    <3> QED BY <1>1, <2>8, <3>1, Zenon DEF ClientInv, Client!RequestHonoured
  <2> QED BY <2>5, <2>7, <2>9, <2>10, Zenon DEF ClientInv
<1> QED BY <1>2, <1>3, Zenon DEF Client!RateIoctl

(* The store of a query keeps it: without an overlap it stores what is     *)
(* there.                                                                  *)
LEMMA RateKeepKept == ASSUME ClientInv, NEW r \in Raters, Client!RateKeep(r) PROVE ClientInv'
<1>1. /\ UNCHANGED <<kbits, get, mixed>> /\ ask[r].pc = "keep" /\ Client!Back(r)
      /\ cache' = [cache EXCEPT ![ask[r].source] = ask[r].arg]
  BY Zenon DEF Client!RateKeep
<1>2. /\ DOMAIN ask' = Raters
      /\ \A q \in Raters : ask'[q] = ask[q] \/ (ask'[q].pc \notin Writing /\ ask'[q].pc # "arg")
  BY <1>1, BackAside, Zenon DEF Writing
<1>3. AskTypeOK' BY <1>2, Zenon DEF ClientInv, AskTypeOK, Writing
<1>4. ask[r].arg \in Nat BY <1>1, Zenon DEF ClientInv, AskTypeOK, Writing
<1>5. ClientTypeOK' BY <1>1, <1>4, Zenon DEF ClientInv, ClientTypeOK
<1>6. AllConsistent'
  <2> SUFFICES ASSUME NEW t \in Client!Sources, ~mixed'[t] PROVE Consistent(t)'
    BY Zenon DEF AllConsistent, Consistent, Client!Sources
  <2>1. Consistent(t) /\ ~mixed[t] /\ (Keeping(t)' <=> Keeping(t)) /\ get'.bits = get.bits
    BY <1>1, Zenon DEF ClientInv, AllConsistent, Keeping
  <2>2. \A q \in Raters : Client!Asking(q, t)' => Client!Asking(q, t) /\ ask'[q] = ask[q]
    BY <1>2, Zenon DEF Client!Asking, Writing
  <2>3. ~Keeping(t) => cache'[t] = cache[t]
    <3>1. CASE t = ask[r].source
      <4>1. Client!Asking(r, t) BY <1>1, <3>1, Zenon DEF Client!Asking
      <4> QED BY <1>1, <2>1, <3>1, <4>1, Zenon DEF Consistent, WritesNothing, ClientInv, ClientTypeOK
    <3>2. CASE t # ask[r].source BY <1>1, <3>2, Zenon DEF ClientInv, ClientTypeOK
    <3> QED BY <3>1, <3>2, Zenon
  <2> QED BY <1>1, <2>1, <2>2, <2>3, Zenon DEF Consistent, WritesNothing
<1>7. Client!RequestHonoured' BY <1>1, Zenon DEF ClientInv, Client!RequestHonoured
<1> QED BY <1>3, <1>5, <1>6, <1>7 DEF ClientInv

(* A read goes on without an ioctl when the cache has its size, and then   *)
(* the kernel has it as well.                                              *)
LEMMA GetStartKept ==
    ASSUME ClientHypotheses, ClientInv, NEW s \in Client!Sources, NEW b \in Client!Requests, Client!KernelGet(s, b)
    PROVE  ClientInv'
<1>1. UNCHANGED <<cache, kbits, ask, mixed>> /\ get.pc = "idle" BY Zenon DEF Client!KernelGet
<1>2. AskTypeOK' BY <1>1, Zenon DEF ClientInv, AskTypeOK
<1>3. \/ get' = Client!Idle
      \/ get' = [pc |-> "ioctl", source |-> s, bits |-> b, refused |-> FALSE]
      \/ get' = [pc |-> "read", source |-> s, bits |-> b, refused |-> FALSE] /\ cache[s] = b
  BY Zenon DEF Client!KernelGet
<1>4. get' \in {Client!Idle} \cup Under \cup Done
  <2>1. [pc |-> "ioctl", source |-> s, bits |-> b, refused |-> FALSE] \in Under BY Zenon DEF Under
  <2>2. [pc |-> "read", source |-> s, bits |-> b, refused |-> FALSE] \in Under BY Zenon DEF Under
  <2> QED BY <1>3, <2>1, <2>2, Zenon
<1>5. ClientTypeOK' BY <1>1, <1>4, Zenon DEF ClientInv, ClientTypeOK
<1>6. get'.pc \in {"idle", "ioctl", "read"} BY <1>3 DEF Client!Idle
<1>7. AllConsistent'
  <2> SUFFICES ASSUME NEW t \in Client!Sources PROVE Consistent(t)' BY Zenon DEF AllConsistent
  <2>1. Consistent(t) /\ ~Keeping(t) /\ ~Keeping(t)'
    BY <1>1, <1>6, Zenon DEF ClientInv, AllConsistent, Keeping
  <2>2. \A q \in Raters : WritesNothing(q, t)' <=> WritesNothing(q, t)
    BY <1>1, Zenon DEF WritesNothing, Client!Asking
  <2> QED BY <1>1, <2>1, <2>2, Zenon DEF Consistent
<1>8. Client!RequestHonoured'
  <2>1. CASE get'.pc # "read" BY <1>6, <2>1, Zenon DEF Client!RequestHonoured
  <2>2. CASE get'.pc = "read"
    <3>1. get' = [pc |-> "read", source |-> s, bits |-> b, refused |-> FALSE] /\ cache[s] = b
      BY <1>3, <2>2 DEF Client!Idle
    <3>2. Consistent(s) /\ ~Keeping(s) BY <1>1, Zenon DEF ClientInv, AllConsistent, Keeping
    <3>3. ~mixed[s] => kbits[s] = b BY <3>1, <3>2, RequestsPositive, Zenon DEF Consistent
    <3> QED BY <1>1, <3>1, <3>3, Zenon DEF Client!RequestHonoured
  <2> QED BY <2>1, <2>2, Zenon
<1> QED BY <1>2, <1>5, <1>7, <1>8, Zenon DEF ClientInv

(* The ioctl of the reader sets the size, or is refused; a query that is   *)
(* under way overlaps it.                                                  *)
LEMMA RequestSetKept ==
    ASSUME ClientHypotheses, ClientInv, Client!esdm_kernel_set_requested_bits
    PROVE  ClientInv'
<1>1. UNCHANGED <<cache, ask>> /\ get.pc = "ioctl" /\ get \in Under
      /\ get.source \in Client!Sources /\ get.bits \in Client!Requests
  BY GetKinds, Zenon DEF ClientInv, Client!esdm_kernel_set_requested_bits
<1>2. AskTypeOK' BY <1>1, Zenon DEF ClientInv, AskTypeOK
<1>3. ASSUME kbits' = [kbits EXCEPT ![get.source] = get.bits],
             mixed' = [mixed EXCEPT ![get.source] = \E r \in Raters : Client!Asking(r, get.source)],
             get' = [get EXCEPT !.pc = "keep"]
      PROVE  ClientInv'
  <2>1. get' \in Under /\ get'.pc = "keep" /\ get'.source = get.source /\ get'.bits = get.bits
    BY <1>1, <1>3, Zenon DEF Under
  <2>2. get.bits \in Nat BY <1>1, RequestsPositive, Zenon
  <2>3. mixed' \in [Client!Sources -> BOOLEAN] BY <1>3, Zenon DEF ClientInv, ClientTypeOK
  <2>4. ClientTypeOK' BY <1>1, <1>3, <2>1, <2>2, <2>3, Zenon DEF ClientInv, ClientTypeOK
  <2>5. ~mixed'[get.source] => \A r \in Raters : ~Client!Asking(r, get.source)
    BY <1>1, <1>3, Zenon DEF ClientInv, ClientTypeOK
  <2>6. \A t \in Client!Sources : t # get.source => mixed'[t] = mixed[t]
    BY <1>3, Zenon DEF ClientInv, ClientTypeOK
  <2>7. \A t \in Client!Sources : kbits'[t] = IF t = get.source THEN get.bits ELSE kbits[t]
    BY <1>3, Zenon DEF ClientInv, ClientTypeOK
  <2>8. AllConsistent'
    <3> SUFFICES ASSUME NEW t \in Client!Sources, ~mixed'[t] PROVE Consistent(t)'
      BY Zenon DEF AllConsistent, Consistent, Client!Sources
    <3>1. Consistent(t) /\ ~Keeping(t) /\ (Keeping(t)' <=> t = get.source)
      BY <1>1, <2>1, Zenon DEF ClientInv, AllConsistent, Keeping
    <3>2. \A q \in Raters : /\ Client!Asking(q, t)' <=> Client!Asking(q, t)
                            /\ WritesNothing(q, t)' <=> WritesNothing(q, t)
      BY <1>1, Zenon DEF WritesNothing, Client!Asking
    <3>3. CASE t = get.source BY <2>1, <2>5, <2>7, <3>1, <3>2, <3>3, Zenon DEF Consistent
    <3>4. CASE t # get.source BY <1>1, <2>6, <2>7, <3>1, <3>2, <3>4, Zenon DEF Consistent
    <3> QED BY <3>3, <3>4, Zenon
  <2>9. Client!RequestHonoured' BY <2>1, Zenon DEF Client!RequestHonoured
  <2> QED BY <1>2, <2>4, <2>8, <2>9, Zenon DEF ClientInv
<1>4. ASSUME get' = [get EXCEPT !.pc = "read", !.refused = TRUE], UNCHANGED <<kbits, mixed>>
      PROVE  ClientInv'
  <2>0. get = [pc |-> get.pc, source |-> get.source, bits |-> get.bits, refused |-> get.refused]
    BY <1>1, Zenon DEF Under
  <2>1. get' = [pc |-> "read", source |-> get.source, bits |-> get.bits, refused |-> TRUE]
    BY <1>4, <2>0, Zenon
  <2>2. get' \in Under BY <1>1, <2>1, Zenon DEF Under
  <2>3. get'.pc = "read" /\ get'.refused BY <2>1, Zenon
  <2>4. ClientTypeOK' BY <1>1, <1>4, <2>2, Zenon DEF ClientInv, ClientTypeOK
  <2>5. AllConsistent'
    <3> SUFFICES ASSUME NEW t \in Client!Sources PROVE Consistent(t)' BY Zenon DEF AllConsistent
    <3>1. Consistent(t) /\ ~Keeping(t) /\ ~Keeping(t)'
      BY <1>1, <2>3, Zenon DEF ClientInv, AllConsistent, Keeping
    <3>2. \A q \in Raters : WritesNothing(q, t)' <=> WritesNothing(q, t)
      BY <1>1, Zenon DEF WritesNothing, Client!Asking
    <3> QED BY <1>1, <1>4, <3>1, <3>2, Zenon DEF Consistent
  <2>6. Client!RequestHonoured' BY <2>3, Zenon DEF Client!RequestHonoured
  <2> QED BY <1>2, <2>4, <2>5, <2>6 DEF ClientInv
<1> QED BY <1>3, <1>4, Zenon DEF Client!esdm_kernel_set_requested_bits

(* The reader stores the size that the kernel has by now.                  *)
LEMMA KeepKept == ASSUME ClientHypotheses, ClientInv, Client!KeepRequested PROVE ClientInv'
<1>1. /\ UNCHANGED <<kbits, ask, mixed>> /\ get.pc = "keep" /\ get \in Under
      /\ get.source \in Client!Sources /\ get.bits \in Client!Requests
      /\ cache' = [cache EXCEPT ![get.source] = get.bits]
      /\ get' = [get EXCEPT !.pc = "read"]
  BY GetKinds, Zenon DEF ClientInv, Client!KeepRequested
<1>2. get' \in Under /\ get'.pc = "read" /\ get'.source = get.source /\ get'.bits = get.bits
  BY <1>1, Zenon DEF Under
<1>3. get.bits \in Nat BY <1>1, RequestsPositive, Zenon
<1>4. AskTypeOK' BY <1>1, Zenon DEF ClientInv, AskTypeOK
<1>5. ClientTypeOK' BY <1>1, <1>2, <1>3, Zenon DEF ClientInv, ClientTypeOK
<1>6. \A t \in Client!Sources : cache'[t] = IF t = get.source THEN get.bits ELSE cache[t]
  BY <1>1, Zenon DEF ClientInv, ClientTypeOK
<1>7. AllConsistent'
  <2> SUFFICES ASSUME NEW t \in Client!Sources, ~mixed'[t] PROVE Consistent(t)'
    BY Zenon DEF AllConsistent, Consistent, Client!Sources
  <2>1. Consistent(t) /\ ~mixed[t] /\ ~Keeping(t)' /\ (Keeping(t) <=> t = get.source)
    BY <1>1, <1>2, Zenon DEF ClientInv, AllConsistent, Keeping
  <2>2. \A q \in Raters : Client!Asking(q, t)' <=> Client!Asking(q, t) BY <1>1, Zenon DEF Client!Asking
  <2>3. CASE t = get.source
    BY <1>1, <1>6, <2>1, <2>2, <2>3, Zenon DEF Consistent, WritesNothing
  <2>4. CASE t # get.source
    BY <1>1, <1>6, <2>1, <2>2, <2>4, Zenon DEF Consistent, WritesNothing
  <2> QED BY <2>3, <2>4
<1>8. Client!RequestHonoured'
  <2>1. Consistent(get.source) /\ Keeping(get.source)
    BY <1>1, Zenon DEF ClientInv, AllConsistent, Keeping
  <2>2. ~mixed[get.source] => kbits[get.source] = get.bits BY <2>1, Zenon DEF Consistent
  <2> QED BY <1>1, <1>2, <2>2, Zenon DEF Client!RequestHonoured
<1> QED BY <1>4, <1>5, <1>7, <1>8 DEF ClientInv

(* The end of a read keeps it: the kernel credits at most its size.        *)
LEMMA GetEndKept ==
    ASSUME ClientHypotheses, ClientInv, Client!esdm_kernel_read \/ Client!GetReturn
    PROVE  ClientInv'
<1>1. UNCHANGED <<cache, kbits, ask, mixed>> BY Zenon DEF Client!esdm_kernel_read, Client!GetReturn
<1>2. get.pc \in {"read", "got"} /\ get'.pc \in {"got", "idle"}
  BY DEF Client!esdm_kernel_read, Client!GetReturn, Client!Idle
<1>3. AskTypeOK' BY <1>1, Zenon DEF ClientInv, AskTypeOK
<1>4. AllConsistent'
  <2> SUFFICES ASSUME NEW t \in Client!Sources PROVE Consistent(t)' BY Zenon DEF AllConsistent
  <2>1. Consistent(t) /\ ~Keeping(t) /\ ~Keeping(t)'
    BY <1>2, Zenon DEF ClientInv, AllConsistent, Keeping
  <2>2. \A q \in Raters : WritesNothing(q, t)' <=> WritesNothing(q, t)
    BY <1>1, Zenon DEF WritesNothing, Client!Asking
  <2> QED BY <1>1, <2>1, <2>2, Zenon DEF Consistent
<1>5. CASE Client!GetReturn
  <2>1. get' = Client!Idle BY <1>5, Zenon DEF Client!GetReturn
  <2>2. ClientTypeOK' BY <1>1, <2>1, Zenon DEF ClientInv, ClientTypeOK
  <2>3. Client!RequestHonoured' BY <2>1, Zenon DEF Client!RequestHonoured, Client!Idle
  <2> QED BY <1>3, <1>4, <2>2, <2>3, Zenon DEF ClientInv
<1>6. CASE Client!esdm_kernel_read
  <2>1. get.pc = "read" /\ get \in Under /\ get.source \in Client!Sources /\ get.bits \in Client!Requests
    BY <1>6, GetKinds, Zenon DEF ClientInv, Client!esdm_kernel_read
  <2>2. PICK e \in {0, kbits[get.source]} :
          get' = [pc |-> "got", source |-> get.source, bits |-> get.bits, refused |-> get.refused,
                  e_bits |-> Client!Smaller(ESDM_DRNG_INIT_SEED_SIZE_BITS, e)]
    BY <1>6, Zenon DEF Client!esdm_kernel_read
  <2> DEFINE m == Client!Smaller(ESDM_DRNG_INIT_SEED_SIZE_BITS, e)
  <2>3. kbits[get.source] \in Nat BY <2>1, Zenon DEF ClientInv, ClientTypeOK
  <2>4. m \in Nat /\ m <= kbits[get.source]
    BY <2>2, <2>3 DEF ClientHypotheses, Client!Smaller
  <2> HIDE DEF m
  <2>5. get' = [pc |-> "got", source |-> get.source, bits |-> get.bits, refused |-> get.refused,
                e_bits |-> m]
    BY <2>2, Zenon DEF m
  <2>6. get.refused \in BOOLEAN BY <2>1, Zenon DEF Under
  <2>7. get' \in Done BY <2>1, <2>4, <2>5, <2>6, Zenon DEF Done
  <2>8. ClientTypeOK' BY <1>1, <2>7, Zenon DEF ClientInv, ClientTypeOK
  <2>9. Client!RequestHonoured' BY <1>1, <2>1, <2>4, <2>5, Zenon DEF ClientInv, Client!RequestHonoured
  <2> QED BY <1>3, <1>4, <2>8, <2>9, Zenon DEF ClientInv
<1> QED BY <1>5, <1>6, Zenon

(* Every step keeps ClientInv.                                             *)
LEMMA ClientStep == ASSUME ClientHypotheses, ClientInv, [Client!Next]_Client!clientVars PROVE ClientInv'
<1>1. CASE UNCHANGED Client!clientVars
  <2>1. DOMAIN ask' = Raters BY <1>1, Zenon DEF Client!clientVars, ClientInv, AskTypeOK
  <2> QED BY <1>1, <2>1, OtherKept, Zenon DEF Client!clientVars
<1>2. CASE Client!Next
  <2> USE DEF Client!esdm_config_es_irq_entropy_rate_set, Client!esdm_config_es_sched_entropy_rate_set,
              Client!esdm_irq_entropylevel, Client!esdm_sched_entropylevel, Client!esdm_irq_set_entropy_rate,
              Client!esdm_sched_set_entropy_rate, Client!esdm_irq_get, Client!esdm_sched_get
  <2>0. "irq" \in Client!Sources /\ "sched" \in Client!Sources BY Zenon DEF Client!Sources
  <2> QED BY <1>2, <2>0, ConfKept, MonitorKept, LevelKept, SetRateKept, RateIoctlKept, RateKeepKept,
             GetStartKept, RequestSetKept, KeepKept, GetEndKept, Zenon DEF Client!Next
<1> QED BY <1>1, <1>2, Zenon

(* The kernel collects as many bits as esdm_irq_get() or esdm_sched_get()  *)
(* was asked for, and no more are credited, with any number of threads     *)
(* that ask for the level, unless the kernel refused the size or such a    *)
(* query overlapped the last change of it.                                 *)
THEOREM RequestHonouredCorrect ==
    ASSUME ClientHypotheses PROVE Client!Spec => []Client!RequestHonoured
<1>1. Client!Init => ClientInv BY ClientInitOK, Zenon
<1>2. ClientInv /\ [Client!Next]_Client!clientVars => ClientInv' BY ClientStep, Zenon
<1>3. ClientInv => Client!RequestHonoured BY Zenon DEF ClientInv
<1> QED BY <1>1, <1>2, <1>3, PTL DEF Client!Spec

(* The rates of the configuration that meet here.                          *)
RateNames == {"irq", "sched", "krng"}

(* The rate of the kernel RNG is small beside an open interrupt-based      *)
(* source, stored or about to be stored, unless it was checked while that  *)
(* source was off.                                                         *)
KrngInv ==
    /\ rate \in [RateNames -> Nat]
    /\ conf.pc = "store" => conf.source \in RateNames /\ conf.val \in Nat
    /\ conf.pc = "store" /\ conf.source = "krng" /\ ~unseen =>
         conf.val <= ESDM_ES_IRQ_MAX_KERNEL_RNG_ENTROPY
    /\ fd["irq"] /\ ~unseen => rate["krng"] <= ESDM_ES_IRQ_MAX_KERNEL_RNG_ENTROPY
    /\ DOMAIN fd = Client!Sources

(* Rates are numbers.                                                      *)
KrngHypotheses ==
    /\ ClientHypotheses
    /\ ESDM_ES_IRQ_MAX_KERNEL_RNG_ENTROPY \in Nat
    /\ Inputs \subseteq Nat

(* The share of a rate in a request of full size is the rate.              *)
LEMMA ShareOfWhole == ASSUME NEW x \in Nat, NEW n \in Nat \ {0} PROVE (x * n) \div n = x
OBVIOUS

(* KrngInv holds at the start, when no source is open.                     *)
LEMMA KrngInitOK == ASSUME KrngHypotheses, Client!Init PROVE KrngInv
<1>1. rate \in [RateNames -> Nat]
  BY DEF Client!Init, KrngHypotheses, ClientHypotheses, Client!esdm_config_init, Client!esdm_config_entropy_rate_max, Client!Smaller, RateNames
<1>2. DOMAIN fd = Client!Sources /\ ~fd["irq"] BY Zenon DEF Client!Init, Client!Sources
<1>3. conf.pc = "idle" BY Zenon DEF Client!Init, Client!Idle
<1> QED BY <1>1, <1>2, <1>3, Zenon DEF KrngInv

(* esdm_config_entropy_rate_max() only lowers a rate.                      *)
LEMMA RateMaxNat ==
    ASSUME KrngHypotheses, NEW v \in Nat
    PROVE  Client!esdm_config_entropy_rate_max(v) \in Nat /\ Client!esdm_config_entropy_rate_max(v) <= v
BY DEF KrngHypotheses, ClientHypotheses, Client!esdm_config_entropy_rate_max, Client!Smaller

(* Every step keeps KrngInv: a new rate is capped when the source is seen, *)
(* and the opening of the source lowers the one that is set.               *)
LEMMA KrngStep == ASSUME KrngHypotheses, KrngInv, [Client!Next]_Client!clientVars PROVE KrngInv'
<1>i. "irq" \in Client!Sources BY Zenon DEF Client!Sources
<1>1. ASSUME NEW s \in Client!Sources, NEW v \in Inputs, Client!RateSet(s, v) PROVE KrngInv'
  <2>1. v \in Nat BY Zenon DEF KrngHypotheses
  <2> DEFINE set == Client!esdm_config_entropy_rate_max(v)
  <2>2. set \in Nat BY <2>1, RateMaxNat, Zenon
  <2> HIDE DEF set
  <2>3. /\ conf' = [pc |-> "store", source |-> s, val |-> set] /\ UNCHANGED <<fd, unseen>>
        /\ rate' = IF set > 0 THEN [rate EXCEPT ![Client!Other(s)] = 0] ELSE rate
    BY <1>1, Zenon DEF Client!RateSet, set
  <2>4. s \in {"irq", "sched"} /\ Client!Other(s) \in {"irq", "sched"} BY Zenon DEF Client!Sources, Client!Other
  <2>5. rate' \in [RateNames -> Nat] /\ rate'["krng"] = rate["krng"]
    BY <2>3, <2>4, Zenon DEF KrngInv, RateNames
  <2> QED BY <2>2, <2>3, <2>4, <2>5, Zenon DEF KrngInv, RateNames
<1>2. ASSUME NEW v \in Inputs, Client!esdm_config_es_krng_entropy_rate_set(v) PROVE KrngInv'
  <2>1. v \in Nat /\ ESDM_ES_IRQ_MAX_KERNEL_RNG_ENTROPY \in Nat BY Zenon DEF KrngHypotheses
  <2> DEFINE ent == IF Client!esdm_irq_enabled THEN Client!Smaller(ESDM_ES_IRQ_MAX_KERNEL_RNG_ENTROPY, v) ELSE v
             set == Client!esdm_config_entropy_rate_max(ent)
  <2>2. ent \in Nat /\ (Client!esdm_irq_enabled => ent <= ESDM_ES_IRQ_MAX_KERNEL_RNG_ENTROPY)
    BY <2>1 DEF Client!Smaller
  <2>3. /\ conf' = [pc |-> "store", source |-> "krng", val |-> set] /\ UNCHANGED <<fd, rate>>
        /\ unseen' = (unseen \/ ~Client!esdm_irq_enabled)
    BY <1>2, Zenon DEF Client!esdm_config_es_krng_entropy_rate_set
  <2> HIDE DEF ent
  <2>4. set \in Nat /\ set <= ent BY <2>2, RateMaxNat, Zenon
  <2> HIDE DEF set
  <2>5. ~unseen' => ~unseen /\ Client!esdm_irq_enabled BY <2>3, Zenon
  <2>6. conf'.pc = "store" /\ conf'.source = "krng" /\ conf'.val = set BY <2>3, Zenon
  <2>7. ~unseen' => set <= ESDM_ES_IRQ_MAX_KERNEL_RNG_ENTROPY BY <2>1, <2>2, <2>4, <2>5
  <2> QED BY <2>3, <2>4, <2>5, <2>6, <2>7, Zenon DEF KrngInv, RateNames
<1>3. CASE Client!StoreRate
  <2>1. /\ conf.pc = "store" /\ UNCHANGED <<fd, unseen>> /\ conf' = Client!Idle
        /\ rate' = [rate EXCEPT ![conf.source] = conf.val]
    BY <1>3, Zenon DEF Client!StoreRate
  <2>2. rate' \in [RateNames -> Nat] BY <2>1, Zenon DEF KrngInv
  <2>3. rate'["krng"] = IF conf.source = "krng" THEN conf.val ELSE rate["krng"]
    BY <2>1, Zenon DEF KrngInv, RateNames
  <2> QED BY <2>1, <2>2, <2>3, Zenon DEF KrngInv, Client!Idle
<1>4. CASE Client!esdm_irq_seed_monitor
  <2>1. UNCHANGED conf BY <1>4, Zenon DEF Client!esdm_irq_seed_monitor, Client!MonitorSource
  <2>2. CASE UNCHANGED <<fd, rate, unseen>> BY <2>1, <2>2, Zenon DEF KrngInv
  <2>3. CASE Client!esdm_irq_initialize
    <3>1. rate' \in [RateNames -> Nat] /\ rate'["krng"] = ESDM_ES_IRQ_MAX_KERNEL_RNG_ENTROPY
      BY <2>3, Zenon DEF Client!esdm_irq_initialize, KrngInv, RateNames, KrngHypotheses
    <3>2. unseen' = (conf.pc = "store" /\ conf.source = "krng" /\ unseen) /\ DOMAIN fd' = Client!Sources
      BY <2>3, Zenon DEF Client!esdm_irq_initialize, KrngInv
    <3>3. conf.pc = "store" /\ conf.source = "krng" /\ ~unseen' => ~unseen BY <3>2, Zenon
    <3> QED BY <2>1, <3>1, <3>2, <3>3 DEF KrngInv, KrngHypotheses
  <2> QED BY <1>4, <2>2, <2>3, Zenon DEF Client!esdm_irq_seed_monitor, Client!MonitorSource
<1>5. CASE Client!esdm_sched_seed_monitor
  <2>1. UNCHANGED conf BY <1>5, Zenon DEF Client!esdm_sched_seed_monitor, Client!MonitorSource
  <2>2. CASE UNCHANGED <<fd, rate, unseen>> BY <2>1, <2>2 DEF KrngInv
  <2>3. CASE Client!esdm_sched_initialize
    <3>1. UNCHANGED <<rate, unseen>> BY <2>3, Zenon DEF Client!esdm_sched_initialize
    <3>2. DOMAIN fd' = Client!Sources /\ fd'["irq"] = fd["irq"]
      BY <2>3, <1>i, Zenon DEF Client!esdm_sched_initialize, KrngInv
    <3> QED BY <2>1, <3>1, <3>2, Zenon DEF KrngInv
  <2> QED BY <1>5, <2>2, <2>3, Zenon DEF Client!esdm_sched_seed_monitor, Client!MonitorSource
<1>6. ASSUME UNCHANGED <<fd, rate, conf, unseen>> PROVE KrngInv' BY <1>6, Zenon DEF KrngInv
<1>7. CASE UNCHANGED Client!clientVars BY <1>6, <1>7, Zenon DEF Client!clientVars
<1>8. ASSUME \/ Client!esdm_es_mgr_monitor_initialize
             \/ \E r \in Raters : \/ Client!esdm_irq_entropylevel(r) \/ Client!esdm_irq_set_entropy_rate(r)
                                  \/ Client!esdm_sched_entropylevel(r) \/ Client!esdm_sched_set_entropy_rate(r)
                                  \/ Client!RateIoctl(r) \/ Client!RateKeep(r)
             \/ \E b \in Client!Requests : Client!esdm_irq_get(b) \/ Client!esdm_sched_get(b)
             \/ Client!esdm_kernel_set_requested_bits \/ Client!KeepRequested \/ Client!esdm_kernel_read \/ Client!GetReturn
      PROVE  KrngInv'
  BY <1>6, <1>8, Zenon
  DEF Client!esdm_es_mgr_monitor_initialize, Client!esdm_irq_entropylevel, Client!esdm_irq_set_entropy_rate,
      Client!esdm_sched_entropylevel, Client!esdm_sched_set_entropy_rate, Client!EntropyLevel, Client!SetEntropyRate, Client!RateIoctl,
      Client!RateKeep, Client!esdm_irq_get, Client!esdm_sched_get, Client!KernelGet, Client!esdm_kernel_set_requested_bits,
      Client!KeepRequested, Client!esdm_kernel_read, Client!GetReturn
<1> QED
  <2>1. "sched" \in Client!Sources BY Zenon DEF Client!Sources
  <2> QED BY <1>i, <1>1, <1>2, <1>3, <1>4, <1>5, <1>7, <1>8, <2>1, Zenon
          DEF Client!Next, Client!esdm_config_es_irq_entropy_rate_set, Client!esdm_config_es_sched_entropy_rate_set

(* Beside an enabled interrupt-based source the kernel RNG counts no more  *)
(* than ESDM_ES_IRQ_MAX_KERNEL_RNG_ENTROPY bits                            *)
(* (esdm_config_es_krng_entropy_rate_set(), esdm_irq_initialize()), unless *)
(* its rate was set while that source was off.                             *)
THEOREM KrngCappedCorrect ==
    ASSUME KrngHypotheses PROVE Client!Spec => []Client!KrngCapped
<1>1. Client!Init => KrngInv BY KrngInitOK, Zenon
<1>2. KrngInv /\ [Client!Next]_Client!clientVars => KrngInv' BY KrngStep, Zenon
<1>3. ASSUME KrngInv PROVE Client!KrngCapped
  <2> DEFINE x == Client!esdm_krng_properties_entropylevel(rate.krng)
             n == ESDM_DRNG_SECURITY_STRENGTH_BITS
  <2> SUFFICES ASSUME Client!esdm_irq_enabled, ~unseen
               PROVE  Client!esdm_krng_entropylevel(n) <= ESDM_ES_IRQ_MAX_KERNEL_RNG_ENTROPY
    BY Zenon DEF Client!KrngCapped
  <2>0. n \in Nat \ {0} /\ ESDM_ES_IRQ_MAX_KERNEL_RNG_ENTROPY \in Nat
    BY Zenon DEF KrngHypotheses, ClientHypotheses
  <2>1. x \in Nat /\ x <= ESDM_ES_IRQ_MAX_KERNEL_RNG_ENTROPY
    BY <1>3, <2>0 DEF KrngInv, Client!esdm_irq_enabled, Client!esdm_krng_properties_entropylevel, RateNames
  <2> HIDE DEF x, n
  <2>2. (x * n) \div n = x BY <2>0, <2>1, ShareOfWhole, Zenon
  <2>3. Client!esdm_krng_entropylevel(n) = Client!Smaller((x * n) \div n, n)
    BY Zenon DEF Client!esdm_krng_entropylevel, Client!esdm_fast_noise_entropylevel, x, n
  <2> QED BY <2>0, <2>1, <2>2, <2>3 DEF Client!Smaller
<1> QED BY <1>1, <1>2, <1>3, PTL DEF Client!Spec

-----------------------------------------------------------------------------
(* The fast sources                                                        *)

CONSTANTS STRENGTH, RequestSizes, Rates, DigestSizes, CpuMultiplier, ESDM_CPU_FULL_ENT_MULTIPLIER
VARIABLES used, rates, usable, multiplier, digest, read, side, seen, broken, stale, overtaken

FastEs == INSTANCE EsdmEsFast WITH raced <- overtaken

(* Sizes and rates are numbers; the strength is positive.                  *)
FastHypotheses ==
    /\ STRENGTH \in Nat \ {0} /\ RequestSizes \subseteq Nat /\ Rates \subseteq Nat
    /\ DigestSizes \subseteq Nat
    /\ CpuMultiplier \in Nat /\ ESDM_CPU_FULL_ENT_MULTIPLIER \in Nat

(* A read of the CPU that pulls its words.                                 *)
Pulling == [pc : {"pull"}, source : {"cpu"}, left : Nat, done : Nat, bits : Nat]

(* The types of the numbers.                                               *)
NumbersOK ==
    /\ rates \in [FastEs!Fast -> Nat] /\ multiplier \in Nat /\ digest \in Nat /\ seen \subseteq Nat

(* The places of the reader, and the source each of them belongs to.       *)
ReadOK ==
    /\ read.pc \in {"idle", "multiplier", "raise", "read", "pull", "got"}
    /\ read.pc # "idle" => read.source \in FastEs!Fast /\ read.bits \in Nat
    /\ read.pc \in {"multiplier", "raise", "pull"} => read.source = "cpu"
    /\ read.pc = "read" => read.source # "cpu"
    /\ read.pc = "pull" => read \in Pulling

(* The rate that a switch of the hash has read.                            *)
SideOK == side.pc = "cap" => side.rate \in Nat

(* A read under way may see the present rate, and the level that           *)
(* esdm_krng_get() took is one of a rate it saw.                           *)
RateSeen ==
    /\ read.pc # "idle" => rates[read.source] \in seen
    /\ read.pc = "read" /\ read.source = "krng" => \E rt \in seen : read.ent = FastEs!Level(rt, read.bits)

(* A multiplier that is set is at least that of the CPU, and at least the  *)
(* configured one unless a thread is about to raise it; a read of the CPU  *)
(* makes as many pulls.                                                    *)
MultiplierSet ==
    /\ multiplier > 0 => /\ multiplier >= FastEs!Most(CpuMultiplier, 1)
                         /\ multiplier >= FastEs!Raised \/ read.pc = "raise" \/ side.pc = "raise"
    /\ read.pc = "raise" \/ side.pc = "raise" => multiplier > 0
    /\ read.pc = "pull" => read.left + read.done >= FastEs!Raised \/ overtaken

(* The inductive invariant of the fast sources.                            *)
FastInv == NumbersOK /\ ReadOK /\ SideOK /\ RateSeen /\ MultiplierSet /\ FastEs!CreditEarned

(* A level is a number.                                                    *)
LEMMA LevelNat == ASSUME FastHypotheses, NEW rt \in Nat, NEW bits \in Nat PROVE FastEs!Level(rt, bits) \in Nat
<1>1. rt * bits \in Nat OBVIOUS
<1>2. ASSUME NEW n \in Nat, NEW d \in Nat \ {0} PROVE n \div d \in Nat BY <1>2
<1>3. (rt * bits) \div STRENGTH \in Nat BY <1>1, <1>2, Zenon DEF FastHypotheses
<1> QED BY <1>3, Zenon DEF FastEs!Level, FastEs!Least

(* FastInv holds at the start.                                             *)
LEMMA FastInitOK == ASSUME FastHypotheses, FastEs!Init PROVE FastInv
<1>0. read.pc = "idle" /\ side.pc = "idle" BY Zenon DEF FastEs!Init, FastEs!AtRest
<1>1. NumbersOK BY Zenon DEF FastEs!Init, FastHypotheses, NumbersOK
<1>2. ReadOK BY <1>0, Zenon DEF ReadOK
<1>3. SideOK BY <1>0, Zenon DEF SideOK
<1>4. RateSeen BY <1>0, Zenon DEF RateSeen
<1>5. MultiplierSet BY <1>0 DEF FastEs!Init, MultiplierSet
<1>6. FastEs!CreditEarned BY <1>0, Zenon DEF FastEs!Init, FastEs!CreditEarned
<1> QED BY <1>1, <1>2, <1>3, <1>4, <1>5, <1>6, Zenon DEF FastInv

(* A rate that is stored while the reader is elsewhere is one it may see.  *)
LEMMA StoredSeen ==
    ASSUME FastInv, NEW s \in FastEs!Fast, NEW v \in Nat, FastEs!SetRate(s, v)
    PROVE  /\ rates' \in [FastEs!Fast -> Nat] /\ seen' \subseteq Nat /\ seen \subseteq seen'
           /\ \A t \in FastEs!Fast : rates'[t] = IF t = s THEN v ELSE rates[t]
           /\ read.pc # "idle" => rates'[read.source] \in seen'
<1>1. rates \in [FastEs!Fast -> Nat] /\ seen \subseteq Nat BY Zenon DEF FastInv, NumbersOK
<1>2. /\ rates' = [rates EXCEPT ![s] = v]
      /\ seen' = IF read.pc # "idle" /\ read.source = s THEN seen \cup {v} ELSE seen
  BY Zenon DEF FastEs!SetRate
<1>3. rates' \in [FastEs!Fast -> Nat] /\ \A t \in FastEs!Fast : rates'[t] = IF t = s THEN v ELSE rates[t]
  BY <1>1, <1>2, Zenon
<1>4. seen' \subseteq Nat /\ seen \subseteq seen' BY <1>1, <1>2, Zenon
<1>5. read.pc # "idle" => read.source \in FastEs!Fast /\ rates[read.source] \in seen
  BY Zenon DEF FastInv, ReadOK, RateSeen
<1>6. read.pc # "idle" /\ read.source = s => v \in seen' BY <1>2, Zenon
<1> QED BY <1>3, <1>4, <1>5, <1>6, Zenon

(* A step beside the reader that leaves the multiplier alone.              *)
LEMMA BesideKept ==
    ASSUME FastInv, UNCHANGED <<read, multiplier, overtaken>>,
           rates' \in [FastEs!Fast -> Nat], digest' \in Nat, seen' \subseteq Nat, seen \subseteq seen',
           read.pc # "idle" => rates'[read.source] \in seen',
           SideOK', (side'.pc = "raise" <=> side.pc = "raise"),
           broken' /\ ~stale' => rates'["cpu"] = 0
    PROVE  FastInv'
<1>1. NumbersOK' BY Zenon DEF FastInv, NumbersOK
<1>2. ReadOK' BY Zenon DEF FastInv, ReadOK
<1>3. RateSeen' BY Zenon DEF FastInv, RateSeen
<1>4. MultiplierSet' BY Zenon DEF FastInv, MultiplierSet
<1>5. FastEs!CreditEarned' BY Zenon DEF FastInv, FastEs!CreditEarned
<1> QED BY <1>1, <1>2, <1>3, <1>4, <1>5, Zenon DEF FastInv

(* An application sets a rate: the CPU may count again.                    *)
LEMMA RateSetKept ==
    ASSUME FastHypotheses, FastInv, NEW v \in Rates, NEW s \in FastEs!Fast, FastEs!RateSet(s, v),
           \/ s = "cpu" /\ broken' = FALSE
           \/ s # "cpu" /\ UNCHANGED <<broken, stale>>
    PROVE  FastInv'
<1>1. v \in Nat /\ FastEs!Least(v, STRENGTH) \in Nat BY Zenon DEF FastHypotheses, FastEs!Least
<1>2. FastEs!SetRate(s, FastEs!Least(v, STRENGTH)) /\ UNCHANGED <<multiplier, digest, read, side, overtaken>>
  BY Zenon DEF FastEs!RateSet
<1>3. /\ rates' \in [FastEs!Fast -> Nat] /\ seen' \subseteq Nat /\ seen \subseteq seen'
      /\ \A t \in FastEs!Fast : rates'[t] = IF t = s THEN FastEs!Least(v, STRENGTH) ELSE rates[t]
      /\ read.pc # "idle" => rates'[read.source] \in seen'
  BY <1>1, <1>2, StoredSeen, Zenon
<1>4. broken' /\ ~stale' => rates'["cpu"] = 0
  BY <1>3, Zenon DEF FastInv, FastEs!CreditEarned, FastEs!Fast
<1>5. SideOK' /\ digest' \in Nat BY <1>2, Zenon DEF FastInv, SideOK, NumbersOK
<1> QED BY <1>2, <1>3, <1>4, <1>5, BesideKept, Zenon

(* Opening and closing a source concerns none of this.                     *)
LEMMA ReopenKept ==
    ASSUME FastInv, UNCHANGED <<rates, multiplier, digest, read, side, seen, broken, stale, overtaken>>
    PROVE  FastInv'
BY Zenon DEF FastInv, NumbersOK, ReadOK, SideOK, RateSeen, MultiplierSet, FastEs!CreditEarned

(* The end of a switch of the hash: a rate from before a failure is noted. *)
LEMMA SwitchKept == ASSUME FastHypotheses, FastInv, FastEs!esdm_cpu_switch_hash PROVE FastInv'
<1>1. /\ side.pc = "cap" /\ FastEs!SetRate("cpu", FastEs!Least(digest, side.rate)) /\ side' = FastEs!AtRest
      /\ stale' = (stale \/ (broken /\ side.rate # 0))
      /\ UNCHANGED <<multiplier, digest, read, broken, overtaken>>
  BY Zenon DEF FastEs!esdm_cpu_switch_hash
<1>2. side.rate \in Nat /\ digest \in Nat BY <1>1, Zenon DEF FastInv, SideOK, NumbersOK
<1>3. FastEs!Least(digest, side.rate) \in Nat /\ (side.rate = 0 => FastEs!Least(digest, side.rate) = 0)
  BY <1>2 DEF FastEs!Least
<1>c. "cpu" \in FastEs!Fast BY Zenon DEF FastEs!Fast
<1>4. /\ rates' \in [FastEs!Fast -> Nat] /\ seen' \subseteq Nat /\ seen \subseteq seen'
      /\ \A t \in FastEs!Fast : rates'[t] = IF t = "cpu" THEN FastEs!Least(digest, side.rate) ELSE rates[t]
      /\ read.pc # "idle" => rates'[read.source] \in seen'
  BY <1>1, <1>3, <1>c, StoredSeen, Zenon
<1>5. broken' /\ ~stale' => side.rate = 0 BY <1>1, Zenon
<1>6. broken' /\ ~stale' => rates'["cpu"] = 0 BY <1>3, <1>4, <1>5, <1>c, Zenon
<1>7. side'.pc = "idle" BY <1>1, Zenon DEF FastEs!AtRest
<1>8. SideOK' BY <1>7, Zenon DEF SideOK
<1> QED BY <1>1, <1>2, <1>4, <1>6, <1>7, <1>8, BesideKept, Zenon

(* A switch of the hash begins and reads the rate.                         *)
LEMMA SideStartKept == ASSUME FastHypotheses, FastInv, FastEs!SideStart \/ FastEs!SideRate PROVE FastInv'
<1>1. UNCHANGED <<rates, multiplier, read, seen, broken, stale, overtaken>> BY Zenon DEF FastEs!SideStart, FastEs!SideRate
<1>2. digest' \in Nat BY Zenon DEF FastEs!SideStart, FastEs!SideRate, FastHypotheses, FastInv, NumbersOK
<1>3. side.pc # "raise" /\ side'.pc # "raise" BY DEF FastEs!SideStart, FastEs!SideRate, FastEs!AtRest
<1>4. rates \in [FastEs!Fast -> Nat] /\ rates["cpu"] \in Nat /\ seen \subseteq Nat
  BY Zenon DEF FastInv, NumbersOK, FastEs!Fast
<1>5. SideOK' BY <1>4 DEF FastEs!SideStart, FastEs!SideRate, FastEs!AtRest, SideOK
<1>6. /\ read.pc # "idle" => rates'[read.source] \in seen'
      /\ broken' /\ ~stale' => rates'["cpu"] = 0
  BY <1>1, Zenon DEF FastInv, RateSeen, FastEs!CreditEarned
<1> QED BY <1>1, <1>2, <1>3, <1>4, <1>5, <1>6, BesideKept, Zenon

(* Both steps of the multiplier leave it at least as large.                *)
LEMMA Multiplied ==
    ASSUME FastHypotheses, NEW old \in Nat, NEW nxt
    PROVE  /\ FastEs!FirstMultiplier(old, nxt) => /\ nxt \in Nat /\ nxt > 0
                                                  /\ old > 0 => nxt = old
                                                  /\ old = 0 => nxt = FastEs!Most(CpuMultiplier, 1)
           /\ FastEs!esdm_cpu_multiplier(old, nxt) =>
                /\ nxt \in Nat /\ nxt >= old
                /\ old >= FastEs!Most(CpuMultiplier, 1) => nxt >= FastEs!Raised
BY DEF FastHypotheses, FastEs!FirstMultiplier, FastEs!esdm_cpu_multiplier, FastEs!Most, FastEs!Raised

(* A query of the multiplier sets it up in two steps.                      *)
LEMMA SideMultiplierKept == ASSUME FastHypotheses, FastInv, FastEs!SideMultiplier PROVE FastInv'
<1>1. UNCHANGED <<rates, digest, read, seen, broken, stale, overtaken>> BY Zenon DEF FastEs!SideMultiplier
<1>2. multiplier \in Nat BY Zenon DEF FastInv, NumbersOK
<1>r. FastEs!Raised \in Nat /\ FastEs!Most(CpuMultiplier, 1) \in Nat BY Zenon DEF FastHypotheses, FastEs!Raised, FastEs!Most
<1>3. ReadOK' BY <1>1, Zenon DEF FastInv, ReadOK
<1>4. RateSeen' BY <1>1, Zenon DEF FastInv, RateSeen
<1>5. FastEs!CreditEarned' BY <1>1, Zenon DEF FastInv, FastEs!CreditEarned
<1>6. CASE side.pc = "multiplier"
  <2>1. FastEs!FirstMultiplier(multiplier, multiplier') BY <1>6, Zenon DEF FastEs!SideMultiplier
  <2>2. side'.pc = IF multiplier = 0 THEN "raise" ELSE "rate" BY <1>6 DEF FastEs!SideMultiplier
  <2>3. /\ multiplier' \in Nat /\ multiplier' > 0 /\ (multiplier > 0 => multiplier' = multiplier)
        /\ multiplier = 0 => multiplier' = FastEs!Most(CpuMultiplier, 1)
    BY <1>2, <2>1, Multiplied, Zenon
  <2>4. NumbersOK' BY <1>1, <2>3, Zenon DEF FastInv, NumbersOK
  <2>5. SideOK' BY <2>2, Zenon DEF SideOK
  <2>6. MultiplierSet' BY <1>1, <1>2, <1>6, <1>r, <2>2, <2>3 DEF FastInv, MultiplierSet
  <2> QED BY <1>3, <1>4, <1>5, <2>4, <2>5, <2>6, Zenon DEF FastInv
<1>7. CASE side.pc = "raise"
  <2>1. FastEs!esdm_cpu_multiplier(multiplier, multiplier') /\ side'.pc = "rate" BY <1>7 DEF FastEs!SideMultiplier
  <2>2. multiplier > 0 /\ multiplier >= FastEs!Most(CpuMultiplier, 1) BY <1>7, Zenon DEF FastInv, MultiplierSet
  <2>3. multiplier' \in Nat /\ multiplier' >= multiplier /\ multiplier' >= FastEs!Raised
    BY <1>2, <2>1, <2>2, Multiplied, Zenon
  <2>4. NumbersOK' BY <1>1, <2>3, Zenon DEF FastInv, NumbersOK
  <2>5. SideOK' BY <2>1, Zenon DEF SideOK
  <2>6. MultiplierSet' BY <1>1, <1>2, <1>r, <2>1, <2>2, <2>3 DEF FastInv, MultiplierSet
  <2> QED BY <1>3, <1>4, <1>5, <2>4, <2>5, <2>6 DEF FastInv
<1> QED BY <1>6, <1>7, Zenon DEF FastEs!SideMultiplier

(* A step of the reader that leaves rates and multiplier alone.            *)
LEMMA ReaderKept ==
    ASSUME FastInv, UNCHANGED <<rates, multiplier, digest, side, seen, broken, stale>>,
           read.pc # "idle", read'.source = read.source, read.pc # "raise", read'.pc # "raise",
           ReadOK', read'.pc # "read",
           read'.pc = "pull" => read'.left + read'.done >= FastEs!Raised \/ overtaken',
           read'.pc = "got" =>
             /\ \E rt \in seen : read'.e_bits <= FastEs!Level(rt, read'.bits)
             /\ read'.failed => read'.e_bits = 0
             /\ read'.source = "cpu" /\ ~read'.failed => read'.pulls >= FastEs!Raised \/ overtaken'
    PROVE  FastInv'
<1>1. NumbersOK' BY Zenon DEF FastInv, NumbersOK
<1>2. SideOK' BY Zenon DEF FastInv, SideOK
<1>3. RateSeen' BY Zenon DEF FastInv, RateSeen
<1>4. MultiplierSet' BY Zenon DEF FastInv, MultiplierSet
<1>5. FastEs!CreditEarned' BY Zenon DEF FastInv, FastEs!CreditEarned
<1> QED BY <1>1, <1>2, <1>3, <1>4, <1>5, Zenon DEF FastInv

(* A read begins with the rate that it finds.                              *)
LEMMA StartKept ==
    ASSUME FastHypotheses, FastInv, NEW s \in FastEs!Fast, FastEs!StartRead(s), UNCHANGED overtaken,
           read'.source = s, read'.bits \in Nat,
           read'.pc \in {"multiplier", "read", "got"},
           read'.pc = "multiplier" => s = "cpu",
           read'.pc \in {"read", "got"} => s # "cpu",
           read'.pc = "read" /\ s = "krng" => read'.ent = FastEs!Level(rates["krng"], read'.bits),
           read'.pc = "got" => read'.e_bits = 0
    PROVE  FastInv'
<1>1. /\ read.pc = "idle" /\ seen' = {rates[s]}
      /\ UNCHANGED <<rates, multiplier, digest, side, broken, stale>>
  BY Zenon DEF FastEs!StartRead
<1>2. rates[s] \in Nat BY Zenon DEF FastInv, NumbersOK
<1>3. NumbersOK' BY <1>1, <1>2, Zenon DEF FastInv, NumbersOK
<1>4. ReadOK' BY Zenon DEF ReadOK
<1>5. SideOK' BY <1>1, Zenon DEF FastInv, SideOK
<1>6. RateSeen' BY <1>1, Zenon DEF RateSeen
<1>7. MultiplierSet' BY <1>1, Zenon DEF FastInv, MultiplierSet
<1>8. FastEs!CreditEarned'
  <2>1. FastEs!Level(rates[s], read'.bits) \in Nat BY <1>2, LevelNat, Zenon
  <2> QED BY <1>1, <2>1 DEF FastInv, FastEs!CreditEarned
<1> QED BY <1>3, <1>4, <1>5, <1>6, <1>7, <1>8, Zenon DEF FastInv

(* A read of any of the sources begins.                                    *)
LEMMA GetKept ==
    ASSUME FastHypotheses, FastInv, NEW bits \in RequestSizes,
           \/ FastEs!esdm_cpu_get(bits) \/ FastEs!esdm_krng_get(bits)
           \/ FastEs!esdm_hwrand_get(bits) \/ FastEs!esdm_jent_kernel_get(bits)
    PROVE  FastInv'
<1>0. bits \in Nat BY Zenon DEF FastHypotheses
<1>1. CASE FastEs!esdm_cpu_get(bits)
  <2>1. FastEs!StartRead("cpu") /\ read' = [pc |-> "multiplier", source |-> "cpu", bits |-> bits]
    BY <1>1, Zenon DEF FastEs!esdm_cpu_get
  <2>2. UNCHANGED overtaken /\ "cpu" \in FastEs!Fast BY <2>1, Zenon DEF FastEs!StartRead, FastEs!Fast
  <2> QED BY <1>0, <2>1, <2>2, StartKept, Zenon
<1>2. CASE FastEs!esdm_krng_get(bits)
  <2>1. FastEs!StartRead("krng")
        /\ read' = [pc |-> "read", source |-> "krng", bits |-> bits, ent |-> FastEs!Level(rates["krng"], bits)]
    BY <1>2, Zenon DEF FastEs!esdm_krng_get, FastEs!Reading
  <2>2. UNCHANGED overtaken /\ "krng" \in FastEs!Fast BY <2>1, Zenon DEF FastEs!StartRead, FastEs!Fast
  <2>3. /\ read'.pc = "read" /\ read'.source = "krng" /\ read'.bits = bits
        /\ read'.ent = FastEs!Level(rates["krng"], bits)
    BY <2>1, Zenon
  <2> QED BY <1>0, <2>1, <2>2, <2>3, StartKept, Zenon
<1>3. ASSUME NEW s \in {"hwrand", "jent_kernel"}, FastEs!OpenGet(s, bits) PROVE FastInv'
  <2>1. FastEs!StartRead(s) BY <1>3, Zenon DEF FastEs!OpenGet
  <2>2. \/ read' = [pc |-> "read", source |-> s, bits |-> bits, ent |-> 0]
        \/ read' = [pc |-> "got", source |-> s, bits |-> bits, e_bits |-> 0, failed |-> TRUE]
    BY <1>3, Zenon DEF FastEs!OpenGet, FastEs!Reading, FastEs!Got
  <2>3. UNCHANGED overtaken /\ s \in FastEs!Fast BY <2>1, Zenon DEF FastEs!StartRead, FastEs!Fast
  <2>4. /\ read'.source = s /\ read'.bits = bits /\ read'.pc \in {"read", "got"}
        /\ read'.pc = "got" => read'.e_bits = 0
    <3>1. CASE read' = [pc |-> "read", source |-> s, bits |-> bits, ent |-> 0] BY <3>1, Zenon
    <3>2. CASE read' = [pc |-> "got", source |-> s, bits |-> bits, e_bits |-> 0, failed |-> TRUE]
      BY <3>2, Zenon
    <3> QED BY <2>2, <3>1, <3>2, Zenon
  <2> QED BY <1>0, <2>1, <2>3, <2>4, StartKept, Zenon
<1> QED BY <1>1, <1>2, <1>3, Zenon DEF FastEs!esdm_hwrand_get, FastEs!esdm_jent_kernel_get

(* A read of the kernel RNG, the device or the kernel's Jitter RNG ends    *)
(* with a level of a rate that it saw, or with none.                       *)
LEMMA FinishKept ==
    ASSUME FastHypotheses, FastInv, NEW s \in FastEs!Fast \ {"cpu"}, FastEs!FinishRead(s)
    PROVE  FastInv'
<1>1. /\ read.pc = "read" /\ read.source = s
      /\ UNCHANGED <<rates, multiplier, digest, side, seen, broken, stale, overtaken>>
  BY Zenon DEF FastEs!FinishRead
<1>2. /\ read.bits \in Nat /\ rates[s] \in seen /\ rates[s] \in Nat /\ s \in FastEs!Fast
      /\ s = "krng" => \E rt \in seen : read.ent = FastEs!Level(rt, read.bits)
      /\ seen \subseteq Nat
  BY <1>1, Zenon DEF FastInv, ReadOK, RateSeen, NumbersOK
<1>3. \A rt \in seen : FastEs!Level(rt, read.bits) \in Nat BY <1>2, LevelNat, Zenon
<1>4. \E rt \in seen : FastEs!Credit(s) <= FastEs!Level(rt, read.bits)
  <2>1. CASE s = "krng" BY <1>2, <1>3, <2>1 DEF FastEs!Credit
  <2>2. CASE s = "hwrand"
    <3>1. FastEs!Credit(s) = 0 \/ FastEs!Credit(s) = FastEs!Level(rates[s], read.bits)
      BY <2>2, Zenon DEF FastEs!Credit, FastEs!esdm_hwrand_entropylevel
    <3> QED BY <1>2, <1>3, <3>1
  <2>3. CASE s = "jent_kernel"
    <3>1. FastEs!Credit(s) = 0 \/ FastEs!Credit(s) = FastEs!Level(rates[s], read.bits)
      BY <2>3, Zenon DEF FastEs!Credit, FastEs!esdm_jent_kernel_entropylevel
    <3> QED BY <1>2, <1>3, <3>1
  <2> QED BY <2>1, <2>2, <2>3, Zenon DEF FastEs!Fast
<1>5. PICK e : /\ \/ read' = [pc |-> "got", source |-> s, bits |-> read.bits, e_bits |-> e, failed |-> FALSE]
                  \/ e = 0 /\ read' = [pc |-> "got", source |-> s, bits |-> read.bits, e_bits |-> 0,
                                       failed |-> TRUE]
               /\ \E rt \in seen : e <= FastEs!Level(rt, read.bits)
  <2>1. \E rt \in seen : 0 <= FastEs!Level(rt, read.bits) BY <1>2, <1>3
  <2>2. CASE FastEs!Got(s, read.bits, FastEs!Credit(s), FALSE) BY <1>4, <2>2, Zenon DEF FastEs!Got
  <2>3. CASE FastEs!Got(s, read.bits, 0, TRUE) BY <2>1, <2>3, Zenon DEF FastEs!Got
  <2> QED BY <2>2, <2>3, Zenon DEF FastEs!FinishRead
<1>6. /\ read'.pc = "got" /\ read'.source = s /\ read'.bits = read.bits /\ read'.e_bits = e
      /\ read'.failed => e = 0
  BY <1>5
<1>7. ReadOK' BY <1>2, <1>6, Zenon DEF ReadOK
<1>8. \E rt \in seen : read'.e_bits <= FastEs!Level(rt, read'.bits) BY <1>5, <1>6, Zenon
<1> QED BY <1>1, <1>6, <1>7, <1>8, ReaderKept, Zenon

(* The reader takes the multiplier, or stores the first value of it.       *)
LEMMA CpuMultiplierKept == ASSUME FastHypotheses, FastInv, FastEs!CpuMultiplierRead PROVE FastInv'
<1>1. /\ read.pc = "multiplier" /\ FastEs!FirstMultiplier(multiplier, multiplier')
      /\ overtaken' = (multiplier > 0 /\ side.pc = "raise")
      /\ UNCHANGED <<rates, digest, side, seen, broken, stale>>
  BY Zenon DEF FastEs!CpuMultiplierRead
<1>2. /\ multiplier \in Nat /\ digest \in Nat /\ read.source = "cpu" /\ read.bits \in Nat
      /\ rates["cpu"] \in seen
  BY <1>1, Zenon DEF FastInv, NumbersOK, ReadOK, RateSeen
<1>r. FastEs!Raised \in Nat /\ FastEs!Most(CpuMultiplier, 1) \in Nat BY Zenon DEF FastHypotheses, FastEs!Raised, FastEs!Most
<1>3. /\ multiplier' \in Nat /\ multiplier' > 0 /\ (multiplier > 0 => multiplier' = multiplier)
      /\ multiplier = 0 => multiplier' = FastEs!Most(CpuMultiplier, 1)
  BY <1>1, <1>2, Multiplied, Zenon
<1>4. NumbersOK' BY <1>1, <1>3, Zenon DEF FastInv, NumbersOK
<1>5. SideOK' BY <1>1, Zenon DEF FastInv, SideOK
<1>6. CASE multiplier = 0
  <2>1. read' = [pc |-> "raise", source |-> "cpu", bits |-> read.bits]
    BY <1>6, Zenon DEF FastEs!CpuMultiplierRead
  <2>2. read'.pc = "raise" /\ read'.source = "cpu" /\ read'.bits = read.bits BY <2>1, Zenon
  <2>3. ReadOK' BY <1>2, <2>2, Zenon DEF ReadOK, FastEs!Fast
  <2>4. RateSeen' BY <1>1, <1>2, <2>2, Zenon DEF RateSeen
  <2>5. MultiplierSet' BY <1>3, <1>6, <1>r, <2>2 DEF MultiplierSet
  <2>6. FastEs!CreditEarned' BY <1>1, <2>2, Zenon DEF FastInv, FastEs!CreditEarned
  <2> QED BY <1>4, <1>5, <2>3, <2>4, <2>5, <2>6, Zenon DEF FastInv
<1>7. CASE multiplier # 0
  <2> DEFINE b == IF multiplier > 1 THEN FastEs!Least(read.bits, digest) ELSE read.bits
  <2>1. read' = [pc |-> "pull", source |-> "cpu", left |-> multiplier, done |-> 0, bits |-> b]
    BY <1>7, Zenon DEF FastEs!CpuMultiplierRead
  <2>2. b \in Nat BY <1>2, Zenon DEF FastEs!Least
  <2> HIDE DEF b
  <2>3. /\ read'.pc = "pull" /\ read'.source = "cpu" /\ read'.bits = b /\ read'.left = multiplier
        /\ read'.done = 0 /\ read' \in Pulling
    BY <1>2, <2>1, <2>2, Zenon DEF Pulling
  <2>4. ReadOK' BY <2>2, <2>3, Zenon DEF ReadOK, FastEs!Fast
  <2>5. RateSeen' BY <1>1, <1>2, <2>3, Zenon DEF RateSeen
  <2>6. multiplier > 0 BY <1>2, <1>7
  <2>7. multiplier >= FastEs!Raised \/ side.pc = "raise" BY <1>1, <2>6, Zenon DEF FastInv, MultiplierSet
  <2>8. multiplier >= FastEs!Raised \/ overtaken' BY <1>1, <2>6, <2>7, Zenon
  <2>9. multiplier + 0 >= FastEs!Raised \/ overtaken' BY <1>2, <1>r, <2>8
  <2>10. MultiplierSet'
    <3>1. multiplier >= FastEs!Most(CpuMultiplier, 1) BY <2>6, Zenon DEF FastInv, MultiplierSet
    <3> QED BY <1>1, <1>3, <2>3, <2>6, <2>7, <2>9, <3>1, Zenon DEF MultiplierSet
  <2>11. FastEs!CreditEarned' BY <1>1, <2>3, Zenon DEF FastInv, FastEs!CreditEarned
  <2> QED BY <1>4, <1>5, <2>4, <2>5, <2>10, <2>11 DEF FastInv
<1> QED BY <1>6, <1>7, Zenon

(* The reader raises the multiplier and begins to pull.                    *)
LEMMA CpuRaiseKept == ASSUME FastHypotheses, FastInv, FastEs!CpuMultiplierRaise PROVE FastInv'
<1>1. /\ read.pc = "raise" /\ FastEs!esdm_cpu_multiplier(multiplier, multiplier')
      /\ UNCHANGED <<rates, digest, side, seen, broken, stale, overtaken>>
  BY Zenon DEF FastEs!CpuMultiplierRaise
<1>2. /\ multiplier \in Nat /\ digest \in Nat /\ read.source = "cpu" /\ read.bits \in Nat
      /\ rates["cpu"] \in seen
  BY <1>1, Zenon DEF FastInv, NumbersOK, ReadOK, RateSeen
<1>n. multiplier \in Nat /\ multiplier > 0 /\ multiplier >= FastEs!Most(CpuMultiplier, 1)
  BY <1>1, Zenon DEF FastInv, NumbersOK, MultiplierSet
<1>r. FastEs!Raised \in Nat /\ FastEs!Most(CpuMultiplier, 1) \in Nat BY DEF FastHypotheses, FastEs!Raised, FastEs!Most
<1>3. multiplier' \in Nat /\ multiplier' >= multiplier /\ multiplier' >= FastEs!Raised
  BY <1>1, <1>n, Multiplied, Zenon
<1> DEFINE b == IF multiplier' > 1 THEN FastEs!Least(read.bits, digest) ELSE read.bits
<1>4. read' = [pc |-> "pull", source |-> "cpu", left |-> multiplier', done |-> 0, bits |-> b]
  BY Zenon DEF FastEs!CpuMultiplierRaise
<1>5. b \in Nat BY <1>2, Zenon DEF FastEs!Least
<1> HIDE DEF b
<1>6. /\ read'.pc = "pull" /\ read'.source = "cpu" /\ read'.bits = b /\ read'.left = multiplier'
      /\ read'.done = 0 /\ read' \in Pulling
  BY <1>3, <1>4, <1>5, Zenon DEF Pulling
<1>7. NumbersOK' BY <1>1, <1>3, Zenon DEF FastInv, NumbersOK
<1>8. ReadOK' BY <1>5, <1>6, Zenon DEF ReadOK, FastEs!Fast
<1>9. SideOK' BY <1>1, Zenon DEF FastInv, SideOK
<1>10. RateSeen' BY <1>1, <1>2, <1>6, Zenon DEF RateSeen
<1>11. MultiplierSet'
  <2>0. \A m, n, a, r \in Nat : m > 0 /\ m >= a /\ n >= m /\ n >= r => n > 0 /\ n >= a /\ n + 0 >= r
    OBVIOUS
  <2>1. multiplier' > 0 /\ multiplier' >= FastEs!Most(CpuMultiplier, 1) /\ multiplier' + 0 >= FastEs!Raised
    BY <1>n, <1>3, <1>r, <2>0, Zenon
  <2> QED BY <1>3, <1>6, <2>1, Zenon DEF MultiplierSet
<1>12. FastEs!CreditEarned' BY <1>1, <1>6, Zenon DEF FastInv, FastEs!CreditEarned
<1> QED BY <1>7, <1>8, <1>9, <1>10, <1>11, <1>12, Zenon DEF FastInv

(* A read of the CPU fails and sets its rate to 0.                         *)
LEMMA CpuFailsKept == ASSUME FastHypotheses, FastInv, FastEs!CpuFails PROVE FastInv'
<1>1. /\ read.pc = "pull" /\ FastEs!SetRate("cpu", 0) /\ broken' = TRUE
      /\ read' = [pc |-> "got", source |-> "cpu", bits |-> read.bits, e_bits |-> 0, failed |-> TRUE]
      /\ UNCHANGED <<multiplier, digest, side, stale, overtaken>>
  BY Zenon DEF FastEs!CpuFails, FastEs!Got
<1>c. "cpu" \in FastEs!Fast /\ 0 \in Nat BY Zenon DEF FastEs!Fast
<1>2. /\ rates' \in [FastEs!Fast -> Nat] /\ seen' \subseteq Nat
      /\ \A t \in FastEs!Fast : rates'[t] = IF t = "cpu" THEN 0 ELSE rates[t]
      /\ read.pc # "idle" => rates'[read.source] \in seen'
  BY <1>1, <1>c, StoredSeen, Zenon
<1>3. /\ read'.pc = "got" /\ read'.source = "cpu" /\ read'.bits = read.bits /\ read'.e_bits = 0
      /\ read'.failed
  BY <1>1, Zenon
<1>4. read.source = "cpu" /\ read.bits \in Nat BY <1>1, Zenon DEF FastInv, ReadOK
<1>5. rates'["cpu"] = 0 /\ 0 \in seen' BY <1>1, <1>2, <1>4, <1>c, Zenon
<1>6. NumbersOK' BY <1>1, <1>2, Zenon DEF FastInv, NumbersOK
<1>7. ReadOK' BY <1>3, <1>4, <1>c, Zenon DEF ReadOK
<1>8. SideOK' BY <1>1, Zenon DEF FastInv, SideOK
<1>9. RateSeen' BY <1>3, <1>5, Zenon DEF RateSeen
<1>10. MultiplierSet' BY <1>1, <1>3, Zenon DEF FastInv, MultiplierSet
<1>11. FastEs!CreditEarned'
  <2>1. FastEs!Level(0, read.bits) \in Nat BY <1>4, <1>c, LevelNat, Zenon
  <2> QED BY <1>3, <1>5, <2>1 DEF FastEs!CreditEarned
<1> QED BY <1>6, <1>7, <1>8, <1>9, <1>10, <1>11 DEF FastInv

(* One more word of the CPU: pulls done and to be done stay the same.      *)
LEMMA CpuPullKept == ASSUME FastHypotheses, FastInv, FastEs!esdm_get_cpu_data PROVE FastInv'
<1>1. /\ read.pc = "pull" /\ read.left > 0 /\ read \in Pulling
      /\ UNCHANGED <<rates, multiplier, digest, side, seen, broken, stale, overtaken>>
  BY Zenon DEF FastEs!esdm_get_cpu_data, FastInv, ReadOK
<1>3. read' = [pc |-> "pull", source |-> "cpu", left |-> read.left - 1, done |-> read.done + 1,
               bits |-> read.bits]
  BY Zenon DEF FastEs!esdm_get_cpu_data
<1>4. read.left \in Nat /\ read.done \in Nat /\ read.bits \in Nat BY <1>1, Zenon DEF Pulling
<1>5. /\ read'.pc = "pull" /\ read'.source = "cpu" /\ read'.left = read.left - 1
      /\ read'.done = read.done + 1 /\ read'.bits = read.bits
  BY <1>3, Zenon
<1>6. read' \in Pulling BY <1>1, <1>3, <1>4 DEF Pulling
<1>7. ReadOK' BY <1>4, <1>5, <1>6, Zenon DEF ReadOK, FastEs!Fast
<1>r. FastEs!Raised \in Nat BY Zenon DEF FastHypotheses, FastEs!Raised, FastEs!Most
<1>8. read'.left + read'.done >= FastEs!Raised \/ overtaken'
  <2>1. read.left + read.done >= FastEs!Raised \/ overtaken BY <1>1, Zenon DEF FastInv, MultiplierSet
  <2>2. read.left - 1 + (read.done + 1) = read.left + read.done BY <1>4
  <2> QED BY <1>1, <1>5, <2>1, <2>2, Zenon
<1>9. read.source = "cpu" BY <1>1, Zenon DEF Pulling
<1> QED BY <1>1, <1>5, <1>7, <1>8, <1>9, ReaderKept, Zenon

(* The words are compressed, all of them, or the hash fails.               *)
LEMMA CpuCompressKept == ASSUME FastHypotheses, FastInv, FastEs!esdm_get_cpu_data_compress PROVE FastInv'
<1>1. /\ read.pc = "pull" /\ read.left = 0 /\ read \in Pulling
      /\ UNCHANGED <<rates, multiplier, digest, side, seen, broken, stale, overtaken>>
  BY Zenon DEF FastEs!esdm_get_cpu_data_compress, FastInv, ReadOK
<1>2. /\ read.source = "cpu" /\ read.done \in Nat /\ read.bits \in Nat
  BY <1>1, Zenon DEF Pulling
<1>3. rates["cpu"] \in seen /\ rates["cpu"] \in Nat
  BY <1>1, <1>2, Zenon DEF FastInv, RateSeen, NumbersOK, FastEs!Fast
<1>4. FastEs!Level(rates["cpu"], read.bits) \in Nat BY <1>2, <1>3, LevelNat, Zenon
<1>5. CASE read' = [pc |-> "got", source |-> "cpu", bits |-> read.bits, failed |-> FALSE,
                    pulls |-> read.done, e_bits |-> FastEs!esdm_cpu_entropylevel(read.bits)]
  <2>1. /\ read'.pc = "got" /\ read'.source = "cpu" /\ read'.bits = read.bits
        /\ ~read'.failed /\ read'.pulls = read.done
        /\ read'.e_bits = FastEs!Level(rates["cpu"], read.bits)
    BY <1>5, Zenon DEF FastEs!esdm_cpu_entropylevel
  <2>2. ReadOK' BY <1>2, <2>1, Zenon DEF ReadOK, FastEs!Fast
  <2>3. 0 + read.done >= FastEs!Raised \/ overtaken' BY <1>1, Zenon DEF FastInv, MultiplierSet
  <2>4. read.done >= FastEs!Raised \/ overtaken' BY <1>2, <2>3
  <2>5. \E rt \in seen : read'.e_bits <= FastEs!Level(rt, read'.bits) BY <1>3, <1>4, <2>1
  <2> QED BY <1>1, <1>2, <2>1, <2>2, <2>4, <2>5, ReaderKept, Zenon
<1>6. CASE read' = [pc |-> "got", source |-> "cpu", bits |-> read.bits, e_bits |-> 0, failed |-> TRUE]
  <2>1. /\ read'.pc = "got" /\ read'.source = "cpu" /\ read'.bits = read.bits
        /\ read'.failed /\ read'.e_bits = 0
    BY <1>6, Zenon
  <2>2. ReadOK' BY <1>2, <2>1, Zenon DEF ReadOK, FastEs!Fast
  <2>3. \E rt \in seen : read'.e_bits <= FastEs!Level(rt, read'.bits) BY <1>3, <1>4, <2>1
  <2> QED BY <1>1, <1>2, <2>1, <2>2, <2>3, ReaderKept, Zenon
<1> QED BY <1>5, <1>6, Zenon DEF FastEs!esdm_get_cpu_data_compress, FastEs!Got

(* The reader takes its result.                                            *)
LEMMA EndKept == ASSUME FastInv, FastEs!EndRead PROVE FastInv'
<1>1. /\ read.pc = "got" /\ read'.pc = "idle" /\ seen' = {}
      /\ UNCHANGED <<rates, multiplier, digest, side, broken, stale>>
  BY Zenon DEF FastEs!EndRead, FastEs!AtRest
<1>2. NumbersOK' BY <1>1, Zenon DEF FastInv, NumbersOK
<1>3. ReadOK' BY <1>1, Zenon DEF ReadOK
<1>4. SideOK' BY <1>1, Zenon DEF FastInv, SideOK
<1>5. RateSeen' BY <1>1, Zenon DEF RateSeen
<1>6. MultiplierSet' BY <1>1, Zenon DEF FastInv, MultiplierSet
<1>7. FastEs!CreditEarned' BY <1>1, Zenon DEF FastInv, FastEs!CreditEarned
<1> QED BY <1>2, <1>3, <1>4, <1>5, <1>6, <1>7, Zenon DEF FastInv

(* Every step keeps FastInv.                                               *)
LEMMA FastStep == ASSUME FastHypotheses, FastInv, [FastEs!Next]_FastEs!fastVars PROVE FastInv'
<1>1. CASE UNCHANGED FastEs!fastVars BY <1>1, ReopenKept, Zenon DEF FastEs!fastVars
<1>2. ASSUME NEW v \in Rates,
             \/ FastEs!esdm_config_es_cpu_entropy_rate_set(v) \/ FastEs!KrngRateSet(v)
             \/ FastEs!esdm_config_es_hwrand_entropy_rate_set(v)
             \/ FastEs!esdm_config_es_jent_kernel_entropy_rate_set(v)
      PROVE  FastInv'
  <2>1. \A s \in {"cpu", "krng", "hwrand", "jent_kernel"} : s \in FastEs!Fast BY Zenon DEF FastEs!Fast
  <2> QED BY <1>2, <2>1, RateSetKept, Zenon
          DEF FastEs!esdm_config_es_cpu_entropy_rate_set, FastEs!KrngRateSet, FastEs!esdm_config_es_hwrand_entropy_rate_set,
              FastEs!esdm_config_es_jent_kernel_entropy_rate_set
<1>3. CASE \/ FastEs!esdm_hwrand_init \/ FastEs!esdm_hwrand_finalize
           \/ FastEs!esdm_jent_kernel_init \/ FastEs!esdm_jent_kernel_finalize
  BY <1>3, ReopenKept, Zenon DEF FastEs!esdm_hwrand_init, FastEs!esdm_hwrand_finalize, FastEs!esdm_jent_kernel_init,
                          FastEs!esdm_jent_kernel_finalize, FastEs!Reopen
<1> QED BY <1>1, <1>2, <1>3, GetKept, FinishKept, CpuMultiplierKept, CpuRaiseKept, CpuFailsKept,
           CpuPullKept, CpuCompressKept, EndKept, SideStartKept, SideMultiplierKept, SwitchKept, Zenon
        DEF FastEs!Next

(* The fast sources earn their credit for every rate, multiplier and       *)
(* request: no more than the share of a rate configured in the time of the *)
(* read, nothing from a source that failed, nothing from the CPU after a   *)
(* failure, and no block of the CPU from too few reads (esdm_krng_get(),   *)
(* esdm_get_cpu_data(), esdm_cpu_multiplier(), esdm_cpu_switch_hash()),    *)
(* but for the two races named there.                                      *)
THEOREM CreditEarnedCorrect ==
    ASSUME FastHypotheses PROVE FastEs!Spec => []FastEs!CreditEarned
<1>1. FastEs!Init => FastInv BY FastInitOK, Zenon
<1>2. FastInv /\ [FastEs!Next]_FastEs!fastVars => FastInv' BY FastStep, Zenon
<1>3. FastInv => FastEs!CreditEarned BY Zenon DEF FastInv
<1> QED BY <1>1, <1>2, <1>3, PTL DEF FastEs!Spec
=============================================================================
