------------------------- MODULE EsdmDrngMgrProofs --------------------------
(***************************************************************************)
(* The proofs about the DRNG manager, for any number of threads and nodes  *)
(* and any thresholds: that it keeps its type invariant, that pool and     *)
(* seeding are exclusive, that what counts as seeded is earned, and        *)
(* prediction resistance.                                                  *)
(***************************************************************************)
EXTENDS EsdmDrngMgr, TLAPS

-----------------------------------------------------------------------------
(* The types. TypeOK is a conjunction of one predicate per group of        *)
(* variables; a step is shown to keep the groups it changes, and Unchanged *)
(* covers the other ones.                                                  *)

(* The ranges of the counters are not empty: facts about the thresholds of *)
(* the configuration.                                                      *)
LEMMA ConstFacts ==
    /\ MinRequests \in Int /\ MinRequests <= -1
    /\ BitsCap \in Nat /\ CollCap \in Nat
    /\ STRENGTH <= CollCap /\ STRENGTH \in Nat
    /\ Len(NodeSeq) \in Nat
BY EsAssumption, MgrAssumption DEF MinRequests, BitsCap, CollCap, MinOf, MaxOf

(* Replacing one value of a function keeps its type.                       *)
LEMMA ExceptType ==
    \A D, R, f, x, v : f \in [D -> R] /\ v \in R => [f EXCEPT ![x] = v] \in [D -> R]
BY Zenon

(* esdm_init_entropy_level() and esdm_get_seed_entropy_osr() yield         *)
(* numbers.                                                                *)
LEMMA InitLevelType == \A full \in BOOLEAN : InitEntropyLevel(full) \in Nat /\ Osr(full) \in Nat
BY EsAssumption DEF InitEntropyLevel, Osr

(* What a step does not touch keeps its type.                              *)
LEMMA Unchanged ==
    ASSUME TypeOK
    PROVE  /\ UNCHANGED esVars => EsTypeOK' /\ pool' \in Threads \cup {None}
           /\ UNCHANGED drngVars => DrngTypeOK'
           /\ UNCHANGED mgrVars => MgrTypeOK'
           /\ UNCHANGED seedVars => SeedTypeOK'
           /\ UNCHANGED getVars => GetTypeOK'
           /\ UNCHANGED <<call, left>> /\ pc' \in [Threads -> AllPcs] => CtlTypeOK'
<1> USE DEF TypeOK
<1>1. UNCHANGED esVars => EsTypeOK' /\ pool' \in Threads \cup {None}
  BY Zenon DEF esVars, EsTypeOK
<1>2. UNCHANGED drngVars => DrngTypeOK'
  BY Zenon DEF drngVars, DrngTypeOK
<1>3. UNCHANGED mgrVars => MgrTypeOK'
  BY Zenon DEF mgrVars, MgrTypeOK
<1>4. UNCHANGED seedVars => SeedTypeOK'
  BY Zenon DEF seedVars, SeedTypeOK
<1>5. UNCHANGED getVars => GetTypeOK'
  BY Zenon DEF getVars, GetTypeOK
<1>6. UNCHANGED <<call, left>> /\ pc' \in [Threads -> AllPcs] => CtlTypeOK'
  BY Zenon DEF CtlTypeOK
<1> QED
  BY <1>1, <1>2, <1>3, <1>4, <1>5, <1>6, Zenon

(* A thread goes to a place the code has, also when it wakes others.       *)
LEMMA GotoType ==
    ASSUME TypeOK, NEW t \in Threads, NEW l \in AllPcs
    PROVE  /\ Goto(t, l) => pc' \in [Threads -> AllPcs]
           /\ WakeAllGoto(t, l) => pc' \in [Threads -> AllPcs]
<1>1. pc \in [Threads -> AllPcs] /\ "recheck" \in AllPcs
  BY DEF TypeOK, CtlTypeOK, AllPcs
<1> QED
  BY <1>1, Zenon DEF Goto, WakeAllGoto

(* __esdm_drng_seed_work() looks at existing DRNGs only.                   *)
LEMMA SeedOrderType ==
    ASSUME TypeOK
    PROVE  /\ Len(SeedOrder) \in Nat /\ Len(SeedOrder) <= Len(NodeSeq) + 2
           /\ \A i \in 1..Len(SeedOrder) : SeedOrder[i] \in Drngs
<1>1. CASE published
  <2>1. /\ Len(SeedOrder) = Len(NodeSeq) + 2
        /\ \A i \in 1..Len(SeedOrder) :
             SeedOrder[i] = IF i = 1 THEN "init"
                            ELSE IF i = Len(NodeSeq) + 2 THEN "pr" ELSE NodeSeq[i - 1]
    BY <1>1, MgrAssumption DEF SeedOrder
  <2> QED
    BY <2>1, MgrAssumption DEF Drngs, NodeDrngs
<1>2. CASE ~published
  BY <1>2, MgrAssumption DEF SeedOrder, Drngs
<1> QED
  BY <1>1, <1>2, Zenon

(* The locals of esdm_drng_seed_es_nolock() are initialised well.          *)
LEMMA SeedEnterType ==
    ASSUME TypeOK, NEW t \in Threads, NEW d \in Drngs, SeedEnter(t, d),
           sd' \in [Threads -> Drngs], sk' \in [Threads -> {"work", "get", "pr"}]
    PROVE  SeedTypeOK'
<1>1. eb' \in [Threads -> [Es -> 0..CollCap]]
  BY ConstFacts DEF SeedEnter, NoEnt, TypeOK, SeedTypeOK
<1>2. got' \in [Threads -> 0..CollCap] /\ coll' \in [Threads -> 0..CollCap]
  BY ConstFacts DEF SeedEnter, TypeOK, SeedTypeOK
<1>3. /\ forced' \in [Threads -> BOOLEAN] /\ lvl' \in [Threads -> BOOLEAN]
      /\ again' \in [Threads -> BOOLEAN]
  BY Zenon DEF SeedEnter, TypeOK, SeedTypeOK, DrngTypeOK
<1> QED
  BY <1>1, <1>2, <1>3, Zenon DEF SeedTypeOK

(* They stay well typed when the function returns.                         *)
LEMMA SeedLeaveType ==
    ASSUME TypeOK, NEW t \in Threads, SeedLeave(t)
    PROVE  SeedTypeOK'
<1>1. eb' \in [Threads -> [Es -> 0..CollCap]]
  BY ConstFacts DEF SeedLeave, NoEnt, TypeOK, SeedTypeOK
<1>2. got' \in [Threads -> 0..CollCap] /\ coll' \in [Threads -> 0..CollCap]
  BY ConstFacts DEF SeedLeave, TypeOK, SeedTypeOK
<1>3. /\ forced' \in [Threads -> BOOLEAN] /\ lvl' \in [Threads -> BOOLEAN]
      /\ again' \in [Threads -> BOOLEAN]
  BY Zenon DEF SeedLeave, TypeOK, SeedTypeOK
<1>4. /\ sd' \in [Threads -> Drngs] /\ sk' \in [Threads -> {"work", "get", "pr"}]
  BY Zenon DEF SeedLeave, TypeOK, SeedTypeOK, Drngs
<1> QED
  BY <1>1, <1>2, <1>3, <1>4, Zenon DEF SeedTypeOK

(* esdm_fill_seed_buffer() never takes more than a source holds.           *)
LEMMA FillType ==
    ASSUME EsTypeOK, NEW em \in BOOLEAN, NEW req \in Nat, NEW ok \in SUBSET Es
    PROVE  /\ FillLeft(em, req) \in [Es -> Nat]
           /\ \A e \in Es : FillLeft(em, req)[e] <= MaxEnt[e]
           /\ FillGot(em, req, ok) \in [Es -> Nat]
           /\ TotalEnt(FillGot(em, req, ok)) \in Nat
<1>1. \A e \in Es : ent[e] \in Nat /\ MaxEnt[e] \in Nat /\ ent[e] <= MaxEnt[e]
  BY EsAssumption, Zenon DEF EsTypeOK
<1>2. /\ FillLeft(em, req) \in [Es -> Nat]
      /\ \A e \in Es : FillLeft(em, req)[e] <= MaxEnt[e]
  BY <1>1 DEF FillLeft, MinOf
<1>3. FillGot(em, req, ok) \in [Es -> Nat]
  BY <1>1, Zenon DEF FillGot, MinOf
<1>4. TotalEnt(FillGot(em, req, ok)) \in Nat
  BY <1>3 DEF TotalEnt, Es
<1> QED
  BY <1>2, <1>3, <1>4, Zenon

(* One filling of the seed buffer, as the sums over the loop see it.       *)
LEMMA SeedFillBuf ==
    ASSUME TypeOK, NEW t \in Threads, SeedFill(t)
    PROVE  \E buf \in [Es -> Nat] :
             /\ TotalEnt(buf) \in Nat
             /\ ent' \in [Es -> Nat] /\ \A e \in Es : ent'[e] <= MaxEnt[e]
             /\ got' = [got EXCEPT ![t] = SatEnt(TotalEnt(buf))]
             /\ coll' = [coll EXCEPT ![t] = SatEnt(@ + TotalEnt(buf))]
             /\ eb' = [eb EXCEPT ![t] = [e \in Es |-> SatEnt(@[e] + buf[e])]]
             /\ again' = [again EXCEPT ![t] = Delivered(buf)]
<1> DEFINE em == forced[t] /\ ~fully[sd[t]]
           req == Osr(fully[sd[t]])
<1>1. PICK ok \in SUBSET Es :
        /\ ent' = FillLeft(em, req)
        /\ got' = [got EXCEPT ![t] = SatEnt(TotalEnt(FillGot(em, req, ok)))]
        /\ coll' = [coll EXCEPT ![t] =
                      SatEnt(@ + TotalEnt(FillGot(em, req, ok)))]
        /\ eb' = [eb EXCEPT ![t] =
                    [e \in Es |-> SatEnt(@[e] + FillGot(em, req, ok)[e])]]
        /\ again' = [again EXCEPT ![t] = Delivered(FillGot(em, req, ok))]
  BY Zenon DEF SeedFill
<1>2. em \in BOOLEAN /\ req \in Nat
  BY InitLevelType, Zenon DEF TypeOK, SeedTypeOK, DrngTypeOK
<1> HIDE DEF em, req
<1>3. /\ FillGot(em, req, ok) \in [Es -> Nat]
      /\ TotalEnt(FillGot(em, req, ok)) \in Nat
      /\ FillLeft(em, req) \in [Es -> Nat]
      /\ \A e \in Es : FillLeft(em, req)[e] <= MaxEnt[e]
  BY <1>2, FillType, Zenon DEF TypeOK
<1> QED
  BY <1>1, <1>3, Zenon

(* The state after esdm_drng_mgr_initialize() has its type.                *)
LEMMA TypeInit == Init => TypeOK
<1> SUFFICES ASSUME Init PROVE TypeOK
  BY Zenon
<1> USE EsAssumption, MgrAssumption
<1>1. EsTypeOK
  <2>1. ent \in [Es -> Nat] /\ \A e \in Es : ent[e] <= MaxEnt[e]
    BY DEF Init, EsInit
  <2>2. thresh \in Nat
    BY DEF Init, EsInit, InitEntropyLevel, Osr
  <2> QED
    BY <2>1, <2>2, Zenon DEF Init, EsInit, EsTypeOK
<1>2. DrngTypeOK
  BY ConstFacts DEF Init, DrngTypeOK
<1>3. pool \in Threads \cup {None} /\ MgrTypeOK
  BY Zenon DEF Init, MgrTypeOK
<1>4. CtlTypeOK
  BY DEF Init, CtlTypeOK, AllPcs
<1>5. SeedTypeOK
  <2>1. eb \in [Threads -> [Es -> 0..CollCap]]
    BY ConstFacts DEF Init, NoEnt
  <2> QED
    BY <2>1, ConstFacts DEF Init, SeedTypeOK, Drngs
<1>6. GetTypeOK
  BY ConstFacts DEF Init, GetTypeOK, Drngs
<1> QED
  BY <1>1, <1>2, <1>3, <1>4, <1>5, <1>6, Zenon DEF TypeOK

(* Type preservation by the steps of the waiting of the API calls.         *)
LEMMA TypeWait ==
    ASSUME TypeOK, NEW t \in Threads, WaitStep(t)
    PROVE  TypeOK'
<1>1. CASE ForceFullySeeded(t)
  <2>1. pc' \in [Threads -> AllPcs]
    BY <1>1, GotoType, Zenon DEF ForceFullySeeded, AfterForce, AllPcs, SeedPcs
  <2> QED
    BY <1>1, <2>1, Unchanged, Zenon DEF ForceFullySeeded, TypeOK
<1>2. CASE SleepGate(t)
  <2>1. pc' \in [Threads -> AllPcs]
    BY <1>2, GotoType, Zenon DEF SleepGate, AfterGate, AllPcs, SeedPcs
  <2> QED
    BY <1>2, <2>1, Unchanged, Zenon DEF SleepGate, TypeOK
<1>3. CASE WaitTest(t)
  <2>1. pc' \in [Threads -> AllPcs]
    BY <1>3, GotoType, Zenon DEF WaitTest, AfterGate, AllPcs, SeedPcs
  <2> QED
    BY <1>3, <2>1, Unchanged, Zenon DEF WaitTest, TypeOK
<1>4. CASE CondWait(t)
  <2>1. pc' \in [Threads -> AllPcs]
    BY <1>4, GotoType, Zenon DEF CondWait, AllPcs, SeedPcs
  <2> QED
    BY <1>4, <2>1, Unchanged, Zenon DEF CondWait, TypeOK
<1>5. CASE Return(t)
  <2>1. pc' \in [Threads -> AllPcs]
    BY <1>5, GotoType, Zenon DEF Return, AllPcs, SeedPcs
  <2> QED
    BY <1>5, <2>1, Unchanged, Zenon
       DEF Return, TypeOK, CtlTypeOK, MgrTypeOK, GetTypeOK, Drngs
<1> QED
  BY <1>1, <1>2, <1>3, <1>4, <1>5, Zenon DEF WaitStep

(* Type preservation by the steps of __esdm_drng_seed_work() and its       *)
(* callers.                                                                *)
LEMMA TypeWork ==
    ASSUME TypeOK, NEW t \in Threads, WorkStep(t)
    PROVE  TypeOK'
<1>1. CASE PoolLock(t)
  <2>1. pc' \in [Threads -> AllPcs]
    BY <1>1, GotoType, Zenon DEF PoolLock, AllPcs, SeedPcs
  <2>2. EsTypeOK' /\ pool' \in Threads \cup {None}
    BY <1>1, Zenon DEF PoolLock, TypeOK, EsTypeOK
  <2>3. GetTypeOK'
    BY <1>1 DEF PoolLock, TypeOK, GetTypeOK
  <2> QED
    BY <1>1, <2>1, <2>2, <2>3, Unchanged, Zenon DEF PoolLock, TypeOK
<1>2. CASE SeedWorkScan(t)
  <2> DEFINE d == SeedOrder[idx[t]]
  <2>1. d \in Drngs /\ idx[t] + 1 \in 1..(Len(NodeSeq) + 3)
    <3>1. idx[t] \in 1..(Len(NodeSeq) + 3) /\ idx[t] <= Len(SeedOrder)
      BY <1>2, Zenon DEF SeedWorkScan, TypeOK, GetTypeOK
    <3> QED
      BY <3>1, SeedOrderType, ConstFacts
  <2> HIDE DEF d
  <2>2. CASE fully[d]
    <3>1. /\ idx' = [idx EXCEPT ![t] = @ + 1] /\ UNCHANGED <<pc, force, sd, sk>>
          /\ UNCHANGED <<esVars, fully, requests, since, bits, lock, fresh,
                         mgrVars, forced, got, coll, eb, lvl, again, dr, uk,
                         todo, call, left>>
      BY <1>2, <2>2, Zenon DEF SeedWorkScan, d
    <3>2. GetTypeOK'
      BY <2>1, <3>1, Zenon DEF TypeOK, GetTypeOK
    <3>3. UNCHANGED <<drngVars, seedVars>> /\ pc' \in [Threads -> AllPcs]
      BY <3>1, Zenon DEF drngVars, seedVars, TypeOK, CtlTypeOK
    <3> QED
      BY <3>1, <3>2, <3>3, Unchanged, Zenon DEF TypeOK
  <2>3. CASE ~fully[d]
    <3>1. /\ force' = [force EXCEPT ![d] = @ \/ InForce(t)]
          /\ sd' = [sd EXCEPT ![t] = d] /\ sk' = [sk EXCEPT ![t] = "work"]
          /\ idx' = [idx EXCEPT ![t] = 1] /\ Goto(t, "slock")
          /\ UNCHANGED <<esVars, fully, requests, since, bits, lock, fresh,
                         mgrVars, forced, got, coll, eb, lvl, again, dr, uk,
                         todo, call, left>>
      BY <1>2, <2>3, Zenon DEF SeedWorkScan, d
    <3>2. GetTypeOK'
      BY <3>1, ConstFacts DEF TypeOK, GetTypeOK
    <3>3. DrngTypeOK'
      BY <2>1, <3>1, Zenon DEF TypeOK, DrngTypeOK, InForce
    <3>4. SeedTypeOK'
      BY <2>1, <3>1, Zenon DEF TypeOK, SeedTypeOK
    <3>5. pc' \in [Threads -> AllPcs]
      BY <3>1, GotoType, Zenon DEF AllPcs
    <3> QED
      BY <3>1, <3>2, <3>3, <3>4, <3>5, Unchanged, Zenon DEF TypeOK
  <2> QED
    BY <2>2, <2>3, Zenon
<1>3. CASE SeedWorkAllSeeded(t)
  <2>1. pc' \in [Threads -> AllPcs]
    BY <1>3, GotoType, Zenon DEF SeedWorkAllSeeded, AllPcs, SeedPcs
  <2>2. EsTypeOK' /\ pool' \in Threads \cup {None}
    BY <1>3, Zenon DEF SeedWorkAllSeeded, TypeOK, EsTypeOK
  <2>3. GetTypeOK'
    BY <1>3 DEF SeedWorkAllSeeded, TypeOK, GetTypeOK
  <2> QED
    BY <1>3, <2>1, <2>2, <2>3, Unchanged, Zenon DEF SeedWorkAllSeeded, TypeOK
<1>4. CASE SeedWorkOut(t)
  <2>1. pc' \in [Threads -> AllPcs]
    BY <1>4, GotoType, Zenon
       DEF SeedWorkOut, AfterWork, AfterForce, AfterAdd, AllPcs, SeedPcs
  <2>2. EsTypeOK' /\ pool' \in Threads \cup {None}
    BY <1>4, Zenon DEF SeedWorkOut, TypeOK, EsTypeOK
  <2> QED
    BY <1>4, <2>1, <2>2, Unchanged, Zenon DEF SeedWorkOut, TypeOK
<1>5. CASE AddEntropyWanted(t)
  <2>1. pc' \in [Threads -> AllPcs]
    BY <1>5, GotoType, Zenon DEF AddEntropyWanted, AfterAdd, AllPcs, SeedPcs
  <2> QED
    BY <1>5, <2>1, Unchanged, Zenon DEF AddEntropyWanted, TypeOK
<1>6. CASE AddEntropyTryLock(t)
  <2>1. pc' \in [Threads -> AllPcs]
    BY <1>6, GotoType, Zenon DEF AddEntropyTryLock, AfterAdd, AllPcs, SeedPcs
  <2>2. EsTypeOK' /\ pool' \in Threads \cup {None}
    BY <1>6, Zenon DEF AddEntropyTryLock, TypeOK, EsTypeOK
  <2> QED
    BY <1>6, <2>1, <2>2, Unchanged, Zenon DEF AddEntropyTryLock, TypeOK
<1>7. CASE MonitorCheck(t)
  <2>1. pc' \in [Threads -> AllPcs]
    BY <1>7, GotoType, Zenon DEF MonitorCheck, AllPcs, SeedPcs
  <2> QED
    BY <1>7, <2>1, Unchanged, Zenon DEF MonitorCheck, TypeOK
<1>8. CASE MonitorSleep(t)
  <2>1. pc' \in [Threads -> AllPcs]
    BY <1>8, GotoType, Zenon DEF MonitorSleep, AllPcs, SeedPcs
  <2> QED
    BY <1>8, <2>1, Unchanged, Zenon DEF MonitorSleep, TypeOK
<1>9. CASE NodeAlloc(t)
  <2>1. pc' \in [Threads -> AllPcs]
    BY <1>9, GotoType, Zenon DEF NodeAlloc, AllPcs, SeedPcs
  <2>2. EsTypeOK' /\ pool' \in Threads \cup {None}
    BY <1>9, Zenon DEF NodeAlloc, TypeOK, EsTypeOK
  <2>3. MgrTypeOK'
    BY <1>9, Zenon DEF NodeAlloc, TypeOK, MgrTypeOK
  <2> QED
    BY <1>9, <2>1, <2>2, <2>3, Unchanged, Zenon DEF NodeAlloc, TypeOK
<1>10. CASE ShmStatusInit(t)
  <2>1. pc' \in [Threads -> AllPcs]
    BY <1>10, GotoType, Zenon DEF ShmStatusInit, AllPcs, SeedPcs
  <2>2. EsTypeOK' /\ pool' \in Threads \cup {None}
    BY <1>10, Zenon DEF ShmStatusInit, TypeOK, EsTypeOK
  <2>3. MgrTypeOK'
    BY <1>10, Zenon DEF ShmStatusInit, TypeOK, MgrTypeOK
  <2> QED
    BY <1>10, <2>1, <2>2, <2>3, Unchanged, Zenon DEF ShmStatusInit, TypeOK
<1> QED
  BY <1>1, <1>2, <1>3, <1>4, <1>5, <1>6, <1>7, <1>8, <1>9, <1>10, Zenon DEF WorkStep

(* Type preservation by the steps of esdm_drng_seed_es().                  *)
LEMMA TypeSeed ==
    ASSUME TypeOK, NEW t \in Threads, SeedStep(t)
    PROVE  TypeOK'
<1>1. CASE SeedLockDrng(t)
  <2>1. pc' \in [Threads -> AllPcs]
    BY <1>1, GotoType, Zenon DEF SeedLockDrng, AllPcs, SeedPcs
  <2>2. DrngTypeOK'
    BY <1>1, Zenon DEF SeedLockDrng, TypeOK, DrngTypeOK, SeedTypeOK
  <2>3. SeedTypeOK'
    BY <1>1, SeedEnterType, Zenon DEF SeedLockDrng, TypeOK, SeedTypeOK
  <2> QED
    BY <1>1, <2>1, <2>2, <2>3, Unchanged, Zenon DEF SeedLockDrng, TypeOK
<1>2. CASE SeedFill(t)
  <2>1. pc' \in [Threads -> AllPcs]
    BY <1>2, GotoType, Zenon DEF SeedFill, AllPcs, SeedPcs
  <2>2. PICK buf \in [Es -> Nat] :
          /\ TotalEnt(buf) \in Nat
          /\ ent' \in [Es -> Nat] /\ \A e \in Es : ent'[e] <= MaxEnt[e]
          /\ got' = [got EXCEPT ![t] = SatEnt(TotalEnt(buf))]
          /\ coll' = [coll EXCEPT ![t] = SatEnt(@ + TotalEnt(buf))]
          /\ eb' = [eb EXCEPT ![t] = [e \in Es |-> SatEnt(@[e] + buf[e])]]
          /\ again' = [again EXCEPT ![t] = Delivered(buf)]
    BY <1>2, SeedFillBuf, Zenon
  <2>3. EsTypeOK' /\ pool' \in Threads \cup {None}
    BY <1>2, <2>2, Zenon DEF SeedFill, TypeOK, EsTypeOK
  <2>4. \A n \in Nat : SatEnt(n) \in 0..CollCap
    BY ConstFacts DEF SatEnt, MinOf
  <2>5. coll[t] \in Nat /\ eb[t] \in [Es -> Nat]
    BY ConstFacts DEF TypeOK, SeedTypeOK
  <2>6. got' \in [Threads -> 0..CollCap] /\ coll' \in [Threads -> 0..CollCap]
    BY <2>2, <2>4, <2>5 DEF TypeOK, SeedTypeOK
  <2>7. eb' \in [Threads -> [Es -> 0..CollCap]]
    <3>1. [e \in Es |-> SatEnt(eb[t][e] + buf[e])] \in [Es -> 0..CollCap]
      BY <2>2, <2>4, <2>5
    <3> QED
      BY <2>2, <3>1, Zenon DEF TypeOK, SeedTypeOK
  <2>8. again' \in [Threads -> BOOLEAN]
    BY <2>2, Zenon DEF TypeOK, SeedTypeOK, Delivered
  <2>9. SeedTypeOK'
    BY <1>2, <2>6, <2>7, <2>8, SMTT(20) DEF SeedFill, TypeOK, SeedTypeOK
  <2> QED
    BY <1>2, <2>1, <2>3, <2>9, Unchanged, Zenon DEF SeedFill, TypeOK
<1>3. CASE SeedEval(t)
  <2>1. pc' \in [Threads -> AllPcs]
    BY <1>3, GotoType, Zenon DEF SeedEval, AllPcs, SeedPcs
  <2>2. SeedTypeOK'
    <3>1. EnoughEntropy(fully[sd[t]], coll[t], eb[t]) \in BOOLEAN
      <4>1. coll[t] \in Nat
        <5>1. coll[t] \in 0..CollCap
          BY Zenon DEF TypeOK, SeedTypeOK
        <5> QED
          BY <5>1, ConstFacts
      <4>4. Osr(fully[sd[t]]) \in Nat
        BY InitLevelType, Zenon DEF TypeOK, SeedTypeOK, DrngTypeOK
      <4>2. CASE NTG1
        BY <4>2, Zenon DEF EnoughEntropy
      <4>3. CASE ~NTG1
        BY <4>1, <4>4, <4>3 DEF EnoughEntropy
      <4> QED
        BY <4>2, <4>3, Zenon
    <3>2. lvl' \in [Threads -> BOOLEAN]
      BY <1>3, <3>1, Zenon DEF SeedEval, TypeOK, SeedTypeOK
    <3> QED
      BY <1>3, <3>2, Zenon DEF SeedEval, TypeOK, SeedTypeOK
  <2> QED
    BY <1>3, <2>1, <2>2, Unchanged, Zenon DEF SeedEval, TypeOK
<1>4. CASE SeedInject(t)
  <2>1. pc' \in [Threads -> AllPcs]
    BY <1>4, GotoType, Zenon DEF SeedInject, AllPcs, SeedPcs
  <2> DEFINE d == sd[t]
  <2>2. /\ d \in Drngs /\ lvl[t] \in BOOLEAN /\ got[t] \in Nat
        /\ since[d] \in 0..MAX_WO_RESEED /\ bits[d] \in 0..BitsCap
        /\ requests[d] \in MinRequests..RESEED_THRESH /\ fresh[d] \in Nat
    BY ConstFacts DEF TypeOK, SeedTypeOK, DrngTypeOK
  <2>4. \A n \in Nat : SatEnt(n) \in 0..CollCap
    BY ConstFacts DEF SatEnt, MinOf
  <2>5. /\ RESEED_THRESH \in MinRequests..RESEED_THRESH
        /\ 0 \in 0..BitsCap /\ 0 \in 0..MAX_WO_RESEED
    BY ConstFacts, MgrAssumption
  <2>6. lock' \in [Drngs -> Threads \cup {None}]
    BY <1>4, Zenon DEF SeedInject, TypeOK, DrngTypeOK
  <2>3. DrngTypeOK'
    <3>1. CASE InjectOk(t)
      <4>1. MinOf(since[d] + (RESEED_THRESH - requests[d]), MAX_WO_RESEED)
              \in 0..MAX_WO_RESEED
        <5>1. \A n \in Nat : MinOf(n, MAX_WO_RESEED) \in 0..MAX_WO_RESEED
          BY MgrAssumption DEF MinOf
        <5>2. \A s, r \in Int : s >= 0 /\ r <= RESEED_THRESH =>
                s + (RESEED_THRESH - r) \in Nat
          BY MgrAssumption
        <5>3. /\ since[d] \in Int /\ since[d] >= 0
              /\ requests[d] \in Int /\ requests[d] <= RESEED_THRESH
          BY <2>2, ConstFacts, MgrAssumption
        <5>4. since[d] + (RESEED_THRESH - requests[d]) \in Nat
          BY <5>2, <5>3, Zenon
        <5> QED
          BY <5>1, <5>4, Zenon
      <4>2. since' \in [Drngs -> 0..MAX_WO_RESEED]
        BY <3>1, <2>2, <2>5, <4>1, Zenon DEF InjectOk, TypeOK, DrngTypeOK
      <4>3. bits' \in [Drngs -> 0..BitsCap]
        BY <3>1, <2>2, <2>5, Zenon DEF InjectOk, TypeOK, DrngTypeOK
      <4>4. requests' \in [Drngs -> MinRequests..RESEED_THRESH]
        BY <3>1, <2>2, <2>5, Zenon DEF InjectOk, TypeOK, DrngTypeOK
      <4>5. force' \in [Drngs -> BOOLEAN] /\ fully' \in [Drngs -> BOOLEAN]
        BY <3>1, <2>2, Zenon DEF InjectOk, TypeOK, DrngTypeOK
      <4>6. SatEnt(fresh[d] + got[t]) \in 0..CollCap
        <5>1. \A m, n \in Nat : m + n \in Nat
          OBVIOUS
        <5>2. fresh[d] + got[t] \in Nat
          BY <5>1, <2>2, Zenon
        <5> QED
          BY <5>2, <2>4, Zenon
      <4>7. fresh' \in [Drngs -> 0..CollCap]
        BY <3>1, <2>2, <4>6, Zenon DEF InjectOk, TypeOK, DrngTypeOK
      <4> QED
        BY <2>6, <4>2, <4>3, <4>4, <4>5, <4>7, Zenon DEF DrngTypeOK
    <3>2. CASE InjectFail(t)
      <4>1. force' \in [Drngs -> BOOLEAN]
        BY <3>2, <2>2, Zenon DEF InjectFail, TypeOK, DrngTypeOK
      <4>2. UNCHANGED <<fully, requests, since, bits, fresh>>
        BY <3>2, Zenon DEF InjectFail
      <4> QED
        BY <2>6, <4>1, <4>2, Zenon DEF TypeOK, DrngTypeOK, Drngs
    <3> QED
      BY <1>4, <3>1, <3>2, Zenon DEF SeedInject
  <2> QED
    BY <1>4, <2>1, <2>3, Unchanged, Zenon DEF SeedInject, TypeOK
<1>5. CASE InitOps(t)
  <2>1. pc' \in [Threads -> AllPcs]
    BY <1>5, GotoType, Zenon DEF InitOps, AllPcs, SeedPcs
  <2>2. EsTypeOK' /\ pool' \in Threads \cup {None}
    BY <1>5, InitLevelType, EsAssumption, Zenon DEF InitOps, TypeOK, EsTypeOK
  <2> QED
    BY <1>5, <2>1, <2>2, Unchanged, Zenon DEF InitOps, TypeOK
<1>6. CASE SetOperational(t)
  <2>1. pc' \in [Threads -> AllPcs]
    BY <1>6, GotoType, Zenon DEF SetOperational, AllPcs, SeedPcs
  <2>2. EsTypeOK' /\ pool' \in Threads \cup {None}
    BY <1>6, Zenon DEF SetOperational, TypeOK, EsTypeOK
  <2> QED
    BY <1>6, <2>1, <2>2, Unchanged, Zenon DEF SetOperational, TypeOK
<1>7. CASE ShmSetOperational(t)
  <2>1. pc' \in [Threads -> AllPcs]
    BY <1>7, GotoType, Zenon DEF ShmSetOperational, AllPcs, SeedPcs
  <2>2. EsTypeOK' /\ pool' \in Threads \cup {None}
    BY <1>7, Zenon DEF ShmSetOperational, TypeOK, EsTypeOK, MgrTypeOK
  <2> QED
    BY <1>7, <2>1, <2>2, Unchanged, Zenon DEF ShmSetOperational, TypeOK
<1>8. CASE SeedAgain(t)
  <2>1. pc' \in [Threads -> AllPcs]
    BY <1>8, GotoType, Zenon DEF SeedAgain, AllPcs, SeedPcs
  <2> QED
    BY <1>8, <2>1, Unchanged, Zenon DEF SeedAgain, TypeOK
<1>9. CASE SeedUnlockDrng(t)
  <2>1. pc' \in [Threads -> AllPcs]
    BY <1>9, GotoType, Zenon DEF SeedUnlockDrng, AllPcs, SeedPcs
  <2>2. DrngTypeOK'
    BY <1>9, SMTT(20) DEF SeedUnlockDrng, TypeOK, DrngTypeOK, SeedTypeOK
  <2>3. SeedTypeOK'
    BY <1>9, SeedLeaveType, Zenon DEF SeedUnlockDrng
  <2> QED
    BY <1>9, <2>1, <2>2, <2>3, Unchanged, Zenon DEF SeedUnlockDrng, TypeOK
<1>10. CASE GetPoolUnlock(t)
  <2>1. pc' \in [Threads -> AllPcs]
    BY <1>10, GotoType, Zenon DEF GetPoolUnlock, AllPcs, SeedPcs
  <2>2. EsTypeOK' /\ pool' \in Threads \cup {None}
    BY <1>10, Zenon DEF GetPoolUnlock, TypeOK, EsTypeOK
  <2> QED
    BY <1>10, <2>1, <2>2, Unchanged, Zenon DEF GetPoolUnlock, TypeOK
<1> QED
  BY <1>1, <1>2, <1>3, <1>4, <1>5, <1>6, <1>7, <1>8, <1>9, <1>10, Zenon DEF SeedStep

(* Type preservation by the steps of esdm_drng_get().                      *)
LEMMA TypeGet ==
    ASSUME TypeOK, NEW t \in Threads, GetStep(t)
    PROVE  TypeOK'
<1>1. CASE PrTryLock(t)
  <2>1. pc' \in [Threads -> AllPcs]
    BY <1>1, GotoType, Zenon DEF PrTryLock, AllPcs, SeedPcs
  <2>2. MgrTypeOK'
    BY <1>1, Zenon DEF PrTryLock, TypeOK, MgrTypeOK
  <2> QED
    BY <1>1, <2>1, <2>2, Unchanged, Zenon DEF PrTryLock, TypeOK
<1>2. CASE PickDrng(t)
  <2>1. pc' \in [Threads -> AllPcs]
    BY <1>2, GotoType, Zenon DEF PickDrng, AllPcs, SeedPcs
  <2>2. GetTypeOK'
    <3>1. \E d \in Drngs : dr' = [dr EXCEPT ![t] = d]
      BY <1>2, Zenon DEF PickDrng, Drngs
    <3>2. dr' \in [Threads -> Drngs]
      BY <3>1, Zenon DEF TypeOK, GetTypeOK
    <3> QED
      BY <1>2, <3>2, Zenon DEF PickDrng, TypeOK, GetTypeOK
  <2> QED
    BY <1>2, <2>1, <2>2, Unchanged, Zenon DEF PickDrng, TypeOK
<1>3. CASE CheckDisable(t)
  <2>1. pc' \in [Threads -> AllPcs]
    BY <1>3, GotoType, Zenon DEF CheckDisable, AllPcs, SeedPcs
  <2>2. GetTypeOK'
    BY <1>3, Zenon DEF CheckDisable, TypeOK, GetTypeOK
  <2> QED
    BY <1>3, <2>1, <2>2, Unchanged, Zenon DEF CheckDisable, TypeOK
<1>4. CASE GetLoop(t)
  <2>1. pc' \in [Threads -> AllPcs]
    BY <1>4, GotoType, Zenon DEF GetLoop, AllPcs, SeedPcs
  <2>2. DrngTypeOK'
    <3>1. dr[t] \in Drngs /\ requests[dr[t]] \in MinRequests..RESEED_THRESH
      BY Zenon DEF TypeOK, GetTypeOK, DrngTypeOK
    <3>2. MaxOf(requests[dr[t]] - 1, MinRequests) \in MinRequests..RESEED_THRESH
      BY <3>1, ConstFacts, MgrAssumption DEF MaxOf
    <3>3. requests' \in [Drngs -> MinRequests..RESEED_THRESH]
      BY <1>4, <3>1, <3>2, SMTT(20) DEF GetLoop, TypeOK, DrngTypeOK
    <3> QED
      BY <1>4, <3>3, Zenon DEF GetLoop, TypeOK, DrngTypeOK
  <2> QED
    BY <1>4, <2>1, <2>2, Unchanged, Zenon DEF GetLoop, TypeOK
<1>5. CASE GetTryPool(t)
  <2>1. pc' \in [Threads -> AllPcs]
    BY <1>5, GotoType, Zenon DEF GetTryPool, AllPcs, SeedPcs
  <2>2. EsTypeOK' /\ pool' \in Threads \cup {None}
    BY <1>5, Zenon DEF GetTryPool, TypeOK, EsTypeOK
  <2>3. DrngTypeOK'
    BY <1>5, Zenon DEF GetTryPool, TypeOK, DrngTypeOK, GetTypeOK
  <2>4. SeedTypeOK'
    <3>1. dr[t] \in Drngs
      BY Zenon DEF TypeOK, GetTypeOK
    <3>2. sd' \in [Threads -> Drngs]
      BY <1>5, <3>1, ExceptType, Zenon DEF GetTryPool, TypeOK, SeedTypeOK
    <3>3. sk' \in [Threads -> {"work", "get", "pr"}]
      BY <1>5, ExceptType, Zenon DEF GetTryPool, TypeOK, SeedTypeOK
    <3> QED
      BY <1>5, <3>2, <3>3, Zenon DEF GetTryPool, TypeOK, SeedTypeOK
  <2> QED
    BY <1>5, <2>1, <2>2, <2>3, <2>4, Unchanged, Zenon DEF GetTryPool, TypeOK
<1>6. CASE GenLock(t)
  <2>1. pc' \in [Threads -> AllPcs]
    BY <1>6, GotoType, Zenon DEF GenLock, AllPcs, SeedPcs
  <2>2. DrngTypeOK'
    BY <1>6, ExceptType, Zenon DEF GenLock, TypeOK, DrngTypeOK
  <2>3. GetTypeOK'
    <3>1. STRENGTH \in 0..STRENGTH
      BY ConstFacts
    <3> QED
      BY <1>6, <3>1, Zenon DEF GenLock, TypeOK, GetTypeOK
  <2> QED
    BY <1>6, <2>1, <2>2, <2>3, Unchanged, Zenon DEF GenLock, TypeOK
<1>7. CASE PrTryPool(t)
  <2>1. pc' \in [Threads -> AllPcs]
    BY <1>7, GotoType, Zenon DEF PrTryPool, AllPcs, SeedPcs
  <2>2. EsTypeOK' /\ pool' \in Threads \cup {None}
    BY <1>7, Zenon DEF PrTryPool, TypeOK, EsTypeOK
  <2>3. DrngTypeOK'
    BY <1>7, Zenon DEF PrTryPool, TypeOK, DrngTypeOK
  <2>4. SeedTypeOK'
    <3>1. CASE pool = None
      BY <1>7, <3>1, SeedEnterType, Zenon
         DEF PrTryPool, TypeOK, SeedTypeOK, Drngs
    <3>2. CASE pool # None
      BY <1>7, <3>2, Unchanged, Zenon DEF PrTryPool
    <3> QED
      BY <3>1, <3>2, Zenon
  <2> QED
    BY <1>7, <2>1, <2>2, <2>3, <2>4, Unchanged, Zenon DEF PrTryPool, TypeOK
<1>8. CASE PrPoolUnlock(t)
  <2>1. pc' \in [Threads -> AllPcs]
    BY <1>8, GotoType, Zenon DEF PrPoolUnlock, AllPcs, SeedPcs
  <2>2. EsTypeOK' /\ pool' \in Threads \cup {None}
    BY <1>8, Zenon DEF PrPoolUnlock, TypeOK, EsTypeOK
  <2> QED
    BY <1>8, <2>1, <2>2, Unchanged, Zenon DEF PrPoolUnlock, TypeOK
<1>9. CASE PrLimit(t)
  <2>1. pc' \in [Threads -> AllPcs]
    BY <1>9, GotoType, Zenon DEF PrLimit, AllPcs, SeedPcs
  <2>2. DrngTypeOK'
    BY <1>9, Zenon DEF PrLimit, TypeOK, DrngTypeOK
  <2>3. SeedTypeOK'
    BY <1>9, SeedLeaveType, Zenon DEF PrLimit
  <2>4. GetTypeOK'
    <3>1. coll[t] \in 0..CollCap /\ MinOf(coll[t], STRENGTH) \in 0..STRENGTH
      BY ConstFacts DEF TypeOK, SeedTypeOK, MinOf
    <3> QED
      BY <1>9, <3>1, Zenon DEF PrLimit, TypeOK, GetTypeOK
  <2> QED
    BY <1>9, <2>1, <2>2, <2>3, <2>4, Unchanged, Zenon DEF PrLimit, TypeOK
<1>10. CASE Generate(t)
  <2>1. pc' \in [Threads -> AllPcs]
    BY <1>10, GotoType, Zenon DEF Generate, AllPcs, SeedPcs
  <2>2. DrngTypeOK'
    <3>1. fresh' \in [Drngs -> 0..CollCap]
      <4>1. 0 \in 0..CollCap
        BY ConstFacts
      <4> QED
        BY <1>10, <4>1, ExceptType, Zenon DEF Generate, TypeOK, DrngTypeOK
    <3>2. lock' \in [Drngs -> Threads \cup {None}]
      BY <1>10, ExceptType, Zenon DEF Generate, TypeOK, DrngTypeOK
    <3> QED
      BY <1>10, <3>1, <3>2, Zenon DEF Generate, TypeOK, DrngTypeOK
  <2>3. GetTypeOK'
    <3>1. 0 \in 0..STRENGTH
      BY ConstFacts
    <3> QED
      BY <1>10, <3>1, ExceptType, Zenon DEF Generate, TypeOK, GetTypeOK
  <2> QED
    BY <1>10, <2>1, <2>2, <2>3, Unchanged, Zenon DEF Generate, TypeOK
<1>11. CASE GetAccount(t)
  <2>1. pc' \in [Threads -> AllPcs]
    BY <1>11, GotoType, Zenon DEF GetAccount, AllPcs, SeedPcs
  <2>2. DrngTypeOK'
    <3>1. dr[t] \in Drngs /\ bits[dr[t]] \in 0..BitsCap
      BY Zenon DEF TypeOK, GetTypeOK, DrngTypeOK
    <3>2. MinOf(bits[dr[t]] + 1, BitsCap) \in 0..BitsCap
      BY <3>1, ConstFacts DEF MinOf
    <3>3. bits' \in [Drngs -> 0..BitsCap]
      BY <1>11, <3>1, <3>2, Zenon DEF GetAccount, TypeOK, DrngTypeOK
    <3> QED
      BY <1>11, <3>3, Zenon DEF GetAccount, TypeOK, DrngTypeOK
  <2>3. GetTypeOK'
    BY <1>11, ExceptType, Zenon DEF GetAccount, TypeOK, GetTypeOK
  <2> QED
    BY <1>11, <2>1, <2>2, <2>3, Unchanged, Zenon DEF GetAccount, TypeOK
<1>12. CASE GetMore(t)
  <2>1. pc' \in [Threads -> AllPcs]
    BY <1>12, GotoType, Zenon DEF GetMore, AllPcs, SeedPcs
  <2> QED
    BY <1>12, <2>1, Unchanged, Zenon DEF GetMore, TypeOK
<1> QED
  BY <1>1, <1>2, <1>3, <1>4, <1>5, <1>6, <1>7, <1>8, <1>9, <1>10, <1>11, <1>12, Zenon
     DEF GetStep

(* Type preservation by the steps of esdm_unset_fully_seeded() and         *)
(* esdm_drng_force_reseed().                                               *)
LEMMA TypeUnset ==
    ASSUME TypeOK, NEW t \in Threads, UnsetStep(t)
    PROVE  TypeOK'
<1>1. CASE UnsetDrng(t)
  <2>1. pc' \in [Threads -> AllPcs]
    BY <1>1, GotoType, Zenon DEF UnsetDrng, AllPcs, SeedPcs
  <2>2. DrngTypeOK'
    BY <1>1, ExceptType, Zenon DEF UnsetDrng, TypeOK, DrngTypeOK
  <2> QED
    BY <1>1, <2>1, <2>2, Unchanged, Zenon DEF UnsetDrng, TypeOK
<1>2. CASE UnsetAllNodes(t)
  <2>1. pc' \in [Threads -> AllPcs]
    BY <1>2, GotoType, Zenon DEF UnsetAllNodes, AllPcs, SeedPcs
  <2>2. EsTypeOK' /\ pool' \in Threads \cup {None}
    BY <1>2, Zenon DEF UnsetAllNodes, TypeOK, EsTypeOK
  <2> QED
    BY <1>2, <2>1, <2>2, Unchanged, Zenon DEF UnsetAllNodes, TypeOK
<1>3. CASE UnsetOperational(t)
  <2>1. pc' \in [Threads -> AllPcs]
    BY <1>3, GotoType, Zenon DEF UnsetOperational, AllPcs, SeedPcs
  <2>2. EsTypeOK' /\ pool' \in Threads \cup {None}
    BY <1>3, Zenon DEF UnsetOperational, TypeOK, EsTypeOK
  <2> QED
    BY <1>3, <2>1, <2>2, Unchanged, Zenon DEF UnsetOperational, TypeOK
<1>4. CASE UnsetFullySeeded(t)
  <2>1. pc' \in [Threads -> AllPcs]
    BY <1>4, GotoType, Zenon DEF UnsetFullySeeded, AllPcs, SeedPcs
  <2>2. EsTypeOK' /\ pool' \in Threads \cup {None}
    BY <1>4, Zenon DEF UnsetFullySeeded, TypeOK, EsTypeOK
  <2> QED
    BY <1>4, <2>1, <2>2, Unchanged, Zenon DEF UnsetFullySeeded, TypeOK
<1>5. CASE UnsetShm(t)
  <2>1. pc' \in [Threads -> AllPcs]
    BY <1>5, GotoType, Zenon DEF UnsetShm, AllPcs, SeedPcs
  <2>2. EsTypeOK' /\ pool' \in Threads \cup {None}
    BY <1>5, Zenon DEF UnsetShm, TypeOK, EsTypeOK
  <2> QED
    BY <1>5, <2>1, <2>2, Unchanged, Zenon DEF UnsetShm, TypeOK
<1>6. CASE MonitorWakeup(t)
  <2>1. pc' \in [Threads -> AllPcs]
    BY <1>6 DEF MonitorWakeup, TypeOK, CtlTypeOK, AllPcs
  <2>2. GetTypeOK'
    BY <1>6, Zenon DEF MonitorWakeup, TypeOK, GetTypeOK
  <2> QED
    BY <1>6, <2>1, <2>2, Unchanged, Zenon DEF MonitorWakeup, TypeOK
<1>7. CASE ForceReseed(t)
  <2>1. pc' \in [Threads -> AllPcs]
    BY <1>7, GotoType, Zenon DEF ForceReseed, AllPcs, SeedPcs
  <2>2. DrngTypeOK'
    BY <1>7, Zenon DEF ForceReseed, TypeOK, DrngTypeOK
  <2> QED
    BY <1>7, <2>1, <2>2, Unchanged, Zenon DEF ForceReseed, TypeOK
<1> QED
  BY <1>1, <1>2, <1>3, <1>4, <1>5, <1>6, <1>7, Zenon DEF UnsetStep

(* Type preservation by the steps of esdm_get_seed().                      *)
LEMMA TypeGetSeed ==
    ASSUME TypeOK, NEW t \in Threads, GetSeedStep(t)
    PROVE  TypeOK'
<1>1. CASE GetSeedTryLock(t)
  <2>1. pc' \in [Threads -> AllPcs]
    BY <1>1, GotoType, Zenon DEF GetSeedTryLock, AllPcs, SeedPcs
  <2>2. MgrTypeOK'
    BY <1>1, Zenon DEF GetSeedTryLock, TypeOK, MgrTypeOK
  <2> QED
    BY <1>1, <2>1, <2>2, Unchanged, Zenon DEF GetSeedTryLock, TypeOK
<1>2. CASE GetSeedPoolLock(t)
  <2>1. pc' \in [Threads -> AllPcs]
    BY <1>2, GotoType, Zenon DEF GetSeedPoolLock, AllPcs, SeedPcs
  <2>2. EsTypeOK' /\ pool' \in Threads \cup {None}
    BY <1>2, Zenon DEF GetSeedPoolLock, TypeOK, EsTypeOK
  <2> QED
    BY <1>2, <2>1, <2>2, Unchanged, Zenon DEF GetSeedPoolLock, TypeOK
<1>3. CASE GetSeedCheck(t)
  <2>1. pc' \in [Threads -> AllPcs]
    BY <1>3, GotoType, Zenon DEF GetSeedCheck, AllPcs, SeedPcs
  <2> QED
    BY <1>3, <2>1, Unchanged, Zenon DEF GetSeedCheck, TypeOK
<1>4. CASE GetSeedFill(t)
  <2>1. PICK full \in BOOLEAN, ok \in SUBSET Es :
          /\ ent' = FillLeft(FALSE, Osr(full))
          /\ Goto(t, IF \/ TotalEnt(FillGot(FALSE, Osr(full), ok)) > 0
                        \/ ~allNodes
                        \/ call[t] = "get_seed_noblock"
                       THEN "gs_unlock" ELSE "gs_fill")
    BY <1>4, Zenon DEF GetSeedFill
  <2>2. pc' \in [Threads -> AllPcs]
    BY <2>1, GotoType, Zenon DEF AllPcs
  <2>3. EsTypeOK' /\ pool' \in Threads \cup {None}
    BY <1>4, <2>1, FillType, InitLevelType, Zenon
       DEF GetSeedFill, TypeOK, EsTypeOK
  <2> QED
    BY <1>4, <2>2, <2>3, Unchanged, Zenon DEF GetSeedFill, TypeOK
<1>5. CASE GetSeedPoolUnlock(t)
  <2>1. pc' \in [Threads -> AllPcs]
    BY <1>5, GotoType, Zenon DEF GetSeedPoolUnlock, AllPcs, SeedPcs
  <2>2. EsTypeOK' /\ pool' \in Threads \cup {None}
    BY <1>5, Zenon DEF GetSeedPoolUnlock, TypeOK, EsTypeOK
  <2> QED
    BY <1>5, <2>1, <2>2, Unchanged, Zenon DEF GetSeedPoolUnlock, TypeOK
<1> QED
  BY <1>1, <1>2, <1>3, <1>4, <1>5, Zenon DEF GetSeedStep

(* Type preservation by the entry of a call.                               *)
LEMMA TypeStart ==
    ASSUME TypeOK, NEW t \in Threads, StartCall(t)
    PROVE  TypeOK'
<1>1. PICK c \in Ops[t] :
        /\ call' = [call EXCEPT ![t] = c]
        /\ Goto(t, CASE c = "get" -> "pick"
                     [] c = "force_reseed" -> "freseed"
                     [] c \in {"add_entropy", "monitor"} -> "wanted"
                     [] c \in SeedCalls -> "seedlock"
                     [] OTHER -> "force")
  BY Zenon DEF StartCall
<1>2. pc' \in [Threads -> AllPcs]
  BY <1>1, GotoType, Zenon DEF AllPcs
<1>3. call' \in [Threads -> ApiCalls \cup {"boot", "none"}]
  BY <1>1, MgrAssumption, Zenon DEF TypeOK, CtlTypeOK
<1>4. left' \in [Threads -> Nat]
  BY MgrAssumption DEF StartCall, TypeOK, CtlTypeOK
<1> QED
  BY <1>2, <1>3, <1>4, Unchanged, Zenon DEF StartCall, TypeOK, CtlTypeOK

(* Type preservation by every step.                                        *)
LEMMA TypeStep == TypeOK /\ [Next]_vars => TypeOK'
<1> SUFFICES ASSUME TypeOK, [Next]_vars PROVE TypeOK'
  BY Zenon
<1>1. ASSUME NEW t \in Threads, Step(t) PROVE TypeOK'
  BY <1>1, TypeWait, TypeWork, TypeSeed, TypeGet, TypeUnset, TypeGetSeed, Zenon
     DEF Step
<1>2. ASSUME NEW t \in Threads, WaitTimeout(t) PROVE TypeOK'
  <2>1. pc' \in [Threads -> AllPcs]
    BY <1>2, GotoType, Zenon DEF WaitTimeout, AllPcs
  <2> QED
    BY <1>2, <2>1, Unchanged, Zenon DEF WaitTimeout, TypeOK
<1>3. CASE Arrive
  <2>1. EsTypeOK' /\ pool' \in Threads \cup {None}
    BY <1>3, EsAssumption DEF Arrive, EsArrive, TypeOK, EsTypeOK
  <2>2. CtlTypeOK'
    BY <1>3, Zenon DEF Arrive, ctlVars, TypeOK, CtlTypeOK
  <2> QED
    BY <1>3, <2>1, <2>2, Unchanged, Zenon DEF Arrive, TypeOK
<1>4. CASE UNCHANGED vars
  BY <1>4, Unchanged, Zenon DEF vars, ctlVars, TypeOK, CtlTypeOK
<1> QED
  BY <1>1, <1>2, <1>3, <1>4, TypeStart, Zenon DEF Next

(* TypeOK always holds: the request, age and entropy counters of every     *)
(* DRNG stay in their ranges, all locks are free or held by a thread, and  *)
(* no thread leaves the control flow of the code.                          *)
THEOREM TypeCorrect == Spec => []TypeOK
<1>1. Init => TypeOK
  BY TypeInit, Zenon
<1>2. TypeOK /\ [Next]_vars => TypeOK'
  BY TypeStep, Zenon
<1> QED
  BY <1>1, <1>2, PTL DEF Spec

-----------------------------------------------------------------------------
(* The seeding. Two inductive invariants carry its theorems: LockInv says  *)
(* who is between the lock and the unlock of what, and EntInv that the     *)
(* entropy a seeding counts is really injected.                            *)

(* The pool lock is owned exactly inside its critical sections; a DRNG     *)
(* that is being seeded or is generating is locked by that thread; and the *)
(* seeding in the middle of a prediction resistance request is of the      *)
(* prediction resistance DRNG.                                             *)
LockInv ==
    \A t \in Threads :
        /\ pool = t <=> InPool(t)
        /\ pc[t] \in SeedPcs => lock[sd[t]] = t
        /\ pc[t] \in {"prtry", "prcheck", "gen"} => lock[dr[t]] = t
        /\ pc[t] \in {"prtry", "prcheck"} => dr[t] = "pr"
        /\ pc[t] \in SeedPcs /\ sk[t] = "pr" => sd[t] = "pr" /\ dr[t] = "pr"
        /\ pc[t] = "slock" => sk[t] # "pr"

(* The part of the type invariant LockInv rests on.                        *)
LockFacts == /\ pc \in [Threads -> AllPcs] /\ lock \in [Drngs -> Threads \cup {None}]
             /\ dr \in [Threads -> Drngs] /\ sd \in [Threads -> Drngs]
             /\ sk \in [Threads -> {"work", "get", "pr"}]

(* It follows from TypeOK.                                                 *)
LEMMA Facts == TypeOK => LockFacts /\ None \notin Threads /\ "pr" \in Drngs
BY MgrAssumption, Zenon DEF TypeOK, CtlTypeOK, DrngTypeOK, GetTypeOK, SeedTypeOK,
   LockFacts, Drngs

(* LockInv is kept by the steps of the waiting calls.                      *)
LEMMA LockInvWait ==
    ASSUME TypeOK, LockInv, NEW t \in Threads, WaitStep(t)
    PROVE  LockInv'
<1> USE Facts DEF LockInv, InPool, SeedPcs, LockFacts, Goto, esVars, drngVars, mgrVars, seedVars, getVars
<1>1. CASE ForceFullySeeded(t)
  BY <1>1 DEF ForceFullySeeded, AfterForce
<1>2. CASE SleepGate(t)
  BY <1>2 DEF SleepGate, AfterGate
<1>3. CASE WaitTest(t)
  BY <1>3 DEF WaitTest, AfterGate
<1>4. CASE CondWait(t)
  BY <1>4 DEF CondWait
<1>5. CASE Return(t)
  BY <1>5 DEF Return
<1> QED
  BY <1>1, <1>2, <1>3, <1>4, <1>5, Zenon DEF WaitStep

(* LockInv is kept by the steps of __esdm_drng_seed_work().                *)
LEMMA LockInvWork ==
    ASSUME TypeOK, LockInv, NEW t \in Threads, WorkStep(t)
    PROVE  LockInv'
<1> USE Facts DEF LockInv, InPool, SeedPcs, LockFacts, Goto, esVars, drngVars, mgrVars, seedVars, getVars
<1>1. CASE PoolLock(t)
  BY <1>1 DEF PoolLock
<1>2. CASE SeedWorkScan(t)
  BY <1>2 DEF SeedWorkScan
<1>3. CASE SeedWorkAllSeeded(t)
  BY <1>3 DEF SeedWorkAllSeeded, WakeAllGoto
<1>4. CASE SeedWorkOut(t)
  BY <1>4 DEF SeedWorkOut, AfterWork, AfterForce, AfterAdd
<1>5. CASE AddEntropyWanted(t)
  BY <1>5 DEF AddEntropyWanted, AfterAdd
<1>6. CASE AddEntropyTryLock(t)
  BY <1>6 DEF AddEntropyTryLock, AfterAdd
<1>7. CASE MonitorCheck(t)
  BY <1>7 DEF MonitorCheck
<1>8. CASE MonitorSleep(t)
  BY <1>8 DEF MonitorSleep
<1>9. CASE NodeAlloc(t)
  BY <1>9 DEF NodeAlloc
<1>10. CASE ShmStatusInit(t)
  BY <1>10 DEF ShmStatusInit
<1> QED
  BY <1>1, <1>2, <1>3, <1>4, <1>5, <1>6, <1>7, <1>8, <1>9, <1>10, Zenon
     DEF WorkStep

(* LockInv is kept by the steps of esdm_drng_seed_es().                    *)
LEMMA LockInvSeed ==
    ASSUME TypeOK, LockInv, NEW t \in Threads, SeedStep(t)
    PROVE  LockInv'
<1> USE Facts DEF LockInv, InPool, SeedPcs, LockFacts, Goto, esVars, drngVars, mgrVars, seedVars, getVars
<1>1. CASE SeedLockDrng(t)
  BY <1>1 DEF SeedLockDrng, SeedEnter
<1>2. CASE SeedFill(t)
  BY <1>2 DEF SeedFill
<1>3. CASE SeedEval(t)
  BY <1>3 DEF SeedEval
<1>4. CASE SeedInject(t)
  BY <1>4 DEF SeedInject, InjectOk, InjectFail
<1>5. CASE InitOps(t)
  BY <1>5 DEF InitOps, WakeAllGoto
<1>6. CASE SetOperational(t)
  BY <1>6 DEF SetOperational, WakeAllGoto
<1>7. CASE ShmSetOperational(t)
  BY <1>7 DEF ShmSetOperational
<1>8. CASE SeedAgain(t)
  BY <1>8 DEF SeedAgain
<1>9. CASE SeedUnlockDrng(t)
  BY <1>9 DEF SeedUnlockDrng, SeedLeave
<1>10. CASE GetPoolUnlock(t)
  BY <1>10 DEF GetPoolUnlock
<1> QED
  BY <1>1, <1>2, <1>3, <1>4, <1>5, <1>6, <1>7, <1>8, <1>9, <1>10, Zenon
     DEF SeedStep

(* LockInv is kept by the steps of esdm_drng_get().                        *)
LEMMA LockInvGet ==
    ASSUME TypeOK, LockInv, NEW t \in Threads, GetStep(t)
    PROVE  LockInv'
<1> USE Facts DEF LockInv, InPool, SeedPcs, LockFacts, Goto, esVars, drngVars, mgrVars, seedVars, getVars
<1>1. CASE PrTryLock(t)
  BY <1>1 DEF PrTryLock
<1>2. CASE PickDrng(t)
  BY <1>2 DEF PickDrng
<1>3. CASE CheckDisable(t)
  BY <1>3 DEF CheckDisable
<1>4. CASE GetLoop(t)
  BY <1>4 DEF GetLoop
<1>5. CASE GetTryPool(t)
  BY <1>5 DEF GetTryPool
<1>6. CASE GenLock(t)
  BY <1>6 DEF GenLock
<1>7. CASE PrTryPool(t)
  BY <1>7 DEF PrTryPool, SeedEnter
<1>8. CASE PrPoolUnlock(t)
  BY <1>8 DEF PrPoolUnlock
<1>9. CASE PrLimit(t)
  BY <1>9 DEF PrLimit, SeedLeave
<1>10. CASE Generate(t)
  BY <1>10 DEF Generate
<1>11. CASE GetAccount(t)
  BY <1>11 DEF GetAccount
<1>12. CASE GetMore(t)
  BY <1>12 DEF GetMore
<1> QED
  BY <1>1, <1>2, <1>3, <1>4, <1>5, <1>6, <1>7, <1>8, <1>9, <1>10, <1>11,
     <1>12, Zenon DEF GetStep

(* LockInv is kept by the steps of esdm_unset_fully_seeded().              *)
LEMMA LockInvUnset ==
    ASSUME TypeOK, LockInv, NEW t \in Threads, UnsetStep(t)
    PROVE  LockInv'
<1> USE Facts DEF LockInv, InPool, SeedPcs, LockFacts, Goto, esVars, drngVars, mgrVars, seedVars, getVars
<1>1. CASE UnsetDrng(t)
  BY <1>1 DEF UnsetDrng
<1>2. CASE UnsetAllNodes(t)
  BY <1>2 DEF UnsetAllNodes
<1>3. CASE UnsetOperational(t)
  BY <1>3 DEF UnsetOperational
<1>4. CASE UnsetFullySeeded(t)
  BY <1>4 DEF UnsetFullySeeded
<1>5. CASE UnsetShm(t)
  BY <1>5 DEF UnsetShm
<1>6. CASE MonitorWakeup(t)
  BY <1>6 DEF MonitorWakeup
<1>7. CASE ForceReseed(t)
  BY <1>7, Zenon DEF ForceReseed
<1> QED
  BY <1>1, <1>2, <1>3, <1>4, <1>5, <1>6, <1>7, Zenon DEF UnsetStep

(* LockInv is kept by the steps of esdm_get_seed().                        *)
LEMMA LockInvGetSeed ==
    ASSUME TypeOK, LockInv, NEW t \in Threads, GetSeedStep(t)
    PROVE  LockInv'
<1> USE Facts DEF LockInv, InPool, SeedPcs, LockFacts, Goto, esVars, drngVars, mgrVars, seedVars, getVars
<1>1. CASE GetSeedTryLock(t)
  BY <1>1 DEF GetSeedTryLock
<1>2. CASE GetSeedPoolLock(t)
  BY <1>2 DEF GetSeedPoolLock
<1>3. CASE GetSeedCheck(t)
  BY <1>3 DEF GetSeedCheck
<1>4. CASE GetSeedFill(t)
  BY <1>4 DEF GetSeedFill
<1>5. CASE GetSeedPoolUnlock(t)
  BY <1>5 DEF GetSeedPoolUnlock
<1> QED
  BY <1>1, <1>2, <1>3, <1>4, <1>5, Zenon DEF GetSeedStep

(* LockInv is kept by every step.                                          *)
LEMMA LockInvStep ==
    ASSUME TypeOK, LockInv, [Next]_vars
    PROVE  LockInv'
<1> USE Facts DEF LockInv, InPool, SeedPcs, LockFacts, Goto, esVars, drngVars, mgrVars, seedVars, getVars, ctlVars
<1>1. ASSUME NEW t \in Threads, StartCall(t) PROVE LockInv'
  BY <1>1 DEF StartCall
<1>2. ASSUME NEW t \in Threads, WaitTimeout(t) PROVE LockInv'
  BY <1>2 DEF WaitTimeout
<1>3. ASSUME NEW t \in Threads, Step(t) PROVE LockInv'
  BY ONLY <1>3, TypeOK, LockInv, LockInvWait, LockInvWork, LockInvSeed,
     LockInvGet, LockInvUnset,
     LockInvGetSeed, Zenon DEF Step
<1>4. CASE Arrive
  BY <1>4 DEF Arrive, EsArrive
<1>5. CASE UNCHANGED vars
  BY <1>5 DEF vars
<1> QED
  BY ONLY <1>1, <1>2, <1>3, <1>4, <1>5, [Next]_vars, Zenon DEF Next

(* TypeOK and LockInv hold in every reachable state.                       *)
LEMMA LockInvCorrect == Spec => [](TypeOK /\ LockInv)
<1>1. Init => TypeOK /\ LockInv
  <2> SUFFICES ASSUME Init PROVE TypeOK /\ LockInv
    BY Zenon
  <2>1. LockInv
    BY MgrAssumption, Zenon DEF Init, LockInv, InPool, SeedPcs
  <2> QED
    BY <2>1, TypeInit, Zenon
<1>2. TypeOK /\ LockInv /\ [Next]_vars => TypeOK' /\ LockInv'
  BY TypeStep, LockInvStep, Zenon
<1> QED
  BY <1>1, <1>2, PTL DEF Spec

(* esdm_pool_trylock(), esdm_pool_lock() and esdm_pool_unlock() are used   *)
(* correctly on all four paths that read the entropy pool: one thread at a *)
(* time is inside, and the lock is always given back.                      *)
THEOREM PoolExclusiveCorrect == Spec => []PoolExclusive
<1>1. TypeOK /\ LockInv => PoolExclusive
  BY Zenon DEF TypeOK, LockInv, PoolExclusive
<1> QED
  BY <1>1, LockInvCorrect, PTL

(* The emergency reseeding loop is atomic for the DRNG it seeds: while the *)
(* entropy of several iterations is added up, no thread generates from     *)
(* that DRNG and no other one seeds it.                                    *)
THEOREM SeedingAtomicCorrect == Spec => []SeedingAtomic
<1>1. TypeOK /\ LockInv => SeedingAtomic
  <2> SUFFICES ASSUME TypeOK, LockInv, NEW t \in Threads, NEW u \in Threads,
                      NEW d \in Drngs
               PROVE  /\ Seeding(t, d) /\ Seeding(u, d) => t = u
                      /\ ~(Seeding(t, d) /\ Generating(u, d))
    BY Zenon DEF SeedingAtomic
  <2> QED
    BY DEF LockInv, Seeding, Generating, SeedPcs
<1> QED
  BY <1>1, LockInvCorrect, PTL

(* When the backend takes every seed, the entropy a seeding operation      *)
(* counts was injected into the DRNG, or is about to be, and nothing was   *)
(* generated since; and the level computed for the injection implies the   *)
(* security strength.                                                      *)
EntInv ==
    \A t \in Threads :
        /\ pc[t] \in SeedPcs \ {"eval", "inject"} => coll[t] <= fresh[sd[t]]
        /\ pc[t] \in {"eval", "inject"} => coll[t] <= fresh[sd[t]] + got[t]
        /\ pc[t] \in SeedPcs => MinOf(TotalEnt(eb[t]), CollCap) <= coll[t]
        /\ pc[t] = "inject" /\ lvl[t] => coll[t] >= STRENGTH

(* The part of the type invariant EntInv rests on.                         *)
EntFacts == /\ pc \in [Threads -> AllPcs] /\ lock \in [Drngs -> Threads \cup {None}]
            /\ dr \in [Threads -> Drngs] /\ sd \in [Threads -> Drngs]
            /\ coll \in [Threads -> 0..CollCap] /\ got \in [Threads -> 0..CollCap]
            /\ fresh \in [Drngs -> 0..CollCap]
            /\ eb \in [Threads -> [Es -> 0..CollCap]]
            /\ lvl \in [Threads -> BOOLEAN]

(* It follows from TypeOK.                                                 *)
LEMMA EFacts == TypeOK => EntFacts /\ None \notin Threads /\ "pr" \in Drngs /\ CollCap \in Nat
<1>1. TypeOK => EntFacts
  BY Zenon DEF TypeOK, CtlTypeOK, DrngTypeOK, GetTypeOK, SeedTypeOK, EntFacts
<1>2. None \notin Threads /\ "pr" \in Drngs
  BY MgrAssumption, Zenon DEF Drngs
<1>3. CollCap \in Nat
  BY ConstFacts, Zenon
<1> QED
  BY <1>1, <1>2, <1>3, Zenon

(* An empty seed buffer holds no entropy.                                  *)
LEMMA EmptyTotal == MinOf(TotalEnt(NoEnt), CollCap) <= 0
BY ConstFacts DEF MinOf, TotalEnt, NoEnt, Es

(* Saturation at CollCap: what is added to both sides keeps their order,   *)
LEMMA SatBoth ==
    ASSUME NEW c \in 0..CollCap, NEW f \in 0..CollCap, NEW b \in Nat, c <= f
    PROVE  SatEnt(c + b) <= f + SatEnt(b)
BY ConstFacts DEF SatEnt, MinOf

(* a count below the cap is not lost,                                      *)
LEMMA SatKeeps ==
    ASSUME NEW c \in 0..CollCap, NEW f \in 0..CollCap, NEW g \in 0..CollCap, c <= f + g
    PROVE  c <= SatEnt(f + g)
BY ConstFacts DEF SatEnt, MinOf

(* nothing is lost that was there,                                         *)
LEMMA SatGrows ==
    ASSUME NEW f \in 0..CollCap, NEW g \in 0..CollCap
    PROVE  SatEnt(f + g) >= f /\ SatEnt(f + g) \in 0..CollCap
BY ConstFacts DEF SatEnt, MinOf

(* and the sum of two saturated counts is covered by a saturated one.      *)
LEMMA SatTwo ==
    ASSUME NEW a \in 0..CollCap, NEW n \in 0..CollCap, NEW c \in 0..CollCap,
           NEW x \in Nat, NEW y \in Nat, MinOf(a + n, CollCap) <= c
    PROVE  MinOf(SatEnt(a + x) + SatEnt(n + y), CollCap) <= SatEnt(c + (x + y))
BY ConstFacts DEF SatEnt, MinOf

(* esdm_fully_seeded() accepts no seeding below the security strength:     *)
(* neither with the threshold of the configuration nor with the two        *)
(* sources of AIS 20/31 NTG.1.                                             *)
LEMMA EnoughIsStrength ==
    ASSUME NEW full \in BOOLEAN, NEW c \in 0..CollCap, NEW b \in [Es -> 0..CollCap],
           MinOf(TotalEnt(b), CollCap) <= c, EnoughEntropy(full, c, b)
    PROVE  c >= STRENGTH
<1>1. CASE NTG1
  <2>1. b["aux"] >= NTG1_MIN /\ b["noise"] >= NTG1_MIN
    BY <1>1, Zenon DEF EnoughEntropy, Es
  <2>2. b["aux"] \in Nat /\ b["noise"] \in Nat
    BY ConstFacts DEF Es
  <2> QED
    BY <2>1, <2>2, ConstFacts, EsAssumption DEF MinOf, TotalEnt
<1>2. CASE ~NTG1
  BY <1>2, EsAssumption DEF EnoughEntropy, Osr
<1> QED
  BY <1>1, <1>2, Zenon

(* A thread goes on outside of any seeding, and no DRNG is generated from. *)
LEMMA EntQuiet ==
    ASSUME EntInv, NEW t \in Threads, UNCHANGED <<fresh, coll, got, eb, lvl>>,
           pc'[t] \notin SeedPcs,
           \A u \in Threads \ {t} : pc'[u] = pc[u] /\ sd'[u] = sd[u]
    PROVE  EntInv'
<1>1. "inject" \in SeedPcs /\ "eval" \in SeedPcs
  BY Zenon DEF SeedPcs
<1>2. \A u \in Threads : pc'[u] \in SeedPcs => pc'[u] = pc[u] /\ sd'[u] = sd[u]
  BY Zenon
<1> QED
  BY <1>1, <1>2, Zenon DEF EntInv

(* What EntInv says of one thread in its state after the step.             *)
EntNext(t) ==
    /\ pc'[t] \in SeedPcs \ {"eval", "inject"} => coll'[t] <= fresh'[sd'[t]]
    /\ pc'[t] \in {"eval", "inject"} => coll'[t] <= fresh'[sd'[t]] + got'[t]
    /\ pc'[t] \in SeedPcs => MinOf(TotalEnt(eb'[t]), CollCap) <= coll'[t]
    /\ pc'[t] = "inject" /\ lvl'[t] => coll'[t] >= STRENGTH

(* A step of t that leaves the locals of the other threads, and the DRNGs  *)
(* they seed, alone keeps EntInv when it keeps it for t.                   *)
LEMMA EntOthers ==
    ASSUME EntInv, NEW t \in Threads, EntNext(t),
           \A u \in Threads \ {t} : /\ pc'[u] = pc[u] /\ coll'[u] = coll[u]
                                    /\ got'[u] = got[u] /\ eb'[u] = eb[u]
                                    /\ lvl'[u] = lvl[u],
           \A u \in Threads \ {t} : pc[u] \in SeedPcs => fresh'[sd'[u]] = fresh[sd[u]]
    PROVE  EntInv'
<1> SUFFICES ASSUME NEW u \in Threads
             PROVE  EntNext(u)
  BY Zenon DEF EntInv, EntNext
<1>1. CASE u = t
  BY <1>1, Zenon
<1>2. CASE u # t
  <2>1. /\ pc'[u] = pc[u] /\ coll'[u] = coll[u] /\ got'[u] = got[u]
        /\ eb'[u] = eb[u] /\ lvl'[u] = lvl[u]
    BY <1>2, Zenon
  <2>2. pc[u] \in SeedPcs => fresh'[sd'[u]] = fresh[sd[u]]
    BY <1>2, Zenon
  <2>3. pc[u] \in {"eval", "inject"} => pc[u] \in SeedPcs
    BY Zenon DEF SeedPcs
  <2> QED
    BY <2>1, <2>2, <2>3, Zenon DEF EntInv, EntNext
<1> QED
  BY <1>1, <1>2, Zenon

(* EntInv is kept by the steps of the waiting calls.                       *)
LEMMA EntInvWait ==
    ASSUME ~SeedMayFail, TypeOK, LockInv, EntInv, NEW t \in Threads, WaitStep(t)
    PROVE  EntInv'
<1> USE EFacts DEF EntInv, InPool, SeedPcs, EntFacts, Goto, esVars, drngVars, mgrVars, seedVars, getVars
<1>1. CASE ForceFullySeeded(t)
  BY <1>1 DEF ForceFullySeeded, AfterForce
<1>2. CASE SleepGate(t)
  BY <1>2 DEF SleepGate, AfterGate
<1>3. CASE WaitTest(t)
  BY <1>3, Zenon DEF WaitTest, AfterGate
<1>4. CASE CondWait(t)
  BY <1>4, Zenon DEF CondWait
<1>5. CASE Return(t)
  BY <1>5, Zenon DEF Return
<1> QED
  BY <1>1, <1>2, <1>3, <1>4, <1>5, Zenon DEF WaitStep

(* EntInv is kept by the steps of __esdm_drng_seed_work().                 *)
LEMMA EntInvWork ==
    ASSUME ~SeedMayFail, TypeOK, LockInv, EntInv, NEW t \in Threads, WorkStep(t)
    PROVE  EntInv'
<1> USE EFacts DEF EntInv, InPool, SeedPcs, EntFacts, Goto, esVars, drngVars, mgrVars, seedVars, getVars
<1>1. CASE PoolLock(t)
  BY <1>1, Zenon DEF PoolLock
<1>2. CASE SeedWorkScan(t)
  <2>1. /\ UNCHANGED <<fresh, coll, got, eb, lvl>> /\ pc'[t] \notin SeedPcs
        /\ \A u \in Threads \ {t} : pc'[u] = pc[u] /\ sd'[u] = sd[u]
    <3>1. /\ UNCHANGED <<fresh, coll, got, eb, lvl>>
          /\ \/ UNCHANGED <<pc, sd>>
             \/ /\ sd' = [sd EXCEPT ![t] = SeedOrder[idx[t]]]
                /\ pc' = [pc EXCEPT ![t] = "slock"]
      BY <1>2, Zenon DEF SeedWorkScan
    <3>2. pc[t] = "scan"
      BY <1>2, Zenon DEF SeedWorkScan
    <3> QED
      BY <3>1, <3>2
  <2> HIDE DEF EntInv, EntFacts
  <2> QED
    BY <2>1, EntQuiet, Zenon
<1>3. CASE SeedWorkAllSeeded(t)
  BY <1>3, Zenon DEF SeedWorkAllSeeded, WakeAllGoto
<1>4. CASE SeedWorkOut(t)
  BY <1>4 DEF SeedWorkOut, AfterWork, AfterForce, AfterAdd
<1>5. CASE AddEntropyWanted(t)
  BY <1>5 DEF AddEntropyWanted, AfterAdd
<1>6. CASE AddEntropyTryLock(t)
  BY <1>6 DEF AddEntropyTryLock, AfterAdd
<1>7. CASE MonitorCheck(t)
  BY <1>7, Zenon DEF MonitorCheck
<1>8. CASE MonitorSleep(t)
  BY <1>8, Zenon DEF MonitorSleep
<1>9. CASE NodeAlloc(t)
  BY <1>9, Zenon DEF NodeAlloc
<1>10. CASE ShmStatusInit(t)
  BY <1>10, Zenon DEF ShmStatusInit
<1> QED
  BY <1>1, <1>2, <1>3, <1>4, <1>5, <1>6, <1>7, <1>8, <1>9, <1>10, Zenon
     DEF WorkStep

(* EntInv is kept by the steps of esdm_drng_seed_es().                     *)
LEMMA EntInvSeed ==
    ASSUME ~SeedMayFail, TypeOK, LockInv, EntInv, NEW t \in Threads, SeedStep(t)
    PROVE  EntInv'
<1> USE EFacts DEF EntInv, InPool, SeedPcs, EntFacts, Goto, esVars, drngVars, mgrVars, seedVars, getVars
<1>1. CASE SeedLockDrng(t)
  <2>1. coll'[t] = 0 /\ eb'[t] = NoEnt /\ 0 <= fresh'[sd'[t]] /\ pc'[t] = "fill"
    BY <1>1 DEF SeedLockDrng, SeedEnter, TypeOK, SeedTypeOK
  <2>2. \A u \in Threads \ {t} : /\ pc'[u] = pc[u] /\ coll'[u] = coll[u]
                                 /\ got'[u] = got[u] /\ eb'[u] = eb[u]
                                 /\ lvl'[u] = lvl[u] /\ sd'[u] = sd[u]
    BY <1>1 DEF SeedLockDrng, SeedEnter
  <2>3. UNCHANGED fresh
    BY <1>1, Zenon DEF SeedLockDrng
  <2> HIDE DEF EntInv, EntFacts
  <2>4. EntNext(t)
    BY <2>1, EmptyTotal, Zenon DEF EntNext
  <2> QED
    BY <2>2, <2>3, <2>4, EntOthers, Zenon
<1>2. CASE SeedFill(t)
  <2>1. PICK buf \in [Es -> Nat] :
          /\ TotalEnt(buf) \in Nat
          /\ got' = [got EXCEPT ![t] = SatEnt(TotalEnt(buf))]
          /\ coll' = [coll EXCEPT ![t] = SatEnt(@ + TotalEnt(buf))]
          /\ eb' = [eb EXCEPT ![t] = [e \in Es |-> SatEnt(@[e] + buf[e])]]
    BY ONLY <1>2, TypeOK, t \in Threads, SeedFillBuf, Zenon
  <2>3. buf \in [Es -> Nat] /\ TotalEnt(buf) \in Nat
    BY <2>1, Zenon
  <2>4. /\ got'[t] = SatEnt(TotalEnt(buf))
        /\ coll'[t] = SatEnt(coll[t] + TotalEnt(buf))
        /\ eb'[t] = [e \in Es |-> SatEnt(eb[t][e] + buf[e])]
    BY <2>1, Zenon
  <2>5. coll'[t] <= fresh[sd[t]] + got'[t]
    <3>1. coll[t] <= fresh[sd[t]]
      BY <1>2, Zenon DEF SeedFill
    <3>2. coll[t] \in 0..CollCap /\ fresh[sd[t]] \in 0..CollCap
      BY Zenon
    <3>3. SatEnt(coll[t] + TotalEnt(buf)) <= fresh[sd[t]] + SatEnt(TotalEnt(buf))
      BY ONLY <2>3, <3>1, <3>2, SatBoth, Zenon
    <3> QED
      BY ONLY <2>4, <3>3, Zenon
  <2>6. MinOf(TotalEnt(eb'[t]), CollCap) <= coll'[t]
    <3>1. MinOf(TotalEnt(eb[t]), CollCap) <= coll[t]
      BY <1>2, Zenon DEF SeedFill
    <3>2. /\ eb[t]["aux"] \in 0..CollCap /\ eb[t]["noise"] \in 0..CollCap
          /\ buf["aux"] \in Nat /\ buf["noise"] \in Nat /\ coll[t] \in 0..CollCap
      <4>1. eb[t] \in [Es -> 0..CollCap] /\ coll[t] \in 0..CollCap
        BY ONLY TypeOK, t \in Threads, EFacts, Zenon DEF EntFacts
      <4> QED
        BY ONLY <2>3, <4>1, Zenon DEF Es
    <3>3. /\ eb'[t]["aux"] = SatEnt(eb[t]["aux"] + buf["aux"])
          /\ eb'[t]["noise"] = SatEnt(eb[t]["noise"] + buf["noise"])
      BY <2>4, Zenon DEF Es
    <3>4. MinOf(eb'[t]["aux"] + eb'[t]["noise"], CollCap)
            <= SatEnt(coll[t] + (buf["aux"] + buf["noise"]))
      BY ONLY <3>1, <3>2, <3>3, SatTwo, Zenon DEF TotalEnt
    <3> QED
      BY ONLY <2>4, <3>4, Zenon DEF TotalEnt
  <2>7. /\ pc'[t] = "eval" /\ UNCHANGED <<sd, fresh, lvl>>
    BY <1>2, <2>1, Zenon DEF SeedFill
  <2>8. \A u \in Threads \ {t} : /\ pc'[u] = pc[u] /\ coll'[u] = coll[u]
                                 /\ got'[u] = got[u] /\ eb'[u] = eb[u]
    BY <1>2, <2>1, Zenon DEF SeedFill
  <2> HIDE DEF EntInv, EntFacts
  <2>9. EntNext(t)
    BY <2>5, <2>6, <2>7, Zenon DEF EntNext
  <2> QED
    BY <2>7, <2>8, <2>9, EntOthers, Zenon
<1>3. CASE SeedEval(t)
  <2>1. lvl'[t] => coll[t] >= STRENGTH
    BY <1>3, EnoughIsStrength, SMTT(20)
       DEF SeedEval, TypeOK, SeedTypeOK, DrngTypeOK
  <2> QED
    BY <1>3, <2>1, Zenon DEF SeedEval
<1>4. CASE SeedInject(t)
  <2>1. fresh' = [fresh EXCEPT ![sd[t]] = SatEnt(@ + got[t])]
    BY <1>4, Zenon DEF SeedInject, InjectOk
  <2>2. coll[t] <= SatEnt(fresh[sd[t]] + got[t])
    <3>1. /\ coll[t] \in 0..CollCap /\ fresh[sd[t]] \in 0..CollCap /\ got[t] \in 0..CollCap
          /\ coll[t] <= fresh[sd[t]] + got[t]
      BY <1>4, Zenon DEF SeedInject
    <3> QED
      BY ONLY <3>1, SatKeeps, Zenon
  <2>3. \A u \in Threads \ {t} : pc[u] \in SeedPcs => sd[u] # sd[t]
    BY <1>4, Zenon DEF SeedInject, LockInv
  <2>4. /\ pc'[t] = "initops" /\ UNCHANGED <<sd, coll, got, eb, lvl>>
        /\ \A u \in Threads \ {t} : pc'[u] = pc[u]
    BY <1>4, Zenon DEF SeedInject
  <2>5. coll'[t] <= fresh'[sd'[t]]
    BY <2>1, <2>2, <2>4, Zenon
  <2>6. MinOf(TotalEnt(eb'[t]), CollCap) <= coll'[t]
    BY <1>4, <2>4, Zenon DEF SeedInject
  <2>7. sd \in [Threads -> Drngs] /\ DOMAIN fresh = Drngs
    BY EFacts, Zenon
  <2> HIDE DEF EntInv, EntFacts, SeedPcs
  <2>8. \A u \in Threads \ {t} : pc[u] \in SeedPcs => fresh'[sd'[u]] = fresh[sd[u]]
    <3> SUFFICES ASSUME NEW u \in Threads \ {t}, pc[u] \in SeedPcs
                 PROVE  fresh'[sd'[u]] = fresh[sd[u]]
      BY Zenon
    <3>1. sd'[u] = sd[u] /\ sd[u] # sd[t] /\ sd[u] \in Drngs
      BY <2>3, <2>4, <2>7, Zenon
    <3> QED
      BY <2>1, <2>7, <3>1, Zenon
  <2>9. EntNext(t)
    BY <2>4, <2>5, <2>6, Zenon DEF EntNext
  <2> QED
    BY <2>4, <2>8, <2>9, EntOthers, Zenon
<1>5. CASE InitOps(t)
  BY <1>5 DEF InitOps, WakeAllGoto
<1>6. CASE SetOperational(t)
  BY <1>6 DEF SetOperational, WakeAllGoto
<1>7. CASE ShmSetOperational(t)
  BY <1>7, Zenon DEF ShmSetOperational
<1>8. CASE SeedAgain(t)
  BY <1>8 DEF SeedAgain
<1>9. CASE SeedUnlockDrng(t)
  BY <1>9 DEF SeedUnlockDrng, SeedLeave
<1>10. CASE GetPoolUnlock(t)
  BY <1>10, Zenon DEF GetPoolUnlock
<1> QED
  BY <1>1, <1>2, <1>3, <1>4, <1>5, <1>6, <1>7, <1>8, <1>9, <1>10, Zenon
     DEF SeedStep

(* EntInv is kept by the steps of esdm_drng_get().                         *)
LEMMA EntInvGet ==
    ASSUME ~SeedMayFail, TypeOK, LockInv, EntInv, NEW t \in Threads, GetStep(t)
    PROVE  EntInv'
<1> USE EFacts DEF EntInv, InPool, SeedPcs, EntFacts, Goto, esVars, drngVars, mgrVars, seedVars, getVars
<1>1. CASE PrTryLock(t)
  BY <1>1 DEF PrTryLock
<1>2. CASE PickDrng(t)
  BY <1>2, Zenon DEF PickDrng
<1>3. CASE CheckDisable(t)
  BY <1>3 DEF CheckDisable
<1>4. CASE GetLoop(t)
  <2>1. /\ UNCHANGED <<fresh, coll, got, eb, lvl>> /\ pc'[t] \notin SeedPcs
        /\ \A u \in Threads \ {t} : pc'[u] = pc[u] /\ sd'[u] = sd[u]
    BY <1>4, Zenon DEF GetLoop
  <2> HIDE DEF EntInv, EntFacts
  <2> QED
    BY <2>1, EntQuiet
<1>5. CASE GetTryPool(t)
  <2>1. /\ UNCHANGED <<fresh, coll, got, eb, lvl>> /\ pc'[t] \notin SeedPcs
        /\ \A u \in Threads \ {t} : pc'[u] = pc[u] /\ sd'[u] = sd[u]
    BY <1>5 DEF GetTryPool
  <2> HIDE DEF EntInv, EntFacts
  <2> QED
    BY <2>1, EntQuiet
<1>6. CASE GenLock(t)
  <2>1. /\ UNCHANGED <<fresh, coll, got, eb, lvl>> /\ pc'[t] \notin SeedPcs
        /\ \A u \in Threads \ {t} : pc'[u] = pc[u] /\ sd'[u] = sd[u]
    BY <1>6, Zenon DEF GenLock
  <2> HIDE DEF EntInv, EntFacts
  <2> QED
    BY <2>1, EntQuiet
<1>7. CASE PrTryPool(t)
  <2>1. CASE pool = None
    <3>1. coll'[t] = 0 /\ eb'[t] = NoEnt /\ 0 <= fresh'[sd'[t]] /\ pc'[t] = "fill"
      <4>1. coll'[t] = 0 /\ eb'[t] = NoEnt /\ pc'[t] = "fill"
        BY <1>7, <2>1 DEF PrTryPool, SeedEnter
      <4>2. sd'[t] = "pr" /\ fresh' = fresh
        BY <1>7, <2>1 DEF PrTryPool
      <4>3. 0 <= fresh["pr"]
        OBVIOUS
      <4> QED
        BY <4>1, <4>2, <4>3, Zenon
    <3>2. \A u \in Threads \ {t} : /\ pc'[u] = pc[u] /\ coll'[u] = coll[u]
                                   /\ got'[u] = got[u] /\ eb'[u] = eb[u]
                                   /\ lvl'[u] = lvl[u] /\ sd'[u] = sd[u]
      BY <1>7, <2>1 DEF PrTryPool, SeedEnter
    <3>3. UNCHANGED fresh
      BY <1>7, Zenon DEF PrTryPool
    <3> HIDE DEF EntInv, EntFacts
    <3>4. EntNext(t)
      BY <3>1, EmptyTotal DEF EntNext
    <3> QED
      BY <3>2, <3>3, <3>4, EntOthers, Zenon
  <2>2. CASE pool # None
    BY <1>7, <2>2 DEF PrTryPool
  <2> QED
    BY <2>1, <2>2, Zenon
<1>8. CASE PrPoolUnlock(t)
  <2>1. /\ UNCHANGED <<fresh, coll, got, eb, lvl>> /\ pc'[t] \notin SeedPcs
        /\ \A u \in Threads \ {t} : pc'[u] = pc[u] /\ sd'[u] = sd[u]
    BY <1>8, Zenon DEF PrPoolUnlock
  <2> HIDE DEF EntInv, EntFacts
  <2> QED
    BY <2>1, EntQuiet
<1>9. CASE PrLimit(t)
  BY <1>9 DEF PrLimit, SeedLeave
<1>10. CASE Generate(t)
  <2>1. \A u \in Threads : pc[u] \in SeedPcs => sd[u] # dr[t]
    <3>1. pc[t] = "gen"
      BY <1>10, Zenon DEF Generate
    <3>2. lock[dr[t]] = t /\ \A u \in Threads : pc[u] \in SeedPcs => lock[sd[u]] = u
      BY <3>1, Zenon DEF LockInv
    <3> QED
      BY <3>1, <3>2, Zenon
  <2>2. \A d \in Drngs \ {dr[t]} : fresh'[d] = fresh[d]
    BY <1>10, Zenon DEF Generate
  <2>3. /\ pc'[t] \in {"post", "ret"}
        /\ \A u \in Threads \ {t} : pc'[u] = pc[u]
    BY <1>10, Zenon DEF Generate
  <2> QED
    BY <1>10, <2>1, <2>2, <2>3 DEF Generate
<1>11. CASE GetAccount(t)
  <2>1. /\ UNCHANGED <<fresh, coll, got, eb, lvl>> /\ pc'[t] \notin SeedPcs
        /\ \A u \in Threads \ {t} : pc'[u] = pc[u] /\ sd'[u] = sd[u]
    BY <1>11 DEF GetAccount
  <2> HIDE DEF EntInv, EntFacts
  <2> QED
    BY <2>1, EntQuiet
<1>12. CASE GetMore(t)
  <2>1. /\ UNCHANGED <<fresh, coll, got, eb, lvl>> /\ pc'[t] \notin SeedPcs
        /\ \A u \in Threads \ {t} : pc'[u] = pc[u] /\ sd'[u] = sd[u]
    BY <1>12, Zenon DEF GetMore
  <2> HIDE DEF EntInv, EntFacts
  <2> QED
    BY <2>1, EntQuiet
<1> QED
  BY <1>1, <1>2, <1>3, <1>4, <1>5, <1>6, <1>7, <1>8, <1>9, <1>10, <1>11,
     <1>12, Zenon DEF GetStep

(* EntInv is kept by the steps of esdm_unset_fully_seeded().               *)
LEMMA EntInvUnset ==
    ASSUME ~SeedMayFail, TypeOK, LockInv, EntInv, NEW t \in Threads, UnsetStep(t)
    PROVE  EntInv'
<1> USE EFacts DEF EntInv, InPool, SeedPcs, EntFacts, Goto, esVars, drngVars, mgrVars, seedVars, getVars
<1>1. CASE UnsetDrng(t)
  BY <1>1, Zenon DEF UnsetDrng
<1>2. CASE UnsetAllNodes(t)
  BY <1>2 DEF UnsetAllNodes
<1>3. CASE UnsetOperational(t)
  BY <1>3, Zenon DEF UnsetOperational
<1>4. CASE UnsetFullySeeded(t)
  BY <1>4, Zenon DEF UnsetFullySeeded
<1>5. CASE UnsetShm(t)
  BY <1>5, Zenon DEF UnsetShm
<1>6. CASE MonitorWakeup(t)
  BY <1>6, Zenon DEF MonitorWakeup
<1>7. CASE ForceReseed(t)
  <2>1. /\ UNCHANGED <<fresh, coll, got, eb, lvl>> /\ pc'[t] \notin SeedPcs
        /\ \A u \in Threads \ {t} : pc'[u] = pc[u] /\ sd'[u] = sd[u]
    BY <1>7, Zenon DEF ForceReseed
  <2> HIDE DEF EntInv, EntFacts
  <2> QED
    BY <2>1, EntQuiet, Zenon
<1> QED
  BY <1>1, <1>2, <1>3, <1>4, <1>5, <1>6, <1>7, Zenon DEF UnsetStep

(* EntInv is kept by the steps of esdm_get_seed().                         *)
LEMMA EntInvGetSeed ==
    ASSUME ~SeedMayFail, TypeOK, LockInv, EntInv, NEW t \in Threads, GetSeedStep(t)
    PROVE  EntInv'
<1> USE EFacts DEF EntInv, InPool, SeedPcs, EntFacts, Goto, esVars, drngVars, mgrVars, seedVars, getVars
<1>1. CASE GetSeedTryLock(t)
  BY <1>1 DEF GetSeedTryLock
<1>2. CASE GetSeedPoolLock(t)
  <2>1. /\ UNCHANGED <<fresh, coll, got, eb, lvl>> /\ pc'[t] \notin SeedPcs
        /\ \A u \in Threads \ {t} : pc'[u] = pc[u] /\ sd'[u] = sd[u]
    BY <1>2, Zenon DEF GetSeedPoolLock
  <2> HIDE DEF EntInv, EntFacts
  <2> QED
    BY <2>1, EntQuiet
<1>3. CASE GetSeedCheck(t)
  BY <1>3, Zenon DEF GetSeedCheck
<1>4. CASE GetSeedFill(t)
  <2>1. /\ UNCHANGED <<fresh, coll, got, eb, lvl>> /\ pc'[t] \notin SeedPcs
        /\ \A u \in Threads \ {t} : pc'[u] = pc[u] /\ sd'[u] = sd[u]
    BY <1>4, Zenon DEF GetSeedFill
  <2> HIDE DEF EntInv, EntFacts
  <2> QED
    BY <2>1, EntQuiet
<1>5. CASE GetSeedPoolUnlock(t)
  BY <1>5, Zenon DEF GetSeedPoolUnlock
<1> QED
  BY <1>1, <1>2, <1>3, <1>4, <1>5, Zenon DEF GetSeedStep

(* EntInv is kept by every step.                                           *)
LEMMA EntInvStep ==
    ASSUME ~SeedMayFail, TypeOK, LockInv, EntInv, [Next]_vars
    PROVE  EntInv'
<1> USE EFacts DEF EntInv, InPool, SeedPcs, EntFacts, Goto, esVars, drngVars, mgrVars, seedVars, getVars, ctlVars
<1>1. ASSUME NEW t \in Threads, StartCall(t) PROVE EntInv'
  BY <1>1 DEF StartCall
<1>2. ASSUME NEW t \in Threads, WaitTimeout(t) PROVE EntInv'
  <2>1. /\ UNCHANGED <<fresh, coll, got, eb, lvl>> /\ pc'[t] \notin SeedPcs
        /\ \A u \in Threads \ {t} : pc'[u] = pc[u] /\ sd'[u] = sd[u]
    BY <1>2, Zenon DEF WaitTimeout
  <2> HIDE DEF EntInv, EntFacts
  <2> QED
    BY <1>2, <2>1, EntQuiet, Zenon
<1>3. ASSUME NEW t \in Threads, Step(t) PROVE EntInv'
  BY ONLY <1>3, ~SeedMayFail, TypeOK, LockInv, EntInv, EntInvWait, EntInvWork,
     EntInvSeed, EntInvGet, EntInvUnset,
     EntInvGetSeed, Zenon DEF Step
<1>4. CASE Arrive
  BY <1>4, Zenon DEF Arrive, EsArrive
<1>5. CASE UNCHANGED vars
  BY <1>5, Zenon DEF vars
<1> QED
  BY ONLY <1>1, <1>2, <1>3, <1>4, <1>5, [Next]_vars, Zenon DEF Next

(* EntInv holds in every reachable state.                                  *)
LEMMA EntInvCorrect ==
    ASSUME ~SeedMayFail
    PROVE  Spec => [](TypeOK /\ LockInv /\ EntInv)
<1>1. Init => EntInv
  BY DEF Init, EntInv, SeedPcs
<1>2. TypeOK /\ LockInv /\ EntInv /\ [Next]_vars => EntInv'
  BY EntInvStep, Zenon
<1> QED
  BY <1>1, <1>2, LockInvCorrect, PTL DEF Spec

(* Only the injection of a seed turns a DRNG fully seeded.                 *)
LEMMA FullyChanges ==
    ASSUME TypeOK, Next, ~SeedMayFail, NEW d \in Drngs, ~fully[d], fully'[d]
    PROVE  \E t \in Threads : SeedInject(t) /\ d = sd[t]
<1>1. ASSUME NEW t \in Threads, StartCall(t) \/ WaitTimeout(t) PROVE fully' = fully
  BY <1>1, Zenon DEF StartCall, WaitTimeout, drngVars
<1>2. ASSUME NEW t \in Threads, WaitStep(t) PROVE fully' = fully
  BY <1>2, Zenon DEF WaitStep, ForceFullySeeded, SleepGate, WaitTest, CondWait,
     Return,
     drngVars
<1>3. ASSUME NEW t \in Threads, WorkStep(t) PROVE fully' = fully
  BY <1>3, Zenon DEF WorkStep, PoolLock, SeedWorkScan, SeedWorkAllSeeded,
     SeedWorkOut,
     AddEntropyWanted, AddEntropyTryLock, MonitorCheck, MonitorSleep, NodeAlloc,
     ShmStatusInit, drngVars
<1>4. ASSUME NEW t \in Threads, SeedStep(t)
      PROVE  fully' = fully \/ (SeedInject(t) /\ d = sd[t])
  <2>1. CASE SeedInject(t)
    BY <2>1, Zenon DEF SeedInject, InjectOk, TypeOK, DrngTypeOK
  <2>2. CASE ~SeedInject(t)
    BY <1>4, <2>2, Zenon
       DEF SeedStep, SeedLockDrng, SeedFill, SeedEval, InitOps,
       SetOperational, ShmSetOperational, SeedAgain, SeedUnlockDrng,
       GetPoolUnlock, drngVars
  <2> QED
    BY <2>1, <2>2, Zenon
<1>5. ASSUME NEW t \in Threads, GetStep(t) PROVE fully' = fully
  BY <1>5, Zenon
     DEF GetStep, PrTryLock, PickDrng, CheckDisable, GetLoop, GetTryPool,
     GenLock, PrTryPool, PrPoolUnlock, PrLimit, Generate, GetAccount, GetMore,
     drngVars
<1>6. ASSUME NEW t \in Threads, UnsetStep(t) PROVE fully'[d] = fully[d] \/ ~fully'[d]
  BY <1>6, Zenon DEF UnsetStep, UnsetDrng, UnsetAllNodes, UnsetOperational,
     UnsetFullySeeded, UnsetShm, MonitorWakeup, ForceReseed, drngVars, TypeOK,
     DrngTypeOK
<1>7. ASSUME NEW t \in Threads, GetSeedStep(t) PROVE fully' = fully
  BY <1>7, Zenon
     DEF GetSeedStep, GetSeedTryLock, GetSeedPoolLock, GetSeedCheck,
     GetSeedFill, GetSeedPoolUnlock, drngVars
<1>8. Arrive => fully' = fully
  BY Zenon DEF Arrive, drngVars
<1> QED
  BY <1>1, <1>2, <1>3, <1>4, <1>5, <1>6, <1>7, <1>8, Zenon DEF Next, Step

(* Where the configuration does not oversample (esdm_sp80090c_compliant()  *)
(* is false) and the backend takes every seed, a DRNG only turns fully     *)
(* seeded by entropy of at least the security strength injected after it   *)
(* last generated.                                                         *)
THEOREM SeededEarnedCorrect ==
    ASSUME ~SeedMayFail, ~SP80090C
    PROVE  Spec => SeededEarned
<1>1. TypeOK /\ LockInv /\ EntInv /\ [Next]_vars
        => [\A d \in Drngs : ~fully[d] /\ fully'[d] => fresh'[d] >= Osr(FALSE)]_vars
  <2> SUFFICES ASSUME TypeOK, LockInv, EntInv, Next, NEW d \in Drngs,
                      ~fully[d], fully'[d]
               PROVE  fresh'[d] >= Osr(FALSE)
    BY Zenon
  <2>1. PICK t \in Threads : SeedInject(t) /\ d = sd[t]
    BY FullyChanges, Zenon
  <2>2. /\ fresh'[d] = SatEnt(fresh[d] + got[t]) /\ lvl[t] /\ pc[t] = "inject"
    <3>1. pc[t] = "inject" /\ InjectOk(t)
      BY <2>1, Zenon DEF SeedInject
    <3>2. /\ fully' = [fully EXCEPT ![d] = @ \/ lvl[t]]
          /\ fresh' = [fresh EXCEPT ![d] = SatEnt(@ + got[t])]
      BY <2>1, <3>1, Zenon DEF InjectOk
    <3>3. DOMAIN fully = Drngs /\ DOMAIN fresh = Drngs
      BY Zenon DEF TypeOK, DrngTypeOK
    <3>4. fully'[d] = (fully[d] \/ lvl[t]) /\ fresh'[d] = SatEnt(fresh[d] + got[t])
      BY <3>2, <3>3, Zenon
    <3> QED
      BY <3>1, <3>4, Zenon
  <2>3. coll[t] >= STRENGTH /\ coll[t] <= fresh[d] + got[t]
    BY <2>1, <2>2, Zenon DEF EntInv
  <2> QED
    BY <2>2, <2>3, EFacts, ConstFacts DEF Osr, SatEnt, MinOf, EntFacts
<1> QED
  BY <1>1, EntInvCorrect, PTL DEF Spec, SeededEarned

-----------------------------------------------------------------------------
(* Prediction resistance. The inductive invariant PrInv rests on LockInv   *)
(* and EntInv.                                                             *)

(* No thread calls esdm_get_random_bytes_pr_noblock(), which does without  *)
(* esdm_pr_lock.                                                           *)
NoPrNoblock == \A t \in Threads : "pr_noblock" \notin Ops[t]

(* At most one thread, the holder of esdm_pr_lock, uses the prediction     *)
(* resistance DRNG, as esdm_get_random_bytes_pr_noblock() is not called;   *)
(* the DRNG counts as fully seeded only with a full unused seed, except    *)
(* between its generation and its unsetting; and what is generated next is *)
(* covered by entropy.                                                     *)
PrInv ==
    /\ \A t \in Threads :
         /\ dr[t] = "pr" \/ (pc[t] = "pick" /\ call[t] = "pr") => prLock = t
         /\ call[t] # "pr_noblock"
         /\ pc[t] = "prcheck" => coll[t] <= fresh["pr"]
         /\ pc[t] = "gen" /\ dr[t] = "pr" => todo[t] <= fresh["pr"]
    /\ \/ ~fully["pr"] \/ fresh["pr"] >= STRENGTH
       \/ \E t \in Threads : pc[t] \in {"post", "unset"} /\ dr[t] = "pr"

(* The part of the type invariant PrInv rests on.                          *)
PrFacts == /\ pc \in [Threads -> AllPcs] /\ lock \in [Drngs -> Threads \cup {None}]
           /\ dr \in [Threads -> Drngs] /\ sd \in [Threads -> Drngs]
           /\ coll \in [Threads -> 0..CollCap] /\ fresh \in [Drngs -> 0..CollCap]
           /\ fully \in [Drngs -> BOOLEAN]
           /\ todo \in [Threads -> 0..STRENGTH]
           /\ call \in [Threads -> ApiCalls \cup {"boot", "none"}]

(* It follows from TypeOK.                                                 *)
LEMMA PFacts == TypeOK => /\ PrFacts /\ None \notin Threads /\ {"init", "pr"} \subseteq Drngs
                          /\ CollCap \in Nat /\ STRENGTH \in Nat /\ STRENGTH <= CollCap
<1>1. TypeOK => PrFacts
  BY Zenon DEF TypeOK, CtlTypeOK, DrngTypeOK, GetTypeOK, SeedTypeOK, PrFacts
<1>2. None \notin Threads /\ {"init", "pr"} \subseteq Drngs
  BY MgrAssumption, Zenon DEF Drngs
<1>3. CollCap \in Nat /\ STRENGTH \in Nat /\ STRENGTH <= CollCap
  BY ConstFacts, Zenon
<1> QED
  BY <1>1, <1>2, <1>3, Zenon

(* A step that touches neither the prediction resistance DRNG nor a thread *)
(* that uses it.                                                           *)
LEMMA PrQuiet ==
    ASSUME PrInv, UNCHANGED <<dr, call, prLock, coll, fresh, fully, todo>>,
           \A u \in Threads :
             /\ pc'[u] \in {"pick", "prcheck", "gen"} => pc'[u] = pc[u]
             /\ pc[u] \in {"post", "unset"} => pc'[u] = pc[u]
    PROVE  PrInv'
BY Zenon DEF PrInv

(* PrInv is kept by the steps of the waiting calls.                        *)
LEMMA PrInvWait ==
    ASSUME ~SeedMayFail, TypeOK, LockInv, EntInv, PrInv, NEW t \in Threads, WaitStep(t)
    PROVE  PrInv'
<1> USE PFacts DEF PrInv, PrFacts, Goto, esVars, drngVars, mgrVars, seedVars, getVars
<1>1. CASE ForceFullySeeded(t)
  BY <1>1 DEF ForceFullySeeded, AfterForce
<1>2. CASE SleepGate(t)
  BY <1>2 DEF SleepGate, AfterGate
<1>3. CASE WaitTest(t)
  BY <1>3 DEF WaitTest, AfterGate
<1>4. CASE CondWait(t)
  BY <1>4, Zenon DEF CondWait
<1>5. CASE Return(t)
  BY <1>5 DEF Return
<1> QED
  BY <1>1, <1>2, <1>3, <1>4, <1>5, Zenon DEF WaitStep

(* PrInv is kept by the steps of __esdm_drng_seed_work().                  *)
LEMMA PrInvWork ==
    ASSUME ~SeedMayFail, TypeOK, LockInv, EntInv, PrInv, NEW t \in Threads, WorkStep(t)
    PROVE  PrInv'
<1> USE PFacts DEF PrInv, PrFacts, Goto, esVars, drngVars, mgrVars, seedVars, getVars
<1>1. CASE PoolLock(t)
  BY <1>1 DEF PoolLock
<1>2. CASE SeedWorkScan(t)
  <2>1. UNCHANGED <<dr, call, prLock, coll, fresh, fully, todo>>
    BY <1>2, Zenon DEF SeedWorkScan
  <2>2. \A u \in Threads : /\ pc'[u] \in {"pick", "prcheck", "gen"} => pc'[u] = pc[u]
                           /\ pc[u] \in {"post", "unset"} => pc'[u] = pc[u]
    <3>1. pc[t] = "scan" /\ (pc' = pc \/ pc' = [pc EXCEPT ![t] = "slock"])
      BY <1>2, Zenon DEF SeedWorkScan
    <3> QED
      BY <3>1, Zenon
  <2> HIDE DEF PrInv, PrFacts
  <2> QED
    BY <2>1, <2>2, PrQuiet, Zenon
<1>3. CASE SeedWorkAllSeeded(t)
  BY <1>3, Zenon DEF SeedWorkAllSeeded, WakeAllGoto
<1>4. CASE SeedWorkOut(t)
  BY <1>4 DEF SeedWorkOut, AfterWork, AfterForce, AfterAdd
<1>5. CASE AddEntropyWanted(t)
  BY <1>5 DEF AddEntropyWanted, AfterAdd
<1>6. CASE AddEntropyTryLock(t)
  BY <1>6 DEF AddEntropyTryLock, AfterAdd
<1>7. CASE MonitorCheck(t)
  BY <1>7 DEF MonitorCheck
<1>8. CASE MonitorSleep(t)
  BY <1>8 DEF MonitorSleep
<1>9. CASE NodeAlloc(t)
  BY <1>9, Zenon DEF NodeAlloc
<1>10. CASE ShmStatusInit(t)
  BY <1>10 DEF ShmStatusInit
<1> QED
  BY <1>1, <1>2, <1>3, <1>4, <1>5, <1>6, <1>7, <1>8, <1>9, <1>10, Zenon
     DEF WorkStep

(* PrInv is kept by the steps of esdm_drng_seed_es().                      *)
LEMMA PrInvSeed ==
    ASSUME ~SeedMayFail, TypeOK, LockInv, EntInv, PrInv, NEW t \in Threads, SeedStep(t)
    PROVE  PrInv'
<1> USE PFacts DEF PrInv, PrFacts, Goto, esVars, drngVars, mgrVars, seedVars, getVars
<1>1. CASE SeedLockDrng(t)
  BY <1>1 DEF SeedLockDrng, SeedEnter
<1>2. CASE SeedFill(t)
  BY <1>2, Zenon DEF SeedFill
<1>3. CASE SeedEval(t)
  BY <1>3, Zenon DEF SeedEval
<1>4. CASE SeedInject(t)
  <2>1. /\ fresh' = [fresh EXCEPT ![sd[t]] = SatEnt(@ + got[t])]
        /\ fully' = [fully EXCEPT ![sd[t]] = @ \/ lvl[t]]
    BY <1>4, Zenon DEF SeedInject, InjectOk
  <2>2. /\ pc[t] = "inject" /\ pc'[t] = "initops" /\ UNCHANGED <<dr, prLock, call, coll, todo>>
        /\ \A u \in Threads \ {t} : pc'[u] = pc[u]
    BY <1>4, Zenon DEF SeedInject
  <2>3. /\ got[t] \in 0..CollCap /\ coll[t] \in 0..CollCap /\ fresh[sd[t]] \in 0..CollCap
        /\ sd[t] \in Drngs /\ fresh["pr"] \in 0..CollCap /\ fresh \in [Drngs -> 0..CollCap]
    BY EFacts, Zenon DEF EntFacts
  <2>4. SatEnt(fresh[sd[t]] + got[t]) >= fresh[sd[t]] /\ SatEnt(fresh[sd[t]] + got[t]) \in 0..CollCap
    BY ONLY <2>3, SatGrows, Zenon
  <2>5. lvl[t] => SatEnt(fresh[sd[t]] + got[t]) >= STRENGTH
    <3>1. coll[t] <= fresh[sd[t]] + got[t] /\ (lvl[t] => coll[t] >= STRENGTH)
      BY <2>2, Zenon DEF EntInv
    <3>2. coll[t] <= SatEnt(fresh[sd[t]] + got[t])
      BY ONLY <2>3, <3>1, SatKeeps, Zenon
    <3> QED
      BY ONLY <2>3, <2>4, <3>1, <3>2, ConstFacts
  <2>6. fresh'["pr"] >= fresh["pr"] /\ fresh'["pr"] \in 0..CollCap
    BY ONLY <2>1, <2>3, <2>4, EFacts, TypeOK, ConstFacts
  <2>7. fully'["pr"] => fully["pr"] \/ fresh'["pr"] >= STRENGTH
    BY <2>1, <2>3, <2>5, Zenon
  <2> QED
    BY <2>2, <2>6, <2>7
<1>5. CASE InitOps(t)
  <2>1. UNCHANGED <<dr, call, prLock, coll, fresh, fully, todo>>
    BY <1>5, Zenon DEF InitOps
  <2>2. \A u \in Threads : /\ pc'[u] \in {"pick", "prcheck", "gen"} => pc'[u] = pc[u]
                           /\ pc[u] \in {"post", "unset"} => pc'[u] = pc[u]
    <3>1. /\ pc[t] = "initops"
          /\ Goto(t, "again") \/ Goto(t, "setop") \/ WakeAllGoto(t, "again")
      BY <1>5, Zenon DEF InitOps
    <3> QED
      BY <3>1 DEF WakeAllGoto
  <2> HIDE DEF PrInv, PrFacts
  <2> QED
    BY <2>1, <2>2, PrQuiet, Zenon
<1>6. CASE SetOperational(t)
  BY <1>6 DEF SetOperational, WakeAllGoto
<1>7. CASE ShmSetOperational(t)
  BY <1>7 DEF ShmSetOperational
<1>8. CASE SeedAgain(t)
  BY <1>8 DEF SeedAgain
<1>9. CASE SeedUnlockDrng(t)
  BY <1>9 DEF SeedUnlockDrng, SeedLeave
<1>10. CASE GetPoolUnlock(t)
  BY <1>10 DEF GetPoolUnlock
<1> QED
  BY <1>1, <1>2, <1>3, <1>4, <1>5, <1>6, <1>7, <1>8, <1>9, <1>10, Zenon
     DEF SeedStep

(* PrInv is kept by the steps of esdm_drng_get().                          *)
LEMMA PrInvGet ==
    ASSUME ~SeedMayFail, TypeOK, LockInv, EntInv, PrInv, NEW t \in Threads, GetStep(t)
    PROVE  PrInv'
<1> USE PFacts DEF PrInv, PrFacts, Goto, esVars, drngVars, mgrVars, seedVars, getVars
<1>1. CASE PrTryLock(t)
  BY <1>1 DEF PrTryLock
<1>2. CASE PickDrng(t)
  <2>1. PICK n \in {"init"} \cup NodeDrngs :
          dr' = [dr EXCEPT ![t] = IF call[t] \in PrCalls THEN "pr"
                                  ELSE IF published /\ fully[n] THEN n ELSE "init"]
    BY <1>2, Zenon DEF PickDrng
  <2>2. n # "pr" /\ n \in Drngs
    BY MgrAssumption, Zenon DEF Drngs
  <2>3. dr'[t] = "pr" => prLock = t
    BY <1>2, <2>1, <2>2, Zenon DEF PickDrng, PrCalls
  <2>4. /\ pc[t] = "pick" /\ pc'[t] = "check"
        /\ \A u \in Threads \ {t} : pc'[u] = pc[u] /\ dr'[u] = dr[u]
        /\ UNCHANGED <<prLock, call, coll, fresh, fully, todo>>
    BY <1>2, <2>1, Zenon DEF PickDrng
  <2> QED
    BY <2>3, <2>4, Zenon
<1>3. CASE CheckDisable(t)
  BY <1>3 DEF CheckDisable
<1>4. CASE GetLoop(t)
  <2>1. UNCHANGED <<dr, call, prLock, coll, fresh, fully, todo>>
    BY <1>4, Zenon DEF GetLoop
  <2>2. \A u \in Threads : /\ pc'[u] \in {"pick", "prcheck", "gen"} => pc'[u] = pc[u]
                           /\ pc[u] \in {"post", "unset"} => pc'[u] = pc[u]
    BY <1>4 DEF GetLoop
  <2> HIDE DEF PrInv, PrFacts
  <2> QED
    BY <2>1, <2>2, PrQuiet
<1>5. CASE GetTryPool(t)
  BY <1>5 DEF GetTryPool
<1>6. CASE GenLock(t)
  BY <1>6 DEF GenLock
<1>7. CASE PrTryPool(t)
  BY <1>7 DEF PrTryPool, SeedEnter
<1>8. CASE PrPoolUnlock(t)
  <2>1. coll[t] <= fresh["pr"]
    BY <1>8, Zenon DEF PrPoolUnlock, LockInv, EntInv, SeedPcs
  <2> QED
    BY <1>8, <2>1, Zenon DEF PrPoolUnlock
<1>9. CASE PrLimit(t)
  <2>1. MinOf(coll[t], STRENGTH) <= fresh["pr"]
    BY <1>9 DEF PrLimit, MinOf
  <2>2. /\ pc'[t] = "ret" \/ (pc'[t] = "gen" /\ todo'[t] <= fresh["pr"])
        /\ pc[t] = "prcheck"
        /\ \A u \in Threads \ {t} : UNCHANGED <<pc[u], coll[u], todo[u]>>
        /\ UNCHANGED <<fully, fresh, dr, prLock, call>>
    BY <1>9, <2>1 DEF PrLimit, SeedLeave
  <2> QED
    BY <2>2, Zenon
<1>10. CASE Generate(t)
  <2>1. /\ pc[t] = "gen" /\ pc'[t] \in {"post", "ret"}
        /\ pc'[t] = "ret" => fresh' = fresh
        /\ \A u \in Threads \ {t} : UNCHANGED <<pc[u], todo[u]>>
        /\ UNCHANGED <<fully, dr, prLock, call, coll>>
    BY <1>10 DEF Generate
  <2>2. dr[t] # "pr" => fresh'["pr"] = fresh["pr"]
    BY <1>10, Zenon DEF Generate
  <2>3. dr[t] = "pr" => \A u \in Threads \ {t} : dr[u] # "pr" /\ pc[u] # "prcheck"
    BY Zenon DEF LockInv
  <2>4. CASE pc'[t] = "post" /\ dr[t] = "pr"
    BY <2>1, <2>3, <2>4, Zenon
  <2>5. CASE fresh'["pr"] = fresh["pr"]
    BY <2>1, <2>5
  <2> QED
    BY <2>1, <2>2, <2>4, <2>5, Zenon
<1>11. CASE GetAccount(t)
  BY <1>11 DEF GetAccount
<1>12. CASE GetMore(t)
  BY <1>12 DEF GetMore
<1> QED
  BY <1>1, <1>2, <1>3, <1>4, <1>5, <1>6, <1>7, <1>8, <1>9, <1>10, <1>11,
     <1>12, Zenon DEF GetStep

(* PrInv is kept by the steps of esdm_unset_fully_seeded().                *)
LEMMA PrInvUnset ==
    ASSUME ~SeedMayFail, TypeOK, LockInv, EntInv, PrInv, NEW t \in Threads, UnsetStep(t)
    PROVE  PrInv'
<1> USE PFacts DEF PrInv, PrFacts, Goto, esVars, drngVars, mgrVars, seedVars, getVars
<1>1. CASE UnsetDrng(t)
  BY <1>1 DEF UnsetDrng
<1>2. CASE UnsetAllNodes(t)
  BY <1>2, Zenon DEF UnsetAllNodes
<1>3. CASE UnsetOperational(t)
  BY <1>3, Zenon DEF UnsetOperational
<1>4. CASE UnsetFullySeeded(t)
  BY <1>4, Zenon DEF UnsetFullySeeded
<1>5. CASE UnsetShm(t)
  BY <1>5, Zenon DEF UnsetShm
<1>6. CASE MonitorWakeup(t)
  BY <1>6, Zenon DEF MonitorWakeup
<1>7. CASE ForceReseed(t)
  BY <1>7, Zenon DEF ForceReseed
<1> QED
  BY <1>1, <1>2, <1>3, <1>4, <1>5, <1>6, <1>7, Zenon DEF UnsetStep

(* PrInv is kept by the steps of esdm_get_seed().                          *)
LEMMA PrInvGetSeed ==
    ASSUME ~SeedMayFail, TypeOK, LockInv, EntInv, PrInv, NEW t \in Threads, GetSeedStep(t)
    PROVE  PrInv'
<1> USE PFacts DEF PrInv, PrFacts, Goto, esVars, drngVars, mgrVars, seedVars, getVars
<1>1. CASE GetSeedTryLock(t)
  BY <1>1 DEF GetSeedTryLock
<1>2. CASE GetSeedPoolLock(t)
  BY <1>2, Zenon DEF GetSeedPoolLock
<1>3. CASE GetSeedCheck(t)
  BY <1>3 DEF GetSeedCheck
<1>4. CASE GetSeedFill(t)
  BY <1>4 DEF GetSeedFill
<1>5. CASE GetSeedPoolUnlock(t)
  BY <1>5, Zenon DEF GetSeedPoolUnlock
<1> QED
  BY <1>1, <1>2, <1>3, <1>4, <1>5, Zenon DEF GetSeedStep

(* PrInv is kept by every step.                                            *)
LEMMA PrInvStep ==
    ASSUME ~SeedMayFail, NoPrNoblock, TypeOK, LockInv, EntInv, PrInv, [Next]_vars
    PROVE  PrInv'
<1> USE PFacts DEF PrInv, PrFacts, Goto, esVars, drngVars, mgrVars, seedVars, getVars, ctlVars
<1>1. ASSUME NEW t \in Threads, StartCall(t) PROVE PrInv'
  <2>1. PICK c \in Ops[t] :
          /\ call' = [call EXCEPT ![t] = c]
          /\ Goto(t, CASE c = "get" -> "pick"
                       [] c = "force_reseed" -> "freseed"
                       [] c \in {"add_entropy", "monitor"} -> "wanted"
                       [] c \in SeedCalls -> "seedlock"
                       [] OTHER -> "force")
    BY <1>1, Zenon DEF StartCall
  <2>2. /\ pc'[t] \in {"pick", "freseed", "wanted", "seedlock", "force"}
        /\ pc'[t] = "pick" => c = "get"
    BY <2>1, SMTT(20)
  <2>3. c # "pr_noblock" /\ call'[t] = c
    BY <2>1, Zenon DEF NoPrNoblock
  <2>4. /\ pc[t] = "idle" /\ UNCHANGED <<prLock, dr, coll, fresh, fully, todo>>
        /\ \A u \in Threads \ {t} : pc'[u] = pc[u] /\ call'[u] = call[u]
    BY <1>1, <2>1, Zenon DEF StartCall
  <2> QED
    BY <2>2, <2>3, <2>4, SMTT(20)
<1>2. ASSUME NEW t \in Threads, WaitTimeout(t) PROVE PrInv'
  BY <1>2, Zenon DEF WaitTimeout
<1>3. ASSUME NEW t \in Threads, Step(t) PROVE PrInv'
  BY ONLY <1>3, ~SeedMayFail, NoPrNoblock, TypeOK, LockInv, EntInv, PrInv,
     PrInvWait, PrInvWork, PrInvSeed, PrInvGet, PrInvUnset,
     PrInvGetSeed, Zenon DEF Step
<1>4. CASE Arrive
  BY <1>4, Zenon DEF Arrive, EsArrive
<1>5. CASE UNCHANGED vars
  BY <1>5, Zenon DEF vars
<1> QED
  BY ONLY <1>1, <1>2, <1>3, <1>4, <1>5, [Next]_vars, Zenon DEF Next

(* Prediction resistance: when the backend takes every seed and no thread  *)
(* calls esdm_get_random_bytes_pr_noblock(), the prediction resistance     *)
(* DRNG never outputs more than the entropy injected since its last        *)
(* output, however its requests interleave with the reseeding of all       *)
(* DRNGs, with unsetting and with other readers.                           *)
THEOREM PrBudgetCorrect ==
    ASSUME ~SeedMayFail, NoPrNoblock
    PROVE  Spec => []PrBudget
<1>1. Init => PrInv
  BY ConstFacts DEF Init, PrInv, Drngs
<1>2. TypeOK /\ LockInv /\ EntInv /\ PrInv /\ [Next]_vars => PrInv'
  BY PrInvStep, Zenon
<1>3. PrInv => PrBudget
  BY Zenon DEF PrInv, PrBudget
<1> QED
  BY <1>1, <1>2, <1>3, EntInvCorrect, PTL DEF Spec
=============================================================================
