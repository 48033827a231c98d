-------------------------- MODULE EsdmEsJentProofs --------------------------
(***************************************************************************)
(* The proof that the ring of the Jitter RNG source implements the store   *)
(* of blocks, and that credited entropy is backed by a block, for any      *)
(* number of readers, slots and blocks.                                    *)
(***************************************************************************)
EXTENDS EsdmEsJent, TLAPS

Filling == {"fill", "gather", "count", "filled"}    \* places of the monitor
Reading == {"copy", "count", "wipe", "release"}     \* places of a reader
Holding == {"count", "wipe", "release", "done"}

(* The types of all variables.                                             *)
JentTypeOK ==
    /\ initialized \in BOOLEAN /\ wiped \in BOOLEAN
    /\ set \in [Slots -> {"empty", "filling", "filled", "reading"}]
    /\ data \in [Slots -> 0..MaxBlocks]
    /\ bits \in [Slots -> BOOLEAN]
    /\ idx \in Slots
    /\ mpc \in {"idle", "slot"} \cup Filling
    /\ mslot \in Nat
    /\ gpc \in [Getters -> {"idle", "claim", "sync", "read", "gather", "done"} \cup Reading]
    /\ gslot \in [Getters -> Slots]
    /\ got \in [Getters -> 0..MaxBlocks]
    /\ gbits \in [Getters -> BOOLEAN]
    /\ lock \in Getters \cup {NoGetter}
    /\ fpc \in {"closed", "open", "lock", "bits"}
    /\ made \in 0..MaxBlocks

(* The state of a slot names the one thread that works on it.              *)
SlotInv ==
    /\ mpc \in Filling => mslot \in Slots /\ set[mslot] = "filling"
    /\ \A t \in Getters : gpc[t] \in Reading => set[gslot[t]] = "reading"
    /\ \A t, u \in Getters :
          gpc[t] \in Reading /\ gpc[u] \in Reading /\ gslot[t] = gslot[u] => t = u

(* A block is in one slot or in the buffer of one reader; while a reader   *)
(* copies it, in both.  An empty slot holds no block and counts nothing.   *)
BlockInv ==
    /\ \A i \in Slots : data[i] <= made
    /\ \A t \in Getters : got[t] <= made
    /\ \A i, j \in Slots : data[i] = data[j] /\ data[i] # 0 => i = j
    /\ \A t, u \in Getters : got[t] = got[u] /\ got[t] # 0 => t = u
    /\ \A t \in Getters : got[t] # 0 => gpc[t] \in Holding
    /\ \A t \in Getters, i \in Slots :
          got[t] = data[i] /\ got[t] # 0 => gpc[t] \in {"count", "wipe"} /\ gslot[t] = i
    /\ \A i \in Slots : set[i] = "empty" => data[i] = 0 /\ ~bits[i]
    /\ mpc \in {"fill", "gather"} => data[mslot] = 0 /\ ~bits[mslot]
    /\ \A t \in Getters : gpc[t] = "release" => data[gslot[t]] = 0 /\ ~bits[gslot[t]]

(* What counts is a block, unless the source was closed at the wrong time. *)
CreditInv ==
    \/ wiped
    \/ /\ \A i \in Slots : bits[i] => data[i] # 0
       /\ mpc = "count" => data[mslot] # 0
       /\ \A t \in Getters : gpc[t] = "count" /\ bits[gslot[t]] => got[t] # 0
       /\ \A t \in Getters : gbits[t] => got[t] # 0

(* A source that was closed in time holds nothing.                         *)
ClosedInv ==
    /\ initialized = (fpc = "open")
    /\ fpc \in {"bits", "closed"} /\ ~wiped =>
          (\A i \in Slots : data[i] = 0) /\ mpc \notin {"gather", "count"}

JentInv == JentTypeOK /\ SlotInv /\ BlockInv /\ CreditInv /\ ClosedInv

(* JentInv holds at the start.                                             *)
LEMMA InitInv == Init => JentInv
<1> SUFFICES ASSUME Init PROVE JentInv
  OBVIOUS
<1> USE JentAssumption DEF Init, Slots, Filling, Reading, Holding
<1>1. JentTypeOK
  <2>1. idx \in Slots /\ 0 \in 0..MaxBlocks /\ 0 \in Slots
    OBVIOUS
  <2> QED
    BY <2>1, Zenon DEF JentTypeOK
<1>2. SlotInv
  BY DEF SlotInv
<1>3. BlockInv
  BY DEF BlockInv
<1>4. CreditInv
  BY DEF CreditInv
<1>5. ClosedInv
  BY Zenon DEF ClosedInv
<1> QED
  BY <1>1, <1>2, <1>3, <1>4, <1>5 DEF JentInv

(* What the proofs below need of the types.                                *)
LEMMA TypeFacts ==
    ASSUME JentTypeOK
    PROVE  /\ made \in Nat /\ mslot \in Nat
           /\ \A i \in Slots : data[i] \in Nat
           /\ \A u \in Getters : got[u] \in Nat /\ gslot[u] \in Slots
<1>1. \A n \in 0..MaxBlocks : n \in Nat
  BY JentAssumption
<1> QED
  BY <1>1 DEF JentTypeOK

(* Opening and closing keep it.                                            *)
LEMMA SourceInv ==
    ASSUME JentInv, Source PROVE JentInv'
<1> USE JentAssumption DEF JentInv, Filling, Reading, Holding, shared, monitor, getter
<1>0. /\ made \in Nat /\ mslot \in Nat
      /\ \A i \in Slots : data[i] \in Nat
      /\ \A u \in Getters : got[u] \in Nat /\ gslot[u] \in Slots
  BY TypeFacts DEF JentInv
<1>1. ASSUME esdm_jent_initialize PROVE JentInv'
  <2>1. JentTypeOK'
    BY <1>1, Zenon DEF esdm_jent_initialize, Quiet, JentTypeOK, SlotInv, BlockInv, CreditInv, ClosedInv
  <2>2. SlotInv'
    BY <1>1 DEF esdm_jent_initialize, Quiet, JentTypeOK, SlotInv, BlockInv, CreditInv, ClosedInv
  <2>3. BlockInv'
    BY <1>1 DEF esdm_jent_initialize, Quiet, JentTypeOK, SlotInv, BlockInv, CreditInv, ClosedInv
  <2>4. CreditInv'
    BY <1>1 DEF esdm_jent_initialize, Quiet, JentTypeOK, SlotInv, BlockInv, CreditInv, ClosedInv
  <2>5. ClosedInv'
    BY <1>1, Zenon DEF esdm_jent_initialize, Quiet, JentTypeOK, SlotInv, BlockInv, CreditInv, ClosedInv
  <2> QED
    BY <2>1, <2>2, <2>3, <2>4, <2>5
<1>2. ASSUME esdm_jent_finalize PROVE JentInv'
  <2>1. JentTypeOK'
    BY <1>2, Zenon DEF esdm_jent_finalize, JentTypeOK
  <2>2. SlotInv'
    BY <1>2 DEF esdm_jent_finalize, JentTypeOK, SlotInv
  <2>3. BlockInv'
    BY <1>2 DEF esdm_jent_finalize, JentTypeOK, SlotInv, BlockInv
  <2>4. CreditInv'
    BY <1>2 DEF esdm_jent_finalize, JentTypeOK, SlotInv, BlockInv, CreditInv
  <2>5. ClosedInv'
    BY <1>2, Zenon DEF esdm_jent_finalize, JentTypeOK, SlotInv, ClosedInv
  <2> QED
    BY <2>1, <2>2, <2>3, <2>4, <2>5
<1>3. ASSUME esdm_jent_async_fini PROVE JentInv'
  <2>0. /\ \A i \in Slots : data'[i] = 0
        /\ wiped \/ wiped' \/ \A i \in Slots : set[i] = "empty"
        /\ UNCHANGED <<set, bits, made, mpc, mslot, gpc, gslot, got, gbits>>
        /\ wiped => wiped'
    BY <1>3, Zenon DEF esdm_jent_async_fini, JentTypeOK
  <2>1. JentTypeOK'
    BY <1>3 DEF esdm_jent_async_fini, JentTypeOK
  <2>2. SlotInv'
    BY <1>3 DEF esdm_jent_async_fini, JentTypeOK, SlotInv
  <2>3. BlockInv'
    BY <1>3 DEF esdm_jent_async_fini, JentTypeOK, SlotInv, BlockInv
  <2>4. CreditInv'
    BY <1>0, <2>0 DEF SlotInv, BlockInv, CreditInv
  <2>5. ClosedInv'
    BY <1>3, Zenon DEF esdm_jent_async_fini, JentTypeOK, SlotInv, ClosedInv
  <2> QED
    BY <2>1, <2>2, <2>3, <2>4, <2>5
<1>4. ASSUME WipeBits PROVE JentInv'
  <2>1. JentTypeOK'
    BY <1>4 DEF WipeBits, JentTypeOK
  <2>2. SlotInv'
    BY <1>4 DEF WipeBits, JentTypeOK, SlotInv
  <2>3. BlockInv'
    BY <1>4 DEF WipeBits, JentTypeOK, SlotInv, BlockInv
  <2>4. CreditInv'
    BY <1>4 DEF WipeBits, JentTypeOK, SlotInv, BlockInv, CreditInv
  <2>5. ClosedInv'
    BY <1>4 DEF WipeBits, JentTypeOK, SlotInv, ClosedInv
  <2> QED
    BY <2>1, <2>2, <2>3, <2>4, <2>5
<1> QED
  BY <1>1, <1>2, <1>3, <1>4 DEF Source

(* The monitor keeps it.                                                   *)
LEMMA MonitorInv ==
    ASSUME JentInv, Monitor PROVE JentInv'
<1> USE JentAssumption DEF JentInv, Filling, Reading, Holding, shared, monitor, getter
<1>0. /\ made \in Nat /\ mslot \in Nat
      /\ \A i \in Slots : data[i] \in Nat
      /\ \A u \in Getters : got[u] \in Nat /\ gslot[u] \in Slots
  BY TypeFacts DEF JentInv
<1>1. ASSUME MonitorStart PROVE JentInv'
  <2>1. JentTypeOK'
    BY <1>1 DEF MonitorStart, JentTypeOK
  <2>2. SlotInv'
    BY <1>1 DEF MonitorStart, JentTypeOK, SlotInv
  <2>3. BlockInv'
    BY <1>1 DEF MonitorStart, JentTypeOK, SlotInv, BlockInv
  <2>4. CreditInv'
    BY <1>1 DEF MonitorStart, JentTypeOK, SlotInv, BlockInv, CreditInv
  <2>5. ClosedInv'
    BY <1>1 DEF MonitorStart, JentTypeOK, SlotInv, ClosedInv
  <2> QED
    BY <2>1, <2>2, <2>3, <2>4, <2>5
<1>2. ASSUME MonitorClaim PROVE JentInv'
  <2>1. JentTypeOK'
    <3>1. set' \in [Slots -> {"empty", "filling", "filled", "reading"}]
      BY <1>2 DEF MonitorClaim, JentTypeOK
    <3>2. mslot' \in Nat /\ mpc' \in {"idle", "slot"} \cup Filling
      BY <1>2 DEF MonitorClaim, JentTypeOK
    <3> QED
      BY <1>2, <3>1, <3>2 DEF MonitorClaim, JentTypeOK
  <2>2. SlotInv'
    BY <1>2 DEF MonitorClaim, JentTypeOK, SlotInv
  <2>3. BlockInv'
    BY <1>2 DEF MonitorClaim, JentTypeOK, SlotInv, BlockInv
  <2>4. CreditInv'
    BY <1>2 DEF MonitorClaim, JentTypeOK, SlotInv, BlockInv, CreditInv
  <2>5. ClosedInv'
    BY <1>2 DEF MonitorClaim, JentTypeOK, SlotInv, ClosedInv
  <2> QED
    BY <2>1, <2>2, <2>3, <2>4, <2>5
<1>3. ASSUME MonitorCheck PROVE JentInv'
  <2>0. /\ mpc = "fill" /\ mslot \in Slots /\ mslot' = mslot
        /\ \A i \in Slots : bits'[i] => bits[i]
        /\ mpc' \in {"gather", "filled"}
        /\ UNCHANGED <<set, data, made, gpc, gslot, got, gbits, wiped>>
    BY <1>3 DEF MonitorCheck, JentTypeOK, SlotInv
  <2>1. JentTypeOK'
    BY <1>3, Zenon DEF MonitorCheck, JentTypeOK
  <2>2. SlotInv'
    BY <1>3 DEF MonitorCheck, JentTypeOK, SlotInv
  <2>3. BlockInv'
    BY <1>0, <2>0, Zenon DEF SlotInv, BlockInv
  <2>4. CreditInv'
    BY <1>3 DEF MonitorCheck, JentTypeOK, SlotInv, BlockInv, CreditInv
  <2>5. ClosedInv'
    BY <1>3 DEF MonitorCheck, JentTypeOK, SlotInv, ClosedInv
  <2> QED
    BY <2>1, <2>2, <2>3, <2>4, <2>5
<1>4. ASSUME MonitorFill PROVE JentInv'
  <2>0. /\ mpc = "gather" /\ mslot \in Slots /\ mslot' = mslot
        /\ \A i \in Slots : i # mslot => data'[i] = data[i] /\ bits'[i] = bits[i]
        /\ UNCHANGED <<set, gpc, gslot, got, gbits, wiped>>
    BY <1>4 DEF MonitorFill, JentTypeOK, SlotInv
  <2>c. \/ /\ made' = made + 1 /\ data'[mslot] = made + 1
           /\ bits'[mslot] = bits[mslot] /\ mpc' = "count"
        \/ made' = made /\ data'[mslot] = data[mslot] /\ ~bits'[mslot] /\ mpc' = "filled"
    BY <1>4, <2>0 DEF MonitorFill, JentTypeOK
  <2>1. JentTypeOK'
    <3>1. CASE made < MaxBlocks /\ made' = made + 1
      <4>1. made + 1 \in 0..MaxBlocks
        BY <3>1 DEF JentTypeOK
      <4>2. data' \in [Slots -> 0..MaxBlocks] /\ made' \in 0..MaxBlocks
        BY <1>4, <3>1, <4>1 DEF MonitorFill, JentTypeOK
      <4> QED
        BY <1>4, <3>1, <4>2 DEF MonitorFill, JentTypeOK
    <3>2. CASE UNCHANGED <<data, made>>
      BY <1>4, <3>2, Zenon DEF MonitorFill, JentTypeOK
    <3> QED
      BY <1>4, <3>1, <3>2 DEF MonitorFill
  <2>2. SlotInv'
    BY <1>4 DEF MonitorFill, JentTypeOK, SlotInv
  <2>3. BlockInv'
    <3>1. set[mslot] = "filling" /\ data[mslot] = 0 /\ ~bits[mslot]
      BY <2>0 DEF SlotInv, BlockInv
    <3>2. \A u \in Getters : gpc[u] \in Reading => gslot[u] # mslot
      BY <1>0, <2>0, <3>1 DEF SlotInv
    <3>3. made <= made' /\ made' \in Nat /\ \A i \in Slots : data'[i] \in {data[i], made'}
      BY <1>0, <2>0, <2>c
    <3>4. \A i \in Slots : data'[i] <= made'
      BY <1>0, <3>3 DEF BlockInv
    <3>5. \A u \in Getters : got[u] <= made'
      BY <1>0, <3>3 DEF BlockInv
    <3>6. \A i, j \in Slots : data'[i] = data'[j] /\ data'[i] # 0 => i = j
      BY <1>0, <2>0, <2>c, <3>1 DEF BlockInv
    <3>7. \A u \in Getters, i \in Slots : got[u] = data'[i] /\ got[u] # 0 => got[u] = data[i]
      BY <1>0, <2>0, <2>c DEF BlockInv
    <3>8. \A i \in Slots : set[i] = "empty" => data'[i] = 0 /\ ~bits'[i]
      BY <2>0, <3>1 DEF BlockInv
    <3>9. \A u \in Getters : gpc[u] = "release" => data'[gslot[u]] = 0 /\ ~bits'[gslot[u]]
      BY <1>0, <2>0, <3>2, Zenon DEF BlockInv
    <3> QED
      BY <2>0, <2>c, <3>4, <3>5, <3>6, <3>7, <3>8, <3>9 DEF BlockInv
  <2>4. CreditInv'
    <3>1. ~bits[mslot] /\ \A u \in Getters : gpc[u] = "count" => gslot[u] # mslot
      BY <1>0, <2>0 DEF SlotInv, BlockInv
    <3>2. \A i \in Slots : bits'[i] => i # mslot /\ bits[i] /\ data'[i] = data[i]
      BY <2>0, <2>c, <3>1
    <3>3. mpc' = "count" => data'[mslot] # 0
      BY <1>0, <2>c
    <3> QED
      BY <1>0, <2>0, <3>1, <3>2, <3>3, Zenon DEF CreditInv
  <2>5. ClosedInv'
    BY <1>4 DEF MonitorFill, JentTypeOK, SlotInv, ClosedInv
  <2> QED
    BY <2>1, <2>2, <2>3, <2>4, <2>5
<1>5. ASSUME MonitorCount PROVE JentInv'
  <2>1. JentTypeOK'
    BY <1>5, Zenon DEF MonitorCount, JentTypeOK
  <2>2. SlotInv'
    BY <1>5 DEF MonitorCount, JentTypeOK, SlotInv
  <2>3. BlockInv'
    BY <1>5 DEF MonitorCount, JentTypeOK, SlotInv, BlockInv
  <2>4. CreditInv'
    BY <1>5 DEF MonitorCount, JentTypeOK, SlotInv, BlockInv, CreditInv
  <2>5. ClosedInv'
    BY <1>5 DEF MonitorCount, JentTypeOK, SlotInv, ClosedInv
  <2> QED
    BY <2>1, <2>2, <2>3, <2>4, <2>5
<1>6. ASSUME MonitorFilled PROVE JentInv'
  <2>1. JentTypeOK'
    BY <1>6 DEF MonitorFilled, JentTypeOK, SlotInv
  <2>2. SlotInv'
    BY <1>6 DEF MonitorFilled, JentTypeOK, SlotInv
  <2>3. BlockInv'
    BY <1>6 DEF MonitorFilled, JentTypeOK, SlotInv, BlockInv
  <2>4. CreditInv'
    BY <1>6 DEF MonitorFilled, JentTypeOK, SlotInv, BlockInv, CreditInv
  <2>5. ClosedInv'
    BY <1>6 DEF MonitorFilled, JentTypeOK, SlotInv, ClosedInv
  <2> QED
    BY <2>1, <2>2, <2>3, <2>4, <2>5
<1> QED
  BY <1>1, <1>2, <1>3, <1>4, <1>5, <1>6 DEF Monitor

(* A reader keeps it.                                                      *)
LEMMA GetterInv ==
    ASSUME JentInv, NEW t \in Getters, Getter(t) PROVE JentInv'
<1> USE JentAssumption DEF JentInv, Filling, Reading, Holding, shared, monitor, getter
<1>0. /\ made \in Nat /\ mslot \in Nat
      /\ \A i \in Slots : data[i] \in Nat
      /\ \A u \in Getters : got[u] \in Nat /\ gslot[u] \in Slots
  BY TypeFacts DEF JentInv
<1>1. ASSUME esdm_jent_get_check(t) PROVE JentInv'
  <2>0. /\ gpc[t] = "idle" /\ gpc'[t] \in {"sync", "done", "claim"}
        /\ got'[t] = 0 /\ gbits'[t] = FALSE
        /\ \A u \in Getters : u # t =>
              gpc'[u] = gpc[u] /\ gslot'[u] = gslot[u] /\ got'[u] = got[u] /\ gbits'[u] = gbits[u]
        /\ UNCHANGED <<set, data, bits, made, mpc, mslot, wiped>>
    BY <1>1 DEF esdm_jent_get_check, Goto, JentTypeOK
  <2>1. JentTypeOK'
    <3>1. (idx + 1) % ESDM_JENT_ENTROPY_BLOCKS \in Slots
      BY DEF JentTypeOK, Slots
    <3>2. idx' \in Slots /\ gslot' \in [Getters -> Slots]
      BY <1>1, <3>1 DEF esdm_jent_get_check, JentTypeOK
    <3>3. gpc' \in [Getters -> {"idle", "claim", "sync", "read", "gather", "done"} \cup Reading]
      BY <1>1 DEF esdm_jent_get_check, Goto, JentTypeOK
    <3>4. got' \in [Getters -> 0..MaxBlocks] /\ gbits' \in [Getters -> BOOLEAN]
      <4>1. 0 \in 0..MaxBlocks
        OBVIOUS
      <4> QED
        BY <1>1, <4>1 DEF esdm_jent_get_check, JentTypeOK
    <3> QED
      BY <1>1, <3>2, <3>3, <3>4 DEF esdm_jent_get_check, JentTypeOK
  <2>2. SlotInv'
    BY <1>0, <2>0 DEF SlotInv
  <2>3. BlockInv'
    BY <1>0, <2>0 DEF SlotInv, BlockInv
  <2>4. CreditInv'
    BY <1>0, <2>0 DEF SlotInv, BlockInv, CreditInv
  <2>5. ClosedInv'
    BY <1>1 DEF esdm_jent_get_check, Goto, JentTypeOK, SlotInv, ClosedInv
  <2> QED
    BY <2>1, <2>2, <2>3, <2>4, <2>5
<1>2. ASSUME esdm_jent_async_get(t) PROVE JentInv'
  <2>0. /\ gpc[t] = "claim"
        /\ \/ /\ set[gslot[t]] = "filled" /\ gpc'[t] = "copy"
              /\ set'[gslot[t]] = "reading"
           \/ gpc'[t] = "sync" /\ set'[gslot[t]] = set[gslot[t]]
        /\ \A i \in Slots : i # gslot[t] => set'[i] = set[i]
        /\ \A u \in Getters : u # t => gpc'[u] = gpc[u]
        /\ UNCHANGED <<data, bits, made, mpc, mslot, gslot, got, gbits, wiped>>
    BY <1>2 DEF esdm_jent_async_get, Goto, JentTypeOK
  <2>1. JentTypeOK'
    <3>1. set' \in [Slots -> {"empty", "filling", "filled", "reading"}]
      BY <1>2 DEF esdm_jent_async_get, JentTypeOK
    <3>2. gpc' \in [Getters -> {"idle", "claim", "sync", "read", "gather", "done"} \cup Reading]
      BY <1>2 DEF esdm_jent_async_get, Goto, JentTypeOK
    <3> QED
      BY <1>2, <3>1, <3>2 DEF esdm_jent_async_get, JentTypeOK
  <2>2. SlotInv'
    BY <1>0, <2>0 DEF SlotInv
  <2>3. BlockInv'
    BY <1>0, <2>0 DEF SlotInv, BlockInv
  <2>4. CreditInv'
    BY <1>0, <2>0 DEF SlotInv, BlockInv, CreditInv
  <2>5. ClosedInv'
    BY <1>2 DEF esdm_jent_async_get, Goto, JentTypeOK, SlotInv, ClosedInv
  <2> QED
    BY <2>1, <2>2, <2>3, <2>4, <2>5
<1>3. ASSUME CopyData(t) PROVE JentInv'
  <2>0. /\ gpc[t] = "copy" /\ gpc'[t] = "count" /\ got'[t] = data[gslot[t]]
        /\ \A u \in Getters : u # t => gpc'[u] = gpc[u] /\ got'[u] = got[u]
        /\ UNCHANGED <<set, data, bits, made, mpc, mslot, gslot, gbits, wiped>>
    BY <1>3 DEF CopyData, Goto, JentTypeOK
  <2>1. JentTypeOK'
    BY <1>3 DEF CopyData, Goto, JentTypeOK
  <2>2. SlotInv'
    BY <1>0, <2>0 DEF SlotInv
  <2>3. BlockInv'
    BY <1>0, <2>0 DEF SlotInv, BlockInv
  <2>4. CreditInv'
    BY <1>0, <2>0 DEF SlotInv, BlockInv, CreditInv
  <2>5. ClosedInv'
    BY <1>3 DEF CopyData, Goto, JentTypeOK, SlotInv, ClosedInv
  <2> QED
    BY <2>1, <2>2, <2>3, <2>4, <2>5
<1>4. ASSUME CopyBits(t) PROVE JentInv'
  <2>1. JentTypeOK'
    BY <1>4 DEF CopyBits, Goto, JentTypeOK
  <2>2. SlotInv'
    BY <1>4 DEF CopyBits, Goto, JentTypeOK, SlotInv
  <2>3. BlockInv'
    BY <1>4 DEF CopyBits, Goto, JentTypeOK, SlotInv, BlockInv
  <2>4. CreditInv'
    BY <1>4 DEF CopyBits, Goto, JentTypeOK, SlotInv, BlockInv, CreditInv
  <2>5. ClosedInv'
    BY <1>4 DEF CopyBits, Goto, JentTypeOK, SlotInv, ClosedInv
  <2> QED
    BY <2>1, <2>2, <2>3, <2>4, <2>5
<1>5. ASSUME WipeSlot(t) PROVE JentInv'
  <2>1. JentTypeOK'
    BY <1>5 DEF WipeSlot, Goto, JentTypeOK
  <2>2. SlotInv'
    BY <1>5 DEF WipeSlot, Goto, JentTypeOK, SlotInv
  <2>3. BlockInv'
    BY <1>5 DEF WipeSlot, Goto, JentTypeOK, SlotInv, BlockInv
  <2>4. CreditInv'
    BY <1>5 DEF WipeSlot, Goto, JentTypeOK, SlotInv, BlockInv, CreditInv
  <2>5. ClosedInv'
    BY <1>5 DEF WipeSlot, Goto, JentTypeOK, SlotInv, ClosedInv
  <2> QED
    BY <2>1, <2>2, <2>3, <2>4, <2>5
<1>6. ASSUME Release(t) PROVE JentInv'
  <2>1. JentTypeOK'
    BY <1>6 DEF Release, Goto, JentTypeOK
  <2>2. SlotInv'
    BY <1>6 DEF Release, Goto, JentTypeOK, SlotInv
  <2>3. BlockInv'
    BY <1>6 DEF Release, Goto, JentTypeOK, SlotInv, BlockInv
  <2>4. CreditInv'
    BY <1>6 DEF Release, Goto, JentTypeOK, SlotInv, BlockInv, CreditInv
  <2>5. ClosedInv'
    BY <1>6 DEF Release, Goto, JentTypeOK, SlotInv, ClosedInv
  <2> QED
    BY <2>1, <2>2, <2>3, <2>4, <2>5
<1>7. ASSUME SyncLock(t) PROVE JentInv'
  <2>1. JentTypeOK'
    BY <1>7 DEF SyncLock, Goto, JentTypeOK
  <2>2. SlotInv'
    BY <1>7 DEF SyncLock, Goto, JentTypeOK, SlotInv
  <2>3. BlockInv'
    BY <1>7 DEF SyncLock, Goto, JentTypeOK, SlotInv, BlockInv
  <2>4. CreditInv'
    BY <1>7 DEF SyncLock, Goto, JentTypeOK, SlotInv, BlockInv, CreditInv
  <2>5. ClosedInv'
    BY <1>7 DEF SyncLock, Goto, JentTypeOK, SlotInv, ClosedInv
  <2> QED
    BY <2>1, <2>2, <2>3, <2>4, <2>5
<1>8. ASSUME esdm_jent_get(t) PROVE JentInv'
  <2>0. /\ gpc[t] = "read" /\ gpc'[t] \in {"gather", "done"}
        /\ \A u \in Getters : u # t => gpc'[u] = gpc[u]
        /\ UNCHANGED <<set, data, bits, made, mpc, mslot, gslot, got, gbits, wiped>>
    BY <1>8 DEF esdm_jent_get, Goto, JentTypeOK
  <2>1. JentTypeOK'
    BY <1>8 DEF esdm_jent_get, Goto, JentTypeOK
  <2>2. SlotInv'
    BY <1>0, <2>0 DEF SlotInv
  <2>3. BlockInv'
    BY <1>0, <2>0 DEF SlotInv, BlockInv
  <2>4. CreditInv'
    BY <1>0, <2>0 DEF SlotInv, BlockInv, CreditInv
  <2>5. ClosedInv'
    BY <1>8 DEF esdm_jent_get, Goto, JentTypeOK, SlotInv, ClosedInv
  <2> QED
    BY <2>1, <2>2, <2>3, <2>4, <2>5
<1>9. ASSUME Gather(t) PROVE JentInv'
  <2>0. /\ gpc[t] = "gather" /\ gpc'[t] = "done"
        /\ \/ made < MaxBlocks /\ made' = made + 1 /\ got'[t] = made + 1 /\ gbits'[t] = initialized
           \/ made' = made /\ got'[t] = got[t] /\ gbits'[t] = gbits[t]
        /\ \A u \in Getters : u # t =>
              gpc'[u] = gpc[u] /\ got'[u] = got[u] /\ gbits'[u] = gbits[u]
        /\ UNCHANGED <<set, data, bits, mpc, mslot, gslot, wiped>>
    BY <1>9 DEF Gather, Goto, JentTypeOK
  <2>1. JentTypeOK'
    <3>1. CASE made < MaxBlocks /\ made' = made + 1
      <4>1. made + 1 \in 0..MaxBlocks
        BY <3>1 DEF JentTypeOK
      <4>2. got' \in [Getters -> 0..MaxBlocks] /\ made' \in 0..MaxBlocks
        BY <1>9, <3>1, <4>1 DEF Gather, JentTypeOK
      <4> QED
        BY <1>9, <3>1, <4>2 DEF Gather, Goto, JentTypeOK
    <3>2. CASE UNCHANGED <<made, got, gbits>>
      BY <1>9, <3>2 DEF Gather, Goto, JentTypeOK
    <3> QED
      BY <1>9, <3>1, <3>2 DEF Gather
  <2>2. SlotInv'
    BY <1>0, <2>0 DEF SlotInv
  <2>3. BlockInv'
    BY <1>0, <2>0 DEF SlotInv, BlockInv
  <2>4. CreditInv'
    <3>0. made + 1 # 0
      BY <1>0
    <3>1. got'[t] # 0 \/ (gbits'[t] = gbits[t] /\ got'[t] = got[t])
      BY <2>0, <3>0
    <3> QED
      BY <2>0, <3>1 DEF CreditInv
  <2>5. ClosedInv'
    BY <1>9 DEF Gather, Goto, JentTypeOK, SlotInv, ClosedInv
  <2> QED
    BY <2>1, <2>2, <2>3, <2>4, <2>5
<1>10. ASSUME Return(t) PROVE JentInv'
  <2>1. JentTypeOK'
    BY <1>10 DEF Return, Goto, JentTypeOK
  <2>2. SlotInv'
    BY <1>10 DEF Return, Goto, JentTypeOK, SlotInv
  <2>3. BlockInv'
    BY <1>10 DEF Return, Goto, JentTypeOK, SlotInv, BlockInv
  <2>4. CreditInv'
    BY <1>10 DEF Return, Goto, JentTypeOK, SlotInv, BlockInv, CreditInv
  <2>5. ClosedInv'
    BY <1>10 DEF Return, Goto, JentTypeOK, SlotInv, ClosedInv
  <2> QED
    BY <2>1, <2>2, <2>3, <2>4, <2>5
<1> QED
  BY <1>1, <1>2, <1>3, <1>4, <1>5, <1>6, <1>7, <1>8, <1>9, <1>10 DEF Getter

(* The inductive invariant of the Jitter RNG source.                       *)
THEOREM JentInvariant == Spec => []JentInv
<1>1. Init => JentInv
  BY InitInv
<1>2. JentInv /\ [Next]_vars => JentInv'
  <2> SUFFICES ASSUME JentInv, [Next]_vars PROVE JentInv'
    OBVIOUS
  <2>1. CASE Source
    BY <2>1, SourceInv
  <2>2. CASE Monitor
    BY <2>2, MonitorInv
  <2>3. ASSUME NEW t \in Getters, Getter(t) PROVE JentInv'
    BY <2>3, GetterInv
  <2>4. CASE UNCHANGED vars
    BY <2>4 DEF vars, JentInv, JentTypeOK, SlotInv, BlockInv, CreditInv, ClosedInv, Slots
  <2> QED
    BY <2>1, <2>2, <2>3, <2>4 DEF Next
<1> QED
  BY <1>1, <1>2, PTL DEF Spec

-----------------------------------------------------------------------------
(* The ring as a store of blocks.                                          *)

(* Of a block exactly one is true: not stored yet, stored, held by one     *)
(* reader, gone.                                                           *)
PlaceFact(b) ==
    /\ Place(b) \in {"none", "ready", "gone"} \cup Getters
    /\ (Place(b) = "none") <=> Fresh(b)
    /\ (Place(b) = "ready") <=> Ready(b)
    /\ \A t \in Getters : (Place(b) = t) <=> (Held(t) = b)

PlacesRight == \A b \in 1..MaxBlocks : PlaceFact(b)

(* The map of the places is well defined in every state of JentInv.        *)
LEMMA PlaceIs == JentInv => PlacesRight
<1> SUFFICES ASSUME JentInv, NEW b \in 1..MaxBlocks PROVE PlaceFact(b)
  BY DEF PlacesRight
<1>0. /\ made \in Nat /\ mslot \in Nat
      /\ \A i \in Slots : data[i] \in Nat
      /\ \A u \in Getters : got[u] \in Nat /\ gslot[u] \in Slots
  BY TypeFacts DEF JentInv
<1>b. b \in Nat /\ b # 0
  BY JentAssumption
<1>1. ~ (Fresh(b) /\ Ready(b))
  BY <1>0, <1>b DEF JentInv, SlotInv, BlockInv, Fresh, Ready, Filling
<1>2. \A t \in Getters : ~ (Fresh(b) /\ Held(t) = b)
  <2> SUFFICES ASSUME NEW t \in Getters, Fresh(b), Held(t) = b PROVE FALSE
    BY Zenon
  <2>1. CASE gpc[t] = "copy"
    <3>1. data[gslot[t]] = b /\ set[gslot[t]] = "reading" /\ b <= made
      BY <2>1, <1>0 DEF Held, JentInv, SlotInv, BlockInv, Reading
    <3> QED
      BY <3>1, <1>0, <1>b DEF Fresh, JentInv, SlotInv, BlockInv, Filling
  <2>2. CASE gpc[t] # "copy"
    <3>1. got[t] = b /\ b <= made
      BY <2>2, <1>0, <1>b DEF Held, JentInv, BlockInv
    <3> QED
      BY <3>1, <1>0, <1>b DEF Fresh, JentInv, SlotInv, BlockInv, Filling, Reading
  <2> QED
    BY <2>1, <2>2
<1>3. \A t \in Getters : ~ (Ready(b) /\ Held(t) = b)
  <2> SUFFICES ASSUME NEW t \in Getters, Ready(b), Held(t) = b PROVE FALSE
    BY Zenon
  <2>0. PICK i \in Slots : set[i] = "filled" /\ data[i] = b
    BY DEF Ready
  <2>1. CASE gpc[t] = "copy"
    BY <2>0, <2>1, <1>0, <1>b DEF Held, JentInv, SlotInv, BlockInv, Reading
  <2>2. CASE gpc[t] # "copy"
    BY <2>0, <2>2, <1>0, <1>b DEF Held, JentInv, SlotInv, BlockInv, Reading
  <2> QED
    BY <2>1, <2>2
<1>4. \A t, u \in Getters : Held(t) = b /\ Held(u) = b => t = u
  BY <1>0, <1>b DEF JentInv, SlotInv, BlockInv, Held, Reading, Holding
<1>5. CASE \E t \in Getters : Held(t) = b
  <2>1. PICK t \in Getters : Held(t) = b
    BY <1>5
  <2>2. (CHOOSE u \in Getters : Held(u) = b) = t
    BY <2>1, <1>4
  <2>3. Place(b) = t
    BY <2>1, <2>2, <1>2, <1>3 DEF Place
  <2>4. t \notin {"none", "ready", "gone"}
    BY JentAssumption
  <2> QED
    BY <2>1, <2>3, <2>4, <1>2, <1>3, <1>4 DEF PlaceFact
<1>6. CASE ~ \E t \in Getters : Held(t) = b
  <2>1. \A t \in Getters : t \notin {"none", "ready", "gone"}
    BY JentAssumption
  <2>2. Place(b) = IF Fresh(b) THEN "none" ELSE IF Ready(b) THEN "ready" ELSE "gone"
    BY <1>6 DEF Place
  <2> QED
    BY <1>1, <1>6, <2>1, <2>2 DEF PlaceFact
<1> QED
  BY <1>5, <1>6

(* And in the state after a step.                                          *)
LEMMA PlaceIsNext == JentInv' => PlacesRight'
  BY PlaceIs, PTL

(* A step that changes nothing in the three predicates leaves a block      *)
(* where it is.                                                            *)
LEMMA Stays ==
    ASSUME PlacesRight, PlacesRight', NEW b \in 1..MaxBlocks,
           Fresh(b)' <=> Fresh(b), Ready(b)' <=> Ready(b),
           \A t \in Getters : (Held(t) = b)' <=> (Held(t) = b)
    PROVE  Place(b)' = Place(b)
<1>1. PlaceFact(b) /\ PlaceFact(b)'
  BY DEF PlacesRight
<1>2. \A t \in Getters : t \notin {"none", "ready", "gone"}
  BY JentAssumption
<1> QED
  BY <1>1, <1>2 DEF PlaceFact

(* A step of the ring that moves no block but to nowhere.                  *)
LEMMA WipeStep ==
    ASSUME \A b \in 1..MaxBlocks : Place(b)' \in {Place(b), "gone"}
    PROVE  Store!Next
<1> DEFINE S == {b \in 1..MaxBlocks : Place(b)' = "gone"}
<1>1. S \in SUBSET (1..MaxBlocks)
  OBVIOUS
<1>2. Places' = [b \in 1..MaxBlocks |-> IF b \in S THEN "gone" ELSE Places[b]]
  BY DEF Places
<1>3. Store!Wipe(S)
  BY <1>2 DEF Store!Wipe
<1> QED
  BY <1>1, <1>3 DEF Store!Next

(* A step that stores one block.                                           *)
LEMMA PutStep ==
    ASSUME NEW c \in 1..MaxBlocks, Place(c) = "none", Place(c)' = "ready",
           \A b \in 1..MaxBlocks : b # c => Place(b)' = Place(b)
    PROVE  Store!Next
<1>1. Places' = [Places EXCEPT ![c] = "ready"] /\ Places[c] = "none"
  BY Zenon DEF Places
<1>2. Store!Put(c)
  BY <1>1 DEF Store!Put
<1> QED
  BY <1>2 DEF Store!Next

(* A step that hands one block to a reader without one.                    *)
LEMMA TakeStep ==
    ASSUME NEW t \in Getters, NEW c \in 1..MaxBlocks,
           Place(c) \in {"none", "ready"}, Place(c)' = t,
           \A b \in 1..MaxBlocks : Place(b) # t,
           \A b \in 1..MaxBlocks : b # c => Place(b)' = Place(b)
    PROVE  Store!Next
<1>1. Places' = [Places EXCEPT ![c] = t] /\ Places[c] \in {"none", "ready"}
  BY Zenon DEF Places
<1>2. \A b \in 1..MaxBlocks : Places[b] # t
  BY DEF Places
<1>3. Store!Take(t, c)
  BY <1>1, <1>2 DEF Store!Take
<1> QED
  BY <1>3 DEF Store!Next

(* A step that changes none of the predicates of any block.                *)
LEMMA StillStep ==
    ASSUME PlacesRight, PlacesRight',
           \A b \in 1..MaxBlocks :
              /\ Fresh(b)' <=> Fresh(b)
              /\ Ready(b)' <=> Ready(b)
              /\ \A t \in Getters : (Held(t) = b)' <=> (Held(t) = b)
    PROVE  Store!Next
<1>1. \A b \in 1..MaxBlocks : Place(b)' = Place(b)
  BY Stays
<1> QED
  BY <1>1, WipeStep

(* Opening and closing the source.                                         *)
LEMMA SourceRefines ==
    ASSUME JentInv, JentInv', Source PROVE Store!Next
<1>0. /\ made \in Nat /\ mslot \in Nat
      /\ \A i \in Slots : data[i] \in Nat
      /\ \A u \in Getters : got[u] \in Nat /\ gslot[u] \in Slots
  BY TypeFacts DEF JentInv
<1>p. PlacesRight /\ PlacesRight'
  BY PlaceIs, PlaceIsNext
<1>1. ASSUME esdm_jent_initialize PROVE Store!Next
  <2> SUFFICES ASSUME NEW b \in 1..MaxBlocks
               PROVE  /\ Fresh(b)' <=> Fresh(b)
                      /\ Ready(b)' <=> Ready(b)
                      /\ \A t \in Getters : (Held(t) = b)' <=> (Held(t) = b)
    BY <1>p, StillStep
  <2>b. b \in Nat /\ b # 0
    BY JentAssumption
  <2>1. Fresh(b)' <=> Fresh(b)
    BY <1>1, <1>0, <2>b DEF esdm_jent_initialize, Quiet, shared, monitor, getter, Fresh, JentInv,
       JentTypeOK, SlotInv, BlockInv, ClosedInv
  <2>2. Ready(b)' <=> Ready(b)
    BY <1>1, <1>0, <2>b DEF esdm_jent_initialize, Quiet, shared, monitor, getter, Ready, JentInv,
       JentTypeOK, SlotInv, BlockInv, ClosedInv
  <2>3. \A t \in Getters : (Held(t) = b)' <=> (Held(t) = b)
    BY <1>1, <1>0, <2>b DEF esdm_jent_initialize, Quiet, shared, monitor, getter, Held, JentInv,
       JentTypeOK, SlotInv, BlockInv, ClosedInv
  <2> QED
    BY <2>1, <2>2, <2>3
<1>2. ASSUME esdm_jent_finalize PROVE Store!Next
  <2> SUFFICES ASSUME NEW b \in 1..MaxBlocks
               PROVE  /\ Fresh(b)' <=> Fresh(b)
                      /\ Ready(b)' <=> Ready(b)
                      /\ \A t \in Getters : (Held(t) = b)' <=> (Held(t) = b)
    BY <1>p, StillStep
  <2>b. b \in Nat /\ b # 0
    BY JentAssumption
  <2>1. Fresh(b)' <=> Fresh(b)
    BY <1>2, <1>0, <2>b DEF esdm_jent_finalize, shared, monitor, getter, Fresh, JentInv
  <2>2. Ready(b)' <=> Ready(b)
    BY <1>2, <1>0, <2>b DEF esdm_jent_finalize, shared, monitor, getter, Ready, JentInv
  <2>3. \A t \in Getters : (Held(t) = b)' <=> (Held(t) = b)
    BY <1>2, <1>0, <2>b DEF esdm_jent_finalize, shared, monitor, getter, Held, JentInv
  <2> QED
    BY <2>1, <2>2, <2>3
<1>3. ASSUME esdm_jent_async_fini PROVE Store!Next
  <2> SUFFICES ASSUME NEW b \in 1..MaxBlocks PROVE Place(b)' \in {Place(b), "gone"}
    BY WipeStep
  <2>b. b \in Nat /\ b # 0
    BY JentAssumption
  <2>1. Fresh(b)' => Fresh(b)
    BY <1>3, <1>0, <2>b DEF esdm_jent_async_fini, monitor, Fresh, JentInv, SlotInv, Filling
  <2>2. ~ Ready(b)'
    BY <1>3, <1>0, <2>b DEF esdm_jent_async_fini, Ready
  <2>3. \A t \in Getters : (Held(t) = b)' => Held(t) = b
    BY <1>3, <1>0, <2>b DEF esdm_jent_async_fini, getter, Held
  <2>4. PlaceFact(b) /\ PlaceFact(b)'
    BY <1>p DEF PlacesRight
  <2> QED
    BY <2>1, <2>2, <2>3, <2>4 DEF PlaceFact
<1>4. ASSUME WipeBits PROVE Store!Next
  <2> SUFFICES ASSUME NEW b \in 1..MaxBlocks
               PROVE  /\ Fresh(b)' <=> Fresh(b)
                      /\ Ready(b)' <=> Ready(b)
                      /\ \A t \in Getters : (Held(t) = b)' <=> (Held(t) = b)
    BY <1>p, StillStep
  <2>b. b \in Nat /\ b # 0
    BY JentAssumption
  <2>1. Fresh(b)' <=> Fresh(b)
    BY <1>4, <1>0, <2>b DEF WipeBits, shared, monitor, getter, Fresh, JentInv
  <2>2. Ready(b)' <=> Ready(b)
    BY <1>4, <1>0, <2>b DEF WipeBits, shared, monitor, getter, Ready, JentInv
  <2>3. \A t \in Getters : (Held(t) = b)' <=> (Held(t) = b)
    BY <1>4, <1>0, <2>b DEF WipeBits, shared, monitor, getter, Held, JentInv
  <2> QED
    BY <2>1, <2>2, <2>3
<1> QED
  BY <1>1, <1>2, <1>3, <1>4 DEF Source

(* The monitor.                                                            *)
LEMMA MonitorRefines ==
    ASSUME JentInv, JentInv', Monitor PROVE Store!Next
<1>0. /\ made \in Nat /\ mslot \in Nat
      /\ \A i \in Slots : data[i] \in Nat
      /\ \A u \in Getters : got[u] \in Nat /\ gslot[u] \in Slots
  BY TypeFacts DEF JentInv
<1>p. PlacesRight /\ PlacesRight'
  BY PlaceIs, PlaceIsNext
<1>1. ASSUME MonitorStart PROVE Store!Next
  <2> SUFFICES ASSUME NEW b \in 1..MaxBlocks
               PROVE  /\ Fresh(b)' <=> Fresh(b)
                      /\ Ready(b)' <=> Ready(b)
                      /\ \A t \in Getters : (Held(t) = b)' <=> (Held(t) = b)
    BY <1>p, StillStep
  <2>b. b \in Nat /\ b # 0
    BY JentAssumption
  <2>1. Fresh(b)' <=> Fresh(b)
    BY <1>1, <1>0, <2>b DEF MonitorStart, shared, monitor, getter, Fresh, JentInv
  <2>2. Ready(b)' <=> Ready(b)
    BY <1>1, <1>0, <2>b DEF MonitorStart, shared, monitor, getter, Ready, JentInv
  <2>3. \A t \in Getters : (Held(t) = b)' <=> (Held(t) = b)
    BY <1>1, <1>0, <2>b DEF MonitorStart, shared, monitor, getter, Held, JentInv
  <2> QED
    BY <2>1, <2>2, <2>3
<1>2. ASSUME MonitorClaim PROVE Store!Next
  <2> SUFFICES ASSUME NEW b \in 1..MaxBlocks
               PROVE  /\ Fresh(b)' <=> Fresh(b)
                      /\ Ready(b)' <=> Ready(b)
                      /\ \A t \in Getters : (Held(t) = b)' <=> (Held(t) = b)
    BY <1>p, StillStep
  <2>b. b \in Nat /\ b # 0
    BY JentAssumption
  <2>0. /\ mpc = "slot" /\ mpc' \in {"idle", "slot", "fill"}
        /\ \A i \in Slots : (set'[i] = "filled") <=> (set[i] = "filled")
        /\ UNCHANGED <<data, made, gpc, gslot, got>>
    BY <1>2, <1>0 DEF MonitorClaim, getter, JentInv, JentTypeOK
  <2>1. Fresh(b)' <=> Fresh(b)
    BY <1>0, <2>0, <2>b DEF Fresh
  <2>2. Ready(b)' <=> Ready(b)
    BY <1>0, <2>0, <2>b DEF Ready
  <2>3. \A t \in Getters : (Held(t) = b)' <=> (Held(t) = b)
    BY <1>0, <2>0, <2>b DEF Held
  <2> QED
    BY <2>1, <2>2, <2>3
<1>3. ASSUME MonitorCheck PROVE Store!Next
  <2> SUFFICES ASSUME NEW b \in 1..MaxBlocks
               PROVE  /\ Fresh(b)' <=> Fresh(b)
                      /\ Ready(b)' <=> Ready(b)
                      /\ \A t \in Getters : (Held(t) = b)' <=> (Held(t) = b)
    BY <1>p, StillStep
  <2>b. b \in Nat /\ b # 0
    BY JentAssumption
  <2>0. /\ mpc = "fill" /\ mpc' \in {"gather", "filled"} /\ data[mslot] = 0
        /\ UNCHANGED <<mslot, set, data, made, gpc, gslot, got>>
    BY <1>3, <1>0 DEF MonitorCheck, Filling, getter, JentInv, SlotInv, BlockInv
  <2>1. Fresh(b)' <=> Fresh(b)
    BY <1>0, <2>0, <2>b DEF Fresh
  <2>2. Ready(b)' <=> Ready(b)
    BY <1>0, <2>0, <2>b DEF Ready
  <2>3. \A t \in Getters : (Held(t) = b)' <=> (Held(t) = b)
    BY <1>0, <2>0, <2>b DEF Held
  <2> QED
    BY <2>1, <2>2, <2>3
<1>4. ASSUME MonitorFill PROVE Store!Next
  <2> SUFFICES ASSUME NEW b \in 1..MaxBlocks
               PROVE  /\ Fresh(b)' <=> Fresh(b)
                      /\ Ready(b)' <=> Ready(b)
                      /\ \A t \in Getters : (Held(t) = b)' <=> (Held(t) = b)
    BY <1>p, StillStep
  <2>b. b \in Nat /\ b # 0
    BY JentAssumption
  <2>i. /\ mpc = "gather" /\ mslot \in Slots /\ set[mslot] = "filling" /\ data[mslot] = 0
        /\ \A t \in Getters : gpc[t] = "copy" => gslot[t] # mslot
    BY <1>4, <1>0 DEF MonitorFill, Filling, Reading, JentInv, SlotInv, BlockInv
  <2>0. /\ \/ mpc' = "count" /\ made' = made + 1 /\ data' = [data EXCEPT ![mslot] = made + 1]
           \/ mpc' = "filled" /\ made' = made /\ data' = data
        /\ UNCHANGED <<mslot, set, gpc, gslot, got>>
    BY <1>4, <1>0 DEF MonitorFill, getter
  <2>d. \A i \in Slots : data'[i] = IF mpc' = "count" /\ i = mslot THEN made + 1 ELSE data[i]
    BY <2>i, <2>0 DEF JentInv, JentTypeOK
  <2>1. Fresh(b)' <=> Fresh(b)
    BY <1>0, <2>0, <2>b, <2>i, <2>d DEF Fresh
  <2>2. Ready(b)' <=> Ready(b)
    BY <1>0, <2>0, <2>b, <2>i, <2>d, Zenon DEF Ready
  <2>3. \A t \in Getters : (Held(t) = b)' <=> (Held(t) = b)
    BY <1>0, <2>0, <2>b, <2>i, <2>d, Zenon DEF Held
  <2> QED
    BY <2>1, <2>2, <2>3
<1>5. ASSUME MonitorCount PROVE Store!Next
  <2> SUFFICES ASSUME NEW b \in 1..MaxBlocks
               PROVE  /\ Fresh(b)' <=> Fresh(b)
                      /\ Ready(b)' <=> Ready(b)
                      /\ \A t \in Getters : (Held(t) = b)' <=> (Held(t) = b)
    BY <1>p, StillStep
  <2>b. b \in Nat /\ b # 0
    BY JentAssumption
  <2>1. Fresh(b)' <=> Fresh(b)
    BY <1>5, <1>0, <2>b DEF MonitorCount, shared, monitor, getter, Fresh, JentInv
  <2>2. Ready(b)' <=> Ready(b)
    BY <1>5, <1>0, <2>b DEF MonitorCount, shared, monitor, getter, Ready, JentInv
  <2>3. \A t \in Getters : (Held(t) = b)' <=> (Held(t) = b)
    BY <1>5, <1>0, <2>b DEF MonitorCount, shared, monitor, getter, Held, JentInv
  <2> QED
    BY <2>1, <2>2, <2>3
<1>6. ASSUME MonitorFilled PROVE Store!Next
  <2>1. /\ mslot \in Slots /\ mpc = "filled" /\ mpc' = "slot" /\ data' = data
        /\ set'[mslot] = "filled" /\ set[mslot] = "filling"
        /\ \A i \in Slots : i # mslot => set'[i] = set[i]
        /\ UNCHANGED <<made, gpc, gslot, got>>
    BY <1>6 DEF MonitorFilled, getter, JentInv, JentTypeOK, SlotInv, Filling
  <2>2. \A t \in Getters, b \in 1..MaxBlocks : (Held(t) = b)' <=> (Held(t) = b)
    BY <2>1 DEF Held
  <2>3. ASSUME NEW b \in 1..MaxBlocks, b # data[mslot] PROVE Place(b)' = Place(b)
    <3>1. Fresh(b)' <=> Fresh(b)
      BY <2>1, <2>3 DEF Fresh
    <3>2. Ready(b)' <=> Ready(b)
      BY <2>1, <2>3 DEF Ready
    <3> QED
      BY <1>p, <2>2, <3>1, <3>2, Stays
  <2>4. CASE data[mslot] = 0
    <3>1. \A b \in 1..MaxBlocks : b # 0
      BY JentAssumption
    <3> QED
      BY <2>3, <2>4, <3>1, WipeStep
  <2>5. CASE data[mslot] # 0
    <3>1. PICK c \in 1..MaxBlocks : c = data[mslot]
      BY <2>1, <2>5, JentAssumption DEF JentInv, JentTypeOK
    <3>2. Fresh(c) /\ Ready(c)'
      BY <2>1, <3>1 DEF Fresh, Ready
    <3>3. PlaceFact(c) /\ PlaceFact(c)'
      BY <1>p DEF PlacesRight
    <3>4. Place(c) = "none" /\ Place(c)' = "ready"
      BY <3>2, <3>3 DEF PlaceFact
    <3> QED
      BY <2>3, <3>1, <3>4, PutStep
  <2> QED
    BY <2>4, <2>5
<1> QED
  BY <1>1, <1>2, <1>3, <1>4, <1>5, <1>6 DEF Monitor

(* A reader.                                                               *)
LEMMA GetterRefines ==
    ASSUME JentInv, JentInv', NEW u \in Getters, Getter(u) PROVE Store!Next
<1>0. /\ made \in Nat /\ mslot \in Nat
      /\ \A i \in Slots : data[i] \in Nat
      /\ \A v \in Getters : got[v] \in Nat /\ gslot[v] \in Slots
  BY TypeFacts DEF JentInv
<1>p. PlacesRight /\ PlacesRight'
  BY PlaceIs, PlaceIsNext
<1>1. ASSUME esdm_jent_get_check(u) PROVE Store!Next
  <2> SUFFICES ASSUME NEW b \in 1..MaxBlocks
               PROVE  /\ Fresh(b)' <=> Fresh(b)
                      /\ Ready(b)' <=> Ready(b)
                      /\ \A t \in Getters : (Held(t) = b)' <=> (Held(t) = b)
    BY <1>p, StillStep
  <2>b. b \in Nat /\ b # 0
    BY JentAssumption
  <2>0. /\ gpc[u] = "idle" /\ gpc'[u] \in {"sync", "done", "claim"} /\ got'[u] = 0
        /\ \A t \in Getters : t # u =>
              gpc'[t] = gpc[t] /\ gslot'[t] = gslot[t] /\ got'[t] = got[t]
        /\ UNCHANGED <<mpc, mslot, set, data, made>>
    BY <1>1, <1>0 DEF esdm_jent_get_check, Goto, monitor, JentInv, JentTypeOK
  <2>1. Fresh(b)' <=> Fresh(b)
    BY <1>0, <2>0, <2>b DEF Fresh
  <2>2. Ready(b)' <=> Ready(b)
    BY <1>0, <2>0, <2>b DEF Ready
  <2>3. \A t \in Getters : (Held(t) = b)' <=> (Held(t) = b)
    BY <1>0, <2>0, <2>b DEF Held
  <2> QED
    BY <2>1, <2>2, <2>3
<1>2. ASSUME esdm_jent_async_get(u) PROVE Store!Next
  <2>0. /\ gpc[u] = "claim" /\ gslot[u] \in Slots
        /\ \A i \in Slots : i # gslot[u] => set'[i] = set[i]
        /\ \A t \in Getters : t # u => gpc'[t] = gpc[t]
        /\ UNCHANGED <<made, mpc, mslot, data, gslot, got>>
    BY <1>2 DEF esdm_jent_async_get, Goto, monitor, JentInv, JentTypeOK
  <2>1. \A b \in 1..MaxBlocks : Fresh(b)' <=> Fresh(b)
    BY <2>0 DEF Fresh
  <2>2. \A t \in Getters, b \in 1..MaxBlocks : t # u => ((Held(t) = b)' <=> (Held(t) = b))
    BY <2>0 DEF Held
  <2>z. Held(u) = 0
    BY <2>0 DEF Held
  <2>3. \A b \in 1..MaxBlocks : Held(u) # b
    BY <2>z, JentAssumption
  <2>4. CASE set[gslot[u]] = "filled"
    <3>0. set'[gslot[u]] = "reading" /\ gpc'[u] = "copy"
      BY <1>2, <2>0, <2>4 DEF esdm_jent_async_get, Goto, JentInv, JentTypeOK
    <3>1. Held(u)' = data[gslot[u]]
      BY <2>0, <3>0 DEF Held
    <3>2. ASSUME NEW b \in 1..MaxBlocks, b # data[gslot[u]] PROVE Place(b)' = Place(b)
      <4>1. Ready(b)' <=> Ready(b)
        BY <2>0, <3>0, <3>2 DEF Ready
      <4>2. \A t \in Getters : (Held(t) = b)' <=> (Held(t) = b)
        BY <2>2, <2>3, <3>1, <3>2
      <4> QED
        BY <1>p, <2>1, <4>1, <4>2, Stays
    <3>3. CASE data[gslot[u]] = 0
      <4>1. \A b \in 1..MaxBlocks : b # 0
        BY JentAssumption
      <4> QED
        BY <3>2, <3>3, <4>1, WipeStep
    <3>4. CASE data[gslot[u]] # 0
      <4>1. PICK c \in 1..MaxBlocks : c = data[gslot[u]]
        BY <2>0, <3>4, JentAssumption DEF JentInv, JentTypeOK
      <4>2. Ready(c) /\ (Held(u) = c)'
        BY <2>0, <2>4, <3>1, <4>1 DEF Ready
      <4>3. PlaceFact(c) /\ PlaceFact(c)'
        BY <1>p DEF PlacesRight
      <4>4. Place(c) = "ready" /\ Place(c)' = u
        BY <4>2, <4>3 DEF PlaceFact
      <4>5. \A b \in 1..MaxBlocks : Place(b) # u
        BY <1>p, <2>3 DEF PlacesRight, PlaceFact
      <4> QED
        BY <3>2, <4>1, <4>4, <4>5, TakeStep
    <3> QED
      BY <3>3, <3>4
  <2>5. CASE set[gslot[u]] # "filled"
    <3>1. set' = set /\ gpc'[u] = "sync"
      BY <1>2, <2>5 DEF esdm_jent_async_get, Goto, JentInv, JentTypeOK
    <3>2. \A b \in 1..MaxBlocks : Ready(b)' <=> Ready(b)
      BY <2>0, <3>1 DEF Ready
    <3>3. \A b \in 1..MaxBlocks : Held(u)' # b
      BY <3>1 DEF Held
    <3> QED
      BY <1>p, <2>1, <2>2, <2>3, <3>2, <3>3, StillStep
  <2> QED
    BY <2>4, <2>5
<1>3. ASSUME CopyData(u) PROVE Store!Next
  <2> SUFFICES ASSUME NEW b \in 1..MaxBlocks
               PROVE  /\ Fresh(b)' <=> Fresh(b)
                      /\ Ready(b)' <=> Ready(b)
                      /\ \A t \in Getters : (Held(t) = b)' <=> (Held(t) = b)
    BY <1>p, StillStep
  <2>b. b \in Nat /\ b # 0
    BY JentAssumption
  <2>1. Fresh(b)' <=> Fresh(b)
    BY <1>3, <1>0, <2>b DEF CopyData, Goto, shared, monitor, getter, Fresh, JentInv, JentTypeOK
  <2>2. Ready(b)' <=> Ready(b)
    BY <1>3, <1>0, <2>b DEF CopyData, Goto, shared, monitor, getter, Ready, JentInv, JentTypeOK
  <2>3. \A t \in Getters : (Held(t) = b)' <=> (Held(t) = b)
    BY <1>3, <1>0, <2>b DEF CopyData, Goto, shared, monitor, getter, Held, JentInv, JentTypeOK
  <2> QED
    BY <2>1, <2>2, <2>3
<1>4. ASSUME CopyBits(u) PROVE Store!Next
  <2> SUFFICES ASSUME NEW b \in 1..MaxBlocks
               PROVE  /\ Fresh(b)' <=> Fresh(b)
                      /\ Ready(b)' <=> Ready(b)
                      /\ \A t \in Getters : (Held(t) = b)' <=> (Held(t) = b)
    BY <1>p, StillStep
  <2>b. b \in Nat /\ b # 0
    BY JentAssumption
  <2>1. Fresh(b)' <=> Fresh(b)
    BY <1>4, <1>0, <2>b DEF CopyBits, Goto, shared, monitor, getter, Fresh, JentInv, JentTypeOK
  <2>2. Ready(b)' <=> Ready(b)
    BY <1>4, <1>0, <2>b DEF CopyBits, Goto, shared, monitor, getter, Ready, JentInv, JentTypeOK
  <2>3. \A t \in Getters : (Held(t) = b)' <=> (Held(t) = b)
    BY <1>4, <1>0, <2>b DEF CopyBits, Goto, shared, monitor, getter, Held, JentInv, JentTypeOK
  <2> QED
    BY <2>1, <2>2, <2>3
<1>5. ASSUME WipeSlot(u) PROVE Store!Next
  <2> SUFFICES ASSUME NEW b \in 1..MaxBlocks
               PROVE  /\ Fresh(b)' <=> Fresh(b)
                      /\ Ready(b)' <=> Ready(b)
                      /\ \A t \in Getters : (Held(t) = b)' <=> (Held(t) = b)
    BY <1>p, StillStep
  <2>b. b \in Nat /\ b # 0
    BY JentAssumption
  <2>i. /\ gpc[u] = "wipe" /\ set[gslot[u]] = "reading"
        /\ mpc \in {"count", "filled"} => mslot \in Slots /\ mslot # gslot[u]
        /\ \A t \in Getters : t # u /\ gpc[t] = "copy" => gslot[t] # gslot[u]
    BY <1>5, <1>0 DEF WipeSlot, Filling, Reading, JentInv, SlotInv
  <2>0. /\ \A i \in Slots : i # gslot[u] => data'[i] = data[i]
        /\ gpc'[u] = "release" /\ \A t \in Getters : t # u => gpc'[t] = gpc[t]
        /\ UNCHANGED <<mpc, mslot, set, made, gslot, got>>
    BY <1>5, <1>0 DEF WipeSlot, Goto, monitor, JentInv, JentTypeOK
  <2>1. Fresh(b)' <=> Fresh(b)
    BY <1>0, <2>0, <2>b, <2>i DEF Fresh
  <2>2. Ready(b)' <=> Ready(b)
    BY <1>0, <2>0, <2>b, <2>i DEF Ready
  <2>3. \A t \in Getters : (Held(t) = b)' <=> (Held(t) = b)
    BY <1>0, <2>0, <2>b, <2>i DEF Held
  <2> QED
    BY <2>1, <2>2, <2>3
<1>6. ASSUME Release(u) PROVE Store!Next
  <2> SUFFICES ASSUME NEW b \in 1..MaxBlocks
               PROVE  /\ Fresh(b)' <=> Fresh(b)
                      /\ Ready(b)' <=> Ready(b)
                      /\ \A t \in Getters : (Held(t) = b)' <=> (Held(t) = b)
    BY <1>p, StillStep
  <2>b. b \in Nat /\ b # 0
    BY JentAssumption
  <2>i. gpc[u] = "release" /\ set[gslot[u]] = "reading"
    BY <1>6, <1>0 DEF Release, Reading, JentInv, SlotInv
  <2>0. /\ set'[gslot[u]] = "empty" /\ \A i \in Slots : i # gslot[u] => set'[i] = set[i]
        /\ gpc'[u] = "done" /\ \A t \in Getters : t # u => gpc'[t] = gpc[t]
        /\ UNCHANGED <<mpc, mslot, data, made, gslot, got>>
    BY <1>6, <1>0 DEF Release, Goto, monitor, JentInv, JentTypeOK
  <2>1. Fresh(b)' <=> Fresh(b)
    BY <1>0, <2>0, <2>b, <2>i DEF Fresh
  <2>2. Ready(b)' <=> Ready(b)
    BY <1>0, <2>0, <2>b, <2>i DEF Ready
  <2>3. \A t \in Getters : (Held(t) = b)' <=> (Held(t) = b)
    BY <1>0, <2>0, <2>b, <2>i DEF Held
  <2> QED
    BY <2>1, <2>2, <2>3
<1>7. ASSUME SyncLock(u) PROVE Store!Next
  <2> SUFFICES ASSUME NEW b \in 1..MaxBlocks
               PROVE  /\ Fresh(b)' <=> Fresh(b)
                      /\ Ready(b)' <=> Ready(b)
                      /\ \A t \in Getters : (Held(t) = b)' <=> (Held(t) = b)
    BY <1>p, StillStep
  <2>b. b \in Nat /\ b # 0
    BY JentAssumption
  <2>1. Fresh(b)' <=> Fresh(b)
    BY <1>7, <1>0, <2>b DEF SyncLock, Goto, shared, monitor, getter, Fresh, JentInv, JentTypeOK
  <2>2. Ready(b)' <=> Ready(b)
    BY <1>7, <1>0, <2>b DEF SyncLock, Goto, shared, monitor, getter, Ready, JentInv, JentTypeOK
  <2>3. \A t \in Getters : (Held(t) = b)' <=> (Held(t) = b)
    BY <1>7, <1>0, <2>b DEF SyncLock, Goto, shared, monitor, getter, Held, JentInv, JentTypeOK
  <2> QED
    BY <2>1, <2>2, <2>3
<1>8. ASSUME esdm_jent_get(u) PROVE Store!Next
  <2> SUFFICES ASSUME NEW b \in 1..MaxBlocks
               PROVE  /\ Fresh(b)' <=> Fresh(b)
                      /\ Ready(b)' <=> Ready(b)
                      /\ \A t \in Getters : (Held(t) = b)' <=> (Held(t) = b)
    BY <1>p, StillStep
  <2>b. b \in Nat /\ b # 0
    BY JentAssumption
  <2>i. gpc[u] = "read" /\ got[u] = 0
    BY <1>8, <1>0 DEF esdm_jent_get, Holding, JentInv, BlockInv
  <2>0. /\ gpc'[u] \in {"gather", "done"} /\ \A t \in Getters : t # u => gpc'[t] = gpc[t]
        /\ UNCHANGED <<mpc, mslot, set, data, made, gslot, got>>
    BY <1>8, <1>0 DEF esdm_jent_get, Goto, monitor, JentInv, JentTypeOK
  <2>1. Fresh(b)' <=> Fresh(b)
    BY <1>0, <2>0, <2>b, <2>i DEF Fresh
  <2>2. Ready(b)' <=> Ready(b)
    BY <1>0, <2>0, <2>b, <2>i DEF Ready
  <2>3. \A t \in Getters : (Held(t) = b)' <=> (Held(t) = b)
    BY <1>0, <2>0, <2>b, <2>i DEF Held
  <2> QED
    BY <2>1, <2>2, <2>3
<1>9. ASSUME Gather(u) PROVE Store!Next
  <2>g. got[u] = 0
    BY <1>9 DEF Gather, JentInv, BlockInv, Holding
  <2>0. /\ gpc[u] = "gather" /\ gpc'[u] = "done" /\ got[u] = 0
        /\ \A t \in Getters : t # u => gpc'[t] = gpc[t] /\ got'[t] = got[t]
        /\ UNCHANGED <<set, mpc, mslot, data, gslot>>
    BY <1>9, <2>g DEF Gather, Goto, monitor, JentInv, JentTypeOK
  <2>1. \A b \in 1..MaxBlocks : Ready(b)' <=> Ready(b)
    BY <2>0 DEF Ready
  <2>2. \A t \in Getters, b \in 1..MaxBlocks : t # u => ((Held(t) = b)' <=> (Held(t) = b))
    BY <2>0 DEF Held
  <2>z. Held(u) = 0
    BY <2>0, Zenon DEF Held
  <2>3. \A b \in 1..MaxBlocks : Held(u) # b
    BY <2>z, JentAssumption
  <2>4. CASE made' = made + 1 /\ made < MaxBlocks /\ got'[u] = made + 1
    <3>n. made \in Nat /\ MaxBlocks \in Nat
      BY <1>0, JentAssumption
    <3>0. made + 1 \in 1..MaxBlocks
      BY <2>4, <3>n
    <3>1. Held(u)' = made + 1
      BY <2>0, <2>4 DEF Held
    <3>2. ASSUME NEW b \in 1..MaxBlocks, b # made + 1 PROVE Place(b)' = Place(b)
      <4>1. Fresh(b)' <=> Fresh(b)
        BY <1>0, <2>0, <2>4, <3>2 DEF Fresh
      <4>2. \A t \in Getters : (Held(t) = b)' <=> (Held(t) = b)
        BY <2>2, <2>3, <3>1, <3>2
      <4> QED
        BY <1>p, <2>1, <4>1, <4>2, Stays
    <3>3. Fresh(made + 1)
      BY <1>0 DEF Fresh
    <3>4. Place(made + 1) = "none"
      BY <1>p, <3>0, <3>3 DEF PlacesRight, PlaceFact
    <3>5. PICK c \in 1..MaxBlocks : c = made + 1
      BY <3>0
    <3>6. PlaceFact(c)' /\ (Held(u) = c)'
      BY <1>p, <3>1, <3>5 DEF PlacesRight
    <3>7. Place(c)' = u
      BY <3>6 DEF PlaceFact
    <3>8. \A b \in 1..MaxBlocks : Place(b) # u
      BY <1>p, <2>3 DEF PlacesRight, PlaceFact
    <3> QED
      BY <3>2, <3>4, <3>5, <3>7, <3>8, TakeStep
  <2>5. CASE UNCHANGED <<made, got, gbits>>
    <3>1. \A b \in 1..MaxBlocks : Fresh(b)' <=> Fresh(b)
      BY <2>0, <2>5 DEF Fresh
    <3>2. \A b \in 1..MaxBlocks : Held(u)' # b
      <4>1. Held(u)' = 0
        BY <2>0, <2>5 DEF Held
      <4> QED
        BY <4>1, JentAssumption
    <3> QED
      BY <1>p, <2>1, <2>2, <2>3, <3>1, <3>2, StillStep
  <2> QED
    BY <1>9, <2>4, <2>5 DEF Gather, JentInv, JentTypeOK
<1>10. ASSUME Return(u) PROVE Store!Next
  <2>0. /\ gpc'[u] = "idle"
        /\ \A t \in Getters : t # u => gpc'[t] = gpc[t] /\ got'[t] = got[t]
        /\ UNCHANGED <<set, mpc, mslot, data, gslot, made>>
    BY <1>10 DEF Return, Goto, shared, monitor, JentInv, JentTypeOK
  <2> SUFFICES ASSUME NEW b \in 1..MaxBlocks PROVE Place(b)' \in {Place(b), "gone"}
    BY WipeStep
  <2>1. (Fresh(b)' <=> Fresh(b)) /\ (Ready(b)' <=> Ready(b))
    BY <2>0 DEF Fresh, Ready
  <2>2. \A t \in Getters : t # u => ((Held(t) = b)' <=> (Held(t) = b))
    BY <2>0 DEF Held
  <2>3. Held(u)' # b
    <3>1. Held(u)' = 0
      BY <2>0 DEF Held
    <3> QED
      BY <3>1, JentAssumption
  <2>4. PlaceFact(b) /\ PlaceFact(b)'
    BY <1>p DEF PlacesRight
  <2>5. \A t \in Getters : t \notin {"none", "ready", "gone"}
    BY JentAssumption
  <2> QED
    BY <2>1, <2>2, <2>3, <2>4, <2>5 DEF PlaceFact
<1> QED
  BY <1>1, <1>2, <1>3, <1>4, <1>5, <1>6, <1>7, <1>8, <1>9, <1>10 DEF Getter
(* The ring of the Jitter RNG source hands out every block at most once,   *)
(* for any number of readers, slots and blocks: it implements the store.   *)
THEOREM BlocksHandedOnceCorrect == Spec => BlocksHandedOnce
<1>1. Init => Store!Init
  <2> SUFFICES ASSUME Init PROVE Store!Init
    OBVIOUS
  <2>1. \A b \in 1..MaxBlocks : Place(b) = "none"
    BY JentAssumption DEF Init, Place, Fresh
  <2> QED
    BY <2>1 DEF Store!Init, Places
<1>2. JentInv /\ JentInv' /\ [Next]_vars => [Store!Next]_Places
  <2> SUFFICES ASSUME JentInv, JentInv', [Next]_vars PROVE [Store!Next]_Places
    OBVIOUS
  <2>1. CASE Source
    BY <2>1, SourceRefines
  <2>2. CASE Monitor
    BY <2>2, MonitorRefines
  <2>3. ASSUME NEW t \in Getters, Getter(t) PROVE Store!Next
    BY <2>3, GetterRefines
  <2>4. CASE UNCHANGED vars
    BY <2>4 DEF vars, Places, Place, Fresh, Ready, Held, Slots
  <2> QED
    BY <2>1, <2>2, <2>3, <2>4 DEF Next
<1> QED
  BY <1>1, <1>2, JentInvariant, PTL DEF Spec, BlocksHandedOnce, Store!Spec

(* A buffer that counts entropy holds a block, unless the source was       *)
(* closed while a slot was in use.                                         *)
THEOREM CreditBackedCorrect == Spec => []CreditBacked
<1>1. JentInv => CreditBacked
  BY DEF JentInv, CreditInv, CreditBacked
<1> QED
  BY <1>1, JentInvariant, PTL
=============================================================================
