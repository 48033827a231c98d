----------------------------- MODULE EsdmEsJent -----------------------------
(***************************************************************************)
(* The Jitter RNG source, esdm/esdm_es_jent.c: a ring of blocks that the   *)
(* monitor thread fills ahead of time and the threads that seed a DRNG     *)
(* empty, without a lock, by the states of the slots; the synchronous way  *)
(* when a slot is not filled; and the end of the source.                   *)
(*                                                                         *)
(* A block is a number, 0 stands for wiped memory.  The data of a slot and *)
(* its count of entropy bits are separate in memory, and so here.          *)
(***************************************************************************)
EXTENDS Naturals

CONSTANTS
    Getters,
    ESDM_JENT_ENTROPY_BLOCKS,   \* slots of the ring, a power of two
    MaxBlocks,                  \* bound: blocks that are made
    NoGetter

ASSUME JentAssumption ==
    /\ ESDM_JENT_ENTROPY_BLOCKS \in Nat \ {0}
    /\ MaxBlocks \in Nat
    /\ NoGetter \notin Getters
    /\ Getters \cap {"none", "ready", "gone"} = {}

VARIABLES
    initialized,        \* esdm_jent_initialized
    set,                \* esdm_jent_async_set: the state of each slot
    data, bits,         \* esdm_jent_async: what a slot holds, whether it counts
    idx,                \* the slot that was handed to a reader last
    mpc, mslot,         \* the monitor thread
    gpc, gslot,         \* the readers
    got, gbits,         \* the buffer of a reader
    lock,               \* esdm_jent_lock: the owner
    fpc,                \* the thread that closes the source
    made,               \* number of blocks made so far
    wiped               \* history: a slot was wiped while it was read or filled

Slots == 0..(ESDM_JENT_ENTROPY_BLOCKS - 1)
shared == <<initialized, set, data, bits, idx, lock, made>>
monitor == <<mpc, mslot>>
getter == <<gpc, gslot, got, gbits>>
vars == <<initialized, set, data, bits, idx, mpc, mslot, gpc, gslot, got, gbits, lock, fpc, made,
          wiped>>

Init ==
    /\ initialized = FALSE
    /\ set = [i \in Slots |-> "empty"]
    /\ data = [i \in Slots |-> 0]
    /\ bits = [i \in Slots |-> FALSE]
    /\ idx = ESDM_JENT_ENTROPY_BLOCKS - 1
    /\ mpc = "idle" /\ mslot = 0
    /\ gpc = [t \in Getters |-> "idle"]
    /\ gslot = [t \in Getters |-> 0]
    /\ got = [t \in Getters |-> 0]
    /\ gbits = [t \in Getters |-> FALSE]
    /\ lock = NoGetter
    /\ fpc = "closed"
    /\ made = 0
    /\ wiped = FALSE

Goto(t, l) == gpc' = [gpc EXCEPT ![t] = l]
Quiet == mpc = "idle" /\ \A t \in Getters : gpc[t] = "idle"

-----------------------------------------------------------------------------
(* Opening and closing the source.                                         *)

(* esdm_jent_initialize() with esdm_jent_async_init(): the self test of    *)
(* the Jitter RNG or an allocation may fail.  It is run before the first   *)
(* reader; a repeated run while readers are under way, or after an end     *)
(* that found a slot in use, is not modelled.                              *)
esdm_jent_initialize ==
    /\ fpc = "closed" /\ Quiet /\ ~wiped
    /\ set' = [i \in Slots |-> "empty"]
    /\ \/ initialized' = TRUE /\ fpc' = "open"
       \/ initialized' = FALSE /\ fpc' = "closed"
    /\ UNCHANGED <<data, bits, idx, monitor, getter, lock, made, wiped>>

(* esdm_jent_finalize(): no new reader, then, below the lock, the          *)
(* collectors go and esdm_jent_async_fini() wipes all blocks, first byte   *)
(* first.                                                                  *)
esdm_jent_finalize ==
    /\ fpc = "open"
    /\ initialized' = FALSE
    /\ fpc' = "lock"
    /\ UNCHANGED <<set, data, bits, idx, monitor, getter, lock, made, wiped>>

esdm_jent_async_fini ==
    /\ fpc = "lock" /\ lock = NoGetter
    /\ data' = [i \in Slots |-> 0]
    /\ wiped' = (wiped \/ \E i \in Slots : set[i] \in {"filling", "filled", "reading"})
    /\ fpc' = "bits"
    /\ UNCHANGED <<initialized, set, bits, idx, monitor, getter, lock, made>>

WipeBits ==
    /\ fpc = "bits"
    /\ bits' = [i \in Slots |-> FALSE]
    /\ fpc' = "closed"
    /\ UNCHANGED <<initialized, set, data, idx, monitor, getter, lock, made, wiped>>

-----------------------------------------------------------------------------
(* The monitor: esdm_jent_async_monitor().                                 *)

MonitorStart ==
    /\ mpc = "idle" /\ fpc = "open"
    /\ mpc' = "slot" /\ mslot' = 0
    /\ UNCHANGED <<shared, getter, fpc, wiped>>

MonitorClaim ==
    /\ mpc = "slot"
    /\ IF mslot \notin Slots
       THEN mpc' = "idle" /\ UNCHANGED <<set, mslot>>
       ELSE IF set[mslot] = "empty"
       THEN set' = [set EXCEPT ![mslot] = "filling"] /\ mpc' = "fill" /\ UNCHANGED mslot
       ELSE mslot' = mslot + 1 /\ UNCHANGED <<set, mpc>>
    /\ UNCHANGED <<initialized, data, bits, idx, lock, made, getter, fpc, wiped>>

(* esdm_jent_get() with the collector of the monitor: it does nothing when *)
(* the source was closed.                                                  *)
MonitorCheck ==
    /\ mpc = "fill"
    /\ \/ /\ initialized
          /\ mpc' = "gather" /\ UNCHANGED bits
       \/ /\ ~initialized
          /\ bits' = [bits EXCEPT ![mslot] = FALSE]
          /\ mpc' = "filled"
    /\ UNCHANGED <<initialized, set, data, idx, lock, made, mslot, getter, fpc, wiped>>

(* Bug variant: a failed read counts.                                      *)
BugFillCounted ==
    /\ mpc = "gather"
    /\ \/ /\ made < MaxBlocks
          /\ made' = made + 1
          /\ data' = [data EXCEPT ![mslot] = made + 1]
          /\ mpc' = "count"
       \/ /\ mpc' = "count"
          /\ UNCHANGED <<data, made>>
    /\ UNCHANGED <<initialized, set, bits, idx, lock, mslot, getter, fpc, wiped>>

(* The Jitter RNG yields a block or fails; the source may be closed since, *)
(* and then counts nothing.                                                *)
MonitorFill ==
    /\ mpc = "gather"
    /\ \/ /\ made < MaxBlocks
          /\ made' = made + 1
          /\ data' = [data EXCEPT ![mslot] = made + 1]
          /\ mpc' = "count"
          /\ UNCHANGED bits
       \/ /\ bits' = [bits EXCEPT ![mslot] = FALSE]
          /\ mpc' = "filled"
          /\ UNCHANGED <<data, made>>
    /\ UNCHANGED <<initialized, set, idx, lock, mslot, getter, fpc, wiped>>

MonitorCount ==
    /\ mpc = "count"
    /\ bits' = [bits EXCEPT ![mslot] = initialized]
    /\ mpc' = "filled"
    /\ UNCHANGED <<initialized, set, data, idx, lock, made, mslot, getter, fpc, wiped>>

MonitorFilled ==
    /\ mpc = "filled"
    /\ set' = [set EXCEPT ![mslot] = "filled"]
    /\ mslot' = mslot + 1
    /\ mpc' = "slot"
    /\ UNCHANGED <<initialized, data, bits, idx, lock, made, getter, fpc, wiped>>

-----------------------------------------------------------------------------
(* A reader: esdm_jent_get_check(), esdm_jent_async_get().                 *)

(* The ring serves only requests of the size that the monitor fills; any   *)
(* other, and any while the ring is switched off, takes the lock.          *)
esdm_jent_get_check(t) ==
    /\ gpc[t] = "idle"
    /\ got' = [got EXCEPT ![t] = 0] /\ gbits' = [gbits EXCEPT ![t] = FALSE]
    /\ \/ Goto(t, "sync") /\ UNCHANGED <<idx, gslot>>
       \/ /\ ~initialized
          /\ Goto(t, "done") /\ UNCHANGED <<idx, gslot>>
       \/ /\ initialized
          /\ idx' = (idx + 1) % ESDM_JENT_ENTROPY_BLOCKS
          /\ gslot' = [gslot EXCEPT ![t] = idx']
          /\ Goto(t, "claim")
    /\ UNCHANGED <<initialized, set, data, bits, lock, made, monitor, fpc, wiped>>

BugClaimWithoutSwap(t) ==
    /\ gpc[t] = "claim"
    /\ Goto(t, IF set[gslot[t]] = "filled" THEN "copy" ELSE "sync")
    /\ UNCHANGED <<shared, monitor, gslot, got, gbits, fpc, wiped>>

esdm_jent_async_get(t) ==
    /\ gpc[t] = "claim"
    /\ IF set[gslot[t]] = "filled"
       THEN set' = [set EXCEPT ![gslot[t]] = "reading"] /\ Goto(t, "copy")
       ELSE Goto(t, "sync") /\ UNCHANGED set
    /\ UNCHANGED <<initialized, data, bits, idx, lock, made, monitor, gslot, got, gbits, fpc,
                   wiped>>

CopyData(t) ==
    /\ gpc[t] = "copy"
    /\ got' = [got EXCEPT ![t] = data[gslot[t]]]
    /\ Goto(t, "count")
    /\ UNCHANGED <<shared, monitor, gslot, gbits, fpc, wiped>>

CopyBits(t) ==
    /\ gpc[t] = "count"
    /\ gbits' = [gbits EXCEPT ![t] = bits[gslot[t]]]
    /\ Goto(t, "wipe")
    /\ UNCHANGED <<shared, monitor, gslot, got, fpc, wiped>>

WipeSlot(t) ==
    /\ gpc[t] = "wipe"
    /\ data' = [data EXCEPT ![gslot[t]] = 0]
    /\ bits' = [bits EXCEPT ![gslot[t]] = FALSE]
    /\ Goto(t, "release")
    /\ UNCHANGED <<initialized, set, idx, lock, made, monitor, gslot, got, gbits, fpc, wiped>>

Release(t) ==
    /\ gpc[t] = "release"
    /\ set' = [set EXCEPT ![gslot[t]] = "empty"]
    /\ Goto(t, "done")
    /\ UNCHANGED <<initialized, data, bits, idx, lock, made, monitor, gslot, got, gbits, fpc,
                   wiped>>

(* The synchronous way.                                                    *)
SyncLock(t) ==
    /\ gpc[t] = "sync" /\ lock = NoGetter
    /\ lock' = t
    /\ Goto(t, "read")
    /\ UNCHANGED <<initialized, set, data, bits, idx, made, monitor, gslot, got, gbits, fpc, wiped>>

esdm_jent_get(t) ==
    /\ gpc[t] = "read"
    /\ \/ /\ initialized
          /\ Goto(t, "gather") /\ UNCHANGED lock
       \/ /\ ~initialized
          /\ Goto(t, "done") /\ lock' = NoGetter
    /\ UNCHANGED <<initialized, set, data, bits, idx, made, monitor, gslot, got, gbits, fpc, wiped>>

Gather(t) ==
    /\ gpc[t] = "gather"
    /\ \/ /\ made < MaxBlocks
          /\ made' = made + 1
          /\ got' = [got EXCEPT ![t] = made + 1]
          /\ gbits' = [gbits EXCEPT ![t] = initialized]
       \/ UNCHANGED <<made, got, gbits>>
    /\ lock' = NoGetter
    /\ Goto(t, "done")
    /\ UNCHANGED <<initialized, set, data, bits, idx, monitor, gslot, fpc, wiped>>

(* The seed buffer is used and wiped.                                      *)
Return(t) ==
    /\ gpc[t] = "done"
    /\ got' = [got EXCEPT ![t] = 0]
    /\ gbits' = [gbits EXCEPT ![t] = FALSE]
    /\ Goto(t, "idle")
    /\ UNCHANGED <<shared, monitor, gslot, fpc, wiped>>

Source == esdm_jent_initialize \/ esdm_jent_finalize \/ esdm_jent_async_fini \/ WipeBits
Monitor ==
    \/ MonitorStart \/ MonitorClaim \/ MonitorCheck \/ MonitorFill \/ MonitorCount
    \/ MonitorFilled
Getter(t) ==
    \/ esdm_jent_get_check(t) \/ esdm_jent_async_get(t) \/ CopyData(t) \/ CopyBits(t)
    \/ WipeSlot(t) \/ Release(t) \/ SyncLock(t) \/ esdm_jent_get(t) \/ Gather(t) \/ Return(t)

Next == Source \/ Monitor \/ \E t \in Getters : Getter(t)
Spec == Init /\ [][Next]_vars

-----------------------------------------------------------------------------
(* The block that a reader has claimed or copied.                          *)
Held(t) ==
    IF gpc[t] = "copy" THEN data[gslot[t]]
    ELSE IF gpc[t] \in {"count", "wipe", "release", "done"} THEN got[t]
    ELSE 0

(* A block that is not made yet or that the monitor is still storing, and  *)
(* one that is stored.                                                     *)
Fresh(b) == b > made \/ (mpc \in {"count", "filled"} /\ data[mslot] = b)
Ready(b) == \E i \in Slots : set[i] = "filled" /\ data[i] = b

(* The place of a block as EsdmJentBlocks sees it.                         *)
Place(b) ==
    IF Fresh(b) THEN "none"
    ELSE IF Ready(b) THEN "ready"
    ELSE IF \E t \in Getters : Held(t) = b THEN CHOOSE t \in Getters : Held(t) = b
    ELSE "gone"

Places == [b \in 1..MaxBlocks |-> Place(b)]

Store == INSTANCE EsdmJentBlocks WITH Blocks <- 1..MaxBlocks, where <- Places

(***************************************************************************)
(* The ring implements the store of blocks: the readers, the monitor and   *)
(* the thread that closes the source hand every block to at most one       *)
(* reader, and wiped blocks never come back.                               *)
(***************************************************************************)
BlocksHandedOnce == Store!Spec

(***************************************************************************)
(* A buffer that counts entropy holds a block.  The wiped memory of a slot *)
(* counts only where the source was closed while the slot was in use.      *)
(***************************************************************************)
CreditBacked ==
    \A t \in Getters : gpc[t] = "done" /\ gbits[t] => got[t] # 0 \/ wiped
=============================================================================
