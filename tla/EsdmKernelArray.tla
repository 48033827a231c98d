-------------------------- MODULE EsdmKernelArray ---------------------------
(***************************************************************************)
(* The data array of one CPU in front of its hash pool, esdm_es_irq.c and  *)
(* esdm_es_sched.c of addon/linux_esdm_es, with the slot arithmetic of     *)
(* esdm_es_timer_common.h.  A time stamp whose common divisor is known     *)
(* takes one slot, a full stamp and every other word of data the slots of  *)
(* a whole unit, which may begin in the middle of a unit.                  *)
(*                                                                         *)
(* A slot is "stamp" while it holds the time stamp of an event, or the     *)
(* first part of one, that no hash has seen; everything else is "other".   *)
(***************************************************************************)
EXTENDS Naturals, FiniteSets

CONSTANTS
    ESDM_DATA_NUM_VALUES,       \* slots of the array
    ESDM_DATA_SLOTS_PER_UINT,   \* slots of a unit
    MaxCounted                  \* bound: events counted between two reads

VARIABLES
    source,             \* "irq" (compresses continuously) or "sched"
    highres,            \* esdm_highres_timer()
    gcdTested,          \* esdm_gcd_tested()
    array,              \* the slots
    ptr,                \* the array pointer, of which only the low bits count
    counted,            \* the event counter of the CPU
    hashed,             \* stamps in the pool since the last read
    words,              \* history: a word was added since the last read,
    lost                \* history: and overwrote a stamp that was not hashed

vars == <<source, highres, gcdTested, array, ptr, counted, hashed, words, lost>>

Slots == 0..(ESDM_DATA_NUM_VALUES - 1)
ESDM_DATA_WORD_MASK == ESDM_DATA_NUM_VALUES - 1
ArrayMask(i) == i % ESDM_DATA_NUM_VALUES
esdm_data_idx2array(i) == i \div ESDM_DATA_SLOTS_PER_UINT
esdm_data_idx2slot(i) == i % ESDM_DATA_SLOTS_PER_UINT

Stamps(a) == Cardinality({i \in Slots : a[i] = "stamp"})

Init ==
    /\ source \in {"irq", "sched"}
    /\ highres \in BOOLEAN
    /\ gcdTested = FALSE
    /\ array = [i \in Slots |-> "other"]
    /\ ptr = 0
    /\ counted = 0 /\ hashed = 0
    /\ words = FALSE /\ lost = FALSE

(* The array, the pool and what is lost while data is added.               *)
Store == [a |-> array, p |-> ptr, h |-> hashed, w |-> words, l |-> lost]

Hashed(st) ==
    [st EXCEPT !.a = [i \in Slots |-> "other"],
               !.h = IF @ + Stamps(st.a) < MaxCounted THEN @ + Stamps(st.a) ELSE MaxCounted]

BugCompressLate(st, p) ==
    IF p > ESDM_DATA_WORD_MASK THEN Hashed(st) ELSE st

(* The full array goes into the pool, esdm_irq_array_compress().           *)
esdm_irq_array_to_hash(st, p) ==
    IF p >= ESDM_DATA_WORD_MASK THEN Hashed(st) ELSE st

(* A time stamp goes into the next slot.  The scheduler source leaves the  *)
(* full array alone.                                                       *)
esdm_sched_array_add_slot(st) ==
    LET p == ArrayMask(st.p + 1) IN [st EXCEPT !.p = p, !.a[p] = "stamp"]

esdm_irq_array_add_slot(st) ==
    esdm_irq_array_to_hash(esdm_sched_array_add_slot(st), ArrayMask(st.p + 1))

(* esdm_data_split_u32(): a word begins in the slot that the pointer shows *)
(* and fills the unit of it; its rest starts the unit of the new pointer,  *)
(* whose other slots become zero.                                          *)
esdm_data_split_u32(st) ==
    LET p == ArrayMask(st.p + ESDM_DATA_SLOTS_PER_UINT) IN
    [ptr |-> p, pre_ptr |-> ArrayMask(p + ESDM_DATA_NUM_VALUES - ESDM_DATA_SLOTS_PER_UINT)]

UnitOf(i) == {j \in Slots : esdm_data_idx2array(j) = esdm_data_idx2array(i)}

Msb(st, pre_ptr, first) ==
    LET msb == {j \in UnitOf(pre_ptr) : esdm_data_idx2slot(j) >= esdm_data_idx2slot(pre_ptr)} IN
    [st EXCEPT !.w = TRUE, !.l = @ \/ \E j \in msb : st.a[j] = "stamp",
               !.a = [j \in Slots |-> IF j = pre_ptr THEN first
                                      ELSE IF j \in msb THEN "other" ELSE @[j]]]

Lsb(st, p) ==
    [st EXCEPT !.p = p, !.l = @ \/ \E j \in UnitOf(p) : st.a[j] = "stamp",
               !.a = [j \in Slots |-> IF j \in UnitOf(p) THEN "other" ELSE @[j]]]

esdm_sched_array_add_u32(st, first) ==
    LET w == esdm_data_split_u32(st) IN Lsb(Msb(st, w.pre_ptr, first), w.ptr)

_esdm_irq_array_add_u32(st, first) ==
    LET w   == esdm_data_split_u32(st)
        st1 == Msb(st, w.pre_ptr, first)
    IN  IF w.pre_ptr > w.ptr
        THEN Lsb(esdm_irq_array_to_hash(st1, ESDM_DATA_WORD_MASK), w.ptr)
        ELSE esdm_irq_array_to_hash(Lsb(st1, w.ptr), w.ptr)

Becomes(st) ==
    /\ array' = st.a /\ ptr' = st.p /\ hashed' = st.h
    /\ words' = st.w /\ lost' = st.l

(* The time stamp of an event.  One that fails the health test is not      *)
(* counted, and not stored when the failure says so.                       *)
esdm_time_process(st, health) ==
    IF health = "drop" THEN st
    ELSE IF gcdTested THEN esdm_irq_array_add_slot(st)
    ELSE _esdm_irq_array_add_u32(st, "stamp")

esdm_sched_time_process(st, health) ==
    IF health = "drop" THEN st
    ELSE IF gcdTested THEN esdm_sched_array_add_slot(st)
    ELSE esdm_sched_array_add_u32(st, "stamp")

Event(health) ==
    /\ counted < MaxCounted
    /\ counted' = IF health = "pass" THEN counted + 1 ELSE counted
    /\ \E tested \in BOOLEAN : gcdTested' = (gcdTested \/ tested)
    /\ UNCHANGED <<source, highres>>

(* Without a high-resolution timer further words go in before and after    *)
(* the stamp.                                                              *)
esdm_add_interrupt_randomness ==
    /\ source = "irq"
    /\ \E health \in {"pass", "use", "drop"}, regs \in BOOLEAN :
         LET Word(st) == _esdm_irq_array_add_u32(st, "other")
             before   == IF ~highres /\ regs THEN Word(Store) ELSE Store
             stamp    == esdm_time_process(before, health)
         IN  Becomes(IF highres THEN stamp ELSE Word(stamp)) /\ Event(health)

esdm_sched_randomness ==
    /\ source = "sched"
    /\ \E health \in {"pass", "use", "drop"} :
         LET stamp == esdm_sched_time_process(Store, health)
         IN  /\ Becomes(IF highres THEN stamp ELSE esdm_sched_array_add_u32(stamp, "other"))
             /\ Event(health)

(* esdm_irq_pool_hash_one(), esdm_sched_pool_hash_one(): the array goes    *)
(* into the pool, the digest out of it, and the counter starts anew.       *)
ReadPool ==
    /\ counted' = 0
    /\ array' = [i \in Slots |-> "other"]
    /\ hashed' = 0 /\ words' = FALSE /\ lost' = FALSE
    /\ UNCHANGED <<source, highres, gcdTested, ptr>>

(* esdm_irq_reset(), esdm_sched_reset() with the common divisor of both    *)
Reset ==
    /\ gcdTested' = FALSE
    /\ counted' = 0
    /\ UNCHANGED <<source, highres, array, ptr, hashed, words, lost>>

Next == esdm_add_interrupt_randomness \/ esdm_sched_randomness \/ ReadPool \/ Reset
Spec == Init /\ [][Next]_vars

(* What a read credits at most: esdm_irq_pool_hash_one() counts no more    *)
(* than the array holds when nothing was compressed on the way.            *)
Credited ==
    IF source = "irq" \/ counted < ESDM_DATA_NUM_VALUES THEN counted ELSE ESDM_DATA_NUM_VALUES

(***************************************************************************)
(* The next read never credits more events than there are time stamps that *)
(* it puts into the hash, wherever the words and slots of the array came   *)
(* to lie: for the interrupt source unless a word was put over a stamp     *)
(* where the timer is coarse, for the scheduler source, whose array only   *)
(* wraps, once every stamp takes a single slot.                            *)
(***************************************************************************)
CreditedHashed ==
    (highres \/ ~lost) /\ (source = "sched" => ~words) => Credited <= hashed + Stamps(array)

=============================================================================
