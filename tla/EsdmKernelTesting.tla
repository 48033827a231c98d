------------------------- MODULE EsdmKernelTesting --------------------------
(***************************************************************************)
(* The ring through which raw data leaves the kernel module for an         *)
(* entropy assessment: esdm_testing.c of addon/linux_esdm_es.  Data        *)
(* recorded in the ring must not count as entropy.  Each of the twelve     *)
(* interfaces is one such ring.  The writer and the boot variable are read *)
(* without the lock.                                                       *)
(***************************************************************************)
EXTENDS Naturals

CONSTANTS
    Readers,                        \* processes that read the debugfs file
    ESDM_TESTING_RINGBUFFER_SIZE,   \* words of the ring, and bytes of a chunk
    WordSize,                       \* sizeof(u32)
    MaxWriter                       \* bound: stores since the last reset

VARIABLES
    boot,               \* 0 runtime test, 1 boot test, 2 boot test completed
    enabled,            \* esdm_testing_enabled
    writer, reader,     \* rb_writer, rb_reader
    rpc, sampled, chunk, \* of each reader: where it is, the writer it has read,
                        \* the words left in its chunk
    bootTest,           \* history: the boot test has stored into the ring
    index               \* history: the ring word that was read last since a reset

vars == <<boot, enabled, writer, reader, rpc, sampled, chunk, bootTest, index>>

(* All that the user asks for is read at once.                             *)
BugChunk == MaxWriter * WordSize

(* esdm_testing_extract_user(): the largest chunk it asks the reader for   *)
(* is counted in bytes.                                                    *)
Chunk == ESDM_TESTING_RINGBUFFER_SIZE

Init ==
    /\ boot \in {0, 1} /\ enabled = FALSE
    /\ writer = 0 /\ reader = 0
    /\ rpc = [r \in Readers |-> "idle"]
    /\ sampled = [r \in Readers |-> 0]
    /\ chunk = [r \in Readers |-> 0]
    /\ bootTest = FALSE
    /\ index = 0

Goto(r, l) == rpc' = [rpc EXCEPT ![r] = l]

(* esdm_testing_store(): the caller keeps the datum out of the pool when   *)
(* it was recorded.  The boot test ends with the first datum that finds    *)
(* the writer behind the end of the ring.                                  *)
esdm_testing_store ==
    /\ enabled \/ boot = 1
    /\ writer < MaxWriter
    /\ IF boot # 0 /\ writer > ESDM_TESTING_RINGBUFFER_SIZE
       THEN boot' = 2 /\ UNCHANGED <<writer, bootTest>>
       ELSE writer' = writer + 1 /\ bootTest' = (boot # 0) /\ UNCHANGED boot
    /\ UNCHANGED <<enabled, reader, rpc, sampled, chunk, index>>

(* A chunk begins: esdm_testing_init() resets the ring for a runtime test. *)
esdm_testing_reader(r) ==
    /\ rpc[r] = "idle"
    /\ IF boot # 0 THEN UNCHANGED <<enabled, writer, reader, bootTest, index>>
       ELSE /\ reader' = 0 /\ writer' = 0 /\ enabled' = TRUE
            /\ bootTest' = FALSE /\ index' = 0
    /\ chunk' = [chunk EXCEPT ![r] = Chunk \div WordSize]
    /\ Goto(r, "sample")
    /\ UNCHANGED <<boot, sampled>>

Sample(r) ==
    /\ rpc[r] = "sample"
    /\ sampled' = [sampled EXCEPT ![r] = writer]
    /\ Goto(r, IF chunk[r] = 0 THEN "out" ELSE "read")
    /\ UNCHANGED <<boot, enabled, writer, reader, chunk, bootTest, index>>

(* The section below the lock.                                             *)
ReadWord(r) ==
    /\ rpc[r] = "read"
    /\ IF sampled[r] = 0 \/ sampled[r] = reader
       THEN /\ boot' = 0
            /\ Goto(r, IF boot # 0 THEN "out" ELSE "wait")
            /\ UNCHANGED <<reader, chunk, index>>
       ELSE /\ index' = reader
            /\ reader' = reader + 1
            /\ chunk' = [chunk EXCEPT ![r] = @ - 1]
            /\ Goto(r, "sample")
            /\ UNCHANGED boot
    /\ UNCHANGED <<enabled, writer, sampled, bootTest>>

(* esdm_testing_have_data(), or a signal.                                  *)
Wait(r) ==
    /\ rpc[r] = "wait"
    /\ \/ /\ writer % ESDM_TESTING_RINGBUFFER_SIZE # reader % ESDM_TESTING_RINGBUFFER_SIZE
          /\ Goto(r, "sample")
       \/ Goto(r, "out")
    /\ UNCHANGED <<boot, enabled, writer, reader, sampled, chunk, bootTest, index>>

(* esdm_testing_fini()                                                     *)
esdm_testing_fini(r) ==
    /\ rpc[r] = "out"
    /\ IF boot # 0 THEN UNCHANGED <<enabled, writer, reader, bootTest, index>>
       ELSE /\ enabled' = FALSE /\ reader' = 0 /\ writer' = 0
            /\ bootTest' = FALSE /\ index' = 0
    /\ Goto(r, "idle")
    /\ UNCHANGED <<boot, sampled, chunk>>

Next ==
    \/ esdm_testing_store
    \/ \E r \in Readers : \/ esdm_testing_reader(r) \/ Sample(r) \/ ReadWord(r) \/ Wait(r)
                          \/ esdm_testing_fini(r)

Spec == Init /\ [][Next]_vars

(***************************************************************************)
(* The reader never takes a word from behind the ring, although it does    *)
(* not mask its index, except the word one behind the end that the boot    *)
(* test counts.  It is stated for one process at the file: two that run at *)
(* the same time can carry the shared index past the writer.               *)
(***************************************************************************)
ReadsInsideRing ==
    index < ESDM_TESTING_RINGBUFFER_SIZE + (IF bootTest THEN 1 ELSE 0)
=============================================================================
