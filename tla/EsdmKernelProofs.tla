-------------------------- MODULE EsdmKernelProofs --------------------------
(***************************************************************************)
(* The proofs about the kernel module. The startup gate of its health      *)
(* tests (EsdmKernelHealth) opens only for whole windows of time stamps,   *)
(* for any number of CPUs; a read of the data array (EsdmKernelArray)      *)
(* credits no more than it hashes, for an array of any size; the module    *)
(* (EsdmKernelModule) unloads cleanly, for any number of CPUs and loads;   *)
(* and the test interface (EsdmKernelTesting) stays inside its ring, of    *)
(* any size.                                                               *)
(***************************************************************************)
EXTENDS EsdmKernelHealth, TLAPS

-----------------------------------------------------------------------------
(* The test interface                                                      *)

CONSTANTS Readers, ESDM_TESTING_RINGBUFFER_SIZE, WordSize, MaxWriter
VARIABLES boot, testing, writer, reader, rpc, sampled, chunk, bootTest, index

Testing == INSTANCE EsdmKernelTesting WITH enabled <- testing

(* The words of a chunk.                                                   *)
Words == Testing!Chunk \div WordSize

(* The types of the ring and of its readers.                               *)
RingTypeOK ==
    /\ boot \in {0, 1, 2} /\ testing \in BOOLEAN /\ bootTest \in BOOLEAN
    /\ writer \in Nat /\ reader \in Nat /\ index \in Nat
    /\ rpc \in [Readers -> {"idle", "sample", "read", "wait", "out"}]
    /\ sampled \in [Readers -> Nat] /\ chunk \in [Readers -> Nat]

(* The boot test: the writer stops one behind the ring, and a reader stays *)
(* behind it.                                                              *)
BootRun ==
    boot # 0 => /\ ~testing
                /\ reader <= writer /\ writer <= ESDM_TESTING_RINGBUFFER_SIZE + 1
                /\ writer = 0 \/ bootTest
                /\ \A r \in Readers : rpc[r] = "read" => reader <= sampled[r] /\ sampled[r] <= writer

(* The runtime test: the words that a reader has read and those left in    *)
(* its chunk are the whole chunk.                                          *)
RuntimeRun ==
    boot = 0 => \A r \in Readers :
                   /\ rpc[r] = "idle" => ~testing
                   /\ rpc[r] \in {"sample", "read", "wait"} => testing /\ reader + chunk[r] = Words

(* The word that was read lies inside the ring, or is the one that the     *)
(* boot test counts too many.                                              *)
IndexInside ==
    /\ \A r \in Readers : rpc[r] = "read" => chunk[r] > 0
    /\ index <= ESDM_TESTING_RINGBUFFER_SIZE
    /\ index = ESDM_TESTING_RINGBUFFER_SIZE => bootTest /\ (boot = 0 => ~testing)

(* The inductive invariant of the ring.                                    *)
RingInv == RingTypeOK /\ BootRun /\ RuntimeRun /\ IndexInside

(* The ring has words, and one process reads the file at a time.           *)
RingHypotheses ==
    /\ ESDM_TESTING_RINGBUFFER_SIZE \in Nat \ {0} /\ WordSize \in Nat \ {0}
    /\ \A r, s \in Readers : r = s

(* A chunk that is counted in bytes has no more words than the ring.       *)
LEMMA WordsFit ==
    ASSUME RingHypotheses
    PROVE  Words \in Nat /\ Words <= ESDM_TESTING_RINGBUFFER_SIZE
<1>1. ASSUME NEW n \in Nat, NEW w \in Nat \ {0}
      PROVE  n \div w \in Nat /\ n \div w <= n
  BY <1>1
<1> QED BY <1>1, Zenon DEF RingHypotheses, Words, Testing!Chunk

(* RingInv holds at the start.                                             *)
LEMMA RingInitOK == ASSUME RingHypotheses, Testing!Init PROVE RingInv
<1>1. testing \in BOOLEAN /\ bootTest \in BOOLEAN BY Zenon DEF Testing!Init
<1>2. RingTypeOK BY <1>1, Zenon DEF Testing!Init, RingTypeOK
<1>3. BootRun BY DEF RingHypotheses, Testing!Init, BootRun
<1>4. RuntimeRun BY Zenon DEF Testing!Init, RuntimeRun
<1>5. IndexInside BY DEF RingHypotheses, Testing!Init, IndexInside
<1> QED BY <1>2, <1>3, <1>4, <1>5, Zenon DEF RingInv

(* Every step keeps the types.                                             *)
LEMMA RingTypeKept == ASSUME RingHypotheses, RingInv, [Testing!Next]_Testing!vars PROVE RingTypeOK'
<1> USE DEF RingTypeOK
<1>t. RingTypeOK BY Zenon DEF RingInv
<1>1. CASE Testing!esdm_testing_store
  <2>1. bootTest' \in BOOLEAN BY <1>1, <1>t, Zenon DEF Testing!esdm_testing_store
  <2>2. UNCHANGED <<testing, reader, rpc, sampled, chunk, index>> BY <1>1, Zenon DEF Testing!esdm_testing_store
  <2>3. boot' \in {0, 1, 2} /\ writer' \in Nat BY <1>1, <1>t DEF Testing!esdm_testing_store
  <2> QED BY <2>1, <2>2, <2>3, <1>t, Zenon
<1>2. ASSUME NEW r \in Readers, Testing!esdm_testing_reader(r) PROVE RingTypeOK'
  <2>1. testing' \in BOOLEAN /\ bootTest' \in BOOLEAN BY <1>2, <1>t, Zenon DEF Testing!esdm_testing_reader
  <2>2. chunk' \in [Readers -> Nat] /\ rpc' \in [Readers -> {"idle", "sample", "read", "wait", "out"}]
    BY <1>2, <1>t, WordsFit, Zenon DEF Testing!esdm_testing_reader, Testing!Goto, Words
  <2>3. writer' \in Nat /\ reader' \in Nat /\ index' \in Nat /\ UNCHANGED <<boot, sampled>>
    BY <1>2, <1>t DEF Testing!esdm_testing_reader
  <2> QED BY <2>1, <2>2, <2>3, <1>t, Zenon
<1>3. CASE \E r \in Readers : Testing!Sample(r) BY <1>3, <1>t DEF Testing!Sample, Testing!Goto
<1>4. ASSUME NEW r \in Readers, Testing!ReadWord(r) PROVE RingTypeOK'
  <2>1. chunk[r] - 1 \in Nat BY <1>4, <1>t DEF Testing!ReadWord, RingInv, IndexInside
  <2> QED BY <1>4, <1>t, <2>1 DEF Testing!ReadWord, Testing!Goto
<1>5. CASE \E r \in Readers : Testing!Wait(r) BY <1>5, <1>t DEF Testing!Wait, Testing!Goto
<1>6. ASSUME NEW r \in Readers, Testing!esdm_testing_fini(r) PROVE RingTypeOK'
  <2>1. testing' \in BOOLEAN /\ bootTest' \in BOOLEAN BY <1>6, <1>t, Zenon DEF Testing!esdm_testing_fini
  <2>2. rpc' \in [Readers -> {"idle", "sample", "read", "wait", "out"}]
    BY <1>6, <1>t, Zenon DEF Testing!esdm_testing_fini, Testing!Goto
  <2>3. writer' \in Nat /\ reader' \in Nat /\ index' \in Nat /\ UNCHANGED <<boot, sampled, chunk>>
    BY <1>6, <1>t DEF Testing!esdm_testing_fini
  <2> QED BY <2>1, <2>2, <2>3, <1>t, Zenon
<1>7. CASE UNCHANGED Testing!vars BY <1>7, <1>t, Zenon DEF Testing!vars
<1> QED BY <1>1, <1>2, <1>3, <1>4, <1>5, <1>6, <1>7, Zenon DEF Testing!Next

(* RingInv but for the types.                                              *)
RunRest == BootRun /\ RuntimeRun /\ IndexInside

(* A datum that is stored keeps the rest: esdm_testing_store() checks the  *)
(* end of the ring before it counts on.                                    *)
LEMMA RingStoreKept ==
    ASSUME RingHypotheses, RingInv, Testing!esdm_testing_store
    PROVE  RunRest'
<1>t. RingTypeOK BY Zenon DEF RingInv
<1>1. UNCHANGED <<testing, reader, rpc, sampled, chunk, index>> BY Zenon DEF Testing!esdm_testing_store
<1>2. BootRun'
  <2>1. CASE boot # 0 /\ writer > ESDM_TESTING_RINGBUFFER_SIZE
    <3>1. boot' = 2 /\ UNCHANGED <<writer, bootTest>> BY <2>1, Zenon DEF Testing!esdm_testing_store
    <3> QED BY <1>1, <2>1, <3>1, Zenon DEF RingInv, BootRun
  <2>2. CASE ~(boot # 0 /\ writer > ESDM_TESTING_RINGBUFFER_SIZE)
    <3>1. writer' = writer + 1 /\ bootTest' = (boot # 0) /\ UNCHANGED boot
      BY <2>2, Zenon DEF Testing!esdm_testing_store
    <3>2. boot # 0 => bootTest' BY <3>1, Zenon
    <3>3. boot # 0 => writer <= ESDM_TESTING_RINGBUFFER_SIZE
      BY <2>2, <1>t DEF RingTypeOK, RingHypotheses
    <3> HIDE DEF RingHypotheses
    <3>4. ASSUME boot # 0, NEW s \in Readers, rpc[s] = "read"
          PROVE  reader <= sampled[s] /\ sampled[s] <= writer + 1
      BY <3>4, <1>t DEF RingInv, RingTypeOK, BootRun
    <3>5. boot # 0 => ~testing /\ reader <= writer + 1 /\ writer + 1 <= ESDM_TESTING_RINGBUFFER_SIZE + 1
      BY <3>3, <1>t DEF RingInv, RingTypeOK, BootRun, RingHypotheses
    <3> QED BY <1>1, <3>1, <3>2, <3>4, <3>5, Zenon DEF BootRun
  <2> QED BY <2>1, <2>2, Zenon
<1>3. RuntimeRun'
  BY <1>1, <1>t DEF RingInv, RingTypeOK, RuntimeRun, Testing!esdm_testing_store
<1>4. IndexInside'
  BY <1>1, <1>t DEF RingInv, RingTypeOK, IndexInside, BootRun, Testing!esdm_testing_store
<1> QED BY <1>2, <1>3, <1>4, Zenon DEF RunRest

(* A step of the reader keeps the rest.                                    *)
LEMMA RingReaderKept ==
    ASSUME RingHypotheses, RingInv, NEW r \in Readers,
           \/ Testing!esdm_testing_reader(r) \/ Testing!Sample(r) \/ Testing!ReadWord(r) \/ Testing!Wait(r) \/ Testing!esdm_testing_fini(r)
    PROVE  RunRest'
<1> USE DEF RingTypeOK
<1>t. RingTypeOK BY Zenon DEF RingInv
<1>o. \A s \in Readers : s = r BY Zenon DEF RingHypotheses
<1>n. ESDM_TESTING_RINGBUFFER_SIZE \in Nat \ {0} BY Zenon DEF RingHypotheses
<1>w. Words \in Nat /\ Words <= ESDM_TESTING_RINGBUFFER_SIZE BY WordsFit, Zenon
<1>1. ASSUME Testing!esdm_testing_reader(r) PROVE RunRest'
  <2>1. rpc'[r] = "sample" /\ chunk'[r] = Words /\ UNCHANGED <<boot, sampled>>
    BY <1>1, <1>t, Zenon DEF Testing!esdm_testing_reader, Testing!Goto, Words
  <2>2. CASE boot # 0
    <3>1. UNCHANGED <<testing, writer, reader, bootTest, index>> BY <1>1, <2>2, Zenon DEF Testing!esdm_testing_reader
    <3> QED BY <2>1, <2>2, <3>1, <1>t, <1>o, Zenon DEF RunRest, RingInv, BootRun, RuntimeRun, IndexInside
  <2>3. CASE boot = 0
    <3>1. reader' = 0 /\ writer' = 0 /\ testing' = TRUE /\ bootTest' = FALSE /\ index' = 0
      BY <1>1, <2>3, Zenon DEF Testing!esdm_testing_reader
    <3> QED BY <2>1, <2>3, <3>1, <1>o, <1>n, <1>w DEF RunRest, BootRun, RuntimeRun, IndexInside
  <2> QED BY <2>2, <2>3, Zenon
<1>2. ASSUME Testing!Sample(r) PROVE RunRest'
  <2>1. /\ rpc[r] = "sample" /\ sampled'[r] = writer /\ rpc'[r] = IF chunk[r] = 0 THEN "out" ELSE "read"
        /\ UNCHANGED <<boot, testing, writer, reader, chunk, bootTest, index>>
    BY <1>2, <1>t, Zenon DEF Testing!Sample, Testing!Goto
  <2> QED BY <2>1, <1>t, <1>o DEF RunRest, RingInv, BootRun, RuntimeRun, IndexInside
<1>3. ASSUME Testing!ReadWord(r) PROVE RunRest'
  <2>0. rpc[r] = "read" /\ chunk[r] > 0 /\ UNCHANGED <<testing, writer, sampled, bootTest>>
    BY <1>3, Zenon DEF Testing!ReadWord, RingInv, IndexInside
  <2>1. CASE sampled[r] = 0 \/ sampled[r] = reader
    <3>1. /\ boot' = 0 /\ rpc'[r] = IF boot # 0 THEN "out" ELSE "wait"
          /\ UNCHANGED <<reader, chunk, index>>
      BY <1>3, <2>1, <1>t, Zenon DEF Testing!ReadWord, Testing!Goto
    <3> QED BY <2>0, <3>1, <1>t, <1>o, Zenon DEF RunRest, RingInv, BootRun, RuntimeRun, IndexInside
  <2>2. CASE ~(sampled[r] = 0 \/ sampled[r] = reader)
    <3>1. /\ index' = reader /\ reader' = reader + 1 /\ chunk'[r] = chunk[r] - 1
          /\ rpc'[r] = "sample" /\ UNCHANGED boot
      BY <1>3, <2>2, <1>t, Zenon DEF Testing!ReadWord, Testing!Goto
    <3>2. CASE boot # 0
      <4>1. reader < writer /\ writer <= ESDM_TESTING_RINGBUFFER_SIZE + 1 /\ bootTest
        BY <2>0, <2>2, <3>2, <1>t DEF RingInv, BootRun
      <4> QED BY <2>0, <3>1, <3>2, <4>1, <1>t, <1>o, <1>n
              DEF RunRest, RingInv, BootRun, RuntimeRun, IndexInside
    <3>3. CASE boot = 0
      <4>1. testing /\ reader + chunk[r] = Words BY <2>0, <3>3, Zenon DEF RingInv, RuntimeRun
      <4> QED BY <2>0, <3>1, <3>3, <4>1, <1>t, <1>o, <1>n, <1>w
              DEF RunRest, BootRun, RuntimeRun, IndexInside
    <3> QED BY <3>2, <3>3
  <2> QED BY <2>1, <2>2, Zenon
<1>4. ASSUME Testing!Wait(r) PROVE RunRest'
  <2>1. /\ rpc[r] = "wait" /\ rpc'[r] \in {"sample", "out"}
        /\ UNCHANGED <<boot, testing, writer, reader, sampled, chunk, bootTest, index>>
    BY <1>4, <1>t, Zenon DEF Testing!Wait, Testing!Goto
  <2> QED BY <2>1, <1>t, <1>o, Zenon DEF RunRest, RingInv, BootRun, RuntimeRun, IndexInside
<1>5. ASSUME Testing!esdm_testing_fini(r) PROVE RunRest'
  <2>1. rpc'[r] = "idle" /\ UNCHANGED <<boot, sampled, chunk>>
    BY <1>5, <1>t, Zenon DEF Testing!esdm_testing_fini, Testing!Goto
  <2>2. CASE boot # 0
    <3>1. UNCHANGED <<testing, writer, reader, bootTest, index>> BY <1>5, <2>2, Zenon DEF Testing!esdm_testing_fini
    <3> QED BY <2>1, <2>2, <3>1, <1>t, <1>o, Zenon DEF RunRest, RingInv, BootRun, RuntimeRun, IndexInside
  <2>3. CASE boot = 0
    <3>1. reader' = 0 /\ writer' = 0 /\ testing' = FALSE /\ bootTest' = FALSE /\ index' = 0
      BY <1>5, <2>3, Zenon DEF Testing!esdm_testing_fini
    <3> QED BY <2>1, <2>3, <3>1, <1>o, <1>n DEF RunRest, BootRun, RuntimeRun, IndexInside
  <2> QED BY <2>2, <2>3
<1> QED BY <1>1, <1>2, <1>3, <1>4, <1>5, Zenon

(* Every step keeps RingInv.                                               *)
LEMMA RingStep == ASSUME RingHypotheses, RingInv, [Testing!Next]_Testing!vars PROVE RingInv'
<1>1. CASE UNCHANGED Testing!vars
  BY <1>1, Zenon DEF Testing!vars, RingInv, RingTypeOK, BootRun, RuntimeRun, IndexInside
<1>2. CASE Testing!Next
  <2>1. RunRest' BY <1>2, RingStoreKept, RingReaderKept, Zenon DEF Testing!Next
  <2> QED BY <2>1, RingTypeKept, <1>2, Zenon DEF RingInv, RunRest
<1> QED BY <1>1, <1>2, Zenon

(* For a ring and a word of any size esdm_testing_reader() takes no word   *)
(* from behind the ring, although it does not mask its index, but for the  *)
(* one that the boot test counts too many.                                 *)
THEOREM ReadsInsideRingCorrect ==
    ASSUME RingHypotheses PROVE Testing!Spec => []Testing!ReadsInsideRing
<1>1. Testing!Init => RingInv BY RingInitOK, Zenon
<1>2. RingInv /\ [Testing!Next]_Testing!vars => RingInv' BY RingStep, Zenon
<1>3. RingInv => Testing!ReadsInsideRing
  BY DEF RingHypotheses, RingInv, RingTypeOK, IndexInside, Testing!ReadsInsideRing
<1> QED BY <1>1, <1>2, <1>3, PTL DEF Testing!Spec

-----------------------------------------------------------------------------
(* The life cycle of the module                                            *)

CONSTANTS Hashes, Reader, Null, MaxLoads
VARIABLES lpc, loads, initState, wpc, tmp, hash, callback, live, device, opened, debugfs, using,
          crashed, lateWork

Module == INSTANCE EsdmKernelModule

(* The types of the life cycle.                                            *)
ModuleTypeOK ==
    /\ lpc \in {"unloaded", "init_sched", "init_test", "init_dev", "failed", "loaded",
                "exit_sched", "fail_sched_exit", "exit_irq", "fail_irq_exit", "irq_lock",
                "fail_irq_lock", "irq_free", "fail_irq_free"}
    /\ initState \in {"unused", "registering", "registered", "unregistering"}
    /\ wpc \in {"none", "wait", "alloc", "register"}
    /\ tmp \in [work : Hashes \cup {Null}, exit : Hashes \cup {Null}]
    /\ hash \in [Module!Sources -> Hashes \cup {Null}]
    /\ live \subseteq Hashes
    /\ using \in [Module!Users -> Module!Sources \X (Hashes \cup {Null})]
    /\ callback \subseteq Module!Sources /\ device \in BOOLEAN

(* Every pointer leads to an object of its own that is allocated.          *)
OwnHash ==
    /\ {hash["irq"], hash["sched"], tmp.work, tmp.exit} \subseteq live \cup {Null}
    /\ hash["irq"] # Null => hash["irq"] \notin {hash["sched"], tmp.work, tmp.exit}
    /\ hash["sched"] # Null => hash["sched"] \notin {tmp.work, tmp.exit}
    /\ tmp.work # Null => tmp.work # tmp.exit

(* Who is in a read section has found the hash that is still set.          *)
InSection ==
    \A u \in Module!Users : using[u] # Module!Outside => /\ hash[using[u][1]] = using[u][2]
                                                         /\ using[u][2] # Null

(* The places of the exit of the interrupt source between its exchange of  *)
(* the state and its end.                                                  *)
IrqExits == {"irq_lock", "fail_irq_lock", "irq_free", "fail_irq_free"}
Freeing == {"irq_free", "fail_irq_free"}

(* What the state word says of the registration work and of the exit: the  *)
(* exchange of both makes one of them wait for the other or undo what it   *)
(* did.                                                                    *)
WorkState ==
    /\ initState = "unused" => wpc = "none" /\ hash["irq"] = Null
    /\ initState = "registering" => wpc = "wait" /\ lpc \notin {"unloaded", "fail_sched_exit"}
    /\ initState = "registered" => wpc # "wait" /\ lpc \notin IrqExits
    /\ initState = "unregistering" => \/ lpc \in IrqExits
                                      \/ wpc = "wait" /\ lpc \in {"unloaded", "fail_sched_exit"}
    /\ wpc # "none" => hash["irq"] = Null
    /\ wpc \in {"alloc", "register"} => /\ tmp.exit = Null /\ initState \in {"registered", "unregistering"}
                                        /\ lpc \notin {"unloaded", "fail_sched_exit"}
    /\ wpc = "register" => tmp.work # Null
    /\ wpc = "wait" => lpc \notin IrqExits
    /\ tmp.work # Null => wpc = "register"
    /\ tmp.exit # Null => lpc \in Freeing /\ hash["irq"] = Null
    /\ "irq" \in callback => hash["irq"] # Null

(* What is gone when the module is, and that every hash has its pointer    *)
(* unless the exit found the work under way.                               *)
Gone ==
    /\ lpc \in {"unloaded", "fail_sched_exit"} =>
         hash["irq"] = Null /\ tmp.work = Null /\ (~lateWork => wpc = "none")
    /\ lpc \in {"unloaded", "init_sched", "exit_irq", "irq_lock", "irq_free"} => hash["sched"] = Null
    /\ "sched" \in callback => hash["sched"] # Null
    /\ device => lpc = "loaded"
    /\ ~lateWork => live \subseteq {hash["irq"], hash["sched"], tmp.work, tmp.exit}

(* The inductive invariant: all of it, as long as the kernel has not       *)
(* crashed.                                                                *)
ModuleInv == ModuleTypeOK /\ Module!Held \subseteq live
             /\ (~crashed => OwnHash /\ InSection /\ WorkState /\ Gone)

(* The invariant but for the types and the read sections' references.      *)
ModuleRest == OwnHash /\ InSection /\ WorkState /\ Gone

(* The part of it that concerns no read section.                           *)
Kept == OwnHash /\ WorkState /\ Gone

(* A pointer that changes only where nobody reads keeps InSection.         *)
LEMMA SectionKept ==
    ASSUME ModuleTypeOK, InSection, UNCHANGED using,
           \A s \in Module!Sources : hash'[s] = hash[s] \/ Module!NoReader(s) \/ hash[s] = Null
    PROVE  InSection'
<1> SUFFICES ASSUME NEW u \in Module!Users, using'[u] # Module!Outside
             PROVE  hash'[using'[u][1]] = using'[u][2] /\ using'[u][2] # Null
  BY Zenon DEF InSection, Module!Outside, Module!Users
<1>1. using[u] # Module!Outside /\ using'[u] = using[u] BY Zenon
<1>2. hash[using[u][1]] = using[u][2] /\ using[u][2] # Null BY <1>1, Zenon DEF InSection
<1>3. using[u][1] \in Module!Sources BY Zenon DEF ModuleTypeOK
<1>4. ~Module!NoReader(using[u][1]) BY <1>1, Zenon DEF Module!NoReader
<1> QED BY <1>1, <1>2, <1>3, <1>4, Zenon

(* Freeing a hash that no read section can hold frees none that is held.   *)
LEMMA HeldKept ==
    ASSUME ModuleTypeOK, InSection, Module!Held \subseteq live, UNCHANGED using,
           NEW x, live \ {x} \subseteq live',
           \A s \in Module!Sources : hash[s] # Null => hash[s] # x \/ Module!NoReader(s)
    PROVE  Module!Held' \subseteq live'
<1> SUFFICES ASSUME NEW h \in Module!Held' PROVE h \in live'
  BY Zenon
<1>1. PICK u \in Module!Users : h = using[u][2] /\ h # Null BY Zenon DEF Module!Held, Module!Users
<1>2. using[u] # Module!Outside /\ h \in live
  BY <1>1 DEF Module!Outside, Module!Held
<1>3. hash[using[u][1]] = h BY <1>1, <1>2, Zenon DEF InSection
<1>4. using[u][1] \in Module!Sources BY Zenon DEF ModuleTypeOK
<1>5. ~Module!NoReader(using[u][1]) BY <1>2, Zenon DEF Module!NoReader
<1> QED BY <1>1, <1>2, <1>3, <1>4, <1>5, Zenon

(* Allocating a hash frees none.                                           *)
LEMMA HeldGrows ==
    ASSUME Module!Held \subseteq live, UNCHANGED using, live \subseteq live'
    PROVE  Module!Held' \subseteq live'
BY Zenon DEF Module!Held, Module!Users

(* A step of the loader that touches neither hash nor work keeps the rest. *)
LEMMA QuietKept ==
    ASSUME ModuleRest,
           lpc \in {"init_test", "init_dev", "failed", "loaded", "exit_sched", "fail_irq_exit"},
           lpc' \in {"init_test", "init_dev", "failed", "loaded", "exit_sched", "fail_irq_exit"},
           UNCHANGED <<initState, wpc, tmp, hash, callback, live, lateWork>>,
           device' => lpc' = "loaded"
    PROVE  Kept'
<1>1. OwnHash' BY Zenon DEF ModuleRest, OwnHash
<1>2. WorkState' BY Zenon DEF ModuleRest, WorkState, IrqExits, Freeing
<1>3. Gone' BY Zenon DEF ModuleRest, Gone
<1> QED BY <1>1, <1>2, <1>3, Zenon DEF Kept

(* And so does a step of a user.                                           *)
LEMMA SamePlaceKept ==
    ASSUME ModuleRest,
           UNCHANGED <<lpc, initState, wpc, tmp, hash, callback, live, device, lateWork>>
    PROVE  Kept'
BY DEF ModuleRest, Kept, OwnHash, WorkState, Gone

(* What a step that finds the kernel alive may rely on.                    *)
Kernel == Null \notin Hashes /\ ModuleTypeOK /\ Module!Held \subseteq live /\ ModuleRest

(* The module is loaded, which queues the work.                            *)
LEMMA LoadKept == ASSUME Kernel, Module!Load PROVE ModuleTypeOK' /\ Module!Held' \subseteq live' /\ ModuleRest'
<1> USE DEF Kernel
<1>1. /\ hash'["irq"] = Null /\ hash'["sched"] = Null /\ lpc = "unloaded" /\ lpc' = "init_sched"
      /\ wpc = "none" /\ wpc' = "wait" /\ initState' = "registering"
      /\ UNCHANGED <<tmp, callback, live, device, using, lateWork>>
  BY Zenon DEF Module!Load, Module!Sources
<1>2. hash["irq"] = Null /\ hash["sched"] = Null /\ tmp.work = Null /\ tmp.exit = Null
  BY <1>1, Zenon DEF ModuleRest, Gone, WorkState, Freeing
<1>3. ModuleTypeOK' BY <1>1, Zenon DEF ModuleTypeOK, Module!Load
<1>4. Module!Held' \subseteq live' BY <1>1, HeldGrows, Zenon
<1>5. InSection' BY <1>1, <1>2, SectionKept, Zenon DEF ModuleRest, Module!Sources
<1>6. OwnHash' BY <1>1, <1>2, Zenon DEF OwnHash
<1>7. WorkState' BY <1>1, <1>2, Zenon DEF ModuleRest, WorkState, IrqExits, Freeing
<1>8. Gone' BY <1>1, <1>2, Zenon DEF ModuleRest, Gone
<1> QED BY <1>3, <1>4, <1>5, <1>6, <1>7, <1>8, Zenon DEF ModuleRest

(* The scheduler source allocates its hash and registers, or fails.        *)
LEMMA SchedInitKept ==
    ASSUME Kernel, Module!esdm_es_sched_module_init
    PROVE  ModuleTypeOK' /\ Module!Held' \subseteq live' /\ (~crashed' => ModuleRest')
<1> USE DEF Kernel
<1>1. /\ lpc = "init_sched" /\ Module!NoReader("sched")
      /\ UNCHANGED <<initState, wpc, tmp, device, using, lateWork>>
  BY Zenon DEF Module!esdm_es_sched_module_init
<1>2. hash["sched"] = Null /\ tmp.exit = Null /\ "sched" \notin callback
  BY <1>1, Zenon DEF ModuleRest, Gone, WorkState, Freeing
<1>3. ASSUME NEW h \in Hashes, h \notin live, live' = live \cup {h},
             hash' = [hash EXCEPT !["sched"] = h], callback' = callback \cup {"sched"},
             lpc' = "init_test"
      PROVE  ModuleTypeOK' /\ Module!Held' \subseteq live' /\ ModuleRest'
  <2>1. hash'["irq"] = hash["irq"] /\ hash'["sched"] = h /\ h # Null
    BY <1>3, Zenon DEF ModuleTypeOK, Module!Sources
  <2>2. ModuleTypeOK' BY <1>1, <1>3 DEF ModuleTypeOK, Module!Sources
  <2>3. Module!Held' \subseteq live' BY <1>1, <1>3, HeldGrows, Zenon
  <2>4. InSection' BY <1>1, <2>1, SectionKept, Zenon DEF ModuleRest, Module!Sources
  <2>5. OwnHash' BY <1>1, <1>2, <1>3, <2>1 DEF ModuleRest, OwnHash
  <2>6. WorkState' BY <1>1, <1>2, <1>3, <2>1, Zenon DEF ModuleRest, WorkState, IrqExits, Freeing
  <2>7. Gone' BY <1>1, <1>2, <1>3, <2>1, Zenon DEF ModuleRest, Gone
  <2> QED BY <2>2, <2>3, <2>4, <2>5, <2>6, <2>7, Zenon DEF ModuleRest
<1>4. ASSUME lpc' = "failed", UNCHANGED <<hash, callback, live, crashed>>
      PROVE  ModuleTypeOK' /\ Module!Held' \subseteq live' /\ ModuleRest'
  <2>2. ModuleTypeOK' BY <1>1, <1>4, Zenon DEF ModuleTypeOK
  <2>3. Module!Held' \subseteq live' BY <1>1, <1>4, HeldGrows, Zenon
  <2>4. InSection' BY <1>1, <1>4, SectionKept, Zenon DEF ModuleRest
  <2>5. OwnHash' BY <1>1, <1>4, Zenon DEF ModuleRest, OwnHash
  <2>6. WorkState' BY <1>1, <1>2, <1>4, Zenon DEF ModuleRest, WorkState, IrqExits, Freeing
  <2>7. Gone' BY <1>1, <1>2, <1>4, Zenon DEF ModuleRest, Gone
  <2> QED BY <2>2, <2>3, <2>4, <2>5, <2>6, <2>7 DEF ModuleRest
<1>5. ASSUME NEW h \in Hashes, live' = live \cup {h}, UNCHANGED <<lpc, hash, callback>>
      PROVE  ModuleTypeOK' /\ Module!Held' \subseteq live'
  <2>1. ModuleTypeOK' BY <1>1, <1>5, Zenon DEF ModuleTypeOK
  <2>2. Module!Held' \subseteq live' BY <1>1, <1>5, HeldGrows, Zenon
  <2> QED BY <2>1, <2>2, Zenon
<1> QED BY <1>3, <1>4, <1>5, Zenon DEF Module!esdm_es_sched_module_init, Module!Alloc

(* The test interface, the device and the ends of loading and of use.      *)
LEMMA QuietStepsKept ==
    ASSUME Kernel, Module!esdm_test_init \/ Module!esdm_es_mgr_dev_init \/ Module!LoadFails \/ Module!Unload
    PROVE  ModuleTypeOK' /\ Module!Held' \subseteq live' /\ ModuleRest'
<1> USE DEF Kernel
<1>1. /\ lpc \in {"init_test", "init_dev", "failed", "loaded", "exit_sched", "fail_irq_exit"}
      /\ lpc' \in {"init_test", "init_dev", "failed", "loaded", "exit_sched", "fail_irq_exit"}
      /\ UNCHANGED <<initState, wpc, tmp, hash, callback, live, using, lateWork>>
  BY Zenon DEF Module!esdm_test_init, Module!esdm_es_mgr_dev_init, Module!LoadFails, Module!Unload
<1>2. device' => lpc' = "loaded"
  BY Zenon DEF Module!esdm_test_init, Module!esdm_es_mgr_dev_init, Module!LoadFails, Module!Unload, ModuleRest, Gone
<1>3. device' \in BOOLEAN
  BY Zenon DEF Module!esdm_test_init, Module!esdm_es_mgr_dev_init, Module!LoadFails, Module!Unload, ModuleTypeOK
<1>4. ModuleTypeOK' BY <1>1, <1>3 DEF ModuleTypeOK
<1>5. Module!Held' \subseteq live' BY <1>1, HeldGrows, Zenon
<1>6. InSection' BY <1>1, SectionKept, Zenon DEF ModuleRest
<1>7. Kept' BY <1>1, <1>2, QuietKept, Zenon
<1> QED BY <1>4, <1>5, <1>6, <1>7, Zenon DEF ModuleRest, Kept

(* The scheduler source frees its hash under the lock.                     *)
LEMMA SchedExitKept ==
    ASSUME Kernel, Module!esdm_es_sched_module_exit
    PROVE  ModuleTypeOK' /\ Module!Held' \subseteq live' /\ ModuleRest'
<1> USE DEF Kernel
<1>1. /\ lpc \in {"exit_sched", "fail_sched_exit"} /\ Module!NoReader("sched")
      /\ lpc' = IF lpc = "exit_sched" THEN "exit_irq" ELSE "unloaded"
      /\ callback' = callback \ {"sched"} /\ live' = live \ {hash["sched"]}
      /\ UNCHANGED <<initState, wpc, tmp, device, using, lateWork>>
  BY Zenon DEF Module!esdm_es_sched_module_exit, Module!Dealloc
<1>2. hash'["irq"] = hash["irq"] /\ hash'["sched"] = Null
  BY Zenon DEF Module!esdm_es_sched_module_exit, ModuleTypeOK, Module!Sources
<1>3. ModuleTypeOK' BY <1>1 DEF ModuleTypeOK, Module!esdm_es_sched_module_exit, Module!Sources
<1>4. Module!Held' \subseteq live' BY <1>1, HeldKept DEF ModuleRest, OwnHash, Module!Sources
<1>5. InSection' BY <1>1, <1>2, SectionKept, Zenon DEF ModuleRest, Module!Sources
<1>6. OwnHash' BY <1>1, <1>2 DEF ModuleRest, OwnHash
<1>7. WorkState' BY <1>1, <1>2, Zenon DEF ModuleRest, WorkState, IrqExits, Freeing
<1>8. Gone' BY <1>1, <1>2, Zenon DEF ModuleRest, Gone
<1> QED BY <1>3, <1>4, <1>5, <1>6, <1>7, <1>8, Zenon DEF ModuleRest

(* The interrupt source exchanges the state: the work was done, or must    *)
(* find out that it is not wanted.                                         *)
LEMMA IrqExitKept ==
    ASSUME Kernel, Module!esdm_es_irq_module_exit
    PROVE  ModuleTypeOK' /\ Module!Held' \subseteq live' /\ ModuleRest'
<1> USE DEF Kernel
<1>1. /\ lpc \in {"exit_irq", "fail_irq_exit"} /\ (~lateWork' <=> ~lateWork /\ wpc = "none")
      /\ UNCHANGED <<wpc, tmp, hash, callback, live, device, using>>
  BY Zenon DEF Module!esdm_es_irq_module_exit
<1>2. \/ /\ initState = "unused" /\ initState' = "unused" /\ lpc' \in {"fail_sched_exit", "unloaded"}
      \/ /\ initState = "registering" /\ initState' = "unregistering"
         /\ lpc' \in {"fail_sched_exit", "unloaded"}
      \/ /\ initState = "registered" /\ initState' = "unregistering"
         /\ lpc' \in {"irq_lock", "fail_irq_lock"}
  <2>1. initState # "unregistering" BY <1>1, Zenon DEF ModuleRest, WorkState, IrqExits
  <2>2. initState \in {"unused", "registering", "registered"} BY <2>1, Zenon DEF ModuleTypeOK
  <2> QED BY <2>2, Zenon DEF Module!esdm_es_irq_module_exit, Module!AfterIrqExit
<1>3. lpc' \in {"unloaded", "irq_lock"} => lpc = "exit_irq"
  BY <1>1, Zenon DEF Module!esdm_es_irq_module_exit, Module!AfterIrqExit
<1>4. ModuleTypeOK' BY <1>1, <1>2 DEF ModuleTypeOK
<1>5. Module!Held' \subseteq live' BY <1>1, HeldGrows, Zenon
<1>6. InSection' BY <1>1, SectionKept, Zenon DEF ModuleRest
<1>7. OwnHash' BY <1>1, Zenon DEF ModuleRest, OwnHash
<1>8. WorkState' BY <1>1, <1>2, Zenon DEF ModuleRest, WorkState, IrqExits, Freeing
<1>9. Gone' BY <1>1, <1>2, <1>3, Zenon DEF ModuleRest, WorkState, Gone
<1> QED BY <1>4, <1>5, <1>6, <1>7, <1>8, <1>9 DEF ModuleRest

(* Under the lock the exit takes the hash over.                            *)
LEMMA IrqLockedKept ==
    ASSUME Kernel, Module!IrqExitLocked
    PROVE  ModuleTypeOK' /\ Module!Held' \subseteq live' /\ ModuleRest'
<1> USE DEF Kernel
<1>1. /\ lpc \in {"irq_lock", "fail_irq_lock"} /\ Module!NoReader("irq")
      /\ lpc' = IF lpc = "irq_lock" THEN "irq_free" ELSE "fail_irq_free"
      /\ callback' = callback \ {"irq"}
      /\ UNCHANGED <<initState, wpc, live, device, using, lateWork>>
  BY Zenon DEF Module!IrqExitLocked
<1>2. /\ hash'["irq"] = Null /\ hash'["sched"] = hash["sched"]
      /\ tmp'.work = tmp.work /\ tmp'.exit = hash["irq"] /\ tmp.exit = Null
  BY <1>1, Zenon DEF Module!IrqExitLocked, ModuleTypeOK, Module!Sources, ModuleRest, WorkState, Freeing
<1>3. ModuleTypeOK' BY <1>1 DEF ModuleTypeOK, Module!IrqExitLocked, Module!Sources
<1>4. Module!Held' \subseteq live' BY <1>1, HeldGrows, Zenon
<1>5. InSection' BY <1>1, <1>2, SectionKept, Zenon DEF ModuleRest, Module!Sources
<1>6. OwnHash' BY <1>1, <1>2, Zenon DEF ModuleRest, OwnHash
<1>7. WorkState' BY <1>1, <1>2, Zenon DEF ModuleRest, WorkState, IrqExits, Freeing
<1>8. Gone' BY <1>1, <1>2, Zenon DEF ModuleRest, Gone
<1> QED BY <1>3, <1>4, <1>5, <1>6, <1>7, <1>8 DEF ModuleRest

(* The exit frees what it took over.                                       *)
LEMMA IrqFreeKept ==
    ASSUME Kernel, Module!IrqExitFree
    PROVE  ModuleTypeOK' /\ Module!Held' \subseteq live' /\ (~crashed' => ModuleRest')
<1> USE DEF Kernel
<1>1. /\ lpc \in {"irq_free", "fail_irq_free"} /\ initState' = "unused"
      /\ lpc' = IF lpc = "fail_irq_free" THEN "fail_sched_exit" ELSE "unloaded"
      /\ live' = live \ {tmp.exit}
      /\ UNCHANGED <<wpc, hash, callback, device, using, lateWork>>
  BY Zenon DEF Module!IrqExitFree, Module!Dealloc, Module!AfterIrqExit
<1>2. tmp'.work = tmp.work /\ tmp'.exit = Null
  BY Zenon DEF Module!IrqExitFree, ModuleTypeOK
<1>3. ~crashed' => tmp.exit # Null
  BY Zenon DEF Module!IrqExitFree, Module!Dealloc, ModuleTypeOK
<1>4. ModuleTypeOK' BY <1>1, Zenon DEF ModuleTypeOK, Module!IrqExitFree
<1>5. Module!Held' \subseteq live' BY <1>1, HeldKept, Zenon DEF ModuleRest, OwnHash, Module!Sources
<1>6. InSection' BY <1>1, SectionKept, Zenon DEF ModuleRest
<1>7. OwnHash' BY <1>1, <1>2 DEF ModuleRest, OwnHash
<1>8. ASSUME ~crashed' PROVE WorkState' /\ Gone'
  <2>1. hash["irq"] = Null /\ wpc = "none" /\ tmp.work = Null
    BY <1>3, <1>8, <1>1, Zenon DEF ModuleRest, WorkState, ModuleTypeOK, IrqExits, Freeing
  <2>2. WorkState' BY <1>1, <1>2, <2>1, Zenon DEF ModuleRest, WorkState, IrqExits, Freeing
  <2>3. Gone' BY <1>1, <1>2, <2>1, Zenon DEF ModuleRest, Gone
  <2> QED BY <2>2, <2>3, Zenon
<1> QED BY <1>4, <1>5, <1>6, <1>7, <1>8, Zenon DEF ModuleRest

(* The work exchanges the state, or finds that the exit was first.         *)
LEMMA WorkExchangeKept ==
    ASSUME Kernel, Module!WorkExchange
    PROVE  ModuleTypeOK' /\ Module!Held' \subseteq live' /\ (~crashed' => ModuleRest')
<1> USE DEF Kernel
<1>1. /\ wpc = "wait" /\ (~crashed' => lpc # "unloaded")
      /\ UNCHANGED <<lpc, tmp, hash, callback, live, device, using, lateWork>>
  BY Zenon DEF Module!WorkExchange
<1>2. \/ initState = "registering" /\ initState' = "registered" /\ wpc' = "alloc"
      \/ initState # "registering" /\ initState' = "unused" /\ wpc' = "none"
  BY Zenon DEF Module!WorkExchange
<1>3. hash["irq"] = Null /\ tmp.work = Null /\ "irq" \notin callback
  BY <1>1, Zenon DEF ModuleRest, WorkState
<1>4. ModuleTypeOK' BY <1>1, <1>2 DEF ModuleTypeOK
<1>5. Module!Held' \subseteq live' BY <1>1, HeldGrows, Zenon
<1>6. InSection' BY <1>1, SectionKept, Zenon DEF ModuleRest
<1>7. OwnHash' BY <1>1, Zenon DEF ModuleRest, OwnHash
<1>8. WorkState' BY <1>1, <1>2, <1>3, Zenon DEF ModuleRest, WorkState, IrqExits, Freeing
<1>9. ~crashed' => Gone' BY <1>1, <1>2, <1>3, Zenon DEF ModuleRest, WorkState, Gone
<1> QED BY <1>4, <1>5, <1>6, <1>7, <1>8, <1>9, Zenon DEF ModuleRest

(* The work allocates the hash.                                            *)
LEMMA WorkAllocKept ==
    ASSUME Kernel, Module!WorkAlloc
    PROVE  ModuleTypeOK' /\ Module!Held' \subseteq live' /\ ModuleRest'
<1> USE DEF Kernel
<1>1. /\ wpc = "alloc"
      /\ UNCHANGED <<lpc, hash, callback, device, using, lateWork>>
  BY Zenon DEF Module!WorkAlloc
<1>2. hash["irq"] = Null /\ tmp.work = Null /\ tmp.exit = Null /\ "irq" \notin callback
  BY <1>1, Zenon DEF ModuleRest, WorkState
<1>3. ASSUME NEW h \in Hashes, h \notin live, live' = live \cup {h},
             tmp' = [tmp EXCEPT !.work = h], wpc' = "register", UNCHANGED initState
      PROVE  ModuleTypeOK' /\ Module!Held' \subseteq live' /\ ModuleRest'
  <2>1. tmp'.work = h /\ tmp'.exit = Null /\ h # Null
    BY <1>2, <1>3, Zenon DEF ModuleTypeOK
  <2>2. ModuleTypeOK' BY <1>1, <1>3 DEF ModuleTypeOK
  <2>3. Module!Held' \subseteq live' BY <1>1, <1>3, HeldGrows, Zenon
  <2>4. InSection' BY <1>1, SectionKept, Zenon DEF ModuleRest
  <2>5. OwnHash' BY <1>1, <1>2, <1>3, <2>1, Zenon DEF ModuleRest, OwnHash
  <2>6. WorkState' BY <1>1, <1>2, <1>3, <2>1, Zenon DEF ModuleRest, WorkState, IrqExits, Freeing
  <2>7. lpc \notin {"unloaded", "fail_sched_exit"} BY <1>1, Zenon DEF ModuleRest, WorkState
  <2>8. Gone' BY <1>1, <1>2, <1>3, <2>1, <2>7 DEF ModuleRest, Gone
  <2> QED BY <2>2, <2>3, <2>4, <2>5, <2>6, <2>8, Zenon DEF ModuleRest
<1>4. ASSUME initState' = "unused", wpc' = "none", UNCHANGED <<tmp, live>>
      PROVE  ModuleTypeOK' /\ Module!Held' \subseteq live' /\ ModuleRest'
  <2>2. ModuleTypeOK' BY <1>1, <1>4 DEF ModuleTypeOK
  <2>3. Module!Held' \subseteq live' BY <1>1, <1>4, HeldGrows, Zenon
  <2>4. InSection' BY <1>1, SectionKept, Zenon DEF ModuleRest
  <2>5. OwnHash' BY <1>1, <1>4, Zenon DEF ModuleRest, OwnHash
  <2>6. WorkState' BY <1>1, <1>2, <1>4, Zenon DEF ModuleRest, WorkState, IrqExits, Freeing
  <2>7. Gone' BY <1>1, <1>2, <1>4, Zenon DEF ModuleRest, Gone
  <2> QED BY <2>2, <2>3, <2>4, <2>5, <2>6, <2>7 DEF ModuleRest
<1> QED BY <1>3, <1>4, Zenon DEF Module!WorkAlloc, Module!Alloc

(* The work publishes the hash under the lock and registers the callback,  *)
(* or frees it.                                                            *)
LEMMA WorkRegisterKept ==
    ASSUME Kernel, Module!WorkRegister
    PROVE  ModuleTypeOK' /\ Module!Held' \subseteq live' /\ ModuleRest'
<1> USE DEF Kernel
<1>1. /\ wpc = "register" /\ Module!NoReader("irq") /\ wpc' = "none"
      /\ UNCHANGED <<lpc, device, using, lateWork>>
  BY Zenon DEF Module!WorkRegister
<1>2. /\ hash["irq"] = Null /\ tmp.exit = Null /\ "irq" \notin callback
      /\ lpc \notin {"unloaded", "fail_sched_exit"}
      /\ initState \in {"registered", "unregistering"}
  BY <1>1, Zenon DEF ModuleRest, WorkState
<1>3. tmp'.work = Null /\ tmp'.exit = Null
  BY <1>2, Zenon DEF Module!WorkRegister, ModuleTypeOK
<1>4. ASSUME hash' = [hash EXCEPT !["irq"] = tmp.work], callback' = callback \cup {"irq"},
             UNCHANGED <<initState, live>>
      PROVE  ModuleTypeOK' /\ Module!Held' \subseteq live' /\ ModuleRest'
  <2>1. hash'["irq"] = tmp.work /\ hash'["sched"] = hash["sched"]
    BY <1>4, Zenon DEF ModuleTypeOK, Module!Sources
  <2>2. ModuleTypeOK' BY <1>1, <1>4 DEF ModuleTypeOK, Module!Sources, Module!WorkRegister
  <2>3. Module!Held' \subseteq live' BY <1>1, <1>4, HeldGrows, Zenon
  <2>4. InSection' BY <1>1, <2>1, SectionKept, Zenon DEF ModuleRest, Module!Sources
  <2>5. OwnHash' BY <1>2, <1>3, <1>4, <2>1, Zenon DEF ModuleRest, OwnHash
  <2>9. tmp.work # Null BY <1>1, Zenon DEF ModuleRest, WorkState
  <2>6. WorkState' BY <1>1, <1>2, <1>3, <1>4, <2>1, <2>9, Zenon DEF ModuleRest, WorkState, IrqExits, Freeing
  <2>7. Gone' BY <1>1, <1>2, <1>3, <1>4, <2>1, Zenon DEF ModuleRest, Gone
  <2> QED BY <2>2, <2>3, <2>4, <2>5, <2>6, <2>7, Zenon DEF ModuleRest
<1>5. ASSUME hash' = [hash EXCEPT !["irq"] = Null], live' = live \ {tmp.work},
             initState' = "unused", UNCHANGED callback
      PROVE  ModuleTypeOK' /\ Module!Held' \subseteq live' /\ ModuleRest'
  <2>1. hash'["irq"] = Null /\ hash'["sched"] = hash["sched"]
    BY <1>5, Zenon DEF ModuleTypeOK, Module!Sources
  <2>2. ModuleTypeOK' BY <1>1, <1>5 DEF ModuleTypeOK, Module!Sources, Module!WorkRegister
  <2>3. Module!Held' \subseteq live' BY <1>1, <1>5, HeldKept DEF ModuleRest, OwnHash, Module!Sources
  <2>4. InSection' BY <1>1, <2>1, SectionKept, Zenon DEF ModuleRest, Module!Sources
  <2>5. OwnHash' BY <1>2, <1>3, <1>5, <2>1, Zenon DEF ModuleRest, OwnHash
  <2>6. WorkState' BY <1>1, <1>2, <1>3, <1>5, <2>1, Zenon DEF ModuleRest, WorkState, IrqExits, Freeing
  <2>7. Gone' BY <1>1, <1>2, <1>3, <1>5, <2>1, Zenon DEF ModuleRest, Gone
  <2> QED BY <2>2, <2>3, <2>4, <2>5, <2>6, <2>7 DEF ModuleRest
<1> QED BY <1>4, <1>5, Zenon DEF Module!WorkRegister

(* Interrupt handlers and the process at the device enter and leave read   *)
(* sections.                                                               *)
LEMMA UsersKept ==
    ASSUME Kernel, \/ Module!OpenOrClose
                   \/ \E u \in Module!Users : Module!Leave(u) \/ \E s \in Module!Sources : Module!Enter(u, s)
    PROVE  ModuleTypeOK' /\ Module!Held' \subseteq live' /\ ModuleRest'
<1> USE DEF Kernel
<1>1. UNCHANGED <<lpc, initState, wpc, tmp, hash, callback, live, device, lateWork>>
  BY Zenon DEF Module!OpenOrClose, Module!Leave, Module!Enter
<1>2. Kept' BY <1>1, SamePlaceKept, Zenon
<1>3. CASE Module!OpenOrClose
  <2>1. UNCHANGED using BY <1>3, Zenon DEF Module!OpenOrClose
  <2>2. ModuleTypeOK' BY <1>1, <2>1 DEF ModuleTypeOK
  <2>3. Module!Held' \subseteq live' BY <1>1, <2>1, HeldGrows, Zenon
  <2>4. InSection' BY <1>1, <2>1, SectionKept, Zenon DEF ModuleRest
  <2> QED BY <1>2, <2>2, <2>3, <2>4, Zenon DEF ModuleRest, Kept
<1>4. ASSUME NEW u \in Module!Users, NEW p \in Module!Sources \X (Hashes \cup {Null}),
             using' = [using EXCEPT ![u] = p],
             p = Module!Outside \/ (hash[p[1]] = p[2] /\ p[2] # Null)
      PROVE  ModuleTypeOK' /\ Module!Held' \subseteq live' /\ ModuleRest'
  <2>1. \A v \in Module!Users : using'[v] = IF v = u THEN p ELSE using[v]
    BY <1>4, Zenon DEF ModuleTypeOK
  <2>2. ModuleTypeOK' BY <1>1, <1>4 DEF ModuleTypeOK, Module!Users
  <2>3. InSection' BY <1>1, <1>4, <2>1 DEF ModuleRest, InSection, Module!Outside, Module!Users
  <2>4. p[2] \in live \cup {Null}
    <3>1. p[1] \in Module!Sources BY Zenon
    <3>2. CASE p = Module!Outside BY <3>2, Zenon DEF Module!Outside
    <3>3. CASE hash[p[1]] = p[2] BY <3>1, <3>3, Zenon DEF ModuleRest, OwnHash, Module!Sources
    <3> QED BY <1>4, <3>2, <3>3, Zenon
  <2>5. Module!Held' \subseteq live'
    <3> SUFFICES ASSUME NEW h \in Module!Held' PROVE h \in live BY <1>1, Zenon
    <3>1. PICK v \in Module!Users : h = using'[v][2] /\ h # Null BY Zenon DEF Module!Held, Module!Users
    <3>2. CASE v = u BY <2>1, <2>4, <3>1, <3>2, Zenon
    <3>3. CASE v # u BY <2>1, <3>1, <3>3, Zenon DEF Module!Held
    <3> QED BY <3>2, <3>3, Zenon
  <2> QED BY <1>2, <2>2, <2>3, <2>5, Zenon DEF ModuleRest, Kept
<1>5. ASSUME NEW u \in Module!Users, Module!Leave(u)
      PROVE  ModuleTypeOK' /\ Module!Held' \subseteq live' /\ ModuleRest'
  <2>1. Module!Outside \in Module!Sources \X (Hashes \cup {Null}) BY Zenon DEF Module!Outside, Module!Sources
  <2>2. using' = [using EXCEPT ![u] = Module!Outside] BY <1>5, Zenon DEF Module!Leave
  <2> QED BY <1>4, <2>1, <2>2, Zenon
<1>6. ASSUME NEW u \in Module!Users, NEW s \in Module!Sources, Module!Enter(u, s)
      PROVE  ModuleTypeOK' /\ Module!Held' \subseteq live' /\ ModuleRest'
  <2> DEFINE p == <<s, hash[s]>>
  <2>1. p \in Module!Sources \X (Hashes \cup {Null}) BY Zenon DEF ModuleTypeOK
  <2>2. using' = [using EXCEPT ![u] = p] /\ hash[s] # Null BY <1>6, Zenon DEF Module!Enter
  <2>3. p[1] = s /\ p[2] = hash[s] BY Zenon
  <2> HIDE DEF p
  <2> QED BY <1>4, <2>1, <2>2, <2>3, Zenon
<1> QED BY <1>3, <1>5, <1>6, Zenon

(* ModuleInv holds at the start.                                           *)
LEMMA ModuleInitOK == Module!Init => ModuleInv
<1> SUFFICES ASSUME Module!Init PROVE ModuleInv BY Zenon
<1>1. /\ hash["irq"] = Null /\ hash["sched"] = Null /\ tmp.work = Null /\ tmp.exit = Null
      /\ \A u \in Module!Users : using[u] = Module!Outside
  BY Zenon DEF Module!Init, Module!Sources
<1>2. ModuleTypeOK BY Zenon DEF Module!Init, ModuleTypeOK, Module!Outside, Module!Sources, Module!Users
<1>3. Module!Held \subseteq live BY <1>1 DEF Module!Held, Module!Outside
<1>4. OwnHash BY <1>1, Zenon DEF OwnHash
<1>5. InSection BY <1>1, Zenon DEF InSection
<1>6. WorkState BY <1>1, Zenon DEF Module!Init, WorkState, IrqExits, Freeing
<1>7. Gone BY <1>1, Zenon DEF Module!Init, Gone
<1> QED BY <1>2, <1>3, <1>4, <1>5, <1>6, <1>7, Zenon DEF ModuleInv

(* Every step keeps ModuleInv.                                             *)
LEMMA ModuleStep == ASSUME Null \notin Hashes, ModuleInv, [Module!Next]_Module!vars PROVE ModuleInv'
<1>1. CASE UNCHANGED Module!vars
  <2>1. ModuleTypeOK' BY <1>1 DEF Module!vars, ModuleInv, ModuleTypeOK
  <2>2. Module!Held' \subseteq live' BY <1>1, HeldGrows, Zenon DEF Module!vars, ModuleInv
  <2>3. OwnHash' <=> OwnHash BY <1>1, Zenon DEF Module!vars, OwnHash
  <2>4. InSection' <=> InSection BY <1>1, Zenon DEF Module!vars, InSection
  <2>5. WorkState' <=> WorkState BY <1>1 DEF Module!vars, WorkState
  <2>6. Gone' <=> Gone BY <1>1, Zenon DEF Module!vars, Gone
  <2>7. crashed' = crashed BY <1>1, Zenon DEF Module!vars
  <2> QED BY <2>1, <2>2, <2>3, <2>4, <2>5, <2>6, <2>7, Zenon DEF ModuleInv
<1>2. CASE Module!Next
  <2>1. Kernel BY <1>2, Zenon DEF Module!Next, ModuleInv, Kernel, ModuleRest
  <2>2. ModuleTypeOK' /\ Module!Held' \subseteq live' /\ (~crashed' => ModuleRest')
    BY <1>2, <2>1, LoadKept, SchedInitKept, QuietStepsKept, SchedExitKept, IrqExitKept,
       IrqLockedKept, IrqFreeKept, WorkExchangeKept, WorkAllocKept, WorkRegisterKept, UsersKept, Zenon
    DEF Module!Next
  <2> QED BY <2>2, Zenon DEF ModuleInv, ModuleRest
<1> QED BY <1>1, <1>2, Zenon

(* For any number of CPUs and of loads no hash is freed that a handler     *)
(* uses, and an unloaded module leaves no callback, device or hash behind  *)
(* (esdm_es_irq_module_exit(), esdm_es_sched_module_exit()), unless the    *)
(* exit found the registration work still under way.                       *)
THEOREM UnloadCleanCorrect ==
    ASSUME Null \notin Hashes PROVE Module!Spec => []Module!UnloadClean
<1>1. Module!Init => ModuleInv BY ModuleInitOK, Zenon
<1>2. ModuleInv /\ [Module!Next]_Module!vars => ModuleInv' BY ModuleStep, Zenon
<1>3. ModuleInv => Module!UnloadClean
  <2> SUFFICES ASSUME ModuleInv, lpc = "unloaded", ~crashed, ~lateWork
               PROVE  callback = {} /\ ~device /\ live = {}
    BY Zenon DEF Module!UnloadClean, ModuleInv
  <2>1. hash["irq"] = Null /\ hash["sched"] = Null /\ tmp.work = Null /\ tmp.exit = Null
    BY Zenon DEF ModuleInv, Gone, WorkState, Freeing
  <2>2. callback = {} BY <2>1 DEF ModuleInv, ModuleTypeOK, Module!Sources, WorkState, Gone
  <2>3. live \subseteq Hashes /\ live \subseteq {Null}
    BY <2>1, Zenon DEF ModuleInv, ModuleTypeOK, Gone
  <2>4. ~device BY Zenon DEF ModuleInv, Gone
  <2> QED BY <2>2, <2>3, <2>4, Zenon
<1> QED BY <1>1, <1>2, <1>3, PTL DEF Module!Spec

-----------------------------------------------------------------------------
(* The startup gate.  The counter of the startup blocks and the time       *)
(* stamps since the last failure are tied by the windows that have ended:  *)
(* one is either booked in the counter or still in the hands of a CPU on   *)
(* its way to booking it.  Every ended window is a whole window of time    *)
(* stamps, but for the first, which the failure may have found almost      *)
(* complete.                                                               *)

(* The CPUs that have ended a window and not booked it yet.                *)
Booking == {c \in Cpus : pc[c] = "startup"}

(* The windows that have ended since the last failure.                     *)
Ended == STARTUP_BLOCKS - blocks + Cardinality(Booking)

(* What the ended windows say about the time stamps taken.                 *)
Covered == Ended * APT_WINDOW_SIZE + 1 - aptTrigger <= clean

(* Unless the last failure missed a window, every ended window consists of *)
(* time stamps taken since, and whoever is about to open the gate has seen *)
(* a whole startup test.                                                   *)
WindowInv ==
    ~staleWindow => /\ clean = StartupSamples \/ Covered
                    /\ \A c \in Cpus : pc[c] = "done" => clean = StartupSamples

HealthInv == HealthTypeOK /\ WindowInv /\ StartupEarned

-----------------------------------------------------------------------------
(* Numbers and sets *)

Finite == INSTANCE FiniteSetTheorems

(* The two readings of Cardinality are the same.                           *)
LEMMA SameCardinality == \A S : Cardinality(S) = Finite!Cardinality(S)
BY Zenon DEF Cardinality, Finite!Cardinality

LEMMA SameFinite == \A S : IsFiniteSet(S) <=> Finite!IsFiniteSet(S)
BY Zenon DEF IsFiniteSet, Finite!IsFiniteSet

(* The CPUs are finitely many, and so are those that book a window.        *)
LEMMA FewCpus == ASSUME NEW S \in SUBSET Cpus
                 PROVE  IsFiniteSet(S) /\ Cardinality(S) \in Nat
<1>1. Finite!IsFiniteSet(Cpus)
  BY SameFinite, HealthAssumption, Zenon
<1>2. Finite!IsFiniteSet(S) /\ Finite!Cardinality(S) \in Nat
  BY <1>1, Finite!FS_Subset, Finite!FS_CardinalityType, Zenon
<1> QED
  BY <1>2, SameFinite, SameCardinality, Zenon

LEMMA OneMore == ASSUME NEW S \in SUBSET Cpus, NEW c \in Cpus, c \notin S
                 PROVE  Cardinality(S \cup {c}) = Cardinality(S) + 1
<1>1. Finite!IsFiniteSet(S)
  BY FewCpus, SameFinite, Zenon
<1>2. Finite!Cardinality(S \cup {c}) = Finite!Cardinality(S) + 1
  BY <1>1, Finite!FS_AddElement, Zenon
<1> QED
  BY <1>2, SameCardinality, Zenon

LEMMA NoneLeft == Cardinality({}) = 0
BY SameCardinality, Finite!FS_EmptySet, Zenon

(* One window more or less is APT_WINDOW_SIZE time stamps more or less.    *)
LEMMA WindowSizes ==
    /\ APT_WINDOW_SIZE \in Nat \ {0} /\ STARTUP_BLOCKS \in Nat \ {0}
    /\ \A n \in Int : /\ n * APT_WINDOW_SIZE \in Int
                      /\ (n + 1) * APT_WINDOW_SIZE = n * APT_WINDOW_SIZE + APT_WINDOW_SIZE
                      /\ (n - 1) * APT_WINDOW_SIZE = n * APT_WINDOW_SIZE - APT_WINDOW_SIZE
    /\ \A m, n \in Int : m <= n => m * APT_WINDOW_SIZE <= n * APT_WINDOW_SIZE
    /\ StartupSamples \in Nat \ {0}
<1>1. APT_WINDOW_SIZE \in Nat \ {0} /\ STARTUP_BLOCKS \in Nat \ {0}
  BY HealthAssumption, Zenon
<1>2. \A n \in Int : /\ n * APT_WINDOW_SIZE \in Int
                     /\ (n + 1) * APT_WINDOW_SIZE = n * APT_WINDOW_SIZE + APT_WINDOW_SIZE
                     /\ (n - 1) * APT_WINDOW_SIZE = n * APT_WINDOW_SIZE - APT_WINDOW_SIZE
  BY <1>1
<1>3. \A m, n \in Int : m <= n => m * APT_WINDOW_SIZE <= n * APT_WINDOW_SIZE
  BY <1>1
<1>4. StartupSamples \in Nat \ {0}
  <2>1. 0 * APT_WINDOW_SIZE = 0 /\ STARTUP_BLOCKS - 1 \in Int /\ 0 <= STARTUP_BLOCKS - 1
    BY <1>1
  <2>2. 0 <= (STARTUP_BLOCKS - 1) * APT_WINDOW_SIZE
    BY <1>3, <2>1
  <2> QED
    BY <1>2, <2>1, <2>2 DEF StartupSamples
<1> QED
  BY <1>1, <1>2, <1>3, <1>4, Zenon

-----------------------------------------------------------------------------
(* Types *)

(* A CPU goes to a place of esdm_health_test().                            *)
LEMMA GotoType ==
    ASSUME HealthTypeOK, NEW c \in Cpus, NEW l \in Places, Goto(c, l)
    PROVE  pc' \in [Cpus -> Places]
BY Zenon DEF HealthTypeOK, Goto

(* The two cutoffs of a test lead to a failure or let the test go on.      *)
LEMMA VerdictType ==
    ASSUME HealthTypeOK, NEW c \in Cpus, NEW then \in {"trigger", "result"},
           NEW count, NEW cutoff, NEW permanent,
           Verdict(c, count, cutoff, permanent, then)
    PROVE  /\ pc' \in [Cpus -> Places] /\ failed' \in [Cpus -> Failures]
           /\ halted' \in BOOLEAN
           /\ pc'[c] \in {pc[c], "failure", then}
           /\ \A d \in Cpus \ {c} : pc'[d] = pc[d]
<1>1. \A k \in {"startup", "runtime", "permanent"} : [kind |-> k, then |-> then] \in Failures
  BY Zenon DEF Failures
<1>2. ASSUME NEW k \in {"startup", "runtime", "permanent"}, Fail(c, k, then)
      PROVE  /\ pc' = pc \/ pc' = [pc EXCEPT ![c] = "failure"]
             /\ failed' \in [Cpus -> Failures] /\ halted' \in BOOLEAN
  <2>1. failed' = [failed EXCEPT ![c] = [kind |-> k, then |-> then]]
    BY <1>2, Zenon DEF Fail
  <2>2. failed' \in [Cpus -> Failures]
    BY <1>1, <2>1, Zenon DEF HealthTypeOK
  <2> QED
    BY <1>2, <2>2, Zenon DEF Fail, Goto, HealthTypeOK
<1>3. /\ \/ pc' = pc \/ pc' = [pc EXCEPT ![c] = "failure"]
         \/ pc' = [pc EXCEPT ![c] = then]
      /\ failed' \in [Cpus -> Failures] /\ halted' \in BOOLEAN
  <2>1. esdm_sp80090b_failure \in {"startup", "runtime", "permanent"}
    BY Zenon DEF esdm_sp80090b_failure
  <2> QED
    BY <1>2, <2>1, Zenon DEF Verdict, Goto, HealthTypeOK
<1> QED
  BY <1>3, Zenon DEF HealthTypeOK, Places

(* The end of the handling of a failure.                                   *)
LEMMA HandleType ==
    ASSUME HealthTypeOK, NEW c \in Cpus, NEW l \in Places, NEW over \in BOOLEAN,
           Handle(c, l, over)
    PROVE  /\ pc' \in [Cpus -> Places] /\ failed' \in [Cpus -> Failures]
           /\ pc'[c] \in {l, "idle", "trigger", "result"} /\ (~over => pc'[c] = l)
           /\ \A d \in Cpus \ {c} : pc'[d] = pc[d]
<1>1. failed[c].then \in {"idle", "trigger", "result"}
  BY Zenon DEF HealthTypeOK, Failures
<1>2. pc' = [pc EXCEPT ![c] = IF over THEN failed[c].then ELSE l]
  BY Zenon DEF Handle, Goto
<1>3. failed' \in [Cpus -> Failures]
  <2>1. NoFailure \in Failures
    BY Zenon DEF NoFailure, Failures
  <2> QED
    BY <2>1, Zenon DEF Handle, HealthTypeOK
<1> QED
  BY <1>1, <1>2, <1>3, Zenon DEF HealthTypeOK, Places

(* Every access keeps the types.                                           *)
LEMMA TypeStep ==
    ASSUME HealthTypeOK, NEW c \in Cpus, esdm_health_test(c) \/ CpuStep(c)
    PROVE  HealthTypeOK'
<1> USE DEF params, shared, local, history
<1>1. CASE esdm_health_test(c)
  <2>1. pc' \in [Cpus -> Places]
    BY <1>1, GotoType, Zenon DEF esdm_health_test, Places
  <2>2. event' \in [Cpus -> Events]
    BY <1>1, Zenon DEF esdm_health_test, HealthTypeOK
  <2> QED
    BY <1>1, <2>1, <2>2, Zenon DEF esdm_health_test, HealthTypeOK
<1>2. CASE esdm_apt_insert(c)
  <2>1. pc' \in [Cpus -> Places] /\ failed' \in [Cpus -> Failures] /\ halted' \in BOOLEAN
    BY <1>2, GotoType, VerdictType, Zenon DEF esdm_apt_insert, HealthTypeOK, Places
  <2>2. event' \in [Cpus -> Events]
    BY <1>2, Zenon DEF esdm_apt_insert, HealthTypeOK, Events
  <2>3. aptCount' \in Nat /\ aptBaseSet' \in BOOLEAN
    <3>1. aptCount' = aptCount \/ aptCount' = aptCount + 1
      BY <1>2, Zenon DEF esdm_apt_insert
    <3>2. aptCount' \in Nat
      BY <3>1 DEF HealthTypeOK
    <3>3. aptBaseSet' \in BOOLEAN
      BY <1>2, Zenon DEF esdm_apt_insert, HealthTypeOK
    <3> QED
      BY <3>2, <3>3, Zenon
  <2> QED
    BY <1>2, <2>1, <2>2, <2>3, Zenon DEF esdm_apt_insert, HealthTypeOK
<1>3. CASE AptTrigger(c)
  <2>1. pc' \in [Cpus -> Places]
    BY <1>3, GotoType, Zenon DEF AptTrigger, Places
  <2>2. aptTrigger' \in 1..APT_WINDOW_SIZE /\ aptCount' \in Nat /\ clean' \in 0..StartupSamples
    BY <1>3, WindowSizes DEF AptTrigger, HealthTypeOK
  <2> QED
    BY <1>3, <2>1, <2>2, Zenon DEF AptTrigger, HealthTypeOK
<1>4. CASE esdm_sp80090b_startup(c)
  <2>1. pc' \in [Cpus -> Places]
    BY <1>4, GotoType, Zenon DEF esdm_sp80090b_startup, Places
  <2>2. blocks' \in LastBlock..STARTUP_BLOCKS
    BY <1>4, WindowSizes DEF esdm_sp80090b_startup, HealthTypeOK, LastBlock
  <2>3. overtaken' \in BOOLEAN
    BY <1>4, Zenon DEF esdm_sp80090b_startup
  <2> QED
    BY <1>4, <2>1, <2>2, <2>3, Zenon DEF esdm_sp80090b_startup, HealthTypeOK
<1>5. CASE StartupDone(c)
  <2>1. pc' \in [Cpus -> Places]
    BY <1>5, GotoType, Zenon DEF StartupDone, Places
  <2> QED
    BY <1>5, <2>1, Zenon DEF StartupDone, HealthTypeOK
<1>6. CASE esdm_sp80090b_startup_failure(c)
  <2>1. pc' \in [Cpus -> Places] /\ failed' \in [Cpus -> Failures]
    BY <1>6, HandleType, Zenon DEF esdm_sp80090b_startup_failure, Places
  <2>2. blocks' \in LastBlock..STARTUP_BLOCKS /\ clean' \in 0..StartupSamples
    BY <1>6, WindowSizes DEF esdm_sp80090b_startup_failure, LastBlock
  <2>3. staleWindow' \in BOOLEAN
    BY <1>6, Zenon DEF esdm_sp80090b_startup_failure, MissesWindow
  <2> QED
    BY <1>6, <2>1, <2>2, <2>3, Zenon DEF esdm_sp80090b_startup_failure, HealthTypeOK
<1>7. CASE esdm_sp80090b_runtime_failure(c)
  <2>1. pc' \in [Cpus -> Places] /\ failed' \in [Cpus -> Failures]
    BY <1>7, HandleType, Zenon DEF esdm_sp80090b_runtime_failure, Places
  <2> QED
    BY <1>7, <2>1, Zenon DEF esdm_sp80090b_runtime_failure, HealthTypeOK
<1>8. CASE esdm_sp80090b_permanent_failure(c)
  <2>1. pc' \in [Cpus -> Places] /\ failed' \in [Cpus -> Failures]
    BY <1>8, HandleType, Zenon DEF esdm_sp80090b_permanent_failure, Places
  <2>2. rctCount' \in Nat /\ aptCount' \in Nat /\ aptTrigger' \in 1..APT_WINDOW_SIZE
    BY <1>8, WindowSizes DEF esdm_sp80090b_permanent_failure
  <2> QED
    BY <1>8, <2>1, <2>2, Zenon DEF esdm_sp80090b_permanent_failure, HealthTypeOK
<1>9. CASE esdm_rct(c)
  <2>1. pc' \in [Cpus -> Places] /\ failed' \in [Cpus -> Failures] /\ halted' \in BOOLEAN
    BY <1>9, GotoType, VerdictType, Zenon DEF esdm_rct, HealthTypeOK, Places
  <2>2. rctCount' \in Nat
    BY <1>9 DEF esdm_rct, HealthTypeOK
  <2> QED
    BY <1>9, <2>1, <2>2, Zenon DEF esdm_rct, HealthTypeOK
<1>10. CASE Return(c)
  <2>1. pc' \in [Cpus -> Places]
    BY <1>10, GotoType, Zenon DEF Return, Places
  <2>2. [same |-> FALSE, stuck |-> FALSE] \in Events
    BY Zenon DEF Events
  <2>3. event' \in [Cpus -> Events]
    BY <1>10, <2>2, Zenon DEF Return, HealthTypeOK
  <2> QED
    BY <1>10, <2>1, <2>3, Zenon DEF Return, HealthTypeOK
<1> QED
  BY <1>1, <1>2, <1>3, <1>4, <1>5, <1>6, <1>7, <1>8, <1>9, <1>10, Zenon DEF CpuStep

-----------------------------------------------------------------------------
(* The gate *)

(* The counters as numbers.                                                *)
LEMMA Numbers ==
    ASSUME HealthTypeOK
    PROVE  /\ blocks \in Int /\ blocks <= STARTUP_BLOCKS
           /\ aptTrigger \in Nat /\ 1 <= aptTrigger /\ aptTrigger <= APT_WINDOW_SIZE
           /\ clean \in Nat /\ clean <= StartupSamples
           /\ Cardinality(Booking) \in Nat /\ Ended \in Int /\ Booking \in SUBSET Cpus
<1>1. /\ blocks \in Int /\ blocks <= STARTUP_BLOCKS
      /\ aptTrigger \in Nat /\ 1 <= aptTrigger /\ aptTrigger <= APT_WINDOW_SIZE
      /\ clean \in Nat /\ clean <= StartupSamples
  BY WindowSizes DEF HealthTypeOK, LastBlock
<1>2. Booking \in SUBSET Cpus
  BY Zenon DEF Booking
<1>3. Cardinality(Booking) \in Nat
  BY <1>2, FewCpus, Zenon
<1>4. Ended \in Int
  BY <1>1, <1>3, WindowSizes DEF Ended
<1> QED
  BY <1>1, <1>2, <1>3, <1>4, Zenon

(* A CPU that neither books a window nor goes to open the gate, nor leaves *)
(* a failure that will shut it, changes nothing for the gate.              *)
LEMMA GateQuiet ==
    ASSUME HealthInv, HealthTypeOK', NEW c \in Cpus,
           UNCHANGED <<done, blocks, clean, staleWindow>>, aptTrigger <= aptTrigger',
           pc[c] \notin {"startup", "undone"}, pc'[c] \notin {"startup", "done"},
           \A d \in Cpus \ {c} : pc'[d] = pc[d]
    PROVE  WindowInv' /\ StartupEarned'
<1>1. Booking' = Booking
  BY Zenon DEF Booking
<1>2. Ended' = Ended
  BY <1>1, Zenon DEF Ended
<1>3. Covered => Covered'
  <2>1. aptTrigger \in Nat /\ aptTrigger' \in Nat /\ clean \in Nat /\ Ended \in Int
    BY Numbers DEF HealthInv, HealthTypeOK
  <2>2. Ended * APT_WINDOW_SIZE \in Int
    BY <2>1, WindowSizes, Zenon
  <2> QED
    BY <1>2, <2>1, <2>2 DEF Covered
<1>4. StartupSamples' = StartupSamples
  BY Zenon DEF StartupSamples
<1>5. \A d \in Cpus : pc'[d] = "done" => pc[d] = "done"
  BY Zenon
<1>6. \A d \in Cpus : pc[d] = "undone" => pc'[d] = "undone"
  BY Zenon
<1>7. WindowInv'
  BY <1>3, <1>4, <1>5, Zenon DEF HealthInv, WindowInv
<1>8. StartupEarned'
  BY <1>4, <1>6, Zenon DEF HealthInv, StartupEarned
<1> QED
  BY <1>7, <1>8, Zenon

(* A time stamp taken by the adaptive proportion test; it may end a window *)
(* (the calls of esdm_apt_restart() and esdm_apt_reset()).                 *)
LEMMA GateTrigger ==
    ASSUME HealthInv, HealthTypeOK', NEW c \in Cpus, AptTrigger(c)
    PROVE  WindowInv' /\ StartupEarned'
<1> DEFINE T == Ended * APT_WINDOW_SIZE
<1>1. /\ UNCHANGED <<done, blocks, staleWindow>> /\ pc[c] = "trigger"
      /\ clean' = IF clean < StartupSamples THEN clean + 1 ELSE clean
      /\ pc' = [pc EXCEPT ![c] = IF aptTrigger = 1 THEN "startup" ELSE "rct"]
      /\ aptTrigger' = IF aptTrigger = 1 THEN APT_WINDOW_SIZE ELSE aptTrigger - 1
  BY Zenon DEF AptTrigger, Goto
<1>2. /\ Ended \in Int /\ T \in Int /\ clean \in Nat /\ clean <= StartupSamples
      /\ aptTrigger \in Nat /\ APT_WINDOW_SIZE \in Nat /\ StartupSamples \in Nat
      /\ blocks \in Int /\ STARTUP_BLOCKS \in Int /\ Cardinality(Booking) \in Nat
  BY Numbers, WindowSizes DEF HealthInv
<1>3. /\ pc'[c] = IF aptTrigger = 1 THEN "startup" ELSE "rct"
      /\ \A d \in Cpus \ {c} : pc'[d] = pc[d]
  BY <1>1, Zenon DEF HealthInv, HealthTypeOK
<1>4. Covered /\ clean < StartupSamples => Covered'
  <2>1. CASE aptTrigger = 1
    <3>1. Booking' = Booking \cup {c} /\ c \notin Booking
      BY <1>1, <1>3, <2>1, Zenon DEF Booking
    <3>2. Cardinality(Booking') = Cardinality(Booking) + 1
      BY <3>1, OneMore, Numbers, Zenon DEF HealthInv
    <3>3. Ended' = Ended + 1
      BY <1>1, <1>2, <3>2 DEF Ended
    <3>4. Ended' * APT_WINDOW_SIZE = T + APT_WINDOW_SIZE
      BY <1>2, <3>3, WindowSizes, Zenon
    <3> HIDE DEF T
    <3> QED
      BY <1>1, <1>2, <2>1, <3>4 DEF Covered, T
  <2>2. CASE aptTrigger # 1
    <3>0. pc'[c] # "startup" /\ pc[c] # "startup"
      BY <1>1, <1>3, <2>2
    <3>1. Booking' = Booking
      BY <1>3, <3>0, Zenon DEF Booking
    <3>2. Ended' = Ended
      BY <1>1, <3>1, Zenon DEF Ended
    <3>3. Ended' * APT_WINDOW_SIZE = T
      BY <3>2, Zenon
    <3> HIDE DEF T
    <3> QED
      BY <1>1, <1>2, <2>2, <3>3 DEF Covered, T
  <2> QED
    BY <2>1, <2>2, Zenon
<1>5. StartupSamples' = StartupSamples
  BY Zenon DEF StartupSamples
<1>6. clean = StartupSamples => clean' = StartupSamples
  BY <1>1, <1>2
<1>7. ~(clean < StartupSamples) => clean = StartupSamples
  BY <1>2
<1>8. \A d \in Cpus : /\ pc'[d] = "done" => pc[d] = "done"
                      /\ pc[d] = "undone" => pc'[d] = "undone"
  BY <1>1, <1>3
<1>9. WindowInv'
  <2> HIDE DEF T
  <2> QED
    BY <1>1, <1>4, <1>5, <1>6, <1>7, <1>8, Zenon DEF HealthInv, WindowInv
<1>10. StartupEarned'
  BY <1>1, <1>5, <1>6, <1>8, Zenon DEF HealthInv, StartupEarned
<1> QED
  BY <1>9, <1>10, Zenon

(* A window is booked in the counter of startup blocks; the last one is    *)
(* booked only after a whole startup test.                                 *)
LEMMA GateBooking ==
    ASSUME HealthInv, HealthTypeOK', NEW c \in Cpus, esdm_sp80090b_startup(c)
    PROVE  WindowInv' /\ StartupEarned'
<1> DEFINE T == Ended * APT_WINDOW_SIZE
<1>1. /\ UNCHANGED <<done, aptTrigger, clean, staleWindow>> /\ pc[c] = "startup"
      /\ blocks' = IF done \/ blocks = LastBlock THEN blocks ELSE blocks - 1
      /\ pc' = [pc EXCEPT ![c] = IF ~done /\ blocks = 1 THEN "done" ELSE "rct"]
  BY Zenon DEF esdm_sp80090b_startup, Goto
<1>2. /\ Ended \in Int /\ T \in Int /\ clean \in Nat /\ clean <= StartupSamples
      /\ aptTrigger \in Nat /\ APT_WINDOW_SIZE \in Nat /\ StartupSamples \in Nat
      /\ aptTrigger <= APT_WINDOW_SIZE
      /\ blocks \in Int /\ STARTUP_BLOCKS \in Int /\ Cardinality(Booking) \in Nat
  BY Numbers, WindowSizes DEF HealthInv
<1>3. /\ pc'[c] = IF ~done /\ blocks = 1 THEN "done" ELSE "rct"
      /\ \A d \in Cpus \ {c} : pc'[d] = pc[d]
  BY <1>1, Zenon DEF HealthInv, HealthTypeOK
<1>4. Cardinality(Booking) = Cardinality(Booking') + 1 /\ Cardinality(Booking') \in Nat
  <2>1. pc'[c] # "startup"
    BY <1>3, Zenon
  <2>2. Booking = Booking' \cup {c} /\ c \notin Booking' /\ Booking' \in SUBSET Cpus
    BY <1>1, <1>3, <2>1, Zenon DEF Booking
  <2> QED
    BY <2>2, OneMore, FewCpus, Zenon
<1>5. Ended' = Ended \/ Ended' = Ended - 1
  BY <1>1, <1>2, <1>4 DEF Ended
<1>6. Covered => Covered'
  <2>1. Ended' * APT_WINDOW_SIZE <= T /\ Ended' * APT_WINDOW_SIZE \in Int
    BY <1>2, <1>5, WindowSizes
  <2> HIDE DEF T
  <2> QED
    BY <1>1, <1>2, <2>1 DEF Covered, T
<1>7. Covered /\ blocks = 1 => clean = StartupSamples
  <2> SUFFICES ASSUME Covered, blocks = 1
               PROVE  clean = StartupSamples
    BY Zenon
  <2>1. STARTUP_BLOCKS <= Ended
    BY <1>2, <1>4 DEF Ended
  <2>2. STARTUP_BLOCKS * APT_WINDOW_SIZE <= T
    BY <1>2, <2>1, WindowSizes, Zenon
  <2>3. StartupSamples = STARTUP_BLOCKS * APT_WINDOW_SIZE - APT_WINDOW_SIZE + 1
    BY <1>2, WindowSizes, Zenon DEF StartupSamples
  <2>4. STARTUP_BLOCKS * APT_WINDOW_SIZE \in Int
    BY <1>2, WindowSizes, Zenon
  <2> HIDE DEF T
  <2> QED
    BY <1>2, <2>2, <2>3, <2>4 DEF Covered, T
<1>8. StartupSamples' = StartupSamples
  BY DEF StartupSamples
<1>9. \A d \in Cpus : /\ pc'[d] = "done" => pc[d] = "done" \/ blocks = 1
                      /\ pc[d] = "undone" => pc'[d] = "undone"
  BY <1>1, <1>3
<1>10. WindowInv'
  <2> HIDE DEF T
  <2> QED
    BY <1>1, <1>6, <1>7, <1>8, <1>9, Zenon DEF HealthInv, WindowInv
<1>11. StartupEarned'
  BY <1>1, <1>8, <1>9, Zenon DEF HealthInv, StartupEarned
<1> QED
  BY <1>10, <1>11

(* The gate is opened: sp80090b_startup_done is stored.                    *)
LEMMA GateOpened ==
    ASSUME HealthInv, HealthTypeOK', NEW c \in Cpus, StartupDone(c)
    PROVE  WindowInv' /\ StartupEarned'
<1>1. /\ UNCHANGED <<blocks, aptTrigger, clean, staleWindow>> /\ pc[c] = "done"
      /\ pc' = [pc EXCEPT ![c] = "rct"]
  BY Zenon DEF StartupDone, Goto, history
<1>2. pc'[c] = "rct" /\ \A d \in Cpus \ {c} : pc'[d] = pc[d]
  BY <1>1, Zenon DEF HealthInv, HealthTypeOK
<1>3. Booking' = Booking
  BY <1>1, <1>2, Zenon DEF Booking
<1>4. Covered' = Covered
  BY <1>1, <1>3, Zenon DEF Covered, Ended
<1>5. StartupSamples' = StartupSamples
  BY DEF StartupSamples
<1>6. \A d \in Cpus : pc'[d] = "done" => pc[d] = "done"
  BY <1>2, Zenon
<1>7. WindowInv'
  BY <1>1, <1>4, <1>5, <1>6, Zenon DEF HealthInv, WindowInv
<1>8. StartupEarned'
  BY <1>1, <1>5, Zenon DEF HealthInv, WindowInv, StartupEarned
<1> QED
  BY <1>7, <1>8

(* A failure sets the counter back: nothing taken before it counts, unless *)
(* it missed a window.                                                     *)
LEMMA GateFailure ==
    ASSUME HealthInv, HealthTypeOK', NEW c \in Cpus, esdm_sp80090b_startup_failure(c)
    PROVE  WindowInv' /\ StartupEarned'
<1>1. /\ done' = done /\ aptTrigger' = aptTrigger /\ clean' = 0 /\ blocks' = STARTUP_BLOCKS
      /\ staleWindow' = MissesWindow(c)
      /\ Handle(c, "undone", failed[c].kind = "startup")
  BY Zenon DEF esdm_sp80090b_startup_failure
<1>2. /\ pc'[c] \in {"undone", "idle", "trigger", "result"}
      /\ failed[c].kind # "startup" => pc'[c] = "undone"
      /\ \A d \in Cpus \ {c} : pc'[d] = pc[d]
  <2>1. "undone" \in Places /\ (failed[c].kind = "startup") \in BOOLEAN /\ HealthTypeOK
    BY Zenon DEF Places, HealthInv
  <2> QED
    BY <1>1, <2>1, HandleType, Zenon
<1> SUFFICES ASSUME ~staleWindow'
             PROVE  WindowInv' /\ StartupEarned'
  BY Zenon DEF WindowInv, StartupEarned
<1>3. /\ \A d \in Cpus \ {c} : pc[d] \notin {"startup", "done"}
      /\ failed[c].kind = "startup" => ~done
  BY <1>1, Zenon DEF MissesWindow
<1>4. \A d \in Cpus : pc'[d] \notin {"startup", "done"}
  <2>1. pc'[c] \notin {"startup", "done"}
    BY <1>2, Zenon
  <2> QED
    BY <1>2, <1>3, <2>1, Zenon
<1>5. Covered'
  <2>1. Booking' = {}
    BY <1>4, Zenon DEF Booking
  <2>2. Cardinality(Booking') = 0
    BY <2>1, NoneLeft, Zenon
  <2>3. Ended' = 0
    BY <1>1, <2>2, WindowSizes DEF Ended
  <2>4. aptTrigger \in Nat /\ 1 <= aptTrigger
    BY Numbers, Zenon DEF HealthInv
  <2>5. Ended' * APT_WINDOW_SIZE = 0
    BY <2>3, WindowSizes
  <2> QED
    BY <1>1, <2>4, <2>5 DEF Covered
<1>6. WindowInv'
  BY <1>4, <1>5, Zenon DEF WindowInv
<1>7. StartupEarned'
  BY <1>1, <1>2, <1>3, Zenon DEF StartupEarned
<1> QED
  BY <1>6, <1>7, Zenon

(* A failure at runtime shuts the gate.                                    *)
LEMMA GateShut ==
    ASSUME HealthInv, HealthTypeOK', NEW c \in Cpus, esdm_sp80090b_runtime_failure(c)
    PROVE  WindowInv' /\ StartupEarned'
<1>1. /\ UNCHANGED <<blocks, aptTrigger, clean, staleWindow>> /\ pc[c] = "undone"
      /\ done' = FALSE /\ Handle(c, "restart", failed[c].kind # "permanent")
  BY Zenon DEF esdm_sp80090b_runtime_failure, history
<1>2. /\ pc'[c] \in {"restart", "idle", "trigger", "result"}
      /\ \A d \in Cpus \ {c} : pc'[d] = pc[d]
  <2>1. "restart" \in Places /\ (failed[c].kind # "permanent") \in BOOLEAN /\ HealthTypeOK
    BY Zenon DEF Places, HealthInv
  <2> QED
    BY <1>1, <2>1, HandleType, Zenon
<1>3. pc'[c] \notin {"startup", "done"}
  BY <1>2, Zenon
<1>4. Booking' = Booking
  BY <1>1, <1>2, <1>3, Zenon DEF Booking
<1>5. Covered' = Covered
  BY <1>1, <1>4, Zenon DEF Covered, Ended
<1>6. StartupSamples' = StartupSamples
  BY Zenon DEF StartupSamples
<1>7. WindowInv'
  <2>1. \A d \in Cpus : pc'[d] = "done" => pc[d] = "done"
    BY <1>2, <1>3, Zenon
  <2> QED
    BY <1>1, <1>5, <1>6, <2>1, Zenon DEF HealthInv, WindowInv
<1>8. StartupEarned'
  BY <1>1, Zenon DEF StartupEarned
<1> QED
  BY <1>7, <1>8, Zenon

(* Every access of a CPU keeps the invariant.                              *)
LEMMA GateStep ==
    ASSUME HealthInv, HealthTypeOK', NEW c \in Cpus, esdm_health_test(c) \/ CpuStep(c)
    PROVE  WindowInv' /\ StartupEarned'
<1> USE DEF params, shared, local, history
<1>0. HealthTypeOK
  BY Zenon DEF HealthInv
<1>1. CASE esdm_health_test(c)
  <2>1. /\ UNCHANGED <<done, blocks, clean, staleWindow, aptTrigger>>
        /\ pc[c] = "idle" /\ pc' = [pc EXCEPT ![c] = "apt"]
    BY <1>1, Zenon DEF esdm_health_test, Goto
  <2>2. pc'[c] = "apt" /\ \A d \in Cpus \ {c} : pc'[d] = pc[d]
    BY <1>0, <2>1, Zenon DEF HealthTypeOK
  <2>3. aptTrigger <= aptTrigger'
    BY <1>0, <2>1, Numbers
  <2>4. pc[c] \notin {"startup", "undone"} /\ pc'[c] \notin {"startup", "done"}
    BY <2>1, <2>2, Zenon
  <2> QED
    BY <2>1, <2>2, <2>3, <2>4, GateQuiet, Zenon
<1>2. CASE esdm_apt_insert(c)
  <2>1. UNCHANGED <<done, blocks, clean, staleWindow, aptTrigger>> /\ pc[c] = "apt"
    BY <1>2, Zenon DEF esdm_apt_insert
  <2>2. \/ \E l \in {"rct", "trigger"} : Goto(c, l)
        \/ Verdict(c, aptCount + 1, APT_CUTOFF, APT_CUTOFF_PERMANENT, "trigger")
    BY <1>2, Zenon DEF esdm_apt_insert
  <2>3. pc'[c] \in {"apt", "failure", "trigger", "rct"} /\ \A d \in Cpus \ {c} : pc'[d] = pc[d]
    <3>1. CASE \E l \in {"rct", "trigger"} : Goto(c, l)
      BY <1>0, <3>1, Zenon DEF Goto, HealthTypeOK
    <3>2. CASE Verdict(c, aptCount + 1, APT_CUTOFF, APT_CUTOFF_PERMANENT, "trigger")
      <4>1. pc'[c] \in {pc[c], "failure", "trigger"} /\ \A d \in Cpus \ {c} : pc'[d] = pc[d]
        BY <1>0, <3>2, VerdictType, Zenon
      <4> QED
        BY <2>1, <4>1, Zenon
    <3> QED
      BY <2>2, <3>1, <3>2, Zenon
  <2>4. aptTrigger <= aptTrigger'
    BY <1>0, <2>1, Numbers
  <2>5. pc[c] \notin {"startup", "undone"} /\ pc'[c] \notin {"startup", "done"}
    BY <2>1, <2>3, Zenon
  <2> QED
    BY <2>1, <2>3, <2>4, <2>5, GateQuiet, Zenon
<1>3. CASE AptTrigger(c)
  BY <1>3, GateTrigger, Zenon
<1>4. CASE esdm_sp80090b_startup(c)
  BY <1>4, GateBooking, Zenon
<1>5. CASE StartupDone(c)
  BY <1>5, GateOpened, Zenon
<1>6. CASE esdm_sp80090b_startup_failure(c)
  BY <1>6, GateFailure, Zenon
<1>7. CASE esdm_sp80090b_runtime_failure(c)
  BY <1>7, GateShut, Zenon
<1>8. CASE esdm_sp80090b_permanent_failure(c)
  <2>1. /\ UNCHANGED <<done, blocks, clean, staleWindow>> /\ pc[c] = "restart"
        /\ aptTrigger' = APT_WINDOW_SIZE /\ Handle(c, "idle", TRUE)
    BY <1>8, Zenon DEF esdm_sp80090b_permanent_failure
  <2>2. pc'[c] \in {"idle", "trigger", "result"} /\ \A d \in Cpus \ {c} : pc'[d] = pc[d]
    <3>1. "idle" \in Places
      BY Zenon DEF Places
    <3>2. /\ pc'[c] \in {"idle", "idle", "trigger", "result"}
          /\ \A d \in Cpus \ {c} : pc'[d] = pc[d]
      BY <1>0, <2>1, <3>1, HandleType, Zenon
    <3> QED
      BY <3>2, Zenon
  <2>3. aptTrigger <= aptTrigger'
    BY <1>0, <2>1, Numbers, Zenon
  <2>4. pc[c] \notin {"startup", "undone"} /\ pc'[c] \notin {"startup", "done"}
    BY <2>1, <2>2, Zenon
  <2> QED
    BY <2>1, <2>2, <2>3, <2>4, GateQuiet, Zenon
<1>9. CASE esdm_rct(c)
  <2>1. UNCHANGED <<done, blocks, clean, staleWindow, aptTrigger>> /\ pc[c] = "rct"
    BY <1>9, Zenon DEF esdm_rct
  <2>2. \/ Goto(c, "result")
        \/ Verdict(c, rctCount + 1, RCT_CUTOFF, RCT_CUTOFF_PERMANENT, "result")
    BY <1>9, Zenon DEF esdm_rct
  <2>3. pc'[c] \in {"rct", "failure", "result"} /\ \A d \in Cpus \ {c} : pc'[d] = pc[d]
    <3>1. CASE Goto(c, "result")
      BY <1>0, <3>1, Zenon DEF Goto, HealthTypeOK
    <3>2. CASE Verdict(c, rctCount + 1, RCT_CUTOFF, RCT_CUTOFF_PERMANENT, "result")
      <4>1. pc'[c] \in {pc[c], "failure", "result"} /\ \A d \in Cpus \ {c} : pc'[d] = pc[d]
        BY <1>0, <3>2, VerdictType, Zenon
      <4> QED
        BY <2>1, <4>1, Zenon
    <3> QED
      BY <2>2, <3>1, <3>2, Zenon
  <2>4. aptTrigger <= aptTrigger'
    BY <1>0, <2>1, Numbers
  <2>5. pc[c] \notin {"startup", "undone"} /\ pc'[c] \notin {"startup", "done"}
    BY <2>1, <2>3, Zenon
  <2> QED
    BY <2>1, <2>3, <2>4, <2>5, GateQuiet, Zenon
<1>10. CASE Return(c)
  <2>1. /\ UNCHANGED <<done, blocks, clean, staleWindow, aptTrigger>>
        /\ pc[c] = "result" /\ pc' = [pc EXCEPT ![c] = "idle"]
    BY <1>10, Zenon DEF Return, Goto
  <2>2. pc'[c] = "idle" /\ \A d \in Cpus \ {c} : pc'[d] = pc[d]
    BY <1>0, <2>1, Zenon DEF HealthTypeOK
  <2>3. aptTrigger <= aptTrigger'
    BY <1>0, <2>1, Numbers
  <2>4. pc[c] \notin {"startup", "undone"} /\ pc'[c] \notin {"startup", "done"}
    BY <2>1, <2>2, Zenon
  <2> QED
    BY <2>1, <2>2, <2>3, <2>4, GateQuiet, Zenon
<1> QED
  BY <1>1, <1>2, <1>3, <1>4, <1>5, <1>6, <1>7, <1>8, <1>9, <1>10, Zenon DEF CpuStep

-----------------------------------------------------------------------------
(* The initial state satisfies the invariant (ESDM_HEALTH_ES_INIT): no     *)
(* window has ended, and the gate is shut.                                 *)
LEMMA HealthInit0 == Init => HealthInv
<1> SUFFICES ASSUME Init
             PROVE  HealthInv
  BY Zenon
<1>1. HealthTypeOK
  <2>1. [same |-> FALSE, stuck |-> FALSE] \in Events /\ NoFailure \in Failures /\ "idle" \in Places
    BY Zenon DEF Events, Failures, NoFailure, Places
  <2>2. /\ pc \in [Cpus -> Places] /\ event \in [Cpus -> Events]
        /\ failed \in [Cpus -> Failures]
    BY <2>1, Zenon DEF Init
  <2>3. /\ blocks \in LastBlock..STARTUP_BLOCKS /\ aptTrigger \in 1..APT_WINDOW_SIZE
        /\ clean \in 0..StartupSamples /\ aptCount \in Nat /\ rctCount \in Nat
    BY WindowSizes DEF Init, HealthInit, LastBlock
  <2> QED
    BY <2>2, <2>3, Zenon DEF Init, HealthInit, HealthTypeOK
<1>2. \A c \in Cpus : pc[c] \notin {"startup", "done"}
  BY Zenon DEF Init
<1>3. Covered
  <2>1. Booking = {}
    BY <1>2, Zenon DEF Booking
  <2>2. Cardinality(Booking) = 0
    BY <2>1, NoneLeft, Zenon
  <2>3. Ended = 0
    BY <2>2, WindowSizes DEF Ended, Init, HealthInit
  <2>4. Ended * APT_WINDOW_SIZE = 0
    BY <2>3, WindowSizes
  <2> QED
    BY <2>4, WindowSizes DEF Covered, Init, HealthInit
<1>4. WindowInv
  BY <1>2, <1>3, Zenon DEF WindowInv
<1>5. StartupEarned
  BY Zenon DEF StartupEarned, Init, HealthInit
<1> QED
  BY <1>1, <1>4, <1>5, Zenon DEF HealthInv

(* The inductive invariant of the health tests: types, the windows that    *)
(* have ended since the last failure, and the gate.                        *)
THEOREM HealthInvariant == Spec => []HealthInv
<1>1. HealthInv /\ [Next]_vars => HealthInv'
  <2> SUFFICES ASSUME HealthInv, [Next]_vars
               PROVE  HealthInv'
    BY Zenon
  <2>1. ASSUME NEW c \in Cpus, esdm_health_test(c) \/ CpuStep(c)
        PROVE  HealthInv'
    <3>1. HealthTypeOK'
      BY <2>1, TypeStep, Zenon DEF HealthInv
    <3>2. WindowInv' /\ StartupEarned'
      BY <2>1, <3>1, GateStep, Zenon
    <3> QED
      BY <3>1, <3>2, Zenon DEF HealthInv
  <2>2. CASE UNCHANGED vars
    BY <2>2 DEF vars, params, shared, local, history, HealthInv, HealthTypeOK, WindowInv,
       StartupEarned, Covered, Ended, Booking
  <2> QED
    BY <2>1, <2>2, Zenon DEF Next
<1> QED
  BY <1>1, HealthInit0, PTL DEF Spec

(* The type invariant of the health tests.                                 *)
THEOREM HealthTypeCorrect == Spec => []HealthTypeOK
BY HealthInvariant, PTL DEF HealthInv

(* After a failed health test the gate of esdm_sp80090b_startup_complete   *)
(* opens only behind a whole startup test of new time stamps, for any      *)
(* number of CPUs, unless the failure missed a window that had ended       *)
(* before it.                                                              *)
THEOREM StartupEarnedCorrect == Spec => []StartupEarned
BY HealthInvariant, PTL DEF HealthInv

-----------------------------------------------------------------------------
(* The data array                                                          *)

CONSTANTS ESDM_DATA_NUM_VALUES, ESDM_DATA_SLOTS_PER_UINT, MaxCounted
VARIABLES source, highres, gcdTested, array, ptr, counted, hashed, words, lost

Array == INSTANCE EsdmKernelArray

(* The array has more slots than a unit (64 and 4, or 1, in                *)
(* esdm_es_timer_common.h).                                                *)
ArrayHypotheses ==
    /\ ESDM_DATA_NUM_VALUES \in Nat /\ ESDM_DATA_SLOTS_PER_UINT \in Nat \ {0}
    /\ ESDM_DATA_SLOTS_PER_UINT < ESDM_DATA_NUM_VALUES
    /\ MaxCounted \in Nat

(* The types of the array while data is added.                             *)
IsStore(st) ==
    st \in [a : [Array!Slots -> {"stamp", "other"}], p : Array!Slots, h : Nat, w : BOOLEAN, l : BOOLEAN]

(* The time stamps that a read would put into the hash now.                *)
Total(st) == st.h + Array!Stamps(st.a)

(* No stamp lies ahead of the pointer of the interrupt source, which       *)
(* hashes the array when it is full.                                       *)
NoneAhead(st) ==
    \A i \in Array!Slots : i > st.p \/ st.p = Array!ESDM_DATA_WORD_MASK => st.a[i] = "other"

(* The two readings of Cardinality are the same for the slots as well.     *)
LEMMA StampsCount ==
    \A a : Array!Stamps(a) = Finite!Cardinality({i \in Array!Slots : a[i] = "stamp"})
<1>1. \A S : Array!Cardinality(S) = Finite!Cardinality(S)
  BY Zenon DEF Array!Cardinality, Finite!Cardinality
<1> QED BY <1>1, Zenon DEF Array!Stamps

(* The slots are as many as the array has.                                 *)
LEMMA SlotsFinite ==
    ASSUME ArrayHypotheses
    PROVE  Finite!IsFiniteSet(Array!Slots) /\ Finite!Cardinality(Array!Slots) = ESDM_DATA_NUM_VALUES
<1>1. 0 \in Int /\ ESDM_DATA_NUM_VALUES - 1 \in Int /\ ESDM_DATA_NUM_VALUES > 0
  BY DEF ArrayHypotheses
<1>2. /\ Finite!IsFiniteSet(0..(ESDM_DATA_NUM_VALUES - 1))
      /\ Finite!Cardinality(0..(ESDM_DATA_NUM_VALUES - 1)) =
           IF 0 > ESDM_DATA_NUM_VALUES - 1 THEN 0 ELSE (ESDM_DATA_NUM_VALUES - 1) - 0 + 1
  BY <1>1, Finite!FS_Interval, Zenon
<1> QED BY <1>1, <1>2 DEF Array!Slots, ArrayHypotheses

(* The stamps of an array are a number, with its extremes.                 *)
LEMMA StampsNumber ==
    ASSUME ArrayHypotheses, NEW a
    PROVE  /\ Finite!IsFiniteSet({i \in Array!Slots : a[i] = "stamp"}) /\ Array!Stamps(a) \in Nat
           /\ (\A i \in Array!Slots : a[i] = "other") => Array!Stamps(a) = 0
           /\ (\A i \in Array!Slots : a[i] = "stamp") => Array!Stamps(a) = ESDM_DATA_NUM_VALUES
<1> DEFINE T == {i \in Array!Slots : a[i] = "stamp"}
<1>1. Finite!IsFiniteSet(T)
  <2>1. T \in SUBSET Array!Slots BY Zenon
  <2> HIDE DEF T
  <2> QED BY <2>1, SlotsFinite, Finite!FS_Subset, Zenon
<1>2. Array!Stamps(a) = Finite!Cardinality(T) BY StampsCount, Zenon
<1>3. Array!Stamps(a) \in Nat BY <1>1, <1>2, Finite!FS_CardinalityType, Zenon
<1>4. ASSUME \A i \in Array!Slots : a[i] = "other" PROVE Array!Stamps(a) = 0
  <2>1. T = {} BY <1>4, Zenon
  <2> QED BY <1>2, <2>1, Finite!FS_EmptySet, Zenon
<1>5. ASSUME \A i \in Array!Slots : a[i] = "stamp" PROVE Array!Stamps(a) = ESDM_DATA_NUM_VALUES
  <2>1. T = Array!Slots BY <1>5, Zenon
  <2> QED BY <1>2, <2>1, SlotsFinite, Zenon
<1> QED BY <1>1, <1>3, <1>4, <1>5, Zenon

(* Arrays with their stamps in the same slots have as many.                *)
LEMMA StampsSame ==
    ASSUME NEW a, NEW b, \A i \in Array!Slots : a[i] = "stamp" <=> b[i] = "stamp"
    PROVE  Array!Stamps(a) = Array!Stamps(b)
<1>1. {i \in Array!Slots : a[i] = "stamp"} = {i \in Array!Slots : b[i] = "stamp"} BY Zenon
<1> QED BY <1>1, Zenon DEF Array!Stamps

(* One slot more that holds a stamp is one stamp more.                     *)
LEMMA StampsMore ==
    ASSUME ArrayHypotheses, NEW a, NEW b, NEW p \in Array!Slots, a[p] # "stamp", b[p] = "stamp",
           \A i \in Array!Slots : i # p => (a[i] = "stamp" <=> b[i] = "stamp")
    PROVE  Array!Stamps(b) = Array!Stamps(a) + 1
<1> DEFINE T == {i \in Array!Slots : a[i] = "stamp"}
           U == {i \in Array!Slots : b[i] = "stamp"}
<1>1. Finite!IsFiniteSet(T) /\ p \notin T BY StampsNumber, Zenon
<1>2. U = T \cup {p} BY Zenon
<1>3. Array!Stamps(a) = Finite!Cardinality(T) /\ Array!Stamps(b) = Finite!Cardinality(U) BY StampsCount, Zenon
<1> HIDE DEF T, U
<1>4. Finite!Cardinality(T \cup {p}) = Finite!Cardinality(T) + 1 BY <1>1, Finite!FS_AddElement, Zenon
<1> QED BY <1>2, <1>3, <1>4, Zenon

(* The pointer moves on by one slot or by a unit, and                      *)
(* esdm_data_split_u32() finds the place where a word begins.              *)
LEMMA Steps ==
    ASSUME ArrayHypotheses, NEW p \in Array!Slots
    PROVE  /\ Array!ArrayMask(p + 1) = IF p = Array!ESDM_DATA_WORD_MASK THEN 0 ELSE p + 1
           /\ Array!ArrayMask(p + 1) \in Array!Slots
           /\ LET q == Array!ArrayMask(p + ESDM_DATA_SLOTS_PER_UINT) IN
              /\ q \in Array!Slots
              /\ q = IF p + ESDM_DATA_SLOTS_PER_UINT < ESDM_DATA_NUM_VALUES
                     THEN p + ESDM_DATA_SLOTS_PER_UINT
                     ELSE p + ESDM_DATA_SLOTS_PER_UINT - ESDM_DATA_NUM_VALUES
              /\ Array!ArrayMask(q + ESDM_DATA_NUM_VALUES - ESDM_DATA_SLOTS_PER_UINT) = p
<1>1. \A n, i \in Nat : n > 0 /\ i < n => i % n = i OBVIOUS
<1>2. \A n, i \in Nat : n > 0 /\ i >= n /\ i < 2 * n => i % n = i - n OBVIOUS
<1>3. \A n, s, i \in Nat : s < n /\ i < n =>
        (i + s) % n = IF i + s < n THEN i + s ELSE i + s - n
  BY <1>1, <1>2
<1>4. \A n, s, i \in Nat : s < n /\ i < n =>
        ((IF i + s < n THEN i + s ELSE i + s - n) + n - s) % n = i
  <2> TAKE n, s, i \in Nat
  <2> HAVE s < n /\ i < n
  <2>1. (i + n) % n = i /\ i % n = i BY <1>1, <1>2
  <2>2. (i + s) + n - s = i + n /\ (i + s - n) + n - s = i OBVIOUS
  <2> QED BY <2>1, <2>2, Zenon
<1> DEFINE n == ESDM_DATA_NUM_VALUES
           s == ESDM_DATA_SLOTS_PER_UINT
<1>5. n \in Nat /\ s \in Nat /\ 1 \in Nat /\ 1 < n /\ s < n /\ p \in Nat /\ p < n
  BY DEF ArrayHypotheses, Array!Slots
<1>6. (p + 1) % n = IF p + 1 < n THEN p + 1 ELSE p + 1 - n BY <1>3, <1>5, Zenon
<1>7. (p + s) % n = IF p + s < n THEN p + s ELSE p + s - n BY <1>3, <1>5, Zenon
<1>8. (((p + s) % n) + n - s) % n = p BY <1>4, <1>5, <1>7, Zenon
<1> HIDE DEF n, s
<1>9. /\ (p + 1) % n = IF p = n - 1 THEN 0 ELSE p + 1
      /\ (p + 1) % n \in 0..(n - 1) /\ (p + s) % n \in 0..(n - 1)
  BY <1>5, <1>6, <1>7
<1> QED BY <1>7, <1>8, <1>9, Zenon DEF n, s, Array!Slots, Array!ArrayMask, Array!ESDM_DATA_WORD_MASK

(* Where the slots of a unit lie: those behind the beginning of a word,    *)
(* and those of the next unit.                                             *)
LEMMA Units ==
    ASSUME ArrayHypotheses, NEW p \in Array!Slots
    PROVE  /\ \A j \in Array!UnitOf(p) : Array!esdm_data_idx2slot(j) >= Array!esdm_data_idx2slot(p) => j >= p
           /\ \A q \in Array!Slots : q = p + ESDM_DATA_SLOTS_PER_UINT => \A j \in Array!UnitOf(q) : j > p
           /\ p \in Array!UnitOf(p)
<1>1. \A n, i, j \in Nat : n > 0 /\ j \div n = (i + n) \div n => j > i OBVIOUS
<1>2. \A n, i, j \in Nat : n > 0 /\ j \div n = i \div n /\ j % n >= i % n => j >= i
  <2> TAKE n, i, j \in Nat
  <2>1. n > 0 => i = n * (i \div n) + (i % n) /\ j = n * (j \div n) + (j % n) OBVIOUS
  <2>2. n > 0 => i % n \in Nat /\ j % n \in Nat /\ i \div n \in Nat /\ j \div n \in Nat OBVIOUS
  <2> QED BY <2>1, <2>2
<1>3. \A i \in Array!Slots : i \in Nat BY DEF Array!Slots, ArrayHypotheses
<1> QED BY <1>1, <1>2, <1>3 DEF ArrayHypotheses, Array!UnitOf, Array!esdm_data_idx2array, Array!esdm_data_idx2slot

(* The fields of a store.                                                  *)
LEMMA StoreFields ==
    ASSUME NEW st, IsStore(st)
    PROVE  /\ st.a \in [Array!Slots -> {"stamp", "other"}] /\ st.p \in Array!Slots /\ st.h \in Nat
           /\ st.w \in BOOLEAN /\ st.l \in BOOLEAN
           /\ DOMAIN st = {"a", "p", "h", "w", "l"}
BY Zenon DEF IsStore

(* Hashing the array loses no stamp, up to the bound of the count.         *)
LEMMA HashedIs ==
    ASSUME ArrayHypotheses, NEW st, IsStore(st)
    PROVE  /\ IsStore(Array!Hashed(st)) /\ \A i \in Array!Slots : Array!Hashed(st).a[i] = "other"
           /\ Array!Hashed(st).p = st.p /\ Array!Hashed(st).w = st.w /\ Array!Hashed(st).l = st.l
           /\ \A n \in Nat : n <= Total(st) /\ n <= MaxCounted => n <= Total(Array!Hashed(st))
<1>1. Array!Stamps(st.a) \in Nat /\ MaxCounted \in Nat BY StampsNumber, Zenon DEF ArrayHypotheses
<1>2. /\ IsStore(Array!Hashed(st)) /\ \A i \in Array!Slots : Array!Hashed(st).a[i] = "other"
      /\ Array!Hashed(st).p = st.p /\ Array!Hashed(st).w = st.w /\ Array!Hashed(st).l = st.l
      /\ Array!Hashed(st).h = IF st.h + Array!Stamps(st.a) < MaxCounted THEN st.h + Array!Stamps(st.a) ELSE MaxCounted
  <2> DEFINE h == IF st.h + Array!Stamps(st.a) < MaxCounted THEN st.h + Array!Stamps(st.a) ELSE MaxCounted
             b == [i \in Array!Slots |-> "other"]
  <2>1. h \in Nat BY <1>1, StoreFields
  <2>2. b \in [Array!Slots -> {"stamp", "other"}] /\ \A i \in Array!Slots : b[i] = "other" BY Zenon
  <2>3. Array!Hashed(st) = [st EXCEPT !.a = b, !.h = h] BY Zenon DEF Array!Hashed
  <2> HIDE DEF h, b
  <2>4. /\ IsStore(Array!Hashed(st)) /\ Array!Hashed(st).a = b /\ Array!Hashed(st).h = h
        /\ Array!Hashed(st).p = st.p /\ Array!Hashed(st).w = st.w /\ Array!Hashed(st).l = st.l
    BY <2>1, <2>2, <2>3, Zenon DEF IsStore
  <2> QED BY <2>2, <2>4, Zenon DEF h
<1>3. Array!Stamps(Array!Hashed(st).a) = 0 BY <1>2, StampsNumber, Zenon
<1>4. Array!Hashed(st).h \in Nat BY <1>2, StoreFields, Zenon
<1>5. Total(Array!Hashed(st)) = Array!Hashed(st).h BY <1>3, <1>4 DEF Total
<1> QED BY <1>1, <1>2, <1>5, Zenon DEF Total

(* A stamp in a slot.                                                      *)
LEMMA SlotIs ==
    ASSUME ArrayHypotheses, NEW st, IsStore(st)
    PROVE  LET r == Array!esdm_sched_array_add_slot(st)
               p == Array!ArrayMask(st.p + 1)
           IN  /\ IsStore(r) /\ r.p = p /\ r.h = st.h /\ r.w = st.w /\ r.l = st.l
               /\ p \in Array!Slots /\ r.a[p] = "stamp"
               /\ \A i \in Array!Slots : i # p => r.a[i] = st.a[i]
               /\ st.a[p] = "other" => Total(r) = Total(st) + 1
<1> DEFINE p == Array!ArrayMask(st.p + 1)
           r == Array!esdm_sched_array_add_slot(st)
<1>1. p \in Array!Slots BY StoreFields, Steps, Zenon
<1>2. r = [st EXCEPT !.p = p, !.a[p] = "stamp"] BY Zenon DEF Array!esdm_sched_array_add_slot
<1> HIDE DEF p, r
<1>3. /\ IsStore(r) /\ r.p = p /\ r.h = st.h /\ r.w = st.w /\ r.l = st.l
      /\ r.a = [st.a EXCEPT ![p] = "stamp"]
  BY <1>1, <1>2, Zenon DEF IsStore
<1>4. r.a[p] = "stamp" /\ \A i \in Array!Slots : i # p => r.a[i] = st.a[i]
  BY <1>1, <1>3, StoreFields
<1>5. ASSUME st.a[p] = "other" PROVE Total(r) = Total(st) + 1
  <2>1. Array!Stamps(r.a) = Array!Stamps(st.a) + 1 BY <1>1, <1>4, <1>5, StampsMore
  <2>2. st.h \in Nat /\ Array!Stamps(st.a) \in Nat BY StampsNumber, StoreFields, Zenon
  <2> QED BY <1>3, <2>1, <2>2 DEF Total
<1> QED BY <1>1, <1>3, <1>4, <1>5, Zenon DEF p, r

(* A stamp in a slot of the interrupt source.                              *)
LEMMA IrqSlotIs ==
    ASSUME ArrayHypotheses, NEW st, IsStore(st), NoneAhead(st)
    PROVE  LET r == Array!esdm_irq_array_add_slot(st)
           IN  /\ IsStore(r) /\ NoneAhead(r) /\ r.l = st.l
               /\ \A n \in Nat : n <= Total(st) + 1 /\ n <= MaxCounted => n <= Total(r)
<1> DEFINE s == Array!esdm_sched_array_add_slot(st)
           p == Array!ArrayMask(st.p + 1)
           r == Array!esdm_irq_array_add_slot(st)
<1>1. /\ IsStore(s) /\ s.p = p /\ s.l = st.l /\ p \in Array!Slots
      /\ \A i \in Array!Slots : i # p => s.a[i] = st.a[i]
      /\ st.a[p] = "other" => Total(s) = Total(st) + 1
  BY SlotIs, Zenon
<1>2. r = IF p >= Array!ESDM_DATA_WORD_MASK THEN Array!Hashed(s) ELSE s
  BY Zenon DEF Array!esdm_irq_array_add_slot, Array!esdm_irq_array_to_hash
<1>3. st.p \in Array!Slots /\ p = (IF st.p = Array!ESDM_DATA_WORD_MASK THEN 0 ELSE st.p + 1) BY StoreFields, Steps, Zenon
<1> HIDE DEF r, s, p
<1>4. st.a[p] = "other" BY <1>1, <1>3 DEF NoneAhead, Array!Slots, ArrayHypotheses
<1>5. CASE p >= Array!ESDM_DATA_WORD_MASK
  <2>1. /\ IsStore(r) /\ \A i \in Array!Slots : r.a[i] = "other"
        /\ r.l = s.l /\ \A n \in Nat : n <= Total(s) /\ n <= MaxCounted => n <= Total(r)
    BY <1>1, <1>2, <1>5, HashedIs, Zenon
  <2>2. NoneAhead(r) BY <2>1, Zenon DEF NoneAhead
  <2> QED BY <1>1, <1>4, <2>1, <2>2, Zenon DEF r
<1>6. CASE ~(p >= Array!ESDM_DATA_WORD_MASK)
  <2>1. NoneAhead(s)
    BY <1>1, <1>3, <1>6 DEF NoneAhead, Array!Slots, ArrayHypotheses, Array!ESDM_DATA_WORD_MASK
  <2> QED BY <1>1, <1>2, <1>4, <1>6, <2>1, Zenon DEF r
<1> QED BY <1>5, <1>6, Zenon

(* The first part of a word is in the array.                               *)
WordBegun(st, first, r) ==
    /\ IsStore(r) /\ r.p = st.p /\ r.h = st.h /\ r.w = TRUE /\ r.a[st.p] = first
    /\ \A j \in Array!Slots : j < st.p => r.a[j] = st.a[j]
    /\ \A j \in Array!Slots : j > st.p => r.a[j] = st.a[j] \/ r.a[j] = "other"
    /\ r.l = FALSE => st.l = FALSE /\ st.a[st.p] = "other"

(* And its second part.                                                    *)
WordEnded(st, q, r) ==
    /\ IsStore(r) /\ r.p = q /\ r.h = st.h /\ r.w = st.w /\ (r.l = FALSE => st.l = FALSE)
    /\ \A j \in Array!Slots : r.a[j] = IF j \in Array!UnitOf(q) THEN "other" ELSE st.a[j]

(* Msb() does the first,                                                   *)
LEMMA MsbIs ==
    ASSUME ArrayHypotheses, NEW st, IsStore(st), NEW first \in {"stamp", "other"}
    PROVE  WordBegun(st, first, Array!Msb(st, st.p, first))
<1> DEFINE msb == {j \in Array!UnitOf(st.p) : Array!esdm_data_idx2slot(j) >= Array!esdm_data_idx2slot(st.p)}
           b == [j \in Array!Slots |-> IF j = st.p THEN first ELSE IF j \in msb THEN "other" ELSE st.a[j]]
           l == st.l \/ \E j \in msb : st.a[j] = "stamp"
           r == Array!Msb(st, st.p, first)
<1>1. r = [st EXCEPT !.w = TRUE, !.l = l, !.a = b] BY Zenon DEF Array!Msb
<1>2. st.a \in [Array!Slots -> {"stamp", "other"}] /\ st.p \in Array!Slots BY StoreFields, Zenon
<1>3. b \in [Array!Slots -> {"stamp", "other"}] BY <1>2, Zenon
<1>4. l \in BOOLEAN BY Zenon
<1>5. \A j \in msb : j >= st.p BY <1>2, Units, Zenon
<1>6. l = FALSE => st.l = FALSE /\ st.a[st.p] = "other"
  <2>1. st.p \in Array!UnitOf(st.p) /\ st.a[st.p] \in {"stamp", "other"} BY <1>2, Units, Zenon
  <2>2. Array!esdm_data_idx2slot(st.p) >= Array!esdm_data_idx2slot(st.p)
    BY <1>2 DEF Array!esdm_data_idx2slot, ArrayHypotheses, Array!Slots
  <2> QED BY <2>1, <2>2
<1>7. \A j \in Array!Slots : b[j] = IF j = st.p THEN first ELSE IF j \in msb THEN "other" ELSE st.a[j]
  BY Zenon
<1> HIDE DEF b, l, msb, r
<1>8. /\ IsStore(r) /\ r.p = st.p /\ r.h = st.h /\ r.w = TRUE /\ r.a = b /\ r.l = l
  BY <1>1, <1>3, <1>4, Zenon DEF IsStore
<1>9. \A j \in Array!Slots : j < st.p => j \notin msb /\ j # st.p
  BY <1>2, <1>5 DEF Array!Slots, ArrayHypotheses
<1>10. \A j \in Array!Slots : j > st.p => j # st.p
  BY <1>2 DEF Array!Slots, ArrayHypotheses
<1> QED BY <1>2, <1>6, <1>7, <1>8, <1>9, <1>10, Zenon DEF WordBegun, r

(* and Lsb() the second.                                                   *)
LEMMA LsbIs ==
    ASSUME ArrayHypotheses, NEW st, IsStore(st), NEW q \in Array!Slots
    PROVE  WordEnded(st, q, Array!Lsb(st, q))
<1> DEFINE b == [j \in Array!Slots |-> IF j \in Array!UnitOf(q) THEN "other" ELSE st.a[j]]
           l == st.l \/ \E j \in Array!UnitOf(q) : st.a[j] = "stamp"
           r == Array!Lsb(st, q)
<1>1. r = [st EXCEPT !.p = q, !.l = l, !.a = b] BY Zenon DEF Array!Lsb
<1>2. st.a \in [Array!Slots -> {"stamp", "other"}] BY StoreFields, Zenon
<1>3. b \in [Array!Slots -> {"stamp", "other"}] BY <1>2, Zenon
<1>4. l \in BOOLEAN BY Zenon
<1>5. \A j \in Array!Slots : b[j] = IF j \in Array!UnitOf(q) THEN "other" ELSE st.a[j] BY Zenon
<1>6. l = FALSE => st.l = FALSE OBVIOUS
<1> HIDE DEF b, l, r
<1>7. /\ IsStore(r) /\ r.p = q /\ r.h = st.h /\ r.w = st.w /\ r.a = b /\ r.l = l
  BY <1>1, <1>3, <1>4, Zenon DEF IsStore
<1> QED BY <1>5, <1>6, <1>7, Zenon DEF WordEnded, r

(* A word of the interrupt source, _esdm_irq_array_add_u32(): it           *)
(* overwrites at most the stamp that the pointer shows, and the pointer    *)
(* then shows no stamp.                                                    *)
LEMMA IrqWordIs ==
    ASSUME ArrayHypotheses, NEW st, IsStore(st), NoneAhead(st), NEW first \in {"stamp", "other"}
    PROVE  LET r == Array!_esdm_irq_array_add_u32(st, first)
           IN  /\ IsStore(r) /\ NoneAhead(r) /\ r.a[r.p] = "other"
               /\ r.l = FALSE => st.l = FALSE /\ st.a[st.p] = "other"
               /\ \A n \in Nat : n <= Total(st) /\ n <= MaxCounted /\ first = st.a[st.p] => n <= Total(r)
               /\ \A n \in Nat : n <= Total(st) + 1 /\ n <= MaxCounted /\ first = "stamp"
                                /\ st.a[st.p] = "other" => n <= Total(r)
<1> DEFINE p == st.p
           q == Array!ArrayMask(p + ESDM_DATA_SLOTS_PER_UINT)
           m == Array!Msb(st, p, first)
           r == Array!_esdm_irq_array_add_u32(st, first)
<1>1. /\ p \in Array!Slots /\ q \in Array!Slots
      /\ q = IF p + ESDM_DATA_SLOTS_PER_UINT < ESDM_DATA_NUM_VALUES
             THEN p + ESDM_DATA_SLOTS_PER_UINT
             ELSE p + ESDM_DATA_SLOTS_PER_UINT - ESDM_DATA_NUM_VALUES
      /\ Array!ArrayMask(q + ESDM_DATA_NUM_VALUES - ESDM_DATA_SLOTS_PER_UINT) = p
  BY StoreFields, Steps, Zenon
<1>2. r = IF p > q THEN Array!Lsb(Array!esdm_irq_array_to_hash(m, Array!ESDM_DATA_WORD_MASK), q)
          ELSE Array!esdm_irq_array_to_hash(Array!Lsb(m, q), q)
  BY <1>1, Zenon DEF Array!_esdm_irq_array_add_u32, Array!esdm_data_split_u32
<1>3. /\ IsStore(m) /\ m.p = p /\ m.h = st.h /\ m.w = TRUE /\ m.a[p] = first
      /\ \A j \in Array!Slots : j < p => m.a[j] = st.a[j]
      /\ \A j \in Array!Slots : j > p => m.a[j] = st.a[j] \/ m.a[j] = "other"
      /\ m.l = FALSE => st.l = FALSE /\ st.a[p] = "other"
  <2>1. WordBegun(st, first, m) BY MsbIs, Zenon
  <2> HIDE DEF m
  <2> QED BY <2>1, Zenon DEF WordBegun, p
<1>6. \A j \in Array!Slots : j > p => st.a[j] = "other" /\ m.a[j] = "other"
  BY <1>3, Zenon DEF NoneAhead
<1>7. \A j \in Array!Slots : j < p \/ j = p \/ j > p
  BY <1>1 DEF Array!Slots, ArrayHypotheses
<1>8. \A j \in Array!Slots : j # p => m.a[j] = st.a[j]
  BY <1>3, <1>6, <1>7, Zenon
<1>9. /\ Total(st) \in Nat /\ Total(m) \in Nat
      /\ first = st.a[p] => Total(m) = Total(st)
      /\ first = "stamp" /\ st.a[p] = "other" => Total(m) = Total(st) + 1
  <2>1. st.h \in Nat /\ Array!Stamps(st.a) \in Nat /\ Array!Stamps(m.a) \in Nat
    BY StampsNumber, StoreFields, Zenon
  <2>2. ASSUME first = st.a[p] PROVE Array!Stamps(m.a) = Array!Stamps(st.a)
    <3>1. \A j \in Array!Slots : m.a[j] = "stamp" <=> st.a[j] = "stamp" BY <1>3, <1>8, <2>2, Zenon
    <3> QED BY <3>1, StampsSame, Zenon
  <2>3. ASSUME first = "stamp", st.a[p] = "other" PROVE Array!Stamps(m.a) = Array!Stamps(st.a) + 1
    <3>1. st.a[p] # "stamp" BY <2>3, Zenon
    <3>2. m.a[p] = "stamp" BY <1>3, <2>3, Zenon
    <3>3. \A j \in Array!Slots : j # p => (st.a[j] = "stamp" <=> m.a[j] = "stamp") BY <1>8, Zenon
    <3> HIDE DEF m, p
    <3> QED BY <1>1, <3>1, <3>2, <3>3, StampsMore, Zenon
  <2>4. Total(m) = st.h + Array!Stamps(m.a) /\ Total(st) = st.h + Array!Stamps(st.a)
    BY <1>3, Zenon DEF Total
  <2> HIDE DEF m, p
  <2> QED BY <2>1, <2>2, <2>3, <2>4
<1> HIDE DEF p, q, m
<1>10. SUFFICES /\ IsStore(r) /\ NoneAhead(r) /\ r.a[r.p] = "other" /\ (r.l = FALSE => m.l = FALSE)
                /\ \A n \in Nat : n <= Total(m) /\ n <= MaxCounted => n <= Total(r)
  <2>1. ASSUME NEW n \in Nat, n <= Total(st), n <= MaxCounted, first = st.a[p] PROVE n <= Total(r)
    <3>1. n <= Total(m) BY <1>9, <2>1, Zenon
    <3> QED BY <1>10, <2>1, <3>1, Zenon
  <2>2. ASSUME NEW n \in Nat, n <= Total(st) + 1, n <= MaxCounted, first = "stamp", st.a[p] = "other"
        PROVE  n <= Total(r)
    <3>1. n <= Total(m) BY <1>9, <2>2, Zenon
    <3> QED BY <1>10, <2>2, <3>1, Zenon
  <2> QED BY <1>3, <1>10, <2>1, <2>2, Zenon DEF p
<1>11. ASSUME p > q
       PROVE  /\ IsStore(r) /\ NoneAhead(r) /\ r.a[r.p] = "other" /\ (r.l = FALSE => m.l = FALSE)
              /\ \A n \in Nat : n <= Total(m) /\ n <= MaxCounted => n <= Total(r)
  <2> DEFINE h == Array!Hashed(m)
  <2>1. /\ IsStore(h) /\ (\A i \in Array!Slots : h.a[i] = "other") /\ h.l = m.l
        /\ \A n \in Nat : n <= Total(m) /\ n <= MaxCounted => n <= Total(h)
    BY <1>3, HashedIs, Zenon
  <2>2. r = Array!Lsb(h, q)
    <3>1. Array!ESDM_DATA_WORD_MASK >= Array!ESDM_DATA_WORD_MASK BY DEF Array!ESDM_DATA_WORD_MASK, ArrayHypotheses
    <3> QED BY <1>2, <1>11, <3>1, Zenon DEF Array!esdm_irq_array_to_hash
  <2> HIDE DEF h, r
  <2>3. /\ IsStore(r) /\ r.p = q /\ r.h = h.h /\ r.w = h.w /\ (r.l = FALSE => h.l = FALSE)
        /\ \A j \in Array!Slots : r.a[j] = IF j \in Array!UnitOf(q) THEN "other" ELSE h.a[j]
    <3>1. WordEnded(h, q, r) BY <1>1, <2>1, <2>2, LsbIs, Zenon
    <3> QED BY <3>1, Zenon DEF WordEnded
  <2>4. \A j \in Array!Slots : r.a[j] = "other" /\ h.a[j] = "other" BY <2>1, <2>3, Zenon
  <2>5. Total(r) = Total(h)
    <3>1. \A j \in Array!Slots : r.a[j] = "stamp" <=> h.a[j] = "stamp" BY <2>4, Zenon
    <3>2. Array!Stamps(r.a) = Array!Stamps(h.a) BY <3>1, StampsSame, Zenon
    <3> QED BY <2>3, <3>2, Zenon DEF Total
  <2> QED BY <1>1, <2>1, <2>3, <2>4, <2>5, Zenon DEF NoneAhead
<1>12. ASSUME ~(p > q)
       PROVE  /\ IsStore(r) /\ NoneAhead(r) /\ r.a[r.p] = "other" /\ (r.l = FALSE => m.l = FALSE)
              /\ \A n \in Nat : n <= Total(m) /\ n <= MaxCounted => n <= Total(r)
  <2> DEFINE x == Array!Lsb(m, q)
  <2>1. q = p + ESDM_DATA_SLOTS_PER_UINT /\ q > p
    BY <1>1, <1>12 DEF ArrayHypotheses, Array!Slots
  <2>2. \A j \in Array!UnitOf(q) : j > p /\ j \in Array!Slots
    <3>1. \A j \in Array!UnitOf(q) : j > p BY <1>1, <2>1, Units, Zenon
    <3> QED BY <3>1, Zenon DEF Array!UnitOf
  <2>3. /\ IsStore(x) /\ x.p = q /\ x.h = m.h /\ x.w = m.w /\ (x.l = FALSE => m.l = FALSE)
        /\ \A j \in Array!Slots : x.a[j] = IF j \in Array!UnitOf(q) THEN "other" ELSE m.a[j]
    <3>1. WordEnded(m, q, x) BY <1>1, <1>3, LsbIs, Zenon
    <3> HIDE DEF x
    <3> QED BY <3>1, Zenon DEF WordEnded
  <2>4. \A j \in Array!Slots : j > p => x.a[j] = "other" BY <1>6, <2>3, Zenon
  <2>5. \A j \in Array!Slots : x.a[j] = m.a[j] BY <1>6, <2>2, <2>3, Zenon
  <2>6. Total(x) = Total(m)
    <3>1. \A j \in Array!Slots : x.a[j] = "stamp" <=> m.a[j] = "stamp" BY <2>5, Zenon
    <3>2. Array!Stamps(x.a) = Array!Stamps(m.a) BY <3>1, StampsSame, Zenon
    <3> QED BY <2>3, <3>2, Zenon DEF Total
  <2>7. x.l = FALSE => m.l = FALSE BY <2>3, Zenon
  <2>8. r = IF q >= Array!ESDM_DATA_WORD_MASK THEN Array!Hashed(x) ELSE x
    BY <1>2, <1>12, Zenon DEF Array!esdm_irq_array_to_hash
  <2>9. \A j \in Array!Slots : j > q => j > p BY <1>1, <2>1 DEF Array!Slots, ArrayHypotheses
  <2> HIDE DEF x, r
  <2>10. CASE q >= Array!ESDM_DATA_WORD_MASK
    <3>1. /\ IsStore(r) /\ (\A i \in Array!Slots : r.a[i] = "other") /\ r.p = q /\ r.l = x.l
          /\ \A n \in Nat : n <= Total(x) /\ n <= MaxCounted => n <= Total(r)
      BY <2>3, <2>8, <2>10, HashedIs, Zenon
    <3> QED BY <1>1, <2>6, <2>7, <3>1, Zenon DEF NoneAhead
  <2>11. CASE ~(q >= Array!ESDM_DATA_WORD_MASK)
    <3>1. r = x BY <2>8, <2>11, Zenon
    <3>2. q # Array!ESDM_DATA_WORD_MASK
      BY <1>1, <2>11 DEF Array!ESDM_DATA_WORD_MASK, Array!Slots, ArrayHypotheses
    <3>3. NoneAhead(r) BY <2>3, <2>4, <2>9, <3>1, <3>2, Zenon DEF NoneAhead
    <3> QED BY <1>1, <2>1, <2>3, <2>4, <2>6, <2>7, <3>1, <3>3, Zenon
  <2> QED BY <2>10, <2>11, Zenon
<1> QED BY <1>11, <1>12, Zenon

(* How far a slot lies behind the pointer, around the array.               *)
Back(i, p) == IF i <= p THEN p - i ELSE p - i + ESDM_DATA_NUM_VALUES

(* The stamps of the scheduler source lie in one run that ends at the      *)
(* pointer.                                                                *)
Run(a, p) ==
    \E k \in Nat : /\ k <= ESDM_DATA_NUM_VALUES
                  /\ \A i \in Array!Slots : a[i] = "stamp" <=> Back(i, p) < k

(* The types.                                                              *)
ArrayTypeOK ==
    /\ source \in {"irq", "sched"} /\ highres \in BOOLEAN /\ gcdTested \in BOOLEAN
    /\ IsStore(Array!Store) /\ counted \in Nat /\ counted <= MaxCounted

(* The count of the interrupt source is covered by stamps; and a first     *)
(* full stamp after a reset may overwrite one, which must not be counted   *)
(* then.                                                                   *)
IrqInv ==
    /\ NoneAhead(Array!Store)
    /\ highres \/ lost = FALSE => counted <= Total(Array!Store)
    /\ highres /\ ~gcdTested /\ array[ptr] = "stamp" => counted + 1 <= Total(Array!Store)

(* The count of the scheduler source is covered, up to the size of the     *)
(* array.                                                                  *)
SchedInv == words = FALSE => Run(array, ptr) /\ Array!Credited <= Total(Array!Store)

(* The inductive invariant of the array.                                   *)
ArrayInv == ArrayTypeOK /\ (source = "irq" => IrqInv) /\ (source = "sched" => SchedInv)

(* A store covers n events, unless a stamp was lost.                       *)
Covers(st, n) == IsStore(st) /\ NoneAhead(st) /\ (st.l = FALSE => n <= Total(st))

(* The total is a number, and positive when there is a stamp.              *)
LEMMA TotalNumber ==
    ASSUME ArrayHypotheses, NEW st, IsStore(st)
    PROVE  /\ Total(st) \in Nat
           /\ \A p \in Array!Slots : st.a[p] = "stamp" => Total(st) >= 1
<1>1. st.h \in Nat /\ Array!Stamps(st.a) \in Nat BY StampsNumber, StoreFields, Zenon
<1>2. Total(st) \in Nat BY <1>1 DEF Total
<1>3. ASSUME NEW p \in Array!Slots, st.a[p] = "stamp" PROVE Total(st) >= 1
  <2> DEFINE b == [st.a EXCEPT ![p] = "other"]
  <2>1. st.a \in [Array!Slots -> {"stamp", "other"}] BY StoreFields
  <2>2. b[p] # "stamp" /\ \A i \in Array!Slots : i # p => (b[i] = "stamp" <=> st.a[i] = "stamp")
    BY <2>1, Zenon
  <2> HIDE DEF b
  <2>3. Array!Stamps(st.a) = Array!Stamps(b) + 1 BY <1>3, <2>2, StampsMore, Zenon
  <2>4. Array!Stamps(b) \in Nat BY StampsNumber, Zenon
  <2> QED BY <1>1, <2>3, <2>4 DEF Total
<1> QED BY <1>2, <1>3, Zenon

(* A further word, which may only overwrite a stamp as a loss.             *)
LEMMA WordHeld ==
    ASSUME ArrayHypotheses, NEW st, NEW n \in Nat, Covers(st, n), n <= MaxCounted
    PROVE  Covers(Array!_esdm_irq_array_add_u32(st, "other"), n)
<1> DEFINE r == Array!_esdm_irq_array_add_u32(st, "other")
<1>1. IsStore(st) /\ NoneAhead(st) /\ (st.l = FALSE => n <= Total(st)) BY Zenon DEF Covers
<1>2. "other" \in {"stamp", "other"} BY Zenon
<1>3. /\ IsStore(r) /\ NoneAhead(r)
      /\ r.l = FALSE => st.l = FALSE /\ st.a[st.p] = "other"
      /\ \A m \in Nat : m <= Total(st) /\ m <= MaxCounted /\ "other" = st.a[st.p] => m <= Total(r)
  BY <1>1, <1>2, IrqWordIs, Zenon
<1> HIDE DEF r
<1>4. r.l \in BOOLEAN /\ st.l \in BOOLEAN BY <1>1, <1>3, StoreFields, Zenon
<1> QED BY <1>1, <1>3, <1>4, Zenon DEF Covers, r

(* The stamp of an event covers it.                                        *)
LEMMA StampHeld ==
    ASSUME ArrayHypotheses, NEW st, NEW n \in Nat, Covers(st, n), n + 1 <= MaxCounted,
           NEW health \in {"pass", "use", "drop"}
    PROVE  Covers(Array!esdm_time_process(st, health), IF health = "pass" THEN n + 1 ELSE n)
<1> DEFINE r == Array!esdm_time_process(st, health)
           t == IF health = "pass" THEN n + 1 ELSE n
<1>1. IsStore(st) /\ NoneAhead(st) /\ (st.l = FALSE => n <= Total(st)) BY Zenon DEF Covers
<1>2. Total(st) \in Nat /\ MaxCounted \in Nat BY <1>1, TotalNumber, Zenon DEF ArrayHypotheses
<1>3. t \in Nat /\ n + 1 \in Nat /\ t <= n + 1 /\ (health = "drop" => t = n) OBVIOUS
<1> HIDE DEF t
<1>4. SUFFICES Covers(r, t) BY Zenon DEF t
<1>5. CASE health = "drop"
  BY <1>1, <1>3, <1>5, Zenon DEF Array!esdm_time_process, Covers
<1>6. CASE health # "drop" /\ gcdTested
  <2>1. r = Array!esdm_irq_array_add_slot(st) BY <1>6, Zenon DEF Array!esdm_time_process
  <2> HIDE DEF r
  <2>2. /\ IsStore(r) /\ NoneAhead(r) /\ r.l = st.l
        /\ \A m \in Nat : m <= Total(st) + 1 /\ m <= MaxCounted => m <= Total(r)
    BY <1>1, <2>1, IrqSlotIs, Zenon
  <2>3. n <= Total(st) => t <= Total(st) + 1 /\ t <= MaxCounted BY <1>2, <1>3
  <2> QED BY <1>1, <1>3, <2>2, <2>3, Zenon DEF Covers
<1>7. CASE health # "drop" /\ ~gcdTested
  <2>1. r = Array!_esdm_irq_array_add_u32(st, "stamp") BY <1>7, Zenon DEF Array!esdm_time_process
  <2>2. "stamp" \in {"stamp", "other"} BY Zenon
  <2> HIDE DEF r
  <2>3. /\ IsStore(r) /\ NoneAhead(r)
        /\ r.l = FALSE => st.l = FALSE /\ st.a[st.p] = "other"
        /\ \A m \in Nat : m <= Total(st) + 1 /\ m <= MaxCounted /\ "stamp" = "stamp"
                         /\ st.a[st.p] = "other" => m <= Total(r)
    BY <1>1, <2>1, <2>2, IrqWordIs, Zenon
  <2>4. n <= Total(st) => t <= Total(st) + 1 /\ t <= MaxCounted BY <1>2, <1>3
  <2>5. r.l \in BOOLEAN /\ st.l \in BOOLEAN BY <1>1, <2>3, StoreFields, Zenon
  <2> QED BY <1>1, <1>3, <2>3, <2>4, <2>5, Zenon DEF Covers
<1> QED BY <1>5, <1>6, <1>7, Zenon

(* Becomes() makes the store of the next state.                            *)
LEMMA StoreBecomes ==
    ASSUME NEW st, IsStore(st), Array!Becomes(st)
    PROVE  Array!Store' = st
BY Zenon DEF IsStore, Array!Becomes, Array!Store

(* An interrupt with a high-resolution timer.                              *)
LEMMA FineStamp ==
    ASSUME ArrayHypotheses, ArrayTypeOK, IrqInv, highres, NEW health \in {"pass", "use", "drop"},
           Array!Event(health), Array!Becomes(Array!esdm_time_process(Array!Store, health))
    PROVE  IsStore(Array!Store') /\ IrqInv'
<1> DEFINE st == Array!Store
           r == Array!esdm_time_process(st, health)
<1>1. /\ IsStore(st) /\ NoneAhead(st) /\ counted \in Nat /\ counted <= Total(st)
      /\ ~gcdTested /\ st.a[st.p] = "stamp" => counted + 1 <= Total(st)
  BY Zenon DEF ArrayTypeOK, IrqInv, Array!Store
<1>2. /\ counted + 1 <= MaxCounted /\ counted + 1 \in Nat
      /\ counted' \in Nat /\ counted' <= counted + 1 /\ (health = "drop" => counted' = counted)
  BY <1>1 DEF Array!Event, ArrayHypotheses
<1>3. /\ gcdTested \in BOOLEAN /\ (gcdTested => gcdTested') /\ highres'
  BY Zenon DEF Array!Event, ArrayTypeOK
<1>4. Total(st) \in Nat /\ MaxCounted \in Nat BY <1>1, TotalNumber, Zenon DEF ArrayHypotheses
<1>5. SUFFICES /\ IsStore(r) /\ NoneAhead(r) /\ counted' <= Total(r)
               /\ ~gcdTested' /\ r.a[r.p] = "stamp" => counted' + 1 <= Total(r)
  <2>1. Array!Store' = r BY <1>5, StoreBecomes, Zenon
  <2>2. array' = (Array!Store').a /\ ptr' = (Array!Store').p BY Zenon DEF Array!Store
  <2> HIDE DEF r
  <2> QED BY <1>3, <1>5, <2>1, <2>2, Zenon DEF IrqInv
<1> HIDE DEF st
<1>6. CASE health = "drop"
  <2>1. r = st BY <1>6, Zenon DEF Array!esdm_time_process
  <2>2. counted' = counted BY <1>2, <1>6, Zenon
  <2> QED BY <1>1, <1>3, <2>1, <2>2, Zenon
<1>7. CASE health # "drop" /\ gcdTested
  <2>1. r = Array!esdm_irq_array_add_slot(st) BY <1>7, Zenon DEF Array!esdm_time_process
  <2> HIDE DEF r
  <2>2. /\ IsStore(r) /\ NoneAhead(r)
        /\ \A m \in Nat : m <= Total(st) + 1 /\ m <= MaxCounted => m <= Total(r)
    BY <1>1, <2>1, IrqSlotIs, Zenon
  <2>3. counted' <= Total(st) + 1 /\ counted' <= MaxCounted BY <1>1, <1>2, <1>4
  <2> QED BY <1>2, <1>3, <1>7, <2>2, <2>3, Zenon
<1>8. CASE health # "drop" /\ ~gcdTested
  <2>1. r = Array!_esdm_irq_array_add_u32(st, "stamp") BY <1>8, Zenon DEF Array!esdm_time_process
  <2>2. "stamp" \in {"stamp", "other"} /\ "stamp" # "other" BY Zenon
  <2> HIDE DEF r
  <2>3. /\ IsStore(r) /\ NoneAhead(r) /\ r.a[r.p] = "other"
        /\ \A m \in Nat : m <= Total(st) /\ m <= MaxCounted /\ "stamp" = st.a[st.p] => m <= Total(r)
        /\ \A m \in Nat : m <= Total(st) + 1 /\ m <= MaxCounted /\ "stamp" = "stamp"
                         /\ st.a[st.p] = "other" => m <= Total(r)
    BY <1>1, <2>1, <2>2, IrqWordIs, Zenon
  <2>4. st.a[st.p] \in {"stamp", "other"} BY <1>1, StoreFields
  <2>5. counted' <= MaxCounted /\ counted' <= Total(st) + 1
        /\ (counted + 1 <= Total(st) => counted' <= Total(st))
    BY <1>1, <1>2, <1>4
  <2>6. counted' <= Total(r)
    <3>1. CASE st.a[st.p] = "stamp" BY <1>1, <1>2, <1>8, <2>3, <2>5, <3>1, Zenon
    <3>2. CASE st.a[st.p] = "other" BY <1>2, <2>3, <2>5, <3>2, Zenon
    <3> QED BY <2>4, <3>1, <3>2, Zenon
  <2> QED BY <2>2, <2>3, <2>6, Zenon
<1> QED BY <1>6, <1>7, <1>8, Zenon

(* An interrupt without one, with words around the stamp.                  *)
LEMMA CoarseStamp ==
    ASSUME ArrayHypotheses, ArrayTypeOK, IrqInv, ~highres, NEW health \in {"pass", "use", "drop"},
           Array!Event(health), NEW before, before \in {Array!Store, Array!_esdm_irq_array_add_u32(Array!Store, "other")},
           Array!Becomes(Array!_esdm_irq_array_add_u32(Array!esdm_time_process(before, health), "other"))
    PROVE  IsStore(Array!Store') /\ IrqInv'
<1> DEFINE t == IF health = "pass" THEN counted + 1 ELSE counted
           s == Array!esdm_time_process(before, health)
           r == Array!_esdm_irq_array_add_u32(s, "other")
<1>1. IsStore(Array!Store) /\ NoneAhead(Array!Store) /\ (lost = FALSE => counted <= Total(Array!Store)) /\ counted \in Nat
  BY Zenon DEF ArrayTypeOK, IrqInv
<1>2. Covers(Array!Store, counted)
  <2>1. Array!Store.l = lost BY Zenon DEF Array!Store
  <2> QED BY <1>1, <2>1, Zenon DEF Covers
<1>3. counted' = t /\ counted + 1 <= MaxCounted /\ counted <= MaxCounted /\ t <= MaxCounted /\ t \in Nat
      /\ highres' = highres
  BY <1>1 DEF Array!Event, ArrayHypotheses
<1>4. Covers(before, counted) BY <1>1, <1>2, <1>3, WordHeld, Zenon
<1>5. Covers(s, t) BY <1>1, <1>3, <1>4, StampHeld, Zenon
<1> HIDE DEF t, s
<1>6. Covers(r, t) BY <1>3, <1>5, WordHeld, Zenon
<1> HIDE DEF r
<1>7. Array!Store' = r BY <1>6, StoreBecomes, Zenon DEF Covers, r, s
<1>8. lost' = (Array!Store').l BY Zenon DEF Array!Store
<1> QED BY <1>3, <1>6, <1>7, <1>8, Zenon DEF Covers, IrqInv

(* An interrupt keeps ArrayInv.                                            *)
LEMMA InterruptKept ==
    ASSUME ArrayHypotheses, ArrayInv, Array!esdm_add_interrupt_randomness
    PROVE  ArrayInv'
<1>1. source = "irq" /\ IrqInv /\ ArrayTypeOK BY Zenon DEF ArrayInv, Array!esdm_add_interrupt_randomness
<1> DEFINE Word(st) == Array!_esdm_irq_array_add_u32(st, "other")
           Before(regs) == IF ~highres /\ regs THEN Word(Array!Store) ELSE Array!Store
<1>2. PICK health \in {"pass", "use", "drop"} : \E regs \in BOOLEAN :
        /\ Array!Becomes(IF highres THEN Array!esdm_time_process(Before(regs), health)
                   ELSE Word(Array!esdm_time_process(Before(regs), health)))
        /\ Array!Event(health)
  BY Zenon DEF Array!esdm_add_interrupt_randomness
<1>3. PICK regs \in BOOLEAN :
        /\ Array!Becomes(IF highres THEN Array!esdm_time_process(Before(regs), health)
                   ELSE Word(Array!esdm_time_process(Before(regs), health)))
        /\ Array!Event(health)
  BY <1>2, Zenon
<1>4. IsStore(Array!Store') /\ IrqInv'
  <2>1. CASE highres
    <3>1. Array!Becomes(Array!esdm_time_process(Array!Store, health)) BY <1>3, <2>1, Zenon
    <3> QED BY <1>1, <1>3, <2>1, <3>1, FineStamp, Zenon
  <2>2. CASE ~highres
    <3>1. Before(regs) \in {Array!Store, Word(Array!Store)} BY Zenon
    <3>2. Array!Becomes(Word(Array!esdm_time_process(Before(regs), health))) BY <1>3, <2>2, Zenon
    <3> HIDE DEF Before
    <3> QED BY <1>1, <1>3, <2>2, <3>1, <3>2, CoarseStamp, Zenon
  <2> QED BY <2>1, <2>2, Zenon
<1>5. source' = source /\ highres' = highres /\ gcdTested' \in BOOLEAN BY <1>3, Zenon DEF Array!Event
<1>6. counted' \in Nat /\ counted' <= MaxCounted BY <1>1, <1>3 DEF Array!Event, ArrayTypeOK, ArrayHypotheses
<1>7. "irq" # "sched" BY Zenon
<1> QED BY <1>1, <1>4, <1>5, <1>6, <1>7, Zenon DEF ArrayInv, ArrayTypeOK

(* How the pointer moves away from the slots behind it.                    *)
LEMMA Backs ==
    ASSUME ArrayHypotheses, NEW p \in Array!Slots
    PROVE  LET q == Array!ArrayMask(p + 1) IN
           /\ \A i \in Array!Slots : Back(i, p) \in Nat /\ Back(i, p) < ESDM_DATA_NUM_VALUES
           /\ \A i \in Array!Slots : i # q => Back(i, q) = Back(i, p) + 1
           /\ Back(q, q) = 0 /\ Back(q, p) = ESDM_DATA_NUM_VALUES - 1
<1> DEFINE q == Array!ArrayMask(p + 1)
<1>1. q = (IF p = Array!ESDM_DATA_WORD_MASK THEN 0 ELSE p + 1) /\ q \in Array!Slots BY Steps, Zenon
<1> HIDE DEF q
<1>2. /\ \A i \in Array!Slots : Back(i, p) \in Nat /\ Back(i, p) < ESDM_DATA_NUM_VALUES
      /\ \A i \in Array!Slots : i # q => Back(i, q) = Back(i, p) + 1
      /\ Back(q, q) = 0 /\ Back(q, p) = ESDM_DATA_NUM_VALUES - 1
  BY <1>1 DEF Back, Array!Slots, Array!ESDM_DATA_WORD_MASK, ArrayHypotheses
<1> QED BY <1>2, Zenon DEF q

(* A stamp of the scheduler source makes the run longer, until it is the   *)
(* whole array.                                                            *)
LEMMA SlotRun ==
    ASSUME ArrayHypotheses, NEW st, IsStore(st), Run(st.a, st.p)
    PROVE  LET r == Array!esdm_sched_array_add_slot(st)
           IN  /\ Run(r.a, r.p)
               /\ Total(r) = Total(st) + 1 \/ Total(r) >= ESDM_DATA_NUM_VALUES
<1> DEFINE r == Array!esdm_sched_array_add_slot(st)
           p == st.p
           q == Array!ArrayMask(p + 1)
           N == ESDM_DATA_NUM_VALUES
<1>1. /\ IsStore(r) /\ r.p = q /\ q \in Array!Slots /\ r.a[q] = "stamp"
      /\ \A i \in Array!Slots : i # q => r.a[i] = st.a[i]
      /\ st.a[q] = "other" => Total(r) = Total(st) + 1
  BY SlotIs, Zenon
<1>2. p \in Array!Slots /\ st.a[q] \in {"stamp", "other"} BY <1>1, StoreFields
<1>3. PICK k \in Nat : k <= N /\ \A i \in Array!Slots : st.a[i] = "stamp" <=> Back(i, p) < k
  BY Zenon DEF Run
<1>4. /\ \A i \in Array!Slots : Back(i, p) \in Nat /\ Back(i, p) < N
      /\ \A i \in Array!Slots : i # q => Back(i, q) = Back(i, p) + 1
      /\ Back(q, q) = 0 /\ Back(q, p) = N - 1
  BY <1>2, Backs, Zenon
<1>5. N \in Nat /\ 0 < N BY DEF ArrayHypotheses
<1> HIDE DEF r, q, p, N
<1>6. CASE k = N
  <2>1. \A i \in Array!Slots : st.a[i] = "stamp" BY <1>3, <1>4, <1>6, Zenon
  <2>2. \A i \in Array!Slots : r.a[i] = "stamp" BY <1>1, <2>1, Zenon
  <2>3. \A i \in Array!Slots : Back(i, q) \in Nat /\ Back(i, q) < N
    BY <1>1, Backs, Zenon DEF N
  <2>4. Run(r.a, q) BY <1>5, <2>2, <2>3 DEF Run, N
  <2>5. Array!Stamps(r.a) = N BY <2>2, StampsNumber, Zenon DEF N
  <2>6. r.h \in Nat BY <1>1, StoreFields, Zenon
  <2>7. Total(r) >= N BY <1>5, <2>5, <2>6 DEF Total
  <2> QED BY <1>1, <2>4, <2>7, Zenon DEF r, N
<1>7. CASE k # N
  <2>1. k + 1 \in Nat /\ k + 1 <= N /\ ~(N - 1 < k) BY <1>3, <1>5, <1>7
  <2>2. st.a[q] = "other" BY <1>1, <1>2, <1>3, <1>4, <2>1, Zenon
  <2>3. \A i \in Array!Slots : i # q => (Back(i, q) < k + 1 <=> Back(i, p) < k) BY <1>4
  <2>4. Back(q, q) < k + 1 BY <1>4
  <2>5. \A i \in Array!Slots : r.a[i] = "stamp" <=> Back(i, q) < k + 1
    BY <1>1, <1>3, <2>3, <2>4, Zenon
  <2>6. Run(r.a, q) BY <2>1, <2>5, Zenon DEF Run, N
  <2> QED BY <1>1, <2>2, <2>6, Zenon DEF r
<1> QED BY <1>6, <1>7, Zenon

(* A word of the scheduler source is noted.                                *)
LEMMA SchedWordIs ==
    ASSUME ArrayHypotheses, NEW st, IsStore(st), NEW first \in {"stamp", "other"}
    PROVE  LET r == Array!esdm_sched_array_add_u32(st, first) IN IsStore(r) /\ r.w = TRUE
<1> DEFINE p == st.p
           q == Array!ArrayMask(p + ESDM_DATA_SLOTS_PER_UINT)
           m == Array!Msb(st, p, first)
           r == Array!esdm_sched_array_add_u32(st, first)
<1>1. /\ q \in Array!Slots /\ Array!ArrayMask(q + ESDM_DATA_NUM_VALUES - ESDM_DATA_SLOTS_PER_UINT) = p
  BY StoreFields, Steps, Zenon
<1>2. r = Array!Lsb(m, q)
  BY <1>1, Zenon DEF Array!esdm_sched_array_add_u32, Array!esdm_data_split_u32
<1>3. WordBegun(st, first, m) BY MsbIs, Zenon
<1> HIDE DEF m, q
<1>4. IsStore(m) /\ m.w = TRUE BY <1>3, Zenon DEF WordBegun
<1>5. WordEnded(m, q, r) BY <1>1, <1>2, <1>4, LsbIs, Zenon
<1> QED BY <1>4, <1>5, Zenon DEF WordEnded

(* An event of the scheduler keeps ArrayInv.                               *)
LEMMA ScheduleKept ==
    ASSUME ArrayHypotheses, ArrayInv, Array!esdm_sched_randomness
    PROVE  ArrayInv'
<1>1. source = "sched" /\ SchedInv /\ ArrayTypeOK BY Zenon DEF ArrayInv, Array!esdm_sched_randomness
<1>2. PICK health \in {"pass", "use", "drop"} :
        /\ Array!Becomes(IF highres THEN Array!esdm_sched_time_process(Array!Store, health)
                   ELSE Array!esdm_sched_array_add_u32(Array!esdm_sched_time_process(Array!Store, health), "other"))
        /\ Array!Event(health)
  BY Zenon DEF Array!esdm_sched_randomness
<1> DEFINE s == Array!esdm_sched_time_process(Array!Store, health)
           r == IF highres THEN s ELSE Array!esdm_sched_array_add_u32(s, "other")
           Credit(c) == IF c < ESDM_DATA_NUM_VALUES THEN c ELSE ESDM_DATA_NUM_VALUES
<1>3. IsStore(Array!Store) /\ counted \in Nat /\ highres \in BOOLEAN /\ gcdTested \in BOOLEAN BY <1>1, Zenon DEF ArrayTypeOK
<1>4. "stamp" \in {"stamp", "other"} /\ "other" \in {"stamp", "other"} BY Zenon
<1>5. Array!Store.w = words /\ Array!Store.a = array /\ Array!Store.p = ptr BY Zenon DEF Array!Store
<1>6. \/ s = Array!Store /\ health = "drop"
      \/ s = Array!esdm_sched_array_add_slot(Array!Store)
      \/ s = Array!esdm_sched_array_add_u32(Array!Store, "stamp")
  BY Zenon DEF Array!esdm_sched_time_process
<1> HIDE DEF s
<1>7. IsStore(s)
  <2>1. IsStore(Array!esdm_sched_array_add_slot(Array!Store)) BY <1>3, SlotIs, Zenon
  <2>2. IsStore(Array!esdm_sched_array_add_u32(Array!Store, "stamp")) BY <1>3, <1>4, SchedWordIs, Zenon
  <2> QED BY <1>3, <1>6, <2>1, <2>2, Zenon
<1>8. IsStore(r)
  <2>1. IsStore(Array!esdm_sched_array_add_u32(s, "other")) BY <1>4, <1>7, SchedWordIs, Zenon
  <2> QED BY <1>7, <2>1, Zenon
<1> HIDE DEF r
<1>9. Array!Store' = r BY <1>2, <1>8, StoreBecomes, Zenon DEF r, s
<1>10. words' = r.w /\ array' = r.a /\ ptr' = r.p BY <1>2, Zenon DEF Array!Becomes, r, s
<1>11. /\ source' = source /\ highres' = highres /\ gcdTested' \in BOOLEAN
       /\ counted' \in Nat /\ counted' <= MaxCounted /\ counted' <= counted + 1
       /\ health = "drop" => counted' = counted
  <2>1. source' = source /\ highres' = highres /\ gcdTested' \in BOOLEAN BY <1>2, Zenon DEF Array!Event
  <2>2. /\ counted' \in Nat /\ counted' <= MaxCounted /\ counted' <= counted + 1
        /\ health = "drop" => counted' = counted
    BY <1>2, <1>3 DEF Array!Event, ArrayHypotheses
  <2> QED BY <2>1, <2>2, Zenon
<1>12. Array!Credited = Credit(counted) /\ Array!Credited' = Credit(counted')
  BY <1>1, <1>11, Zenon DEF Array!Credited
<1> HIDE DEF Credit
<1>13. ASSUME r.w = FALSE PROVE Run(r.a, r.p) /\ Credit(counted') <= Total(r)
  <2>1. r = s
    <3>1. (Array!esdm_sched_array_add_u32(s, "other")).w = TRUE BY <1>4, <1>7, SchedWordIs, Zenon
    <3> QED BY <1>13, <3>1, Zenon DEF r
  <2>2. s # Array!esdm_sched_array_add_u32(Array!Store, "stamp")
    <3>1. (Array!esdm_sched_array_add_u32(Array!Store, "stamp")).w = TRUE BY <1>3, <1>4, SchedWordIs, Zenon
    <3> QED BY <1>13, <2>1, <3>1, Zenon
  <2>3. CASE s = Array!Store /\ health = "drop"
    <3>1. words = FALSE /\ Credit(counted') = Array!Credited BY <1>5, <1>11, <1>12, <1>13, <2>1, <2>3, Zenon
    <3> QED BY <1>1, <1>5, <2>1, <2>3, <3>1, Zenon DEF SchedInv
  <2>4. CASE s = Array!esdm_sched_array_add_slot(Array!Store)
    <3>1. s.w = Array!Store.w BY <1>3, <2>4, SlotIs, Zenon
    <3>2. Run(Array!Store.a, Array!Store.p) /\ Credit(counted) <= Total(Array!Store)
      BY <1>1, <1>5, <1>12, <1>13, <2>1, <3>1, Zenon DEF SchedInv
    <3>3. /\ Run(r.a, r.p)
          /\ Total(r) = Total(Array!Store) + 1 \/ Total(r) >= ESDM_DATA_NUM_VALUES
      BY <1>3, <2>1, <2>4, <3>2, SlotRun, Zenon
    <3>4. Total(Array!Store) \in Nat /\ Total(r) \in Nat BY <1>3, <1>8, TotalNumber, Zenon
    <3>5. Credit(counted') <= Total(r)
      BY <1>3, <1>11, <3>2, <3>3, <3>4 DEF Credit, ArrayHypotheses
    <3> QED BY <3>3, <3>5, Zenon
  <2> QED BY <1>6, <2>2, <2>3, <2>4, Zenon
<1>14. SchedInv' BY <1>9, <1>10, <1>12, <1>13, Zenon DEF SchedInv
<1>15. "irq" # "sched" BY Zenon
<1> QED BY <1>1, <1>8, <1>9, <1>11, <1>14, <1>15, Zenon DEF ArrayInv, ArrayTypeOK

(* A read of the pool keeps it.                                            *)
LEMMA ReadKept ==
    ASSUME ArrayHypotheses, ArrayInv, Array!ReadPool
    PROVE  ArrayInv'
<1>1. /\ source' = source /\ highres' = highres /\ gcdTested' = gcdTested /\ ptr' = ptr /\ counted' = 0
      /\ array' = [i \in Array!Slots |-> "other"] /\ hashed' = 0 /\ words' = FALSE /\ lost' = FALSE
  BY Zenon DEF Array!ReadPool
<1>2. ArrayTypeOK /\ ptr \in Array!Slots
  <2>1. ArrayTypeOK /\ Array!Store.p = ptr BY Zenon DEF ArrayInv, Array!Store
  <2> QED BY <2>1, StoreFields, Zenon DEF ArrayTypeOK
<1>3. /\ array' \in [Array!Slots -> {"stamp", "other"}] /\ \A i \in Array!Slots : array'[i] = "other" BY <1>1, Zenon
<1>4. IsStore(Array!Store') BY <1>1, <1>2, <1>3, Zenon DEF IsStore, Array!Store
<1>5. ArrayTypeOK' BY <1>1, <1>2, <1>4 DEF ArrayTypeOK, ArrayHypotheses
<1>6. Total(Array!Store') \in Nat BY <1>4, TotalNumber, Zenon
<1>7. (Array!Store').a = array' BY Zenon DEF Array!Store
<1>8. NoneAhead(Array!Store') BY <1>3, <1>7, Zenon DEF NoneAhead
<1>9. array'[ptr'] # "stamp" BY <1>1, <1>2, Zenon
<1>10. counted' <= Total(Array!Store') BY <1>1, <1>6
<1>11. IrqInv' BY <1>8, <1>9, <1>10, Zenon DEF IrqInv
<1>12. Run(array', ptr')
  <2>1. \A i \in Array!Slots : Back(i, ptr) \in Nat BY <1>2, Backs, Zenon
  <2>2. \A i \in Array!Slots : ~(Back(i, ptr) < 0) BY <2>1
  <2>3. 0 \in Nat /\ 0 <= ESDM_DATA_NUM_VALUES BY DEF ArrayHypotheses
  <2>4. \A i \in Array!Slots : array'[i] # "stamp" BY <1>3, Zenon
  <2> QED BY <1>1, <2>2, <2>3, <2>4, Zenon DEF Run
<1>13. Array!Credited' <= Total(Array!Store') BY <1>1, <1>6 DEF Array!Credited, ArrayHypotheses
<1> QED BY <1>5, <1>11, <1>12, <1>13, Zenon DEF ArrayInv, SchedInv

(* A reset keeps it: it counts nothing any more.                           *)
LEMMA ResetKept ==
    ASSUME ArrayHypotheses, ArrayInv, Array!Reset
    PROVE  ArrayInv'
<1>1. /\ source' = source /\ highres' = highres /\ gcdTested' = FALSE /\ ptr' = ptr /\ counted' = 0
      /\ array' = array /\ hashed' = hashed /\ words' = words /\ lost' = lost
  BY Zenon DEF Array!Reset
<1>2. Array!Store' = Array!Store BY <1>1, Zenon DEF Array!Store
<1>3. ArrayTypeOK BY Zenon DEF ArrayInv
<1>4. ArrayTypeOK'
  <2>1. counted' \in Nat /\ counted' <= MaxCounted BY <1>1 DEF ArrayHypotheses
  <2>2. gcdTested' \in BOOLEAN BY <1>1, Zenon
  <2> QED BY <1>1, <1>2, <1>3, <2>1, <2>2, Zenon DEF ArrayTypeOK
<1>5. /\ Total(Array!Store) \in Nat
      /\ \A p \in Array!Slots : Array!Store.a[p] = "stamp" => Total(Array!Store) >= 1
  BY <1>3, TotalNumber, Zenon DEF ArrayTypeOK
<1>6. Array!Store.a = array /\ Array!Store.p = ptr BY Zenon DEF Array!Store
<1>7. ptr \in Array!Slots BY <1>3, <1>6, StoreFields, Zenon DEF ArrayTypeOK
<1>8. counted' <= Total(Array!Store) /\ Array!Credited' <= Total(Array!Store) BY <1>1, <1>5 DEF Array!Credited, ArrayHypotheses
<1>9. Total(Array!Store) >= 1 => counted' + 1 <= Total(Array!Store) BY <1>1, <1>5
<1>10. source = "irq" => IrqInv'
  BY <1>1, <1>2, <1>5, <1>6, <1>7, <1>8, <1>9, Zenon DEF ArrayInv, IrqInv
<1>11. source = "sched" => SchedInv' BY <1>1, <1>2, <1>8, Zenon DEF ArrayInv, SchedInv
<1> QED BY <1>1, <1>4, <1>10, <1>11, Zenon DEF ArrayInv

(* Every step keeps ArrayInv.                                              *)
LEMMA ArrayStep ==
    ASSUME ArrayHypotheses, ArrayInv, [Array!Next]_Array!vars
    PROVE  ArrayInv'
<1>1. CASE UNCHANGED Array!vars
  BY <1>1, Zenon DEF Array!vars, ArrayInv, ArrayTypeOK, IrqInv, SchedInv, Array!Credited, Array!Store
<1> QED BY <1>1, InterruptKept, ScheduleKept, ReadKept, ResetKept, Zenon DEF Array!Next

(* ArrayInv holds at the start.                                            *)
LEMMA ArrayInitOK ==
    ASSUME ArrayHypotheses, Array!Init
    PROVE  ArrayInv
<1>1. /\ source \in {"irq", "sched"} /\ highres \in BOOLEAN /\ gcdTested = FALSE /\ ptr = 0 /\ counted = 0
      /\ array = [i \in Array!Slots |-> "other"] /\ hashed = 0 /\ words = FALSE /\ lost = FALSE
  BY Zenon DEF Array!Init
<1>2. ptr \in Array!Slots BY <1>1 DEF Array!Slots, ArrayHypotheses
<1>3. /\ array \in [Array!Slots -> {"stamp", "other"}] /\ \A i \in Array!Slots : array[i] = "other" BY <1>1, Zenon
<1>4. IsStore(Array!Store) BY <1>1, <1>2, <1>3, Zenon DEF IsStore, Array!Store
<1>5. ArrayTypeOK
  <2>1. counted \in Nat /\ counted <= MaxCounted BY <1>1 DEF ArrayHypotheses
  <2>2. gcdTested \in BOOLEAN BY <1>1, Zenon
  <2> QED BY <1>1, <1>4, <2>1, <2>2, Zenon DEF ArrayTypeOK
<1>6. Total(Array!Store) \in Nat BY <1>4, TotalNumber, Zenon
<1>7. Array!Store.a = array BY Zenon DEF Array!Store
<1>8. NoneAhead(Array!Store) BY <1>3, <1>7, Zenon DEF NoneAhead
<1>9. array[ptr] # "stamp" BY <1>2, <1>3, Zenon
<1>10. counted <= Total(Array!Store) BY <1>1, <1>6
<1>11. IrqInv BY <1>8, <1>9, <1>10, Zenon DEF IrqInv
<1>12. Run(array, ptr)
  <2>1. \A i \in Array!Slots : Back(i, ptr) \in Nat BY <1>2, Backs, Zenon
  <2>2. \A i \in Array!Slots : ~(Back(i, ptr) < 0) BY <2>1
  <2>3. 0 \in Nat /\ 0 <= ESDM_DATA_NUM_VALUES BY DEF ArrayHypotheses
  <2>4. \A i \in Array!Slots : array[i] # "stamp" BY <1>3, Zenon
  <2> QED BY <2>2, <2>3, <2>4, Zenon DEF Run
<1>13. Array!Credited <= Total(Array!Store) BY <1>1, <1>6 DEF Array!Credited, ArrayHypotheses
<1> QED BY <1>5, <1>11, <1>12, <1>13, Zenon DEF ArrayInv, SchedInv

(* For an array and a unit of any size the next read credits no more       *)
(* events than there are time stamps that it hashes, wherever words and    *)
(* slots came to lie (esdm_irq_array_add_slot(),                           *)
(* _esdm_irq_array_add_u32(), esdm_sched_array_add_slot()), unless a       *)
(* coarse timer lost a stamp or the scheduler source stored words.         *)
THEOREM CreditedHashedCorrect ==
    ASSUME ArrayHypotheses
    PROVE  Array!Spec => []Array!CreditedHashed
<1>1. Array!Init => ArrayInv BY ArrayInitOK, Zenon
<1>2. ArrayInv /\ [Array!Next]_Array!vars => ArrayInv' BY ArrayStep, Zenon
<1>3. ArrayInv => Array!CreditedHashed
  <2> SUFFICES ASSUME ArrayInv, highres \/ ~lost, source = "sched" => ~words
               PROVE  Array!Credited <= hashed + Array!Stamps(array)
    BY Zenon DEF Array!CreditedHashed
  <2>1. Total(Array!Store) = hashed + Array!Stamps(array) BY Zenon DEF Total, Array!Store
  <2>2. ArrayTypeOK /\ Array!Store.w = words /\ Array!Store.l = lost BY Zenon DEF ArrayInv, Array!Store
  <2>3. words \in BOOLEAN /\ lost \in BOOLEAN BY <2>2, StoreFields, Zenon DEF ArrayTypeOK
  <2>4. CASE source = "irq"
    <3>1. highres \/ lost = FALSE BY <2>3, Zenon
    <3> QED BY <2>1, <2>4, <3>1, Zenon DEF ArrayInv, IrqInv, Array!Credited
  <2>5. CASE source = "sched"
    <3>1. words = FALSE BY <2>3, <2>5, Zenon
    <3> QED BY <2>1, <2>5, <3>1, Zenon DEF ArrayInv, SchedInv
  <2> QED BY <2>2, <2>4, <2>5, Zenon DEF ArrayTypeOK
<1> QED BY <1>1, <1>2, <1>3, PTL DEF Array!Spec
=============================================================================
