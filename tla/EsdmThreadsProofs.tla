-------------------------- MODULE EsdmThreadsProofs --------------------------
(***************************************************************************)
(* The proof that the thread pool keeps the jobs it accepted, for any      *)
(* number of mother threads, slots and calls: none is overwritten or run   *)
(* twice, and thread_wait() does not return before its caller's jobs have  *)
(* come to their end.                                                      *)
(***************************************************************************)
EXTENDS EsdmThreads, TLAPS

Starting == {"scan", "locked", "assign", "block", "asleep"}
Waiting == {"wscan", "wlocked"}

(* The pool is released by one thread, which says so first.                *)
CancelInv ==
    /\ \A s \in Slots : /\ shutdown[s] => inCancel
                        /\ wpc[s] = "exit" => shutdown[s]
    /\ killed # {} => inCancel
    /\ rpc # "off" => inCancel

(* A worker with a job has the lock of its slot, and dies with it.         *)
SlotInv ==
    \A s \in Slots :
      /\ wpc[s] \in {"run", "cleaned"} => inuse[s] = Worker(s)
      /\ wpc[s] = "dead" => inuse[s] \in {Worker(s), Destroyed}
      /\ wjob[s] # None <=> wpc[s] = "run"

(* A mother has the lock of the slot it works on, unless the worker of the *)
(* slot ended and destroyed it.                                            *)
Hold(m) ==
    /\ mpc[m] \in {"locked", "wlocked"} =>
         \/ inuse[slot[m]] = m
         \/ inuse[slot[m]] = Destroyed /\ shutdown[slot[m]]
    /\ mpc[m] = "assign" =>
         /\ inuse[slot[m]] = m /\ wpc[slot[m]] # "exit"
         /\ routine[slot[m]] = None /\ pending[slot[m]]
HoldInv == \A m \in Mothers : Hold(m)

(* The job is one of mother m, and slot s has such a job.                  *)
JobOf(j, m) == \E k \in 1..MaxCalls[m] : j = <<m, k>>
Mine(m, s) == JobOf(routine[s], m) \/ JobOf(wjob[s], m)

(* The unlocked reads of thread_wait() are of the job's own mother.        *)
OwnerInv ==
    \A s \in Slots, m \in Mothers : Mine(m, s) => pending[s] /\ parent[s] = m

(* Jobs come from thread_start() only ...                                  *)
JobInv ==
    /\ ran \subseteq accepted
    /\ \A s \in Slots : /\ routine[s] # None => routine[s] \in accepted
                        /\ wjob[s] # None => wjob[s] \in accepted

(* ... and are in one place until they have run.                           *)
OnceInv ==
    ~inCancel =>
      /\ \A s \in Slots : /\ wjob[s] # None => routine[s] = wjob[s]
                          /\ routine[s] # None => routine[s] \notin ran
      /\ \A j \in accepted \ ran : \E s \in Slots : routine[s] = j
      /\ \A s, r \in Slots :
           routine[s] = routine[r] /\ routine[s] # None => s = r

(* The job of a call that goes on has not been accepted yet.               *)
Fresh(m) ==
    /\ \A k \in 1..MaxCalls[m] : <<m, k>> \in accepted =>
         k <= calls[m] /\ (mpc[m] \in Starting => k < calls[m])
    /\ mpc[m] \in Starting => calls[m] > 0

(* The slots that thread_wait() has passed over without a reason to wait   *)
(* have no job of its caller.                                              *)
Wait(m) ==
    /\ mpc[m] \notin Waiting => ~again[m]
    /\ mpc[m] \in Waiting => slot[m] \in Regular
    /\ mpc[m] \in {"idle", "wblock", "wasleep", "wdone"} => slot[m] = 1
    /\ mpc[m] \in Waiting /\ ~again[m] =>
         \A s \in Regular : s < slot[m] => ~Mine(m, s)
    /\ mpc[m] = "wdone" => \A s \in Regular : ~Mine(m, s)
CallInv == \A m \in Mothers : Fresh(m) /\ Wait(m)

CoreInv ==
    CancelInv /\ SlotInv /\ HoldInv /\ OwnerInv /\ JobInv /\ OnceInv /\ CallInv
ThreadsInv == ThreadsTypeOK /\ CoreInv

-----------------------------------------------------------------------------
(* What the proofs below need of the types.                                *)
LEMMA Shapes ==
    ASSUME ThreadsTypeOK
    PROVE  /\ DOMAIN inuse = Slots /\ DOMAIN routine = Slots
           /\ DOMAIN scheduled = Slots /\ DOMAIN parent = Slots
           /\ DOMAIN pending = Slots /\ DOMAIN shutdown = Slots
           /\ DOMAIN wpc = Slots /\ DOMAIN wjob = Slots
           /\ DOMAIN mpc = Mothers /\ DOMAIN slot = Mothers
           /\ DOMAIN again = Mothers /\ DOMAIN calls = Mothers
           /\ rslot \in Slots
           /\ \A m \in Mothers : slot[m] \in Slots /\ calls[m] \in Nat
BY Zenon DEF ThreadsTypeOK, Slots

LEMMA Names ==
    /\ None # Destroyed /\ None \notin Mothers /\ Destroyed \notin Mothers
    /\ \A s \in Slots : Worker(s) \notin Mothers /\ Worker(s) \notin {None, Destroyed}
BY ThreadsAssumption, Zenon

LEMMA Numbers ==
    /\ 1 \in Regular /\ MAX_THREADS \in Regular
    /\ \A s \in Regular : s \in Nat /\ s \in Slots /\ s >= 1 /\ s <= MAX_THREADS
    /\ \A s \in Regular : s < MAX_THREADS => s + 1 \in Regular
    /\ \A s, r \in Regular : r < s + 1 => r < s \/ r = s
    /\ \A s \in Regular : ~(s < 1)
    /\ \A s, r \in Regular : ~(s < MAX_THREADS) => r < s \/ r = s
    /\ \A s \in Slots : s # Upper(s) => s + 1 \in Slots
BY ThreadsAssumption DEF Regular, Special, Slots, Upper

LEMMA NoJob == \A m \in Mothers : ~JobOf(None, m)
BY ThreadsAssumption DEF JobOf, Jobs

(* What happens to a mother while another thread makes a step: nothing,    *)
(* or it is woken up.                                                      *)
Woken(a, b) ==
    \/ b = a
    \/ a = "asleep" /\ b = "scan"
    \/ a = "wasleep" /\ b = "wscan"
Kept(u) ==
    /\ Woken(mpc[u], mpc'[u])
    /\ slot'[u] = slot[u] /\ again'[u] = again[u] /\ calls'[u] = calls[u]

LEMMA KeptFacts ==
    ASSUME NEW u \in Mothers, Kept(u)
    PROVE  /\ \A p \in {"locked", "wlocked", "assign"} : mpc'[u] = p <=> mpc[u] = p
           /\ slot'[u] = slot[u] /\ again'[u] = again[u] /\ calls'[u] = calls[u]
BY Zenon DEF Kept, Woken

LEMMA KeptCall ==
    ASSUME NEW u \in Mothers, Kept(u), Fresh(u), Wait(u),
           \A s \in Regular : Mine(u, s)' => Mine(u, s),
           \A k \in 1..MaxCalls[u] : <<u, k>> \in accepted' => <<u, k>> \in accepted
    PROVE  Fresh(u)' /\ Wait(u)'
<1>1. Fresh(u)'
  BY Zenon DEF Kept, Woken, Fresh, Starting
<1>2. Wait(u)'
  <2>1. mpc'[u] \notin Waiting => ~again'[u]
    BY Zenon DEF Kept, Woken, Wait, Waiting
  <2>2. mpc'[u] \in Waiting => slot'[u] \in Regular
    BY Numbers, Zenon DEF Kept, Woken, Wait, Waiting
  <2>3. mpc'[u] \in {"idle", "wblock", "wasleep", "wdone"} => slot'[u] = 1
    BY Zenon DEF Kept, Woken, Wait
  <2>4. mpc'[u] \in Waiting /\ ~again'[u] =>
          \A s \in Regular : s < slot'[u] => ~Mine(u, s)'
    BY Numbers, Zenon DEF Kept, Woken, Wait, Waiting
  <2>5. mpc'[u] = "wdone" => \A s \in Regular : ~Mine(u, s)'
    BY Zenon DEF Kept, Woken, Wait
  <2> QED
    BY <2>1, <2>2, <2>3, <2>4, <2>5, Zenon DEF Wait, Regular, Waiting
<1> QED
  BY <1>1, <1>2, Zenon

(* pthread_cond_broadcast() wakes mothers up.                              *)
LEMMA BroadcastFacts ==
    ASSUME NEW cvs \in SUBSET BothCvs, NEW places, Broadcast(cvs, places)
    PROVE  \A u \in Mothers : Woken(places[u], mpc'[u])
BY Zenon DEF Broadcast, BothCvs, Woken

-----------------------------------------------------------------------------
(* A mother goes on without touching a slot.                               *)
LEMMA MotherOnly ==
    ASSUME CoreInv, NEW m \in Mothers,
           UNCHANGED <<slotVars, workVars, relVars, accepted, ran>>,
           \A u \in Mothers \ {m} : Kept(u),
           Hold(m)', Fresh(m)', Wait(m)'
    PROVE  CoreInv'
<1>1. UNCHANGED <<inuse, routine, scheduled, parent, pending, shutdown, wpc,
                  wjob, killed, inCancel, rpc, rslot, accepted, ran>>
  BY Zenon DEF slotVars, workVars, relVars
<1>2. CancelInv' /\ SlotInv' /\ JobInv' /\ OnceInv'
  BY <1>1 DEF CoreInv, CancelInv, SlotInv, JobInv, OnceInv, Slots, Regular, Special, Worker
<1>3. \A u, s : Mine(u, s)' <=> Mine(u, s)
  BY <1>1, Zenon DEF Mine, JobOf
<1>4. OwnerInv'
  BY <1>1, <1>3, Zenon DEF CoreInv, OwnerInv, Slots, Regular, Special
<1>5. HoldInv'
  BY <1>1, KeptFacts DEF CoreInv, HoldInv, Hold
<1>6. CallInv'
  BY <1>1, <1>3, KeptCall, Zenon DEF CoreInv, CallInv
<1> QED
  BY <1>2, <1>4, <1>5, <1>6, Zenon DEF CoreInv

(* The calls start, block and return.                                      *)
LEMMA QuietMother ==
    ASSUME ThreadsInv, NEW m \in Mothers,
           \/ ThreadStart(m) \/ StartRefused(m) \/ Block(m) \/ ThreadWait(m)
           \/ WaitRefused(m) \/ WaitBlock(m) \/ WaitReturn(m) \/ Spurious(m)
    PROVE  CoreInv'
<1>0. Fresh(m) /\ Wait(m) /\ calls[m] \in Nat
  BY Shapes, Zenon DEF ThreadsInv, CoreInv, CallInv
<1>s. ASSUME UNCHANGED <<slotVars, workVars, relVars, accepted, ran>>
      PROVE  \A s : Mine(m, s)' <=> Mine(m, s)
  BY <1>s, Zenon DEF slotVars, workVars, Mine, JobOf
<1>1. CASE ThreadStart(m)
  <2>1. /\ mpc[m] = "idle" /\ mpc'[m] = "scan" /\ calls'[m] = calls[m] + 1
        /\ again'[m] = again[m]
    BY <1>1, Shapes, Zenon DEF ThreadsInv, ThreadStart, Goto, Leave, BothCvs
  <2>2. /\ UNCHANGED <<slotVars, workVars, relVars, accepted, ran>>
        /\ \A u \in Mothers \ {m} : Kept(u)
    BY <1>1, Shapes, Zenon DEF ThreadsInv, ThreadStart, Goto, Leave, Kept, Woken
  <2>3. Hold(m)'
    BY <2>1, Zenon DEF Hold
  <2>4. Fresh(m)'
    BY <1>0, <2>1, <2>2 DEF Fresh, Starting
  <2>5. Wait(m)'
    BY <1>0, <1>s, <2>1, <2>2, Numbers, Zenon DEF Wait, Waiting, Regular
  <2> QED
    BY <2>2, <2>3, <2>4, <2>5, MotherOnly, Zenon DEF ThreadsInv
<1>2. CASE StartRefused(m)
  <2>1. /\ mpc[m] = "scan" /\ mpc'[m] = "idle" /\ calls'[m] = calls[m]
        /\ slot'[m] = 1 /\ again'[m] = FALSE
    BY <1>2, Shapes, Zenon DEF ThreadsInv, StartRefused, Goto, Leave, BothCvs
  <2>2. /\ UNCHANGED <<slotVars, workVars, relVars, accepted, ran>>
        /\ \A u \in Mothers \ {m} : Kept(u)
    BY <1>2, Shapes, Zenon DEF ThreadsInv, StartRefused, Goto, Leave, Kept, Woken
  <2>3. Hold(m)'
    BY <2>1, Zenon DEF Hold
  <2>4. Fresh(m)'
    BY <1>0, <2>1, <2>2, Zenon DEF Fresh, Starting
  <2>5. Wait(m)'
    BY <1>0, <1>s, <2>1, <2>2, Numbers, Zenon DEF Wait, Waiting, Regular
  <2> QED
    BY <2>2, <2>3, <2>4, <2>5, MotherOnly DEF ThreadsInv
<1>3. CASE Block(m)
  <2>1. /\ mpc[m] = "block" /\ mpc'[m] = "asleep" /\ calls'[m] = calls[m]
        /\ again'[m] = again[m]
    BY <1>3, Shapes, Zenon DEF ThreadsInv, Block, Goto, Leave, BothCvs
  <2>2. /\ UNCHANGED <<slotVars, workVars, relVars, accepted, ran>>
        /\ \A u \in Mothers \ {m} : Kept(u)
    BY <1>3, Shapes, Zenon DEF ThreadsInv, Block, Goto, Leave, Kept, Woken
  <2>3. Hold(m)'
    BY <2>1, Zenon DEF Hold
  <2>4. Fresh(m)'
    BY <1>0, <2>1, <2>2, Zenon DEF Fresh, Starting
  <2>5. Wait(m)'
    BY <1>0, <1>s, <2>1, <2>2, Numbers, Zenon DEF Wait, Waiting, Regular
  <2> QED
    BY <2>2, <2>3, <2>4, <2>5, MotherOnly DEF ThreadsInv
<1>4. CASE ThreadWait(m)
  <2>1. /\ mpc[m] = "idle" /\ mpc'[m] = "wscan" /\ calls'[m] = calls[m] + 1
        /\ slot'[m] = slot[m] /\ again'[m] = again[m]
    BY <1>4, Shapes, Zenon DEF ThreadsInv, ThreadWait, Goto, Leave, BothCvs
  <2>2. /\ UNCHANGED <<slotVars, workVars, relVars, accepted, ran>>
        /\ \A u \in Mothers \ {m} : Kept(u)
    BY <1>4, Shapes, Zenon DEF ThreadsInv, ThreadWait, Goto, Leave, Kept, Woken
  <2>3. Hold(m)'
    BY <2>1, Zenon DEF Hold
  <2>4. Fresh(m)'
    BY <1>0, <2>1, <2>2 DEF Fresh, Starting
  <2>5. Wait(m)'
    BY <1>0, <1>s, <2>1, <2>2, Numbers, Zenon DEF Wait, Waiting, Regular
  <2> QED
    BY <2>2, <2>3, <2>4, <2>5, MotherOnly DEF ThreadsInv
<1>5. CASE WaitRefused(m)
  <2>1. /\ mpc[m] = "wscan" /\ mpc'[m] = "idle" /\ calls'[m] = calls[m]
        /\ slot'[m] = 1 /\ again'[m] = FALSE
    BY <1>5, Shapes, Zenon DEF ThreadsInv, WaitRefused, Goto, Leave, BothCvs
  <2>2. /\ UNCHANGED <<slotVars, workVars, relVars, accepted, ran>>
        /\ \A u \in Mothers \ {m} : Kept(u)
    BY <1>5, Shapes, Zenon DEF ThreadsInv, WaitRefused, Goto, Leave, Kept, Woken
  <2>3. Hold(m)'
    BY <2>1, Zenon DEF Hold
  <2>4. Fresh(m)'
    BY <1>0, <2>1, <2>2, Zenon DEF Fresh, Starting
  <2>5. Wait(m)'
    BY <1>0, <1>s, <2>1, <2>2, Numbers, Zenon DEF Wait, Waiting, Regular
  <2> QED
    BY <2>2, <2>3, <2>4, <2>5, MotherOnly DEF ThreadsInv
<1>6. CASE WaitBlock(m)
  <2>1. /\ mpc[m] = "wblock" /\ mpc'[m] = "wasleep" /\ calls'[m] = calls[m]
        /\ slot'[m] = slot[m] /\ again'[m] = again[m]
    BY <1>6, Shapes, Zenon DEF ThreadsInv, WaitBlock, Goto, Leave, BothCvs
  <2>2. /\ UNCHANGED <<slotVars, workVars, relVars, accepted, ran>>
        /\ \A u \in Mothers \ {m} : Kept(u)
    BY <1>6, Shapes, Zenon DEF ThreadsInv, WaitBlock, Goto, Leave, Kept, Woken
  <2>3. Hold(m)'
    BY <2>1, Zenon DEF Hold
  <2>4. Fresh(m)'
    BY <1>0, <2>1, <2>2, Zenon DEF Fresh, Starting
  <2>5. Wait(m)'
    BY <1>0, <1>s, <2>1, <2>2, Numbers, Zenon DEF Wait, Waiting, Regular
  <2> QED
    BY <2>2, <2>3, <2>4, <2>5, MotherOnly DEF ThreadsInv
<1>7. CASE WaitReturn(m)
  <2>1. /\ mpc[m] = "wdone" /\ mpc'[m] = "idle" /\ calls'[m] = calls[m]
        /\ slot'[m] = slot[m] /\ again'[m] = again[m]
    BY <1>7, Shapes, Zenon DEF ThreadsInv, WaitReturn, Goto, Leave, BothCvs
  <2>2. /\ UNCHANGED <<slotVars, workVars, relVars, accepted, ran>>
        /\ \A u \in Mothers \ {m} : Kept(u)
    BY <1>7, Shapes, Zenon DEF ThreadsInv, WaitReturn, Goto, Leave, Kept, Woken
  <2>3. Hold(m)'
    BY <2>1, Zenon DEF Hold
  <2>4. Fresh(m)'
    BY <1>0, <2>1, <2>2, Zenon DEF Fresh, Starting
  <2>5. Wait(m)'
    BY <1>0, <1>s, <2>1, <2>2, Numbers, Zenon DEF Wait, Waiting, Regular
  <2> QED
    BY <2>2, <2>3, <2>4, <2>5, MotherOnly DEF ThreadsInv
<1>8. CASE Spurious(m)
  <2>1. /\ mpc[m] \in {"asleep", "wasleep"}
        /\ mpc'[m] = IF mpc[m] = "asleep" THEN "scan" ELSE "wscan"
        /\ calls'[m] = calls[m] /\ slot'[m] = slot[m] /\ again'[m] = again[m]
    BY <1>8, Shapes, Zenon DEF ThreadsInv, Spurious, Goto, Leave, BothCvs
  <2>2. /\ UNCHANGED <<slotVars, workVars, relVars, accepted, ran>>
        /\ \A u \in Mothers \ {m} : Kept(u)
    BY <1>8, Shapes, Zenon DEF ThreadsInv, Spurious, Goto, Leave, Kept, Woken
  <2>3. Hold(m)'
    BY <2>1, Zenon DEF Hold
  <2>4. Fresh(m)'
    BY <1>0, <2>1, <2>2, Zenon DEF Fresh, Starting
  <2>5. Wait(m)'
    BY <1>0, <1>s, <2>1, <2>2, Numbers, Zenon DEF Wait, Waiting, Regular
  <2> QED
    BY <2>2, <2>3, <2>4, <2>5, MotherOnly DEF ThreadsInv
<1> QED
  BY <1>1, <1>2, <1>3, <1>4, <1>5, <1>6, <1>7, <1>8, Zenon

-----------------------------------------------------------------------------
(* The locks of the slots                                                  *)

(* A mother gets the lock of the slot it is at.                            *)
LEMMA TakeLock ==
    ASSUME CoreInv, NEW m \in Mothers, NEW s \in Slots, slot[m] = s,
           \A u \in Mothers : slot[u] \in Slots,
           inuse[s] = None, inuse'[s] = m,
           \A r \in Slots \ {s} : inuse'[r] = inuse[r],
           UNCHANGED <<routine, scheduled, parent, pending, shutdown, workVars,
                       calls, relVars, accepted, ran>>,
           \A u \in Mothers \ {m} : Kept(u),
           slot'[m] = slot[m], again'[m] = again[m],
           \/ mpc[m] = "scan" /\ mpc'[m] = "locked"
           \/ mpc[m] = "wscan" /\ mpc'[m] = "wlocked"
    PROVE  CoreInv'
<1>1. UNCHANGED <<wpc, wjob, killed, inCancel, rpc, rslot>>
  BY Zenon DEF workVars, relVars
<1>2. CancelInv' /\ JobInv' /\ OnceInv'
  BY <1>1 DEF CoreInv, CancelInv, JobInv, OnceInv, Slots, Regular, Special
<1>3. SlotInv'
  BY <1>1, Names DEF CoreInv, SlotInv, Slots, Regular, Special
<1>4. \A u, r : Mine(u, r)' <=> Mine(u, r)
  BY <1>1, Zenon DEF Mine, JobOf
<1>5. OwnerInv'
  BY <1>4, Zenon DEF CoreInv, OwnerInv, Slots, Regular, Special
<1>6. HoldInv'
  <2>1. Hold(m)'
    BY Zenon DEF Hold
  <2>2. ASSUME NEW u \in Mothers \ {m} PROVE Hold(u)'
    <3>1. Kept(u) /\ Hold(u)
      BY <2>2, Zenon DEF CoreInv, HoldInv
    <3>2. mpc[u] \in {"locked", "wlocked", "assign"} => inuse'[slot[u]] = inuse[slot[u]]
      BY <3>1, Names DEF Hold
    <3> QED
      BY <1>1, <3>1, <3>2, KeptFacts DEF Hold
  <2> QED
    BY <2>1, <2>2, Zenon DEF HoldInv
<1>7. CallInv'
  <2>1. Fresh(m)' /\ Wait(m)'
    <3>1. Fresh(m) /\ Wait(m)
      BY Zenon DEF CoreInv, CallInv
    <3>2. Fresh(m)'
      BY <3>1, Zenon DEF Fresh, Starting
    <3>3. Wait(m)'
      BY <3>1, <1>4, Zenon DEF Wait, Waiting, Regular
    <3> QED
      BY <3>2, <3>3, Zenon
  <2>2. ASSUME NEW u \in Mothers \ {m} PROVE Fresh(u)' /\ Wait(u)'
    BY <1>4, <2>2, KeptCall, Zenon DEF CoreInv, CallInv
  <2> QED
    BY <2>1, <2>2, Zenon DEF CallInv
<1> QED
  BY <1>2, <1>3, <1>5, <1>6, <1>7, Zenon DEF CoreInv

(* A mother leaves the slot it has the lock of, or had it of.              *)
LEMMA ReleaseLock ==
    ASSUME CoreInv, NEW m \in Mothers, NEW s \in Slots, slot[m] = s,
           \A u \in Mothers : slot[u] \in Slots,
           mpc[m] \in {"locked", "wlocked"}, inuse'[s] = Unlocked(s),
           \A r \in Slots \ {s} : inuse'[r] = inuse[r],
           \A r \in Slots : wpc'[r] = wpc[r] \/ (wpc[r] = "idle" /\ wpc'[r] = "lock"),
           UNCHANGED <<routine, parent, pending, shutdown, wjob, killed,
                       relVars, accepted, ran>>,
           \A u \in Mothers \ {m} : Kept(u),
           mpc'[m] \notin {"locked", "wlocked", "assign"}, Fresh(m)', Wait(m)'
    PROVE  CoreInv'
<1>1. UNCHANGED <<inCancel, rpc, rslot>>
  BY Zenon DEF relVars
<1>2. CancelInv' /\ JobInv' /\ OnceInv'
  BY <1>1 DEF CoreInv, CancelInv, JobInv, OnceInv, Slots, Regular, Special
<1>3. \/ inuse[s] = m /\ inuse'[s] = None
      \/ inuse[s] = Destroyed /\ inuse'[s] = Destroyed
  BY Names, Zenon DEF CoreInv, HoldInv, Hold, Unlocked
<1>4. SlotInv'
  <2>1. wpc[s] \notin {"run", "cleaned"} /\ (wpc[s] = "dead" => inuse[s] = Destroyed)
    BY <1>3, Names DEF CoreInv, SlotInv
  <2>2. \A r \in Slots : wpc'[r] \in {"run", "cleaned"} => inuse'[r] = Worker(r)
    BY <2>1 DEF CoreInv, SlotInv
  <2>3. \A r \in Slots : wpc'[r] = "dead" => inuse'[r] \in {Worker(r), Destroyed}
    BY <1>3, <2>1, Names DEF CoreInv, SlotInv
  <2>4. \A r \in Slots : wjob'[r] # None <=> wpc'[r] = "run"
    BY DEF CoreInv, SlotInv
  <2> QED
    BY <2>2, <2>3, <2>4, Zenon DEF SlotInv
<1>5. \A u, r : Mine(u, r)' <=> Mine(u, r)
  BY Zenon DEF Mine, JobOf
<1>6. OwnerInv'
  BY <1>5, Zenon DEF CoreInv, OwnerInv, Slots, Regular, Special
<1>7. HoldInv'
  <2>1. Hold(m)'
    BY Zenon DEF Hold
  <2>2. ASSUME NEW u \in Mothers \ {m} PROVE Hold(u)'
    <3>1. Kept(u) /\ Hold(u)
      BY <2>2, Zenon DEF CoreInv, HoldInv
    <3>2. mpc[u] \in {"locked", "wlocked", "assign"} => inuse'[slot[u]] = inuse[slot[u]]
      <4>1. mpc[u] \in {"locked", "wlocked", "assign"} => inuse[slot[u]] \in {u, Destroyed}
        BY <3>1, Zenon DEF Hold
      <4>2. u # m /\ m # Destroyed
        BY <2>2, Names, Zenon
      <4> QED
        BY <1>3, <4>1, <4>2
    <3>3. wpc'[slot[u]] = "exit" => wpc[slot[u]] = "exit"
      BY Zenon
    <3> QED
      BY <3>1, <3>2, <3>3, KeptFacts DEF Hold
  <2> QED
    BY <2>1, <2>2, Zenon DEF HoldInv
<1>8. CallInv'
  <2>1. ASSUME NEW u \in Mothers \ {m} PROVE Fresh(u)' /\ Wait(u)'
    BY <1>5, <2>1, KeptCall, Zenon DEF CoreInv, CallInv
  <2> QED
    BY <2>1, Zenon DEF CallInv
<1> QED
  BY <1>2, <1>4, <1>6, <1>7, <1>8, Zenon DEF CoreInv

(* The scan of thread_schedule() goes on.                                  *)
LEMMA NextSlotFacts ==
    ASSUME ThreadsTypeOK, NEW m \in Mothers, NextSlot(m)
    PROVE  /\ mpc'[m] \in {"scan", "block"}
           /\ \A u \in Mothers \ {m} : mpc'[u] = mpc[u] /\ slot'[u] = slot[u]
BY Shapes, Zenon DEF NextSlot, Goto

(* The scan of thread_wait() goes on: what it passes over without a reason *)
(* to wait has no job of its caller.                                       *)
LEMMA NextWaitFacts ==
    ASSUME ThreadsInv, NEW m \in Mothers, NEW wait \in BOOLEAN,
           NextWait(m, wait), mpc[m] \in Waiting,
           \A r \in Regular : Mine(m, r)' => Mine(m, r),
           ~wait => ~again[m] /\ ~Mine(m, slot[m])
    PROVE  /\ Wait(m)' /\ mpc'[m] \in {"wscan", "wblock", "wdone"}
           /\ \A u \in Mothers \ {m} : /\ mpc'[u] = mpc[u] /\ slot'[u] = slot[u]
                                       /\ again'[u] = again[u]
<1>1. Wait(m) /\ slot[m] \in Regular
  BY Zenon DEF ThreadsInv, CoreInv, CallInv, Wait
<1>2. \A u \in Mothers \ {m} : /\ mpc'[u] = mpc[u] /\ slot'[u] = slot[u]
                               /\ again'[u] = again[u]
  BY Shapes DEF ThreadsInv, NextWait, Goto
<1>3. CASE slot[m] < MAX_THREADS
  <2>1. mpc'[m] = "wscan" /\ slot'[m] = slot[m] + 1 /\ again'[m] = wait
    BY <1>3, Shapes, Zenon DEF ThreadsInv, NextWait, Goto
  <2>2. slot'[m] \in Regular
    BY <1>1, <1>3, <2>1, Numbers, Zenon
  <2>3. ~wait => \A r \in Regular : r < slot'[m] => ~Mine(m, r)'
    BY <1>1, <2>1, Numbers DEF Wait
  <2>4. Wait(m)'
    BY <2>1, <2>2, <2>3, Zenon DEF Wait, Waiting, Regular
  <2> QED
    BY <1>2, <2>1, <2>4, Zenon
<1>4. CASE ~(slot[m] < MAX_THREADS)
  <2>1. /\ mpc'[m] = IF wait THEN "wblock" ELSE "wdone"
        /\ slot'[m] = 1 /\ again'[m] = FALSE
    BY <1>4, Shapes DEF ThreadsInv, NextWait, Goto
  <2>2. ~wait => \A r \in Regular : ~Mine(m, r)'
    BY <1>1, <1>4, Numbers DEF Wait
  <2>3. Wait(m)'
    BY <2>1, <2>2, Zenon DEF Wait, Waiting, Regular
  <2> QED
    BY <1>2, <2>1, <2>3, Zenon
<1> QED
  BY <1>3, <1>4, Zenon

LEMMA TrySlotKeeps ==
    ASSUME ThreadsInv, NEW m \in Mothers, TrySlot(m)
    PROVE  CoreInv'
<1>1. /\ mpc[m] = "scan" /\ slot[m] \in Slots
      /\ UNCHANGED <<routine, scheduled, parent, pending, shutdown, workVars,
                     again, calls, relVars, accepted, ran>>
  BY Shapes, Zenon DEF ThreadsInv, TrySlot
<1>2. CASE inuse[slot[m]] = None
  <2>1. /\ inuse'[slot[m]] = m /\ mpc'[m] = "locked" /\ slot' = slot
        /\ \A r \in Slots \ {slot[m]} : inuse'[r] = inuse[r]
        /\ \A u \in Mothers \ {m} : mpc'[u] = mpc[u]
    BY <1>2, Shapes, Zenon DEF ThreadsInv, TrySlot, Goto
  <2>2. \A u \in Mothers \ {m} : Kept(u)
    BY <1>1, <2>1, Zenon DEF Kept, Woken
  <2> QED
    BY <1>1, <1>2, <2>1, <2>2, Shapes, TakeLock, Zenon DEF ThreadsInv
<1>3. CASE inuse[slot[m]] # None
  <2>1. NextSlot(m) /\ UNCHANGED inuse
    BY <1>3, Zenon DEF TrySlot
  <2>2. /\ mpc'[m] \in {"scan", "block"}
        /\ \A u \in Mothers \ {m} : mpc'[u] = mpc[u] /\ slot'[u] = slot[u]
    BY <2>1, NextSlotFacts, Zenon DEF ThreadsInv
  <2>3. \A u \in Mothers \ {m} : Kept(u)
    BY <1>1, <2>2, Zenon DEF Kept, Woken
  <2>4. Fresh(m) /\ Wait(m)
    BY Zenon DEF ThreadsInv, CoreInv, CallInv
  <2>5. Hold(m)' /\ Fresh(m)' /\ Wait(m)'
    BY <1>1, <2>2, <2>4, Zenon DEF Hold, Fresh, Wait, Starting, Waiting
  <2>6. UNCHANGED <<slotVars, workVars, relVars, accepted, ran>>
    BY <1>1, <2>1, Zenon DEF slotVars
  <2> QED
    BY <2>3, <2>5, <2>6, MotherOnly, Zenon DEF ThreadsInv
<1> QED
  BY <1>2, <1>3, Zenon

LEMMA SkipSlotKeeps ==
    ASSUME ThreadsInv, NEW m \in Mothers, SkipSlot(m)
    PROVE  CoreInv'
<1>1. /\ mpc[m] = "locked" /\ slot[m] \in Slots
      /\ inuse'[slot[m]] = Unlocked(slot[m])
      /\ \A r \in Slots \ {slot[m]} : inuse'[r] = inuse[r]
      /\ \A r \in Slots : wpc'[r] = wpc[r] \/ (wpc[r] = "idle" /\ wpc'[r] = "lock")
      /\ UNCHANGED <<routine, scheduled, parent, pending, shutdown, wjob,
                     killed, again, calls, relVars, accepted, ran>>
  BY Shapes, Zenon DEF ThreadsInv, SkipSlot, WakeWorker
<1>2. /\ mpc'[m] \in {"scan", "block"}
      /\ \A u \in Mothers \ {m} : mpc'[u] = mpc[u] /\ slot'[u] = slot[u]
  BY NextSlotFacts, Zenon DEF ThreadsInv, SkipSlot
<1>3. \A u \in Mothers \ {m} : Kept(u)
  BY <1>1, <1>2, Zenon DEF Kept, Woken
<1>4. Fresh(m)' /\ Wait(m)'
  <2>1. Fresh(m) /\ Wait(m)
    BY DEF ThreadsInv, CoreInv, CallInv
  <2> QED
    BY <1>1, <1>2, <2>1, Zenon DEF Fresh, Wait, Starting, Waiting
<1> QED
  BY <1>1, <1>2, <1>3, <1>4, Shapes, ReleaseLock, Zenon DEF ThreadsInv

LEMMA WaitSlotKeeps ==
    ASSUME ThreadsInv, NEW m \in Mothers, WaitSlot(m)
    PROVE  CoreInv'
<1> DEFINE mine == pending[slot[m]] /\ parent[slot[m]] = m
<1>1. /\ mpc[m] = "wscan" /\ slot[m] \in Slots
      /\ UNCHANGED <<routine, scheduled, parent, pending, shutdown, workVars,
                     calls, relVars, accepted, ran>>
  BY Shapes, Zenon DEF ThreadsInv, WaitSlot
<1>2. CASE mine /\ inuse[slot[m]] = None
  <2>1. /\ inuse'[slot[m]] = m /\ mpc'[m] = "wlocked" /\ slot' = slot /\ again' = again
        /\ \A r \in Slots \ {slot[m]} : inuse'[r] = inuse[r]
        /\ \A u \in Mothers \ {m} : mpc'[u] = mpc[u]
    BY <1>2, Shapes DEF ThreadsInv, WaitSlot, Goto
  <2>2. \A u \in Mothers \ {m} : Kept(u)
    BY <1>1, <2>1, Zenon DEF Kept, Woken
  <2> QED
    BY <1>1, <1>2, <2>1, <2>2, Shapes, TakeLock DEF ThreadsInv
<1>3. CASE ~(mine /\ inuse[slot[m]] = None)
  <2>1. NextWait(m, again[m] \/ mine) /\ UNCHANGED inuse
    BY <1>3, Zenon DEF WaitSlot
  <2>2. \A r : Mine(m, r)' => Mine(m, r)
    BY <1>1, Zenon DEF Mine, JobOf, workVars
  <2>3. ~mine => ~Mine(m, slot[m])
    BY <1>1, Zenon DEF ThreadsInv, CoreInv, OwnerInv
  <2>4. (again[m] \/ mine) \in BOOLEAN
    BY Zenon
  <2>5. ~(again[m] \/ mine) => ~again[m] /\ ~Mine(m, slot[m])
    BY <2>3, Zenon
  <2>6. /\ Wait(m)' /\ mpc'[m] \in {"wscan", "wblock", "wdone"}
        /\ \A u \in Mothers \ {m} : /\ mpc'[u] = mpc[u] /\ slot'[u] = slot[u]
                                    /\ again'[u] = again[u]
    <3> HIDE DEF mine
    <3> QED
      BY <1>1, <2>1, <2>2, <2>4, <2>5, NextWaitFacts, Zenon DEF Waiting
  <2>7. \A u \in Mothers \ {m} : Kept(u)
    BY <1>1, <2>6, Zenon DEF Kept, Woken
  <2>8. Hold(m)' /\ Fresh(m)'
    BY <1>1, <2>6, Zenon DEF Hold, ThreadsInv, CoreInv, CallInv, Fresh, Starting
  <2>9. UNCHANGED <<slotVars, workVars, relVars, accepted, ran>>
    BY <1>1, <2>1, Zenon DEF slotVars
  <2> QED
    BY <2>6, <2>7, <2>8, <2>9, MotherOnly, Zenon DEF ThreadsInv
<1> QED
  BY <1>2, <1>3, Zenon

LEMMA WaitLockedKeeps ==
    ASSUME ThreadsInv, NEW m \in Mothers, WaitLocked(m)
    PROVE  CoreInv'
<1> DEFINE wait == again[m] \/ routine[slot[m]] # None
<1>1. /\ mpc[m] = "wlocked" /\ slot[m] \in Slots
      /\ inuse'[slot[m]] = Unlocked(slot[m])
      /\ \A r \in Slots \ {slot[m]} : inuse'[r] = inuse[r]
      /\ UNCHANGED <<routine, parent, pending, shutdown, wpc, wjob, killed,
                     calls, relVars, accepted, ran>>
      /\ NextWait(m, wait)
  BY Shapes, Zenon DEF ThreadsInv, WaitLocked, workVars
<1>2. \A r : Mine(m, r)' => Mine(m, r)
  BY <1>1, Zenon DEF Mine, JobOf
<1>3. wjob[slot[m]] = None
  BY <1>1, Names DEF ThreadsInv, CoreInv, HoldInv, Hold, SlotInv
<1>4. ~wait => ~again[m] /\ ~Mine(m, slot[m])
  BY <1>3, NoJob, Zenon DEF Mine
<1>5. wait \in BOOLEAN
  BY Zenon
<1> HIDE DEF wait
<1>6. /\ Wait(m)' /\ mpc'[m] \in {"wscan", "wblock", "wdone"}
      /\ \A u \in Mothers \ {m} : /\ mpc'[u] = mpc[u] /\ slot'[u] = slot[u]
                                  /\ again'[u] = again[u]
  BY <1>1, <1>2, <1>4, <1>5, NextWaitFacts, Zenon DEF Waiting
<1>7. \A u \in Mothers \ {m} : Kept(u)
  BY <1>1, <1>6, Zenon DEF Kept, Woken
<1>8. Fresh(m)'
  BY <1>1, <1>6, Zenon DEF ThreadsInv, CoreInv, CallInv, Fresh, Starting
<1> QED
  BY <1>1, <1>6, <1>7, <1>8, Shapes, ReleaseLock, Zenon DEF ThreadsInv

-----------------------------------------------------------------------------
(* thread_schedule() with the lock of a free slot                          *)

LEMMA FreeSlot ==
    ASSUME ThreadsInv, NEW m \in Mothers, mpc[m] = "locked", ~SlotTaken(m, slot[m])
    PROVE  /\ slot[m] \in Slots /\ inuse[slot[m]] = m
           /\ routine[slot[m]] = None /\ wjob[slot[m]] = None
           /\ wpc[slot[m]] \notin {"run", "cleaned", "dead", "exit"}
           /\ \A u \in Mothers \ {m} :
                mpc[u] \in {"locked", "wlocked", "assign"} => slot[u] # slot[m]
<1>1. /\ slot[m] \in Slots /\ inuse[slot[m]] = m /\ routine[slot[m]] = None
      /\ ~shutdown[slot[m]]
  BY Shapes, Zenon DEF ThreadsInv, CoreInv, HoldInv, Hold, SlotTaken
<1>2. wpc[slot[m]] \notin {"run", "cleaned", "dead"}
  BY <1>1, Names DEF ThreadsInv, CoreInv, SlotInv
<1>3. wpc[slot[m]] # "exit" /\ wjob[slot[m]] = None
  BY <1>1, <1>2, Zenon DEF ThreadsInv, CoreInv, SlotInv, CancelInv
<1>4. \A u \in Mothers \ {m} :
        mpc[u] \in {"locked", "wlocked", "assign"} => slot[u] # slot[m]
  BY <1>1, Names DEF ThreadsInv, CoreInv, HoldInv, Hold
<1> QED
  BY <1>1, <1>2, <1>3, <1>4, Zenon

LEMMA UseSlotKeeps ==
    ASSUME ThreadsInv, NEW m \in Mothers, UseSlot(m)
    PROVE  CoreInv'
<1> DEFINE s == slot[m]
<1>1. /\ s \in Slots /\ inuse[s] = m /\ routine[s] = None /\ wjob[s] = None
      /\ wpc[s] \notin {"run", "cleaned", "dead", "exit"}
  BY FreeSlot, Zenon DEF UseSlot
<1>2. /\ mpc[m] = "locked" /\ mpc'[m] = "assign" /\ pending'[s] = TRUE
      /\ wpc'[s] \in {wpc[s], "lock"}
      /\ \A r \in Slots \ {s} : wpc'[r] = wpc[r] /\ pending'[r] = pending[r]
      /\ \A u \in Mothers \ {m} : mpc'[u] = mpc[u]
      /\ UNCHANGED <<inuse, routine, parent, shutdown, wjob, killed, slot, again,
                     calls, inCancel, rpc, accepted, ran>>
  BY Shapes, Zenon DEF ThreadsInv, UseSlot, Goto, relVars
<1> HIDE DEF s
<1>3. \A u \in Mothers \ {m} : Kept(u)
  BY <1>2, Zenon DEF Kept, Woken
<1>4. \A u, r : Mine(u, r)' <=> Mine(u, r)
  BY <1>2, Zenon DEF Mine, JobOf
<1>5. CancelInv'
  BY <1>1, <1>2 DEF ThreadsInv, CoreInv, CancelInv, Slots
<1>6. SlotInv'
  BY <1>1, <1>2 DEF ThreadsInv, CoreInv, SlotInv
<1>7. HoldInv'
  <2>1. Hold(m)'
    BY <1>1, <1>2, Zenon DEF Hold, s
  <2>2. ASSUME NEW u \in Mothers \ {m} PROVE Hold(u)'
    <3>1. Kept(u) /\ Hold(u) /\ slot[u] \in Slots
      BY <1>3, <2>2, Shapes, Zenon DEF ThreadsInv, CoreInv, HoldInv
    <3>2. /\ wpc'[slot[u]] = "exit" => wpc[slot[u]] = "exit"
          /\ pending[slot[u]] => pending'[slot[u]]
      BY <1>1, <1>2, <3>1
    <3> QED
      BY <1>2, <3>1, <3>2, KeptFacts, Zenon DEF Hold
  <2> QED
    BY <2>1, <2>2, Zenon DEF HoldInv
<1>8. OwnerInv'
  BY <1>1, <1>2, <1>4, Zenon DEF ThreadsInv, CoreInv, OwnerInv
<1>9. JobInv' /\ OnceInv'
  BY <1>2 DEF ThreadsInv, CoreInv, JobInv, OnceInv, Slots
<1>10. CallInv'
  <2>1. Fresh(m) /\ Wait(m)
    BY Zenon DEF ThreadsInv, CoreInv, CallInv
  <2>2. Fresh(m)' /\ Wait(m)'
    BY <1>2, <2>1, Zenon DEF Fresh, Wait, Starting, Waiting
  <2>3. ASSUME NEW u \in Mothers \ {m} PROVE Fresh(u)' /\ Wait(u)'
    BY <1>2, <1>3, <1>4, <2>3, KeptCall, Zenon DEF ThreadsInv, CoreInv, CallInv
  <2> QED
    BY <2>2, <2>3, Zenon DEF CallInv
<1> QED
  BY <1>5, <1>6, <1>7, <1>8, <1>9, <1>10, Zenon DEF CoreInv

LEMMA CreateFailsKeeps ==
    ASSUME ThreadsInv, NEW m \in Mothers, CreateFails(m)
    PROVE  CoreInv'
<1> DEFINE s == slot[m]
<1>1. /\ s \in Slots /\ inuse[s] = m /\ routine[s] = None /\ wjob[s] = None
      /\ wpc[s] \notin {"run", "cleaned", "dead", "exit"}
      /\ \A u \in Mothers \ {m} :
           mpc[u] \in {"locked", "wlocked", "assign"} => slot[u] # s
  BY FreeSlot, Zenon DEF CreateFails
<1>2. /\ mpc[m] = "locked" /\ slot'[m] = 1
      /\ \A u \in Mothers \ {m} : slot'[u] = slot[u]
      /\ inuse'[s] = Destroyed /\ routine'[s] = None
      /\ \A r \in Slots \ {s} : /\ inuse'[r] = inuse[r] /\ routine'[r] = routine[r]
                                /\ pending'[r] = pending[r]
      /\ UNCHANGED <<parent, shutdown, wpc, wjob, killed, again, calls, inCancel,
                     rpc, accepted, ran>>
  BY Shapes, Zenon DEF ThreadsInv, CreateFails, CleanupFull, workVars, relVars
<1>3. mpc'[m] = "idle" /\ \A u \in Mothers \ {m} : Kept(u)
  <2>1. \A u \in Mothers : Woken([mpc EXCEPT ![m] = "idle"][u], mpc'[u])
    BY BroadcastFacts, Zenon DEF CreateFails
  <2> QED
    BY <1>2, <2>1, Shapes DEF ThreadsInv, Kept, Woken
<1> HIDE DEF s
<1>4. \A u \in Mothers, r \in Slots : Mine(u, r)' <=> Mine(u, r)
  <2>1. \A r \in Slots : routine'[r] = routine[r] /\ wjob'[r] = wjob[r]
    BY <1>1, <1>2, Zenon
  <2> QED
    BY <2>1, Zenon DEF Mine, JobOf
<1>5. CancelInv'
  BY <1>2, Zenon DEF ThreadsInv, CoreInv, CancelInv, Slots
<1>6. SlotInv'
  BY <1>1, <1>2 DEF ThreadsInv, CoreInv, SlotInv
<1>7. HoldInv'
  <2>1. Hold(m)'
    BY <1>3, Zenon DEF Hold
  <2>2. ASSUME NEW u \in Mothers \ {m} PROVE Hold(u)'
    <3>1. Kept(u) /\ Hold(u) /\ slot[u] \in Slots
      BY <1>3, <2>2, Shapes, Zenon DEF ThreadsInv, CoreInv, HoldInv
    <3>2. mpc[u] \in {"locked", "wlocked", "assign"} =>
            /\ inuse'[slot[u]] = inuse[slot[u]]
            /\ routine'[slot[u]] = routine[slot[u]]
            /\ pending'[slot[u]] = pending[slot[u]]
      BY <1>1, <1>2, <3>1, Zenon
    <3> QED
      BY <1>2, <3>1, <3>2, KeptFacts DEF Hold
  <2> QED
    BY <2>1, <2>2 DEF HoldInv
<1>8. OwnerInv'
  <2>1. \A u \in Mothers : ~Mine(u, s)
    BY <1>1, NoJob, Zenon DEF Mine
  <2> QED
    BY <1>2, <1>4, <2>1, Zenon DEF ThreadsInv, CoreInv, OwnerInv
<1>9. JobInv' /\ OnceInv'
  <2>1. routine' = routine
    <3>1. routine' = [routine EXCEPT ![s] = None]
      BY Zenon DEF CreateFails, CleanupFull, s
    <3>2. routine \in [Slots -> Jobs \cup {None}]
      BY Zenon DEF ThreadsInv, ThreadsTypeOK
    <3> QED
      BY <1>1, <3>1, <3>2, Zenon
  <2>2. JobInv'
    BY <1>2, <2>1, Zenon DEF ThreadsInv, CoreInv, JobInv
  <2>3. OnceInv'
    BY <1>2, <2>1, Zenon DEF ThreadsInv, CoreInv, OnceInv
  <2> QED
    BY <2>2, <2>3, Zenon
<1>10. CallInv'
  <2>1. Fresh(m) /\ Wait(m)
    BY DEF ThreadsInv, CoreInv, CallInv
  <2>2. Fresh(m)' /\ Wait(m)'
    BY <1>2, <1>3, <2>1, Zenon DEF Fresh, Wait, Starting, Waiting
  <2>3. ASSUME NEW u \in Mothers \ {m} PROVE Fresh(u)' /\ Wait(u)'
    BY <1>2, <1>3, <1>4, <2>3, Numbers, KeptCall, Zenon DEF ThreadsInv, CoreInv, CallInv
  <2> QED
    BY <2>2, <2>3 DEF CallInv
<1> QED
  BY <1>5, <1>6, <1>7, <1>8, <1>9, <1>10 DEF CoreInv

(* The job handed over is a new one.                                       *)
LEMMA NewJob ==
    ASSUME ThreadsInv, NEW m \in Mothers, mpc[m] = "assign"
    PROVE  /\ Job(m) \notin accepted /\ Job(m) \notin ran /\ Job(m) # None
           /\ Job(m) \in Jobs
           /\ \A u \in Mothers : JobOf(Job(m), u) => u = m
           /\ \A u \in Mothers \ {m} : \A k : <<u, k>> # Job(m)
           /\ calls[m] \in 1..MaxCalls[m]
<1>1. calls[m] \in 1..MaxCalls[m]
  <2>1. calls[m] > 0 /\ calls[m] \in Nat /\ calls[m] <= MaxCalls[m] /\ MaxCalls[m] \in Nat
    BY ThreadsAssumption, Zenon
       DEF ThreadsInv, CoreInv, CallInv, Fresh, Starting, ThreadsTypeOK
  <2> QED
    BY <2>1
<1>2. Job(m) \notin accepted
  <2>1. calls[m] \in Nat
    BY Shapes, Zenon DEF ThreadsInv
  <2>2. ~(calls[m] < calls[m])
    BY <2>1
  <2> QED
    BY <1>1, <2>2, Zenon DEF ThreadsInv, CoreInv, CallInv, Fresh, Starting, Job
<1>3. Job(m) \notin ran
  BY <1>2, Zenon DEF ThreadsInv, CoreInv, JobInv
<1>4. Job(m) \in Jobs
  BY <1>1 DEF Job, Jobs
<1>5. Job(m) # None
  BY <1>4, ThreadsAssumption, Zenon
<1>6. /\ \A u \in Mothers : JobOf(Job(m), u) => u = m
      /\ \A u \in Mothers \ {m} : \A k : <<u, k>> # Job(m)
  BY Zenon DEF JobOf, Job
<1> QED
  BY <1>1, <1>2, <1>3, <1>4, <1>5, <1>6, Zenon

LEMMA AssignKeeps ==
    ASSUME ThreadsInv, NEW m \in Mothers, Assign(m)
    PROVE  CoreInv'
<1> DEFINE s == slot[m]
           j == Job(m)
<1>1. mpc[m] = "assign" /\ slot[m] \in Slots
  BY Shapes, Zenon DEF ThreadsInv, Assign
<1>2. /\ s \in Slots /\ inuse[s] = m /\ routine[s] = None /\ wjob[s] = None
      /\ pending[s] /\ wpc[s] \notin {"run", "cleaned", "dead", "exit"}
  <2>1. inuse[s] = m /\ routine[s] = None /\ pending[s] /\ wpc[s] # "exit"
    BY <1>1, Zenon DEF ThreadsInv, CoreInv, HoldInv, Hold
  <2> QED
    BY <1>1, <2>1, Names DEF ThreadsInv, CoreInv, SlotInv
<1>3. \A u \in Mothers \ {m} :
        mpc[u] \in {"locked", "wlocked", "assign"} => slot[u] # s
  BY <1>2, Names DEF ThreadsInv, CoreInv, HoldInv, Hold
<1>4. /\ slot'[m] = 1 /\ \A u \in Mothers \ {m} : slot'[u] = slot[u]
      /\ inuse'[s] = None /\ routine'[s] = j /\ parent'[s] = m
      /\ \A r \in Slots \ {s} : /\ inuse'[r] = inuse[r] /\ routine'[r] = routine[r]
                                /\ parent'[r] = parent[r]
      /\ \A r \in Slots : wpc'[r] = wpc[r] \/ (wpc[r] = "idle" /\ wpc'[r] = "lock")
      /\ accepted' = accepted \cup {j}
      /\ UNCHANGED <<pending, shutdown, wjob, killed, again, calls, inCancel,
                     rpc, ran>>
  BY <1>2, Names, Shapes DEF ThreadsInv, Assign, Unlocked, WakeWorker, relVars
<1>5. mpc'[m] = "idle" /\ \A u \in Mothers \ {m} : Kept(u)
  <2>1. \A u \in Mothers : Woken([mpc EXCEPT ![m] = "idle"][u], mpc'[u])
    BY BroadcastFacts, Zenon DEF Assign, BothCvs
  <2> QED
    BY <1>4, <2>1, Shapes, Zenon DEF ThreadsInv, Kept, Woken
<1>6. /\ j \notin accepted /\ j \notin ran /\ j # None
      /\ \A u \in Mothers : JobOf(j, u) => u = m
      /\ \A u \in Mothers \ {m} : \A k : <<u, k>> # j
  BY <1>1, NewJob, Zenon
<1>7. calls[m] \in Nat /\ \A k \in 1..MaxCalls[m] : <<m, k>> = j => k = calls[m]
  BY Shapes, Zenon DEF ThreadsInv, Job
<1> HIDE DEF s, j
<1>8. \A u \in Mothers, r \in Slots :
        Mine(u, r)' => Mine(u, r) \/ (u = m /\ r = s)
  <2>1. \A u \in Mothers, r \in Slots \ {s} : Mine(u, r)' => Mine(u, r)
    BY <1>4 DEF Mine, JobOf
  <2>2. \A u \in Mothers, r \in Slots :
          Mine(u, r)' <=> JobOf(routine'[r], u) \/ JobOf(wjob'[r], u)
    BY Zenon DEF Mine, JobOf
  <2>3. \A u \in Mothers : JobOf(routine'[s], u) \/ JobOf(wjob'[s], u) => u = m
    BY <1>2, <1>4, <1>6, NoJob
  <2> QED
    BY <2>1, <2>2, <2>3, Zenon
<1>9. CancelInv'
  BY <1>4, Zenon DEF ThreadsInv, CoreInv, CancelInv
<1>10. SlotInv'
  <2>1. \A r \in Slots : wpc'[r] \in {"run", "cleaned"} => inuse'[r] = Worker(r)
    BY <1>2, <1>4 DEF ThreadsInv, CoreInv, SlotInv
  <2>2. \A r \in Slots : wpc'[r] = "dead" => inuse'[r] \in {Worker(r), Destroyed}
    BY <1>2, <1>4 DEF ThreadsInv, CoreInv, SlotInv
  <2>3. \A r \in Slots : wjob'[r] # None <=> wpc'[r] = "run"
    BY <1>4 DEF ThreadsInv, CoreInv, SlotInv
  <2> QED
    BY <2>1, <2>2, <2>3, Zenon DEF SlotInv
<1>11. HoldInv'
  <2>1. Hold(m)'
    BY <1>5, Zenon DEF Hold
  <2>2. ASSUME NEW u \in Mothers \ {m} PROVE Hold(u)'
    <3>1. Kept(u) /\ Hold(u) /\ slot[u] \in Slots
      BY <1>5, <2>2, Shapes, Zenon DEF ThreadsInv, CoreInv, HoldInv
    <3>2. mpc[u] \in {"locked", "wlocked", "assign"} =>
            /\ inuse'[slot[u]] = inuse[slot[u]]
            /\ routine'[slot[u]] = routine[slot[u]]
            /\ wpc'[slot[u]] = "exit" => wpc[slot[u]] = "exit"
      BY <1>3, <1>4, <3>1, Zenon
    <3> QED
      BY <1>4, <3>1, <3>2, KeptFacts DEF Hold
  <2> QED
    BY <2>1, <2>2, Zenon DEF HoldInv
<1>12. OwnerInv'
  <2>1. \A u \in Mothers : ~Mine(u, s)
    BY <1>2, NoJob, Zenon DEF Mine
  <2>2. ASSUME NEW r \in Slots, NEW u \in Mothers, Mine(u, r)'
        PROVE  pending'[r] /\ parent'[r] = u
    <3>1. CASE r = s
      BY <1>2, <1>4, <1>8, <2>1, <2>2, <3>1, Zenon
    <3>2. CASE r # s
      BY <1>4, <1>8, <2>2, <3>2, Zenon DEF ThreadsInv, CoreInv, OwnerInv
    <3> QED
      BY <3>1, <3>2, Zenon
  <2> QED
    BY <2>2, Zenon DEF OwnerInv
<1>13. JobInv'
  BY <1>4, Zenon DEF ThreadsInv, CoreInv, JobInv
<1>14. OnceInv'
  <2> SUFFICES ASSUME ~inCancel
               PROVE  /\ \A r \in Slots :
                           /\ wjob'[r] # None => routine'[r] = wjob'[r]
                           /\ routine'[r] # None => routine'[r] \notin ran
                      /\ \A i \in accepted' \ ran : \E r \in Slots : routine'[r] = i
                      /\ \A q, r \in Slots :
                           routine'[q] = routine'[r] /\ routine'[q] # None => q = r
    BY <1>4, Zenon DEF OnceInv
  <2>1. \A r \in Slots : /\ wjob'[r] # None => routine'[r] = wjob'[r]
                         /\ routine'[r] # None => routine'[r] \notin ran
    <3>1. \A r \in Slots : /\ wjob[r] # None => routine[r] = wjob[r]
                           /\ routine[r] # None => routine[r] \notin ran
      BY Zenon DEF ThreadsInv, CoreInv, OnceInv
    <3> QED
      BY <1>2, <1>4, <1>6, <3>1, Zenon
  <2>2. ASSUME NEW i \in accepted' \ ran PROVE \E r \in Slots : routine'[r] = i
    <3>1. CASE i = j
      BY <1>2, <1>4, <3>1, Zenon
    <3>2. CASE i # j
      <4>1. i # None
        BY <1>4, <3>2, ThreadsAssumption, Zenon DEF ThreadsInv, ThreadsTypeOK
      <4>2. \E r \in Slots : routine[r] = i
        BY <1>4, <3>2, Zenon DEF ThreadsInv, CoreInv, OnceInv
      <4> QED
        BY <1>2, <1>4, <4>1, <4>2, Zenon
    <3> QED
      BY <3>1, <3>2, Zenon
  <2>3. \A q, r \in Slots : routine'[q] = routine'[r] /\ routine'[q] # None => q = r
    <3>1. \A q \in Slots : routine[q] # j
      BY <1>6, Zenon DEF ThreadsInv, CoreInv, JobInv
    <3>2. \A q, r \in Slots : routine[q] = routine[r] /\ routine[q] # None => q = r
      BY Zenon DEF ThreadsInv, CoreInv, OnceInv
    <3>3. \A x \in Slots : routine'[x] = IF x = s THEN j ELSE routine[x]
      BY <1>2, <1>4, Zenon
    <3>4. ASSUME NEW q \in Slots, NEW r \in Slots, routine'[q] = routine'[r],
                 routine'[q] # None, q # r
          PROVE  FALSE
      <4>1. q = s => routine[r] = j
        BY <3>3, <3>4, Zenon
      <4>2. r = s => routine[q] = j
        BY <3>3, <3>4, Zenon
      <4>3. q # s /\ r # s => routine[q] = routine[r] /\ routine[q] # None
        BY <3>3, <3>4, Zenon
      <4> QED
        BY <3>1, <3>2, <3>4, <4>1, <4>2, <4>3, Zenon
    <3> QED
      BY <3>4, Zenon
  <2> QED
    BY <2>1, <2>2, <2>3, Zenon
<1>15. CallInv'
  <2>1. Fresh(m) /\ Wait(m)
    BY Zenon DEF ThreadsInv, CoreInv, CallInv
  <2>2. Fresh(m)'
    <3>1. \A k \in 1..MaxCalls[m] : <<m, k>> \in accepted => k <= calls[m]
      BY <2>1, Zenon DEF Fresh
    <3>2. \A k \in 1..MaxCalls[m] : <<m, k>> = j => k <= calls[m]
      BY <1>7
    <3>3. \A k \in 1..MaxCalls[m] : <<m, k>> \in accepted' => k <= calls'[m]
      BY <1>4, <3>1, <3>2, Zenon
    <3> QED
      BY <1>5, <3>3, Zenon DEF Fresh, Starting
  <2>3. Wait(m)'
    BY <1>1, <1>4, <1>5, <2>1, Zenon DEF Wait, Waiting
  <2>4. ASSUME NEW u \in Mothers \ {m} PROVE Fresh(u)' /\ Wait(u)'
    <3>1. \A r \in Regular : Mine(u, r)' => Mine(u, r)
      BY <1>8, <2>4, Numbers, Zenon
    <3>2. \A k \in 1..MaxCalls[u] : <<u, k>> \in accepted' => <<u, k>> \in accepted
      BY <1>4, <1>6, <2>4
    <3> QED
      BY <1>5, <2>4, <3>1, <3>2, KeptCall, Zenon DEF ThreadsInv, CoreInv, CallInv
  <2> QED
    BY <2>2, <2>3, <2>4, Zenon DEF CallInv
<1> QED
  BY <1>9, <1>10, <1>11, <1>12, <1>13, <1>14, <1>15, Zenon DEF CoreInv

(* The slot of a mother that has a lock, or had it: no job runs there.     *)
LEMMA Holder ==
    ASSUME ThreadsInv, NEW u \in Mothers,
           mpc[u] \in {"locked", "wlocked", "assign"}
    PROVE  /\ slot[u] \in Slots
           /\ inuse[slot[u]] # None /\ inuse[slot[u]] # Worker(slot[u])
           /\ wpc[slot[u]] \in {"exit", "dead"} =>
                shutdown[slot[u]] /\ mpc[u] # "assign"
<1>1. slot[u] \in Slots /\ Hold(u)
  BY Shapes, Zenon DEF ThreadsInv, CoreInv, HoldInv
<1>2. PICK s \in Slots : s = slot[u]
  BY <1>1, Zenon
<1>3. /\ inuse[s] = u \/ (inuse[s] = Destroyed /\ shutdown[s] /\ mpc[u] # "assign")
      /\ mpc[u] = "assign" => wpc[s] # "exit"
  BY <1>1, <1>2, Zenon DEF Hold
<1>4. inuse[s] # None /\ inuse[s] # Worker(s)
  BY <1>3, Names, Zenon
<1>5. wpc[s] = "exit" => shutdown[s]
  BY Zenon DEF ThreadsInv, CoreInv, CancelInv
<1>6. wpc[s] = "dead" => inuse[s] = Destroyed
  BY <1>4, Zenon DEF ThreadsInv, CoreInv, SlotInv
<1>7. inuse[s] = Destroyed => inuse[s] # u
  BY Names, Zenon
<1> QED
  BY <1>2, <1>3, <1>4, <1>5, <1>6, <1>7, Zenon

-----------------------------------------------------------------------------
(* The workers                                                             *)

LEMMA WorkerLockKeeps ==
    ASSUME ThreadsInv, NEW s \in Slots, WorkerLock(s)
    PROVE  CoreInv'
<1>1. /\ wpc[s] = "lock" /\ inuse[s] = None
      /\ \/ shutdown[s] /\ wpc'[s] = "exit" /\ inuse'[s] = None /\ wjob'[s] = wjob[s]
         \/ /\ routine[s] # None /\ wpc'[s] = "run" /\ inuse'[s] = Worker(s)
            /\ wjob'[s] = routine[s]
         \/ wpc'[s] = "idle" /\ inuse'[s] = None /\ wjob'[s] = wjob[s]
      /\ \A r \in Slots \ {s} : /\ wpc'[r] = wpc[r] /\ inuse'[r] = inuse[r]
                                /\ wjob'[r] = wjob[r]
      /\ UNCHANGED <<routine, scheduled, parent, pending, shutdown, killed, mpc,
                     slot, again, calls, inCancel, rpc, accepted, ran>>
  BY Shapes DEF ThreadsInv, WorkerLock, motherVars, relVars
<1>2. wjob[s] = None
  BY <1>1, Zenon DEF ThreadsInv, CoreInv, SlotInv
<1>3. \A u \in Mothers : Kept(u)
  BY <1>1, Zenon DEF Kept, Woken
<1>4. \A u \in Mothers, r \in Slots : Mine(u, r)' => Mine(u, r)
  <2>1. \A r \in Slots : wjob'[r] \in {wjob[r], routine[r]} /\ routine'[r] = routine[r]
    BY <1>1, Zenon
  <2> QED
    BY <2>1, Zenon DEF Mine, JobOf
<1>5. CancelInv'
  BY <1>1, Zenon DEF ThreadsInv, CoreInv, CancelInv
<1>6. SlotInv'
  <2>1. \A r \in Slots : wpc'[r] \in {"run", "cleaned"} => inuse'[r] = Worker(r)
    BY <1>1, Zenon DEF ThreadsInv, CoreInv, SlotInv
  <2>2. \A r \in Slots : wpc'[r] = "dead" => inuse'[r] \in {Worker(r), Destroyed}
    BY <1>1, Zenon DEF ThreadsInv, CoreInv, SlotInv
  <2>3. \A r \in Slots : wjob'[r] # None <=> wpc'[r] = "run"
    BY <1>1, <1>2 DEF ThreadsInv, CoreInv, SlotInv
  <2> QED
    BY <2>1, <2>2, <2>3, Zenon DEF SlotInv
<1>7. HoldInv'
  <2>1. ASSUME NEW u \in Mothers PROVE Hold(u)'
    <3>1. Kept(u) /\ Hold(u) /\ slot[u] \in Slots
      BY <1>3, Shapes, Zenon DEF ThreadsInv, CoreInv, HoldInv
    <3>2. mpc[u] \in {"locked", "wlocked", "assign"} => slot[u] # s
      BY <1>1, Holder, Zenon
    <3>3. mpc[u] \in {"locked", "wlocked", "assign"} =>
            /\ inuse'[slot[u]] = inuse[slot[u]]
            /\ wpc'[slot[u]] = wpc[slot[u]]
      BY <1>1, <3>1, <3>2, Zenon
    <3> QED
      BY <1>1, <3>1, <3>3, KeptFacts DEF Hold
  <2> QED
    BY <2>1, Zenon DEF HoldInv
<1>8. OwnerInv'
  BY <1>1, <1>4, Zenon DEF ThreadsInv, CoreInv, OwnerInv
<1>9. JobInv'
  BY <1>1, Zenon DEF ThreadsInv, CoreInv, JobInv
<1>10. OnceInv'
  <2>1. \A r \in Slots : wjob'[r] \in {wjob[r], routine[r]}
    BY <1>1, Zenon
  <2>2. UNCHANGED <<routine, inCancel, accepted, ran>>
    BY <1>1, Zenon
  <2> QED
    BY <2>1, <2>2, Zenon DEF ThreadsInv, CoreInv, OnceInv
<1>11. CallInv'
  BY <1>1, <1>3, <1>4, Numbers, KeptCall, Zenon DEF ThreadsInv, CoreInv, CallInv
<1> QED
  BY <1>5, <1>6, <1>7, <1>8, <1>9, <1>10, <1>11, Zenon DEF CoreInv

(* The job has run: it is in no slot any more.                             *)
LEMMA JobDoneKeeps ==
    ASSUME ThreadsInv, NEW s \in Slots, JobDone(s)
    PROVE  CoreInv'
<1>1. /\ wpc[s] = "run" /\ wpc'[s] = "cleaned" /\ wjob'[s] = None
      /\ routine'[s] = None /\ ran' = ran \cup {wjob[s]}
      /\ \A r \in Slots \ {s} : /\ wpc'[r] = wpc[r] /\ wjob'[r] = wjob[r]
                                /\ routine'[r] = routine[r]
      /\ UNCHANGED <<inuse, parent, pending, shutdown, killed, slot, again, calls,
                     inCancel, rpc, accepted>>
  BY Shapes, Zenon DEF ThreadsInv, JobDone, relVars
<1>2. inuse[s] = Worker(s) /\ wjob[s] # None
  BY <1>1, Zenon DEF ThreadsInv, CoreInv, SlotInv
<1>3. \A u \in Mothers : Kept(u)
  <2>1. \A u \in Mothers : Woken(mpc[u], mpc'[u])
    BY BroadcastFacts, Zenon DEF JobDone
  <2> QED
    BY <1>1, <2>1, Zenon DEF Kept
<1>4. \A u \in Mothers, r \in Slots : Mine(u, r)' => Mine(u, r)
  <2>1. \A u \in Mothers : ~JobOf(None, u)
    BY NoJob, Zenon
  <2>2. \A r \in Slots : \/ wjob'[r] = wjob[r] /\ routine'[r] = routine[r]
                         \/ wjob'[r] = None /\ routine'[r] = None
    BY <1>1, Zenon
  <2>3. \A u \in Mothers, r \in Slots :
          Mine(u, r)' <=> JobOf(routine'[r], u) \/ JobOf(wjob'[r], u)
    BY Zenon DEF Mine, JobOf
  <2> QED
    BY <2>1, <2>2, <2>3, Zenon DEF Mine
<1>5. CancelInv'
  BY <1>1, Zenon DEF ThreadsInv, CoreInv, CancelInv
<1>6. SlotInv'
  BY <1>1, <1>2 DEF ThreadsInv, CoreInv, SlotInv
<1>7. HoldInv'
  <2>1. ASSUME NEW u \in Mothers PROVE Hold(u)'
    <3>1. Kept(u) /\ Hold(u) /\ slot[u] \in Slots
      BY <1>3, Shapes DEF ThreadsInv, CoreInv, HoldInv
    <3>2. mpc[u] \in {"locked", "wlocked", "assign"} => slot[u] # s
      BY <1>2, Holder, Zenon
    <3>3. mpc[u] = "assign" => /\ wpc'[slot[u]] = wpc[slot[u]]
                               /\ routine'[slot[u]] = routine[slot[u]]
      BY <1>1, <3>1, <3>2, Zenon
    <3> QED
      BY <1>1, <3>1, <3>3, KeptFacts, Zenon DEF Hold
  <2> QED
    BY <2>1 DEF HoldInv
<1>8. OwnerInv'
  BY <1>1, <1>4, Zenon DEF ThreadsInv, CoreInv, OwnerInv
<1>9. JobInv'
  BY <1>1, <1>2, Zenon DEF ThreadsInv, CoreInv, JobInv
<1>10. OnceInv'
  BY <1>1, <1>2 DEF ThreadsInv, CoreInv, OnceInv
<1>11. CallInv'
  BY <1>1, <1>3, <1>4, Numbers, KeptCall, Zenon DEF ThreadsInv, CoreInv, CallInv
<1> QED
  BY <1>5, <1>6, <1>7, <1>8, <1>9, <1>10, <1>11 DEF CoreInv

LEMMA WorkerUnlockKeeps ==
    ASSUME ThreadsInv, NEW s \in Slots, WorkerUnlock(s)
    PROVE  CoreInv'
<1>1. /\ wpc[s] = "cleaned" /\ inuse[s] = Worker(s)
  BY Zenon DEF ThreadsInv, CoreInv, SlotInv, WorkerUnlock
<1>2. /\ wpc'[s] = "lock" /\ inuse'[s] = None
      /\ \A r \in Slots \ {s} : wpc'[r] = wpc[r] /\ inuse'[r] = inuse[r]
      /\ UNCHANGED <<routine, parent, pending, shutdown, wjob, killed, slot, again,
                     calls, inCancel, rpc, accepted, ran>>
  BY <1>1, Names, Shapes, Zenon DEF ThreadsInv, WorkerUnlock, Unlocked, relVars
<1>3. \A u \in Mothers : Kept(u)
  <2>1. \A u \in Mothers : Woken(mpc[u], mpc'[u])
    BY BroadcastFacts, Zenon DEF WorkerUnlock, BothCvs
  <2> QED
    BY <1>2, <2>1, Zenon DEF Kept
<1>4. \A u, r : Mine(u, r)' => Mine(u, r)
  BY <1>2, Zenon DEF Mine, JobOf
<1>5. CancelInv'
  BY <1>2, Zenon DEF ThreadsInv, CoreInv, CancelInv
<1>6. SlotInv'
  BY <1>1, <1>2, Zenon DEF ThreadsInv, CoreInv, SlotInv
<1>7. HoldInv'
  <2>1. ASSUME NEW u \in Mothers PROVE Hold(u)'
    <3>1. Kept(u) /\ Hold(u) /\ slot[u] \in Slots
      BY <1>3, Shapes, Zenon DEF ThreadsInv, CoreInv, HoldInv
    <3>2. mpc[u] \in {"locked", "wlocked", "assign"} => slot[u] # s
      BY <1>1, Holder, Zenon
    <3>3. mpc[u] \in {"locked", "wlocked", "assign"} =>
            /\ inuse'[slot[u]] = inuse[slot[u]]
            /\ wpc'[slot[u]] = wpc[slot[u]]
      BY <1>2, <3>1, <3>2, Zenon
    <3> QED
      BY <1>2, <3>1, <3>3, KeptFacts DEF Hold
  <2> QED
    BY <2>1, Zenon DEF HoldInv
<1>8. OwnerInv'
  BY <1>2, <1>4, Zenon DEF ThreadsInv, CoreInv, OwnerInv
<1>9. JobInv' /\ OnceInv'
  BY <1>2, Zenon DEF ThreadsInv, CoreInv, JobInv, OnceInv
<1>10. CallInv'
  BY <1>2, <1>3, <1>4, KeptCall, Zenon DEF ThreadsInv, CoreInv, CallInv
<1> QED
  BY <1>5, <1>6, <1>7, <1>8, <1>9, <1>10, Zenon DEF CoreInv

(* thread_cleanup_full() of a slot whose worker is at its end or dead      *)
(* takes nothing from a mother that has the lock.                          *)
LEMMA CleanupKeeps ==
    ASSUME ThreadsInv, NEW s \in Slots, CleanupFull(s), inCancel,
           \/ wpc[s] = "exit" /\ wpc'[s] = "dead"
           \/ wpc[s] = "dead" /\ wpc'[s] = "dead",
           \A r \in Slots \ {s} : wpc'[r] = wpc[r],
           \A u \in Mothers : Kept(u),
           UNCHANGED <<wjob, killed, inCancel, accepted, ran>>
    PROVE  CoreInv'
<1>1. /\ inuse'[s] = Destroyed /\ routine'[s] = None
      /\ \A r \in Slots \ {s} : /\ inuse'[r] = inuse[r] /\ routine'[r] = routine[r]
                                /\ pending'[r] = pending[r]
      /\ UNCHANGED <<parent, shutdown>>
  BY Shapes, Zenon DEF ThreadsInv, CleanupFull
<1>2. wjob[s] = None /\ (wpc[s] = "exit" => shutdown[s])
  BY Zenon DEF ThreadsInv, CoreInv, SlotInv, CancelInv
<1>3. \A u \in Mothers, r \in Slots : r # s => (Mine(u, r)' => Mine(u, r))
  BY <1>1, Zenon DEF Mine, JobOf
<1>4. \A u \in Mothers, r \in Slots : r = s => ~Mine(u, r)'
  <2>1. \A u \in Mothers, r \in Slots :
          Mine(u, r)' <=> JobOf(routine'[r], u) \/ JobOf(wjob'[r], u)
    BY Zenon DEF Mine, JobOf
  <2> QED
    BY <1>1, <1>2, <2>1, NoJob, Zenon
<1>5. CancelInv'
  BY <1>1, Zenon DEF ThreadsInv, CoreInv, CancelInv
<1>6. SlotInv'
  BY <1>1, <1>2, Zenon DEF ThreadsInv, CoreInv, SlotInv
<1>7. HoldInv'
  <2>1. ASSUME NEW u \in Mothers PROVE Hold(u)'
    <3>1. Kept(u) /\ Hold(u) /\ slot[u] \in Slots
      BY Shapes, Zenon DEF ThreadsInv, CoreInv, HoldInv
    <3>2. CASE slot[u] # s
      BY <1>1, <3>1, <3>2, KeptFacts DEF Hold
    <3>3. CASE slot[u] = s
      <4>1. mpc[u] \in {"locked", "wlocked", "assign"} => shutdown[s] /\ mpc[u] # "assign"
        BY <3>3, Holder, Zenon
      <4> QED
        BY <1>1, <3>1, <3>3, <4>1, KeptFacts, Zenon DEF Hold
    <3> QED
      BY <3>2, <3>3, Zenon
  <2> QED
    BY <2>1, Zenon DEF HoldInv
<1>8. OwnerInv'
  BY <1>1, <1>3, <1>4, Zenon DEF ThreadsInv, CoreInv, OwnerInv
<1>9. JobInv' /\ OnceInv'
  BY <1>1, Zenon DEF ThreadsInv, CoreInv, JobInv, OnceInv
<1>10. CallInv'
  BY <1>3, <1>4, Numbers, KeptCall, Zenon DEF ThreadsInv, CoreInv, CallInv
<1> QED
  BY <1>5, <1>6, <1>7, <1>8, <1>9, <1>10, Zenon DEF CoreInv

LEMMA WorkerExitKeeps ==
    ASSUME ThreadsInv, NEW s \in Slots, WorkerExit(s)
    PROVE  CoreInv'
<1>1. /\ CleanupFull(s) /\ wpc[s] = "exit" /\ wpc'[s] = "dead"
      /\ \A r \in Slots \ {s} : wpc'[r] = wpc[r]
      /\ UNCHANGED <<wjob, killed, slot, again, calls, inCancel, accepted, ran>>
  BY Shapes, Zenon DEF ThreadsInv, WorkerExit, relVars
<1>2. inCancel
  BY <1>1, Zenon DEF ThreadsInv, CoreInv, CancelInv
<1>3. \A u \in Mothers : Kept(u)
  <2>1. \A u \in Mothers : Woken(mpc[u], mpc'[u])
    BY BroadcastFacts, Zenon DEF WorkerExit
  <2> QED
    BY <1>1, <2>1, Zenon DEF Kept
<1> QED
  BY <1>1, <1>2, <1>3, CleanupKeeps, Zenon

(* A worker that is cancelled dies with its lock.                          *)
LEMMA WorkerKilledKeeps ==
    ASSUME ThreadsInv, NEW s \in Slots, WorkerKilled(s)
    PROVE  CoreInv'
<1>1. /\ wpc[s] \in {"run", "cleaned"} /\ wpc'[s] = "dead" /\ wjob'[s] = None
      /\ s \in killed
      /\ \A r \in Slots \ {s} : wpc'[r] = wpc[r] /\ wjob'[r] = wjob[r]
      /\ UNCHANGED <<inuse, routine, parent, pending, shutdown, killed, mpc, slot,
                     again, calls, inCancel, rpc, accepted, ran>>
  BY Shapes, Zenon DEF ThreadsInv, WorkerKilled, slotVars, motherVars, relVars
<1>2. inCancel
  BY <1>1, Zenon DEF ThreadsInv, CoreInv, CancelInv
<1>3. \A u \in Mothers : Kept(u)
  BY <1>1, Zenon DEF Kept, Woken
<1>4. \A u \in Mothers, r \in Slots : Mine(u, r)' => Mine(u, r)
  <2>1. \A u \in Mothers, r \in Slots :
          Mine(u, r)' <=> JobOf(routine'[r], u) \/ JobOf(wjob'[r], u)
    BY Zenon DEF Mine, JobOf
  <2> QED
    BY <1>1, <2>1, NoJob, Zenon DEF Mine
<1>5. CancelInv'
  BY <1>1, Zenon DEF ThreadsInv, CoreInv, CancelInv
<1>6. SlotInv'
  BY <1>1, Zenon DEF ThreadsInv, CoreInv, SlotInv
<1>7. HoldInv'
  <2>1. ASSUME NEW u \in Mothers PROVE Hold(u)'
    <3>1. Hold(u) /\ slot[u] \in Slots
      BY Shapes, Zenon DEF ThreadsInv, CoreInv, HoldInv
    <3>2. wpc'[slot[u]] = "exit" => wpc[slot[u]] = "exit"
      BY <1>1, <3>1, Zenon
    <3> QED
      BY <1>1, <3>1, <3>2, Zenon DEF Hold
  <2> QED
    BY <2>1 DEF HoldInv
<1>8. OwnerInv'
  BY <1>1, <1>4, Zenon DEF ThreadsInv, CoreInv, OwnerInv
<1>9. JobInv' /\ OnceInv'
  BY <1>1, <1>2, Zenon DEF ThreadsInv, CoreInv, JobInv, OnceInv
<1>10. CallInv'
  BY <1>1, <1>3, <1>4, Numbers, KeptCall, Zenon DEF ThreadsInv, CoreInv, CallInv
<1> QED
  BY <1>5, <1>6, <1>7, <1>8, <1>9, <1>10 DEF CoreInv

-----------------------------------------------------------------------------
(* The release of the pool                                                 *)

LEMMA StopKeeps ==
    ASSUME ThreadsInv, StopSpawning \/ Kill
    PROVE  CoreInv'
<1>1. /\ inCancel'
      /\ UNCHANGED <<inuse, routine, parent, pending, shutdown, wpc, wjob, mpc,
                     slot, again, calls, accepted, ran>>
  BY Zenon DEF ThreadsInv, CoreInv, CancelInv, StopSpawning, Kill, slotVars, workVars, motherVars
<1>2. \A u, r : Mine(u, r)' <=> Mine(u, r)
  BY <1>1, Zenon DEF Mine, JobOf
<1>3. CancelInv' /\ SlotInv' /\ OnceInv'
  BY <1>1, Zenon DEF ThreadsInv, CoreInv, CancelInv, SlotInv, OnceInv
<1>4. HoldInv' /\ JobInv'
  BY <1>1, Zenon DEF ThreadsInv, CoreInv, HoldInv, Hold, JobInv
<1>5. OwnerInv'
  BY <1>1, <1>2, Zenon DEF ThreadsInv, CoreInv, OwnerInv
<1>6. CallInv'
  <2>1. \A u \in Mothers : Kept(u)
    BY <1>1, Zenon DEF Kept, Woken
  <2> QED
    BY <1>1, <1>2, <2>1, KeptCall, Zenon DEF ThreadsInv, CoreInv, CallInv
<1> QED
  BY <1>3, <1>4, <1>5, <1>6, Zenon DEF CoreInv

LEMMA MarkKeeps ==
    ASSUME ThreadsInv, Mark
    PROVE  CoreInv'
<1>0. PICK s \in Slots : s = rslot
  BY Shapes, Zenon DEF ThreadsInv
<1>1. /\ shutdown'[s] = TRUE /\ routine'[s] = None
      /\ \A r \in Slots \ {s} : shutdown'[r] = shutdown[r] /\ routine'[r] = routine[r]
      /\ \A r \in Slots : wpc'[r] = wpc[r] \/ (wpc[r] = "idle" /\ wpc'[r] = "lock")
      /\ UNCHANGED <<inuse, parent, pending, wjob, killed, slot, again, calls,
                     inCancel, accepted, ran>>
  BY <1>0, Shapes, Zenon DEF ThreadsInv, Mark, WakeWorker
<1>2. inCancel
  BY Zenon DEF ThreadsInv, CoreInv, CancelInv, Mark
<1>3. \A u \in Mothers : Kept(u)
  <2>1. \A u \in Mothers : Woken(mpc[u], mpc'[u])
    <3>1. UNCHANGED mpc \/ Broadcast({"wasleep"}, mpc)
      BY Zenon DEF Mark
    <3>2. {"wasleep"} \in SUBSET BothCvs
      BY Zenon DEF BothCvs
    <3> QED
      BY <3>1, <3>2, BroadcastFacts, Zenon DEF Woken
  <2> QED
    BY <1>1, <2>1, Zenon DEF Kept
<1>4. \A u \in Mothers, r \in Slots : Mine(u, r)' => Mine(u, r)
  <2>1. \A u \in Mothers, r \in Slots :
          Mine(u, r)' <=> JobOf(routine'[r], u) \/ JobOf(wjob'[r], u)
    BY Zenon DEF Mine, JobOf
  <2> QED
    BY <1>1, <2>1, NoJob, Zenon DEF Mine
<1>5. CancelInv'
  BY <1>1, <1>2 DEF ThreadsInv, CoreInv, CancelInv
<1>6. SlotInv'
  <2>1. \A r \in Slots : wpc'[r] \in {"run", "cleaned"} => inuse'[r] = Worker(r)
    BY <1>1, Zenon DEF ThreadsInv, CoreInv, SlotInv
  <2>2. \A r \in Slots : wpc'[r] = "dead" => inuse'[r] \in {Worker(r), Destroyed}
    BY <1>1 DEF ThreadsInv, CoreInv, SlotInv
  <2>3. \A r \in Slots : wjob'[r] # None <=> wpc'[r] = "run"
    BY <1>1 DEF ThreadsInv, CoreInv, SlotInv
  <2> QED
    BY <2>1, <2>2, <2>3, Zenon DEF SlotInv
<1>7. HoldInv'
  <2>1. ASSUME NEW u \in Mothers PROVE Hold(u)'
    <3>1. Kept(u) /\ Hold(u) /\ slot[u] \in Slots
      BY <1>3, Shapes, Zenon DEF ThreadsInv, CoreInv, HoldInv
    <3>2. /\ wpc'[slot[u]] = "exit" => wpc[slot[u]] = "exit"
          /\ shutdown[slot[u]] => shutdown'[slot[u]]
          /\ routine[slot[u]] = None => routine'[slot[u]] = None
      BY <1>1, <3>1, Zenon
    <3> QED
      BY <1>1, <3>1, <3>2, KeptFacts, Zenon DEF Hold
  <2> QED
    BY <2>1, Zenon DEF HoldInv
<1>8. OwnerInv'
  BY <1>1, <1>4, Zenon DEF ThreadsInv, CoreInv, OwnerInv
<1>9. JobInv' /\ OnceInv'
  BY <1>1, <1>2, Zenon DEF ThreadsInv, CoreInv, JobInv, OnceInv
<1>10. CallInv'
  BY <1>1, <1>3, <1>4, Numbers, KeptCall, Zenon DEF ThreadsInv, CoreInv, CallInv
<1> QED
  BY <1>5, <1>6, <1>7, <1>8, <1>9, <1>10, Zenon DEF CoreInv

LEMMA JoinKeeps ==
    ASSUME ThreadsInv, Join
    PROVE  CoreInv'
<1>0. PICK s \in Slots : s = rslot
  BY Shapes DEF ThreadsInv
<1>1. /\ CleanupFull(s) /\ wpc[s] = "dead" /\ inCancel
      /\ UNCHANGED <<wpc, wjob, killed, slot, again, calls, inCancel, accepted, ran>>
  BY <1>0, Zenon DEF ThreadsInv, CoreInv, CancelInv, Join, workVars
<1>2. \A u \in Mothers : Kept(u)
  <2>1. \A u \in Mothers : Woken(mpc[u], mpc'[u])
    BY BroadcastFacts, Zenon DEF Join
  <2> QED
    BY <1>1, <2>1, Zenon DEF Kept
<1> QED
  BY <1>1, <1>2, CleanupKeeps, Zenon

-----------------------------------------------------------------------------
(* The types                                                               *)

LEMMA PlaceTypes ==
    ASSUME ThreadsTypeOK, NEW m \in Mothers
    PROVE  /\ \A p \in MotherPlaces : Goto(m, p) => mpc' \in [Mothers -> MotherPlaces]
           /\ \A p \in MotherPlaces :
                [mpc EXCEPT ![m] = p] \in [Mothers -> MotherPlaces]
           /\ Leave(m) => /\ mpc' \in [Mothers -> MotherPlaces]
                          /\ slot' \in [Mothers -> Slots]
                          /\ again' \in [Mothers -> BOOLEAN]
<1>1. \A p \in MotherPlaces : [mpc EXCEPT ![m] = p] \in [Mothers -> MotherPlaces]
  BY Zenon DEF ThreadsTypeOK
<1>2. "idle" \in MotherPlaces
  BY Zenon DEF MotherPlaces
<1>3. Leave(m) => slot' \in [Mothers -> Slots] /\ again' \in [Mothers -> BOOLEAN]
  BY Numbers, Zenon DEF ThreadsTypeOK, Leave
<1> QED
  BY <1>1, <1>2, <1>3 DEF Goto, Leave

LEMMA WakeType ==
    ASSUME ThreadsTypeOK, NEW s \in Slots, WakeWorker(s)
    PROVE  wpc' \in [Slots -> WorkerPlaces]
BY Zenon DEF ThreadsTypeOK, WakeWorker, WorkerPlaces

LEMMA BroadcastType ==
    ASSUME NEW places \in [Mothers -> MotherPlaces], NEW cvs, Broadcast(cvs, places)
    PROVE  mpc' \in [Mothers -> MotherPlaces]
BY Zenon DEF Broadcast, MotherPlaces

LEMMA LockTypes ==
    ASSUME ThreadsTypeOK, NEW s \in Slots
    PROVE  /\ \A o \in Owners : [inuse EXCEPT ![s] = o] \in [Slots -> Owners]
           /\ [inuse EXCEPT ![s] = Unlocked(s)] \in [Slots -> Owners]
           /\ Mothers \subseteq Owners /\ Worker(s) \in Owners
           /\ CleanupFull(s) => /\ inuse' \in [Slots -> Owners]
                                /\ routine' \in [Slots -> Jobs \cup {None}]
                                /\ pending' \in [Slots -> BOOLEAN]
                                /\ scheduled' \in [Slots -> BOOLEAN]
<1>1. \A o \in Owners : [inuse EXCEPT ![s] = o] \in [Slots -> Owners]
  BY Zenon DEF ThreadsTypeOK
<1>2. /\ Mothers \subseteq Owners /\ Worker(s) \in Owners
      /\ None \in Owners /\ Destroyed \in Owners
  BY Zenon DEF Owners
<1>3. Unlocked(s) \in Owners
  BY <1>2, Zenon DEF Unlocked
<1>4. CleanupFull(s) => /\ routine' \in [Slots -> Jobs \cup {None}]
                        /\ pending' \in [Slots -> BOOLEAN]
                        /\ scheduled' \in [Slots -> BOOLEAN]
  BY DEF ThreadsTypeOK, CleanupFull
<1>5. CleanupFull(s) => inuse' \in [Slots -> Owners]
  BY <1>1, <1>2, Zenon DEF CleanupFull
<1> QED
  BY <1>1, <1>2, <1>3, <1>4, <1>5, Zenon

LEMMA CallsType ==
    ASSUME ThreadsTypeOK, NEW m \in Mothers, calls[m] < MaxCalls[m],
           calls' = [calls EXCEPT ![m] = @ + 1]
    PROVE  /\ calls' \in [Mothers -> Nat]
           /\ \A u \in Mothers : calls'[u] <= MaxCalls[u]
<1>1. calls \in [Mothers -> Nat] /\ calls[m] \in Nat /\ MaxCalls[m] \in Nat
  BY ThreadsAssumption, Zenon DEF ThreadsTypeOK
<1>2. calls[m] + 1 \in Nat /\ calls[m] + 1 <= MaxCalls[m]
  BY <1>1
<1>3. \A u \in Mothers : calls'[u] = IF u = m THEN calls[m] + 1 ELSE calls[u]
  BY <1>1, Zenon
<1>4. \A u \in Mothers : calls[u] <= MaxCalls[u]
  BY Zenon DEF ThreadsTypeOK
<1> QED
  BY <1>1, <1>2, <1>3, <1>4, Zenon

LEMMA NextTypes ==
    ASSUME ThreadsTypeOK, NEW m \in Mothers
    PROVE  /\ NextSlot(m) => /\ mpc' \in [Mothers -> MotherPlaces]
                             /\ slot' \in [Mothers -> Slots]
           /\ \A w \in BOOLEAN : NextWait(m, w) =>
                /\ mpc' \in [Mothers -> MotherPlaces]
                /\ slot[m] \in Regular => slot' \in [Mothers -> Slots]
                /\ again' \in [Mothers -> BOOLEAN]
<1>1. {"block", "scan", "wscan", "wblock", "wdone"} \subseteq MotherPlaces
  BY Zenon DEF MotherPlaces
<1>2. /\ slot \in [Mothers -> Slots] /\ slot[m] \in Slots
      /\ \A r \in Slots : [slot EXCEPT ![m] = r] \in [Mothers -> Slots]
  BY Zenon DEF ThreadsTypeOK
<1>3. NextSlot(m) => slot' \in [Mothers -> Slots]
  <2>1. NextSlot(m) => \/ slot' = slot
                       \/ /\ slot[m] # Upper(slot[m])
                          /\ slot' = [slot EXCEPT ![m] = slot[m] + 1]
    BY Zenon DEF NextSlot
  <2>2. slot[m] # Upper(slot[m]) => slot[m] + 1 \in Slots
    BY <1>2, Numbers, Zenon
  <2> QED
    BY <1>2, <2>1, <2>2, Zenon
<1>4. NextSlot(m) => Goto(m, "block") \/ Goto(m, "scan")
  BY Zenon DEF NextSlot
<1>5. ASSUME NEW w \in BOOLEAN, NextWait(m, w)
      PROVE  /\ Goto(m, "wscan") \/ Goto(m, "wblock") \/ Goto(m, "wdone")
             /\ slot[m] \in Regular => slot' \in [Mothers -> Slots]
             /\ again' \in [Mothers -> BOOLEAN]
  <2>1. \/ /\ slot[m] < MAX_THREADS /\ Goto(m, "wscan")
           /\ slot' = [slot EXCEPT ![m] = slot[m] + 1]
           /\ again' = [again EXCEPT ![m] = w]
        \/ /\ Goto(m, "wblock") \/ Goto(m, "wdone")
           /\ slot' = [slot EXCEPT ![m] = 1]
           /\ again' = [again EXCEPT ![m] = FALSE]
    BY <1>5, Zenon DEF NextWait
  <2>2. 1 \in Slots /\ (slot[m] \in Regular /\ slot[m] < MAX_THREADS =>
                           slot[m] + 1 \in Slots)
    BY Numbers, Zenon
  <2>3. again' \in [Mothers -> BOOLEAN]
    BY <2>1, Zenon DEF ThreadsTypeOK
  <2> QED
    BY <1>2, <2>1, <2>2, <2>3
<1>6. \A p \in MotherPlaces : Goto(m, p) => mpc' \in [Mothers -> MotherPlaces]
  BY PlaceTypes, Zenon
<1> QED
  BY <1>1, <1>3, <1>4, <1>5, <1>6, Zenon


LEMMA StartTypes ==
    ASSUME ThreadsInv, NEW m \in Mothers,
           \/ ThreadStart(m) \/ TrySlot(m) \/ StartRefused(m) \/ SkipSlot(m)
           \/ UseSlot(m) \/ CreateFails(m) \/ Assign(m) \/ Block(m)
    PROVE  ThreadsTypeOK'
<1> USE DEF ThreadsInv
<1>0. PICK s \in Slots : s = slot[m]
  BY Shapes, Zenon
<1>p. /\ {"idle", "scan", "locked", "assign", "asleep"} \subseteq MotherPlaces
      /\ "lock" \in WorkerPlaces /\ 1 \in Slots
  BY Numbers, Zenon DEF MotherPlaces, WorkerPlaces
<1>1. CASE ThreadStart(m)
  <2>1. mpc' \in [Mothers -> MotherPlaces]
    BY <1>0, <1>p, <1>1, PlaceTypes, Zenon DEF ThreadStart
  <2>2. slot' \in [Mothers -> Slots]
    BY <1>p, <1>1 DEF ThreadsTypeOK, ThreadStart, Slots
  <2>3. /\ calls' \in [Mothers -> Nat]
        /\ \A u \in Mothers : calls'[u] <= MaxCalls[u]
    BY <1>1, CallsType, Zenon DEF ThreadStart
  <2> QED
    BY <1>1, <2>1, <2>2, <2>3, Zenon
       DEF ThreadsTypeOK, ThreadStart, slotVars, workVars, motherVars, relVars
<1>2. CASE TrySlot(m)
  <2>1. mpc' \in [Mothers -> MotherPlaces] /\ slot' \in [Mothers -> Slots]
    BY <1>0, <1>p, <1>2, PlaceTypes, NextTypes, Zenon DEF TrySlot, ThreadsTypeOK
  <2>2. inuse' \in [Slots -> Owners]
    <3>1. inuse' = inuse \/ inuse' = [inuse EXCEPT ![s] = m]
      BY <1>0, <1>2, Zenon DEF TrySlot
    <3> QED
      BY <3>1, LockTypes DEF ThreadsTypeOK
  <2> QED
    BY <1>2, <2>1, <2>2, Zenon
       DEF ThreadsTypeOK, TrySlot, slotVars, workVars, motherVars, relVars
<1>3. CASE StartRefused(m)
  <2>1. /\ mpc' \in [Mothers -> MotherPlaces] /\ slot' \in [Mothers -> Slots]
        /\ again' \in [Mothers -> BOOLEAN]
    BY <1>0, <1>3, PlaceTypes, Zenon DEF StartRefused
  <2> QED
    BY <1>3, <2>1, Zenon
       DEF ThreadsTypeOK, StartRefused, slotVars, workVars, motherVars, relVars
<1>4. CASE SkipSlot(m)
  <2>1. mpc' \in [Mothers -> MotherPlaces] /\ slot' \in [Mothers -> Slots]
    BY <1>4, NextTypes, Zenon DEF SkipSlot
  <2>2. inuse' \in [Slots -> Owners] /\ wpc' \in [Slots -> WorkerPlaces]
    BY <1>0, <1>4, LockTypes, WakeType, Zenon DEF SkipSlot
  <2> QED
    BY <1>4, <2>1, <2>2, Zenon
       DEF ThreadsTypeOK, SkipSlot, slotVars, workVars, motherVars, relVars
<1>5. CASE UseSlot(m)
  <2>1. mpc' \in [Mothers -> MotherPlaces]
    BY <1>0, <1>p, <1>5, PlaceTypes, Zenon DEF UseSlot
  <2>2. pending' \in [Slots -> BOOLEAN] /\ wpc' \in [Slots -> WorkerPlaces]
    BY <1>0, <1>p, <1>5, Zenon DEF UseSlot, ThreadsTypeOK
  <2> QED
    BY <1>5, <2>1, <2>2, Zenon
       DEF ThreadsTypeOK, UseSlot, slotVars, workVars, motherVars, relVars
<1>6. CASE CreateFails(m)
  <2>1. mpc' \in [Mothers -> MotherPlaces]
    BY <1>0, <1>p, <1>6, PlaceTypes, BroadcastType, Zenon DEF CreateFails
  <2>2. slot' \in [Mothers -> Slots]
    BY <1>p, <1>6, Zenon DEF CreateFails, ThreadsTypeOK
  <2>3. /\ inuse' \in [Slots -> Owners] /\ routine' \in [Slots -> Jobs \cup {None}]
        /\ pending' \in [Slots -> BOOLEAN] /\ scheduled' \in [Slots -> BOOLEAN]
    BY <1>0, <1>6, LockTypes, Zenon DEF CreateFails
  <2> QED
    BY <1>6, <2>1, <2>2, <2>3, Zenon
       DEF ThreadsTypeOK, CreateFails, slotVars, workVars, motherVars, relVars, CleanupFull
<1>7. CASE Assign(m)
  <2>1. mpc[m] = "assign"
    BY <1>7, Zenon DEF Assign
  <2>2. Job(m) \in Jobs
    BY <2>1, NewJob, Zenon
  <2>3. mpc' \in [Mothers -> MotherPlaces]
    BY <1>0, <1>p, <1>7, PlaceTypes, BroadcastType, Zenon DEF Assign
  <2>4. slot' \in [Mothers -> Slots]
    BY <1>p, <1>7, Zenon DEF Assign, ThreadsTypeOK
  <2>5. inuse' \in [Slots -> Owners] /\ wpc' \in [Slots -> WorkerPlaces]
    BY <1>0, <1>7, LockTypes, WakeType, Zenon DEF Assign
  <2>6. /\ routine' \in [Slots -> Jobs \cup {None}] /\ parent' \in [Slots -> Mothers \cup {None}]
        /\ scheduled' \in [Slots -> BOOLEAN]
    BY <1>0, <2>2, <1>7, Zenon DEF Assign, ThreadsTypeOK
  <2>7. accepted' \subseteq Jobs
    BY <2>2, <1>7, Zenon DEF Assign, ThreadsTypeOK
  <2> QED
    BY <1>7, <2>3, <2>4, <2>5, <2>6, <2>7, Zenon
       DEF ThreadsTypeOK, Assign, slotVars, workVars, motherVars, relVars
<1>8. CASE Block(m)
  <2>1. mpc' \in [Mothers -> MotherPlaces]
    BY <1>0, <1>p, <1>8, PlaceTypes, Zenon DEF Block
  <2>2. slot' \in [Mothers -> Slots]
    BY <1>p, <1>8, Zenon DEF Block, ThreadsTypeOK
  <2> QED
    BY <1>8, <2>1, <2>2, Zenon
       DEF ThreadsTypeOK, Block, slotVars, workVars, motherVars, relVars
<1> QED
  BY <1>1, <1>2, <1>3, <1>4, <1>5, <1>6, <1>7, <1>8, Zenon

LEMMA WaitTypes ==
    ASSUME ThreadsInv, NEW m \in Mothers,
           \/ ThreadWait(m) \/ WaitSlot(m) \/ WaitRefused(m) \/ WaitLocked(m)
           \/ WaitBlock(m) \/ WaitReturn(m) \/ Spurious(m)
    PROVE  ThreadsTypeOK'
<1> USE DEF ThreadsInv
<1>0. PICK s \in Slots : s = slot[m]
  BY Shapes, Zenon
<1>p. {"idle", "scan", "wscan", "wlocked", "wasleep"} \subseteq MotherPlaces
  BY Zenon DEF MotherPlaces
<1>w. mpc[m] \in Waiting => slot[m] \in Regular
  BY Zenon DEF CoreInv, CallInv, Wait
<1>1. CASE ThreadWait(m)
  <2>1. mpc' \in [Mothers -> MotherPlaces]
    BY <1>0, <1>p, <1>1, PlaceTypes, Zenon DEF ThreadWait
  <2>2. /\ calls' \in [Mothers -> Nat]
        /\ \A u \in Mothers : calls'[u] <= MaxCalls[u]
    BY <1>1, CallsType, Zenon DEF ThreadWait
  <2> QED
    BY <1>1, <2>1, <2>2, Zenon
       DEF ThreadsTypeOK, ThreadWait, slotVars, workVars, motherVars, relVars
<1>2. CASE WaitSlot(m)
  <2>1. /\ again[m] \in BOOLEAN /\ pending[s] \in BOOLEAN
        /\ slot[m] \in Regular
    BY <1>w, <1>2, Zenon DEF WaitSlot, Waiting, ThreadsTypeOK
  <2>2. \/ Goto(m, "wlocked") /\ UNCHANGED <<slot, again>>
        \/ \E w \in BOOLEAN : NextWait(m, w)
    BY <2>1, <1>2, Zenon DEF WaitSlot
  <2>3. /\ mpc' \in [Mothers -> MotherPlaces] /\ slot' \in [Mothers -> Slots]
        /\ again' \in [Mothers -> BOOLEAN]
    BY <1>0, <1>p, <2>1, <2>2, PlaceTypes, NextTypes DEF ThreadsTypeOK
  <2>4. inuse' \in [Slots -> Owners]
    <3>1. inuse' = inuse \/ inuse' = [inuse EXCEPT ![s] = m]
      BY <1>0, <1>2, Zenon DEF WaitSlot
    <3> QED
      BY <3>1, LockTypes DEF ThreadsTypeOK
  <2> QED
    BY <1>2, <2>3, <2>4, Zenon
       DEF ThreadsTypeOK, WaitSlot, slotVars, workVars, motherVars, relVars
<1>3. CASE WaitRefused(m)
  <2>1. /\ mpc' \in [Mothers -> MotherPlaces] /\ slot' \in [Mothers -> Slots]
        /\ again' \in [Mothers -> BOOLEAN]
    BY <1>0, <1>3, PlaceTypes, Zenon DEF WaitRefused
  <2> QED
    BY <1>3, <2>1, Zenon
       DEF ThreadsTypeOK, WaitRefused, slotVars, workVars, motherVars, relVars
<1>4. CASE WaitLocked(m)
  <2>1. again[m] \in BOOLEAN /\ slot[m] \in Regular
    BY <1>w, <1>4, Zenon DEF WaitLocked, Waiting, ThreadsTypeOK
  <2>2. \E w \in BOOLEAN : NextWait(m, w)
    BY <2>1, <1>4, Zenon DEF WaitLocked
  <2>3. /\ mpc' \in [Mothers -> MotherPlaces] /\ slot' \in [Mothers -> Slots]
        /\ again' \in [Mothers -> BOOLEAN]
    BY <2>1, <2>2, NextTypes, Zenon
  <2>4. inuse' \in [Slots -> Owners]
    BY <1>0, <1>4, LockTypes, Zenon DEF WaitLocked
  <2>5. scheduled' \in [Slots -> BOOLEAN]
    BY <1>0, <1>4, Zenon DEF WaitLocked, ThreadsTypeOK
  <2> QED
    BY <1>4, <2>3, <2>4, <2>5, Zenon
       DEF ThreadsTypeOK, WaitLocked, slotVars, workVars, motherVars, relVars
<1>5. CASE WaitBlock(m)
  <2>1. mpc' \in [Mothers -> MotherPlaces]
    BY <1>0, <1>p, <1>5, PlaceTypes, Zenon DEF WaitBlock
  <2> QED
    BY <1>5, <2>1, Zenon
       DEF ThreadsTypeOK, WaitBlock, slotVars, workVars, motherVars, relVars
<1>6. CASE WaitReturn(m)
  <2>1. mpc' \in [Mothers -> MotherPlaces]
    BY <1>0, <1>p, <1>6, PlaceTypes, Zenon DEF WaitReturn
  <2> QED
    BY <1>6, <2>1, Zenon
       DEF ThreadsTypeOK, WaitReturn, slotVars, workVars, motherVars, relVars
<1>7. CASE Spurious(m)
  <2>1. mpc' \in [Mothers -> MotherPlaces]
    BY <1>0, <1>p, <1>7, PlaceTypes, Zenon DEF Spurious
  <2> QED
    BY <1>7, <2>1, Zenon
       DEF ThreadsTypeOK, Spurious, slotVars, workVars, motherVars, relVars
<1> QED
  BY <1>1, <1>2, <1>3, <1>4, <1>5, <1>6, <1>7, Zenon

LEMMA WorkerTypes ==
    ASSUME ThreadsInv, NEW s \in Slots, WorkerStep(s)
    PROVE  ThreadsTypeOK'
<1> USE DEF ThreadsInv
<1>p. {"lock", "run", "cleaned", "idle", "exit", "dead"} \subseteq WorkerPlaces
  BY Zenon DEF WorkerPlaces
<1>w. \A p \in WorkerPlaces : [wpc EXCEPT ![s] = p] \in [Slots -> WorkerPlaces]
  BY Zenon DEF ThreadsTypeOK
<1>m. mpc \in [Mothers -> MotherPlaces]
  BY Zenon DEF ThreadsTypeOK
<1>1. CASE WorkerLock(s)
  <2>1. wpc' \in [Slots -> WorkerPlaces]
    BY <1>p, <1>w, <1>1, Zenon DEF WorkerLock
  <2>2. inuse' \in [Slots -> Owners] /\ wjob' \in [Slots -> Jobs \cup {None}]
    <3>1. /\ inuse' = inuse \/ inuse' = [inuse EXCEPT ![s] = Worker(s)]
          /\ wjob' = wjob \/ wjob' = [wjob EXCEPT ![s] = routine[s]]
      BY <1>1, Zenon DEF WorkerLock
    <3>2. wjob' \in [Slots -> Jobs \cup {None}]
      BY <3>1 DEF ThreadsTypeOK
    <3> QED
      BY <3>1, <3>2, LockTypes DEF ThreadsTypeOK
  <2> QED
    BY <1>1, <2>1, <2>2, Zenon
       DEF ThreadsTypeOK, WorkerLock, slotVars, workVars, motherVars, relVars
<1>2. CASE JobDone(s)
  <2>1. wjob[s] \in Jobs
    BY <1>2, Zenon DEF JobDone, CoreInv, SlotInv, ThreadsTypeOK
  <2>2. wpc' \in [Slots -> WorkerPlaces] /\ mpc' \in [Mothers -> MotherPlaces]
    BY <1>p, <1>w, <1>m, <1>2, BroadcastType, Zenon DEF JobDone
  <2>3. /\ routine' \in [Slots -> Jobs \cup {None}] /\ wjob' \in [Slots -> Jobs \cup {None}]
        /\ scheduled' \in [Slots -> BOOLEAN]
    BY <1>2, Zenon DEF JobDone, ThreadsTypeOK
  <2>4. ran' \subseteq Jobs
    BY <2>1, <1>2, Zenon DEF JobDone, ThreadsTypeOK
  <2> QED
    BY <1>2, <2>2, <2>3, <2>4, Zenon
       DEF ThreadsTypeOK, JobDone, slotVars, workVars, motherVars, relVars
<1>3. CASE WorkerUnlock(s)
  <2>1. wpc' \in [Slots -> WorkerPlaces] /\ mpc' \in [Mothers -> MotherPlaces]
    BY <1>p, <1>w, <1>m, <1>3, BroadcastType, Zenon DEF WorkerUnlock
  <2>2. inuse' \in [Slots -> Owners]
    BY <1>3, LockTypes, Zenon DEF WorkerUnlock
  <2> QED
    BY <1>3, <2>1, <2>2, Zenon
       DEF ThreadsTypeOK, WorkerUnlock, slotVars, workVars, motherVars, relVars
<1>4. CASE WorkerExit(s)
  <2>1. wpc' \in [Slots -> WorkerPlaces] /\ mpc' \in [Mothers -> MotherPlaces]
    BY <1>p, <1>w, <1>m, <1>4, BroadcastType, Zenon DEF WorkerExit
  <2>2. /\ inuse' \in [Slots -> Owners] /\ routine' \in [Slots -> Jobs \cup {None}]
        /\ pending' \in [Slots -> BOOLEAN] /\ scheduled' \in [Slots -> BOOLEAN]
    BY <1>4, LockTypes, Zenon DEF WorkerExit
  <2> QED
    BY <1>4, <2>1, <2>2, Zenon
       DEF ThreadsTypeOK, WorkerExit, slotVars, workVars, motherVars, relVars, CleanupFull
<1>5. CASE WorkerKilled(s)
  <2>1. wpc' \in [Slots -> WorkerPlaces]
    BY <1>p, <1>w, <1>5, Zenon DEF WorkerKilled
  <2>2. wjob' \in [Slots -> Jobs \cup {None}]
    BY <1>5, Zenon DEF WorkerKilled, ThreadsTypeOK
  <2> QED
    BY <1>5, <2>1, <2>2, Zenon
       DEF ThreadsTypeOK, WorkerKilled, slotVars, workVars, motherVars, relVars
<1> QED
  BY <1>1, <1>2, <1>3, <1>4, <1>5, Zenon DEF WorkerStep

LEMMA ReleaseTypes ==
    ASSUME ThreadsInv, StopSpawning \/ Mark \/ Kill \/ Join
    PROVE  ThreadsTypeOK'
<1> USE DEF ThreadsInv
<1>0. PICK s \in Slots : s = rslot /\ s \in Regular
  BY Shapes, Zenon DEF ThreadsTypeOK
<1>m. mpc \in [Mothers -> MotherPlaces]
  BY Zenon DEF ThreadsTypeOK
<1>n. rslot \in Regular /\ (rslot < MAX_THREADS => rslot + 1 \in Regular) /\ 1 \in Regular
  BY Numbers, Zenon DEF ThreadsTypeOK
<1>k. NextKill => rslot' \in Regular /\ rpc' \in {"kill", "done"}
  BY <1>n, Zenon DEF NextKill
<1>1. CASE StopSpawning
  <2>1. inCancel' \in BOOLEAN /\ rpc' \in {"off", "mark", "kill", "join", "done"}
    BY <1>1, Zenon DEF StopSpawning
  <2> QED
    BY <1>1, <2>1, Zenon
       DEF ThreadsTypeOK, StopSpawning, slotVars, workVars, motherVars, relVars
<1>2. CASE Mark
  <2>1. WakeWorker(s)
    BY <1>0, <1>2, Zenon DEF Mark
  <2>2. mpc' \in [Mothers -> MotherPlaces]
    BY <1>m, <1>2, BroadcastType, Zenon DEF Mark
  <2>3. wpc' \in [Slots -> WorkerPlaces]
    BY <2>1, WakeType, Zenon
  <2>4. shutdown' \in [Slots -> BOOLEAN] /\ routine' \in [Slots -> Jobs \cup {None}]
    BY <1>0, <1>2, Zenon DEF Mark, ThreadsTypeOK
  <2>5. rslot' \in Regular /\ rpc' \in {"off", "mark", "kill", "join", "done"}
    BY <1>n, <1>2, Zenon DEF Mark
  <2> QED
    BY <1>2, <2>2, <2>3, <2>4, <2>5, Zenon
       DEF ThreadsTypeOK, Mark, slotVars, workVars, motherVars, relVars
<1>3. CASE Kill
  <2>1. killed' \subseteq Regular
    BY <1>n, <1>3 DEF Kill, ThreadsTypeOK
  <2>2. rslot' \in Regular /\ rpc' \in {"off", "mark", "kill", "join", "done"}
    BY <1>n, <1>k, <1>3, Zenon DEF Kill
  <2> QED
    BY <1>3, <2>1, <2>2, Zenon
       DEF ThreadsTypeOK, Kill, slotVars, workVars, motherVars, relVars
<1>4. CASE Join
  <2>1. CleanupFull(s)
    BY <1>0, <1>4, Zenon DEF Join
  <2>2. mpc' \in [Mothers -> MotherPlaces]
    BY <1>m, <1>4, BroadcastType, Zenon DEF Join
  <2>3. /\ inuse' \in [Slots -> Owners] /\ routine' \in [Slots -> Jobs \cup {None}]
        /\ pending' \in [Slots -> BOOLEAN] /\ scheduled' \in [Slots -> BOOLEAN]
    BY <2>1, LockTypes, Zenon
  <2>4. rslot' \in Regular /\ rpc' \in {"off", "mark", "kill", "join", "done"}
    BY <1>k, <1>4, Zenon DEF Join
  <2> QED
    BY <1>4, <2>2, <2>3, <2>4, Zenon
       DEF ThreadsTypeOK, Join, slotVars, workVars, motherVars, relVars, CleanupFull
<1> QED
  BY <1>1, <1>2, <1>3, <1>4, Zenon

-----------------------------------------------------------------------------
(* The theorems                                                            *)

LEMMA InitInv == Init => ThreadsInv
<1> SUFFICES ASSUME Init PROVE ThreadsInv
  BY Zenon
<1>1. ThreadsTypeOK
  <2>1. 1 \in Slots /\ 1 \in Regular
    BY Numbers, Zenon
  <2>2. None \in Owners /\ "none" \in WorkerPlaces /\ "idle" \in MotherPlaces
    BY Zenon DEF Owners, WorkerPlaces, MotherPlaces
  <2>3. calls \in [Mothers -> Nat] /\ \A m \in Mothers : calls[m] <= MaxCalls[m]
    BY ThreadsAssumption DEF Init
  <2>4. /\ inuse \in [Slots -> Owners] /\ wpc \in [Slots -> WorkerPlaces]
        /\ mpc \in [Mothers -> MotherPlaces] /\ slot \in [Mothers -> Slots]
    BY <2>1, <2>2, Zenon DEF Init
  <2> QED
    BY <2>1, <2>3, <2>4, Zenon DEF Init, ThreadsTypeOK
<1>2. \A m \in Mothers, s \in Slots : ~Mine(m, s)
  BY NoJob, Zenon DEF Init, Mine
<1>3. CancelInv /\ SlotInv /\ HoldInv /\ JobInv /\ OnceInv
  BY Zenon DEF Init, CancelInv, SlotInv, HoldInv, Hold, JobInv, OnceInv
<1>4. OwnerInv
  BY <1>2, Zenon DEF OwnerInv
<1>5. CallInv
  BY <1>2, Numbers, Zenon DEF Init, CallInv, Fresh, Wait, Starting, Waiting
<1> QED
  BY <1>1, <1>3, <1>4, <1>5, Zenon DEF ThreadsInv, CoreInv

LEMMA StutterInv ==
    ASSUME ThreadsInv, UNCHANGED vars
    PROVE  ThreadsInv'
<1>1. UNCHANGED <<slotVars, workVars, motherVars, relVars, accepted, ran>>
  BY Zenon DEF vars
<1>2. \A u, r : Mine(u, r)' <=> Mine(u, r)
  BY <1>1, Zenon DEF slotVars, workVars, Mine, JobOf
<1>3. ThreadsTypeOK'
  BY <1>1, Zenon DEF ThreadsInv, ThreadsTypeOK, slotVars, workVars, motherVars, relVars
<1>4. CancelInv' /\ SlotInv' /\ HoldInv' /\ JobInv' /\ OnceInv'
  BY <1>1, Zenon DEF ThreadsInv, CoreInv, slotVars, workVars, motherVars, relVars,
                     CancelInv, SlotInv, HoldInv, Hold, JobInv, OnceInv
<1>5. OwnerInv' /\ CallInv'
  BY <1>1, <1>2, Zenon DEF ThreadsInv, CoreInv, slotVars, workVars, motherVars, relVars,
                           OwnerInv, CallInv, Fresh, Wait
<1> QED
  BY <1>3, <1>4, <1>5, Zenon DEF ThreadsInv, CoreInv

LEMMA NextInv ==
    ASSUME ThreadsInv, [Next]_vars
    PROVE  ThreadsInv'
<1>1. ASSUME NEW m \in Mothers,
             ThreadStart(m) \/ ThreadWait(m) \/ Spurious(m) \/ MotherStep(m)
      PROVE  CoreInv' /\ ThreadsTypeOK'
  <2>1. ThreadsTypeOK'
    BY <1>1, StartTypes, WaitTypes, Zenon DEF MotherStep
  <2>2. CoreInv'
    BY <1>1, QuietMother, TrySlotKeeps, SkipSlotKeeps, UseSlotKeeps, CreateFailsKeeps,
       AssignKeeps, WaitSlotKeeps, WaitLockedKeeps, Zenon DEF MotherStep
  <2> QED
    BY <2>1, <2>2, Zenon
<1>2. ASSUME NEW s \in Slots, WorkerStep(s)
      PROVE  CoreInv' /\ ThreadsTypeOK'
  BY <1>2, WorkerTypes, WorkerLockKeeps, JobDoneKeeps, WorkerUnlockKeeps,
     WorkerExitKeeps, WorkerKilledKeeps, Zenon DEF WorkerStep
<1>3. ASSUME StopSpawning \/ Mark \/ Kill \/ Join
      PROVE  CoreInv' /\ ThreadsTypeOK'
  BY <1>3, ReleaseTypes, StopKeeps, MarkKeeps, JoinKeeps, Zenon
<1>4. Next => ThreadsInv'
  BY <1>1, <1>2, <1>3, Zenon DEF Next, ThreadsInv
<1> QED
  BY <1>4, StutterInv, Zenon

(* The inductive invariant of the pool: locks, owners and jobs fit         *)
(* together in every state of thread_start(), thread_wait(), the workers   *)
(* and thread_release().                                                   *)
THEOREM ThreadsInvariant == Spec => []ThreadsInv
<1>1. ThreadsInv /\ [Next]_vars => ThreadsInv'
  BY NextInv, Zenon
<1> QED
  BY InitInv, <1>1, PTL DEF Spec

(* The types of threads[] and of the calls that work on it.                *)
THEOREM ThreadsTypeCorrect == Spec => []ThreadsTypeOK
<1>1. ThreadsInv => ThreadsTypeOK
  BY Zenon DEF ThreadsInv
<1> QED
  BY <1>1, ThreadsInvariant, PTL

Finite == INSTANCE FiniteSetTheorems

LEMMA SameCardinality == \A S : Cardinality(S) = Finite!Cardinality(S)
BY Zenon DEF Cardinality, Finite!Cardinality

LEMMA SmallSets == Cardinality({}) = 0 /\ \A x : Cardinality({x}) = 1
BY SameCardinality, Finite!FS_EmptySet, Finite!FS_Singleton, Zenon

(* One slot or none: the jobs that wait, and those that have run.          *)
LEMMA JobPlaces ==
    ASSUME ThreadsInv, ~inCancel, NEW j \in accepted
    PROVE  Cardinality({s \in Slots : routine[s] = j}) = IF j \in ran THEN 0 ELSE 1
<1>1. j \in Jobs /\ j # None
  BY ThreadsAssumption DEF ThreadsInv, ThreadsTypeOK
<1>2. CASE j \in ran
  <2>1. {s \in Slots : routine[s] = j} = {}
    BY <1>1, <1>2 DEF ThreadsInv, CoreInv, OnceInv
  <2> QED
    BY <1>2, <2>1, SmallSets, Zenon
<1>3. CASE j \notin ran
  <2>1. PICK s \in Slots : routine[s] = j
    BY <1>3, Zenon DEF ThreadsInv, CoreInv, OnceInv
  <2>2. {r \in Slots : routine[r] = j} = {s}
    BY <1>1, <2>1, Zenon DEF ThreadsInv, CoreInv, OnceInv
  <2> QED
    BY <1>3, <2>2, SmallSets, Zenon
<1> QED
  BY <1>2, <1>3, Zenon

(* A job that thread_start() returned 0 for is in exactly one slot until   *)
(* it has run and in none afterwards, as long as the pool is not released, *)
(* and thread_wait() returns when its caller has no job in the group any   *)
(* more, although it reads thread_pending and parent without the lock.     *)
THEOREM JobKeptCorrect == Spec => []JobKept
<1>1. ThreadsInv => JobKept
  <2> SUFFICES ASSUME ThreadsInv PROVE JobKept
    BY Zenon
  <2>1. \A m \in Mothers : mpc[m] = "wdone" => \A s \in Regular : ~Mine(m, s)
    BY Zenon DEF ThreadsInv, CoreInv, CallInv, Wait
  <2>2. \A m \in Mothers : mpc[m] = "wdone" =>
          \A s \in Regular, k \in 1..MaxCalls[m] :
            routine[s] # <<m, k>> /\ wjob[s] # <<m, k>>
    BY <2>1, Zenon DEF Mine, JobOf
  <2> QED
    BY <2>2, JobPlaces, Zenon DEF JobKept
<1> QED
  BY <1>1, ThreadsInvariant, PTL
=============================================================================
