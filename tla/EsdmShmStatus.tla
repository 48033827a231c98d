---------------------------- MODULE EsdmShmStatus ----------------------------
(***************************************************************************)
(* The status segment, esdm/esdm_shm_status.c: flags in shared memory and  *)
(* named semaphores by which the server tells the CUSE daemons and the     *)
(* entropy providers about a change.  Any thread of the server runs this   *)
(* code, without a lock, as the last part of another operation; spc is its *)
(* place in it.                                                            *)
(***************************************************************************)
EXTENDS Naturals, Sequences

CONSTANTS
    Server,             \* the threads of the server
    CuseSems            \* the semaphores of the CUSE daemons, in wake order

ASSUME StatusAssumption == CuseSems \in Seq(STRING) /\ CuseSems # <<>>

Sems == {CuseSems[i] : i \in DOMAIN CuseSems} \cup {"level"}

VARIABLES
    shmNeed, shmOper, suspend,  \* need_entropy, operational, suspend_trigger
    sem,                        \* the values of the semaphores
    spc, curr, new, ups         \* place, locals, semaphores still to raise

shmVars == <<shmNeed, shmOper, suspend, sem, spc, curr, new, ups>>

(* esdm_shm_status_up() and esdm_shm_wake_all()                            *)
StatusUp == CuseSems
WakeAll == CuseSems \o <<"level">>

ShmGoto(t, l) == spc' = [spc EXCEPT ![t] = l]

(* The semaphores `s` are still to be raised; the code is left after them. *)
RaiseNext(t, s) == /\ ups' = [ups EXCEPT ![t] = s]
                   /\ ShmGoto(t, IF s = <<>> THEN "out" ELSE "up")

ForgetLocals(t) == /\ curr' = [curr EXCEPT ![t] = FALSE]
                   /\ new' = [new EXCEPT ![t] = FALSE]

(* The level-triggered semaphore is raised as long as entropy is needed.   *)
LevelUp(t) == IF new[t] THEN <<"level">> ELSE <<>>

(* esdm_shm_status_set_need_entropy(): read the flag ...                   *)
NeedRead(t) ==
    /\ spc[t] = "need"
    /\ curr' = [curr EXCEPT ![t] = shmNeed]
    /\ ShmGoto(t, "test")
    /\ UNCHANGED <<shmNeed, shmOper, suspend, sem, new, ups>>

(* ... and the level of the auxiliary pool, `low` being the answer of      *)
(* esdm_need_entropy() at this moment ...                                  *)
NeedTest(t, low) ==
    /\ spc[t] = "test"
    /\ new' = [new EXCEPT ![t] = low]
    /\ ShmGoto(t, "store")
    /\ UNCHANGED <<shmNeed, shmOper, suspend, sem, curr, ups>>

(* Bug variant of NeedStore: the level semaphore is only raised when the   *)
(* flag changes.                                                           *)
BugNeedEdgeOnly(t) ==
    /\ spc[t] = "store"
    /\ shmNeed' = new[t]
    /\ RaiseNext(t, IF curr[t] # new[t] THEN StatusUp \o LevelUp(t) ELSE <<>>)
    /\ ForgetLocals(t)
    /\ UNCHANGED <<shmOper, suspend, sem>>

(* ... and store the flag when it is to change.                            *)
NeedStore(t) ==
    /\ spc[t] = "store"
    /\ IF curr[t] # new[t]
         THEN shmNeed' = new[t] /\ RaiseNext(t, StatusUp \o LevelUp(t))
         ELSE UNCHANGED shmNeed /\ RaiseNext(t, LevelUp(t))
    /\ ForgetLocals(t)
    /\ UNCHANGED <<shmOper, suspend, sem>>

(* _esdm_shm_status_up(): the value of the semaphore is looked at ...      *)
UpTest(t) ==
    /\ spc[t] = "up"
    /\ IF sem[Head(ups[t])] > 0
         THEN RaiseNext(t, Tail(ups[t]))
         ELSE ShmGoto(t, "post") /\ UNCHANGED ups
    /\ UNCHANGED <<shmNeed, shmOper, suspend, sem, curr, new>>

(* ... before it is raised.                                                *)
UpPost(t) ==
    /\ spc[t] = "post"
    /\ sem' = [sem EXCEPT ![Head(ups[t])] = @ + 1]
    /\ RaiseNext(t, Tail(ups[t]))
    /\ UNCHANGED <<shmNeed, shmOper, suspend, curr, new>>

NeedStep(t, low) == \/ NeedRead(t) \/ NeedTest(t, low) \/ NeedStore(t)
                    \/ UpTest(t) \/ UpPost(t)

(* esdm_shm_status_set_operational(), entered with new[t] = enabled.       *)
OperTest(t) ==
    /\ spc[t] = "oper"
    /\ IF shmOper # new[t]
         THEN ShmGoto(t, "operstore") /\ UNCHANGED <<curr, new>>
         ELSE ShmGoto(t, "out") /\ ForgetLocals(t)
    /\ UNCHANGED <<shmNeed, shmOper, suspend, sem, ups>>

(* Bug variant of OperStore: the daemons are not woken.                    *)
BugOperNoUp(t) ==
    /\ spc[t] = "operstore"
    /\ shmOper' = new[t]
    /\ ForgetLocals(t)
    /\ ShmGoto(t, "out")
    /\ UNCHANGED <<shmNeed, suspend, sem, ups>>

OperStore(t) ==
    /\ spc[t] = "operstore"
    /\ shmOper' = new[t]
    /\ ForgetLocals(t)
    /\ RaiseNext(t, StatusUp)
    /\ UNCHANGED <<shmNeed, suspend, sem>>

(* esdm_shm_status_set_suspend(): a signal handler of the server.          *)
SetSuspend(t) ==
    /\ spc[t] = "out"
    /\ suspend' = TRUE
    /\ RaiseNext(t, WakeAll)
    /\ UNCHANGED <<shmNeed, shmOper, sem, curr, new>>

OperStep(t) == OperTest(t) \/ OperStore(t)

(* The state esdm_shm_status_init() leaves for an empty auxiliary pool: it *)
(* told everyone that entropy is needed.                                   *)
ShmInit ==
    /\ shmNeed = TRUE /\ shmOper = FALSE /\ suspend = FALSE
    /\ sem = [s \in Sems |-> 1]
    /\ spc = [t \in Server |-> "out"]
    /\ curr = [t \in Server |-> FALSE] /\ new = [t \in Server |-> FALSE]
    /\ ups = [t \in Server |-> <<>>]

ShmTypeOK ==
    /\ shmNeed \in BOOLEAN /\ shmOper \in BOOLEAN /\ suspend \in BOOLEAN
    /\ sem \in [Sems -> Nat]
    /\ spc \in [Server -> {"out", "need", "test", "store", "oper",
                          "operstore", "up", "post"}]
    /\ curr \in [Server -> BOOLEAN] /\ new \in [Server -> BOOLEAN]
    /\ ups \in [Server -> Seq(Sems)]
=============================================================================
