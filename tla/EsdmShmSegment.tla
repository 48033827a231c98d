---------------------------- MODULE EsdmShmSegment ----------------------------
(***************************************************************************)
(* How the server, the CUSE daemon and an entropy provider come to the     *)
(* status segment and its semaphores: esdm_shm_status_init() and _exit()   *)
(* of esdm/esdm_shm_status.c, the client side in                           *)
(* frontends/cuse/cuse_device.c and, with the same code, in                *)
(* frontends/aux-client/esdm_aux_need_entropy.c.  No two system calls of   *)
(* different processes are ordered by a lock, and each process may be      *)
(* killed and started again at any point.                                  *)
(***************************************************************************)
EXTENDS Naturals, FiniteSets

CONSTANTS
    SServer, SCuse, SProvider,  \* the three processes
    MaxSegs,                    \* bound: segments ever created
    MaxSem,                     \* bound: values of a semaphore told apart
    NoSeg                       \* no segment, or no attachment

Procs == {SServer, SCuse, SProvider}
Clients == {SCuse, SProvider}
Segs == 0..MaxSegs
SmallSeg == 0                   \* left by a server with a shorter structure
Names == {"random", "urandom", "level"}

(* esdm_sem_name of the /dev/random daemon; the provider's semaphore       *)
SemOf(c) == IF c = SCuse THEN "random" ELSE "level"

VARIABLES
    key,            \* the segment the key leads to
    segs,           \* segments created so far
    att,            \* what each process is attached to
    id,             \* its local or static shmid
    at,             \* its place in the code
    version,        \* segments whose version field is set
    oper, need,     \* segments whose flag of that name is set
    sems,           \* values of the named semaphores that exist
    mine,           \* semaphores the server has opened
    slept,          \* history: clients asleep since before the server's sem_open
    exposed         \* history: an attached segment could be removed

segVars == <<key, segs, att, id, at, version, oper, need, sems, mine, slept,
             exposed>>

Attached(s) == {p \in Procs : att[p] = s}

(* A removed segment lives on until the last process detaches (Linux lets  *)
(* a process attach to it meanwhile).                                      *)
Exists(s) == s # NoSeg /\ (s = key \/ Attached(s) # {})

At(p, l) == at' = [at EXCEPT ![p] = l]
Id(p, s) == id' = [id EXCEPT ![p] = s]

(* IPC_RMID: the key no longer leads to the segment.                       *)
Remove(s) == key' = IF key = s THEN NoSeg ELSE key

(* shmget(IPC_CREAT); only a server that is gone makes small segments.     *)
Create(p) ==
    /\ at[p] = "create"
    /\ IF key = NoSeg
         THEN /\ segs < MaxSegs
              /\ segs' = segs + 1 /\ key' = segs + 1 /\ Id(p, segs + 1)
         ELSE Id(p, key) /\ UNCHANGED <<key, segs>>
    /\ At(p, "attach")
    /\ UNCHANGED <<att, version, oper, need, sems, mine, slept, exposed>>

(* A process returns from its initialisation with an error, or ends: what  *)
(* it holds is gone, the segment and the semaphores stay.                  *)
Leave(p) == /\ At(p, "off") /\ Id(p, NoSeg)
            /\ att' = [att EXCEPT ![p] = NoSeg]
            /\ slept' = IF p = SServer THEN {c \in Clients : at[c] = "asleep"}
                                       ELSE slept \ {p}
            /\ mine' = IF p = SServer THEN {} ELSE mine

(* shmat()                                                                 *)
Attach(p, next) ==
    /\ at[p] = "attach"
    /\ IF Exists(id[p])
         THEN /\ att' = [att EXCEPT ![p] = id[p]] /\ At(p, next)
              /\ exposed' = (exposed \/ \E c \in Clients \ {p} :
                                           at[c] = "rmid" /\ id[c] = id[p])
              /\ UNCHANGED <<id, slept, mine>>
         ELSE Leave(p) /\ UNCHANGED exposed
    /\ UNCHANGED <<key, segs, oper, need, sems>>

(***************************************************************************)
(* The server.                                                             *)
(***************************************************************************)
SrvUp == at[SServer] = "up"

(* esdm_shm_status_create_shm(): the segment is looked up ...              *)
SrvGet ==
    /\ at[SServer] = "off"
    /\ IF key = NoSeg THEN At(SServer, "create") /\ UNCHANGED id
       ELSE IF key = SmallSeg THEN At(SServer, "small") /\ UNCHANGED id
       ELSE At(SServer, "attach") /\ Id(SServer, key)
    /\ UNCHANGED <<key, segs, att, version, oper, need, sems, mine, slept,
                   exposed>>

(* ... one that is too small is looked up once more, with any size ...     *)
SrvGetSmall ==
    /\ at[SServer] = "small"
    /\ Id(SServer, key)
    /\ At(SServer, IF key = NoSeg THEN "create" ELSE "rmid")
    /\ UNCHANGED <<key, segs, att, version, oper, need, sems, mine, slept,
                   exposed>>

(* ... and removed; when that fails the code goes on with the old one ...  *)
SrvRemove ==
    /\ at[SServer] = "rmid"
    /\ IF Exists(id[SServer])
         THEN /\ Remove(id[SServer]) /\ At(SServer, "create")
              /\ exposed' = (exposed \/ Attached(id[SServer]) # {})
         ELSE At(SServer, "attach") /\ UNCHANGED <<key, exposed>>
    /\ UNCHANGED <<segs, att, id, version, oper, need, sems, mine, slept>>

(* ... a new one is created ...                                            *)
SrvCreate == Create(SServer)

(* ... and attached to.                                                    *)
SrvAttach ==
    /\ Attach(SServer, "random")
    /\ version' = IF att'[SServer] = NoSeg THEN version
                                           ELSE version \cup {id[SServer]}

(* esdm_shm_status_create_sem(): a semaphore that exists is raised, to     *)
(* re-synchronise with its client.                                         *)
SrvSem(n, next) ==
    /\ at[SServer] = n
    /\ sems' = [m \in DOMAIN sems \cup {n} |->
                   IF m # n THEN sems[m]
                   ELSE IF n \notin DOMAIN sems THEN 0
                   ELSE IF sems[n] = MaxSem THEN MaxSem ELSE sems[n] + 1]
    /\ mine' = mine \cup {n} /\ At(SServer, next)
    /\ UNCHANGED <<key, segs, att, id, version, oper, need, slept, exposed>>

(* esdm_shm_status_up() and the level semaphore: only semaphores that the  *)
(* server has opened, and only from zero.                                  *)
Raised(set) == [m \in DOMAIN sems |->
                   IF m \in set \cap mine /\ sems[m] = 0 THEN 1 ELSE sems[m]]

(* esdm_shm_status_set_operational() and _set_need_entropy() as one step:  *)
(* EsdmShmStatus has them in detail.                                       *)
Announce(o, n) ==
    LET s == att[SServer] IN
    /\ oper' = IF o THEN oper \cup {s} ELSE oper \ {s}
    /\ need' = IF n THEN need \cup {s} ELSE need \ {s}
    /\ sems' = Raised((IF o # (s \in oper) \/ n # (s \in need)
                         THEN {"random", "urandom"} ELSE {})
                      \cup (IF n THEN {"level"} ELSE {}))

(* The end of esdm_shm_status_init(), and later changes of the status.     *)
SrvStatus(o, n) ==
    /\ at[SServer] \in {"fill", "up"}
    /\ Announce(o, n) /\ At(SServer, "up")
    /\ UNCHANGED <<key, segs, att, id, version, mine, slept, exposed>>

(* A semaphore cannot be opened: without the first one the segment is      *)
(* only detached, later esdm_shm_status_exit() wakes everyone.             *)
SrvSemFails ==
    /\ at[SServer] \in Names
    /\ Leave(SServer)
    /\ sems' = IF at[SServer] = "random" THEN sems ELSE Raised(Names)
    /\ UNCHANGED <<key, segs, version, oper, need, exposed>>

(* Bug variant of SrvExit: the segment is cleaned up.                      *)
BugExitRemoves ==
    /\ SrvUp
    /\ sems' = Raised(Names) /\ Leave(SServer)
    /\ Remove(id[SServer])
    /\ UNCHANGED <<segs, version, oper, need, exposed>>

(* esdm_shm_status_exit(): wake everyone, detach, close.                   *)
SrvExit ==
    /\ SrvUp
    /\ sems' = Raised(Names) /\ Leave(SServer)
    /\ UNCHANGED <<key, segs, version, oper, need, exposed>>

(***************************************************************************)
(* A client: the CUSE daemon or the provider.                              *)
(***************************************************************************)
(* esdm_cuse_shm_status_create_sem(): created when missing, else opened.   *)
CliSem(c) ==
    /\ at[c] = "off"
    /\ sems' = [m \in DOMAIN sems \cup {SemOf(c)} |->
                   IF m \in DOMAIN sems THEN sems[m] ELSE 0]
    /\ At(c, "get")
    /\ UNCHANGED <<key, segs, att, id, version, oper, need, mine, slept,
                   exposed>>

(* esdm_cuse_shm_status_create_shm(): without a segment one is created;    *)
(* with one that is too small nothing is, and the attachment fails.        *)
CliGet(c) ==
    /\ at[c] = "get"
    /\ IF key = SmallSeg THEN Leave(c)
       ELSE /\ Id(c, key)
            /\ At(c, IF key = NoSeg THEN "create" ELSE "stat")
            /\ UNCHANGED <<att, slept, mine>>
    /\ UNCHANGED <<key, segs, version, oper, need, sems, exposed>>

(* IPC_STAT: a segment without attachments is stale.                       *)
CliStat(c) ==
    /\ at[c] = "stat"
    /\ IF ~Exists(id[c]) THEN Leave(c)
       ELSE /\ At(c, IF Attached(id[c]) = {} THEN "rmid" ELSE "attach")
            /\ UNCHANGED <<att, id, slept, mine>>
    /\ UNCHANGED <<key, segs, version, oper, need, sems, exposed>>

CliRemove(c) ==
    /\ at[c] = "rmid"
    /\ Remove(id[c]) /\ At(c, "create") /\ Id(c, NoSeg)
    /\ UNCHANGED <<segs, att, version, oper, need, sems, mine, slept, exposed>>

CliAttach(c) == Attach(c, "wait") /\ UNCHANGED version

(* esdm_cuse_shm_status_avail(), looked at every second; then sem_wait(),  *)
(* but for a provider that sees the need at once.                          *)
CliSleep(c) ==
    /\ at[c] = "wait" /\ att[c] \in version
    /\ ~(c = SProvider /\ att[c] \in need)
    /\ At(c, "asleep")
    /\ slept' = IF SemOf(c) \in mine THEN slept ELSE slept \cup {c}
    /\ UNCHANGED <<key, segs, att, id, version, oper, need, sems, mine,
                   exposed>>

(* MaxSem stands for every larger value as well.                           *)
CliWoken(c) ==
    /\ at[c] = "asleep" /\ sems[SemOf(c)] > 0
    /\ \E left \in {sems[SemOf(c)] - 1} \cup ({MaxSem} \cap {sems[SemOf(c)]}) :
          sems' = [sems EXCEPT ![SemOf(c)] = left]
    /\ At(c, "wait") /\ slept' = slept \ {c}
    /\ UNCHANGED <<key, segs, att, id, version, oper, need, mine, exposed>>

(* esdm_cuse_init_done() and esdm_aux_init_wait_for_need_entropy(): the    *)
(* semaphore, then the segment.                                            *)
CreateShm(c) == \/ CliGet(c) \/ CliStat(c) \/ CliRemove(c) \/ Create(c)
                \/ CliAttach(c)
CuseInitDone == CliSem(SCuse) \/ CreateShm(SCuse)
AuxInitWait == CliSem(SProvider) \/ CreateShm(SProvider)

(* A process is killed, a call of its initialisation fails, or a client    *)
(* ends: esdm_cuse_term(), esdm_aux_fini_wait_for_need_entropy().          *)
Killed(p) ==
    /\ at[p] # "off"
    /\ Leave(p)
    /\ UNCHANGED <<key, segs, version, oper, need, sems, exposed>>

SegInit ==
    /\ key \in {NoSeg, SmallSeg}
    /\ segs = 0
    /\ att = [p \in Procs |->
                 IF key = SmallSeg /\ p = SProvider THEN SmallSeg ELSE NoSeg]
    /\ id = att
    /\ at = [p \in Procs |->
                 IF att[p] = SmallSeg THEN "wait" ELSE "off"]
    /\ version = {} /\ oper = {} /\ need = {}
    /\ sems = [n \in {"level"} |-> 0]
    /\ mine = {} /\ slept = {} /\ exposed = FALSE

SrvStep == \/ SrvGet \/ SrvGetSmall \/ SrvRemove \/ SrvCreate \/ SrvAttach
           \/ SrvSem("random", "urandom") \/ SrvSem("urandom", "level")
           \/ SrvSem("level", "fill") \/ SrvSemFails \/ SrvExit
           \/ \E o, n \in BOOLEAN : SrvStatus(o, n)

SegNext == \/ SrvStep \/ CuseInitDone \/ AuxInitWait
           \/ \E c \in Clients : CliSleep(c) \/ CliWoken(c)
           \/ \E p \in Procs : Killed(p)

SegTypeOK ==
    /\ key \in Segs \cup {NoSeg} /\ segs \in Segs
    /\ att \in [Procs -> Segs \cup {NoSeg}]
    /\ id \in [Procs -> Segs \cup {NoSeg}]
    /\ version \subseteq Segs /\ oper \subseteq Segs /\ need \subseteq Segs
    /\ DOMAIN sems \subseteq Names /\ \A n \in DOMAIN sems : sems[n] \in Nat
    /\ mine \subseteq Names /\ slept \subseteq Clients
    /\ exposed \in BOOLEAN

(* A server that starts again attaches to the segment its clients still    *)
(* look at, so that no client has to be restarted (the comment in          *)
(* esdm_shm_status_delete_shm()): whoever is attached shares one segment,  *)
(* and a client that slept through the start is woken.  Two things break   *)
(* this: an attachment between a client's IPC_STAT and its IPC_RMID of the *)
(* "stale" segment, and a server with a longer structure.                  *)
SegmentShared ==
    ~exposed => /\ \A p \in Procs : att[p] # NoSeg => att[p] = key
                /\ SrvUp => \A c \in slept : sems[SemOf(c)] > 0
=============================================================================
