------------------------------- MODULE EsdmCuse -------------------------------
(***************************************************************************)
(* poll() on the character devices, frontends/cuse/cuse_device.c: the FUSE *)
(* workers of one CUSE daemon register the clients that have to wait, and  *)
(* the poll checker thread notifies them when the server has changed the   *)
(* status segment and raised the daemon's semaphore.                       *)
(*                                                                         *)
(* A section under esdm_cuse_ph_lock is one step.  The kernel is reduced   *)
(* to what it shows the daemon: a poll request per call, a client that     *)
(* sleeps after an empty reply until it is notified or interrupted.        *)
(***************************************************************************)
EXTENDS EsdmShmStatus, FiniteSetsExt

CONSTANTS
    Fhs,                \* open files
    Workers,            \* FUSE worker threads
    EventSets,          \* what a client may wait for
    MAX_PH,             \* ESDM_CUSE_MAX_PH
    None                \* no file

Slots == 1..MAX_PH
Events == {"in", "out"}
CuseSem == CuseSems[1]

VARIABLES
    polls,              \* esdm_cuse_polls[]
    chk,                \* the checker: scanning, or in sem_wait()
    wpc, req, mask,     \* of a worker: place, the request, the reply mask
    client,             \* of a file: its client is in user space or sleeps
    open,               \* the files not yet released
    refused             \* history: files whose last request found no slot

cuseVars == <<polls, chk, wpc, req, mask, client, open, refused>>
vars == <<cuseVars, shmVars>>

Free == [fh |-> None, ev |-> {}, late |-> FALSE]
NoReq == [fh |-> None, ev |-> {}]

(* esdm_cuse_get_pollmask(); the suspend trigger is consumed.              *)
PollMask == {e \in Events : \/ e = "in" /\ shmOper
                            \/ e = "out" /\ shmNeed
                            \/ suspend}

(* fuse_notify_poll(): the kernel wakes the clients of these files.        *)
Notify(fhs) == client' = [f \in Fhs |-> IF f \in fhs /\ client[f] = "sleeping"
                                          THEN "user" ELSE client[f]]

(* A signal or the time-out of poll() ends the sleep.                      *)
Interrupt(f) ==
    /\ client[f] = "sleeping"
    /\ client' = [client EXCEPT ![f] = "user"]
    /\ UNCHANGED <<polls, chk, wpc, req, mask, open, refused, shmVars>>

WorkerDone(w) ==
    /\ wpc' = [wpc EXCEPT ![w] = "idle"]
    /\ req' = [req EXCEPT ![w] = NoReq]
    /\ mask' = [mask EXCEPT ![w] = {}]

(* A client calls poll() and a worker runs esdm_cuse_poll() up to          *)
(* fuse_reply_poll(); a request without events is refused before anything  *)
(* changes.                                                                *)
PollReply(w, f) ==
    /\ wpc[w] = "idle" /\ f \in open /\ client[f] = "user"
    /\ \E ev \in EventSets \ {{}} :
         /\ req' = [req EXCEPT ![w] = [fh |-> f, ev |-> ev]]
         /\ mask' = [mask EXCEPT ![w] = PollMask \cap ev]
         /\ client' = [client EXCEPT ![f] = IF PollMask \cap ev = {}
                                              THEN "sleeping" ELSE "user"]
    /\ suspend' = FALSE
    /\ refused' = refused \ {f}
    /\ wpc' = [wpc EXCEPT ![w] = "register"]
    /\ UNCHANGED <<polls, chk, open, shmNeed, shmOper, sem, spc, curr, new,
                   ups>>

(* The slot the search of esdm_cuse_poll() ends at: the first one that is  *)
(* free or belongs to the same file.                                       *)
Usable(f) == {i \in Slots : polls[i].fh \in {None, f}}

(* Bug variant of PollRegister: the slots of other files are not skipped.  *)
BugRegisterFirst(w) ==
    /\ wpc[w] = "register"
    /\ IF mask[w] # {}
         THEN Notify({req[w].fh}) /\ UNCHANGED polls
         ELSE /\ polls' = [polls EXCEPT ![1] =
                   [fh |-> req[w].fh, ev |-> req[w].ev,
                    late |-> PollMask \cap req[w].ev # {}]]
              /\ UNCHANGED client
    /\ WorkerDone(w)
    /\ UNCHANGED <<chk, open, refused, shmVars>>

(* Its second half: the slot is taken for the request, or cleared and the  *)
(* client notified when the reply was not empty.  An entry is late when    *)
(* its event has come before it.                                           *)
PollRegister(w) ==
    /\ wpc[w] = "register" /\ Usable(req[w].fh) # {}
    /\ polls' = [polls EXCEPT ![Min(Usable(req[w].fh))] =
                   IF mask[w] # {} THEN Free
                   ELSE [fh |-> req[w].fh, ev |-> req[w].ev,
                         late |-> PollMask \cap req[w].ev # {}]]
    /\ Notify(IF mask[w] # {} THEN {req[w].fh} ELSE {})
    /\ WorkerDone(w)
    /\ UNCHANGED <<chk, open, refused, shmVars>>

(* No slot: EBUSY is replied, after the reply the client already has.      *)
PollBusy(w) ==
    /\ wpc[w] = "register" /\ Usable(req[w].fh) = {}
    /\ refused' = refused \cup {req[w].fh}
    /\ WorkerDone(w)
    /\ UNCHANGED <<polls, chk, client, open, shmVars>>

(* One round of esdm_cuse_poll_checker(): the entries whose event is there *)
(* are notified and cleared.  The mask is only read for an occupied slot.  *)
CheckerScan ==
    /\ chk = "scan"
    /\ LET due == {i \in Slots : polls[i].ev \cap PollMask # {}}
       IN  /\ polls' = [i \in Slots |-> IF i \in due THEN Free
                                        ELSE [polls[i] EXCEPT !.late = FALSE]]
           /\ Notify({polls[i].fh : i \in due})
    /\ suspend' = (suspend /\ \A i \in Slots : polls[i] = Free)
    /\ chk' = "down"
    /\ UNCHANGED <<wpc, req, mask, open, refused, shmNeed, shmOper, sem, spc,
                   curr, new, ups>>

(* esdm_cuse_shm_status_down()                                             *)
CheckerDown ==
    /\ chk = "down" /\ sem[CuseSem] > 0
    /\ sem' = [sem EXCEPT ![CuseSem] = @ - 1]
    /\ chk' = "scan"
    /\ UNCHANGED <<polls, wpc, req, mask, client, open, refused, shmNeed,
                   shmOper, suspend, spc, curr, new, ups>>

(* esdm_cuse_release(); the kernel sends it when no call uses the file.    *)
Release(f) ==
    /\ f \in open /\ client[f] = "user"
    /\ polls' = [i \in Slots |-> IF polls[i].fh = f THEN Free ELSE polls[i]]
    /\ open' = open \ {f}
    /\ UNCHANGED <<chk, wpc, req, mask, client, refused, shmVars>>

(* The server enters one of the functions that change the segment.         *)
ServerCall(t) ==
    /\ spc[t] = "out"
    /\ \/ ShmGoto(t, "need") /\ UNCHANGED new
       \/ ShmGoto(t, "oper") /\ new' = [new EXCEPT ![t] = ~shmOper]
    /\ UNCHANGED <<shmNeed, shmOper, suspend, sem, curr, ups, cuseVars>>

ServerSuspend(t) == SetSuspend(t) /\ UNCHANGED cuseVars

(* The level of the pool at the time it is looked at is arbitrary.         *)
ServerStep(t) ==
    /\ OperStep(t) \/ \E low \in BOOLEAN : NeedStep(t, low)
    /\ UNCHANGED cuseVars

Init ==
    /\ ShmInit
    /\ polls = [i \in Slots |-> Free]
    /\ chk = "scan"
    /\ wpc = [w \in Workers |-> "idle"] /\ req = [w \in Workers |-> NoReq]
    /\ mask = [w \in Workers |-> {}]
    /\ client = [f \in Fhs |-> "user"] /\ open = Fhs /\ refused = {}

Next ==
    \/ \E w \in Workers :
         \/ \E f \in Fhs : PollReply(w, f)
         \/ PollRegister(w) \/ PollBusy(w)
    \/ \E f \in Fhs : Interrupt(f) \/ Release(f)
    \/ CheckerScan \/ CheckerDown
    \/ \E t \in Server : ServerCall(t) \/ ServerSuspend(t) \/ ServerStep(t)

Spec == Init /\ [][Next]_vars

-----------------------------------------------------------------------------
(* The table holds requests of real files, and the semaphore exceeds one   *)
(* only by what concurrent threads raise.                                  *)
CuseTypeOK ==
    /\ ShmTypeOK
    /\ polls \in [Slots -> [fh : Fhs \cup {None}, ev : SUBSET Events, late : BOOLEAN]]
    /\ \A i \in Slots : polls[i].fh = None <=> polls[i].ev = {}
    /\ client \in [Fhs -> {"user", "sleeping"}]
    /\ sem[CuseSem] <= 1 + Cardinality(Server)

(* Nobody sleeps unknown to the checker: a client that was told to wait is *)
(* in the table or its worker is about to enter it, whatever interrupted   *)
(* polls of the same file do - unless it found the table full.             *)
SleeperRegistered ==
    \A f \in Fhs :
        client[f] = "sleeping" =>
            \/ f \in refused
            \/ \E i \in Slots : polls[i].fh = f
            \/ \E w \in Workers : wpc[w] = "register" /\ req[w].fh = f

(* The semaphore loses no event: when the server is done and the checker   *)
(* sleeps for good, the only entries whose event is there are those that   *)
(* were entered after it, with a mask computed before it.                  *)
NoMissedEvent ==
    (/\ \A t \in Server : spc[t] = "out"
     /\ chk = "down" /\ sem[CuseSem] = 0)
      => \A i \in Slots : polls[i].late \/ polls[i].ev \cap PollMask = {}
=============================================================================
