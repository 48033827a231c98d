---------------------------- MODULE EsdmPrivileges ----------------------------
(***************************************************************************)
(* The privileges of the two FUSE daemons.  Both run as an unprivileged    *)
(* user and raise the effective user of the whole process for a command of *)
(* root: frontends/cuse/cuse_device.c under the lock esdm_cuse_priv,       *)
(* frontends/cuse/proc_files.c without one.  The server asks who made the  *)
(* connection, which is made once and kept.                                *)
(***************************************************************************)
EXTENDS Naturals, FiniteSets

CONSTANTS
    Workers             \* threads of the FUSE session

VARIABLES
    daemon,             \* "device" or "proc"
    euid,               \* effective user of the process
    writer, readers,    \* esdm_cuse_priv
    cred,               \* peer credentials of the privileged connection
    ppc, caller,        \* per worker: place, and user of the request
    verdict,            \* per worker: what became of the request
    crossed             \* history: the user was changed under a request

privVars == <<daemon, euid, writer, readers, cred, ppc, caller, verdict, crossed>>

Nobody == "nobody"
Callers == {"root", "user"}
PGoto(w, l) == ppc' = [ppc EXCEPT ![w] = l]
Judge(w, v) == verdict' = [verdict EXCEPT ![w] = v]

(* Somebody else is between raising and dropping the privileges.           *)
Amid(w) == \E v \in Workers \ {w} : ppc[v] \in {"call", "drop"} /\ caller[v] = "root"

(* raise_privilege_transient() and drop_privileges_transient(): the        *)
(* effective user is the one of all threads.                               *)
raise_privilege_transient(w) ==
    IF caller[w] = "root" THEN euid' = "root" /\ crossed' = (crossed \/ Amid(w))
                          ELSE UNCHANGED <<euid, crossed>>
drop_privileges_transient(w) ==
    euid' = Nobody /\ crossed' = (crossed \/ Amid(w))

(* esdm_rpc_client_is_privileged(): SO_PEERCRED tells who connected.       *)
esdm_rpc_client_is_privileged == (IF cred = "none" THEN euid ELSE cred) = "root"

-----------------------------------------------------------------------------
(* The device daemon: an ioctl that needs privileges is refused for any    *)
(* caller but root before anything is raised.                              *)
esdm_cuse_client_privileged(w) ==
    \E u \in Callers :
      /\ daemon = "device" /\ ppc[w] = "idle"
      /\ caller' = [caller EXCEPT ![w] = u]
      /\ IF u = "root" THEN PGoto(w, "lock") /\ Judge(w, "none")
                       ELSE Judge(w, "perm") /\ UNCHANGED ppc
      /\ UNCHANGED <<daemon, euid, writer, readers, cred, crossed>>

(* Bug variant: the privileges are raised beside other privileged calls.   *)
BugRaiseUnlocked(w) ==
    /\ daemon = "device" /\ ppc[w] = "lock"
    /\ readers = {}
    /\ writer' = {w}
    /\ raise_privilege_transient(w)
    /\ PGoto(w, "call")
    /\ UNCHANGED <<daemon, readers, cred, caller, verdict>>

esdm_cuse_raise_privilege_transient(w) ==
    /\ daemon = "device" /\ ppc[w] = "lock"
    /\ writer = {} /\ readers = {}
    /\ writer' = {w}
    /\ raise_privilege_transient(w)
    /\ PGoto(w, "call")
    /\ UNCHANGED <<daemon, readers, cred, caller, verdict>>

esdm_cuse_drop_privilege_transient(w) ==
    /\ daemon = "device" /\ ppc[w] = "drop"
    /\ drop_privileges_transient(w)
    /\ writer' = writer \ {w}
    /\ PGoto(w, "idle")
    /\ UNCHANGED <<daemon, readers, cred, caller, verdict>>

(* Reads, writes and RNDGETENTCNT are calls without privileges.            *)
esdm_cuse_unpriv_call_start(w) ==
    /\ daemon = "device" /\ ppc[w] = "idle"
    /\ writer = {}
    /\ readers' = readers \cup {w}
    /\ PGoto(w, "unpriv")
    /\ UNCHANGED <<daemon, euid, writer, cred, caller, verdict, crossed>>

esdm_cuse_unpriv_call_end(w) ==
    /\ ppc[w] = "unpriv"
    /\ readers' = readers \ {w}
    /\ PGoto(w, "idle")
    /\ UNCHANGED <<daemon, euid, writer, cred, caller, verdict, crossed>>

-----------------------------------------------------------------------------
(* The proc daemon: only root opens a file for writing, and writes to it   *)
(* itself.                                                                 *)
esdm_proc_open(w) ==
    \E u \in Callers, write \in BOOLEAN :
      /\ daemon = "proc" /\ ppc[w] = "idle"
      /\ caller' = [caller EXCEPT ![w] = u]
      /\ IF write /\ u # "root" THEN Judge(w, "perm") /\ UNCHANGED ppc
         ELSE Judge(w, "none") /\ PGoto(w, IF write THEN "open" ELSE "idle")
      /\ UNCHANGED <<daemon, euid, writer, readers, cred, crossed>>

(* esdm_proc_set_write_wakeup_thresh(), esdm_proc_set_min_reseed_secs():   *)
(* a number out of range ends them at once.                                *)
esdm_proc_raise_privilege(w) ==
    /\ daemon = "proc" /\ ppc[w] = "open"
    /\ \/ Judge(w, "range") /\ PGoto(w, "idle") /\ UNCHANGED <<euid, crossed>>
       \/ raise_privilege_transient(w) /\ PGoto(w, "call") /\ UNCHANGED verdict
    /\ UNCHANGED <<daemon, writer, readers, cred, caller>>

esdm_proc_drop(w) ==
    /\ daemon = "proc" /\ ppc[w] = "drop"
    /\ drop_privileges_transient(w)
    /\ PGoto(w, "idle")
    /\ UNCHANGED <<daemon, writer, readers, cred, caller, verdict>>

-----------------------------------------------------------------------------
(* The call connects when there is no connection; a refused call leaves    *)
(* the connection as it is.                                                *)
PrivilegedCall(w) ==
    /\ ppc[w] = "call"
    /\ cred' = IF cred = "none" THEN euid ELSE cred
    /\ Judge(w, IF esdm_rpc_client_is_privileged THEN "served" ELSE "refused")
    /\ PGoto(w, "drop")
    /\ UNCHANGED <<daemon, euid, writer, readers, caller, crossed>>

(* The server ends: the next call connects anew.                           *)
Disconnect ==
    /\ cred # "none"
    /\ cred' = "none"
    /\ UNCHANGED <<daemon, euid, writer, readers, ppc, caller, verdict, crossed>>

PrivInit ==
    /\ daemon \in {"device", "proc"}
    /\ euid = Nobody /\ writer = {} /\ readers = {} /\ cred = "none"
    /\ ppc = [w \in Workers |-> "idle"]
    /\ caller = [w \in Workers |-> "user"]
    /\ verdict = [w \in Workers |-> "none"]
    /\ crossed = FALSE

PrivNext ==
    \/ \E w \in Workers :
         \/ esdm_cuse_client_privileged(w)
         \/ esdm_cuse_raise_privilege_transient(w)
         \/ esdm_cuse_drop_privilege_transient(w)
         \/ esdm_cuse_unpriv_call_start(w) \/ esdm_cuse_unpriv_call_end(w)
         \/ esdm_proc_open(w) \/ esdm_proc_raise_privilege(w)
         \/ esdm_proc_drop(w)
         \/ PrivilegedCall(w)
    \/ Disconnect

PrivSpec == PrivInit /\ [][PrivNext]_privVars

-----------------------------------------------------------------------------
(* Every call is made with the privileges of its caller: the device daemon *)
(* changes the user of the process for one request at a time and never     *)
(* beside an unprivileged call, root's command is not refused by a server  *)
(* that takes the daemon for somebody else, also after a reconnection, and *)
(* nobody else's command is served.  The proc daemon keeps this as long as *)
(* no two writers overlap.                                                 *)
PrivilegeFits ==
    /\ daemon = "device" => ~crossed
    /\ ~crossed =>
         \A w \in Workers :
           /\ ppc[w] = "call" => euid = caller[w]
           /\ daemon = "device" /\ ppc[w] = "unpriv" => euid = Nobody
           /\ verdict[w] = "refused" => caller[w] # "root"
           /\ verdict[w] = "served" => caller[w] = "root"
=============================================================================
