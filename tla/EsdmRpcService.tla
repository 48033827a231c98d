---------------------------- MODULE EsdmRpcService ----------------------------
(***************************************************************************)
(* The connection handles of the RPC client library and the libraries that *)
(* share them in one process: esdm_rpcc_init_service(),                    *)
(* esdm_rpcc_get_service() and esdm_rpcc_fini_service() of                 *)
(* service-rpc/client/esdm_rpc_client.c, used by the preload library of    *)
(* getrandom(2), the OpenSSL provider and the Botan generator.  There is   *)
(* one handle per array; a call between getting and putting a handle is    *)
(* EsdmRpc.                                                                *)
(***************************************************************************)
EXTENDS Naturals, FiniteSets

CONSTANTS
    Users,              \* the threads of the process
    NoUser

VARIABLES
    library,            \* the library each of them goes through
    conn, num,          \* unpriv_rpc_conn and unpriv_rpc_conn_num
    live,               \* the arrays of handles that are allocated
    term,               \* arrays in state esdm_rpcc_in_termination
    refcnt,             \* holder of the ref_cnt mutex of a handle
    upc, arr, cnt,      \* place, array and count of handles of a thread
    initialized,        \* is_initialized of the preload library
    refs,               \* m_ref_cnt of the Botan generators
    owns,               \* OpenSSL and Botan users that are set up
    guard,              \* holders of getrandom_mutex and m_init_lock
    torn,               \* history: the pointer was read without its count
    overdue,            \* history: the wait for a handle was given up
    twice               \* history: an array was freed that was not allocated

serviceVars == <<conn, num, live, term, refcnt, torn, overdue, twice>>
userVars == <<library, initialized, refs, owns, guard>>
svcVars == <<serviceVars, upc, arr, cnt, userVars>>

Null == 0
Arrays == 1..(Cardinality(Users) + 2)
UGoto(u, l) == upc' = [upc EXCEPT ![u] = l]
Point(u, a) == arr' = [arr EXCEPT ![u] = a]
(* Memory somebody still points to is not given out again here: a thread   *)
(* that reaches it is lost as it is.                                       *)
Fresh == CHOOSE a \in Arrays :
            a \notin live \cup {conn} \cup {arr[u] : u \in Users}
Freed(a) == live' = live \ {a} /\ twice' = (twice \/ a \notin live)

-----------------------------------------------------------------------------
(* esdm_rpcc_init_service()                                                *)

InitRead(u) ==
    /\ upc[u] = "init"
    /\ Point(u, conn)
    /\ UGoto(u, IF conn = Null THEN "alloc" ELSE "there")
    /\ UNCHANGED <<serviceVars, cnt, userVars>>

(* The service is there; when it seems to have too few handles, they are   *)
(* released and the pointer to them is kept.                               *)
InitThere(u) ==
    /\ upc[u] = "there"
    /\ IF num > 0
         THEN UGoto(u, "ready") /\ UNCHANGED <<num, live, torn, twice>>
         ELSE /\ Freed(arr[u])
              /\ num' = 0 /\ torn' = TRUE
              /\ UGoto(u, "alloc")
    /\ Point(u, Null)
    /\ UNCHANGED <<conn, term, refcnt, overdue, cnt, userVars>>

(* The allocation may fail.                                                *)
InitAlloc(u) ==
    /\ upc[u] = "alloc"
    /\ \/ /\ Point(u, Fresh) /\ live' = live \cup {Fresh}
          /\ term' = term \ {Fresh} /\ refcnt' = [refcnt EXCEPT ![Fresh] = NoUser]
          /\ UGoto(u, "publish")
       \/ UGoto(u, "failed") /\ UNCHANGED <<arr, live, term, refcnt>>
    /\ UNCHANGED <<conn, num, torn, overdue, twice, cnt, userVars>>

InitPublish(u) ==
    /\ upc[u] = "publish"
    /\ IF conn = Null
         THEN conn' = arr[u] /\ UGoto(u, "count") /\ UNCHANGED <<live, twice>>
         ELSE Freed(arr[u]) /\ UGoto(u, "failed") /\ UNCHANGED conn
    /\ Point(u, Null)
    /\ UNCHANGED <<num, term, refcnt, torn, overdue, cnt, userVars>>

InitCount(u) ==
    /\ upc[u] = "count"
    /\ num' = 1
    /\ UGoto(u, "ready")
    /\ UNCHANGED <<conn, live, term, refcnt, torn, overdue, twice, arr, cnt, userVars>>

-----------------------------------------------------------------------------
(* esdm_rpcc_get_service() and esdm_rpcc_put_service()                     *)

GetRead(u) ==
    /\ upc[u] = "get"
    /\ Point(u, conn)
    /\ UGoto(u, IF conn = Null THEN "idle" ELSE "lock")
    /\ UNCHANGED <<serviceVars, cnt, userVars>>

(* The handle is locked and refused when it is about to terminate.  Memory *)
(* that was freed meanwhile may look like anything; the thread is lost.    *)
GetLock(u) ==
    /\ upc[u] = "lock"
    /\ IF arr[u] \notin live THEN UGoto(u, "lost") /\ Point(u, Null) /\ UNCHANGED refcnt
       ELSE /\ refcnt[arr[u]] = NoUser
            /\ IF arr[u] \in term
                 THEN UGoto(u, "idle") /\ Point(u, Null) /\ UNCHANGED refcnt
                 ELSE /\ UGoto(u, "use") /\ refcnt' = [refcnt EXCEPT ![arr[u]] = u]
                      /\ UNCHANGED arr
    /\ UNCHANGED <<conn, num, live, term, torn, overdue, twice, cnt, userVars>>

Put(u) ==
    /\ upc[u] = "use"
    /\ refcnt' = [refcnt EXCEPT ![arr[u]] = IF @ = u THEN NoUser ELSE @]
    /\ UGoto(u, "idle") /\ Point(u, Null)
    /\ UNCHANGED <<conn, num, live, term, torn, overdue, twice, cnt, userVars>>

-----------------------------------------------------------------------------
(* esdm_rpcc_fini_service()                                                *)

FiniCount(u) ==
    /\ upc[u] = "fini"
    /\ cnt' = [cnt EXCEPT ![u] = num]
    /\ num' = 0
    /\ UGoto(u, "swap")
    /\ UNCHANGED <<conn, live, term, refcnt, torn, overdue, twice, arr, userVars>>

(* The pointer is exchanged; everybody is told that the handles end.       *)
FiniSwap(u) ==
    /\ upc[u] = "swap"
    /\ conn' = Null /\ Point(u, conn)
    /\ IF conn = Null
         THEN /\ UGoto(u, "gone") /\ cnt' = [cnt EXCEPT ![u] = 0]
              /\ UNCHANGED <<term, torn>>
         ELSE /\ UGoto(u, "wait") /\ UNCHANGED cnt
              /\ IF cnt[u] > 0 THEN term' = term \cup {conn} /\ UNCHANGED torn
                               ELSE torn' = TRUE /\ UNCHANGED term
    /\ UNCHANGED <<num, live, refcnt, overdue, twice, userVars>>

(* What is in the array ends with it.                                      *)
Ended(u, a) ==
    /\ term' = term \ {a} /\ refcnt' = [refcnt EXCEPT ![a] = NoUser]
    /\ Point(u, Null) /\ cnt' = [cnt EXCEPT ![u] = 0]
    /\ UGoto(u, "gone")

(* Bug variant of FiniWait: the handles are freed without waiting.         *)
BugFiniNoWait(u) ==
    /\ upc[u] = "wait"
    /\ Freed(arr[u]) /\ Ended(u, arr[u])
    /\ UNCHANGED <<conn, num, torn, overdue, userVars>>

(* Each handle is waited for, a second at most, and then all are freed.    *)
FiniWait(u) ==
    /\ upc[u] = "wait"
    /\ \/ cnt[u] = 0 /\ UNCHANGED overdue
       \/ cnt[u] > 0 /\ refcnt[arr[u]] = NoUser /\ UNCHANGED overdue
       \/ cnt[u] > 0 /\ refcnt[arr[u]] # NoUser /\ overdue' = TRUE
    /\ Freed(arr[u]) /\ Ended(u, arr[u])
    /\ UNCHANGED <<conn, num, torn, userVars>>

-----------------------------------------------------------------------------
(* frontends/getrandom/getrandom.c                                         *)

Is(u, lib) == library[u] = lib
TakeGuard(u, g) == guard[g] = NoUser /\ guard' = [guard EXCEPT ![g] = u]
GiveGuard(g) == guard' = [guard EXCEPT ![g] = NoUser]

(* A call finds the library set up, or sets it up.                         *)
GetrandomCall(u) ==
    /\ Is(u, "getrandom") /\ upc[u] = "idle"
    /\ UGoto(u, IF initialized THEN "get" ELSE "setup")
    /\ UNCHANGED <<serviceVars, arr, cnt, userVars>>

(* The flag is not looked at again once the mutex is there, and is set     *)
(* whatever the return code.                                               *)
esdm_getrandom_lib_init(u) ==
    /\ Is(u, "getrandom")
    /\ \/ /\ upc[u] = "setup" /\ TakeGuard(u, "getrandom")
          /\ UGoto(u, "init") /\ UNCHANGED initialized
       \/ /\ upc[u] \in {"ready", "failed"}
          /\ initialized' = TRUE /\ GiveGuard("getrandom")
          /\ UGoto(u, "get")
    /\ UNCHANGED <<serviceVars, arr, cnt, library, refs, owns>>

(* The destructor of the library, when the process ends.                   *)
esdm_getrandom_lib_exit(u) ==
    /\ Is(u, "getrandom") /\ upc[u] = "idle" /\ initialized
    /\ UGoto(u, "fini")
    /\ UNCHANGED <<serviceVars, arr, cnt, userVars>>

GetrandomGone(u) ==
    /\ Is(u, "getrandom") /\ upc[u] = "gone"
    /\ UGoto(u, "ended") /\ Point(u, Null)
    /\ UNCHANGED <<serviceVars, cnt, userVars>>

-----------------------------------------------------------------------------
(* frontends/openssl-provider/common.c                                     *)

(* The return code of the setup is not looked at; when the library context *)
(* cannot be made, the service is given up again.                          *)
OSSL_provider_init(u) ==
    /\ Is(u, "openssl")
    /\ \/ /\ upc[u] = "idle" /\ u \notin owns
          /\ UGoto(u, "init") /\ UNCHANGED owns
       \/ /\ upc[u] \in {"ready", "failed"}
          /\ \/ owns' = owns \cup {u} /\ UGoto(u, "idle")
             \/ UGoto(u, "fini") /\ UNCHANGED owns
    /\ UNCHANGED <<serviceVars, arr, cnt, library, initialized, refs, guard>>

esdm_teardown(u) ==
    /\ Is(u, "openssl")
    /\ \/ upc[u] = "idle" /\ u \in owns /\ UGoto(u, "fini") /\ UNCHANGED <<owns, arr>>
       \/ upc[u] = "gone" /\ UGoto(u, "idle") /\ owns' = owns \ {u} /\ Point(u, Null)
    /\ UNCHANGED <<serviceVars, cnt, library, initialized, refs, guard>>

-----------------------------------------------------------------------------
(* frontends/botan-rng/botan-rng.cpp                                       *)

(* The first generator sets the service up, or throws.                     *)
ESDM_RNG(u) ==
    /\ Is(u, "botan")
    /\ \/ /\ upc[u] = "idle" /\ u \notin owns /\ TakeGuard(u, "botan")
          /\ UGoto(u, IF refs = 0 THEN "init" ELSE "ready")
          /\ UNCHANGED <<refs, owns>>
       \/ /\ upc[u] \in {"ready", "failed"} /\ GiveGuard("botan")
          /\ IF upc[u] = "ready" THEN refs' = refs + 1 /\ owns' = owns \cup {u}
                                 ELSE UNCHANGED <<refs, owns>>
          /\ UGoto(u, "idle")
    /\ UNCHANGED <<serviceVars, arr, cnt, library, initialized>>

(* The last one ends it.                                                   *)
ESDM_RNG_destructor(u) ==
    /\ Is(u, "botan")
    /\ \/ /\ upc[u] = "idle" /\ u \in owns /\ TakeGuard(u, "botan")
          /\ UGoto(u, IF refs = 1 THEN "fini" ELSE "gone")
          /\ UNCHANGED <<refs, owns, arr>>
       \/ /\ upc[u] = "gone" /\ GiveGuard("botan")
          /\ refs' = refs - 1 /\ owns' = owns \ {u}
          /\ UGoto(u, "idle") /\ Point(u, Null)
    /\ UNCHANGED <<serviceVars, cnt, library, initialized>>

(* A generator or the provider makes a call.                               *)
LibraryCall(u) ==
    /\ u \in owns /\ upc[u] = "idle"
    /\ UGoto(u, "get")
    /\ UNCHANGED <<serviceVars, arr, cnt, userVars>>

-----------------------------------------------------------------------------
ServiceInit ==
    /\ library \in [Users -> {"getrandom", "openssl", "botan"}]
    /\ conn = Null /\ num = 0 /\ live = {} /\ term = {}
    /\ refcnt = [a \in Arrays |-> NoUser]
    /\ upc = [u \in Users |-> "idle"] /\ arr = [u \in Users |-> Null]
    /\ cnt = [u \in Users |-> 0]
    /\ initialized = FALSE /\ refs = 0 /\ owns = {}
    /\ guard = [g \in {"getrandom", "botan"} |-> NoUser]
    /\ torn = FALSE /\ overdue = FALSE /\ twice = FALSE

(* Nothing is known of a process that freed memory twice.                  *)
ServiceNext ==
    /\ ~twice
    /\ \E u \in Users :
      \/ InitRead(u) \/ InitThere(u) \/ InitAlloc(u) \/ InitPublish(u)
      \/ InitCount(u) \/ GetRead(u) \/ GetLock(u) \/ Put(u)
      \/ FiniCount(u) \/ FiniSwap(u) \/ FiniWait(u)
      \/ GetrandomCall(u) \/ esdm_getrandom_lib_init(u)
      \/ esdm_getrandom_lib_exit(u) \/ GetrandomGone(u)
      \/ OSSL_provider_init(u) \/ esdm_teardown(u)
      \/ ESDM_RNG(u) \/ ESDM_RNG_destructor(u) \/ LibraryCall(u)

ServiceSpec == ServiceInit /\ [][ServiceNext]_svcVars

-----------------------------------------------------------------------------
(* A handle in use is not freed underneath its user, although every        *)
(* library of the process may end the service for all: the end waits for   *)
(* the ref_cnt of the handle and no later call gets it.  The exceptions    *)
(* are a call of more than a second, and a thread that sees the pointer    *)
(* while another has not yet set, or already cleared, the count.           *)
HandleKept ==
    \/ torn \/ overdue
    \/ /\ \A u \in Users : upc[u] = "use" => arr[u] \in live /\ refcnt[arr[u]] = u
       /\ ~twice
=============================================================================
