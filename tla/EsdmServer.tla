----------------------------- MODULE EsdmServer -----------------------------
(***************************************************************************)
(* The life of the RPC server, frontends/server/server_main.c and          *)
(* service-rpc/server: the process that was started forks the server and   *)
(* stays behind as the cleaner with root privileges.  The server waits     *)
(* for the monitor of the entropy sources, opens the privileged socket,    *)
(* starts a thread for the unprivileged one and drops its privileges       *)
(* before either of the two serves.  A thread of the cleaner feeds the     *)
(* kernel's random number generator.                                       *)
(*                                                                         *)
(* The waits are thread_wait_event() of common/queue.h: the condition is   *)
(* tested without the lock ("test"), the thread then takes the lock and    *)
(* sleeps ("block"), and thread_wake_all() reaches only those asleep.      *)
(***************************************************************************)
EXTENDS Naturals

Sockets == {"priv", "unpriv"}

VARIABLES
    cpc,                \* where the cleaner is
    phandler,           \* its handler of termination signals
    mpc,                \* where the main thread of the server is
    tpc,                \* where the thread of the unprivileged socket is
    npc,                \* where the monitor thread is
    chandler,           \* the server's handler of termination signals
    csig,               \* a termination signal is on its way to the server
    esdm_rpc_init_state,
    server_exit,
    uid,                \* the user of the server
    listening,          \* sockets the server listens on
    sock,               \* whose file a socket is
    pidfile,            \* whose the PID file is, or no --pid was given
    dpc,                \* where the feeder is
    cuse,               \* /dev/esdm exists, and is mounted on /dev/random
    missed,             \* history: a wake-up came between test and sleep
    early,              \* history: a signal ended the cleaner
    selffed             \* history: the ESDM was credited its own output

cleanVars == <<cpc, phandler>>
threadVars == <<mpc, tpc, npc>>
sigVars == <<chandler, csig>>
initVars == <<esdm_rpc_init_state, missed>>
fileVars == <<listening, sock, pidfile>>
feedVars == <<dpc, cuse, selffed>>
srvVars == <<cleanVars, threadVars, sigVars, initVars, server_exit, uid,
             fileVars, feedVars, early>>

(* enum esdm_rpcs_init_state                                               *)
Uninitialized == 0
PrivInitComplete == 1
UnprivInit == 2
PermDropped == 3

ServerInit ==
    /\ cpc = "start" /\ phandler = "dfl"
    /\ mpc = "none" /\ tpc = "none" /\ npc = "none"
    /\ chandler = "dfl" /\ csig = FALSE
    /\ esdm_rpc_init_state = Uninitialized
    /\ server_exit = FALSE
    /\ uid = "root"
    /\ listening = {}
    /\ \E whose \in {"absent", "stale", "other"} :
          sock = [s \in Sockets |-> whose]
    /\ pidfile \in {"unused", "absent", "theirs"}
    /\ dpc = "off" /\ selffed = FALSE
    /\ cuse \in {"off", "device", "mounted"}
    /\ missed = {} /\ early = FALSE

-----------------------------------------------------------------------------
(* common/queue.h                                                          *)

Wake(place) == IF place = "asleep1" THEN "test1"
               ELSE IF place = "asleep2" THEN "test2" ELSE place

Blocking(place) == place \in {"block1", "block2"}

(* thread_wake_all(), with the main thread at `main` and the unprivileged  *)
(* one at `unpriv` otherwise.                                              *)
thread_wake_all(main, unpriv) ==
    /\ mpc' = Wake(main)
    /\ tpc' = Wake(unpriv)
    /\ missed' = missed \cup (IF Blocking(main) THEN {"main"} ELSE {})
                        \cup (IF Blocking(unpriv) THEN {"unpriv"} ELSE {})

(* thread_wait_event(): test the condition, or sleep until the next        *)
(* broadcast; pthread_cond_wait() may also return without one.             *)
MainWaits ==
    /\ \/ mpc = "test1" /\ mpc' = IF esdm_rpc_init_state = PrivInitComplete
                                    THEN "start" ELSE "block1"
       \/ mpc = "test2" /\ mpc' = IF esdm_rpc_init_state = UnprivInit
                                    THEN "drop" ELSE "block2"
       \/ mpc = "block1" /\ mpc' = "asleep1"
       \/ mpc = "block2" /\ mpc' = "asleep2"
       \/ mpc = "asleep1" /\ mpc' = "test1"
       \/ mpc = "asleep2" /\ mpc' = "test2"
    /\ missed' = IF mpc' \in {"asleep1", "asleep2"} THEN missed
                 ELSE missed \ {"main"}
    /\ UNCHANGED <<cleanVars, tpc, npc, sigVars, esdm_rpc_init_state,
                   server_exit, uid, fileVars, feedVars, early>>

UnprivWaits ==
    /\ \/ tpc = "test1" /\ tpc' = IF esdm_rpc_init_state = PermDropped
                                    THEN "loop" ELSE "block1"
       \/ tpc = "block1" /\ tpc' = "asleep1"
       \/ tpc = "asleep1" /\ tpc' = "test1"
    /\ missed' = IF tpc' = "asleep1" THEN missed ELSE missed \ {"unpriv"}
    /\ UNCHANGED <<cleanVars, mpc, npc, sigVars, esdm_rpc_init_state,
                   server_exit, uid, fileVars, feedVars, early>>

-----------------------------------------------------------------------------
(* The process that was started, later the cleaner                         *)

(* create_pid_file(): a file that is there already ends the process, be it *)
(* of a running server or left behind.                                     *)
create_pid_file ==
    /\ cpc = "start"
    /\ cpc' = IF pidfile = "theirs" THEN "gone" ELSE "init"
    /\ phandler' = IF pidfile = "theirs" THEN phandler ELSE "sig_term"
    /\ pidfile' = IF pidfile = "absent" THEN "mine" ELSE pidfile
    /\ UNCHANGED <<threadVars, sigVars, initVars, server_exit, uid, listening,
                   sock, feedVars, early>>

(* daemon_init(): esdm_init() or one of the first steps of                 *)
(* esdm_rpc_server_init() fails.                                           *)
daemon_init ==
    /\ cpc = "init"
    /\ cpc' = "release"
    /\ UNCHANGED <<phandler, threadVars, sigVars, initVars, server_exit, uid,
                   fileVars, feedVars, early>>

(* fork(): the server inherits the signal handlers.  It starts the monitor *)
(* of the entropy sources; that this fails is only logged.                 *)
esdm_rpc_server_init ==
    /\ cpc = "init"
    /\ cpc' = "forked"
    /\ mpc' = "test1"
    /\ npc' \in {"run", "none"}
    /\ chandler' = phandler
    /\ UNCHANGED <<phandler, tpc, csig, initVars, server_exit, uid, fileVars,
                   feedVars, early>>

(* server_pid is set,                                                      *)
CleanerKnows ==
    /\ cpc = "forked"
    /\ cpc' = "known"
    /\ UNCHANGED <<phandler, threadVars, sigVars, initVars, server_exit, uid,
                   fileVars, feedVars, early>>

(* then the handlers, and the feeder is started, which may fail.           *)
CleanerListens ==
    /\ cpc = "known"
    /\ cpc' = "waiting"
    /\ phandler' = "relay"
    /\ dpc' \in {"status", "off"}
    /\ UNCHANGED <<threadVars, sigVars, initVars, server_exit, uid, fileVars,
                   cuse, selffed, early>>

(* Bug variant of CleanerWaits: a relayed signal ends waitpid() as well.   *)
BugCleanerWaits ==
    /\ cpc = "waiting" /\ (mpc = "gone" \/ phandler = "dfl")
    /\ cpc' = "clean"
    /\ phandler' = "dfl"
    /\ UNCHANGED <<threadVars, sigVars, initVars, server_exit, uid, fileVars,
                   feedVars, early>>

(* waitpid(): signal() of glibc has it restarted after a handler.          *)
CleanerWaits ==
    /\ cpc = "waiting" /\ mpc = "gone"
    /\ cpc' = "clean"
    /\ phandler' = "dfl"
    /\ UNCHANGED <<threadVars, sigVars, initVars, server_exit, uid, fileVars,
                   feedVars, early>>

(* Both socket files are removed, whoever made them.                       *)
esdm_rpcs_cleanup ==
    /\ cpc = "clean"
    /\ cpc' = "release"
    /\ sock' = [s \in Sockets |-> "absent"]
    /\ UNCHANGED <<phandler, threadVars, sigVars, initVars, server_exit, uid,
                   listening, pidfile, feedVars, early>>

(* dealloc(): root removes the PID file.                                   *)
Unlinked(user) == IF pidfile = "mine" /\ user = "root" THEN "absent"
                  ELSE pidfile

(* main(): daemon_release() and dealloc(); server_pid is -1.               *)
CleanerReturns ==
    /\ cpc = "release"
    /\ cpc' = "gone" /\ dpc' = "off"
    /\ pidfile' = Unlinked("root")
    /\ UNCHANGED <<phandler, threadVars, sigVars, initVars, server_exit, uid,
                   listening, sock, cuse, selffed, early>>

(* A termination signal, in the handler of the moment: sig_term() of       *)
(* server_main.c, whose esdm_rpc_server_fini() ends the server when its    *)
(* PID is known yet; esdm_rpcs_cleanup_term(), which passes the signal on; *)
(* or none.                                                                *)
CleanerSignal ==
    /\ cpc \notin {"gone", "start"}
    /\ \/ /\ phandler = "relay"
          /\ phandler' = "dfl"
          /\ csig' = (mpc # "gone")
          /\ UNCHANGED <<cpc, pidfile, dpc, early>>
       \/ /\ phandler = "sig_term"
          /\ cpc' = "gone" /\ early' = TRUE
          /\ csig' = (csig \/ (cpc = "known" /\ mpc # "gone"))
          /\ pidfile' = Unlinked("root")
          /\ UNCHANGED <<phandler, dpc>>
       \/ /\ phandler = "dfl"
          /\ cpc' = "gone" /\ early' = TRUE /\ dpc' = "off"
          /\ UNCHANGED <<phandler, csig, pidfile>>
    /\ UNCHANGED <<threadVars, chandler, initVars, server_exit, uid, listening,
                   sock, cuse, selffed>>

-----------------------------------------------------------------------------
(* The server                                                              *)

Alive == mpc \notin {"none", "gone"}

(* esdm_es_mgr_monitor_initialize() has been once through the sources, or  *)
(* there are none to monitor: esdm_rpc_priv_init_complete().               *)
esdm_rpc_priv_init_complete ==
    /\ Alive /\ npc = "run"
    /\ npc' = "done"
    /\ esdm_rpc_init_state' = PrivInitComplete
    /\ thread_wake_all(mpc, tpc)
    /\ UNCHANGED <<cleanVars, sigVars, server_exit, uid, fileVars, feedVars,
                   early>>

(* esdm_rpcs_stale_socket(): what is left of the file of a socket.  The    *)
(* file of a running server stays, unless its queue of connections is full *)
(* and connect() says EAGAIN.                                              *)
esdm_rpcs_stale_socket(whose) ==
    CASE whose = "stale" -> {"absent"}
      [] whose = "other" -> {"other", "absent"}
      [] OTHER -> {whose}

(* esdm_rpcs_start(): the errors it returns are positive, and its callers  *)
(* only look for negative ones.                                            *)
esdm_rpcs_start(s) ==
    \E left \in esdm_rpcs_stale_socket(sock[s]) :
        \/ /\ left = "absent"
           /\ sock' = [sock EXCEPT ![s] = "mine"]
           /\ listening' \in {listening, listening \cup {s}}
        \/ /\ sock' = [sock EXCEPT ![s] = left]
           /\ UNCHANGED listening

(* esdm_rpcs_interfaces_init(): the privileged socket, chmod(), which      *)
(* fails at least when there is no file, and the thread for the other one. *)
esdm_rpcs_interfaces_init ==
    /\ mpc = "start"
    /\ esdm_rpcs_start("priv")
    /\ \/ sock'["priv"] # "absent" /\ mpc' = "test2" /\ tpc' = "start"
       \/ mpc' = "return" /\ UNCHANGED tpc
    /\ UNCHANGED <<cleanVars, npc, sigVars, initVars, server_exit, uid,
                   pidfile, feedVars, early>>

(* esdm_rpcs_unpriv_init()                                                 *)
esdm_rpcs_unpriv_init ==
    /\ Alive /\ tpc = "start"
    /\ esdm_rpcs_start("unpriv")
    /\ \/ /\ sock'["unpriv"] # "absent"
          /\ tpc' = "tell"
       \/ tpc' = "ended"
    /\ UNCHANGED <<cleanVars, mpc, npc, sigVars, initVars, server_exit, uid,
                   pidfile, feedVars, early>>

UnprivTells ==
    /\ Alive /\ tpc = "tell"
    /\ esdm_rpc_init_state' = UnprivInit
    /\ thread_wake_all(mpc, "test1")
    /\ UNCHANGED <<cleanVars, npc, sigVars, server_exit, uid, fileVars,
                   feedVars, early>>

(* drop_privileges_permanent(): it fails before setuid(), or after it.     *)
drop_privileges_permanent ==
    /\ mpc = "drop"
    /\ \/ mpc' = "tell" /\ uid' = "nobody"
       \/ mpc' = "return" /\ uid' \in {"root", "nobody"}
    /\ UNCHANGED <<cleanVars, tpc, npc, sigVars, initVars, server_exit,
                   fileVars, feedVars, early>>

(* Bug variant of MainTells: the unprivileged thread is not woken.         *)
BugMainTells ==
    /\ mpc = "tell"
    /\ esdm_rpc_init_state' = PermDropped
    /\ mpc' = "loop"
    /\ UNCHANGED <<cleanVars, tpc, npc, sigVars, missed, server_exit, uid,
                   fileVars, feedVars, early>>

MainTells ==
    /\ mpc = "tell"
    /\ esdm_rpc_init_state' = PermDropped
    /\ thread_wake_all("loop", tpc)
    /\ UNCHANGED <<cleanVars, npc, sigVars, server_exit, uid, fileVars,
                   feedVars, early>>

(* esdm_rpcs_workerloop(): it refuses to run without a socket, serves, and *)
(* ends when the server shall exit or memory is short.                     *)
MainServes ==
    /\ \/ mpc = "loop" /\ mpc' = IF "priv" \in listening THEN "serve"
                                 ELSE "return"
       \/ mpc = "serve" /\ mpc' = "return"
    /\ UNCHANGED <<cleanVars, tpc, npc, sigVars, initVars, server_exit, uid,
                   fileVars, feedVars, early>>

UnprivServes ==
    /\ Alive
    /\ \/ tpc = "loop" /\ tpc' = IF "unpriv" \in listening THEN "serve"
                                 ELSE "ended"
       \/ tpc = "serve" /\ server_exit /\ tpc' = "ended"
    /\ UNCHANGED <<cleanVars, mpc, npc, sigVars, initVars, server_exit, uid,
                   fileVars, feedVars, early>>

(* The server is no more; its sockets are closed, their files stay.        *)
Ends ==
    /\ mpc' = "gone" /\ tpc' = "none" /\ npc' = "none"
    /\ csig' = FALSE /\ chandler' = "dfl"
    /\ listening' = {}
    /\ missed' = {}

(* main() of the server after the worker loop: esdm_rpc_server_fini().     *)
ServerReturns ==
    /\ mpc = "return"
    /\ Ends
    /\ pidfile' = Unlinked(uid)
    /\ UNCHANGED <<cleanVars, esdm_rpc_init_state, server_exit, uid, sock,
                   feedVars, early>>

(* sig_term() in any of the threads: the PID file is removed, when the     *)
(* server still can, and the others are told to end.                       *)
sig_term ==
    /\ Alive /\ csig /\ chandler = "sig_term"
    /\ csig' = FALSE /\ chandler' = "dfl"
    /\ pidfile' = Unlinked(uid)
    /\ server_exit' = TRUE
    /\ thread_wake_all(mpc, tpc)
    /\ UNCHANGED <<cleanVars, npc, esdm_rpc_init_state, uid, listening, sock,
                   feedVars, early>>

(* exit() of the handler, or a second signal.                              *)
ServerExits ==
    /\ Alive /\ chandler = "dfl" /\ (server_exit \/ csig)
    /\ Ends
    /\ UNCHANGED <<cleanVars, esdm_rpc_init_state, server_exit, uid, sock,
                   pidfile, feedVars, early>>

(* A signal to the server itself, or to both processes.                    *)
ServerSignal ==
    /\ Alive /\ ~csig
    /\ csig' = TRUE
    /\ UNCHANGED <<cleanVars, threadVars, chandler, initVars, server_exit, uid,
                   fileVars, feedVars, early>>

-----------------------------------------------------------------------------
(* esdm_rpc_server_linux.c: the feeder in the cleaner                      *)

(* Bug variant of FeederStat: /dev/random is used whenever it is there.    *)
BugFeederStat ==
    /\ dpc = "stat"
    /\ dpc' = "random"
    /\ UNCHANGED <<cleanVars, threadVars, sigVars, initVars, server_exit, uid,
                   fileVars, cuse, selffed, early>>

(* esdm_rpcs_linux_insert_entropy(): /dev/esdm is looked for first.        *)
FeederStat ==
    /\ dpc = "stat"
    /\ dpc' = IF cuse = "off" THEN "random" ELSE "esdm"
    /\ UNCHANGED <<cleanVars, threadVars, sigVars, initVars, server_exit, uid,
                   fileVars, cuse, selffed, early>>

(* The device is opened, when it still is there, and the data goes in with *)
(* the credit: ioctl 43 of the CUSE daemon passes it on to the kernel,     *)
(* RNDADDENTROPY is taken by whatever /dev/random is by now.               *)
FeederOpen ==
    /\ dpc \in {"random", "esdm", "raced"}
    /\ dpc' = "status"
    /\ selffed' = (selffed \/ (dpc = "random" /\ cuse = "mounted"))
    /\ UNCHANGED <<cleanVars, threadVars, sigVars, initVars, server_exit, uid,
                   fileVars, cuse, early>>

(* esdm_rpcs_linux_feed_kernel(): the data is generated, or that fails.    *)
FeederGets ==
    /\ dpc = "status"
    /\ dpc' \in {"stat", "status"}
    /\ UNCHANGED <<cleanVars, threadVars, sigVars, initVars, server_exit, uid,
                   fileVars, cuse, selffed, early>>

(* External: the CUSE daemon makes /dev/esdm, mounts it, and goes away     *)
(* again.  A mount between the look at /dev/esdm and the opening of        *)
(* /dev/random is the race the feeder does not see.                        *)
CuseDaemon ==
    /\ cuse' = CASE cuse = "off" -> "device" [] cuse = "device" -> "mounted"
                 [] OTHER -> "off"
    /\ dpc' = IF dpc = "random" THEN "raced" ELSE dpc
    /\ UNCHANGED <<cleanVars, threadVars, sigVars, initVars, server_exit, uid,
                   fileVars, selffed, early>>

-----------------------------------------------------------------------------

ServerNext ==
    \/ MainWaits \/ UnprivWaits
    \/ create_pid_file \/ daemon_init \/ esdm_rpc_server_init \/ CleanerKnows
    \/ CleanerListens \/ CleanerWaits \/ esdm_rpcs_cleanup \/ CleanerReturns
    \/ CleanerSignal
    \/ esdm_rpc_priv_init_complete \/ esdm_rpcs_interfaces_init
    \/ esdm_rpcs_unpriv_init \/ UnprivTells \/ drop_privileges_permanent
    \/ MainTells \/ MainServes \/ UnprivServes \/ ServerReturns
    \/ sig_term \/ ServerExits \/ ServerSignal
    \/ FeederGets \/ FeederStat \/ FeederOpen \/ CuseDaemon

ServerSpec == ServerInit /\ [][ServerNext]_srvVars

-----------------------------------------------------------------------------

(* Neither socket is served before the server has given up its privileges  *)
(* for good: its second thread waits for esdm_rpcs_state_perm_dropped      *)
(* and the main thread does not go on when drop_privileges_permanent()     *)
(* fails.  A thread that sleeps in thread_wait_event() meanwhile has       *)
(* something to wait for; the exception is the wake-up that comes between  *)
(* the test of the condition and the sleep, as thread_wake_all() does not  *)
(* take the lock: that thread sleeps on.                                   *)
StartOrdered ==
    /\ "serve" \in {mpc, tpc} => uid = "nobody"
    /\ mpc = "asleep1" /\ "main" \notin missed =>
            esdm_rpc_init_state # PrivInitComplete
    /\ mpc = "asleep2" /\ "main" \notin missed =>
            esdm_rpc_init_state # UnprivInit
    /\ tpc = "asleep1" /\ "unpriv" \notin missed =>
            esdm_rpc_init_state # PermDropped

(* The cleaner outlives the server and leaves nothing of it behind: no     *)
(* socket file and no PID file, whatever signals the two get and in        *)
(* whatever state the server ends.  The exception is a signal in the       *)
(* moments in which the cleaner does not pass it on: before its handlers   *)
(* are installed, and after the first one.                                 *)
SocketsRemoved ==
    cpc = "gone" /\ ~early =>
        /\ ~Alive
        /\ \A s \in Sockets : sock[s] # "mine"
        /\ pidfile # "mine"

(* What the ESDM delivers is not credited to the ESDM as entropy again:    *)
(* the feeder of the kernel finds the CUSE daemon by its /dev/esdm before  *)
(* it writes to a /dev/random that may be the daemon's.  The exception is  *)
(* a daemon that comes up between the two looks.                           *)
NoSelfFeed == ~selffed
=============================================================================
