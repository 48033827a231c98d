----------------------------- MODULE EsdmCuseLife -----------------------------
(***************************************************************************)
(* The life of a CUSE device daemon: main() of frontends/cuse/             *)
(* cuse_random.c and cuse_urandom.c, main_common(), esdm_cuse_init_done(), *)
(* esdm_cuse_term() and the signal handler of cuse_device.c, and the bind  *)
(* mount of cuse_helper.c that puts the device in the place of the         *)
(* kernel's.                                                               *)
(***************************************************************************)
EXTENDS Naturals, Sequences

CONSTANTS
    Opens,              \* attempts to open the kernel's device (3)
    MAX_WAIT_SEC        \* attempts to remove the mount

VARIABLES
    lpc,                \* place of the main thread
    layers,             \* what lies on the device node, top first
    fallback,           \* random_fd: "none", "kernel" or "overlay"
    opens, waits,       \* ctr of main() and of esdm_cuse_bind_unmount()
    dst,                \* mount_dst is set
    file,               \* the destination exists
    cuse_unlink, made,  \* the flag, and history: creat() was called
    handlers,           \* signal handlers are installed
    killed,             \* history: ended by a signal without a handler
    isolated,           \* the mount namespace was left, and what is removed
                        \* in the new one stays in the old one
    stuck, gap          \* history: the mount could not be removed; a signal
                        \* came between creat() and the flag
lifeVars == <<lpc, layers, fallback, opens, waits, dst, file, cuse_unlink, made,
              handlers, killed, isolated, stuck, gap>>

LGoto(l) == lpc' = l
Own == "own"

-----------------------------------------------------------------------------
(* main(): the descriptor for the fallback is opened and what lies on the  *)
(* node is removed; a dead device (ENXIO) is tried again, and again after  *)
(* a success, since the error is kept.                                     *)
OpenFallback ==
    /\ lpc = "open"
    /\ LET top == IF layers = <<>> THEN "kernel" ELSE Head(layers)
           enxio == top = "dead" \/ opens > 0
       IN /\ fallback' = CASE top = "dead" -> "none"
                           [] top = "kernel" -> "kernel"
                           [] top = "live" -> "overlay"
          /\ layers' = IF layers = <<>> THEN layers ELSE Tail(layers)
          /\ IF enxio /\ opens + 1 < Opens
               THEN opens' = opens + 1 /\ UNCHANGED lpc
               ELSE /\ opens' = 0
                    /\ LGoto(IF top = "dead" THEN "end" ELSE "names")
    /\ UNCHANGED <<waits, dst, file, cuse_unlink, made, handlers, killed, isolated, stuck, gap>>

(* main_common() up to the session; a failure ends the daemon.             *)
main_common ==
    /\ lpc = "names"
    /\ \/ LGoto("end") /\ UNCHANGED <<dst, handlers>>         \* out of memory
       \/ dst' \in BOOLEAN /\ LGoto("term") /\ UNCHANGED handlers
       \/ dst' = TRUE /\ LGoto("mount") /\ handlers' = TRUE
    /\ UNCHANGED <<layers, fallback, opens, waits, file, cuse_unlink, made,
                   killed, isolated, stuck, gap>>

(* The session ends.                                                       *)
SessionEnds ==
    /\ lpc = "running"
    /\ LGoto("term")
    /\ UNCHANGED <<layers, fallback, opens, waits, dst, file, cuse_unlink, made,
                   handlers, killed, isolated, stuck, gap>>

-----------------------------------------------------------------------------
(* esdm_cuse_bind_mount() as the first step of esdm_cuse_init_done(): a    *)
(* missing destination is created.                                         *)
MountCreate ==
    /\ lpc = "mount"
    /\ \/ file /\ LGoto("bind") /\ UNCHANGED <<file, made>>
       \/ ~file /\ file' = TRUE /\ made' = TRUE /\ LGoto("flag")
       \/ LGoto("term") /\ UNCHANGED <<file, made>>
    /\ UNCHANGED <<layers, fallback, opens, waits, dst, cuse_unlink, handlers,
                   killed, isolated, stuck, gap>>

MountFlag ==
    /\ lpc = "flag"
    /\ cuse_unlink' = TRUE
    /\ LGoto("bind")
    /\ UNCHANGED <<layers, fallback, opens, waits, dst, file, made, handlers,
                   killed, isolated, stuck, gap>>

(* The mount may fail; a mount that cannot be labelled is removed again.   *)
MountBind ==
    /\ lpc = "bind"
    /\ \/ layers' = <<Own>> \o layers /\ LGoto("label")
       \/ LGoto("term") /\ UNCHANGED layers
    /\ UNCHANGED <<fallback, opens, waits, dst, file, cuse_unlink, made, handlers,
                   killed, isolated, stuck, gap>>

MountLabel ==
    /\ lpc = "label"
    /\ \/ LGoto("status") /\ UNCHANGED layers
       \/ layers' = Tail(layers) /\ LGoto("term")
    /\ UNCHANGED <<fallback, opens, waits, dst, file, cuse_unlink, made, handlers,
                   killed, isolated, stuck, gap>>

(* The rest: semaphore, status segment, and then the namespaces and the    *)
(* privileges are left and the poll thread is started.  Its wake-up may    *)
(* come before thread_wait_no_event() sleeps: the session then never runs, *)
(* and only a signal ends the daemon.  Whether an unmount in the new       *)
(* namespace is seen in the old one is up to the system.                   *)
esdm_cuse_init_done ==
    /\ lpc = "status"
    /\ \/ LGoto("term") /\ UNCHANGED isolated
       \/ /\ lpc' \in {"running", "asleep", "term"}
          /\ isolated' \in BOOLEAN
    /\ UNCHANGED <<layers, fallback, opens, waits, dst, file, cuse_unlink, made,
                   handlers, killed, stuck, gap>>

-----------------------------------------------------------------------------
(* esdm_cuse_term() ends the threads, the connections and the segment and  *)
(* comes to esdm_cuse_bind_unmount(); without a destination there is       *)
(* nothing to remove.                                                      *)
esdm_cuse_term ==
    /\ lpc = "term"
    /\ LGoto(IF dst THEN "unmount" ELSE "end")
    /\ waits' = 0
    /\ UNCHANGED <<layers, fallback, opens, dst, file, cuse_unlink, made, handlers,
                   killed, isolated, stuck, gap>>

(* Bug variant: a busy mount is not waited for.                            *)
BugUnmountOnce ==
    /\ lpc = "unmount"
    /\ \/ /\ layers' = IF layers = <<>> THEN layers ELSE Tail(layers)
          /\ LGoto("unlink")
       \/ layers # <<>> /\ LGoto("unlink") /\ UNCHANGED layers
    /\ UNCHANGED <<fallback, opens, waits, dst, file, cuse_unlink, made, handlers,
                   killed, isolated, stuck, gap>>

(* The topmost mount is removed; a busy one is tried again, with more      *)
(* force, and given up in the end.                                         *)
esdm_cuse_bind_unmount ==
    /\ lpc = "unmount"
    /\ \/ /\ layers' = IF layers = <<>> THEN layers ELSE Tail(layers)
          /\ ~isolated
          /\ LGoto("unlink") /\ UNCHANGED <<waits, stuck>>
       \/ isolated /\ LGoto("unlink") /\ UNCHANGED <<layers, waits, stuck>>
       \/ /\ layers # <<>> /\ waits + 1 < MAX_WAIT_SEC
          /\ waits' = waits + 1 /\ UNCHANGED <<lpc, layers, stuck>>
       \/ /\ layers # <<>> /\ waits + 1 = MAX_WAIT_SEC
          /\ stuck' = TRUE /\ LGoto("unlink") /\ UNCHANGED <<layers, waits>>
    /\ UNCHANGED <<fallback, opens, dst, file, cuse_unlink, made, handlers, killed, isolated, gap>>

(* A destination that was created is removed, and the names are forgotten. *)
Unlink ==
    /\ lpc = "unlink"
    /\ file' = (file /\ ~cuse_unlink)
    /\ dst' = FALSE
    /\ LGoto("end")
    /\ UNCHANGED <<layers, fallback, opens, waits, cuse_unlink, made, handlers,
                   killed, isolated, stuck, gap>>

(* A signal ends the daemon at any place: the handler runs the whole of    *)
(* esdm_cuse_term() from its beginning, also within itself, and exits.     *)
esdm_cuse_sig_handler ==
    /\ lpc # "end"
    /\ IF handlers THEN LGoto("term") /\ UNCHANGED killed
                   ELSE LGoto("end") /\ killed' = TRUE
    /\ gap' = (gap \/ lpc = "flag")
    /\ UNCHANGED <<layers, fallback, opens, waits, dst, file, cuse_unlink, made,
                   handlers, isolated, stuck>>

LifeInit ==
    /\ lpc = "open"
    /\ layers \in {<<>>, <<"dead">>, <<"dead", "dead">>, <<"live">>}
    /\ file \in BOOLEAN /\ (layers # <<>> => file)
    /\ fallback = "none" /\ opens = 0 /\ waits = 0
    /\ dst = FALSE /\ cuse_unlink = FALSE /\ made = FALSE /\ handlers = FALSE
    /\ killed = FALSE /\ isolated = FALSE /\ stuck = FALSE /\ gap = FALSE

LifeNext ==
    \/ OpenFallback \/ main_common \/ SessionEnds
    \/ MountCreate \/ MountFlag \/ MountBind \/ MountLabel \/ esdm_cuse_init_done
    \/ esdm_cuse_term \/ esdm_cuse_bind_unmount \/ Unlink
    \/ esdm_cuse_sig_handler

LifeSpec == LifeInit /\ [][LifeNext]_lifeVars

-----------------------------------------------------------------------------
(* The kernel's device is back when the daemon is gone, whatever step of   *)
(* the start failed and wherever a signal came: no bind mount of the       *)
(* daemon is left, and no file that was not there before.  The exceptions  *)
(* are a mount that stays busy, a system whose namespaces do not share the *)
(* unmount, and a signal just after creat().                               *)
MountRemoved ==
    lpc = "end" =>
      /\ stuck \/ isolated \/ ~(\E i \in 1..Len(layers) : layers[i] = Own)
      /\ gap \/ ~(made /\ file)
=============================================================================
