---------------------------- MODULE MCEsdmFrontends ----------------------------
(***************************************************************************)
(* Model checking of what surrounds the core: the calls of the frontends   *)
(* and the RPC stubs and handlers below them (EsdmFrontends), the          *)
(* connection handles a client process shares (EsdmRpcService), the        *)
(* privileges of the daemons (EsdmPrivileges), the life of a CUSE daemon   *)
(* (EsdmCuseLife), the files of the proc daemon (EsdmProcFiles) and the    *)
(* life of the RPC server (EsdmServer).  Each is a system of its own; the  *)
(* first choice says which of them runs.                                   *)
(***************************************************************************)
EXTENDS EsdmFrontends, EsdmRpcService, EsdmPrivileges, EsdmCuseLife, EsdmProcFiles, EsdmServer

VARIABLE part

allVars == <<part, vars, svcVars, privVars, lifeVars, procVars, srvVars>>

(* A part that does not run has only one initial state.                    *)
AllInit ==
    /\ part \in {"calls", "service", "privileges", "life", "proc", "server"}
    /\ Init /\ ServiceInit /\ PrivInit /\ LifeInit
    /\ ProcInit /\ ServerInit
    /\ part # "service" => \A u \in Users : library[u] = "openssl"
    /\ part # "privileges" => daemon = "device"
    /\ part # "life" => layers = <<>> /\ ~file
    /\ part # "proc" => name = "uuid"
    /\ part # "server" => /\ sock["priv"] = "absent" /\ pidfile = "unused"
                          /\ cuse = "off"

AllNext ==
    \/ /\ part = "calls" /\ Next
       /\ UNCHANGED <<part, svcVars, privVars, lifeVars, procVars, srvVars>>
    \/ /\ part = "service" /\ ServiceNext
       /\ UNCHANGED <<part, vars, privVars, lifeVars, procVars, srvVars>>
    \/ /\ part = "privileges" /\ PrivNext
       /\ UNCHANGED <<part, vars, svcVars, lifeVars, procVars, srvVars>>
    \/ /\ part = "life" /\ LifeNext
       /\ UNCHANGED <<part, vars, svcVars, privVars, procVars, srvVars>>
    \/ /\ part = "proc" /\ ProcNext
       /\ UNCHANGED <<part, vars, svcVars, privVars, lifeVars, srvVars>>
    \/ /\ part = "server" /\ ServerNext
       /\ UNCHANGED <<part, vars, svcVars, privVars, lifeVars, procVars>>

AllSpec == AllInit /\ [][AllNext]_allVars
=============================================================================
