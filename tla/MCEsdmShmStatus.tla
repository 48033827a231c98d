---------------------------- MODULE MCEsdmShmStatus ----------------------------
(***************************************************************************)
(* Model checking of the status segment: the server with its auxiliary     *)
(* pool and an entropy provider (EsdmEsAux), the CUSE daemon that polls    *)
(* the segment for its clients (EsdmCuse), and how the processes come to   *)
(* the segment (EsdmShmSegment).  The first choice says which part runs;   *)
(* the others stand still.                                                 *)
(***************************************************************************)
EXTENDS EsdmEsAux, EsdmShmSegment, TLC

CONSTANTS
    pr, w1, w2,                     \* provider, a server thread, a reseed
    s1,                             \* the server the CUSE daemon listens to
    Fhs, Workers, EventSets, MAX_PH

VARIABLES part, polls, chk, wpc, req, mask, client, open, refused

Cuse == INSTANCE EsdmCuse WITH Server <- {s1}

cuseVars == <<polls, chk, wpc, req, mask, client, open, refused>>

MCSems == <<"random">>
MCOps == [t \in {w1, w2} |-> IF t = w1 THEN {"addcnt", "clear"} ELSE {"get"}]
MCEvents == {{"in"}}
AlikeFiles == Permutations(Fhs)

CuseStill ==
    /\ polls = <<>> /\ chk = "off" /\ wpc = <<>> /\ req = <<>>
    /\ mask = <<>> /\ client = <<>> /\ open = {} /\ refused = {}

AuxStill ==
    /\ aux = 0 /\ initialized = FALSE /\ lock = None
    /\ apc = [t \in Server |-> "idle"] /\ op = <<>> /\ amt = <<>>
    /\ val = <<>> /\ ledger = 0 /\ raced = FALSE

SegStill == SegInit /\ key = NoSeg

StatusInit ==
    \/ part = "aux" /\ Init /\ CuseStill /\ SegStill
    \/ part = "cuse" /\ Cuse!Init /\ AuxStill /\ SegStill
    \/ part = "segment" /\ SegInit /\ AuxStill /\ ShmInit /\ CuseStill

StatusNext ==
    \/ part = "aux" /\ Next /\ UNCHANGED <<part, cuseVars, segVars>>
    \/ part = "cuse" /\ Cuse!Next /\ UNCHANGED <<part, auxVars, segVars>>
    \/ part = "segment" /\ SegNext /\ UNCHANGED <<part, vars, cuseVars>>

StatusSpec ==
    StatusInit /\ [][StatusNext]_<<part, vars, cuseVars, segVars>>

(* A client that sleeps in poll() is known to the checker of the daemon,   *)
(* unless it found the table full (esdm_cuse_poll()).                      *)
SleeperRegistered == part = "cuse" => Cuse!SleeperRegistered

(* The semaphore loses no event: once the server is done and the checker   *)
(* sleeps, only late entries have an event to wait for                     *)
(* (esdm_cuse_poll_checker(), esdm_shm_status_up()).                       *)
NoMissedEvent == part = "cuse" => Cuse!NoMissedEvent
=============================================================================
