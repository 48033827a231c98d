---------------------------- MODULE MCEsdmDrngMgr ----------------------------
(***************************************************************************)
(* Instances of EsdmDrngMgr for TLC: two threads, the calls each of them   *)
(* makes, and the node DRNGs.                                              *)
(***************************************************************************)
EXTENDS EsdmDrngMgr

CONSTANTS t1, t2

NoNodes == <<>>
OneNode == <<"n1">>

(* What the auxiliary pool and the other sources hold at most.             *)
EntOf(a, n) == [e \in Es |-> IF e = "aux" THEN a ELSE n]
EntOne == EntOf(1, 0)
EntTwo == EntOf(2, 0)
EntBoth == EntOf(1, 1)

Each(a, b) == [t \in Threads |-> IF t = t1 THEN a ELSE b]

(* How many calls the threads make at most, where 0 is no bound.           *)
NoBound == Each(0, 0)
OneCall == Each(1, 1)
ReaderGoesOn == Each(0, 1)

(* The calls they make.                                                    *)
OpsGetPr == Each({"get"}, {"pr"})
OpsNodes == Each({"get"}, {"force_reseed", "monitor"})
OpsCalls == Each({"get_seed", "full_timeout", "pr_noblock"}, {"pr", "add_entropy"})
OpsTwoPr == Each({"pr"}, {"pr_noblock"})
=============================================================================
