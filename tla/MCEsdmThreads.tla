---------------------------- MODULE MCEsdmThreads ----------------------------
(***************************************************************************)
(* Instances of EsdmThreads for TLC: the two threads of the RPC server     *)
(* that accept connections are the mothers.                                *)
(***************************************************************************)
EXTENDS EsdmThreads

CONSTANTS priv, unpriv

OneCall == [m \in Mothers |-> 1]
ThreeCalls == [m \in Mothers |-> IF m = priv THEN 1 ELSE 2]
=============================================================================
