------------------------------ MODULE MCEsdmRpc ------------------------------
(***************************************************************************)
(* Instances of EsdmRpc for TLC.                                           *)
(***************************************************************************)
EXTENDS EsdmRpc

CONSTANTS c1, c2
=============================================================================
