--------------------------- MODULE EsdmJentBlocks ---------------------------
(***************************************************************************)
(* What the store of Jitter RNG blocks in esdm/esdm_es_jent.c promises:    *)
(* every block of entropy is made once, waits at most once, is handed to   *)
(* at most one reader, and never comes back.                               *)
(***************************************************************************)
CONSTANTS
    Blocks,             \* all blocks that the Jitter RNG may make
    Getters             \* threads that read entropy

VARIABLE where          \* the place of each block

Init == where = [b \in Blocks |-> "none"]

(* The monitor stores a new block.                                         *)
Put(b) ==
    /\ where[b] = "none"
    /\ where' = [where EXCEPT ![b] = "ready"]

(* A reader takes a stored block, or has one made for it.                  *)
Take(t, b) ==
    /\ where[b] \in {"none", "ready"}
    /\ \A c \in Blocks : where[c] # t
    /\ where' = [where EXCEPT ![b] = t]

(* Blocks are wiped: by the reader that used its block, or all stored ones *)
(* when the source is closed.                                              *)
Wipe(S) ==
    where' = [b \in Blocks |-> IF b \in S THEN "gone" ELSE where[b]]

Next ==
    \/ \E b \in Blocks : Put(b) \/ \E t \in Getters : Take(t, b)
    \/ \E S \in SUBSET Blocks : Wipe(S)

Spec == Init /\ [][Next]_where
=============================================================================
