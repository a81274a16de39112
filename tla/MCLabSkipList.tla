----------------------------- MODULE MCLabSkipList -----------------------------
(* Small instances of LabSkipList for TLC. *)
EXTENDS LabSkipList

CONSTANTS n1, n2, n3

MCKey2 == {1, 2}
MCKey3 == {1, 2, 3}

\* One node for each key, or any other if that one is taken: the names of nodes mean
\* nothing, so that this choice stands for all.
MCMalloc ==
    [S \in SUBSET Node, k \in Key |->
        LET own == S \cap {<<n1, n2, n3>>[k]}
        IN  IF own # {} THEN own ELSE S]
================================================================================
