--------------------------- MODULE MCSampleSkipList ---------------------------
(* Small instances of SampleSkipList for TLC. *)
EXTENDS SampleSkipList

CONSTANTS n1, n2, n3

MCKey2 == {1, 2}
MCKey3 == {1, 2, 3}
================================================================================
