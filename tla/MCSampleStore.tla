----------------------------- MODULE MCSampleStore -----------------------------
(* Small instances of SampleStore for TLC. *)
EXTENDS SampleStore

\* "a" and "ab", one of which strcmp finds to be the beginning of the other.
MCKey == {<<97>>, <<97, 98>>}

\* "x", and "y,z", since a value may hold a comma.
MCValue == {<<120>>, <<121, 44, 122>>}

MCValueShort == {<<120>>}
================================================================================
