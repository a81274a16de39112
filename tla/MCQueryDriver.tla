----------------------------- MODULE MCQueryDriver -----------------------------
(* Small instances of QueryDriver for TLC. *)
EXTENDS QueryDriver

\* Two proper lines of each command, one with a comma in its value.
MCProper == {
    <<<<"set">>, <<"k">>, <<"v">>>>,
    <<<<"set">>, <<"k">>, <<"w", ",">>>>,
    <<<<"get">>, <<"k">>, <<"v">>>>,
    <<<<"del">>, <<"k">>, <<"v">>>>}

Long(c) == [n \in 1..15 |-> c]

\* Each way of not being proper.
MCImproper == {
    <<<<"get">>>>,
    <<<<"get">>, <<"k">>>>,
    <<<<>>, <<"k">>, <<"v">>>>,
    <<<<"set">>, <<>>, <<"v">>>>,
    <<<<"set">>, <<"l">>, <<>>>>,
    <<<<"a", "b", "c", "get">>, <<"k">>, <<"v">>>>,
    <<<<"set">>, Long("k"), <<"v">>>>,
    <<<<"set">>, <<"l">>, Long("v") \o <<"get">>>>,
    <<<<"set">>, <<"l">>, Append(Long("v"), Comma)>>}

MCLine == MCProper \cup MCImproper

MCChar == {"set", "get", "del", "k", "l", "v", "w", "a", "b", "c", Comma}
================================================================================
