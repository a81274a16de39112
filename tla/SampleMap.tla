------------------------------- MODULE SampleMap -------------------------------
(****************************************************************************)
(* What the store of kvs_lab_sample amounts to for main.c and do_recovery:  *)
(* a map in memory whose put always answers 0, and that a put for which     *)
(* there is no memory makes lose the key's value, or the whole process.     *)
(****************************************************************************)
EXTENDS Integers

CONSTANTS
    Key,      \* keys
    Value,    \* values
    Null      \* the C NULL: "no such key" as an answer of get

VARIABLES
    map,      \* map[k] is what get answers for k
    stage,    \* "new", then "open" after kvs_open, then "ended"
    req,      \* the call that is being answered, NoReq between calls
    ret       \* the last answer

mapVars == <<map, stage, req, ret>>

NoReq  == [name |-> "none"]
PutReq == [name : {"put"}, key : Key, value : Value]
GetReq == [name : {"get"}, key : Key]

Init ==
    /\ map = [k \in Key |-> Null]
    /\ stage = "new"
    /\ req = NoReq
    /\ ret = Null

Open ==
    /\ stage = "new"
    /\ stage' \in {"open", "ended"}
    /\ UNCHANGED <<map, req, ret>>

Call ==
    /\ stage = "open" /\ req = NoReq
    /\ req' \in PutReq \cup GetReq
    /\ ret' = Null
    /\ UNCHANGED <<map, stage>>

Put ==
    /\ stage = "open" /\ req \in PutReq /\ req' = NoReq
    /\ map' \in {[map EXCEPT ![req.key] = v] : v \in {req.value, Null}}
    /\ ret' = 0
    /\ UNCHANGED stage

Get ==
    /\ stage = "open" /\ req \in GetReq /\ req' = NoReq
    /\ ret' = map[req.key]
    /\ UNCHANGED <<map, stage>>

\* kvs_close between calls, or the death of the process.
End ==
    /\ stage = "open"
    /\ stage' = "ended"
    /\ map' = [k \in Key |-> Null]
    /\ req' = NoReq
    /\ UNCHANGED ret

Next == Open \/ Call \/ Put \/ Get \/ End

Spec == Init /\ [][Next]_mapVars
================================================================================
