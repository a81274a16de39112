------------------------------ MODULE KeyValueMap ------------------------------
(****************************************************************************)
(* What kvs_lab/kvs.h promises a caller of the store, with no skip list in  *)
(* sight: a map from keys to values.  put stores the value or answers -1    *)
(* and changes nothing; get answers the stored value, or NULL for a key     *)
(* that was never stored.  A call and its answer are two steps, so that an  *)
(* implementation may work between them.                                    *)
(****************************************************************************)
EXTENDS Integers

CONSTANTS
    Key,      \* the keys a caller uses
    Value,    \* the values a caller stores
    Null      \* the C NULL: "no such key" as an answer of get

VARIABLES
    map,      \* map[k] is the value stored under k, Null if there is none
    stage,    \* "new", then "open" after open_kvs, then "ended"
    req,      \* the call that is being answered, NoReq between calls
    ret       \* the last answer

mapVars == <<map, stage, req, ret>>

NoReq    == [name |-> "none"]
PutReq   == [name : {"put"}, key : Key, value : Value]
GetReq   == [name : {"get"}, key : Key]
EmptyMap == [k \in Key |-> Null]

Init ==
    /\ map = EmptyMap
    /\ stage = "new"
    /\ req = NoReq
    /\ ret = Null

\* open_kvs answers a usable store, or NULL, after which the caller gives up.
Open ==
    /\ stage = "new"
    /\ stage' \in {"open", "ended"}
    /\ UNCHANGED <<map, req, ret>>

Call ==
    /\ stage = "open" /\ req = NoReq
    /\ req' \in PutReq \cup GetReq
    /\ ret' = Null
    /\ UNCHANGED <<map, stage>>

\* 0 for a new key, 1 for a key that was already there.
PutStores ==
    /\ req \in PutReq /\ req' = NoReq
    /\ map' = [map EXCEPT ![req.key] = req.value]
    /\ ret' = IF map[req.key] = Null THEN 0 ELSE 1
    /\ UNCHANGED stage

PutFails ==
    /\ req \in PutReq /\ req' = NoReq
    /\ ret' = -1
    /\ UNCHANGED <<map, stage>>

GetAnswers ==
    /\ req \in GetReq /\ req' = NoReq
    /\ ret' = map[req.key]
    /\ UNCHANGED <<map, stage>>

\* A call with a NULL argument is refused at once: put answers -1, get NULL.
Refuse ==
    /\ stage = "open" /\ req = NoReq
    /\ ret' \in {-1, Null}
    /\ UNCHANGED <<map, stage, req>>

Close ==
    /\ stage = "open" /\ req = NoReq
    /\ stage' = "ended"
    /\ map' = EmptyMap
    /\ UNCHANGED <<req, ret>>

Next == Open \/ Call \/ PutStores \/ PutFails \/ GetAnswers \/ Refuse \/ Close

Spec == Init /\ [][Next]_mapVars
================================================================================
