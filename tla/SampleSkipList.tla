----------------------------- MODULE SampleSkipList -----------------------------
(****************************************************************************)
(* The skip list of kvs_lab_sample: kvs_open's list, put.c, get.c, close.c, *)
(* rand_lv and iterator.c under the loop of do_snapshot.  One process; a    *)
(* turn of a loop is a step.  A node has MAX_LEVEL next pointers, of which  *)
(* put sets those up to the node's level: the others hold whatever malloc   *)
(* left there.                                                              *)
(****************************************************************************)
EXTENDS LevelLists, MallocHeap, FiniteSets, Sequences

CONSTANTS
    Value,      \* values
    Unset       \* what nothing has been written to yet

ASSUME ValueAssumption == Null \notin Value
ASSUME UnsetAssumption == Unset \notin Ptr \cup {Null}

VARIABLES
    pc,         \* the point the running call has reached
    op,         \* the arguments of the running call, NoOp between calls
    ret,        \* the last return value
    level,      \* kvs->kvs_mx_level
    items,      \* kvs->items
    forward,    \* forward[p][j] is p->next[j]
    key,        \* key[n] is the string in n->key
    value,      \* value[n] is the string n->value points to, Null after a failed strdup
    node,       \* the local node of put, get and kvs_close
    i,          \* the loop counter of put and get
    prev,       \* the local array prev_node of put
    newnode,    \* put's node once it is the new one
    top,        \* put's local level
    it,         \* it->current of do_snapshot's iterator
    out,        \* the pairs do_snapshot has written
    heap        \* the live blocks, each <<what it holds, whose it is>>

listVars  == <<level, items, forward, key, value>>
localVars == <<node, i, prev, newnode, top>>
snapVars  == <<it, out>>
vars      == <<pc, op, ret, listVars, localVars, snapVars, heap>>

NoOp   == [name |-> "none"]
PutOp  == [name : {"put"}, key : Key, value : Value]
GetOp  == [name : {"get"}, key : Key]
SnapOp == [name : {"snapshot"}, key : Key]
NoPrev == [j \in Level |-> Unset]

Init ==
    /\ pc = "new" /\ op = NoOp /\ ret = Null
    /\ level = 0 /\ items = 0
    /\ forward = [p \in Ptr |-> [j \in Level |-> Unset]]
    /\ key = [n \in Node |-> Null] /\ value = [n \in Node |-> Null]
    /\ node = Null /\ i = 0 /\ prev = NoPrev /\ newnode = Null /\ top = 0
    /\ it = Null /\ out = <<>>
    /\ heap = {}

--------------------------------------------------------------------------------
(* kvs_open; the puts of its do_recovery are puts like any others. *)

KvsOpen ==
    /\ pc = "new" /\ pc' = "idle"
    /\ level' = 0 /\ items' = 0
    /\ forward' = [forward EXCEPT ![Header] = [j \in Level |-> Null]]
    /\ heap' = heap \cup {<<"kvs", Header>>, <<"node", Header>>}
    /\ UNCHANGED <<op, ret, key, value, localVars, snapVars>>

\* A malloc fails; the store's block is freed if it was the second.
KvsOpenFails ==
    /\ pc = "new" /\ pc' = "done"
    /\ UNCHANGED <<op, ret, listVars, localVars, snapVars, heap>>

--------------------------------------------------------------------------------
(* The search loops *)

Search(o, where) ==
    /\ pc' = where
    /\ op' = o
    /\ node' = Header /\ i' = level

\* <= 0 where the code has < 0 (mutant).
MustAdvancePastEqual ==
    /\ forward[node][i] # Null
    /\ key[forward[node][i]] <= op.key

\* The test of both search loops.
MustAdvance ==
    /\ forward[node][i] # Null
    /\ key[forward[node][i]] < op.key

\* The end of a search without its second strcmp (mutant).
FoundAnyKey == forward[node][0]

\* The node the searches end on, if it holds the key.
Found ==
    LET next == forward[node][0]
    IN  IF next # Null /\ key[next] = op.key THEN next ELSE Null

Leave(where) ==
    /\ pc' = where
    /\ op' = NoOp
    /\ node' = Null /\ i' = 0 /\ prev' = NoPrev /\ newnode' = Null /\ top' = 0

Return(answer) == Leave("idle") /\ ret' = answer

\* strcpy or it->current through the NULL of an unchecked malloc.
Dies ==
    /\ pc' = "dead"
    /\ UNCHANGED <<op, ret, listVars, localVars, snapVars, heap>>

--------------------------------------------------------------------------------
(* put *)

PutCall ==
    /\ pc = "idle"
    /\ \E o \in PutOp : Search(o, "putSearch")
    /\ ret' = Null
    /\ prev' = NoPrev
    /\ UNCHANGED <<listVars, newnode, top, snapVars, heap>>

PutAdvance ==
    /\ pc = "putSearch"
    /\ MustAdvance
    /\ node' = forward[node][i]
    /\ UNCHANGED <<pc, op, ret, listVars, i, prev, newnode, top, snapVars, heap>>

PutDescend ==
    /\ pc = "putSearch"
    /\ ~MustAdvance
    /\ prev' = [prev EXCEPT ![i] = node]
    /\ IF i = 0 THEN pc' = "putFound" /\ i' = i
                ELSE i' = i - 1 /\ pc' = pc
    /\ UNCHANGED <<op, ret, listVars, node, newnode, top, snapVars, heap>>

\* What free(n->value) is given: nothing where a strdup has failed.
ValueOf(n) == IF value[n] = Null THEN {} ELSE {<<"value", n>>}

\* A strdup for n: it never answers a block that is live.
Strduped(h, n) ==
    h \cup {IF <<"value", n>> \in h THEN <<"value2", n>> ELSE <<"value", n>>}

\* put without free(node->value) (mutant).
PutReplaceLeaks ==
    /\ pc = "putFound"
    /\ Found # Null
    /\ value' = [value EXCEPT ![Found] = op.value]
    /\ heap' = Strduped(heap, Found)
    /\ Return(0)
    /\ UNCHANGED <<level, items, forward, key, snapVars>>

\* The key is there: the old value is freed, then strdup'ed anew.
PutReplace ==
    /\ pc = "putFound"
    /\ Found # Null
    /\ value' = [value EXCEPT ![Found] = op.value]
    /\ heap' = Strduped(Freed(heap, ValueOf(Found)), Found)
    /\ Return(0)
    /\ UNCHANGED <<level, items, forward, key, snapVars>>

\* strdup fails: the node stays, without a value, and put answers 0 all the same.
PutReplaceLoses ==
    /\ pc = "putFound"
    /\ Found # Null
    /\ value' = [value EXCEPT ![Found] = Null]
    /\ heap' = Freed(heap, ValueOf(Found))
    /\ Return(0)
    /\ UNCHANGED <<level, items, forward, key, snapVars>>

Fresh(n) == \A b \in {"node", "value", "value2"} : <<b, n>> \notin heap

\* MAX_LEVEL for MAX_LEVEL - 1 in the loop of rand_lv (mutant).
RandLvPastTop == 0..(MaxLevel + 1)

\* The loop of rand_lv ends at MAX_LEVEL - 1.
RandLv == 0..MaxLevel

\* The loop over the new levels begun one too high (mutant).
GrownPrevFromSecond(lvl) ==
    [j \in Level |-> IF level + 1 < j /\ j <= lvl THEN Header ELSE prev[j]]

\* prev_node is the header on the levels the list grows by.
GrownPrev(lvl) ==
    [j \in Level |-> IF level < j /\ j <= lvl THEN Header ELSE prev[j]]

\* put without kvs_mx_level = level (mutant).
GrownLevelKept(lvl) == level

GrownLevel(lvl) == IF lvl > level THEN lvl ELSE level

\* v is the value strdup has copied, Null if it could not.
PutCreate ==
    /\ pc = "putFound" /\ pc' = "putLink"
    /\ Found = Null
    /\ \E lvl \in RandLv, n \in Node, v \in {op.value, Null} :
          /\ Fresh(n)
          /\ prev' = GrownPrev(lvl)
          /\ level' = GrownLevel(lvl)
          /\ heap' = heap \cup {<<"node", n>>} \cup (IF v = Null THEN {} ELSE {<<"value", n>>})
          /\ key' = [key EXCEPT ![n] = op.key]
          /\ value' = [value EXCEPT ![n] = v]
          /\ newnode' = n /\ top' = lvl
    /\ i' = 0
    /\ UNCHANGED <<op, ret, items, forward, node, snapVars>>

PutDies == pc = "putFound" /\ Found = Null /\ Dies

PutLink ==
    /\ pc = "putLink"
    /\ forward' = InsertAfter(forward, prev[i], newnode, i)
    /\ IF i = top
         THEN Return(0) /\ items' = items + 1
         ELSE i' = i + 1 /\ UNCHANGED <<pc, op, ret, items, node, prev, newnode, top>>
    /\ UNCHANGED <<level, key, value, snapVars, heap>>

--------------------------------------------------------------------------------
(* get, as a call of its own or as one of do_snapshot's *)

GetCall ==
    /\ pc = "idle"
    /\ \E o \in GetOp : Search(o, "getSearch")
    /\ ret' = Null
    /\ UNCHANGED <<listVars, prev, newnode, top, snapVars, heap>>

GetAdvance ==
    /\ pc = "getSearch"
    /\ MustAdvance
    /\ node' = forward[node][i]
    /\ UNCHANGED <<pc, op, ret, listVars, i, prev, newnode, top, snapVars, heap>>

GetDescend ==
    /\ pc = "getSearch"
    /\ ~MustAdvance
    /\ IF i = 0 THEN pc' = "getFound" /\ i' = i
                ELSE i' = i - 1 /\ pc' = pc
    /\ UNCHANGED <<op, ret, listVars, node, prev, newnode, top, snapVars, heap>>

Answer == IF Found # Null THEN value[Found] ELSE Null

GetReturn ==
    /\ pc = "getFound"
    /\ op \in GetOp
    /\ Return(Answer)
    /\ UNCHANGED <<listVars, snapVars, heap>>

\* key && value: a pair without a value is not written.
SnapWrite ==
    /\ pc = "getFound"
    /\ op \in SnapOp
    /\ out' = IF Answer = Null THEN out ELSE Append(out, <<op.key, Answer>>)
    /\ Leave("snap")
    /\ UNCHANGED <<ret, listVars, it, heap>>

--------------------------------------------------------------------------------
(* The iterator in do_snapshot *)

SnapCall ==
    /\ pc = "idle" /\ pc' = "snap"
    /\ it' = forward[Header][0]
    /\ heap' = heap \cup {<<"iterator", Header>>}
    /\ UNCHANGED <<op, ret, listVars, localVars, out>>

SnapDies == pc = "idle" /\ Dies

\* kvs_next_key moving on before it takes the key (mutant).
SnapNextMovesFirst ==
    /\ pc = "snap"
    /\ it # Null
    /\ it' = forward[it][0]
    /\ IF it' = Null THEN UNCHANGED <<pc, op, node, i>>
                    ELSE Search([name |-> "snapshot", key |-> key[it']], "getSearch")
    /\ UNCHANGED <<ret, listVars, prev, newnode, top, out, heap>>

\* kvs_next_key, and the search of get for the key it answers.
SnapNext ==
    /\ pc = "snap"
    /\ it # Null
    /\ Search([name |-> "snapshot", key |-> key[it]], "getSearch")
    /\ it' = forward[it][0]
    /\ UNCHANGED <<ret, listVars, prev, newnode, top, out, heap>>

SnapEnd ==
    /\ pc = "snap" /\ pc' = "idle"
    /\ it = Null
    /\ out' = <<>>
    /\ heap' = Freed(heap, {<<"iterator", Header>>})
    /\ UNCHANGED <<op, ret, listVars, localVars, it>>

\* do_custom.c ends the snapshot at a pair it cannot write.
SnapAbort ==
    /\ pc = "getFound"
    /\ op \in SnapOp
    /\ Answer # Null
    /\ Leave("idle")
    /\ it' = Null /\ out' = <<>>
    /\ heap' = Freed(heap, {<<"iterator", Header>>})
    /\ UNCHANGED <<ret, listVars>>

--------------------------------------------------------------------------------
(* kvs_close *)

CloseCall ==
    /\ pc = "idle" /\ pc' = "closing"
    /\ node' = forward[Header][0]
    /\ UNCHANGED <<op, ret, listVars, i, prev, newnode, top, snapVars, heap>>

CloseNode ==
    /\ pc = "closing"
    /\ node # Null
    /\ heap' = Freed(heap, ValueOf(node) \cup {<<"node", node>>})
    /\ node' = forward[node][0]
    /\ UNCHANGED <<pc, op, ret, listVars, i, prev, newnode, top, snapVars>>

CloseEnd ==
    /\ pc = "closing" /\ pc' = "done"
    /\ node = Null
    /\ heap' = Freed(heap, {<<"node", Header>>, <<"kvs", Header>>})
    /\ UNCHANGED <<op, ret, listVars, localVars, snapVars>>

--------------------------------------------------------------------------------
\* The process has returned or been killed.
Ended == pc \in {"done", "dead"} /\ UNCHANGED vars

\* The steps the store takes by itself once a call has begun.
Step ==
    \/ PutAdvance \/ PutDescend \/ PutReplace \/ PutReplaceLoses
    \/ PutCreate \/ PutDies \/ PutLink
    \/ GetAdvance \/ GetDescend \/ GetReturn
    \/ SnapNext \/ SnapWrite \/ SnapAbort \/ SnapEnd
    \/ CloseNode \/ CloseEnd

Next ==
    \/ KvsOpen \/ KvsOpenFails
    \/ PutCall \/ GetCall \/ SnapCall \/ SnapDies \/ CloseCall
    \/ Step
    \/ Ended

Spec == Init /\ [][Next]_vars

\* The process runs on while a call is in progress; no caller has to call again.
FairSpec == Spec /\ WF_vars(Step)
--------------------------------------------------------------------------------
(* Properties *)

\* Every variable keeps to its kind of value (kvs.h, iterator.c, the locals of put.c).
TypeOK ==
    /\ pc \in {"new", "idle", "putSearch", "putFound", "putLink", "getSearch", "getFound",
               "snap", "closing", "done", "dead"}
    /\ op \in {NoOp} \cup PutOp \cup GetOp \cup SnapOp
    /\ ret \in {0, Null} \cup Value
    /\ level \in Level /\ items \in Nat
    /\ forward \in [Ptr -> [Level -> Node \cup {Null, Unset}]]
    /\ key \in [Node -> Key \cup {Null}]
    /\ value \in [Node -> Value \cup {Null}]
    /\ node \in Ptr \cup {Null}
    /\ i \in Level
    /\ prev \in [Level -> Ptr \cup {Unset}]
    /\ newnode \in Node \cup {Null}
    /\ top \in Level
    /\ it \in Node \cup {Null}
    /\ out \in Seq(Key \X Value)
    /\ heap \subseteq {"kvs", "node", "value", "value2", "iterator"} \X Ptr

\* Each level is one chain from the header in strictly increasing key order, while put
\* links a node from the bottom up and whatever levels rand_lv drew.
LevelSorted == pc # "new" => \A j \in Level : Sorted(forward, key, j)

\* put, get, kvs_close and the iterator never use a next pointer or an entry of prev_node
\* that nothing has been written to, although put.c initialises neither array as a whole.
OnlySetPointersRead ==
    /\ pc \in {"putSearch", "getSearch"} => forward[node][i] # Unset
    /\ pc \in {"putFound", "getFound"} => forward[node][0] # Unset
    /\ pc = "putLink" => \A j \in i..top : prev[j] # Unset /\ forward[prev[j]][j] # Unset
    /\ pc = "closing" /\ node # Null => forward[node][0] # Unset
    /\ it # Null => forward[it][0] # Unset

\* A node put has finished with is on every level its next pointers were set for, on all
\* levels below each of those, and on none above kvs_mx_level, where no search starts.
WhollyLinked ==
    \A n \in Linked(forward, 0) \ {newnode} : \A j \in Level :
        /\ n \in Linked(forward, j) <=> forward[n][j] # Unset
        /\ n \in Linked(forward, j) => j <= level /\ \A l \in 0..j : n \in Linked(forward, l)

Snapping == pc = "snap" \/ op \in SnapOp

\* The nodes whose pairs do_snapshot is through with.
Written ==
    {n \in Linked(forward, 0) :
        /\ it = Null \/ key[n] < key[it]
        /\ op \in SnapOp => key[n] # op.key}

\* do_snapshot writes every pair of the list that has a value once, in the order of the
\* keys, although it looks each key up again with get while the iterator stands further on.
SnapshotExact ==
    Snapping =>
        /\ {out[m] : m \in DOMAIN out} =
               {<<key[n], value[n]>> : n \in {l \in Written : value[l] # Null}}
        /\ \A l, m \in DOMAIN out : l < m => out[l][1] < out[m][1]

\* The blocks of a store with the nodes S.
BlocksOf(S) ==
    {<<"kvs", Header>>, <<"node", Header>>}
        \cup {<<"node", n>> : n \in S}
        \cup {<<"value", n>> : n \in {m \in S : value[m] # Null}}

\* While the store is open the live blocks are those of its nodes, which items counts, of the
\* values they have, and the iterator's: none is lost, freed early or freed twice by a
\* replacement, whether its strdup succeeds or fails.  After kvs_close none is left, as
\* kvs.h:38 has it ("free all mem alloc").
HeapExact ==
    /\ pc \notin {"new", "closing", "done", "dead"} =>
         heap = BlocksOf(Linked(forward, 0) \cup ({newnode} \ {Null}))
                   \cup (IF Snapping THEN {<<"iterator", Header>>} ELSE {})
    /\ pc # "dead" => items = Cardinality(Linked(forward, 0) \ {newnode})
    /\ pc = "done" => heap = {}

\* Every put, get, snapshot and kvs_close comes to its end, or the process dies of it.
CallsReturn == (pc \notin {"new", "idle", "done", "dead"}) ~> (pc \in {"idle", "done", "dead"})

\* The map a caller sees: the nodes on level 0, without the one put is still linking.
Contents ==
    LET there == IF pc \in {"closing", "done", "dead"} THEN {} ELSE Linked(forward, 0) \ {newnode}
    IN  [k \in Key |-> IF \E n \in there : key[n] = k
                         THEN value[CHOOSE n \in there : key[n] = k] ELSE Null]

Stage == IF pc = "new" THEN "new"
         ELSE IF pc \in {"closing", "done", "dead"} THEN "ended" ELSE "open"

\* The call a caller waits for; do_snapshot's own gets are none.
Request == IF pc = "dead" \/ op \in SnapOp THEN NoOp ELSE op

\* The skip list is the map main.c and do_recovery take it for: get answers the value last
\* put under the key, and a put that runs out of memory spoils no key but its own.
Map == INSTANCE SampleMap WITH map <- Contents, stage <- Stage, req <- Request
ImplementsMap == Map!Spec

--------------------------------------------------------------------------------
(* The inductive invariant the proofs use *)

\* The lists between any two steps: which pointers are set, and in which levels a node is.
ListInv ==
    /\ \A n \in Node : \A j \in Level : n \in Linked(forward, j) <=> forward[n][j] # Unset
    /\ pc \notin {"new", "done"} => \A j \in Level : forward[Header][j] # Unset
    /\ \A j \in Level : \A n \in Linked(forward, j) :
          j <= level /\ \A l \in 0..j : n \in Linked(forward, l)
    /\ \A n \in Linked(forward, 0) : key[n] \in Key
    /\ \A m, n \in Linked(forward, 0) : key[m] = key[n] => m = n

\* Which locals are in use at which point of a call.
CallInv ==
    /\ pc \in {"new", "idle", "snap", "closing", "done"} => op = NoOp
    /\ pc \in {"putSearch", "putFound", "putLink"} => op \in PutOp
    /\ pc \in {"getSearch", "getFound"} => op \in GetOp \cup SnapOp
    /\ pc = "dead" => op \in {NoOp} \cup PutOp
    /\ newnode # Null <=> pc = "putLink"
    /\ pc = "new" => forward = [p \in Ptr |-> [j \in Level |-> Unset]]

\* The loop invariants of the two searches.
SearchInv ==
    /\ pc \in {"putSearch", "getSearch"} =>
         i <= level /\ node \in OnLevel(forward, i) /\ Precedes(key, node, op.key)
    /\ pc \in {"putFound", "getFound"} => IsLastBefore(forward, key, node, op.key, 0)
    /\ pc = "putSearch" => \A j \in Level :
         i < j /\ j <= level => IsLastBefore(forward, key, prev[j], op.key, j)
    /\ pc = "putFound" => \A j \in Level :
         j <= level => IsLastBefore(forward, key, prev[j], op.key, j)

\* The loop invariant of the linking loop of put.
LinkInv ==
    pc = "putLink" =>
        /\ key[newnode] = op.key /\ value[newnode] \in {op.value, Null}
        /\ i <= top /\ top <= level
        /\ \A n \in Linked(forward, 0) \ {newnode} : key[n] # op.key
        /\ \A j \in Level : newnode \in Linked(forward, j) <=> j < i
        /\ \A j \in i..top : IsLastBefore(forward, key, prev[j], op.key, j)

\* Where do_snapshot's iterator stands: past the pair that is looked up.
SnapInv ==
    /\ it = Null \/ it \in Linked(forward, 0)
    /\ ~Snapping => it = Null /\ out = <<>>
    /\ op \in SnapOp => \E n \in Linked(forward, 0) : key[n] = op.key /\ it = forward[n][0]
    /\ SnapshotExact

\* The nodes kvs_close has passed.
Passed == {n \in Linked(forward, 0) : node = Null \/ key[n] < key[node]}

\* The heap at each point of the program.
HeapInv ==
    /\ pc = "new" => heap = {}
    /\ IsFiniteSet(Linked(forward, 0))
    /\ HeapExact
    /\ pc = "closing" =>
         /\ node = Null \/ node \in Linked(forward, 0)
         /\ heap = BlocksOf(Linked(forward, 0)) \ ({"node", "value"} \X Passed)

IInv ==
    /\ TypeOK /\ LevelSorted
    /\ ListInv /\ CallInv /\ SearchInv /\ LinkInv /\ SnapInv /\ HeapInv
================================================================================
