------------------------------ MODULE LabSkipList ------------------------------
(****************************************************************************)
(* The key-value store of kvs_lab: open.c, close.c, get.c, put.c and        *)
(* skiplist.c.  One process calls the store, as main.c does; every turn of  *)
(* a loop in the code is a step here, so that the loop invariants are state *)
(* invariants.                                                              *)
(****************************************************************************)
EXTENDS LevelLists, MallocHeap

CONSTANTS
    Value,      \* values
    Malloc      \* Malloc[S, k]: which of the free nodes S malloc may hand out for a key k

ASSUME ValueAssumption == Null \notin Value
ASSUME MallocAssumption == \A S \in SUBSET Node : \A k \in Key : Malloc[S, k] \subseteq S

VARIABLES
    pc,         \* the point the running call has reached
    op,         \* the arguments of the running call, NoOp between calls
    ret,        \* the last return value
    level,      \* list->level
    forward,    \* forward[p][i] is p->forward[i]
    key,        \* key[n] is the string n->key points to
    value,      \* value[n] is the string n->value points to
    valueAt,    \* valueAt[n] is the block that string is in
    height,     \* height[p] is the last index of the array p->forward
    current,    \* the local current of put, get and kvs_close
    i,          \* the loop counter of put and get
    update,     \* the local array of put
    newnode,    \* the local newnode of put
    heap        \* the live blocks, each <<what it holds, whose it is>>

listVars  == <<level, forward, key, value, valueAt, height>>
localVars == <<current, i, update, newnode>>
vars      == <<pc, op, ret, listVars, localVars, heap>>

NoOp     == [name |-> "none"]
PutOp    == [name : {"put"}, key : Key, value : Value]
GetOp    == [name : {"get"}, key : Key]
NoUpdate == [j \in Level |-> Null]

--------------------------------------------------------------------------------
(* The heap.  createNode makes four allocations in this order, and on a     *)
(* failure frees the ones it has made; createSkiplist and open_kvs do the   *)
(* same for theirs.                                                         *)

NodeBlocks  == <<"node", "key", "value", "forward">>
StoreBlocks == <<"kvs", "list", "node", "forward">>

\* Where the value of a node may be: put has the old and the new one at the same time.
ValueBlocks == {"value", "value2"}

Obtained(blocks, p, n) == {<<blocks[b], p>> : b \in 1..n}

\* What createNode frees when n of its allocations succeed and the next fails.
FreedByCreateNode(p, n) ==
    {<<b, p>> : b \in <<{}, {"node"}, {"key", "node"}, {"key", "value", "node"}>>[n + 1]}

\* What createSkiplist and then open_kvs free when the allocation after n fails.
FreedByOpen(n) ==
    {<<b, Header>> : b \in <<{}, {"kvs"}, {"list", "kvs"}, {"node", "list", "kvs"}>>[n + 1]}

Fresh(n) == \A b \in {"node", "key", "forward"} \cup ValueBlocks : <<b, n>> \notin heap

NewNodes == Malloc[{n \in Node : Fresh(n)}, op.key]

--------------------------------------------------------------------------------
Init ==
    /\ pc = "new"
    /\ op = NoOp
    /\ ret = Null
    /\ level = 0
    /\ forward = [p \in Ptr |-> [j \in Level |-> Null]]
    /\ key = [n \in Node |-> Null]
    /\ value = [n \in Node |-> Null]
    /\ valueAt = [n \in Node |-> "value"]
    /\ height = [p \in Ptr |-> MaxLevel]
    /\ current = Null /\ i = 0 /\ update = NoUpdate /\ newnode = Null
    /\ heap = {}

OpenKvs ==
    /\ pc = "new"
    /\ pc' = "idle"
    /\ level' = 0
    /\ forward' = [forward EXCEPT ![Header] = [j \in Level |-> Null]]
    /\ heap' = heap \cup Obtained(StoreBlocks, Header, 4)
    /\ UNCHANGED <<op, ret, key, value, valueAt, height, localVars>>

\* open_kvs answers NULL and main.c returns 1.
OpenKvsFails ==
    /\ pc = "new"
    /\ pc' = "done"
    /\ \E n \in 0..3 : heap' = Freed(heap \cup Obtained(StoreBlocks, Header, n), FreedByOpen(n))
    /\ UNCHANGED <<op, ret, listVars, localVars>>

\* The locals of a call are gone once it has returned.
Return(answer) ==
    /\ pc' = "idle"
    /\ op' = NoOp
    /\ ret' = answer
    /\ current' = Null /\ i' = 0 /\ update' = NoUpdate /\ newnode' = Null

\* <= 0 where the code has < 0 (mutant).
MustAdvancePastEqual ==
    /\ forward[current][i] # Null
    /\ key[forward[current][i]] <= op.key

\* The test of both search loops.
MustAdvance ==
    /\ forward[current][i] # Null
    /\ key[forward[current][i]] < op.key

\* The end of a search without its second strcmp (mutant).
FoundAnyKey == forward[current][0]

\* The node the searches end on, if it holds the key.
Found ==
    LET next == forward[current][0]
    IN  IF next # Null /\ key[next] = op.key THEN next ELSE Null

--------------------------------------------------------------------------------
(* put *)

PutCall ==
    /\ pc = "idle"
    /\ pc' = "putSearch"
    /\ op' \in PutOp
    /\ ret' = Null
    /\ current' = Header /\ i' = level /\ update' = NoUpdate
    /\ UNCHANGED <<listVars, newnode, heap>>

\* A NULL key or value.
PutRefused ==
    /\ pc = "idle"
    /\ ret' = -1
    /\ UNCHANGED <<pc, op, listVars, localVars, heap>>

PutAdvance ==
    /\ pc = "putSearch"
    /\ MustAdvance
    /\ current' = forward[current][i]
    /\ UNCHANGED <<pc, op, ret, listVars, i, update, newnode, heap>>

PutDescend ==
    /\ pc = "putSearch"
    /\ ~MustAdvance
    /\ update' = [update EXCEPT ![i] = current]
    /\ IF i = 0 THEN pc' = "putFound" /\ i' = i
                ELSE i' = i - 1 /\ pc' = pc
    /\ UNCHANGED <<op, ret, listVars, current, newnode, heap>>

\* put without free(current->value) (mutant).
PutReplaceLeaks ==
    /\ pc = "putFound"
    /\ Found # Null
    /\ \E b \in ValueBlocks :
          /\ <<b, Found>> \notin heap
          /\ heap' = heap \cup {<<b, Found>>}
          /\ valueAt' = [valueAt EXCEPT ![Found] = b]
    /\ value' = [value EXCEPT ![Found] = op.value]
    /\ Return(1)
    /\ UNCHANGED <<level, forward, key, height>>

\* put without current->value = new_value (mutant).
PutReplaceDangles ==
    /\ pc = "putFound"
    /\ Found # Null
    /\ \E b \in ValueBlocks :
          /\ <<b, Found>> \notin heap
          /\ heap' = Freed(heap \cup {<<b, Found>>}, {<<valueAt[Found], Found>>})
    /\ Return(1)
    /\ UNCHANGED listVars

\* The key is there: strdup of the new value, free of the old one, and the pointer.
PutReplace ==
    /\ pc = "putFound"
    /\ Found # Null
    /\ \E b \in ValueBlocks :
          /\ <<b, Found>> \notin heap
          /\ heap' = Freed(heap \cup {<<b, Found>>}, {<<valueAt[Found], Found>>})
          /\ valueAt' = [valueAt EXCEPT ![Found] = b]
    /\ value' = [value EXCEPT ![Found] = op.value]
    /\ Return(1)
    /\ UNCHANGED <<level, forward, key, height>>

\* strdup fails.
PutReplaceFails ==
    /\ pc = "putFound"
    /\ Found # Null
    /\ Return(-1)
    /\ UNCHANGED <<listVars, heap>>

\* The answers of randomLevel.
RandomLevel == 0..MaxLevel

\* The update entries of the levels the list grows by are set to NULL (memset).
GrownUpdate(lvl) ==
    [j \in Level |-> IF level < j /\ j <= lvl THEN Null ELSE update[j]]

GrownLevel(lvl) == IF lvl > level THEN lvl ELSE level

PutCreate ==
    /\ pc = "putFound"
    /\ Found = Null
    /\ \E lvl \in RandomLevel, n \in NewNodes :
          /\ update' = GrownUpdate(lvl)
          /\ level' = GrownLevel(lvl)
          /\ heap' = heap \cup Obtained(NodeBlocks, n, 4)
          /\ key' = [key EXCEPT ![n] = op.key]
          /\ value' = [value EXCEPT ![n] = op.value]
          /\ valueAt' = [valueAt EXCEPT ![n] = "value"]
          /\ height' = [height EXCEPT ![n] = lvl]
          /\ forward' = [forward EXCEPT ![n] = [j \in Level |-> Null]]
          /\ newnode' = n
    /\ i' = 0
    /\ pc' = "putLink"
    /\ UNCHANGED <<op, ret, current>>

\* createNode fails: put returns -1, but list->level has already been raised.
PutCreateFails ==
    /\ pc = "putFound"
    /\ Found = Null
    /\ \E lvl \in RandomLevel, n \in NewNodes, got \in 0..3 :
          /\ level' = GrownLevel(lvl)
          /\ heap' = Freed(heap \cup Obtained(NodeBlocks, n, got), FreedByCreateNode(n, got))
    /\ Return(-1)
    /\ UNCHANGED <<forward, key, value, valueAt, height>>

\* The linking loop run up to list->level instead of lvl (mutant).
PutLinkToListLevel ==
    /\ pc = "putLink"
    /\ forward' = IF update[i] = Null THEN forward
                  ELSE InsertAfter(forward, update[i], newnode, i)
    /\ IF i = level
         THEN Return(0)
         ELSE i' = i + 1 /\ UNCHANGED <<pc, op, ret, current, update, newnode>>
    /\ UNCHANGED <<level, key, value, valueAt, height, heap>>

\* One turn of the linking loop: level i is skipped where update[i] is NULL.
PutLink ==
    /\ pc = "putLink"
    /\ forward' = IF update[i] = Null THEN forward
                  ELSE InsertAfter(forward, update[i], newnode, i)
    /\ IF i = height[newnode]
         THEN Return(0)
         ELSE i' = i + 1 /\ UNCHANGED <<pc, op, ret, current, update, newnode>>
    /\ UNCHANGED <<level, key, value, valueAt, height, heap>>

--------------------------------------------------------------------------------
(* get *)

GetCall ==
    /\ pc = "idle"
    /\ pc' = "getSearch"
    /\ op' \in GetOp
    /\ ret' = Null
    /\ current' = Header /\ i' = level
    /\ UNCHANGED <<listVars, update, newnode, heap>>

\* A NULL key.
GetRefused ==
    /\ pc = "idle"
    /\ ret' = Null
    /\ UNCHANGED <<pc, op, listVars, localVars, heap>>

GetAdvance ==
    /\ pc = "getSearch"
    /\ MustAdvance
    /\ current' = forward[current][i]
    /\ UNCHANGED <<pc, op, ret, listVars, i, update, newnode, heap>>

GetDescend ==
    /\ pc = "getSearch"
    /\ ~MustAdvance
    /\ IF i = 0 THEN pc' = "getFound" /\ i' = i
                ELSE i' = i - 1 /\ pc' = pc
    /\ UNCHANGED <<op, ret, listVars, current, update, newnode, heap>>

GetReturn ==
    /\ pc = "getFound"
    /\ Return(IF Found # Null THEN value[Found] ELSE Null)
    /\ UNCHANGED <<listVars, heap>>

--------------------------------------------------------------------------------
(* kvs_close *)

CloseCall ==
    /\ pc = "idle"
    /\ pc' = "closing"
    /\ current' = forward[Header][0]
    /\ UNCHANGED <<op, ret, listVars, i, update, newnode, heap>>

\* free(current->value) and free(current), current->forward[0] read before.
CloseNode ==
    /\ pc = "closing"
    /\ current # Null
    /\ heap' = Freed(heap, {<<valueAt[current], current>>, <<"node", current>>})
    /\ current' = forward[current][0]
    /\ UNCHANGED <<pc, op, ret, listVars, i, update, newnode>>

CloseEnd ==
    /\ pc = "closing"
    /\ current = Null
    /\ heap' = Freed(heap, {<<"node", Header>>, <<"list", Header>>, <<"kvs", Header>>})
    /\ pc' = "done"
    /\ UNCHANGED <<op, ret, listVars, localVars>>

--------------------------------------------------------------------------------
\* main.c has returned.
Ended == pc = "done" /\ UNCHANGED vars

\* The steps the store takes by itself once a call has begun.
Step ==
    \/ PutAdvance \/ PutDescend \/ PutReplace \/ PutReplaceFails
    \/ PutCreate \/ PutCreateFails \/ PutLink
    \/ GetAdvance \/ GetDescend \/ GetReturn
    \/ CloseNode \/ CloseEnd

Next ==
    \/ OpenKvs \/ OpenKvsFails
    \/ PutCall \/ PutRefused \/ GetCall \/ GetRefused \/ CloseCall
    \/ Step
    \/ Ended

Spec == Init /\ [][Next]_vars

\* The process runs on while a call is in progress; no caller has to call again.
FairSpec == Spec /\ WF_vars(Step)

--------------------------------------------------------------------------------
(* Properties *)

\* Every variable keeps to its kind of value (kvs.h and the locals of put.c).
TypeOK ==
    /\ pc \in {"new", "idle", "putSearch", "putFound", "putLink",
               "getSearch", "getFound", "closing", "done"}
    /\ op \in {NoOp} \cup PutOp \cup GetOp
    /\ ret \in {-1, 0, 1, Null} \cup Value
    /\ level \in Level
    /\ forward \in [Ptr -> [Level -> Node \cup {Null}]]
    /\ key \in [Node -> Key \cup {Null}]
    /\ value \in [Node -> Value \cup {Null}]
    /\ valueAt \in [Node -> ValueBlocks]
    /\ height \in [Ptr -> Level]
    /\ current \in Ptr \cup {Null}
    /\ i \in Level
    /\ update \in [Level -> Ptr \cup {Null}]
    /\ newnode \in Node \cup {Null}
    /\ heap \subseteq ({"kvs", "list", "node", "key", "forward"} \cup ValueBlocks) \X Ptr

\* Each level is one chain from the header through all the nodes linked at that level
\* in strictly increasing key order, whatever heights randomLevel drew and although
\* put.c leaves a new node out of the levels the list has just grown by.
LevelSorted == \A j \in Level : Sorted(forward, key, j)

\* A node on an upper level is on every level below it, so a search of get.c or put.c
\* that descends at a node can always go on from that node.
LevelsNested ==
    \A j \in Level : \A l \in 0..j : Linked(forward, j) \subseteq Linked(forward, l)

\* No node is linked at a level its forward array does not have (createNode makes
\* lvl + 1 entries), nor at one above list->level, where no search would look.
HeightsCover == \A j \in Level : \A n \in Linked(forward, j) : j <= height[n] /\ j <= level

\* The loops of put and get index forward arrays within the length they were allocated with.
IndexInBounds ==
    /\ pc \in {"putSearch", "getSearch"} => i <= height[current]
    /\ pc = "putLink" =>
         \A j \in i..height[newnode] : update[j] # Null => j <= height[update[j]]

\* The blocks the pointers of a store with the nodes S lead to.
OwnedBy(n)  == {<<b, n>> : b \in {"node", "key", "forward", valueAt[n]}}
BlocksOf(S) == Obtained(StoreBlocks, Header, 4) \cup UNION {OwnedBy(n) : n \in S}

\* While the store is open the live blocks are those of the store and of the nodes
\* reachable on level 0 (and of the node put is inserting), each value in the block its
\* node points to: no failed allocation of createNode or open_kvs leaves a block behind or
\* frees one in use, and a put that replaces a value frees the old one, not the new one.
\* After kvs_close no node, value, header, list or store is left: what remains of the
\* heap are the key strings and the forward arrays, which close.c never frees.
HeapExact ==
    /\ pc \notin {"new", "closing", "done"} =>
         heap = BlocksOf(Linked(forward, 0) \cup ({newnode} \ {Null}))
    /\ pc = "done" => \A b \in heap : b[1] \in {"key", "forward"}

\* put, get and kvs_close only follow pointers to nodes that are not freed yet; the value
\* get hands out and those kvs_close and put free are live, whatever puts have replaced
\* before, so that nothing is ever freed twice.
WalksLiveNodes ==
    /\ heap # Broken
    /\ current # Null => <<"node", current>> \in heap
    /\ pc = "closing" /\ current # Null => <<valueAt[current], current>> \in heap
    /\ pc \in {"putFound", "getFound"} /\ Found # Null => <<valueAt[Found], Found>> \in heap

\* Every put, get and kvs_close comes to its end.
CallsReturn == (pc \notin {"new", "idle", "done"}) ~> (pc \in {"idle", "done"})

\* The map a caller sees: the nodes on level 0, without the one put is still linking.
Contents ==
    LET there == IF pc \in {"closing", "done"} THEN {} ELSE Linked(forward, 0) \ {newnode}
    IN  [k \in Key |-> IF \E n \in there : key[n] = k
                         THEN value[CHOOSE n \in there : key[n] = k] ELSE Null]

Stage == IF pc = "new" THEN "new"
         ELSE IF pc \in {"closing", "done"} THEN "ended" ELSE "open"

\* The skip list is the map kvs.h promises: get answers the last value put under the
\* key, a put that answers -1 changed nothing, and the new key appears in one step.
Map == INSTANCE KeyValueMap WITH map <- Contents, stage <- Stage, req <- op
ImplementsMap == Map!Spec

--------------------------------------------------------------------------------
(* The inductive invariant the proofs use *)

\* The lists between any two steps.
ListInv ==
    /\ \A n \in Node : \A j \in Level : n \notin Linked(forward, j) => forward[n][j] = Null
    /\ \A n \in Linked(forward, 0) : key[n] \in Key /\ value[n] \in Value
    /\ \A m, n \in Linked(forward, 0) : key[m] = key[n] => m = n
    /\ height[Header] = MaxLevel

\* Which locals are in use at which point of a call.
CallInv ==
    /\ pc \in {"new", "idle", "closing", "done"} => op = NoOp
    /\ pc \in {"putSearch", "putFound", "putLink"} => op \in PutOp
    /\ pc \in {"getSearch", "getFound"} => op \in GetOp
    /\ newnode # Null <=> pc = "putLink"
    /\ pc \in {"new", "idle", "done"} => current = Null
    /\ pc = "new" => forward = [p \in Ptr |-> [j \in Level |-> Null]]

\* The loop invariants of the two searches.
SearchInv ==
    /\ pc \in {"putSearch", "getSearch"} =>
         i <= level /\ current \in OnLevel(forward, i) /\ Precedes(key, current, op.key)
    /\ pc \in {"putFound", "getFound"} => IsLastBefore(forward, key, current, op.key, 0)
    /\ pc = "putSearch" => \A j \in Level :
         IF i < j /\ j <= level THEN IsLastBefore(forward, key, update[j], op.key, j)
                                ELSE update[j] = Null
    /\ pc = "putFound" => \A j \in Level :
         IF j <= level THEN IsLastBefore(forward, key, update[j], op.key, j)
                       ELSE update[j] = Null

\* The loop invariant of the linking loop of put.
LinkInv ==
    pc = "putLink" =>
        /\ key[newnode] = op.key /\ value[newnode] = op.value
        /\ i <= height[newnode] /\ height[newnode] <= level
        /\ current \in OnLevel(forward, 0)
        /\ \A n \in Linked(forward, 0) \ {newnode} : key[n] # op.key
        /\ \A j \in i..MaxLevel : newnode \notin Linked(forward, j)
        /\ \A j \in i..height[newnode] :
             update[j] # Null => IsLastBefore(forward, key, update[j], op.key, j)
        /\ update[0] # Null
        /\ \A j \in Level : \A l \in 0..j : update[j] # Null => update[l] # Null
        /\ \A l \in 0..(i - 1) : update[l] # Null => newnode \in Linked(forward, l)

\* The nodes kvs_close has passed.
Passed == {n \in Linked(forward, 0) : current = Null \/ key[n] < key[current]}

\* The heap at each point of the program.
HeapInv ==
    /\ pc = "new" => heap = {}
    /\ HeapExact
    /\ pc = "closing" =>
         /\ current = Null \/ current \in Linked(forward, 0)
         /\ heap = BlocksOf(Linked(forward, 0)) \ (({"node"} \cup ValueBlocks) \X Passed)

IInv ==
    /\ TypeOK
    /\ LevelSorted /\ LevelsNested /\ HeightsCover
    /\ ListInv /\ CallInv /\ SearchInv /\ LinkInv /\ HeapInv
================================================================================
