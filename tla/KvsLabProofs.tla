------------------------------ MODULE KvsLabProofs ------------------------------
(****************************************************************************)
(* The proofs about kvs_lab.                                                *)
(*                                                                          *)
(* The store: IInv of LabSkipList is inductive, for any keys, any values,   *)
(* any pool of nodes and any MAX_LEVEL; the invariants TLC checks follow    *)
(* from it, and so does the refinement of KeyValueMap.                      *)
(*                                                                          *)
(* The driver: AnswersInv, InsideInv and PromisedInv of QueryDriver are     *)
(* inductive, for any characters, any lines and any widths, once it is      *)
(* known where the lines stand in the file and what a conversion takes;     *)
(* AnswersRight and OnlyNextLineLost follow from them.                      *)
(****************************************************************************)
EXTENDS LabSkipList, QueryDriver, FiniteSetTheorems, SequenceTheorems, TLAPS

--------------------------------------------------------------------------------
(* What splicing a node into a level does to the lists of LevelLists *)

\* InsertAfter writes two pointers of one level and nothing else.
LEMMA InsertAfterValue ==
    ASSUME NEW f \in PtrMaps, NEW j \in Level, NEW p \in Ptr, NEW m \in Node, p # m
    PROVE  LET g == InsertAfter(f, p, m, j)
           IN  /\ g \in PtrMaps
               /\ g[p][j] = m
               /\ g[m][j] = f[p][j]
               /\ \A q \in Ptr \ {p, m} : g[q] = f[q]
               /\ \A q \in Ptr, l \in Level \ {j} : g[q][l] = f[q][l]
  BY DEF InsertAfter, PtrMaps, Ptr

\* The other levels keep their nodes and their order.
LEMMA InsertAfterElsewhere ==
    ASSUME NEW f \in PtrMaps, NEW j \in Level, NEW p \in Ptr, NEW m \in Node, p # m,
           NEW l \in Level \ {j}
    PROVE  Linked(InsertAfter(f, p, m, j), l) = Linked(f, l)
<1> DEFINE g == InsertAfter(f, p, m, j)
<1>1. \A q \in Ptr : g[q][l] = f[q][l]
  BY InsertAfterValue
<1> HIDE DEF g
<1>2. Linked(g, l) = Linked(f, l)
  BY <1>1 DEF Linked
<1> QED  BY <1>2 DEF g

\* The level gains the node m and loses none.
LEMMA InsertAfterLinks ==
    ASSUME NEW f \in PtrMaps, NEW j \in Level, NEW p \in Ptr, NEW m \in Node, p # m,
           f[m][j] = Null, PtrAssumption
    PROVE  Linked(InsertAfter(f, p, m, j), j) = Linked(f, j) \cup {m}
<1> DEFINE g == InsertAfter(f, p, m, j)
<1>1. /\ g[p][j] = m /\ g[m][j] = f[p][j]
      /\ \A q \in Ptr \ {p, m} : g[q][j] = f[q][j]
  BY InsertAfterValue
<1>2. m \in Ptr
  BY DEF Ptr
<1> HIDE DEF g
<1>3. ASSUME NEW n \in Linked(g, j)  PROVE n \in Linked(f, j) \cup {m}
  BY <1>1, <1>2, <1>3 DEF Linked
<1>4. ASSUME NEW n \in Linked(f, j)  PROVE n \in Linked(g, j)
  <2>1. PICK q \in Ptr : f[q][j] = n
    BY <1>4 DEF Linked
  <2>2. q # m
    BY <2>1, PtrAssumption DEF Linked
  <2>3. CASE q = p
    BY <2>1, <2>3, <1>1, <1>2 DEF Linked
  <2>4. CASE q # p
    BY <2>1, <2>2, <2>4, <1>1 DEF Linked
  <2> QED  BY <2>3, <2>4
<1>5. m \in Linked(g, j)
  BY <1>1 DEF Linked
<1>6. Linked(g, j) = Linked(f, j) \cup {m}
  BY <1>3, <1>4, <1>5
<1> QED  BY <1>6 DEF g

\* Spliced in after the last node before its key, a node keeps its level sorted.
LEMMA InsertAfterSorted ==
    ASSUME NEW f \in PtrMaps, NEW k \in KeyMaps, NEW j \in Level, NEW p \in Ptr,
           NEW m \in Node, PtrAssumption, KeyAssumption,
           \A n \in Linked(f, j) : k[n] \in Key,
           k[m] \in Key,
           f[m][j] = Null, m \notin Linked(f, j),
           Sorted(f, k, j),
           IsLastBefore(f, k, p, k[m], j),
           \A n \in Linked(f, j) : k[n] # k[m],
           \A a, b \in Linked(f, j) : k[a] = k[b] => a = b
    PROVE  Sorted(InsertAfter(f, p, m, j), k, j)
<1> DEFINE g == InsertAfter(f, p, m, j)
<1>1. p # m
  BY PtrAssumption DEF IsLastBefore, OnLevel
<1>2. /\ g[p][j] = m /\ g[m][j] = f[p][j]
      /\ \A q \in Ptr \ {p, m} : g[q][j] = f[q][j]
  BY <1>1, InsertAfterValue
<1>3. Linked(g, j) = Linked(f, j) \cup {m}
  BY <1>1, InsertAfterLinks
<1>4. \A q \in Ptr : f[q][j] # Null => f[q][j] \in Linked(f, j)
  BY DEF Linked, PtrMaps
<1>5. Linked(f, j) \subseteq Node
  BY DEF Linked
<1>6. \A n \in Linked(f, j) \cup {m} : k[n] \in Nat
  BY KeyAssumption
<1> HIDE DEF g
<1>7. ASSUME NEW q \in OnLevel(g, j)  PROVE IsNext(g, k, q, g[q][j], j)
  <2>1. IsNext(f, k, p, f[p][j], j)
    BY DEF Sorted, IsLastBefore
  <2>2. CASE q = p
    <3>1. Precedes(k, p, k[m])
      BY DEF IsLastBefore
    <3>2. ASSUME NEW n \in Linked(f, j), Precedes(k, p, k[n])  PROVE k[m] <= k[n]
      <4>1. f[p][j] # Null /\ k[f[p][j]] <= k[n]
        BY <2>1, <3>2 DEF IsNext
      <4>2. k[m] <= k[f[p][j]]
        BY <4>1 DEF IsLastBefore
      <4> QED  BY <4>1, <4>2, <1>4, <1>6
    <3>3. k[m] <= k[m]
      BY <1>6
    <3> QED  BY <2>2, <3>1, <3>2, <3>3, <1>2, <1>3, PtrAssumption DEF IsNext
  <2>3. CASE q = m
    <3>1. ASSUME f[p][j] # Null  PROVE k[m] < k[f[p][j]]
      <4>1. k[m] <= k[f[p][j]] /\ k[m] # k[f[p][j]]
        BY <3>1, <1>4 DEF IsLastBefore
      <4> QED  BY <4>1, <1>4, <1>6, <3>1
    <3>2. ASSUME NEW n \in Linked(f, j), k[m] < k[n]
          PROVE  f[p][j] # Null /\ k[f[p][j]] <= k[n]
      <4>1. Precedes(k, p, k[n])
        <5>1. CASE p = Header
          BY <5>1 DEF Precedes
        <5>2. CASE p # Header
          <6>1. p \in Linked(f, j) /\ k[p] < k[m]
            BY <5>2 DEF IsLastBefore, OnLevel, Precedes
          <6> QED  BY <6>1, <3>2, <1>6 DEF Precedes
        <5> QED  BY <5>1, <5>2
      <4> QED  BY <4>1, <2>1 DEF IsNext
    <3>3. m # Header /\ ~(k[m] < k[m])
      BY PtrAssumption, <1>6
    <3> QED  BY <2>3, <3>1, <3>2, <3>3, <1>2, <1>3 DEF IsNext, Precedes
  <2>4. CASE q # p /\ q # m
    <3>1. q \in OnLevel(f, j) /\ q \in Ptr
      BY <2>4, <1>3, <1>5 DEF OnLevel, Ptr
    <3>2. IsNext(f, k, q, f[q][j], j) /\ g[q][j] = f[q][j]
      BY <3>1, <2>4, <1>2 DEF Sorted
    <3>3. ASSUME Precedes(k, q, k[m])
          PROVE  f[q][j] # Null /\ k[f[q][j]] <= k[m]
      \* q lies before p: a node of level j between p and m would be p's next one.
      <4>1. CASE p = Header
        <5>1. q \in Linked(f, j) /\ k[q] < k[m]
          BY <4>1, <2>4, <3>1, <3>3 DEF OnLevel, Precedes
        <5>2. f[p][j] # Null /\ k[f[p][j]] <= k[q]
          BY <5>1, <4>1, <2>1 DEF IsNext, Precedes
        <5>3. k[m] <= k[f[p][j]]
          BY <5>2 DEF IsLastBefore
        <5> QED  BY <5>1, <5>2, <5>3, <1>4, <1>6
      <4>2. CASE p # Header /\ Precedes(k, q, k[p])
        <5>1. p \in Linked(f, j) /\ k[p] < k[m]
          BY <4>2 DEF IsLastBefore, OnLevel, Precedes
        <5>2. f[q][j] # Null /\ k[f[q][j]] <= k[p]
          BY <5>1, <4>2, <3>2 DEF IsNext
        <5> QED  BY <5>1, <5>2, <1>4, <1>6, <3>1
      <4>3. CASE p # Header /\ ~Precedes(k, q, k[p])
        <5>1. p \in Linked(f, j) /\ k[p] < k[m]
          BY <4>3 DEF IsLastBefore, OnLevel, Precedes
        <5>2. q \in Linked(f, j) /\ ~(k[q] < k[p]) /\ k[q] < k[m]
          BY <4>3, <3>1, <3>3 DEF OnLevel, Precedes
        <5>3. CASE k[p] < k[q]
          <6>1. f[p][j] # Null /\ k[f[p][j]] <= k[q]
            BY <5>2, <5>3, <2>1 DEF IsNext, Precedes
          <6>2. k[m] <= k[f[p][j]]
            BY <6>1 DEF IsLastBefore
          <6> QED  BY <5>2, <6>1, <6>2, <1>4, <1>6
        <5>4. CASE k[p] = k[q]
          BY <5>1, <5>2, <5>4, <2>4
        <5> QED  BY <5>1, <5>2, <5>3, <5>4, <1>6
      <4> QED  BY <4>1, <4>2, <4>3
    <3> QED  BY <3>2, <3>3, <1>2, <1>3, <2>4 DEF IsNext
  <2> QED  BY <2>2, <2>3, <2>4
<1>8. Sorted(g, k, j)
  BY <1>7 DEF Sorted
<1> QED  BY <1>8 DEF g

\* The order of a level depends on the keys of its own nodes only.
LEMMA SortedSameKeys ==
    ASSUME NEW f \in PtrMaps, NEW k, NEW h, NEW j \in Level, PtrAssumption,
           \A n \in Linked(f, j) : k[n] = h[n],
           Sorted(f, k, j)
    PROVE  Sorted(f, h, j)
<1>1. \A p \in OnLevel(f, j) : f[p][j] # Null => f[p][j] \in Linked(f, j)
  BY DEF OnLevel, Linked, PtrMaps, Ptr
<1> SUFFICES ASSUME NEW p \in OnLevel(f, j)  PROVE IsNext(f, h, p, f[p][j], j)
  BY DEF Sorted
<1>2. IsNext(f, k, p, f[p][j], j)
  BY DEF Sorted
<1>3. p # Header => k[p] = h[p]
  BY DEF OnLevel
<1> QED  BY <1>1, <1>2, <1>3 DEF IsNext, Precedes

\* So does being the last node of a level before a key.
LEMMA LastBeforeSameKeys ==
    ASSUME NEW f \in PtrMaps, NEW k, NEW h, NEW j \in Level, NEW p, NEW x, PtrAssumption,
           \A n \in Linked(f, j) : k[n] = h[n],
           IsLastBefore(f, k, p, x, j)
    PROVE  IsLastBefore(f, h, p, x, j)
<1>1. f[p][j] # Null => f[p][j] \in Linked(f, j)
  BY DEF IsLastBefore, OnLevel, Linked, PtrMaps, Ptr
<1>2. p # Header => k[p] = h[p]
  BY DEF IsLastBefore, OnLevel
<1> QED  BY <1>1, <1>2 DEF IsLastBefore, Precedes

\* A splice on one level leaves the order of the others alone.
LEMMA InsertAfterSortedElsewhere ==
    ASSUME NEW f \in PtrMaps, NEW k, NEW j \in Level, NEW p \in Ptr, NEW m \in Node, p # m,
           NEW l \in Level \ {j}, Sorted(f, k, l)
    PROVE  Sorted(InsertAfter(f, p, m, j), k, l)
<1> DEFINE g == InsertAfter(f, p, m, j)
<1>1. \A q \in Ptr : g[q][l] = f[q][l]
  BY InsertAfterValue
<1>2. Linked(g, l) = Linked(f, l)
  BY InsertAfterElsewhere
<1>3. OnLevel(g, l) = OnLevel(f, l) /\ OnLevel(f, l) \subseteq Ptr
  BY <1>2 DEF OnLevel, Linked, Ptr
<1> HIDE DEF g
<1>4. Sorted(g, k, l)
  BY <1>1, <1>2, <1>3 DEF Sorted, IsNext
<1> QED  BY <1>4 DEF g

\* Nor does it change which node of another level is the last before a key.
LEMMA InsertAfterLastElsewhere ==
    ASSUME NEW f \in PtrMaps, NEW k, NEW j \in Level, NEW p \in Ptr, NEW m \in Node, p # m,
           NEW l \in Level \ {j}, NEW q, NEW x, IsLastBefore(f, k, q, x, l)
    PROVE  IsLastBefore(InsertAfter(f, p, m, j), k, q, x, l)
<1> DEFINE g == InsertAfter(f, p, m, j)
<1>1. \A r \in Ptr : g[r][l] = f[r][l]
  BY InsertAfterValue
<1>2. Linked(g, l) = Linked(f, l)
  BY InsertAfterElsewhere
<1>3. OnLevel(g, l) = OnLevel(f, l) /\ OnLevel(f, l) \subseteq Ptr
  BY <1>2 DEF OnLevel, Linked, Ptr
<1> HIDE DEF g
<1>4. IsLastBefore(g, k, q, x, l)
  BY <1>1, <1>3 DEF IsLastBefore
<1> QED  BY <1>4 DEF g

\* If p is the last of level j before x and p's next node does not hold x, no node does.
LEMMA NotFound ==
    ASSUME NEW f \in PtrMaps, NEW k, NEW j \in Level, NEW p, NEW x \in Key,
           KeyAssumption, PtrAssumption,
           \A n \in Linked(f, j) : k[n] \in Key,
           Sorted(f, k, j), IsLastBefore(f, k, p, x, j),
           f[p][j] = Null \/ k[f[p][j]] # x
    PROVE  \A n \in Linked(f, j) : k[n] # x
<1> SUFFICES ASSUME NEW n \in Linked(f, j), k[n] = x  PROVE FALSE
  OBVIOUS
<1>1. IsNext(f, k, p, f[p][j], j)
  BY DEF Sorted, IsLastBefore
<1>2. f[p][j] # Null /\ k[f[p][j]] <= x
  BY <1>1 DEF IsNext, IsLastBefore
<1>3. f[p][j] \in Linked(f, j)
  BY <1>2 DEF IsLastBefore, OnLevel, Linked, PtrMaps, Ptr
<1>4. x <= k[f[p][j]]
  BY <1>2 DEF IsLastBefore
<1>5. k[f[p][j]] \in Nat /\ x \in Nat
  BY <1>3, KeyAssumption
<1> QED  BY <1>2, <1>4, <1>5

--------------------------------------------------------------------------------
(* The map a list is: each key with the value of the node that holds it *)

LEMMA HeldValue ==
    ASSUME NEW N, NEW k, NEW v, DistinctKeys(N, k), NEW n \in N
    PROVE  HeldAt(N, k, v, k[n]) = v[n]
<1>1. Holders(N, k, k[n]) = {n}
  BY DEF Holders, DistinctKeys
<1>2. (CHOOSE m \in {n} : TRUE) = n
  OBVIOUS
<1> QED  BY <1>1, <1>2 DEF HeldAt

LEMMA HeldNothing ==
    ASSUME NEW N, NEW k, NEW v, NEW x, \A n \in N : k[n] # x
    PROVE  HeldAt(N, k, v, x) = Null
<1>1. Holders(N, k, x) = {}
  BY DEF Holders
<1> QED  BY <1>1 DEF HeldAt

\* The map depends on the keys and values of the nodes N and on nothing else.
LEMMA MapOfSame ==
    ASSUME NEW N, NEW k, NEW v, NEW k2, NEW v2, DistinctKeys(N, k),
           \A n \in N : k2[n] = k[n] /\ v2[n] = v[n]
    PROVE  MapOf(N, k2, v2) = MapOf(N, k, v)
<1>1. DistinctKeys(N, k2)
  BY DEF DistinctKeys
<1>2. ASSUME NEW x  PROVE HeldAt(N, k2, v2, x) = HeldAt(N, k, v, x)
  <2>1. CASE \E n \in N : k[n] = x
    BY <1>1, <2>1, HeldValue
  <2>2. CASE \A n \in N : k[n] # x
    BY <2>2, HeldNothing
  <2> QED  BY <2>1, <2>2
<1> QED  BY <1>2 DEF MapOf

LEMMA MapOfStored ==
    ASSUME NEW N, NEW k, NEW v, NEW k2, NEW v2, NEW m, NEW x \in Key, NEW y,
           Stores(N, k, v, k2, v2, m, x, y), m \in N => k[m] = x
    PROVE  MapOf(N \cup {m}, k2, v2) = [MapOf(N, k, v) EXCEPT ![x] = y]
<1> USE DEF Stores
<1>1. DistinctKeys(N \cup {m}, k2)
  BY DEF DistinctKeys
<1>2. HeldAt(N \cup {m}, k2, v2, x) = y
  BY <1>1, HeldValue
<1>3. ASSUME NEW z, z # x
      PROVE  HeldAt(N \cup {m}, k2, v2, z) = HeldAt(N, k, v, z)
  <2>1. CASE \E n \in N : k[n] = z
    <3>1. PICK n \in N : k[n] = z
      BY <2>1
    <3>2. n # m /\ k2[n] = z /\ v2[n] = v[n] /\ n \in N \cup {m}
      BY <1>3, <3>1
    <3> QED  BY <1>1, <3>1, <3>2, HeldValue
  <2>2. CASE \A n \in N : k[n] # z
    <3>1. \A n \in N \cup {m} : k2[n] # z
      BY <1>3, <2>2
    <3> QED  BY <2>2, <3>1, HeldNothing
  <2> QED  BY <2>1, <2>2
<1> QED  BY <1>2, <1>3 DEF MapOf

--------------------------------------------------------------------------------
(* IInv *)

\* The part of IInv that speaks of the lists alone.
Lists == LevelSorted /\ LevelsNested /\ HeightsCover /\ ListInv

--------------------------------------------------------------------------------
(* Facts about single states *)

LEMMA LevelZero == 0 \in Level /\ Level \subseteq Int
  BY LevelAssumption DEF Level

\* Before open_kvs no node is linked.
LEMMA NothingLinked ==
    ASSUME CallInv, pc = "new"
    PROVE  \A j \in Level : Linked(forward, j) = {}
  BY PtrAssumption DEF CallInv, Linked, Ptr

\* A node linked anywhere is linked on level 0.
LEMMA LinkedOnZero ==
    ASSUME LevelsNested, NEW j \in Level
    PROVE  Linked(forward, j) \subseteq Linked(forward, 0)
  BY LevelAssumption DEF LevelsNested, Level

\* The nodes a forward pointer can lead to.
LEMMA PointerIsLinked ==
    ASSUME TypeOK, NEW p \in Ptr, NEW j \in Level, forward[p][j] # Null
    PROVE  forward[p][j] \in Linked(forward, j)
  BY DEF TypeOK, Linked

LEMMA FoundFacts ==
    ASSUME TypeOK, ListInv, current \in OnLevel(forward, 0)
    PROVE  /\ Found # Null => /\ Found \in Linked(forward, 0)
                              /\ Found = forward[current][0]
                              /\ key[Found] = op.key
           /\ Found = Null => forward[current][0] = Null \/ key[forward[current][0]] # op.key
<1>1. current \in Ptr
  BY DEF OnLevel, Linked, Ptr
<1> QED  BY <1>1, PointerIsLinked, LevelZero DEF Found

--------------------------------------------------------------------------------
(* The blocks *)

\* The nodes of an open store.
OpenNodes == Linked(forward, 0) \cup ({newnode} \ {Null})

LEMMA StoreBlocksAre ==
    Obtained(StoreBlocks, Header, 4) = {<<"kvs", Header>>, <<"list", Header>>,
                                        <<"node", Header>>, <<"forward", Header>>}
<1>1. 1..4 = {1, 2, 3, 4}
  OBVIOUS
<1> QED  BY <1>1 DEF Obtained, StoreBlocks

LEMMA NodeBlocksAre ==
    ASSUME NEW n
    PROVE  Obtained(NodeBlocks, n, 4) =
             {<<"node", n>>, <<"key", n>>, <<"value", n>>, <<"forward", n>>}
<1>1. 1..4 = {1, 2, 3, 4}
  OBVIOUS
<1> QED  BY <1>1 DEF Obtained, NodeBlocks

\* The eight kinds of blocks of a store with the nodes S.
LEMMA BlocksOfMember ==
    ASSUME NEW S, NEW b
    PROVE  b \in BlocksOf(S) <=>
             \/ b \in {<<"kvs", Header>>, <<"list", Header>>,
                       <<"node", Header>>, <<"forward", Header>>}
             \/ \E n \in S : b \in {<<"node", n>>, <<"key", n>>, <<valueAt[n], n>>, <<"forward", n>>}
  BY StoreBlocksAre DEF BlocksOf, OwnedBy

\* The same after a step.
LEMMA OpenBlocksNext ==
    ASSUME NEW b
    PROVE  b \in BlocksOf(OpenNodes)' <=>
             \/ b \in {<<"kvs", Header>>, <<"list", Header>>,
                       <<"node", Header>>, <<"forward", Header>>}
             \/ \E n \in OpenNodes' :
                   b \in {<<"node", n>>, <<"key", n>>, <<valueAt'[n], n>>, <<"forward", n>>}
  BY StoreBlocksAre DEF BlocksOf, OwnedBy

\* open_kvs and createNode free exactly what they obtained before the failure.
LEMMA FailureFreesAll ==
    ASSUME NEW p, NEW n \in 0..3
    PROVE  /\ Obtained(StoreBlocks, Header, n) = FreedByOpen(n)
           /\ Obtained(NodeBlocks, p, n) = FreedByCreateNode(p, n)
<1>1. n \in {0, 1, 2, 3} /\ 1..0 = {} /\ 1..1 = {1} /\ 1..2 = {1, 2} /\ 1..3 = {1, 2, 3}
  OBVIOUS
<1>2. CASE n = 0
  BY <1>1, <1>2 DEF Obtained, FreedByOpen, FreedByCreateNode
<1>3. CASE n = 1
  BY <1>1, <1>3 DEF Obtained, FreedByOpen, FreedByCreateNode, StoreBlocks, NodeBlocks
<1>4. CASE n = 2
  BY <1>1, <1>4 DEF Obtained, FreedByOpen, FreedByCreateNode, StoreBlocks, NodeBlocks
<1>5. CASE n = 3
  BY <1>1, <1>5 DEF Obtained, FreedByOpen, FreedByCreateNode, StoreBlocks, NodeBlocks
<1> QED  BY <1>1, <1>2, <1>3, <1>4, <1>5

\* malloc hands out a node whose blocks are all free.
LEMMA NewNode ==
    ASSUME IInv, pc = "putFound", NEW n \in NewNodes
    PROVE  n \in Node /\ Fresh(n)
<1>1. op.key \in Key
  BY DEF IInv, CallInv, PutOp
<1> DEFINE S == {m \in Node : Fresh(m)}
<1>2. S \in SUBSET Node
  OBVIOUS
<1>3. n \in S
  BY <1>1, <1>2, MallocAssumption DEF NewNodes
<1> QED  BY <1>3

\* malloc hands out no node that is linked.
LEMMA FreshIsUnlinked ==
    ASSUME TypeOK, LevelsNested, ListInv, HeapInv, pc = "putFound", NEW n \in Node, Fresh(n)
    PROVE  /\ \A j \in Level : n \notin Linked(forward, j)
           /\ forward[n] = [j \in Level |-> Null]
<1>1. n \notin Linked(forward, 0)
  <2> SUFFICES ASSUME n \in Linked(forward, 0)  PROVE FALSE
    OBVIOUS
  <2>1. heap = BlocksOf(Linked(forward, 0) \cup ({newnode} \ {Null}))
    BY DEF HeapInv, HeapExact
  <2>2. <<"node", n>> \in heap
    BY <2>1, BlocksOfMember
  <2> QED  BY <2>2 DEF Fresh
<1>2. \A j \in Level : n \notin Linked(forward, j)
  BY <1>1, LinkedOnZero
<1>3. \A j \in Level : forward[n][j] = Null
  BY <1>2 DEF ListInv
<1>4. forward[n] = [j \in Level |-> forward[n][j]]
  BY DEF TypeOK, Ptr
<1> QED  BY <1>2, <1>3, <1>4

\* A search stands on a node, and what it advances to is a node.
LEMMA SearchPosition ==
    ASSUME IInv, pc \in {"putSearch", "getSearch"}
    PROVE  /\ current \in Ptr /\ current \in OnLevel(forward, i)
           /\ i \in Level /\ i <= level
           /\ op.key \in Key
           /\ MustAdvance => /\ forward[current][i] \in Linked(forward, i)
                            /\ forward[current][i] \in Node
<1>1. i \in Level /\ current \in OnLevel(forward, i) /\ i <= level
  BY DEF IInv, TypeOK, SearchInv
<1>2. current \in Ptr
  BY <1>1 DEF OnLevel, Linked, Ptr
<1>3. op.key \in Key
  BY DEF IInv, CallInv, PutOp, GetOp
<1>4. MustAdvance => forward[current][i] \in Linked(forward, i)
  BY <1>1, <1>2, PointerIsLinked DEF IInv, MustAdvance
<1> QED  BY <1>1, <1>2, <1>3, <1>4 DEF Linked

\* The end of a search: current is the last node of level 0 before the key.
LEMMA FoundPosition ==
    ASSUME IInv, pc \in {"putFound", "getFound"}
    PROVE  /\ current \in OnLevel(forward, 0)
           /\ op.key \in Key
           /\ Found # Null => /\ Found \in Linked(forward, 0) /\ Found \in Node
                             /\ key[Found] = op.key
           /\ Found = Null => \A n \in Linked(forward, 0) : key[n] # op.key
<1>1. IsLastBefore(forward, key, current, op.key, 0)
  BY DEF IInv, SearchInv
<1>2. current \in OnLevel(forward, 0)
  BY <1>1 DEF IsLastBefore
<1>3. op.key \in Key
  BY DEF IInv, CallInv, PutOp, GetOp
<1>4. /\ Found # Null => Found \in Linked(forward, 0) /\ key[Found] = op.key
      /\ Found = Null => forward[current][0] = Null \/ key[forward[current][0]] # op.key
  BY <1>2, FoundFacts DEF IInv
<1>5. Found = Null => \A n \in Linked(forward, 0) : key[n] # op.key
  <2>1. forward \in PtrMaps /\ \A n \in Linked(forward, 0) : key[n] \in Key
    BY DEF IInv, TypeOK, ListInv, PtrMaps
  <2>2. Sorted(forward, key, 0)
    BY LevelZero DEF IInv, LevelSorted
  <2> QED  BY <1>1, <1>3, <1>4, <2>1, <2>2, LevelZero, KeyAssumption, PtrAssumption, NotFound
<1> QED  BY <1>2, <1>3, <1>4, <1>5 DEF Linked

\* The node put is linking, and where.
LEMMA LinkPosition ==
    ASSUME IInv, pc = "putLink"
    PROVE  /\ newnode \in Node /\ key[newnode] = op.key /\ op.key \in Key /\ value[newnode] \in Value
           /\ i \in Level /\ height[newnode] \in Level
           /\ i <= height[newnode] /\ height[newnode] <= level
           /\ update[i] # Null => /\ update[i] \in Ptr /\ update[i] # newnode
                                 /\ IsLastBefore(forward, key, update[i], op.key, i)
           /\ newnode \notin Linked(forward, i) /\ forward[newnode][i] = Null
<1>1. newnode \in Node
  BY DEF IInv, TypeOK, CallInv
<1>2. i \in Level /\ height[newnode] \in Level /\ i <= height[newnode] /\ height[newnode] <= level
  BY <1>1 DEF IInv, TypeOK, LinkInv, Ptr
<1>3. op.key \in Key /\ key[newnode] = op.key /\ value[newnode] \in Value
  BY DEF IInv, CallInv, LinkInv, PutOp
<1>4. i \in i..MaxLevel /\ i \in i..height[newnode]
  BY <1>2, LevelAssumption DEF Level
<1>5. newnode \notin Linked(forward, i)
  BY <1>4 DEF IInv, LinkInv
<1>6. forward[newnode][i] = Null
  BY <1>1, <1>2, <1>5 DEF IInv, ListInv
<1>7. ASSUME update[i] # Null
      PROVE  /\ update[i] \in Ptr /\ update[i] # newnode
             /\ IsLastBefore(forward, key, update[i], op.key, i)
  <2>1. IsLastBefore(forward, key, update[i], op.key, i)
    BY <1>4, <1>7 DEF IInv, LinkInv
  <2>2. update[i] \in OnLevel(forward, i)
    BY <2>1 DEF IsLastBefore
  <2> QED  BY <1>1, <1>5, <2>1, <2>2, PtrAssumption DEF OnLevel, Linked, Ptr
<1> QED  BY <1>1, <1>2, <1>3, <1>5, <1>6, <1>7

--------------------------------------------------------------------------------
(* What the store frees is live *)

\* The heap of an open store.
LEMMA OpenHeap == IInv /\ pc \notin {"new", "closing", "done"} => heap = BlocksOf(OpenNodes)
  BY DEF IInv, HeapInv, HeapExact, OpenNodes

\* The value put replaces and get hands out.
LEMMA FoundLive ==
    ASSUME IInv, pc \in {"putFound", "getFound"}, Found # Null
    PROVE  <<valueAt[Found], Found>> \in heap
<1>1. heap = BlocksOf(OpenNodes)
  BY OpenHeap
<1>2. Found \in OpenNodes
  BY FoundPosition DEF OpenNodes
<1> QED  BY <1>1, <1>2, BlocksOfMember

\* The blocks kvs_close frees in a turn of its loop.
LEMMA PassingLive ==
    ASSUME IInv, pc = "closing", current # Null
    PROVE  /\ current \in Linked(forward, 0)
           /\ <<"node", current>> \in heap /\ <<valueAt[current], current>> \in heap
<1>1. current \in Linked(forward, 0)
      /\ heap = BlocksOf(Linked(forward, 0)) \ (({"node"} \cup ValueBlocks) \X Passed)
  BY DEF IInv, HeapInv
<1>2. key[current] \in Nat
  BY <1>1, KeyAssumption DEF IInv, ListInv
<1>3. ~(key[current] < key[current])
  BY <1>2
<1>4. current \notin Passed
  BY <1>3 DEF Passed
<1>5. <<"node", current>> \in BlocksOf(Linked(forward, 0))
      /\ <<valueAt[current], current>> \in BlocksOf(Linked(forward, 0))
  BY <1>1, BlocksOfMember
<1> QED  BY <1>1, <1>4, <1>5

\* The blocks kvs_close frees at its end.
LEMMA HeaderLive ==
    ASSUME IInv, pc = "closing"
    PROVE  {<<"node", Header>>, <<"list", Header>>, <<"kvs", Header>>} \subseteq heap
<1>1. heap = BlocksOf(Linked(forward, 0)) \ (({"node"} \cup ValueBlocks) \X Passed)
  BY DEF IInv, HeapInv
<1>2. Header \notin Passed
  BY PtrAssumption DEF Passed, Linked
<1> QED  BY <1>1, <1>2, BlocksOfMember

\* A free of live blocks takes them off the heap and nothing else.
LEMMA FreedLive ==
    ASSUME NEW h, NEW blocks, blocks \subseteq h
    PROVE  Freed(h, blocks) = h \ blocks
  BY DEF Freed

\* What a replacement does to the heap.
LEMMA ReplaceHeap ==
    ASSUME IInv, PutReplace
    PROVE  \E b \in ValueBlocks :
             /\ b # valueAt[Found] /\ <<b, Found>> \notin heap
             /\ heap' = (heap \cup {<<b, Found>>}) \ {<<valueAt[Found], Found>>}
             /\ valueAt' = [valueAt EXCEPT ![Found] = b]
<1>1. PICK b \in ValueBlocks :
        /\ <<b, Found>> \notin heap
        /\ heap' = Freed(heap \cup {<<b, Found>>}, {<<valueAt[Found], Found>>})
        /\ valueAt' = [valueAt EXCEPT ![Found] = b]
  BY DEF PutReplace
<1>2. <<valueAt[Found], Found>> \in heap
  BY FoundLive DEF PutReplace
<1>3. heap' = (heap \cup {<<b, Found>>}) \ {<<valueAt[Found], Found>>}
  BY <1>1, <1>2, FreedLive
<1> QED  BY <1>1, <1>2, <1>3

\* What a turn of the loop of kvs_close, and its end, do to the heap.
LEMMA CloseHeap ==
    ASSUME IInv
    PROVE  /\ CloseNode => heap' = heap \ {<<valueAt[current], current>>, <<"node", current>>}
           /\ CloseEnd => heap' = heap \ {<<"node", Header>>, <<"list", Header>>, <<"kvs", Header>>}
  BY PassingLive, HeaderLive, FreedLive DEF CloseNode, CloseEnd

\* An allocation that fails in the middle of createNode leaves the heap as it was.
LEMMA CreateFailsHeap ==
    ASSUME IInv, PutCreateFails
    PROVE  heap' = heap
<1>1. PICK n \in NewNodes, got \in 0..3 :
        heap' = Freed(heap \cup Obtained(NodeBlocks, n, got), FreedByCreateNode(n, got))
  BY DEF PutCreateFails
<1>2. Fresh(n)
  BY NewNode DEF PutCreateFails
<1>3. Obtained(NodeBlocks, n, got) \cap heap = {}
  <2>1. 1..got \subseteq 1..4
    OBVIOUS
  <2>2. Obtained(NodeBlocks, n, got) \subseteq Obtained(NodeBlocks, n, 4)
    BY <2>1 DEF Obtained
  <2> QED  BY <1>2, <2>2, NodeBlocksAre DEF Fresh, ValueBlocks
<1> QED  BY <1>1, <1>3, FailureFreesAll, FreedLive

\* Nor does one in the middle of open_kvs.
LEMMA OpenFailsHeap ==
    ASSUME IInv, OpenKvsFails
    PROVE  heap' = {}
<1>1. heap = {}
  BY DEF OpenKvsFails, IInv, HeapInv
<1> QED  BY <1>1, FailureFreesAll, FreedLive DEF OpenKvsFails

--------------------------------------------------------------------------------
(* Types *)

LEMMA GrownLevelType ==
    ASSUME level \in Level, NEW lvl \in Level
    PROVE  GrownLevel(lvl) \in Level /\ level <= GrownLevel(lvl) /\ lvl <= GrownLevel(lvl)
  BY LevelAssumption DEF GrownLevel, Level

LEMMA InitTypes == Init => TypeOK
  BY LevelZero, LevelAssumption DEF Init, TypeOK, Ptr, Level, NoUpdate, ValueBlocks

LEMMA TypeStep == IInv /\ [Next]_vars => TypeOK'
<1> SUFFICES ASSUME IInv, [Next]_vars  PROVE TypeOK'
  OBVIOUS
<1> USE LevelZero
<1>0. TypeOK
  BY DEF IInv
<1>1. CASE OpenKvs
  <2>1. Obtained(StoreBlocks, Header, 4) \subseteq {"kvs", "list", "node", "forward"} \X Ptr
    BY StoreBlocksAre DEF Ptr
  <2> QED  BY <1>0, <1>1, <2>1 DEF OpenKvs, TypeOK, Ptr, localVars
<1>2. CASE OpenKvsFails
  <2>1. heap' = {}
    BY <1>2, OpenFailsHeap
  <2> QED  BY <1>0, <1>2, <2>1 DEF OpenKvsFails, TypeOK, listVars, localVars
<1>3. CASE PutCall \/ GetCall
  BY <1>0, <1>3 DEF PutCall, GetCall, TypeOK, listVars, NoUpdate, Ptr
<1>4. CASE PutRefused \/ GetRefused
  BY <1>0, <1>4 DEF PutRefused, GetRefused, TypeOK, listVars, localVars
<1>5. CASE CloseCall
  BY <1>0, <1>5 DEF CloseCall, TypeOK, listVars, Ptr
<1>6. CASE PutAdvance \/ GetAdvance
  BY <1>0, <1>6, SearchPosition DEF PutAdvance, GetAdvance, TypeOK, listVars, Ptr
<1>7. CASE PutDescend \/ GetDescend
  <2>1. i # 0 => i - 1 \in Level
    BY <1>0, LevelAssumption DEF TypeOK, Level
  <2> QED  BY <1>0, <1>7, <2>1, SearchPosition DEF PutDescend, GetDescend, TypeOK, listVars
<1>8. CASE PutReplace \/ PutReplaceFails
  <2>1. pc = "putFound" /\ op.value \in Value /\ Found \in Node
    BY <1>8, FoundPosition DEF PutReplace, PutReplaceFails, IInv, CallInv, PutOp
  <2>2. CASE PutReplace
    <3>1. PICK b \in ValueBlocks :
            /\ heap' = (heap \cup {<<b, Found>>}) \ {<<valueAt[Found], Found>>}
            /\ valueAt' = [valueAt EXCEPT ![Found] = b]
      BY <2>2, ReplaceHeap
    <3>2. /\ valueAt' \in [Node -> ValueBlocks]
          /\ heap' \subseteq ({"kvs", "list", "node", "key", "forward"} \cup ValueBlocks) \X Ptr
      BY <1>0, <2>1, <3>1 DEF TypeOK, Ptr
    <3> QED  BY <1>0, <2>1, <2>2, <3>2 DEF PutReplace, Return, TypeOK, NoUpdate
  <2>3. CASE PutReplaceFails
    BY <1>0, <2>3 DEF PutReplaceFails, Return, TypeOK, listVars, NoUpdate
  <2> QED  BY <1>8, <2>2, <2>3
<1>9. CASE PutCreate
  <2>1. op.key \in Key /\ op.value \in Value
    BY <1>9 DEF PutCreate, IInv, CallInv, PutOp
  <2>2. PICK lvl \in Level, n \in Node :
          /\ update' = GrownUpdate(lvl) /\ level' = GrownLevel(lvl)
          /\ heap' = heap \cup Obtained(NodeBlocks, n, 4)
          /\ key' = [key EXCEPT ![n] = op.key]
          /\ value' = [value EXCEPT ![n] = op.value]
          /\ valueAt' = [valueAt EXCEPT ![n] = "value"]
          /\ height' = [height EXCEPT ![n] = lvl]
          /\ forward' = [forward EXCEPT ![n] = [j \in Level |-> Null]]
          /\ newnode' = n
    BY <1>9, NewNode DEF PutCreate, RandomLevel, Level
  <2>3. /\ Obtained(NodeBlocks, n, 4) \subseteq ({"node", "key", "forward"} \cup ValueBlocks) \X Ptr
        /\ "value" \in ValueBlocks
    BY NodeBlocksAre DEF Ptr, ValueBlocks
  <2>4. GrownLevel(lvl) \in Level /\ GrownUpdate(lvl) \in [Level -> Ptr \cup {Null}]
    BY <1>0, GrownLevelType DEF GrownUpdate, TypeOK
  <2>5. pc' = "putLink" /\ i' = 0 /\ UNCHANGED <<op, ret, current>>
    BY <1>9 DEF PutCreate
  <2> QED  BY <1>0, <2>1, <2>2, <2>3, <2>4, <2>5 DEF TypeOK, Ptr
<1>10. CASE PutCreateFails
  <2>1. PICK lvl \in Level : level' = GrownLevel(lvl)
    BY <1>10 DEF PutCreateFails, RandomLevel, Level
  <2>2. heap' = heap
    BY <1>10, CreateFailsHeap
  <2> QED  BY <1>0, <1>10, <2>1, <2>2, GrownLevelType DEF PutCreateFails, Return, TypeOK, NoUpdate
<1>11. CASE PutLink
  <2>1. forward' \in [Ptr -> [Level -> Node \cup {Null}]]
    BY <1>0, <1>11, LinkPosition, InsertAfterValue DEF PutLink, TypeOK, PtrMaps
  <2>2. i # height[newnode] => i + 1 \in Level
    BY <1>11, LinkPosition, LevelAssumption DEF PutLink, Level
  <2> QED  BY <1>0, <1>11, <2>1, <2>2 DEF PutLink, Return, TypeOK, NoUpdate
<1>12. CASE GetReturn
  <2>1. Found # Null => value[Found] \in Value
    BY <1>12, FoundPosition DEF GetReturn, IInv, ListInv
  <2> QED  BY <1>0, <1>12, <2>1 DEF GetReturn, Return, TypeOK, listVars, NoUpdate
<1>13. CASE CloseNode \/ CloseEnd
  <2>1. CASE CloseNode
    <3>1. current \in Ptr /\ forward[current][0] \in Node \cup {Null}
      BY <1>0, <2>1 DEF CloseNode, TypeOK
    <3>2. heap' \subseteq heap
      BY <2>1, CloseHeap
    <3> QED  BY <1>0, <2>1, <3>1, <3>2 DEF CloseNode, TypeOK, listVars, Ptr
  <2>2. CASE CloseEnd
    <3>1. heap' \subseteq heap
      BY <2>2, CloseHeap
    <3> QED  BY <1>0, <2>2, <3>1 DEF CloseEnd, TypeOK, listVars, localVars
  <2> QED  BY <1>13, <2>1, <2>2
<1>14. CASE Ended \/ UNCHANGED vars
  BY <1>0, <1>14 DEF Ended, vars, TypeOK, listVars, localVars
<1> QED  BY <1>1, <1>2, <1>3, <1>4, <1>5, <1>6, <1>7, <1>8, <1>9, <1>10, <1>11, <1>12, <1>13, <1>14
         DEF Next, Step

--------------------------------------------------------------------------------
(* The lists *)

\* Nothing but the lists, their keys, values and heights enters Lists.
LEMMA ListsUnchanged == Lists /\ UNCHANGED listVars => Lists'
  BY DEF Lists, listVars, LevelSorted, LevelsNested, HeightsCover, ListInv

\* Raising list->level and writing an unlinked node are invisible to the lists.
LEMMA ListsSameForward ==
    ASSUME TypeOK, TypeOK', Lists, forward' = forward, level <= level', NEW n \in Node,
           \A j \in Level : n \notin Linked(forward, j),
           \A m \in Node \ {n} : key'[m] = key[m] /\ value'[m] = value[m],
           \A p \in Ptr \ {n} : height'[p] = height[p]
    PROVE  Lists'
<1>1. \A j \in Level : \A m \in Linked(forward, j) :
        /\ m \in Node \ {n} /\ key'[m] = key[m] /\ value'[m] = value[m] /\ height'[m] = height[m]
  BY DEF Linked, Ptr
<1>2. LevelSorted'
  <2>1. \A j \in Level : Sorted(forward, key', j)
    BY <1>1, PtrAssumption, SortedSameKeys DEF Lists, LevelSorted, TypeOK, PtrMaps
  <2> QED  BY <2>1 DEF LevelSorted
<1>3. LevelsNested'
  BY DEF Lists, LevelsNested
<1>4. HeightsCover'
  <2> SUFFICES ASSUME NEW j \in Level, NEW m \in Linked(forward, j)
               PROVE  j <= height'[m] /\ j <= level'
    BY DEF HeightsCover
  <2>1. j <= height[m] /\ j <= level
    BY DEF Lists, HeightsCover
  <2>2. j \in Int /\ level \in Int /\ level' \in Int
    BY LevelZero DEF TypeOK
  <2> QED  BY <1>1, <2>1, <2>2
<1>5. ListInv'
  <2>1. height'[Header] = MaxLevel
    BY PtrAssumption DEF Lists, ListInv, Ptr
  <2> QED  BY <1>1, <2>1, LevelZero DEF Lists, ListInv
<1> QED  BY <1>2, <1>3, <1>4, <1>5 DEF Lists

\* One turn of the linking loop that does link.
LEMMA ListsLink ==
    ASSUME IInv, pc = "putLink", update[i] # Null,
           forward' = InsertAfter(forward, update[i], newnode, i),
           UNCHANGED <<level, key, value, height>>
    PROVE  Lists'
<1> DEFINE p == update[i]
<1>1. /\ newnode \in Node /\ key[newnode] = op.key /\ op.key \in Key /\ value[newnode] \in Value
      /\ i \in Level /\ height[newnode] \in Level
      /\ i <= height[newnode] /\ height[newnode] <= level
      /\ p \in Ptr /\ p # newnode /\ IsLastBefore(forward, key, p, op.key, i)
      /\ newnode \notin Linked(forward, i) /\ forward[newnode][i] = Null
  BY LinkPosition
<1>2. forward \in PtrMaps /\ key \in KeyMaps /\ level \in Int
  BY LevelZero DEF IInv, TypeOK, PtrMaps, KeyMaps
<1>3. Linked(forward', i) = Linked(forward, i) \cup {newnode}
  BY <1>1, <1>2, PtrAssumption, InsertAfterLinks
<1>4. \A l \in Level \ {i} : Linked(forward', l) = Linked(forward, l)
  BY <1>1, <1>2, InsertAfterElsewhere
<1>5. /\ \A q \in Ptr \ {p, newnode} : forward'[q] = forward[q]
      /\ \A q \in Ptr, l \in Level \ {i} : forward'[q][l] = forward[q][l]
  BY <1>1, <1>2, InsertAfterValue
<1>6. \A j \in Level : \A n \in Linked(forward, j) :
        /\ n \in Linked(forward, 0) /\ key[n] \in Key /\ value[n] \in Value
        /\ n # newnode => key[n] # op.key
        /\ \A m \in Linked(forward, j) : key[m] = key[n] => m = n
  <2>1. \A n \in Linked(forward, 0) \ {newnode} : key[n] # op.key
    BY DEF IInv, LinkInv
  <2> QED  BY <2>1, LinkedOnZero DEF IInv, ListInv
<1>7. LevelSorted'
  <2>1. Sorted(forward', key, i)
    BY <1>1, <1>2, <1>6, PtrAssumption, KeyAssumption, InsertAfterSorted DEF IInv, LevelSorted
  <2>2. \A l \in Level \ {i} : Sorted(forward', key, l)
    BY <1>1, <1>2, InsertAfterSortedElsewhere DEF IInv, LevelSorted
  <2> QED  BY <2>1, <2>2 DEF LevelSorted
<1>8. LevelsNested'
  <2> SUFFICES ASSUME NEW j \in Level, NEW l \in 0..j, NEW n \in Linked(forward', j)
               PROVE  n \in Linked(forward', l)
    BY DEF LevelsNested
  <2>1. l \in Level
    BY LevelAssumption DEF Level
  <2>2. CASE n \in Linked(forward, j)
    BY <2>1, <2>2, <1>3, <1>4 DEF IInv, LevelsNested
  <2>3. CASE n \notin Linked(forward, j)
    <3>1. n = newnode /\ j = i
      BY <2>3, <1>3, <1>4
    <3>2. l # i => newnode \in Linked(forward, l)
      <4>1. update[l] # Null
        BY <3>1 DEF IInv, LinkInv
      <4>2. l # i => l \in 0..(i - 1)
        BY <3>1, LevelAssumption DEF Level
      <4> QED  BY <4>1, <4>2 DEF IInv, LinkInv
    <3> QED  BY <3>1, <3>2, <2>1, <1>3, <1>4
  <2> QED  BY <2>2, <2>3
<1>9. HeightsCover'
  <2> SUFFICES ASSUME NEW j \in Level, NEW n \in Linked(forward', j)
               PROVE  j <= height[n] /\ j <= level
    BY DEF HeightsCover
  <2>1. CASE n \in Linked(forward, j)
    BY <2>1 DEF IInv, HeightsCover
  <2>2. CASE n \notin Linked(forward, j)
    <3>1. n = newnode /\ j = i
      BY <2>2, <1>3, <1>4
    <3>2. i \in Int /\ height[newnode] \in Int /\ level \in Int
      BY <1>1, <1>2, LevelZero
    <3>3. i <= height[newnode] /\ i <= level
      BY <3>2, <1>1
    <3> QED  BY <3>1, <3>3
  <2> QED  BY <2>1, <2>2
<1>10. ListInv'
  <2>1. ASSUME NEW n \in Node, NEW j \in Level, n \notin Linked(forward', j)
        PROVE  forward'[n][j] = Null
    <3>1. n \notin Linked(forward, j) /\ forward[n][j] = Null
      BY <2>1, <1>3, <1>4 DEF IInv, ListInv
    <3>2. CASE j = i
      <4>1. n # newnode /\ n # p
        BY <2>1, <3>1, <3>2, <1>1, <1>3, PtrAssumption DEF IsLastBefore, OnLevel
      <4> QED  BY <3>1, <4>1, <1>5 DEF Ptr
    <3>3. CASE j # i
      BY <3>1, <3>3, <1>5 DEF Ptr
    <3> QED  BY <3>2, <3>3
  <2>2. \/ Linked(forward', 0) = Linked(forward, 0)
        \/ i = 0 /\ Linked(forward', 0) = Linked(forward, 0) \cup {newnode}
    BY <1>3, <1>4, LevelZero
  <2>3. \A n \in Linked(forward', 0) : key[n] \in Key /\ value[n] \in Value
    BY <2>2, <1>1, <1>6, LevelZero
  <2>4. \A m, n \in Linked(forward', 0) : key[m] = key[n] => m = n
    BY <2>2, <1>1, <1>6, LevelZero
  <2>5. height[Header] = MaxLevel
    BY DEF IInv, ListInv
  <2> QED  BY <2>1, <2>3, <2>4, <2>5 DEF ListInv
<1> QED  BY <1>7, <1>8, <1>9, <1>10 DEF Lists

LEMMA ListsStep == IInv /\ [Next]_vars => Lists'
<1> SUFFICES ASSUME IInv, [Next]_vars  PROVE Lists'
  OBVIOUS
<1>0. TypeOK /\ TypeOK' /\ Lists
  BY TypeStep DEF IInv, Lists
<1>1. CASE OpenKvs
  <2>1. \A j \in Level : Linked(forward, j) = {}
    BY <1>1, NothingLinked DEF OpenKvs, IInv
  <2>2. forward' = forward
    BY <1>1, <1>0 DEF OpenKvs, IInv, CallInv, TypeOK, Ptr
  <2>3. UNCHANGED <<key, value, height>>
    BY <1>1 DEF OpenKvs
  <2> QED  BY <1>0, <2>1, <2>2, <2>3, LevelZero
           DEF Lists, LevelSorted, LevelsNested, HeightsCover, ListInv
<1>2. CASE PutReplace
  <2>1. pc = "putFound" /\ UNCHANGED <<level, forward, key, height>>
    BY <1>2 DEF PutReplace
  <2>2. value' = [value EXCEPT ![Found] = op.value] /\ op.value \in Value
    BY <1>2 DEF PutReplace, IInv, CallInv, PutOp
  <2>3. \A n \in Linked(forward, 0) : value'[n] \in Value
    BY <1>0, <2>2 DEF Lists, ListInv, TypeOK, Linked
  <2> QED  BY <1>0, <2>1, <2>3 DEF Lists, LevelSorted, LevelsNested, HeightsCover, ListInv
<1>3. CASE PutCreate
  <2>1. PICK lvl \in Level, n \in Node :
          /\ Fresh(n)
          /\ level' = GrownLevel(lvl)
          /\ key' = [key EXCEPT ![n] = op.key]
          /\ value' = [value EXCEPT ![n] = op.value]
          /\ height' = [height EXCEPT ![n] = lvl]
          /\ forward' = [forward EXCEPT ![n] = [j \in Level |-> Null]]
    BY <1>3, NewNode DEF PutCreate, RandomLevel, Level
  <2>2. (\A j \in Level : n \notin Linked(forward, j)) /\ forward[n] = [j \in Level |-> Null]
    BY <1>3, <2>1, FreshIsUnlinked DEF PutCreate, IInv
  <2>3. forward' = forward
    BY <1>0, <2>1, <2>2 DEF TypeOK
  <2>4. level <= level'
    BY <1>0, <2>1, GrownLevelType DEF TypeOK
  <2>5. /\ \A m \in Node \ {n} : key'[m] = key[m] /\ value'[m] = value[m]
        /\ \A p \in Ptr \ {n} : height'[p] = height[p]
    BY <1>0, <2>1 DEF TypeOK
  <2> QED  BY <1>0, <2>2, <2>3, <2>4, <2>5, ListsSameForward
<1>4. CASE PutCreateFails
  <2>1. PICK lvl \in Level, n \in Node : Fresh(n) /\ level' = GrownLevel(lvl)
    BY <1>4, NewNode DEF PutCreateFails, RandomLevel, Level
  <2>2. UNCHANGED <<forward, key, value, height>>
    BY <1>4 DEF PutCreateFails
  <2>3. level <= level'
    BY <1>0, <2>1, GrownLevelType DEF TypeOK
  <2>4. \A j \in Level : n \notin Linked(forward, j)
    BY <1>4, <2>1, FreshIsUnlinked DEF PutCreateFails, IInv
  <2> QED  BY <1>0, <2>2, <2>3, <2>4, ListsSameForward
<1>5. CASE PutLink
  <2>1. CASE update[i] = Null
    BY <1>0, <1>5, <2>1, ListsUnchanged DEF PutLink, listVars
  <2>2. CASE update[i] # Null
    BY <1>5, <2>2, ListsLink DEF PutLink
  <2> QED  BY <2>1, <2>2
<1>6. CASE \/ OpenKvsFails \/ PutCall \/ PutRefused \/ GetCall \/ GetRefused \/ CloseCall
           \/ PutAdvance \/ PutDescend \/ PutReplaceFails \/ GetAdvance \/ GetDescend
           \/ GetReturn \/ CloseNode \/ CloseEnd \/ Ended \/ UNCHANGED vars
  <2>1. UNCHANGED listVars
    BY <1>6 DEF OpenKvsFails, PutCall, PutRefused, GetCall, GetRefused, CloseCall,
           PutAdvance, PutDescend, PutReplaceFails, GetAdvance, GetDescend,
           GetReturn, CloseNode, CloseEnd, Ended, vars
  <2> QED  BY <1>0, <2>1, ListsUnchanged
<1> QED  BY <1>1, <1>2, <1>3, <1>4, <1>5, <1>6 DEF Next, Step

--------------------------------------------------------------------------------
(* The locals *)

LEMMA CallStep == IInv /\ [Next]_vars => CallInv'
<1> SUFFICES ASSUME IInv, [Next]_vars  PROVE CallInv'
  OBVIOUS
<1>0. TypeOK /\ CallInv
  BY DEF IInv
<1>1. CASE OpenKvs \/ OpenKvsFails
  BY <1>0, <1>1 DEF OpenKvs, OpenKvsFails, CallInv, listVars, localVars
<1>2. CASE PutCall \/ GetCall
  BY <1>0, <1>2 DEF PutCall, GetCall, CallInv, listVars
<1>3. CASE PutRefused \/ GetRefused
  BY <1>0, <1>3 DEF PutRefused, GetRefused, CallInv, listVars, localVars
<1>4. CASE CloseCall \/ CloseNode \/ CloseEnd
  BY <1>0, <1>4 DEF CloseCall, CloseNode, CloseEnd, CallInv, listVars, localVars
<1>5. CASE PutAdvance \/ GetAdvance
  BY <1>0, <1>5 DEF PutAdvance, GetAdvance, CallInv, listVars
<1>6. CASE PutDescend \/ GetDescend
  BY <1>0, <1>6 DEF PutDescend, GetDescend, CallInv, listVars
<1>7. CASE PutReplace \/ PutReplaceFails \/ PutCreateFails \/ GetReturn
  BY <1>0, <1>7 DEF PutReplace, PutReplaceFails, PutCreateFails, GetReturn, Return, CallInv
<1>8. CASE PutCreate
  <2>1. newnode' \in Node
    BY <1>8, NewNode DEF PutCreate
  <2>2. newnode' # Null
    BY <2>1, PtrAssumption
  <2> QED  BY <1>0, <1>8, <2>2 DEF PutCreate, CallInv
<1>9. CASE PutLink
  <2>1. CASE i = height[newnode]
    BY <1>0, <1>9, <2>1 DEF PutLink, Return, CallInv
  <2>2. CASE i # height[newnode]
    BY <1>0, <1>9, <2>2 DEF PutLink, CallInv
  <2> QED  BY <2>1, <2>2
<1>10. CASE Ended \/ UNCHANGED vars
  BY <1>0, <1>10 DEF Ended, vars, CallInv, listVars, localVars
<1> QED  BY <1>1, <1>2, <1>3, <1>4, <1>5, <1>6, <1>7, <1>8, <1>9, <1>10 DEF Next, Step

\* A descending search: current is the last node of level i before the key.
LEMMA DescendPosition ==
    ASSUME IInv, pc \in {"putSearch", "getSearch"}, ~MustAdvance
    PROVE  IsLastBefore(forward, key, current, op.key, i)
<1>1. current \in Ptr /\ current \in OnLevel(forward, i) /\ i \in Level /\ op.key \in Nat
  BY SearchPosition, KeyAssumption
<1>2. Precedes(key, current, op.key)
  BY DEF IInv, SearchInv
<1>3. ASSUME forward[current][i] # Null  PROVE op.key <= key[forward[current][i]]
  <2>1. forward[current][i] \in Linked(forward, i)
    BY <1>1, <1>3, PointerIsLinked DEF IInv
  <2>2. key[forward[current][i]] \in Nat
    BY <1>1, <2>1, LinkedOnZero, KeyAssumption DEF IInv, ListInv
  <2>3. ~(key[forward[current][i]] < op.key)
    BY <1>3 DEF MustAdvance
  <2> QED  BY <1>1, <2>2, <2>3
<1> QED  BY <1>1, <1>2, <1>3 DEF IsLastBefore

\* Where the search goes on one level further down.
LEMMA LowerLevel ==
    ASSUME LevelsNested, NEW j \in Level, j # 0
    PROVE  /\ j - 1 \in Level
           /\ OnLevel(forward, j) \subseteq OnLevel(forward, j - 1)
<1>1. j - 1 \in Level /\ j - 1 \in 0..j
  BY LevelAssumption DEF Level
<1> QED  BY <1>1 DEF LevelsNested, OnLevel

LEMMA SearchStep == IInv /\ [Next]_vars => SearchInv'
<1> SUFFICES ASSUME IInv, [Next]_vars  PROVE SearchInv'
  OBVIOUS
<1>0. TypeOK /\ SearchInv /\ level \in Level /\ i \in Level
  BY DEF IInv, TypeOK
<1>1. CASE PutCall \/ GetCall
  <2>1. /\ current' = Header /\ i' = level
        /\ UNCHANGED <<level, forward, key>>
        /\ pc' \in {"putSearch", "getSearch"}
        /\ pc' = "putSearch" => update' = NoUpdate
    BY <1>1 DEF PutCall, GetCall, listVars
  <2>2. \A j \in Level : ~(level < j /\ j <= level)
    BY <1>0, LevelZero
  <2>3. level <= level
    BY <1>0, LevelZero
  <2> QED  BY <2>1, <2>2, <2>3 DEF SearchInv, OnLevel, Precedes, NoUpdate
<1>2. CASE PutAdvance \/ GetAdvance
  <2>1. /\ pc \in {"putSearch", "getSearch"} /\ MustAdvance
        /\ current' = forward[current][i]
        /\ UNCHANGED <<pc, op, level, forward, key, i, update>>
    BY <1>2 DEF PutAdvance, GetAdvance, listVars
  <2>2. current' \in OnLevel(forward, i)
    BY <2>1, SearchPosition DEF OnLevel
  <2>3. Precedes(key, current', op.key)
    BY <2>1 DEF Precedes, MustAdvance
  <2> QED  BY <1>0, <2>1, <2>2, <2>3 DEF SearchInv
<1>3. CASE PutDescend
  <2>1. /\ pc = "putSearch" /\ ~MustAdvance
        /\ UNCHANGED <<op, level, forward, key, current>>
        /\ update' = [update EXCEPT ![i] = current]
        /\ pc' = IF i = 0 THEN "putFound" ELSE "putSearch"
        /\ i' = IF i = 0 THEN 0 ELSE i - 1
    BY <1>3 DEF PutDescend, listVars
  <2>2. IsLastBefore(forward, key, current, op.key, i)
    BY <2>1, DescendPosition
  <2>3. i <= level /\ current \in OnLevel(forward, i) /\ Precedes(key, current, op.key)
    BY <2>1 DEF IInv, SearchInv
  <2>4. \A j \in Level : update'[j] = IF j = i THEN current ELSE update[j]
    BY <1>0, <2>1 DEF TypeOK
  <2>5. \A j \in Level : IF i < j /\ j <= level THEN IsLastBefore(forward, key, update[j], op.key, j)
                                               ELSE update[j] = Null
    BY <2>1 DEF IInv, SearchInv
  <2>6. CASE i = 0
    <3>1. \A j \in Level : j # 0 => 0 < j
      BY LevelAssumption DEF Level
    <3>2. \A j \in Level : IF j <= level THEN IsLastBefore(forward, key, update'[j], op.key, j)
                                        ELSE update'[j] = Null
      BY <2>2, <2>3, <2>4, <2>5, <2>6, <3>1
    <3> QED  BY <2>1, <2>2, <2>6, <3>2 DEF SearchInv
  <2>7. CASE i # 0
    <3>1. /\ i - 1 \in Level /\ current \in OnLevel(forward, i - 1)
      BY <1>0, <2>3, <2>7, LowerLevel DEF IInv
    <3>2. i - 1 <= level /\ \A j \in Level : (i - 1 < j <=> j = i \/ i < j)
      BY <1>0, <2>3, LevelZero
    <3>3. \A j \in Level : IF i - 1 < j /\ j <= level
                             THEN IsLastBefore(forward, key, update'[j], op.key, j)
                             ELSE update'[j] = Null
      BY <2>2, <2>3, <2>4, <2>5, <3>2
    <3> QED  BY <2>1, <2>3, <2>7, <3>1, <3>2, <3>3 DEF SearchInv
  <2> QED  BY <2>6, <2>7
<1>4. CASE GetDescend
  <2>1. /\ pc = "getSearch" /\ ~MustAdvance
        /\ UNCHANGED <<op, level, forward, key, current>>
        /\ pc' = IF i = 0 THEN "getFound" ELSE "getSearch"
        /\ i' = IF i = 0 THEN 0 ELSE i - 1
    BY <1>4 DEF GetDescend, listVars
  <2>2. IsLastBefore(forward, key, current, op.key, i)
    BY <2>1, DescendPosition
  <2>3. i <= level /\ current \in OnLevel(forward, i) /\ Precedes(key, current, op.key)
    BY <2>1 DEF IInv, SearchInv
  <2>4. CASE i = 0
    BY <2>1, <2>2, <2>4 DEF SearchInv
  <2>5. CASE i # 0
    <3>1. current \in OnLevel(forward, i - 1)
      BY <1>0, <2>3, <2>5, LowerLevel DEF IInv
    <3>2. i - 1 <= level
      BY <1>0, <2>3, LevelZero
    <3> QED  BY <2>1, <2>3, <2>5, <3>1, <3>2 DEF SearchInv
  <2> QED  BY <2>4, <2>5
<1>5. CASE pc' \notin {"putSearch", "getSearch", "putFound", "getFound"}
  BY <1>5 DEF SearchInv
<1>6. CASE Ended \/ UNCHANGED vars
  <2>1. UNCHANGED <<pc, op, level, forward, key, current, i, update>>
    BY <1>6 DEF Ended, vars, listVars, localVars
  <2> QED  BY <1>0, <2>1 DEF SearchInv
<1>7. CASE \/ OpenKvs \/ OpenKvsFails \/ PutRefused \/ GetRefused \/ CloseCall
           \/ PutReplace \/ PutReplaceFails \/ PutCreate \/ PutCreateFails \/ PutLink
           \/ GetReturn \/ CloseNode \/ CloseEnd
  BY <1>5, <1>7 DEF OpenKvs, OpenKvsFails, PutRefused, GetRefused, CloseCall, PutReplace,
     PutReplaceFails, PutCreate, PutCreateFails, PutLink, GetReturn, CloseNode, CloseEnd, Return
<1> QED  BY <1>1, <1>2, <1>3, <1>4, <1>6, <1>7 DEF Next, Step

--------------------------------------------------------------------------------
(* The linking loop *)

\* Before the first turn: what the search left in update, cut off above the old level.
LEMMA LinkCreate == IInv /\ PutCreate => LinkInv'
<1> SUFFICES ASSUME IInv, PutCreate  PROVE LinkInv'
  OBVIOUS
<1>0. TypeOK /\ level \in Level /\ pc = "putFound" /\ Found = Null /\ i' = 0
      /\ current' = current /\ op' = op
  BY DEF IInv, TypeOK, PutCreate
<1>1. PICK lvl \in Level, n \in Node :
        /\ Fresh(n)
        /\ update' = GrownUpdate(lvl) /\ level' = GrownLevel(lvl)
        /\ key' = [key EXCEPT ![n] = op.key]
        /\ value' = [value EXCEPT ![n] = op.value]
        /\ height' = [height EXCEPT ![n] = lvl]
        /\ forward' = [forward EXCEPT ![n] = [j \in Level |-> Null]]
        /\ newnode' = n
  BY NewNode DEF PutCreate, RandomLevel, Level
<1>2. (\A j \in Level : n \notin Linked(forward, j)) /\ forward[n] = [j \in Level |-> Null]
  BY <1>0, <1>1, FreshIsUnlinked DEF IInv
<1>3. forward' = forward
  BY <1>0, <1>1, <1>2 DEF TypeOK
<1>4. key'[n] = op.key /\ value'[n] = op.value /\ height'[n] = lvl
      /\ \A m \in Node \ {n} : key'[m] = key[m]
  BY <1>0, <1>1 DEF TypeOK, Ptr
<1>5. lvl \in Level /\ 0 <= lvl /\ lvl <= level'
  BY <1>0, <1>1, GrownLevelType DEF Level
<1>6. current \in OnLevel(forward, 0) /\ \A m \in Linked(forward, 0) : key[m] # op.key
  BY <1>0, FoundPosition
<1>7. \A m \in Linked(forward, 0) \ {n} : key'[m] # op.key
  BY <1>4, <1>6 DEF Linked
<1>8. \A j \in Level :
        IF j <= level THEN update'[j] = update[j] /\ IsLastBefore(forward, key, update[j], op.key, j)
                      ELSE update'[j] = Null
  <2>1. \A j \in Level : IF j <= level THEN IsLastBefore(forward, key, update[j], op.key, j)
                                      ELSE update[j] = Null
    BY <1>0 DEF IInv, SearchInv
  <2>2. \A j \in Level : j <= level => ~(level < j)
    BY <1>0, LevelZero
  <2>3. \A j \in Level : update'[j] = IF level < j /\ j <= lvl THEN Null ELSE update[j]
    BY <1>1 DEF GrownUpdate
  <2> QED  BY <2>1, <2>2, <2>3
<1>9. \A j \in Level : IsLastBefore(forward, key, update[j], op.key, j) =>
        IsLastBefore(forward, key', update[j], op.key, j) /\ update[j] # Null
  <2> SUFFICES ASSUME NEW j \in Level, IsLastBefore(forward, key, update[j], op.key, j)
               PROVE  IsLastBefore(forward, key', update[j], op.key, j) /\ update[j] # Null
    OBVIOUS
  <2>1. \A m \in Linked(forward, j) : key[m] = key'[m]
    BY <1>2, <1>4 DEF Linked
  <2>2. forward \in PtrMaps
    BY <1>0 DEF TypeOK, PtrMaps
  <2>3. IsLastBefore(forward, key', update[j], op.key, j)
    BY <2>1, <2>2, PtrAssumption, LastBeforeSameKeys
  <2>4. update[j] # Null
    BY PtrAssumption DEF IsLastBefore, OnLevel, Linked
  <2> QED  BY <2>3, <2>4
<1>10. \A j \in Level : update'[j] # Null => IsLastBefore(forward, key', update'[j], op.key, j)
  BY <1>8, <1>9
<1>11. 0 <= level /\ update'[0] # Null
  <2>1. 0 <= level
    BY <1>0 DEF Level
  <2> QED  BY <2>1, <1>8, <1>9, LevelZero
<1>12. \A j \in Level : \A l \in 0..j : update'[j] # Null => update'[l] # Null
  <2> SUFFICES ASSUME NEW j \in Level, NEW l \in 0..j, update'[j] # Null  PROVE update'[l] # Null
    OBVIOUS
  <2>1. j <= level
    BY <1>8
  <2>2. l \in Level /\ l <= level
    BY <1>0, <2>1, LevelAssumption DEF Level
  <2> QED  BY <2>2, <1>8, <1>9
<1>13. 0..MaxLevel = Level /\ 0..lvl \subseteq Level /\ 0..(0 - 1) = {}
  BY <1>5, LevelAssumption DEF Level
<1>14. /\ key'[newnode'] = op'.key /\ value'[newnode'] = op'.value
       /\ i' <= height'[newnode'] /\ height'[newnode'] <= level'
       /\ current' \in OnLevel(forward', 0)
       /\ \A m \in Linked(forward', 0) \ {newnode'} : key'[m] # op'.key
  BY <1>0, <1>1, <1>3, <1>4, <1>5, <1>6, <1>7
<1>15. /\ \A j \in i'..MaxLevel : newnode' \notin Linked(forward', j)
       /\ \A j \in i'..height'[newnode'] :
            update'[j] # Null => IsLastBefore(forward', key', update'[j], op'.key, j)
       /\ \A l \in 0..(i' - 1) : update'[l] # Null => newnode' \in Linked(forward', l)
  BY <1>0, <1>1, <1>2, <1>3, <1>4, <1>10, <1>13
<1> QED  BY <1>11, <1>12, <1>14, <1>15 DEF LinkInv

\* One turn that is not the last.
LEMMA LinkTurn == IInv /\ PutLink /\ i # height[newnode] => LinkInv'
<1> SUFFICES ASSUME IInv, PutLink, i # height[newnode]  PROVE LinkInv'
  OBVIOUS
<1> DEFINE p == update[i]
<1>0. /\ pc = "putLink" /\ i' = i + 1
      /\ UNCHANGED <<level, key, value, height, op, current, update, newnode>>
      /\ forward' = IF p = Null THEN forward ELSE InsertAfter(forward, p, newnode, i)
  BY DEF PutLink
<1>1. /\ newnode \in Node /\ key[newnode] = op.key
      /\ i \in Level /\ height[newnode] \in Level
      /\ i <= height[newnode] /\ height[newnode] <= level
      /\ p # Null => p \in Ptr /\ p # newnode /\ IsLastBefore(forward, key, p, op.key, i)
      /\ newnode \notin Linked(forward, i) /\ forward[newnode][i] = Null
  BY <1>0, LinkPosition
<1>2. forward \in PtrMaps
  BY DEF IInv, TypeOK, PtrMaps
<1>3. /\ key[newnode] = op.key /\ value[newnode] = op.value
      /\ current \in OnLevel(forward, 0)
      /\ \A n \in Linked(forward, 0) \ {newnode} : key[n] # op.key
      /\ \A j \in i..MaxLevel : newnode \notin Linked(forward, j)
      /\ \A j \in i..height[newnode] :
           update[j] # Null => IsLastBefore(forward, key, update[j], op.key, j)
      /\ update[0] # Null
      /\ \A j \in Level : \A l \in 0..j : update[j] # Null => update[l] # Null
      /\ \A l \in 0..(i - 1) : update[l] # Null => newnode \in Linked(forward, l)
  BY <1>0 DEF IInv, LinkInv
<1>4. /\ i + 1 <= height[newnode]
      /\ \A j \in (i + 1)..MaxLevel : j \in Level \ {i} /\ j \in i..MaxLevel
      /\ \A j \in (i + 1)..height[newnode] : j \in Level \ {i} /\ j \in i..height[newnode]
      /\ \A l \in 0..((i + 1) - 1) : l = i \/ (l \in Level \ {i} /\ l \in 0..(i - 1))
  BY <1>1, LevelAssumption DEF Level
<1>5. \A l \in Level \ {i} : Linked(forward', l) = Linked(forward, l)
  <2>1. CASE p = Null
    BY <1>0, <2>1
  <2>2. CASE p # Null
    BY <1>0, <1>1, <1>2, <2>2, InsertAfterElsewhere
  <2> QED  BY <2>1, <2>2
<1>6. Linked(forward', i) = IF p = Null THEN Linked(forward, i) ELSE Linked(forward, i) \cup {newnode}
  <2>1. CASE p = Null
    BY <1>0, <2>1
  <2>2. CASE p # Null
    BY <1>0, <1>1, <1>2, <2>2, PtrAssumption, InsertAfterLinks
  <2> QED  BY <2>1, <2>2
<1>7. \/ Linked(forward', 0) = Linked(forward, 0)
      \/ Linked(forward', 0) = Linked(forward, 0) \cup {newnode}
  BY <1>1, <1>5, <1>6, LevelZero
<1>8. current \in OnLevel(forward', 0) /\ \A n \in Linked(forward', 0) \ {newnode} : key[n] # op.key
  BY <1>3, <1>7 DEF OnLevel
<1>9. \A j \in (i + 1)..MaxLevel : newnode \notin Linked(forward', j)
  BY <1>3, <1>4, <1>5
<1>10. ASSUME NEW j \in (i + 1)..height[newnode], update[j] # Null
       PROVE  IsLastBefore(forward', key, update[j], op.key, j)
  <2>1. IsLastBefore(forward, key, update[j], op.key, j) /\ j \in Level \ {i}
    BY <1>3, <1>4, <1>10
  <2>2. CASE p = Null
    BY <1>0, <2>1, <2>2
  <2>3. CASE p # Null
    BY <1>0, <1>1, <1>2, <2>1, <2>3, InsertAfterLastElsewhere
  <2> QED  BY <2>2, <2>3
<1>11. \A l \in 0..((i + 1) - 1) : update[l] # Null => newnode \in Linked(forward', l)
  BY <1>3, <1>4, <1>5, <1>6
<1> QED  BY <1>0, <1>1, <1>3, <1>4, <1>8, <1>9, <1>10, <1>11 DEF LinkInv

LEMMA LinkStep == IInv /\ [Next]_vars => LinkInv'
<1> SUFFICES ASSUME IInv, [Next]_vars  PROVE LinkInv'
  OBVIOUS
<1>1. CASE PutLink
  <2>1. CASE i = height[newnode]
    BY <1>1, <2>1 DEF PutLink, Return, LinkInv
  <2> QED  BY <1>1, <2>1, LinkTurn
<1>2. CASE Ended \/ PutRefused \/ GetRefused \/ UNCHANGED vars
  <2>1. UNCHANGED <<pc, op, level, forward, key, value, height, current, i, update, newnode>>
    BY <1>2 DEF Ended, PutRefused, GetRefused, vars, listVars, localVars
  <2> QED  BY <2>1 DEF IInv, LinkInv
<1>3. CASE \/ OpenKvs \/ OpenKvsFails \/ PutCall \/ GetCall \/ CloseCall
           \/ PutAdvance \/ PutDescend \/ PutReplace \/ PutReplaceFails \/ PutCreateFails
           \/ GetAdvance \/ GetDescend \/ GetReturn \/ CloseNode \/ CloseEnd
  <2>1. pc' # "putLink"
    BY <1>3 DEF OpenKvs, OpenKvsFails, PutCall, GetCall, CloseCall, PutAdvance, PutDescend,
       PutReplace, PutReplaceFails, PutCreateFails, GetAdvance, GetDescend, GetReturn,
       CloseNode, CloseEnd, Return
  <2> QED  BY <2>1 DEF LinkInv
<1> QED  BY <1>1, <1>2, <1>3, LinkCreate DEF Next, Step

--------------------------------------------------------------------------------
(* The heap *)

\* The heap of an open store stays as it is when the store's nodes do.
LEMMA HeapSameNodes ==
    ASSUME HeapInv, pc \notin {"new", "closing", "done"}, pc' \notin {"new", "closing", "done"},
           heap' = heap, valueAt' = valueAt,
           Linked(forward', 0) \cup ({newnode'} \ {Null}) = Linked(forward, 0) \cup ({newnode} \ {Null})
    PROVE  HeapInv'
  BY DEF HeapInv, HeapExact, BlocksOf, OwnedBy

LEMMA HeapCreate == IInv /\ PutCreate => HeapInv'
<1> SUFFICES ASSUME IInv, PutCreate  PROVE HeapInv'
  OBVIOUS
<1>0. TypeOK /\ pc = "putFound" /\ pc' = "putLink" /\ newnode = Null
  BY DEF IInv, PutCreate, CallInv
<1>1. PICK n \in Node :
        /\ Fresh(n)
        /\ heap' = heap \cup Obtained(NodeBlocks, n, 4)
        /\ valueAt' = [valueAt EXCEPT ![n] = "value"]
        /\ forward' = [forward EXCEPT ![n] = [j \in Level |-> Null]]
        /\ newnode' = n
  BY NewNode DEF PutCreate
<1>2. forward' = forward /\ n \notin Linked(forward, 0)
  BY <1>0, <1>1, FreshIsUnlinked, LevelZero DEF IInv, TypeOK
<1>3. heap = BlocksOf(OpenNodes) /\ OpenNodes = Linked(forward, 0)
  BY <1>0, OpenHeap DEF OpenNodes
<1>4. OpenNodes' = OpenNodes \cup {n}
  BY <1>1, <1>2, <1>3, PtrAssumption DEF OpenNodes
<1>5. valueAt'[n] = "value" /\ \A m \in OpenNodes : valueAt'[m] = valueAt[m]
  BY <1>0, <1>1, <1>2, <1>3 DEF TypeOK, Linked
<1>6. heap' = BlocksOf(OpenNodes)'
  <2> DEFINE StoreBlock(b) ==
               b \in {<<"kvs", Header>>, <<"list", Header>>, <<"node", Header>>,
                      <<"forward", Header>>}
             NodeBlock(b, m) ==
               b \in {<<"node", m>>, <<"key", m>>, <<valueAt[m], m>>, <<"forward", m>>}
             NextBlock(b, m) ==
               b \in {<<"node", m>>, <<"key", m>>, <<valueAt'[m], m>>, <<"forward", m>>}
  <2>1. ASSUME NEW b
        PROVE  /\ b \in heap <=> StoreBlock(b) \/ \E m \in OpenNodes : NodeBlock(b, m)
               /\ b \in BlocksOf(OpenNodes)'
                    <=> StoreBlock(b) \/ \E m \in OpenNodes' : NextBlock(b, m)
    BY <1>3, BlocksOfMember, OpenBlocksNext
  <2>2. ASSUME NEW b  PROVE b \in heap' <=> b \in heap \/ NextBlock(b, n)
    BY <1>1, <1>5, NodeBlocksAre
  <2>3. ASSUME NEW b, NEW m \in OpenNodes  PROVE NextBlock(b, m) <=> NodeBlock(b, m)
    BY <1>5
  <2> HIDE DEF StoreBlock, NodeBlock, NextBlock
  <2>4. ASSUME NEW b  PROVE b \in heap' <=> b \in BlocksOf(OpenNodes)'
    BY <1>4, <2>1, <2>2, <2>3
  <2> QED  BY <2>4
<1> QED  BY <1>0, <1>6 DEF HeapInv, HeapExact, OpenNodes

LEMMA HeapCreateFails == IInv /\ PutCreateFails => HeapInv'
<1> SUFFICES ASSUME IInv, PutCreateFails  PROVE HeapInv'
  OBVIOUS
<1>1. /\ pc = "putFound" /\ pc' = "idle" /\ newnode = Null /\ newnode' = Null
      /\ forward' = forward /\ valueAt' = valueAt
  BY DEF IInv, PutCreateFails, CallInv, Return
<1> QED  BY <1>1, CreateFailsHeap, HeapSameNodes DEF IInv

\* The new value is in a block of its own, and the old one's is gone.
LEMMA HeapReplace == IInv /\ PutReplace => HeapInv'
<1> SUFFICES ASSUME IInv, PutReplace  PROVE HeapInv'
  OBVIOUS
<1>0. /\ TypeOK /\ pc = "putFound" /\ pc' = "idle" /\ newnode = Null /\ newnode' = Null
      /\ forward' = forward /\ Found # Null
  BY DEF IInv, PutReplace, CallInv, Return
<1> DEFINE f == Found
<1>1. PICK b \in ValueBlocks :
        /\ b # valueAt[f]
        /\ heap' = (heap \cup {<<b, f>>}) \ {<<valueAt[f], f>>}
        /\ valueAt' = [valueAt EXCEPT ![f] = b]
  BY ReplaceHeap
<1>2. heap = BlocksOf(OpenNodes) /\ OpenNodes' = OpenNodes /\ OpenNodes \subseteq Node
  BY <1>0, OpenHeap DEF OpenNodes, Linked
<1>3. f \in OpenNodes /\ f # Header
  BY <1>0, FoundPosition, PtrAssumption DEF OpenNodes
<1>4. valueAt'[f] = b /\ \A m \in OpenNodes \ {f} : valueAt'[m] = valueAt[m]
  BY <1>0, <1>1, <1>2, <1>3 DEF TypeOK
<1>5. valueAt[f] \notin {"node", "key", "forward"} /\ b \notin {"node", "key", "forward"}
  BY <1>0, <1>1, <1>2, <1>3 DEF TypeOK, ValueBlocks
<1> HIDE DEF f
<1>6. ASSUME NEW c  PROVE c \in heap' <=> c \in BlocksOf(OpenNodes)'
  <2>1. c \in heap' <=> (c \in BlocksOf(OpenNodes) \/ c = <<b, f>>) /\ c # <<valueAt[f], f>>
    BY <1>1, <1>2
  <2> QED  BY <1>1, <1>2, <1>3, <1>4, <1>5, <2>1, BlocksOfMember, OpenBlocksNext
<1>7. heap' = BlocksOf(OpenNodes)'
  BY <1>6
<1> QED  BY <1>0, <1>7 DEF HeapInv, HeapExact, OpenNodes

LEMMA HeapLink == IInv /\ PutLink => HeapInv'
<1> SUFFICES ASSUME IInv, PutLink  PROVE HeapInv'
  OBVIOUS
<1> DEFINE p == update[i]
<1>0. /\ pc = "putLink" /\ heap' = heap /\ valueAt' = valueAt /\ pc' \in {"putLink", "idle"}
      /\ forward' = IF p = Null THEN forward ELSE InsertAfter(forward, p, newnode, i)
      /\ i # height[newnode] => newnode' = newnode
      /\ i = height[newnode] => newnode' = Null
  BY DEF PutLink, Return
<1>1. /\ newnode \in Node /\ i \in Level
      /\ p # Null => p \in Ptr /\ p # newnode
      /\ forward[newnode][i] = Null
  BY <1>0, LinkPosition
<1>2. forward \in PtrMaps /\ newnode # Null
  BY <1>1, PtrAssumption DEF IInv, TypeOK, PtrMaps
<1>3. CASE i = 0
  <2>1. p # Null
    BY <1>0, <1>3 DEF IInv, LinkInv
  <2>2. Linked(forward', 0) = Linked(forward, 0) \cup {newnode}
    BY <1>0, <1>1, <1>2, <1>3, <2>1, PtrAssumption, InsertAfterLinks
  <2> QED  BY <1>0, <1>2, <2>2, HeapSameNodes DEF IInv
<1>4. CASE i # 0
  <2>1. newnode \in Linked(forward, 0)
    <3>1. 0 \in 0..(i - 1)
      BY <1>1, <1>4, LevelAssumption DEF Level
    <3> QED  BY <1>0, <3>1 DEF IInv, LinkInv
  <2>2. Linked(forward', 0) = Linked(forward, 0)
    <3>1. CASE p = Null
      BY <1>0, <3>1
    <3>2. CASE p # Null
      BY <1>0, <1>1, <1>2, <1>4, <3>2, LevelZero, InsertAfterElsewhere
    <3> QED  BY <3>1, <3>2
  <2> QED  BY <1>0, <1>2, <2>1, <2>2, HeapSameNodes DEF IInv
<1> QED  BY <1>3, <1>4

LEMMA HeapOpen == IInv /\ (OpenKvs \/ OpenKvsFails) => HeapInv'
<1> SUFFICES ASSUME IInv, OpenKvs \/ OpenKvsFails  PROVE HeapInv'
  OBVIOUS
<1>0. pc = "new" /\ heap = {} /\ newnode = Null
  BY DEF IInv, HeapInv, CallInv, OpenKvs, OpenKvsFails
<1>1. CASE OpenKvs
  <2>1. forward' = forward
    BY <1>0, <1>1 DEF OpenKvs, IInv, CallInv, TypeOK, Ptr
  <2>2. Linked(forward', 0) = {}
    BY <1>0, <2>1, NothingLinked, LevelZero DEF IInv
  <2>3. pc' = "idle" /\ newnode' = Null /\ heap' = Obtained(StoreBlocks, Header, 4)
    BY <1>0, <1>1 DEF OpenKvs, localVars
  <2> QED  BY <2>2, <2>3 DEF HeapInv, HeapExact, BlocksOf
<1>2. CASE OpenKvsFails
  <2>1. heap' = {} /\ pc' = "done"
    BY <1>2, OpenFailsHeap DEF OpenKvsFails
  <2> QED  BY <2>1 DEF HeapInv, HeapExact
<1> QED  BY <1>1, <1>2

\* The next node of level 0 is the next one kvs_close passes.
LEMMA NextPassed ==
    ASSUME IInv, NEW c \in OnLevel(forward, 0)
    PROVE  LET next == forward[c][0]
           IN  \A n \in Linked(forward, 0) :
                 (next = Null \/ key[n] < key[next]) <=> c # Header /\ (n = c \/ key[n] < key[c])
<1> DEFINE next == forward[c][0]
<1>1. IsNext(forward, key, c, next, 0)
  BY LevelZero DEF IInv, LevelSorted, Sorted
<1>2. \A n \in Linked(forward, 0) : key[n] \in Nat
  BY KeyAssumption DEF IInv, ListInv
<1>3. c # Header => c \in Linked(forward, 0)
  BY DEF OnLevel
<1>4. next # Null => next \in Linked(forward, 0)
  BY PointerIsLinked, LevelZero DEF IInv, OnLevel, Linked, Ptr
<1>5. \A m, n \in Linked(forward, 0) : key[m] = key[n] => m = n
  BY DEF IInv, ListInv
<1> SUFFICES ASSUME NEW n \in Linked(forward, 0)
             PROVE  (next = Null \/ key[n] < key[next]) <=> c # Header /\ (n = c \/ key[n] < key[c])
  OBVIOUS
<1> HIDE DEF next
<1>6. ASSUME next = Null \/ key[n] < key[next]
      PROVE  c # Header /\ (n = c \/ key[n] < key[c])
  <2>1. ~Precedes(key, c, key[n])
    BY <1>1, <1>2, <1>4, <1>6 DEF IsNext
  <2>2. c # Header /\ ~(key[c] < key[n])
    BY <2>1 DEF Precedes
  <2> QED  BY <1>2, <1>3, <1>5, <2>2
<1>7. ASSUME c # Header, n = c \/ key[n] < key[c], next # Null
      PROVE  key[n] < key[next]
  <2>1. key[c] < key[next]
    BY <1>1, <1>7 DEF IsNext, Precedes
  <2> QED  BY <1>2, <1>3, <1>4, <1>7, <2>1
<1> QED  BY <1>6, <1>7

LEMMA HeapClose == IInv /\ (CloseCall \/ CloseNode \/ CloseEnd) => HeapInv'
<1> SUFFICES ASSUME IInv, CloseCall \/ CloseNode \/ CloseEnd  PROVE HeapInv'
  OBVIOUS
<1> DEFINE L0 == Linked(forward, 0)
<1>0. UNCHANGED <<forward, key, valueAt>> /\ Header \in Ptr /\ Header \notin L0
  BY PtrAssumption DEF CloseCall, CloseNode, CloseEnd, listVars, Ptr, Linked
<1>1. CASE CloseCall
  <2>1. pc = "idle" /\ pc' = "closing" /\ heap' = heap /\ current' = forward[Header][0] /\ newnode = Null
    BY <1>1 DEF CloseCall, IInv, CallInv
  <2>2. heap = BlocksOf(L0)
    BY <2>1 DEF IInv, HeapInv, HeapExact
  <2>3. Passed' = {}
    BY <1>0, <2>1, NextPassed DEF Passed, OnLevel
  <2>4. current' = Null \/ current' \in L0
    BY <1>0, <2>1, PointerIsLinked, LevelZero DEF IInv
  <2> QED  BY <1>0, <2>1, <2>2, <2>3, <2>4 DEF HeapInv, HeapExact, BlocksOf, OwnedBy
<1>2. CASE CloseNode
  <2>1. /\ pc = "closing" /\ pc' = "closing" /\ current # Null
        /\ heap' = heap \ {<<valueAt[current], current>>, <<"node", current>>}
        /\ current' = forward[current][0]
    BY <1>2, CloseHeap DEF CloseNode
  <2>2. current \in L0 /\ heap = BlocksOf(L0) \ (({"node"} \cup ValueBlocks) \X Passed)
    BY <2>1 DEF IInv, HeapInv
  <2>3. current \in Ptr /\ current # Header /\ current \in Node
    BY <1>0, <2>2 DEF Linked, Ptr
  <2>4. current' = Null \/ current' \in L0
    BY <2>1, <2>3, PointerIsLinked, LevelZero DEF IInv
  <2>5. Passed' = Passed \cup {current}
    <3>1. \A n \in L0 : (current' = Null \/ key[n] < key[current']) <=> (n = current \/ key[n] < key[current])
      BY <2>1, <2>2, <2>3, NextPassed DEF OnLevel
    <3> QED  BY <1>0, <2>1, <2>2, <3>1 DEF Passed
  <2>6. valueAt[current] \in ValueBlocks
    BY <2>3 DEF IInv, TypeOK
  <2>7. ASSUME NEW b \in BlocksOf(L0), b \in ({"node"} \cup ValueBlocks) \X {current}
        PROVE  b \in {<<valueAt[current], current>>, <<"node", current>>}
    BY <2>3, <2>7, BlocksOfMember DEF ValueBlocks
  <2>8. heap' = BlocksOf(L0) \ (({"node"} \cup ValueBlocks) \X Passed')
    BY <2>1, <2>2, <2>5, <2>6, <2>7
  <2> QED  BY <1>0, <2>1, <2>4, <2>8 DEF HeapInv, HeapExact, BlocksOf, OwnedBy
<1>3. CASE CloseEnd
  <2>1. /\ pc = "closing" /\ pc' = "done" /\ current = Null
        /\ heap' = heap \ {<<"node", Header>>, <<"list", Header>>, <<"kvs", Header>>}
    BY <1>3, CloseHeap DEF CloseEnd
  <2>2. heap = BlocksOf(L0) \ (({"node"} \cup ValueBlocks) \X Passed) /\ Passed = L0
    BY <2>1 DEF IInv, HeapInv, Passed
  <2>3. ASSUME NEW b \in heap'  PROVE b[1] \in {"key", "forward"}
    <3>1. b \in BlocksOf(L0) /\ b \notin ({"node"} \cup ValueBlocks) \X L0
          /\ b \notin {<<"node", Header>>, <<"list", Header>>, <<"kvs", Header>>}
      BY <2>1, <2>2, <2>3
    <3>2. \A n \in L0 : valueAt[n] \in ValueBlocks
      BY DEF IInv, TypeOK, Linked
    <3>3. b = <<"forward", Header>> \/ \E n \in L0 : b \in {<<"key", n>>, <<"forward", n>>}
      BY <3>1, <3>2, BlocksOfMember
    <3> QED  BY <3>3
  <2> QED  BY <2>1, <2>3 DEF HeapInv, HeapExact
<1> QED  BY <1>1, <1>2, <1>3

LEMMA HeapStep == IInv /\ [Next]_vars => HeapInv'
<1> SUFFICES ASSUME IInv, [Next]_vars  PROVE HeapInv'
  OBVIOUS
<1>1. CASE \/ PutCall \/ PutRefused \/ GetCall \/ GetRefused \/ PutAdvance \/ PutDescend
           \/ PutReplaceFails \/ GetAdvance \/ GetDescend \/ GetReturn
  <2>1. /\ pc \notin {"new", "closing", "done"} /\ pc' \notin {"new", "closing", "done"}
        /\ heap' = heap /\ forward' = forward /\ valueAt' = valueAt
    BY <1>1 DEF PutCall, PutRefused, GetCall, GetRefused, PutAdvance, PutDescend,
       PutReplaceFails, GetAdvance, GetDescend, GetReturn, Return, listVars
  <2>2. newnode' = newnode
    BY <1>1 DEF PutCall, PutRefused, GetCall, GetRefused, PutAdvance, PutDescend,
       PutReplaceFails, GetAdvance, GetDescend, GetReturn, Return, localVars, IInv, CallInv
  <2> QED  BY <2>1, <2>2, HeapSameNodes DEF IInv
<1>2. CASE Ended \/ UNCHANGED vars
  BY <1>2 DEF Ended, vars, listVars, localVars, IInv, HeapInv, HeapExact, Passed, BlocksOf, OwnedBy
<1> QED  BY <1>1, <1>2, HeapReplace, HeapCreate, HeapCreateFails, HeapLink, HeapOpen, HeapClose DEF Next, Step

--------------------------------------------------------------------------------
(* The theorems *)

LEMMA InitInv == Init => IInv
<1> SUFFICES ASSUME Init  PROVE IInv
  OBVIOUS
<1>1. TypeOK
  BY InitTypes
<1>2. \A j \in Level : Linked(forward, j) = {} /\ OnLevel(forward, j) = {Header}
  BY PtrAssumption DEF Init, Linked, OnLevel, Ptr
<1>3. \A j \in Level : \A p \in Ptr : forward[p][j] = Null
  BY DEF Init
<1>4. LevelSorted
  BY <1>2, <1>3 DEF LevelSorted, Sorted, IsNext, Ptr
<1>5. LevelsNested
  BY <1>2 DEF LevelsNested
<1>6. HeightsCover
  BY <1>2 DEF HeightsCover
<1>7. ListInv
  BY <1>2, <1>3, LevelZero DEF Init, ListInv, Ptr
<1>8. CallInv /\ SearchInv /\ LinkInv
  BY PtrAssumption DEF Init, CallInv, SearchInv, LinkInv
<1>9. HeapInv
  BY DEF Init, HeapInv, HeapExact
<1> QED  BY <1>1, <1>4, <1>5, <1>6, <1>7, <1>8, <1>9 DEF IInv

LEMMA NextInv == IInv /\ [Next]_vars => IInv'
  BY TypeStep, ListsStep, CallStep, SearchStep, LinkStep, HeapStep DEF IInv, Lists

\* IInv holds in every reachable state, whatever the keys, the pool of nodes and MaxLevel.
THEOREM Inductive == Spec => []IInv
  BY InitInv, NextInv, PTL DEF Spec

\* Every variable of the store keeps its type, the locals of put and get included.
THEOREM TypeCorrect == Spec => []TypeOK
<1>1. IInv => TypeOK
  BY DEF IInv
<1> QED  BY <1>1, Inductive, PTL

\* Every level stays one strictly increasing chain, put.c's NULL update entries included.
THEOREM SortedLevels == Spec => []LevelSorted
<1>1. IInv => LevelSorted
  BY DEF IInv
<1> QED  BY <1>1, Inductive, PTL

\* Every node of a level stays on the levels below it, and within its own array's length.
THEOREM NestedLevels == Spec => [](LevelsNested /\ HeightsCover)
<1>1. IInv => LevelsNested /\ HeightsCover
  BY DEF IInv
<1> QED  BY <1>1, Inductive, PTL

\* While the store is open the heap holds its blocks and no others, however often values
\* have been replaced; after kvs_close only key strings and forward arrays are left.
THEOREM HeapAccounted == Spec => []HeapExact
<1>1. IInv => HeapExact
  BY DEF IInv, HeapInv
<1> QED  BY <1>1, Inductive, PTL

\* A pointer to a node of a level is to a node with that level in its array.
LEMMA OnLevelHeight ==
    ASSUME IInv, NEW j \in Level, NEW p \in OnLevel(forward, j)
    PROVE  j <= height[p]
<1>1. CASE p = Header
  <2>1. height[p] = MaxLevel
    BY <1>1 DEF IInv, ListInv
  <2> QED  BY <2>1, LevelAssumption DEF Level
<1>2. CASE p # Header
  BY <1>2 DEF IInv, HeightsCover, OnLevel
<1> QED  BY <1>1, <1>2

\* No loop of put.c or get.c reads or writes a forward array beyond its end.
THEOREM ArraysInBounds == Spec => []IndexInBounds
<1>1. ASSUME IInv  PROVE IndexInBounds
  <2>1. pc \in {"putSearch", "getSearch"} => i <= height[current]
    BY <1>1, SearchPosition, OnLevelHeight
  <2>2. ASSUME pc = "putLink", NEW j \in i..height[newnode], update[j] # Null
        PROVE  j <= height[update[j]]
    <3>1. IsLastBefore(forward, key, update[j], op.key, j)
      BY <1>1, <2>2 DEF IInv, LinkInv
    <3>2. j \in Level
      BY <1>1, <2>2, LinkPosition, LevelAssumption DEF Level
    <3>3. update[j] \in OnLevel(forward, j)
      BY <3>1 DEF IsLastBefore
    <3> QED  BY <1>1, <3>2, <3>3, OnLevelHeight
  <2> QED  BY <2>1, <2>2 DEF IndexInBounds
<1> QED  BY <1>1, Inductive, PTL

\* The searches and kvs_close stand on live nodes only, the values handed out and freed are
\* live, and nothing is freed twice.
THEOREM LiveWalks == Spec => []WalksLiveNodes
<1>1. ASSUME IInv  PROVE WalksLiveNodes
  <2>1. heap # Broken
    <3>1. \A b \in heap : b[1] # "broken"
      BY <1>1 DEF IInv, TypeOK, ValueBlocks
    <3>2. <<"broken", "heap">> \in Broken /\ <<"broken", "heap">>[1] = "broken"
      BY DEF Broken
    <3> QED  BY <3>1, <3>2
  <2>2. ASSUME current # Null, pc # "closing"  PROVE <<"node", current>> \in heap
    <3>1. pc \in {"putSearch", "putFound", "putLink", "getSearch", "getFound"}
      BY <1>1, <2>2 DEF IInv, TypeOK, CallInv
    <3>2. current = Header \/ current \in Linked(forward, 0)
      <4>1. CASE pc \in {"putSearch", "getSearch"}
        BY <1>1, <4>1, SearchPosition, LinkedOnZero DEF IInv, OnLevel
      <4>2. CASE pc \in {"putFound", "getFound"}
        BY <1>1, <4>2, FoundPosition DEF OnLevel
      <4>3. CASE pc = "putLink"
        BY <1>1, <4>3 DEF IInv, LinkInv, OnLevel
      <4> QED  BY <3>1, <4>1, <4>2, <4>3
    <3>3. heap = BlocksOf(OpenNodes)
      BY <1>1, <3>1, OpenHeap
    <3> QED  BY <3>2, <3>3, BlocksOfMember DEF OpenNodes
  <2> QED  BY <1>1, <2>1, <2>2, PassingLive, FoundLive DEF WalksLiveNodes
<1> QED  BY <1>1, Inductive, PTL

--------------------------------------------------------------------------------
(* LabSkipList implements KeyValueMap: open_kvs, a call, its answer and      *)
(* kvs_close are steps of the map, and the loop turns in between stutter.   *)

Running == pc \notin {"closing", "done"}

--------------------------------------------------------------------------------
(* What Contents is *)

Settled == Linked(forward, 0) \ {newnode}

LEMMA ContentsRunning ==
    ASSUME Running
    PROVE  Contents = MapOf(Settled, key, value)
  BY DEF Running, Contents, MapOf, HeldAt, Holders, Settled

LEMMA ContentsRunningNext ==
    ASSUME Running'
    PROVE  Contents' = MapOf(Settled', key', value')
  BY DEF Running, Contents, MapOf, HeldAt, Holders, Settled

LEMMA SettledNodes ==
    ASSUME IInv
    PROVE  Settled \subseteq Node /\ DistinctKeys(Settled, key)
           /\ \A n \in Settled : key[n] \in Key /\ value[n] \in Value
  BY DEF IInv, ListInv, Settled, DistinctKeys, Linked

\* A step that leaves the settled nodes alone leaves the map alone.
LEMMA ContentsSame ==
    ASSUME IInv, Running, Running', Settled' = Settled,
           \A n \in Settled : key'[n] = key[n] /\ value'[n] = value[n]
    PROVE  Contents' = Contents
<1>1. MapOf(Settled, key', value') = MapOf(Settled, key, value)
  BY SettledNodes, MapOfSame
<1> QED  BY <1>1, ContentsRunning, ContentsRunningNext

--------------------------------------------------------------------------------
(* One lemma for each kind of step *)

LEMMA OpenStep == IInv /\ (OpenKvs \/ OpenKvsFails) => Map!Open
<1> SUFFICES ASSUME IInv, OpenKvs \/ OpenKvsFails  PROVE Map!Open
  OBVIOUS
<1>0. pc = "new" /\ Linked(forward, 0) = {} /\ newnode = Null
  BY NothingLinked, LevelZero DEF IInv, CallInv, OpenKvs, OpenKvsFails
<1>1. Contents = [k \in Key |-> Null]
  BY <1>0 DEF Contents
<1>2. CASE OpenKvs
  <2>1. forward' = forward
    BY <1>0, <1>2 DEF OpenKvs, IInv, CallInv, TypeOK, Ptr
  <2>2. Contents' = Contents
    BY <1>0, <1>2, <2>1, ContentsSame DEF OpenKvs, localVars, Running, Settled
  <2> QED  BY <1>0, <1>2, <2>2 DEF OpenKvs, Map!Open, Stage
<1>3. CASE OpenKvsFails
  <2>1. Contents' = [k \in Key |-> Null]
    BY <1>3 DEF OpenKvsFails, Contents
  <2> QED  BY <1>0, <1>1, <1>3, <2>1 DEF OpenKvsFails, Map!Open, Stage
<1> QED  BY <1>2, <1>3

LEMMA CallBegins == IInv /\ (PutCall \/ GetCall) => Map!Call
<1> SUFFICES ASSUME IInv, PutCall \/ GetCall  PROVE Map!Call
  OBVIOUS
<1>1. /\ pc = "idle" /\ pc' \in {"putSearch", "getSearch"} /\ op = NoOp
      /\ op' \in PutOp \cup GetOp /\ ret' = Null
      /\ UNCHANGED <<forward, key, value, newnode>>
  BY DEF PutCall, GetCall, listVars, IInv, CallInv
<1>2. Contents' = Contents
  BY <1>1, ContentsSame DEF Running, Settled
<1> QED  BY <1>1, <1>2 DEF Map!Call, Map!NoReq, Map!PutReq, Map!GetReq, NoOp, PutOp, GetOp, Stage

LEMMA CallRefused == IInv /\ (PutRefused \/ GetRefused) => Map!Refuse
<1> SUFFICES ASSUME IInv, PutRefused \/ GetRefused  PROVE Map!Refuse
  OBVIOUS
<1>1. /\ pc = "idle" /\ op = NoOp /\ ret' \in {-1, Null}
      /\ UNCHANGED <<pc, op, forward, key, value, newnode>>
  BY DEF PutRefused, GetRefused, listVars, localVars, IInv, CallInv
<1>2. Contents' = Contents
  BY <1>1, ContentsSame DEF Running, Settled
<1> QED  BY <1>1, <1>2 DEF Map!Refuse, Map!NoReq, NoOp, Stage

LEMMA CloseBegins == IInv /\ CloseCall => Map!Close
<1> SUFFICES ASSUME IInv, CloseCall  PROVE Map!Close
  OBVIOUS
<1>1. pc = "idle" /\ pc' = "closing" /\ op = NoOp /\ UNCHANGED <<op, ret>>
  BY DEF CloseCall, IInv, CallInv
<1>2. Contents' = [k \in Key |-> Null]
  BY <1>1 DEF Contents
<1> QED  BY <1>1, <1>2 DEF Map!Close, Map!NoReq, Map!EmptyMap, NoOp, Stage

\* A replaced value is stored under its key; the answer is 1.
LEMMA ReplaceStores == IInv /\ PutReplace => Map!PutStores
<1> SUFFICES ASSUME IInv, PutReplace  PROVE Map!PutStores
  OBVIOUS
<1>1. /\ pc = "putFound" /\ pc' = "idle" /\ Found # Null
      /\ value' = [value EXCEPT ![Found] = op.value]
      /\ op' = NoOp /\ ret' = 1 /\ newnode = Null /\ newnode' = Null
      /\ UNCHANGED <<forward, key>>
      /\ op \in PutOp /\ op.key \in Key /\ op.value \in Value
  BY DEF PutReplace, Return, IInv, CallInv, PutOp
<1>2. /\ Found \in Settled /\ Found \in Node /\ key[Found] = op.key
      /\ Settled' = Settled /\ Settled \cup {Found} = Settled
  BY <1>1, FoundPosition, PtrAssumption DEF Settled
<1>3. Contents = MapOf(Settled, key, value) /\ Contents' = MapOf(Settled, key, value')
  BY <1>1, <1>2, ContentsRunning, ContentsRunningNext DEF Running
<1>4. Contents[op.key] = value[Found] /\ value[Found] \in Value
  BY <1>1, <1>2, <1>3, SettledNodes, HeldValue DEF MapOf
<1>5. value'[Found] = op.value /\ \A n \in Node \ {Found} : value'[n] = value[n]
  BY <1>1, <1>2 DEF IInv, TypeOK
<1>6. \A n \in Settled \ {Found} : key[n] # op.key
  BY <1>2, SettledNodes DEF DistinctKeys
<1>7. MapOf(Settled \cup {Found}, key, value') = [MapOf(Settled, key, value) EXCEPT ![op.key] = op.value]
  <2> DEFINE w == value'
  <2>1. w[Found] = op.value /\ \A n \in Settled \ {Found} : w[n] = value[n]
    BY <1>5, SettledNodes
  <2> HIDE DEF w
  <2>2. Stores(Settled, key, value, key, w, Found, op.key, op.value)
    BY <1>1, <1>2, <1>6, <2>1, SettledNodes DEF Stores
  <2>3. MapOf(Settled \cup {Found}, key, w) = [MapOf(Settled, key, value) EXCEPT ![op.key] = op.value]
    BY <1>1, <1>2, <2>2, MapOfStored
  <2> QED  BY <2>3 DEF w
<1>8. Contents' = [Contents EXCEPT ![op.key] = op.value]
  BY <1>2, <1>3, <1>7
<1> QED  BY <1>1, <1>4, <1>8, ValueAssumption DEF Map!PutStores, Map!PutReq, Map!NoReq, NoOp, PutOp, Stage

\* put has allocated and filled the new node: no caller can see it yet.
LEMMA CreateStutters == IInv /\ PutCreate => UNCHANGED <<Contents, Stage, op, ret>>
<1> SUFFICES ASSUME IInv, PutCreate  PROVE UNCHANGED <<Contents, Stage, op, ret>>
  OBVIOUS
<1>1. PICK n \in Node :
        /\ Fresh(n)
        /\ key' = [key EXCEPT ![n] = op.key] /\ value' = [value EXCEPT ![n] = op.value]
        /\ forward' = [forward EXCEPT ![n] = [j \in Level |-> Null]]
        /\ newnode' = n
  BY NewNode DEF PutCreate
<1>2. pc = "putFound" /\ pc' = "putLink" /\ newnode = Null /\ UNCHANGED <<op, ret>>
  BY DEF PutCreate, IInv, CallInv
<1>3. forward' = forward /\ n \notin Linked(forward, 0)
  <2>1. n \notin Linked(forward, 0) /\ forward[n] = [j \in Level |-> Null]
    BY <1>1, <1>2, FreshIsUnlinked, LevelZero DEF IInv
  <2> QED  BY <1>1, <2>1 DEF IInv, TypeOK
<1>4. Settled' = Settled /\ n \notin Settled
  BY <1>1, <1>2, <1>3, PtrAssumption DEF Settled, Linked
<1>5. \A m \in Settled : key'[m] = key[m] /\ value'[m] = value[m]
  BY <1>1, <1>4, SettledNodes DEF IInv, TypeOK
<1>6. Contents' = Contents
  BY <1>2, <1>4, <1>5, ContentsSame DEF Running
<1> QED  BY <1>2, <1>6 DEF Stage

\* What one turn of the linking loop does to level 0.
LEMMA LinkZero ==
    ASSUME IInv, PutLink
    PROVE  Linked(forward', 0) \cup {newnode} = Linked(forward, 0) \cup {newnode}
<1>1. pc = "putLink"
  BY DEF PutLink
<1>2. CASE update[i] = Null
  BY <1>2 DEF PutLink
<1>3. CASE update[i] # Null
  <2>1. /\ forward' = InsertAfter(forward, update[i], newnode, i) /\ forward \in PtrMaps
        /\ update[i] \in Ptr /\ update[i] # newnode /\ newnode \in Node /\ i \in Level
        /\ forward[newnode][i] = Null
    BY <1>1, <1>3, LinkPosition DEF PutLink, IInv, TypeOK, PtrMaps
  <2>2. CASE i = 0
    BY <2>1, <2>2, InsertAfterLinks, PtrAssumption
  <2>3. CASE i # 0
    BY <2>1, <2>3, InsertAfterElsewhere, LevelZero
  <2> QED  BY <2>2, <2>3
<1> QED  BY <1>2, <1>3

\* A turn of the linking loop but the last changes nothing a caller can see.
LEMMA LinkStutters ==
    IInv /\ PutLink /\ i # height[newnode] => UNCHANGED <<Contents, Stage, op, ret>>
<1> SUFFICES ASSUME IInv, PutLink, i # height[newnode]
             PROVE  UNCHANGED <<Contents, Stage, op, ret>>
  OBVIOUS
<1>1. pc = "putLink" /\ UNCHANGED <<pc, op, ret, newnode, key, value>>
  BY DEF PutLink
<1>2. Settled' = Settled
  BY <1>1, LinkZero DEF Settled
<1>3. Contents' = Contents
  BY <1>1, <1>2, ContentsSame DEF Running
<1> QED  BY <1>1, <1>3 DEF Stage

\* After the last turn the new key is there with its value; the answer is 0.
LEMMA LinkStores == IInv /\ PutLink /\ i = height[newnode] => Map!PutStores
<1> SUFFICES ASSUME IInv, PutLink, i = height[newnode]  PROVE Map!PutStores
  OBVIOUS
<1>1. /\ pc = "putLink" /\ pc' = "idle" /\ op' = NoOp /\ ret' = 0 /\ newnode' = Null
      /\ UNCHANGED <<key, value>>
      /\ op \in PutOp /\ op.key \in Key
  BY DEF PutLink, Return, IInv, CallInv, PutOp
<1>2. /\ newnode \in Node /\ key[newnode] = op.key /\ value[newnode] = op.value
      /\ \A n \in Settled : key[n] # op.key
  BY <1>1, LinkPosition DEF IInv, LinkInv, Settled
<1>3. newnode \in Linked(forward', 0)
  <2>1. update[0] # Null
    BY <1>1 DEF IInv, LinkInv
  <2>2. CASE i = 0
    <3>1. /\ forward' = InsertAfter(forward, update[0], newnode, 0) /\ forward \in PtrMaps
          /\ update[0] \in Ptr /\ update[0] # newnode /\ forward[newnode][0] = Null
      BY <1>1, <2>1, <2>2, LinkPosition DEF PutLink, IInv, TypeOK, PtrMaps
    <3> QED  BY <1>2, <3>1, LevelZero, InsertAfterLinks, PtrAssumption
  <2>3. CASE i # 0
    <3>1. i \in Level /\ 0 \in 0..(i - 1)
      BY <1>1, <2>3, LinkPosition, LevelAssumption DEF Level
    <3>2. newnode \in Linked(forward, 0)
      BY <1>1, <2>1, <3>1 DEF IInv, LinkInv
    <3>3. CASE update[i] = Null
      BY <3>2, <3>3 DEF PutLink
    <3>4. CASE update[i] # Null
      <4>1. /\ forward' = InsertAfter(forward, update[i], newnode, i) /\ forward \in PtrMaps
            /\ update[i] \in Ptr /\ update[i] # newnode
        BY <1>1, <3>4, LinkPosition DEF PutLink, IInv, TypeOK, PtrMaps
      <4>2. Linked(forward', 0) = Linked(forward, 0)
        BY <1>2, <2>3, <3>1, <4>1, LevelZero, InsertAfterElsewhere
      <4> QED  BY <3>2, <4>2
    <3> QED  BY <3>3, <3>4
  <2> QED  BY <2>2, <2>3
<1>4. Settled' = Settled \cup {newnode}
  <2>1. newnode' \notin Linked(forward', 0)
    BY <1>1, PtrAssumption DEF Linked
  <2> QED  BY <1>3, <2>1, LinkZero DEF Settled
<1>5. Contents = MapOf(Settled, key, value) /\ Contents' = MapOf(Settled \cup {newnode}, key, value)
  BY <1>1, <1>4, ContentsRunning, ContentsRunningNext DEF Running
<1>6. Contents' = [Contents EXCEPT ![op.key] = op.value]
  <2>1. Stores(Settled, key, value, key, value, newnode, op.key, op.value)
    BY <1>1, <1>2, SettledNodes DEF Stores
  <2>2. MapOf(Settled \cup {newnode}, key, value) = [MapOf(Settled, key, value) EXCEPT ![op.key] = op.value]
    BY <1>1, <1>2, <2>1, MapOfStored
  <2> QED  BY <1>5, <2>2
<1>7. Contents[op.key] = Null
  BY <1>1, <1>2, <1>5, HeldNothing DEF MapOf
<1> QED  BY <1>1, <1>6, <1>7 DEF Map!PutStores, Map!PutReq, Map!NoReq, NoOp, PutOp, Stage
\* A put that failed, before or after it looked for the key, has changed no binding.
LEMMA PutFailsStep == IInv /\ (PutReplaceFails \/ PutCreateFails) => Map!PutFails
<1> SUFFICES ASSUME IInv, PutReplaceFails \/ PutCreateFails  PROVE Map!PutFails
  OBVIOUS
<1>1. /\ pc = "putFound" /\ pc' = "idle" /\ op' = NoOp /\ ret' = -1
      /\ newnode = Null /\ newnode' = Null /\ op \in PutOp
      /\ UNCHANGED <<forward, key, value>>
  BY DEF PutReplaceFails, PutCreateFails, Return, listVars, IInv, CallInv
<1>2. Contents' = Contents
  BY <1>1, ContentsSame DEF Running, Settled
<1> QED  BY <1>1, <1>2 DEF Map!PutFails, Map!PutReq, Map!NoReq, NoOp, PutOp, Stage

\* get answers what the map holds under its key.
LEMMA GetStep == IInv /\ GetReturn => Map!GetAnswers
<1> SUFFICES ASSUME IInv, GetReturn  PROVE Map!GetAnswers
  OBVIOUS
<1>1. /\ pc = "getFound" /\ pc' = "idle" /\ op' = NoOp
      /\ ret' = (IF Found # Null THEN value[Found] ELSE Null)
      /\ newnode = Null /\ newnode' = Null /\ op \in GetOp /\ op.key \in Key
      /\ UNCHANGED <<forward, key, value>>
  BY DEF GetReturn, Return, listVars, IInv, CallInv, GetOp
<1>2. Contents' = Contents
  BY <1>1, ContentsSame DEF Running, Settled
<1>3. Contents[op.key] = HeldAt(Settled, key, value, op.key)
  BY <1>1, ContentsRunning DEF Running, MapOf
<1>4. ret' = Contents[op.key]
  <2>1. CASE Found # Null
    <3>1. Found \in Settled /\ key[Found] = op.key
      BY <1>1, <2>1, FoundPosition, PtrAssumption DEF Settled
    <3> QED  BY <1>1, <1>3, <2>1, <3>1, SettledNodes, HeldValue
  <2>2. CASE Found = Null
    <3>1. \A n \in Settled : key[n] # op.key
      BY <1>1, <2>2, FoundPosition DEF Settled
    <3> QED  BY <1>1, <1>3, <2>2, <3>1, HeldNothing
  <2> QED  BY <2>1, <2>2
<1> QED  BY <1>1, <1>2, <1>4 DEF Map!GetAnswers, Map!GetReq, Map!NoReq, NoOp, GetOp, Stage

\* The turns of the searches and of kvs_close do not show.
LEMMA TurnStutters ==
    IInv /\ (PutAdvance \/ PutDescend \/ GetAdvance \/ GetDescend \/ CloseNode \/ CloseEnd)
        => UNCHANGED <<Contents, Stage, op, ret>>
<1> SUFFICES ASSUME IInv,
                    PutAdvance \/ PutDescend \/ GetAdvance \/ GetDescend \/ CloseNode \/ CloseEnd
             PROVE  UNCHANGED <<Contents, Stage, op, ret>>
  OBVIOUS
<1>1. UNCHANGED <<op, ret, forward, key, value, newnode>>
  BY DEF PutAdvance, PutDescend, GetAdvance, GetDescend, CloseNode, CloseEnd, listVars, localVars
<1>2. CASE PutAdvance \/ PutDescend \/ GetAdvance \/ GetDescend
  <2>1. pc \in {"putSearch", "getSearch"} /\ pc' \in {"putSearch", "putFound", "getSearch", "getFound"}
    BY <1>2 DEF PutAdvance, PutDescend, GetAdvance, GetDescend
  <2>2. Contents' = Contents
    BY <1>1, <2>1, ContentsSame DEF Running, Settled
  <2> QED  BY <1>1, <2>1, <2>2 DEF Stage
<1>3. CASE CloseNode \/ CloseEnd
  <2>1. pc = "closing" /\ pc' \in {"closing", "done"}
    BY <1>3 DEF CloseNode, CloseEnd
  <2>2. Contents = [k \in Key |-> Null] /\ Contents' = [k \in Key |-> Null]
    BY <2>1 DEF Contents
  <2> QED  BY <1>1, <2>1, <2>2 DEF Stage
<1> QED  BY <1>2, <1>3

--------------------------------------------------------------------------------
(* The refinement *)

LEMMA InitMaps == Init => Map!Init
<1> SUFFICES ASSUME Init  PROVE Map!Init
  OBVIOUS
<1>1. Linked(forward, 0) = {}
  BY PtrAssumption, LevelZero DEF Init, Linked
<1>2. Contents = [k \in Key |-> Null]
  BY <1>1 DEF Contents
<1> QED  BY <1>2 DEF Init, Map!Init, Map!EmptyMap, Map!NoReq, NoOp, Stage

LEMMA StepMaps == IInv /\ [Next]_vars => [Map!Next]_<<Contents, Stage, op, ret>>
<1> SUFFICES ASSUME IInv, [Next]_vars
             PROVE  Map!Next \/ UNCHANGED <<Contents, Stage, op, ret>>
  OBVIOUS
<1>1. CASE OpenKvs \/ OpenKvsFails
  BY <1>1, OpenStep DEF Map!Next
<1>2. CASE PutCall \/ GetCall
  BY <1>2, CallBegins DEF Map!Next
<1>3. CASE PutRefused \/ GetRefused
  BY <1>3, CallRefused DEF Map!Next
<1>4. CASE CloseCall
  BY <1>4, CloseBegins DEF Map!Next
<1>5. CASE PutReplace
  BY <1>5, ReplaceStores DEF Map!Next
<1>6. CASE PutLink
  BY <1>6, LinkStutters, LinkStores DEF Map!Next
<1>7. CASE PutReplaceFails \/ PutCreateFails
  BY <1>7, PutFailsStep DEF Map!Next
<1>8. CASE GetReturn
  BY <1>8, GetStep DEF Map!Next
<1>9. CASE PutCreate
  BY <1>9, CreateStutters
<1>10. CASE PutAdvance \/ PutDescend \/ GetAdvance \/ GetDescend \/ CloseNode \/ CloseEnd
  BY <1>10, TurnStutters
<1>11. CASE Ended \/ UNCHANGED vars
  <2>1. UNCHANGED <<pc, op, ret, forward, key, value, newnode>>
    BY <1>11 DEF Ended, vars, listVars, localVars
  <2> QED  BY <2>1 DEF Contents, Stage
<1> QED  BY <1>1, <1>2, <1>3, <1>4, <1>5, <1>6, <1>7, <1>8, <1>9, <1>10, <1>11 DEF Next, Step

\* The skip list is the map kvs.h promises, whatever the keys, the values, the pool of
\* nodes, the heights drawn and the allocations that fail.
THEOREM Implements == Spec => ImplementsMap
<1>1. Spec => Map!Init /\ [][Map!Next]_<<Contents, Stage, op, ret>>
  BY InitMaps, StepMaps, Inductive, PTL DEF Spec
<1> QED  BY <1>1 DEF ImplementsMap, Map!Spec, Map!mapVars

--------------------------------------------------------------------------------
(* The driver: sequences put together *)

\* A set of natural numbers that is not empty has a least one.
LEMMA LeastNat ==
    ASSUME NEW S \in SUBSET Nat, S # {}
    PROVE  \E x \in S : \A y \in S : x <= y
<1> DEFINE R == {ss \in Nat \X Nat : ss[1] < ss[2]}
<1>1. IsWellFoundedOn(R, Nat)
  BY NatLessThanWellFounded DEF OpToRel
<1> HIDE DEF R
<1>2. PICK x \in S : \A y \in S : ~ (<<y, x>> \in R)
  BY <1>1, WFMin
<1>3. \A y \in S : x <= y
  <2> SUFFICES ASSUME NEW y \in S, ~(x <= y) PROVE FALSE
    OBVIOUS
  <2>1. <<y, x>> \in R
    BY DEF R
  <2> QED  BY <1>2, <2>1
<1> QED  BY <1>3

\* The body of FlattenSeq over the first n members.
FlattenStep(s, f, n) == [j \in 1..n |-> IF j = 1 THEN s[j] ELSE f[j - 1] \o s[j]]

\* The function FlattenSeq has in its LET.
Flatten(s) == CHOOSE f : f = FlattenStep(s, f, Len(s))

\* FlattenSeq by its last value.
LEMMA FlattenSeqDef ==
    ASSUME NEW s
    PROVE  FlattenSeq(s) = IF Len(s) = 0 THEN s ELSE Flatten(s)[Len(s)]
  BY DEF FlattenSeq, Flatten, FlattenStep

\* The function is there: of the lengths it is missing for, the least would have it.
LEMMA FlattenExists ==
    ASSUME NEW S, NEW s \in Seq(S)
    PROVE  Flatten(s) = FlattenStep(s, Flatten(s), Len(s))
<1> DEFINE Bad == {n \in Nat : ~ \E f : f = FlattenStep(s, f, n)}
<1>1. Bad = {}
  <2> SUFFICES ASSUME Bad # {} PROVE FALSE
    OBVIOUS
  <2>1. PICK n \in Bad : \A k \in Bad : n <= k
    BY LeastNat
  <2>2. n # 0
    <3>1. [j \in 1..0 |-> 0] = FlattenStep(s, [j \in 1..0 |-> 0], 0)
      BY DEF FlattenStep
    <3> QED  BY <2>1, <3>1
  <2>3. n - 1 \in Nat /\ n - 1 \notin Bad
    BY <2>1, <2>2
  <2>4. PICK f : f = FlattenStep(s, f, n - 1)
    BY <2>3
  <2> DEFINE g == [j \in 1..n |-> IF j = n THEN IF n = 1 THEN s[n] ELSE f[n - 1] \o s[n] ELSE f[j]]
  <2>5. ASSUME NEW j \in 1..n PROVE g[j] = FlattenStep(s, g, n)[j]
    <3>1. n \in Nat /\ j \in Nat /\ FlattenStep(s, g, n)[j] = IF j = 1 THEN s[j] ELSE g[j - 1] \o s[j]
      BY <2>1 DEF FlattenStep
    <3>2. j # 1 => j - 1 \in 1..(n - 1) /\ g[j - 1] = f[j - 1]
      BY <3>1
    <3>3. j # n => f[j] = IF j = 1 THEN s[j] ELSE f[j - 1] \o s[j]
      <4>1. j # n => j \in 1..(n - 1)
        BY <3>1
      <4>2. j # n => FlattenStep(s, f, n - 1)[j] = IF j = 1 THEN s[j] ELSE f[j - 1] \o s[j]
        BY <4>1 DEF FlattenStep
      <4> QED  BY <4>2, <2>4
    <3> QED  BY <3>1, <3>2, <3>3
  <2>6. DOMAIN g = 1..n /\ DOMAIN FlattenStep(s, g, n) = 1..n
    BY DEF FlattenStep
  <2>7. g = FlattenStep(s, g, n)
    BY <2>5, <2>6 DEF FlattenStep, g
  <2> QED  BY <2>1, <2>7
<1>2. Len(s) \in Nat
  BY LenProperties
<1>3. \E f : f = FlattenStep(s, f, Len(s))
  BY <1>1, <1>2
<1> QED  BY <1>3 DEF Flatten

\* One more sequence at the end is appended to what the others give.
LEMMA FlattenLaw ==
    ASSUME NEW S, NEW s \in Seq(Seq(S)), NEW x \in Seq(S)
    PROVE  /\ FlattenSeq(Append(s, x)) = FlattenSeq(s) \o x
           /\ FlattenSeq(s) \in Seq(S)
<1> DEFINE t == Append(s, x)  N == Len(s)  f == Flatten(s)  g == Flatten(t)
<1>1. /\ N \in Nat /\ t \in Seq(Seq(S)) /\ Len(t) = N + 1 /\ t[N + 1] = x
      /\ \A j \in 1..N : t[j] = s[j] /\ s[j] \in Seq(S)
  OBVIOUS
<1>2. f = FlattenStep(s, f, N) /\ g = FlattenStep(t, g, N + 1)
  BY <1>1, FlattenExists
<1> HIDE DEF t, f, g
<1>3. FlattenSeq(t) = IF N = 0 THEN x ELSE g[N] \o x
  <2>1. FlattenSeq(t) = g[N + 1]
    BY <1>1, FlattenSeqDef DEF g
  <2>2. N + 1 \in 1..(N + 1) /\ N + 1 - 1 = N
    BY <1>1
  <2>3. FlattenStep(t, g, N + 1)[N + 1] = IF N = 0 THEN x ELSE g[N] \o x
    BY <2>2, <1>1 DEF FlattenStep
  <2> QED  BY <2>1, <2>3, <1>2
<1>4. \A j \in 1..N : f[j] = g[j]
  <2> DEFINE Bad == {j \in Nat : j \in 1..N /\ f[j] # g[j]}
  <2> SUFFICES ASSUME Bad # {} PROVE FALSE
    <3>1. \A j \in 1..N : j \in Nat
      BY <1>1
    <3> QED  BY <3>1, Zenon
  <2>1. PICK j \in Bad : \A k \in Bad : j <= k
    BY LeastNat
  <2>2. j \in 1..N /\ j \in 1..(N + 1) /\ s[j] = t[j]
    BY <2>1, <1>1
  <2>3. /\ FlattenStep(s, f, N)[j] = IF j = 1 THEN s[j] ELSE f[j - 1] \o s[j]
        /\ FlattenStep(t, g, N + 1)[j] = IF j = 1 THEN t[j] ELSE g[j - 1] \o t[j]
    BY <2>2 DEF FlattenStep
  <2>4. j # 1 => j - 1 \in 1..N /\ f[j - 1] = g[j - 1]
    <3>1. j \in Nat /\ N \in Nat /\ \A k \in Nat : k \in 1..N /\ f[k] # g[k] => j <= k
      BY <2>1, <1>1
    <3>2. j # 1 => j - 1 \in Nat /\ j - 1 \in 1..N /\ ~(j <= j - 1)
      BY <3>1, <2>2
    <3> QED  BY <3>1, <3>2
  <2> QED  BY <2>1, <2>2, <2>3, <2>4, <1>2
<1>5. \A j \in 1..N : f[j] \in Seq(S)
  <2> DEFINE Bad == {j \in Nat : j \in 1..N /\ f[j] \notin Seq(S)}
  <2> SUFFICES ASSUME Bad # {} PROVE FALSE
    OBVIOUS
  <2>1. PICK j \in Bad : \A k \in Bad : j <= k
    BY LeastNat
  <2>2. f[j] = IF j = 1 THEN s[j] ELSE f[j - 1] \o s[j]
    <3>1. FlattenStep(s, f, N)[j] = IF j = 1 THEN s[j] ELSE f[j - 1] \o s[j]
      BY <2>1 DEF FlattenStep
    <3> QED  BY <3>1, <1>2
  <2>3. j # 1 => j - 1 \in 1..N /\ j - 1 \notin Bad
    BY <2>1, <1>1
  <2>4. j # 1 => f[j - 1] \in Seq(S)
    BY <2>3
  <2>5. j \in 1..N /\ s[j] \in Seq(S)
    BY <2>1, <1>1
  <2>6. j # 1 => f[j - 1] \o s[j] \in Seq(S)
    BY <2>4, <2>5, ConcatProperties
  <2> QED  BY <2>1, <2>2, <2>5, <2>6
<1>6. CASE N = 0
  <2>1. s = <<>>
    BY <1>6, EmptySeq
  <2>2. FlattenSeq(s) = <<>> /\ <<>> \in Seq(S)
    BY <2>1, <1>6, FlattenSeqDef, EmptySeq
  <2>3. <<>> \o x = x
    BY ConcatEmptySeq
  <2> QED  BY <2>2, <2>3, <1>3, <1>6 DEF t
<1>7. CASE N # 0
  <2>1. FlattenSeq(s) = f[N] /\ N \in 1..N
    BY <1>7, <1>1, FlattenSeqDef DEF f
  <2> QED  BY <2>1, <1>3, <1>4, <1>5, <1>7 DEF t
<1> QED  BY <1>6, <1>7

\* Nothing put together.
LEMMA FlattenEmpty == FlattenSeq(<<>>) = <<>>
  BY FlattenSeqDef, EmptySeq

\* One sequence and two of them put together.
LEMMA FlattenShort ==
    ASSUME NEW S, NEW x \in Seq(S), NEW y \in Seq(S)
    PROVE  /\ FlattenSeq(<<x>>) = x
           /\ FlattenSeq(<<x, y>>) = x \o y
<1>1. FlattenSeq(<<>>) = <<>> /\ <<>> \in Seq(Seq(S)) /\ <<>> \in Seq(S)
  BY FlattenEmpty, EmptySeq
<1>2. <<x>> = Append(<<>>, x) /\ <<x>> \in Seq(Seq(S)) /\ <<>> \o x = x
  BY ConcatEmptySeq
<1>3. FlattenSeq(<<x>>) = x
  BY <1>1, <1>2, FlattenLaw
<1>4. <<x, y>> = Append(<<x>>, y)
  OBVIOUS
<1>5. FlattenSeq(<<x, y>>) = x \o y
  BY <1>2, <1>3, <1>4, FlattenLaw
<1> QED  BY <1>3, <1>5

\* The characters of the file.
FileChar == Char \cup {Newline}

\* The two separators differ.
LEMMA Separators ==
    /\ Comma \in FileChar /\ Newline \in FileChar /\ Comma # Newline
    /\ Char \subseteq FileChar
  BY LineAssumption DEF FileChar

\* A field has no newline and, but for the last, no comma.
LEMMA FieldType ==
    ASSUME NEW line \in Line
    PROVE  /\ Len(line) \in 1..3
           /\ \A n \in 1..Len(line) :
                 /\ line[n] \in Seq(FileChar) /\ Len(line[n]) \in Nat
                 /\ \A p \in 1..Len(line[n]) :
                       /\ line[n][p] # Newline
                       /\ n < 3 => line[n][p] # Comma
<1>1. Len(line) \in 1..3 /\ line \in Seq(Seq(Char))
  BY LineAssumption
<1>2. ASSUME NEW n \in 1..Len(line)
      PROVE  /\ line[n] \in Seq(Char) /\ line[n] \in Seq(FileChar)
             /\ Len(line[n]) \in Nat /\ DOMAIN line[n] = 1..Len(line[n])
             /\ \A p \in 1..Len(line[n]) : line[n][p] \in Char
  <2>1. line[n] \in Seq(Char)
    BY <1>1, ElementOfSeq
  <2>2. line[n] \in Seq(FileChar)
    BY <2>1, Separators, SeqMonotonic
  <2> QED  BY <2>1, <2>2, ElementOfSeq, LenProperties
<1>3. ASSUME NEW n \in 1..Len(line), NEW p \in 1..Len(line[n])
      PROVE  line[n][p] # Newline /\ (n < 3 => line[n][p] # Comma)
  BY <1>2, LineAssumption DEF Range
<1> QED  BY <1>1, <1>2, <1>3

\* Render puts the fields one behind the other, a comma between each two.
LEMMA RenderCases ==
    ASSUME NEW line \in Line
    PROVE  /\ Len(line) = 1 => Render(line) = line[1]
           /\ Len(line) = 2 => Render(line) = line[1] \o (<<Comma>> \o line[2])
           /\ Len(line) = 3 => Render(line) = line[1] \o ((<<Comma>> \o line[2])
                                                        \o (<<Comma>> \o line[3]))
<1> DEFINE rest == [n \in 1..(Len(line) - 1) |-> <<Comma>> \o line[n + 1]]
<1>1. Len(line) \in 1..3 /\ \A n \in 1..Len(line) : line[n] \in Seq(FileChar)
  BY FieldType
<1>2. <<Comma>> \in Seq(FileChar)
  BY Separators
<1>3. \A n \in 1..Len(line) : <<Comma>> \o line[n] \in Seq(FileChar)
  BY <1>1, <1>2, ConcatProperties
<1>r. Render(line) = line[1] \o FlattenSeq(rest)
  BY DEF Render
<1>4. CASE Len(line) = 1
  <2>1. rest = <<>>
    BY <1>4
  <2>2. FlattenSeq(rest) = <<>>
    BY <2>1, FlattenEmpty
  <2>3. line[1] \o <<>> = line[1]
    BY <1>1, ConcatEmptySeq
  <2> HIDE DEF rest
  <2> QED  BY <2>2, <2>3, <1>4, <1>r
<1>5. CASE Len(line) = 2
  <2>1. rest = << <<Comma>> \o line[2] >>
    BY <1>5
  <2>2. FlattenSeq(rest) = <<Comma>> \o line[2]
    <3>1. <<Comma>> \o line[2] \in Seq(FileChar)
      BY <1>3, <1>5
    <3> QED  BY <2>1, <3>1, FlattenShort
  <2> HIDE DEF rest
  <2> QED  BY <2>2, <1>5, <1>r
<1>6. CASE Len(line) = 3
  <2>1. rest = << <<Comma>> \o line[2], <<Comma>> \o line[3] >>
    BY <1>6
  <2>2. <<Comma>> \o line[2] \in Seq(FileChar) /\ <<Comma>> \o line[3] \in Seq(FileChar)
    BY <1>3, <1>6
  <2>3. FlattenSeq(rest) = (<<Comma>> \o line[2]) \o (<<Comma>> \o line[3])
    BY <2>1, <2>2, FlattenShort
  <2> HIDE DEF rest
  <2> QED  BY <2>3, <1>6, <1>r
<1> HIDE DEF rest
<1>7. Len(line) = 1 \/ Len(line) = 2 \/ Len(line) = 3
  BY <1>1
<1> QED  BY <1>4, <1>5, <1>6, <1>7

\* What concatenation does to the characters.
LEMMA Joined ==
    ASSUME NEW S, NEW s \in Seq(S), NEW t \in Seq(S)
    PROVE  /\ s \o t \in Seq(S) /\ Len(s) \in Nat /\ Len(t) \in Nat
           /\ Len(s \o t) = Len(s) + Len(t)
           /\ \A p \in 1..Len(s) : (s \o t)[p] = s[p]
           /\ \A p \in 1..Len(t) : (s \o t)[Len(s) + p] = t[p]
<1>1. Len(s) \in Nat /\ Len(t) \in Nat
  BY LenProperties
<1> QED  BY <1>1, ConcatProperties

\* What is in neither of two sequences is not in the two put together.
LEMMA JoinedAvoids ==
    ASSUME NEW S, NEW s \in Seq(S), NEW t \in Seq(S), NEW c,
           \A p \in 1..Len(s) : s[p] # c, \A p \in 1..Len(t) : t[p] # c
    PROVE  \A p \in 1..Len(s \o t) : (s \o t)[p] # c
<1> SUFFICES ASSUME NEW p \in 1..Len(s \o t) PROVE (s \o t)[p] # c
  OBVIOUS
<1>1. Len(s) \in Nat /\ Len(t) \in Nat /\ Len(s \o t) = Len(s) + Len(t)
  BY Joined
<1>2. CASE p <= Len(s)
  BY <1>1, <1>2, Joined
<1>3. CASE p > Len(s)
  <2>1. p - Len(s) \in 1..Len(t) /\ Len(s) + (p - Len(s)) = p
    BY <1>1, <1>3
  <2> QED  BY <2>1, Joined
<1> QED  BY <1>1, <1>2, <1>3

\* A rendered line is text without a newline.
LEMMA RenderType ==
    ASSUME NEW line \in Line
    PROVE  /\ Render(line) \in Seq(FileChar) /\ Len(Render(line)) \in Nat
           /\ \A p \in 1..Len(Render(line)) : Render(line)[p] # Newline
<1> DEFINE Fine(s) == s \in Seq(FileChar) /\ \A p \in 1..Len(s) : s[p] # Newline
<1>1. ASSUME NEW s, NEW t, Fine(s), Fine(t) PROVE Fine(s \o t)
  <2>1. s \o t \in Seq(FileChar)
    BY <1>1, ConcatProperties
  <2>2. \A p \in 1..Len(s \o t) : (s \o t)[p] # Newline
    BY <1>1, JoinedAvoids
  <2> QED  BY <2>1, <2>2
<1>2. Fine(<<Comma>>)
  BY Separators
<1>3. Len(line) \in 1..3 /\ \A n \in 1..Len(line) : Fine(line[n])
  BY FieldType
<1>8. Fine(Render(line)) => /\ Render(line) \in Seq(FileChar) /\ Len(Render(line)) \in Nat
                            /\ \A p \in 1..Len(Render(line)) : Render(line)[p] # Newline
  BY LenProperties
<1> HIDE DEF Fine
<1>4. \A n \in 1..Len(line) : Fine(<<Comma>> \o line[n])
  BY <1>1, <1>2, <1>3
<1>5. CASE Len(line) = 1
  <2>1. Fine(line[1])
    BY <1>3, <1>5
  <2> QED  BY <2>1, <1>5, <1>8, RenderCases
<1>6. CASE Len(line) = 2
  <2>1. Fine(line[1] \o (<<Comma>> \o line[2]))
    BY <1>1, <1>3, <1>4, <1>6
  <2> QED  BY <2>1, <1>6, <1>8, RenderCases
<1>7. CASE Len(line) = 3
  <2>1. Fine((<<Comma>> \o line[2]) \o (<<Comma>> \o line[3]))
    BY <1>1, <1>3, <1>4, <1>7
  <2>2. Fine(line[1] \o ((<<Comma>> \o line[2]) \o (<<Comma>> \o line[3])))
    BY <2>1, <1>1, <1>3, <1>7
  <2> QED  BY <2>2, <1>7, <1>8, RenderCases
<1> QED  BY <1>3, <1>5, <1>6, <1>7

\* Where the three fields of a line stand in it.
LEMMA RenderFields ==
    ASSUME NEW line \in Line, Len(line) = 3
    PROVE  LET r == Render(line)
               a == Len(line[1])
               b == Len(line[2])
               c == Len(line[3])
           IN  /\ a \in Nat /\ b \in Nat /\ c \in Nat /\ Len(r) = a + b + c + 2
               /\ \A p \in 1..a : r[p] = line[1][p]
               /\ r[a + 1] = Comma
               /\ \A p \in 1..b : r[a + 1 + p] = line[2][p]
               /\ r[a + b + 2] = Comma
               /\ \A p \in 1..c : r[a + b + 2 + p] = line[3][p]
<1> DEFINE r == Render(line)  a == Len(line[1])  b == Len(line[2])  c == Len(line[3])
           k == <<Comma>> \o line[2]  v == <<Comma>> \o line[3]
<1>1. /\ line[1] \in Seq(FileChar) /\ line[2] \in Seq(FileChar) /\ line[3] \in Seq(FileChar)
      /\ a \in Nat /\ b \in Nat /\ c \in Nat
  BY FieldType
<1>2. <<Comma>> \in Seq(FileChar) /\ Len(<<Comma>>) = 1 /\ <<Comma>>[1] = Comma
  BY Separators
<1>a. ASSUME NEW f \in Seq(FileChar)
      PROVE  /\ <<Comma>> \o f \in Seq(FileChar) /\ Len(<<Comma>> \o f) = 1 + Len(f)
             /\ (<<Comma>> \o f)[1] = Comma
             /\ \A p \in 1..Len(f) : (<<Comma>> \o f)[1 + p] = f[p]
  BY <1>2, Joined
<1>3. /\ k \in Seq(FileChar) /\ Len(k) = 1 + b /\ k[1] = Comma
      /\ \A p \in 1..b : k[1 + p] = line[2][p]
  BY <1>1, <1>a
<1>4. /\ v \in Seq(FileChar) /\ Len(v) = 1 + c /\ v[1] = Comma
      /\ \A p \in 1..c : v[1 + p] = line[3][p]
  BY <1>1, <1>a
<1>5. r = line[1] \o (k \o v)
  BY RenderCases
<1> HIDE DEF k, v, r
<1> HIDE DEF a, b, c
<1>6. /\ k \o v \in Seq(FileChar) /\ Len(k \o v) = b + c + 2
      /\ \A p \in 1..(1 + b) : (k \o v)[p] = k[p]
      /\ \A p \in 1..(1 + c) : (k \o v)[1 + b + p] = v[p]
  <2>1. /\ k \o v \in Seq(FileChar) /\ Len(k \o v) = Len(k) + Len(v)
        /\ \A p \in 1..Len(k) : (k \o v)[p] = k[p]
        /\ \A p \in 1..Len(v) : (k \o v)[Len(k) + p] = v[p]
    <3>1. k \in Seq(FileChar) /\ v \in Seq(FileChar)
      BY <1>3, <1>4
    <3> QED  BY <3>1, Joined
  <2> QED  BY <2>1, <1>1, <1>3, <1>4
<1>7. /\ Len(r) = a + b + c + 2
      /\ \A p \in 1..a : r[p] = line[1][p]
      /\ \A p \in 1..(b + c + 2) : r[a + p] = (k \o v)[p]
  <2>1. /\ Len(r) = a + Len(k \o v)
        /\ \A p \in 1..a : r[p] = line[1][p]
        /\ \A p \in 1..Len(k \o v) : r[a + p] = (k \o v)[p]
    <3> DEFINE x == line[1]  y == k \o v
    <3>1. x \in Seq(FileChar) /\ y \in Seq(FileChar) /\ r = x \o y /\ a = Len(x)
      BY <1>1, <1>5, <1>6 DEF a
    <3> HIDE DEF x, y
    <3>2. /\ Len(r) = a + Len(y)
          /\ \A p \in 1..a : r[p] = x[p]
          /\ \A p \in 1..Len(y) : r[a + p] = y[p]
      BY <3>1, Joined
    <3> QED  BY <3>2 DEF x, y
  <2>2. Len(k \o v) = b + c + 2 /\ a + (b + c + 2) = a + b + c + 2
    BY <1>1, <1>6
  <2> QED  BY <2>1, <2>2
<1>8. r[a + 1] = Comma
  BY <1>1, <1>3, <1>6, <1>7
<1>9. ASSUME NEW p \in 1..b PROVE r[a + 1 + p] = line[2][p]
  <2>1. 1 + p \in 1..(b + c + 2) /\ 1 + p \in 1..(1 + b) /\ a + 1 + p = a + (1 + p)
    BY <1>1
  <2> QED  BY <2>1, <1>3, <1>6, <1>7
<1>10. r[a + b + 2] = Comma
  <2>1. b + 2 \in 1..(b + c + 2) /\ 1 \in 1..(1 + c) /\ b + 2 = 1 + b + 1 /\ a + b + 2 = a + (b + 2)
    BY <1>1
  <2> QED  BY <2>1, <1>4, <1>6, <1>7
<1>11. ASSUME NEW p \in 1..c PROVE r[a + b + 2 + p] = line[3][p]
  <2>1. /\ b + 2 + p \in 1..(b + c + 2) /\ 1 + p \in 1..(1 + c)
        /\ b + 2 + p = 1 + b + (1 + p) /\ a + b + 2 + p = a + (b + 2 + p)
    BY <1>1
  <2>2. r[a + (b + 2 + p)] = (k \o v)[b + 2 + p]
    BY <2>1, <1>7
  <2>3. (k \o v)[1 + b + (1 + p)] = v[1 + p] /\ v[1 + p] = line[3][p]
    BY <2>1, <1>4, <1>6
  <2> QED  BY <2>1, <2>2, <2>3
<1> QED  BY <1>1, <1>7, <1>8, <1>9, <1>10, <1>11 DEF a, b, c, r

--------------------------------------------------------------------------------
(* Where the lines stand in the file *)

\* The first n of the lines ls, each with its newline.
Prefix(ls, n) == FlattenSeq([m \in 1..n |-> Append(Render(ls[m]), Newline)])

\* The first n lines are the first n - 1 and one more.
LEMMA PrefixGrows ==
    ASSUME NEW ls \in Seq(Line)
    PROVE  /\ Prefix(ls, 0) = <<>>
           /\ \A n \in 0..Len(ls) : Prefix(ls, n) \in Seq(FileChar)
           /\ \A n \in 1..Len(ls) :
                 Prefix(ls, n) = Prefix(ls, n - 1) \o Append(Render(ls[n]), Newline)
<1> DEFINE piece(m) == Append(Render(ls[m]), Newline)
           pieces(n) == [m \in 1..n |-> piece(m)]
<1>1. Len(ls) \in Nat /\ \A m \in 1..Len(ls) : ls[m] \in Line
  BY ElementOfSeq, LenProperties
<1>2. \A m \in 1..Len(ls) : piece(m) \in Seq(FileChar)
  BY <1>1, RenderType, Separators
<1> HIDE DEF piece
<1>3. \A n \in 0..Len(ls) : pieces(n) \in Seq(Seq(FileChar)) /\ Len(pieces(n)) = n
  BY <1>1, <1>2
<1>4. \A n \in 0..Len(ls) : Prefix(ls, n) = FlattenSeq(pieces(n))
  BY DEF Prefix, piece
<1>5. ASSUME NEW n \in 1..Len(ls) PROVE pieces(n) = Append(pieces(n - 1), piece(n))
  <2>1. n - 1 \in 0..Len(ls) /\ n \in 0..Len(ls) /\ n \in 1..n
    BY <1>1
  <2>2. Append(pieces(n - 1), piece(n)) \in Seq(Seq(FileChar))
    BY <2>1, <1>2, <1>3
  <2>3. Len(Append(pieces(n - 1), piece(n))) = n
    BY <2>1, <1>2, <1>3
  <2>4. \A m \in 1..n : Append(pieces(n - 1), piece(n))[m] = pieces(n)[m]
    BY <2>1, <1>2, <1>3
  <2> QED  BY <2>1, <2>2, <2>3, <2>4, <1>3, SeqEqual
<1>6. pieces(0) = <<>>
  OBVIOUS
<1>7. Prefix(ls, 0) = <<>>
  <2>1. 0 \in 0..Len(ls)
    BY <1>1
  <2> HIDE DEF pieces
  <2> QED  BY <2>1, <1>4, <1>6, FlattenEmpty
<1> HIDE DEF pieces
<1>8. \A n \in 0..Len(ls) : Prefix(ls, n) \in Seq(FileChar)
  <2> TAKE n \in 0..Len(ls)
  <2>1. pieces(n) \in Seq(Seq(FileChar)) /\ <<>> \in Seq(FileChar)
    BY <1>3, EmptySeq
  <2> QED  BY <2>1, <1>4, FlattenLaw
<1>9. ASSUME NEW n \in 1..Len(ls)
      PROVE  Prefix(ls, n) = Prefix(ls, n - 1) \o Append(Render(ls[n]), Newline)
  <2>1. n - 1 \in 0..Len(ls) /\ n \in 0..Len(ls)
    BY <1>1
  <2>2. pieces(n - 1) \in Seq(Seq(FileChar)) /\ piece(n) \in Seq(FileChar)
    BY <2>1, <1>2, <1>3
  <2>3. FlattenSeq(Append(pieces(n - 1), piece(n))) = FlattenSeq(pieces(n - 1)) \o piece(n)
    BY <2>2, FlattenLaw
  <2> QED  BY <2>1, <2>3, <1>4, <1>5 DEF piece
<1> QED  BY <1>7, <1>8, <1>9

\* What one more line adds.
LEMMA PrefixStep ==
    ASSUME NEW ls \in Seq(Line), NEW n \in 1..Len(ls)
    PROVE  LET q == Len(Prefix(ls, n - 1))
               r == Render(ls[n])
           IN  /\ q \in Nat /\ Len(r) \in Nat
               /\ Prefix(ls, n) \in Seq(FileChar) /\ Prefix(ls, n - 1) \in Seq(FileChar)
               /\ r \in Seq(FileChar) /\ ls[n] \in Line
               /\ Len(Prefix(ls, n)) = q + Len(r) + 1
               /\ \A p \in 1..q : Prefix(ls, n)[p] = Prefix(ls, n - 1)[p]
               /\ \A p \in 1..Len(r) : Prefix(ls, n)[q + p] = r[p]
               /\ Prefix(ls, n)[q + Len(r) + 1] = Newline
<1> DEFINE q == Len(Prefix(ls, n - 1))  r == Render(ls[n])  piece == Append(r, Newline)
<1>1. Len(ls) \in Nat /\ n - 1 \in 0..Len(ls) /\ n \in 0..Len(ls) /\ ls[n] \in Line
  BY ElementOfSeq, LenProperties
<1>2. r \in Seq(FileChar) /\ Len(r) \in Nat
  BY <1>1, RenderType
<1>3. Prefix(ls, n - 1) \in Seq(FileChar) /\ Prefix(ls, n) \in Seq(FileChar)
  BY <1>1, PrefixGrows
<1>4. Prefix(ls, n) = Prefix(ls, n - 1) \o piece
  BY PrefixGrows
<1> HIDE DEF r
<1>5. /\ piece \in Seq(FileChar) /\ Len(piece) = Len(r) + 1
      /\ \A p \in 1..Len(r) : piece[p] = r[p]
      /\ piece[Len(r) + 1] = Newline
  BY <1>2, Separators
<1> HIDE DEF piece
<1>6. /\ q \in Nat /\ Len(Prefix(ls, n)) = q + Len(piece)
      /\ \A p \in 1..q : Prefix(ls, n)[p] = Prefix(ls, n - 1)[p]
      /\ \A p \in 1..Len(piece) : Prefix(ls, n)[q + p] = piece[p]
  <2>1. Prefix(ls, n - 1) \in Seq(FileChar) /\ piece \in Seq(FileChar)
    BY <1>3, <1>5
  <2> QED  BY <2>1, <1>4, Joined
<1> HIDE DEF q
<1>7. \A p \in 1..Len(r) : p \in 1..Len(piece)
  BY <1>2, <1>5
<1>8. Len(r) + 1 \in 1..Len(piece) /\ q + (Len(r) + 1) = q + Len(r) + 1
  BY <1>2, <1>5, <1>6
<1>9. Prefix(ls, n)[q + Len(r) + 1] = Newline
  BY <1>5, <1>6, <1>8
<1>10. \A p \in 1..Len(r) : Prefix(ls, n)[q + p] = r[p]
  BY <1>5, <1>6, <1>7
<1> QED  BY <1>1, <1>2, <1>3, <1>5, <1>6, <1>9, <1>10 DEF q, r

\* Every prefix begins with the shorter ones.
LEMMA PrefixExtends ==
    ASSUME NEW ls \in Seq(Line), NEW N \in 0..Len(ls), NEW n \in 0..N
    PROVE  /\ Len(Prefix(ls, n)) <= Len(Prefix(ls, N))
           /\ \A p \in 1..Len(Prefix(ls, n)) : Prefix(ls, N)[p] = Prefix(ls, n)[p]
<1> DEFINE Holds(k) == /\ Len(Prefix(ls, n)) <= Len(Prefix(ls, k))
                       /\ \A p \in 1..Len(Prefix(ls, n)) : Prefix(ls, k)[p] = Prefix(ls, n)[p]
           Bad == {k \in Nat : k \in n..N /\ ~Holds(k)}
<1>0. Len(ls) \in Nat /\ n \in Nat /\ N \in Nat /\ N \in n..N
  BY LenProperties
<1>1. Len(Prefix(ls, n)) \in Nat
  BY <1>0, PrefixGrows, LenProperties
<1>2. Holds(n)
  BY <1>1
<1>3. Bad = {}
  <2> SUFFICES ASSUME Bad # {} PROVE FALSE
    OBVIOUS
  <2> HIDE DEF Holds
  <2>1. PICK k \in Bad : \A j \in Bad : k <= j
    BY LeastNat
  <2>2. k # n
    BY <2>1, <1>2
  <2>3. k - 1 \in Nat /\ k - 1 \in n..N /\ k - 1 \notin Bad /\ k \in 1..Len(ls)
    BY <2>1, <2>2, <1>0
  <2>4. Holds(k - 1)
    BY <2>3
  <2>5. /\ Len(Prefix(ls, k - 1)) \in Nat /\ Len(Prefix(ls, k)) >= Len(Prefix(ls, k - 1))
        /\ \A p \in 1..Len(Prefix(ls, k - 1)) : Prefix(ls, k)[p] = Prefix(ls, k - 1)[p]
    BY <2>3, PrefixStep
  <2>6. Holds(k)
    BY <2>4, <2>5, <1>1 DEF Holds
  <2> QED  BY <2>1, <2>6
<1> QED  BY <1>0, <1>3

\* Where line n ends.
LineEnd(n) == Start(n) + Len(Render(lines[n]))

\* The lines stand one behind the other, a newline behind each but perhaps the last.
Layout ==
    /\ lines \in Seq(Line) /\ Len(lines) <= MaxLines
    /\ text \in Seq(FileChar)
    /\ Len(lines) = 0 => Len(text) = 0
    /\ Len(lines) > 0 => Start(1) = 0
    /\ \A n \in 1..Len(lines) :
          /\ Start(n) \in Nat /\ LineEnd(n) <= Len(text)
          /\ n < Len(lines) => Start(n + 1) = LineEnd(n) + 1 /\ LineEnd(n) < Len(text)
          /\ n = Len(lines) => Len(text) <= LineEnd(n) + 1
          /\ \A p \in 1..Len(Render(lines[n])) : text[Start(n) + p] = Render(lines[n])[p]
          /\ LineEnd(n) < Len(text) => text[LineEnd(n) + 1] = Newline

\* The lines are a sequence of at most MaxLines.
LEMMA LinesType ==
    ASSUME lines \in UNION {[1..n -> Line] : n \in 0..MaxLines}
    PROVE  lines \in Seq(Line) /\ Len(lines) <= MaxLines /\ DOMAIN lines = 1..Len(lines)
<1>1. PICK n \in 0..MaxLines : lines \in [1..n -> Line]
  OBVIOUS
<1>2. n \in Nat /\ n <= MaxLines
  BY BoundAssumption
<1>3. lines \in Seq(Line) /\ Len(lines) = n
  BY <1>1, <1>2
<1> QED  BY <1>2, <1>3, LenProperties

\* What may stand behind the last line.
LEMMA LastType ==
    ASSUME NEW last \in {<<>>, <<Newline>>}
    PROVE  last \in Seq(FileChar) /\ Len(last) \in 0..1 /\ (Len(last) = 1 => last[1] = Newline)
<1>1. CASE last = <<>>
  BY <1>1, EmptySeq
<1>2. CASE last = <<Newline>>
  <2>1. <<Newline>> \in Seq(FileChar) /\ Len(<<Newline>>) = 1 /\ <<Newline>>[1] = Newline
    BY Separators
  <2> QED  BY <2>1, <1>2
<1> QED  BY <1>1, <1>2

\* The file is the lines but the last with their newlines, and then the last.
LEMMA TextIs ==
    ASSUME lines \in Seq(Line), Len(lines) > 0, NEW last \in {<<>>, <<Newline>>},
           text = FlattenSeq([n \in DOMAIN lines |->
                    Render(lines[n]) \o IF n < Len(lines) THEN <<Newline>> ELSE last])
    PROVE  text = Prefix(lines, Len(lines) - 1) \o (Render(lines[Len(lines)]) \o last)
<1> DEFINE L == Len(lines)
           piece(m) == Append(Render(lines[m]), Newline)
           front == [m \in 1..(L - 1) |-> piece(m)]
           rest == Render(lines[L]) \o last
           all == [n \in DOMAIN lines |->
                    Render(lines[n]) \o IF n < Len(lines) THEN <<Newline>> ELSE last]
<1>1. L \in Nat \ {0} /\ DOMAIN lines = 1..L /\ \A m \in 1..L : lines[m] \in Line
  BY ElementOfSeq, LenProperties
<1>2. \A m \in 1..L : Render(lines[m]) \in Seq(FileChar)
  BY <1>1, RenderType
<1>3. \A m \in 1..L : piece(m) \in Seq(FileChar)
  BY <1>2, Separators
<1>4. last \in Seq(FileChar)
  BY LastType
<1>5. rest \in Seq(FileChar)
  BY <1>1, <1>2, <1>4, ConcatProperties
<1>6. front \in Seq(Seq(FileChar)) /\ Len(front) = L - 1
  BY <1>1, <1>3
<1>7. ASSUME NEW r \in Seq(FileChar) PROVE Append(r, Newline) = r \o <<Newline>>
  BY Separators
<1>8. \A n \in 1..L : n < L => all[n] = piece(n)
  BY <1>1, <1>2, <1>7
<1>9. all[L] = rest
  <2>1. L \in DOMAIN lines /\ ~(L < Len(lines))
    BY <1>1
  <2> QED  BY <2>1, Zenon
<1>10. DOMAIN all = 1..L
  BY <1>1
<1> HIDE DEF piece, rest, all
<1>11. all = Append(front, rest)
  <2>1. \A n \in 1..L : all[n] \in Seq(FileChar)
    BY <1>1, <1>3, <1>5, <1>8, <1>9
  <2>2. all \in Seq(Seq(FileChar)) /\ Len(all) = L
    <3>1. all = [n \in 1..L |-> all[n]]
      BY <1>10 DEF all
    <3> QED  BY <3>1, <2>1, <1>1
  <2>3. Append(front, rest) \in Seq(Seq(FileChar)) /\ Len(Append(front, rest)) = L
    BY <1>1, <1>5, <1>6
  <2>4. ASSUME NEW n \in 1..L PROVE all[n] = Append(front, rest)[n]
    <3>1. CASE n < L
      <4>1. n \in 1..Len(front) /\ front[n] = piece(n)
        BY <3>1, <1>1, <1>6
      <4> QED  BY <4>1, <3>1, <1>5, <1>6, <1>8
    <3>2. CASE n = L
      BY <3>2, <1>1, <1>5, <1>6, <1>9
    <3>3. n < L \/ n = L
      <4> HIDE DEF L
      <4> QED  BY <1>1
    <3> QED  BY <3>1, <3>2, <3>3
  <2> QED  BY <2>2, <2>3, <2>4, SeqEqual
<1>12. FlattenSeq(Append(front, rest)) = FlattenSeq(front) \o rest
  BY <1>5, <1>6, FlattenLaw
<1>13. FlattenSeq(front) = Prefix(lines, L - 1)
  BY DEF Prefix, piece
<1>14. text = FlattenSeq(all)
  BY DEF all
<1> QED  BY <1>11, <1>12, <1>13, <1>14 DEF rest

\* At the start the file has this layout.
LEMMA LayoutInit == MainInit => Layout
<1> SUFFICES ASSUME MainInit PROVE Layout
  OBVIOUS
<1> DEFINE L == Len(lines)
<1>1. lines \in Seq(Line) /\ L <= MaxLines /\ DOMAIN lines = 1..L /\ L \in Nat
  BY LinesType, LenProperties DEF MainInit
<1>2. PICK last \in {<<>>, <<Newline>>} :
         text = FlattenSeq([n \in DOMAIN lines |->
                    Render(lines[n]) \o IF n < Len(lines) THEN <<Newline>> ELSE last])
  BY Zenon DEF MainInit
<1>3. CASE L = 0
  <2>1. [n \in DOMAIN lines |->
           Render(lines[n]) \o IF n < Len(lines) THEN <<Newline>> ELSE last] = <<>>
    BY <1>1, <1>3
  <2>2. text = <<>>
    BY <2>1, <1>2, FlattenEmpty
  <2> QED  BY <2>2, <1>1, <1>3, EmptySeq DEF Layout
<1>4. CASE L > 0
  <2> DEFINE R == Render(lines[L])  P == Prefix(lines, L - 1)
  <2>1. text = P \o (R \o last)
    BY <1>1, <1>2, <1>4, TextIs
  <2>2. /\ L \in 1..L /\ L - 1 \in 0..L /\ lines[L] \in Line /\ R \in Seq(FileChar)
        /\ P \in Seq(FileChar) /\ Len(R) \in Nat /\ Len(P) \in Nat
    BY <1>1, <1>4, ElementOfSeq, RenderType, PrefixGrows, LenProperties
  <2>3. last \in Seq(FileChar) /\ Len(last) \in 0..1 /\ (Len(last) = 1 => last[1] = Newline)
    BY LastType
  <2> HIDE DEF L, R, P
  <2>4. /\ R \o last \in Seq(FileChar) /\ Len(R \o last) = Len(R) + Len(last)
        /\ \A p \in 1..Len(R) : (R \o last)[p] = R[p]
        /\ \A p \in 1..Len(last) : (R \o last)[Len(R) + p] = last[p]
    BY <2>2, <2>3, Joined
  <2>5. /\ text \in Seq(FileChar) /\ Len(text) = Len(P) + Len(R \o last)
        /\ \A p \in 1..Len(P) : text[p] = P[p]
        /\ \A p \in 1..Len(R \o last) : text[Len(P) + p] = (R \o last)[p]
    <3> DEFINE y == R \o last
    <3>1. P \in Seq(FileChar) /\ y \in Seq(FileChar) /\ text = P \o y
      BY <2>1, <2>2, <2>4
    <3> HIDE DEF y
    <3>2. /\ text \in Seq(FileChar) /\ Len(text) = Len(P) + Len(y)
          /\ \A p \in 1..Len(P) : text[p] = P[p]
          /\ \A p \in 1..Len(y) : text[Len(P) + p] = y[p]
      BY <3>1, Joined
    <3> QED  BY <3>2 DEF y
  <2>6. Start(1) = 0
    <3>1. Start(1) = Len(Prefix(lines, 0))
      BY DEF Start, Prefix
    <3> QED  BY <3>1, <1>1, PrefixGrows, EmptySeq
  <2>7. ASSUME NEW n \in 1..L
        PROVE  /\ Start(n) \in Nat /\ LineEnd(n) <= Len(text)
               /\ n < L => Start(n + 1) = LineEnd(n) + 1 /\ LineEnd(n) < Len(text)
               /\ n = L => Len(text) <= LineEnd(n) + 1
               /\ \A p \in 1..Len(Render(lines[n])) : text[Start(n) + p] = Render(lines[n])[p]
               /\ LineEnd(n) < Len(text) => text[LineEnd(n) + 1] = Newline
    <3> DEFINE q == Len(Prefix(lines, n - 1))  r == Render(lines[n])
    <3>1. Start(n) = q /\ LineEnd(n) = q + Len(r)
      BY DEF Start, Prefix, LineEnd
    <3>2. /\ q \in Nat /\ Len(r) \in Nat
          /\ Len(Prefix(lines, n)) = q + Len(r) + 1
          /\ \A p \in 1..Len(r) : Prefix(lines, n)[q + p] = r[p]
          /\ Prefix(lines, n)[q + Len(r) + 1] = Newline
      BY <1>1, PrefixStep DEF L
    <3>3. CASE n < L
      <4>1. n \in 0..(L - 1) /\ L - 1 \in 0..Len(lines)
        BY <3>3, <1>1, <2>2 DEF L
      <4>2. /\ Len(Prefix(lines, n)) <= Len(P)
            /\ \A p \in 1..Len(Prefix(lines, n)) : P[p] = Prefix(lines, n)[p]
        BY <4>1, <1>1, PrefixExtends DEF P
      <4>3. Start(n + 1) = Len(Prefix(lines, n))
        <5>1. n + 1 - 1 = n
          BY <1>1 DEF L
        <5>2. Start(n + 1) = Len(Prefix(lines, n + 1 - 1))
          BY DEF Start, Prefix
        <5> QED  BY <5>1, <5>2
      <4> HIDE DEF q, r
      <4>4. \A p \in 1..(q + Len(r) + 1) : text[p] = Prefix(lines, n)[p]
        <5> TAKE p \in 1..(q + Len(r) + 1)
        <5>1. p \in 1..Len(P) /\ p \in 1..Len(Prefix(lines, n))
          BY <4>2, <3>2, <2>2
        <5> QED  BY <5>1, <4>2, <2>5
      <4>5. \A p \in 1..Len(r) : q + p \in 1..(q + Len(r) + 1)
        BY <3>2
      <4>6. q + Len(r) + 1 \in 1..(q + Len(r) + 1)
        BY <3>2
      <4>7. \A p \in 1..Len(r) : text[q + p] = r[p]
        BY <4>4, <4>5, <3>2
      <4>8. text[q + Len(r) + 1] = Newline
        BY <4>4, <4>6, <3>2
      <4>9. q + Len(r) + 1 <= Len(text)
        BY <4>2, <3>2, <2>2, <2>3, <2>4, <2>5
      <4>10. /\ Start(n) \in Nat /\ LineEnd(n) <= Len(text)
             /\ n < L => Start(n + 1) = LineEnd(n) + 1 /\ LineEnd(n) < Len(text)
             /\ n = L => Len(text) <= LineEnd(n) + 1
        <5>1. Len(text) \in Nat
          BY <2>5, LenProperties
        <5> QED  BY <5>1, <4>3, <4>9, <3>1, <3>2, <3>3, <2>2
      <4> QED  BY <4>7, <4>8, <4>10, <3>1 DEF r
    <3>4. CASE n = L
      <4>1. q = Len(P) /\ r = R
        BY <3>4 DEF P, R
      <4> HIDE DEF q, r
      <4>2. \A p \in 1..Len(R) : p \in 1..Len(R \o last)
        BY <2>2, <2>3, <2>4
      <4>3. \A p \in 1..Len(R) : text[q + p] = r[p]
        BY <4>1, <4>2, <2>4, <2>5
      <4>4. Len(last) = 1 => text[q + Len(r) + 1] = Newline
        <5> SUFFICES ASSUME Len(last) = 1 PROVE text[q + Len(r) + 1] = Newline
          OBVIOUS
        <5>1. Len(R) + 1 \in 1..Len(R \o last) /\ 1 \in 1..Len(last)
              /\ Len(P) + (Len(R) + 1) = Len(P) + Len(R) + 1
          BY <2>2, <2>4
        <5> QED  BY <5>1, <4>1, <2>3, <2>4, <2>5
      <4>5. Len(text) = q + Len(r) + Len(last)
        BY <4>1, <2>2, <2>3, <2>4, <2>5
      <4>6. Len(last) \in Nat /\ Len(last) <= 1 /\ (Len(last) = 0 \/ Len(last) = 1)
        BY <2>3
      <4>7. /\ Start(n) \in Nat /\ LineEnd(n) <= Len(text)
            /\ Len(text) <= LineEnd(n) + 1
            /\ LineEnd(n) < Len(text) => Len(last) = 1
        BY <4>5, <4>6, <3>1, <3>2
      <4>8. ~(n < L)
        BY <3>4, <2>2
      <4>9. \A p \in 1..Len(r) : text[Start(n) + p] = r[p]
        BY <4>1, <4>3, <3>1
      <4>10. LineEnd(n) < Len(text) => text[LineEnd(n) + 1] = Newline
        BY <4>4, <4>7, <3>1
      <4> QED  BY <4>7, <4>8, <4>9, <4>10 DEF r
    <3>5. n < L \/ n = L
      BY <1>1
    <3> QED  BY <3>3, <3>4, <3>5
  <2>8. text \in Seq(FileChar)
    BY <2>5
  <2>9. Len(lines) > 0 /\ ~(Len(lines) = 0)
    BY <1>4, <1>1 DEF L
  <2> QED  BY <2>6, <2>7, <2>8, <2>9, <1>1, Zenon DEF Layout, L
<1> QED  BY <1>1, <1>3, <1>4

\* main reads query.dat and does not write it.
LEMMA FileStays == [MainNext]_mainVars => UNCHANGED <<lines, text>>
  BY DEF MainNext, Main, mainVars, fileVars, Open, Dies, Convert, ConvertFails, Turn, Set, Get,
         OtherCommand, Close

\* And keeps it.
LEMMA LayoutStep == Layout /\ [MainNext]_mainVars => Layout'
<1> SUFFICES ASSUME Layout, [MainNext]_mainVars PROVE Layout'
  OBVIOUS
<1>1. UNCHANGED <<lines, text>>
  BY FileStays
<1>2. \A n : Start(n)' = Start(n)
  BY <1>1 DEF Start
<1>3. \A n : LineEnd(n)' = LineEnd(n)
  BY <1>1, <1>2 DEF LineEnd
<1> QED  BY <1>1, <1>2, <1>3, Zenon DEF Layout

--------------------------------------------------------------------------------
(* Where a conversion ends *)

\* The smaller of two.
LEMMA MinOfTwo == \A x, y \in Int : Min({x, y}) = IF x <= y THEN x ELSE y
<1> TAKE x, y \in Int
<1> DEFINE m == IF x <= y THEN x ELSE y
<1>1. m \in {x, y} /\ \A z \in {x, y} : m <= z
  OBVIOUS
<1>2. \A w \in {x, y} : (\A z \in {x, y} : w <= z) => w = m
  OBVIOUS
<1> QED  BY <1>1, <1>2 DEF Min

\* EndOfRun is where the characters end that are taken.
LEMMA EndOfRunIs ==
    ASSUME NEW p \in 0..Len(text), Len(text) \in Nat, NEW width \in Nat, NEW Chars
    PROVE  /\ EndOfRun(p, width, Chars) \in Nat
           /\ p <= EndOfRun(p, width, Chars) /\ EndOfRun(p, width, Chars) <= p + width
           /\ EndOfRun(p, width, Chars) <= Len(text)
           /\ \A r \in (p + 1)..EndOfRun(p, width, Chars) : text[r] \in Chars
           /\ \/ EndOfRun(p, width, Chars) = p + width
              \/ EndOfRun(p, width, Chars) = Len(text)
              \/ text[EndOfRun(p, width, Chars) + 1] \notin Chars
<1> DEFINE bound == Min({p + width, Len(text)})
           Stops(q) == q = p + width \/ q = Len(text) \/ text[q + 1] \notin Chars
           Cand == {q \in Nat : p <= q /\ q <= bound /\ Stops(q)}
<1>1. /\ bound \in Nat /\ p <= bound /\ bound <= p + width /\ bound <= Len(text)
      /\ bound = p + width \/ bound = Len(text)
  BY MinOfTwo
<1> HIDE DEF bound
<1>2. bound \in Cand
  BY <1>1
<1>3. PICK q \in Cand : \A z \in Cand : q <= z
  BY <1>2, LeastNat
<1>4. q \in p..bound /\ Stops(q)
  BY <1>1, <1>3
<1>5. ASSUME NEW r \in (p + 1)..q PROVE text[r] \in Chars
  <2>1. r - 1 \in Nat /\ p <= r - 1 /\ r - 1 <= bound /\ r - 1 < q /\ r - 1 + 1 = r
    BY <1>1, <1>3
  <2>2. r - 1 \notin Cand
    BY <2>1, <1>3
  <2> QED  BY <2>1, <2>2
<1>6. \E z \in p..bound : (\A r \in (p + 1)..z : text[r] \in Chars) /\ Stops(z)
  BY <1>4, <1>5
<1> DEFINE e == EndOfRun(p, width, Chars)
<1>7. e = CHOOSE z \in p..bound : (\A r \in (p + 1)..z : text[r] \in Chars) /\ Stops(z)
  BY DEF EndOfRun, bound
<1> HIDE DEF e, Stops
<1>8. e \in p..bound /\ (\A r \in (p + 1)..e : text[r] \in Chars) /\ Stops(e)
  BY <1>6, <1>7
<1>9. e \in Nat /\ p <= e /\ e <= p + width /\ e <= Len(text)
  BY <1>1, <1>8
<1> QED  BY <1>8, <1>9 DEF e, Stops

\* The characters a conversion takes are all but its stop character.
LEMMA RangeOfText ==
    ASSUME text \in Seq(FileChar), NEW c, NEW r \in 1..Len(text)
    PROVE  text[r] \in Range(text) \ {c} <=> text[r] # c
<1>1. r \in DOMAIN text
  BY LenProperties
<1> QED  BY <1>1 DEF Range

\* The conversion c takes what stands before its stop character, of its width at most.
LEMMA TakenIs ==
    ASSUME Layout, pos \in 0..Len(text), NEW c \in 1..3
    PROVE  /\ Taken(c) \in Nat /\ Width[c] \in Nat \ {0} /\ pos \in Nat /\ Len(text) \in Nat
           /\ pos <= Taken(c) /\ Taken(c) <= pos + Width[c] /\ Taken(c) <= Len(text)
           /\ \A r \in (pos + 1)..Taken(c) : text[r] # Stop[c]
           /\ Taken(c) = pos + Width[c] \/ Taken(c) = Len(text) \/ text[Taken(c) + 1] = Stop[c]
<1>1. Width[c] \in Nat \ {0}
  BY WidthAssumption DEF Width
<1>2. text \in Seq(FileChar) /\ Len(text) \in Nat
  BY LenProperties DEF Layout
<1> DEFINE e == Taken(c)
<1>3. /\ e \in Nat /\ pos <= e /\ e <= pos + Width[c] /\ e <= Len(text)
      /\ \A r \in (pos + 1)..e : text[r] \in Range(text) \ {Stop[c]}
      /\ e = pos + Width[c] \/ e = Len(text) \/ text[e + 1] \notin Range(text) \ {Stop[c]}
  BY <1>1, <1>2, EndOfRunIs DEF Taken
<1> HIDE DEF e
<1>4. \A r \in (pos + 1)..e : r \in 1..Len(text)
  BY <1>2, <1>3
<1>5. e # Len(text) => e + 1 \in 1..Len(text)
  BY <1>2, <1>3
<1>6. \A r \in (pos + 1)..e : text[r] # Stop[c]
  BY <1>2, <1>3, <1>4, RangeOfText
<1>7. e = pos + Width[c] \/ e = Len(text) \/ text[e + 1] = Stop[c]
  BY <1>2, <1>3, <1>5, RangeOfText
<1> QED  BY <1>1, <1>2, <1>3, <1>6, <1>7 DEF e

\* It ends before a stop character, and not without a reason.
LEMMA TakenBefore ==
    ASSUME Layout, pos \in 0..Len(text), NEW c \in 1..3,
           NEW e \in Nat, pos <= e, e < Len(text), text[e + 1] = Stop[c]
    PROVE  Taken(c) <= e
<1>1. ~(e + 1 \in (pos + 1)..Taken(c)) /\ Taken(c) \in Nat /\ pos \in Nat
  BY TakenIs
<1> QED  BY <1>1

\* If a stop character, or the end of the file, is no further than the width, it ends there.
LEMMA TakenAt ==
    ASSUME Layout, pos \in 0..Len(text), NEW c \in 1..3,
           NEW e \in Nat, pos <= e, e <= pos + Width[c], e <= Len(text),
           \A r \in (pos + 1)..e : text[r] # Stop[c],
           e < Len(text) => text[e + 1] = Stop[c]
    PROVE  Taken(c) = e
<1> DEFINE q == Taken(c)
<1>1. /\ q \in Nat /\ Width[c] \in Nat /\ pos \in Nat /\ Len(text) \in Nat
      /\ pos <= q /\ q <= Len(text)
      /\ q = pos + Width[c] \/ q = Len(text) \/ text[q + 1] = Stop[c]
  BY TakenIs
<1>2. q <= e
  <2>1. CASE e < Len(text)
    BY <2>1, TakenBefore
  <2>2. CASE e = Len(text)
    BY <2>2, <1>1
  <2> QED  BY <2>1, <2>2, <1>1
<1> HIDE DEF q
<1>3. ~(q < e)
  <2> SUFFICES ASSUME q < e PROVE FALSE
    OBVIOUS
  <2>1. q + 1 \in (pos + 1)..e
    BY <1>1
  <2>2. q # Len(text) /\ q # pos + Width[c]
    BY <1>1
  <2> QED  BY <2>1, <2>2, <1>1
<1> QED  BY <1>1, <1>2, <1>3 DEF q

\* The newlines behind the value are skipped.
LEMMA SkippedIs ==
    ASSUME Layout, NEW p \in 0..Len(text)
    PROVE  /\ Skipped(p) \in Nat /\ p <= Skipped(p) /\ Skipped(p) <= Len(text) /\ p \in Nat
           /\ Len(text) \in Nat
           /\ \A r \in (p + 1)..Skipped(p) : text[r] = Newline
           /\ Skipped(p) = Len(text) \/ text[Skipped(p) + 1] # Newline
<1>1. Len(text) \in Nat
  BY LenProperties DEF Layout
<1>2. /\ Skipped(p) \in Nat /\ p <= Skipped(p) /\ Skipped(p) <= Len(text)
      /\ \A r \in (p + 1)..Skipped(p) : text[r] \in {Newline}
      /\ \/ Skipped(p) = p + Len(text)
         \/ Skipped(p) = Len(text)
         \/ text[Skipped(p) + 1] \notin {Newline}
  BY <1>1, EndOfRunIs DEF Skipped
<1> QED  BY <1>1, <1>2

--------------------------------------------------------------------------------
(* A proper line in the file *)

\* Every line, and the place behind it.
LEMMA LineIs ==
    ASSUME Layout, NEW n \in 1..Len(lines)
    PROVE  /\ Len(lines) \in Nat /\ Len(text) \in Nat /\ lines[n] \in Line
           /\ Start(n) \in Nat /\ LineEnd(n) \in Nat /\ Len(Render(lines[n])) \in Nat
           /\ LineEnd(n) = Start(n) + Len(Render(lines[n])) /\ LineEnd(n) <= Len(text)
           /\ \A r \in (Start(n) + 1)..LineEnd(n) : text[r] # Newline
           /\ LineEnd(n) < Len(text) => text[LineEnd(n) + 1] = Newline
<1>1. Len(lines) \in Nat /\ Len(text) \in Nat /\ lines[n] \in Line
  BY ElementOfSeq, LenProperties DEF Layout
<1>2. /\ Len(Render(lines[n])) \in Nat
      /\ \A p \in 1..Len(Render(lines[n])) : Render(lines[n])[p] # Newline
  BY <1>1, RenderType
<1>3. /\ Start(n) \in Nat /\ LineEnd(n) <= Len(text)
      /\ \A p \in 1..Len(Render(lines[n])) : text[Start(n) + p] = Render(lines[n])[p]
      /\ LineEnd(n) < Len(text) => text[LineEnd(n) + 1] = Newline
  BY DEF Layout
<1>4. LineEnd(n) = Start(n) + Len(Render(lines[n])) /\ LineEnd(n) \in Nat
  BY <1>2, <1>3 DEF LineEnd
<1>5. ASSUME NEW r \in (Start(n) + 1)..LineEnd(n) PROVE text[r] # Newline
  <2>1. r - Start(n) \in 1..Len(Render(lines[n])) /\ Start(n) + (r - Start(n)) = r
    BY <1>2, <1>3, <1>4
  <2> QED  BY <2>1, <1>2, <1>3
<1> QED  BY <1>1, <1>2, <1>3, <1>4, <1>5

\* The characters of a proper line, with the lengths of its fields.
LEMMA ProperIs ==
    ASSUME Layout, NEW n \in 1..Len(lines), Proper(lines[n])
    PROVE  LET s == Start(n)
               a == Len(lines[n][1])
               b == Len(lines[n][2])
               c == Len(lines[n][3])
           IN  /\ a \in Nat /\ b \in Nat /\ c \in Nat /\ s \in Nat
               /\ 1 <= a /\ a <= Width[1] /\ 1 <= b /\ b <= Width[2] /\ 1 <= c /\ c <= Width[3]
               /\ LineEnd(n) = s + a + b + c + 2
               /\ \A p \in 1..a : text[s + p] = lines[n][1][p] /\ lines[n][1][p] # Comma
               /\ text[s + a + 1] = Comma
               /\ \A p \in 1..b : text[s + a + 1 + p] = lines[n][2][p] /\ lines[n][2][p] # Comma
               /\ text[s + a + b + 2] = Comma
               /\ \A p \in 1..c : text[s + a + b + 2 + p] = lines[n][3][p]
               /\ FieldStart(n, 1) = s /\ FieldStart(n, 2) = s + a + 1
               /\ FieldStart(n, 3) = s + a + b + 2
               /\ lines[n][1] \in Seq(FileChar) /\ lines[n][2] \in Seq(FileChar)
               /\ lines[n][3] \in Seq(FileChar) /\ DOMAIN lines[n] = 1..3
<1> DEFINE line == lines[n]  r == Render(line)  s == Start(n)
           a == Len(line[1])  b == Len(line[2])  c == Len(line[3])
<1>1. /\ line \in Line /\ s \in Nat /\ Len(r) \in Nat /\ LineEnd(n) = s + Len(r)
  BY LineIs
<1>2. Len(line) = 3 /\ \A f \in 1..3 : Len(line[f]) \in 1..Width[f]
  BY DEF Proper, Width
<1>3. /\ 1 <= a /\ a <= Width[1] /\ 1 <= b /\ b <= Width[2] /\ 1 <= c /\ c <= Width[3]
      /\ Width[1] \in Nat /\ Width[2] \in Nat /\ Width[3] \in Nat
  BY <1>2, WidthAssumption DEF Width
<1>4. /\ a \in Nat /\ b \in Nat /\ c \in Nat /\ Len(r) = a + b + c + 2
      /\ \A p \in 1..a : r[p] = line[1][p]
      /\ r[a + 1] = Comma
      /\ \A p \in 1..b : r[a + 1 + p] = line[2][p]
      /\ r[a + b + 2] = Comma
      /\ \A p \in 1..c : r[a + b + 2 + p] = line[3][p]
  BY <1>1, <1>2, RenderFields
<1>5. \A p \in 1..Len(r) : text[s + p] = r[p]
  BY DEF Layout
<1>6. /\ line[1] \in Seq(FileChar) /\ line[2] \in Seq(FileChar) /\ line[3] \in Seq(FileChar)
      /\ \A p \in 1..a : line[1][p] # Comma
      /\ \A p \in 1..b : line[2][p] # Comma
  <2>1. 1 \in 1..Len(line) /\ 2 \in 1..Len(line) /\ 3 \in 1..Len(line)
    BY <1>2
  <2>2. \A f \in 1..Len(line) :
           /\ line[f] \in Seq(FileChar)
           /\ f < 3 => \A p \in 1..Len(line[f]) : line[f][p] # Comma
    BY <1>1, FieldType
  <2> HIDE DEF line
  <2> QED  BY <2>1, <2>2
<1>7. FieldStart(n, 1) = s /\ FieldStart(n, 2) = s + a + 1 /\ FieldStart(n, 3) = s + a + b + 2
  <2>1. <<0, a + 1, a + b + 2>>[1] = 0 /\ <<0, a + 1, a + b + 2>>[2] = a + 1
        /\ <<0, a + 1, a + b + 2>>[3] = a + b + 2
    OBVIOUS
  <2>2. \A f \in 1..3 : FieldStart(n, f) = s + <<0, a + 1, a + b + 2>>[f]
    BY DEF FieldStart
  <2>3. a \in Nat /\ b \in Nat /\ s \in Nat
    BY <1>1, <1>4
  <2> HIDE DEF a, b, s
  <2>4. FieldStart(n, 1) = s + 0 /\ FieldStart(n, 2) = s + (a + 1) /\ FieldStart(n, 3) = s + (a + b + 2)
    BY <2>1, <2>2
  <2> QED  BY <2>3, <2>4
<1>8. DOMAIN line = 1..3
  <2>1. line \in Seq(Seq(Char))
    BY <1>1, LineAssumption
  <2> QED  BY <2>1, <1>2, LenProperties
<1> HIDE DEF line, r, s, a, b, c
<1>n. /\ a \in Nat /\ b \in Nat /\ c \in Nat /\ s \in Nat /\ Len(r) = a + b + c + 2
  BY <1>1, <1>4
<1>9. ASSUME NEW p \in 1..a PROVE text[s + p] = line[1][p]
  <2>1. p \in 1..Len(r)
    BY <1>n
  <2> QED  BY <2>1, <1>4, <1>5
<1>10. text[s + a + 1] = Comma
  <2>1. a + 1 \in 1..Len(r) /\ s + (a + 1) = s + a + 1
    BY <1>n
  <2> QED  BY <2>1, <1>4, <1>5
<1>11. ASSUME NEW p \in 1..b PROVE text[s + a + 1 + p] = line[2][p]
  <2>1. a + 1 + p \in 1..Len(r) /\ s + (a + 1 + p) = s + a + 1 + p
    BY <1>n
  <2> QED  BY <2>1, <1>4, <1>5
<1>12. text[s + a + b + 2] = Comma
  <2>1. a + b + 2 \in 1..Len(r) /\ s + (a + b + 2) = s + a + b + 2
    BY <1>n
  <2> QED  BY <2>1, <1>4, <1>5
<1>13. ASSUME NEW p \in 1..c PROVE text[s + a + b + 2 + p] = line[3][p]
  <2>1. a + b + 2 + p \in 1..Len(r) /\ s + (a + b + 2 + p) = s + a + b + 2 + p
    BY <1>n
  <2> QED  BY <2>1, <1>4, <1>5
<1>14. LineEnd(n) = s + a + b + c + 2
  BY <1>1, <1>4
<1> QED  BY <1>1, <1>3, <1>4, <1>6, <1>7, <1>8, <1>9, <1>10, <1>11, <1>12, <1>13, <1>14
         DEF line, s, a, b, c

\* A proper line has characters.
LEMMA ProperNotEmpty ==
    ASSUME Layout, NEW n \in 1..Len(lines), Proper(lines[n])
    PROVE  Start(n) < LineEnd(n)
<1>1. \A s, a, b, c \in Nat : 1 <= a => s < s + a + b + c + 2
  OBVIOUS
<1>2. /\ 1 <= Len(lines[n][1]) /\ Len(lines[n][1]) \in Nat /\ Start(n) \in Nat
      /\ Len(lines[n][2]) \in Nat /\ Len(lines[n][3]) \in Nat
      /\ LineEnd(n) = Start(n) + Len(lines[n][1]) + Len(lines[n][2]) + Len(lines[n][3]) + 2
  BY ProperIs
<1> QED  BY <1>1, <1>2

\* Behind a line comes the next one, or the end of the file.
LEMMA SkippedToNext ==
    ASSUME Layout, NEW n \in 1..Len(lines), n < Len(lines) => Proper(lines[n + 1])
    PROVE  Skipped(LineEnd(n)) = Begin(n + 1)
<1> DEFINE e == LineEnd(n)  q == Skipped(e)
<1>1. /\ Len(lines) \in Nat /\ Len(text) \in Nat /\ e \in Nat /\ e <= Len(text)
      /\ e < Len(text) => text[e + 1] = Newline
  BY LineIs
<1>2. /\ q \in Nat /\ e <= q /\ q <= Len(text)
      /\ \A r \in (e + 1)..q : text[r] = Newline
      /\ q = Len(text) \/ text[q + 1] # Newline
  <2>1. e \in 0..Len(text)
    BY <1>1
  <2> HIDE DEF e
  <2> QED  BY <2>1, SkippedIs
<1>3. /\ n < Len(lines) => Start(n + 1) = e + 1 /\ e < Len(text)
      /\ n = Len(lines) => Len(text) <= e + 1
  BY DEF Layout
<1> HIDE DEF e, q
<1>4. e < Len(text) => q >= e + 1
  BY <1>1, <1>2
<1>5. CASE n = Len(lines)
  <2>1. q = Len(text)
    BY <1>1, <1>2, <1>3, <1>4, <1>5
  <2> QED  BY <2>1, <1>1, <1>5 DEF Begin, e, q
<1>6. CASE n < Len(lines)
  <2>1. n + 1 \in 1..Len(lines)
    BY <1>1, <1>6
  <2>2. Start(n + 1) + 1 \in (Start(n + 1) + 1)..LineEnd(n + 1)
    <3>1. /\ Start(n + 1) \in Nat /\ LineEnd(n + 1) \in Nat /\ Start(n + 1) < LineEnd(n + 1)
      BY <2>1, <1>6, LineIs, ProperNotEmpty
    <3> QED  BY <3>1
  <2>3. text[e + 1 + 1] # Newline
    BY <2>1, <2>2, <1>3, <1>6, LineIs
  <2>4. ~(e + 1 + 1 \in (e + 1)..q)
    BY <2>3, <1>2
  <2>5. q = e + 1
    BY <2>4, <1>1, <1>2, <1>3, <1>4, <1>6
  <2> QED  BY <2>1, <2>5, <1>3, <1>6 DEF Begin, e, q
<1> QED  BY <1>1, <1>5, <1>6

\* The white space behind a value never reaches into a proper line.
LEMMA SkippedBefore ==
    ASSUME Layout, NEW n \in 1..Len(lines), Proper(lines[n]), NEW p \in 0..Start(n)
    PROVE  Skipped(p) <= Start(n)
<1>1. /\ Start(n) \in Nat /\ LineEnd(n) \in Nat /\ LineEnd(n) <= Len(text) /\ Len(text) \in Nat
      /\ \A r \in (Start(n) + 1)..LineEnd(n) : text[r] # Newline
  BY LineIs
<1>2. Start(n) < LineEnd(n)
  BY ProperNotEmpty
<1>3. text[Start(n) + 1] # Newline /\ p \in 0..Len(text)
  BY <1>1, <1>2
<1>4. Skipped(p) \in Nat /\ p \in Nat /\ \A r \in (p + 1)..Skipped(p) : text[r] = Newline
  BY <1>3, SkippedIs
<1>5. ~(Start(n) + 1 \in (p + 1)..Skipped(p))
  BY <1>3, <1>4
<1> QED  BY <1>1, <1>4, <1>5

--------------------------------------------------------------------------------
(* Reading a proper line *)

\* The text has the field f of line n where that begins, without what would end it.
FieldText(n, f) ==
    \A p \in 1..Len(lines[n][f]) :
        /\ text[FieldStart(n, f) + p] = lines[n][f][p]
        /\ text[FieldStart(n, f) + p] # Stop[f]

\* Each field of a proper line is what one conversion takes.
LEMMA FieldIs ==
    ASSUME Layout, NEW n \in 1..Len(lines), Proper(lines[n]), NEW f \in 1..3
    PROVE  LET s == FieldStart(n, f)
               l == Len(lines[n][f])
           IN  /\ s \in Nat /\ l \in Nat /\ 1 <= l /\ l <= Width[f] /\ s + l <= LineEnd(n)
               /\ Start(n) <= s
               /\ lines[n][f] \in Seq(FileChar)
               /\ FieldText(n, f)
               /\ f < 3 => /\ text[s + l + 1] = Stop[f] /\ s + l < LineEnd(n)
                           /\ FieldStart(n, f + 1) = s + l + 1
               /\ f = 3 => s + l = LineEnd(n)
<1> USE DEF FieldText
<1> DEFINE s == Start(n)  a == Len(lines[n][1])  b == Len(lines[n][2])  c == Len(lines[n][3])
<1>1. /\ a \in Nat /\ b \in Nat /\ c \in Nat /\ s \in Nat
      /\ 1 <= a /\ a <= Width[1] /\ 1 <= b /\ b <= Width[2] /\ 1 <= c /\ c <= Width[3]
      /\ LineEnd(n) = s + a + b + c + 2
  BY ProperIs
<1>2. /\ \A p \in 1..a : text[s + p] = lines[n][1][p] /\ lines[n][1][p] # Comma
      /\ text[s + a + 1] = Comma
      /\ \A p \in 1..b : text[s + a + 1 + p] = lines[n][2][p] /\ lines[n][2][p] # Comma
      /\ text[s + a + b + 2] = Comma
      /\ \A p \in 1..c : text[s + a + b + 2 + p] = lines[n][3][p]
  BY ProperIs
<1>3. FieldStart(n, 1) = s /\ FieldStart(n, 2) = s + a + 1 /\ FieldStart(n, 3) = s + a + b + 2
  BY ProperIs
<1>4. /\ lines[n][1] \in Seq(FileChar) /\ lines[n][2] \in Seq(FileChar)
      /\ lines[n][3] \in Seq(FileChar)
  BY ProperIs
<1>5. Stop[1] = Comma /\ Stop[2] = Comma /\ Stop[3] = Newline
  BY DEF Stop
<1>6. \A p \in 1..c : lines[n][3][p] # Newline
  <2>1. lines[n] \in Line /\ 3 \in 1..Len(lines[n])
    BY LineIs DEF Proper
  <2> QED  BY <2>1, FieldType
<1> HIDE DEF s, a, b, c
<1>7. CASE f = 1
  <2>1. Len(lines[n][f]) = a /\ FieldStart(n, f) = s /\ FieldStart(n, f + 1) = s + a + 1
        /\ lines[n][f] = lines[n][1] /\ Stop[f] = Comma /\ Width[f] = Width[1]
    BY <1>3, <1>5, <1>7 DEF a
  <2>2. s + a <= LineEnd(n) /\ s + a < LineEnd(n) /\ s <= s
    BY <1>1
  <2>3. \A p \in 1..a : text[s + p] = lines[n][1][p] /\ text[s + p] # Comma
    BY <1>2
  <2>4. f < 3 /\ f # 3
    BY <1>7
  <2>5. \A p \in 1..Len(lines[n][f]) :
           text[FieldStart(n, f) + p] = lines[n][f][p] /\ text[FieldStart(n, f) + p] # Stop[f]
    BY <2>1, <2>3
  <2> QED  BY <2>1, <2>2, <2>4, <2>5, <1>1, <1>2, <1>4 DEF s
<1>8. CASE f = 2
  <2> DEFINE k == s + a + 1
  <2>1. Len(lines[n][f]) = b /\ FieldStart(n, f) = k /\ FieldStart(n, f + 1) = s + a + b + 2
        /\ lines[n][f] = lines[n][2] /\ Stop[f] = Comma /\ Width[f] = Width[2]
    BY <1>3, <1>5, <1>8 DEF b
  <2>2. /\ k \in Nat /\ k + b <= LineEnd(n) /\ k + b < LineEnd(n) /\ s <= k
        /\ k + b + 1 = s + a + b + 2
    BY <1>1
  <2>3. \A p \in 1..b : text[k + p] = lines[n][2][p] /\ lines[n][2][p] # Comma
    BY <1>2
  <2> HIDE DEF k
  <2>4. text[k + b + 1] = Comma
    BY <2>2, <1>2
  <2>5. f < 3 /\ f # 3
    BY <1>8
  <2>6. \A p \in 1..Len(lines[n][f]) :
           text[FieldStart(n, f) + p] = lines[n][f][p] /\ text[FieldStart(n, f) + p] # Stop[f]
    BY <2>1, <2>3
  <2> QED  BY <2>1, <2>2, <2>4, <2>5, <2>6, <1>1, <1>4 DEF s
<1>9. CASE f = 3
  <2> DEFINE k == s + a + b + 2
  <2>1. Len(lines[n][f]) = c /\ FieldStart(n, f) = k
        /\ lines[n][f] = lines[n][3] /\ Stop[f] = Newline /\ Width[f] = Width[3]
    BY <1>3, <1>5, <1>9 DEF c
  <2>2. k \in Nat /\ k + c = LineEnd(n) /\ s <= k /\ k + c <= LineEnd(n)
    BY <1>1
  <2>3. \A p \in 1..c : text[k + p] = lines[n][3][p] /\ lines[n][3][p] # Newline
    BY <1>2, <1>6
  <2> HIDE DEF k
  <2>4. ~(f < 3)
    BY <1>9
  <2>5. \A p \in 1..Len(lines[n][f]) :
           text[FieldStart(n, f) + p] = lines[n][f][p] /\ text[FieldStart(n, f) + p] # Stop[f]
    BY <2>1, <2>3
  <2> QED  BY <2>1, <2>2, <2>4, <2>5, <1>1, <1>4 DEF s
<1> QED  BY <1>7, <1>8, <1>9

\* A piece of a sequence.
LEMMA SubSeqIs ==
    ASSUME NEW S, NEW t \in Seq(S), NEW p \in 0..Len(t), NEW e \in p..Len(t)
    PROVE  /\ SubSeq(t, p + 1, e) \in Seq(S) /\ Len(SubSeq(t, p + 1, e)) = e - p
           /\ \A r \in 1..(e - p) : SubSeq(t, p + 1, e)[r] = t[p + r]
  OBVIOUS

\* A conversion that stands at a field of a proper line takes that field.
LEMMA TakesField ==
    ASSUME Layout, NEW n \in 1..Len(lines), Proper(lines[n]), NEW f \in 1..3,
           pos = FieldStart(n, f)
    PROVE  /\ Taken(f) = FieldStart(n, f) + Len(lines[n][f]) /\ Taken(f) > pos
           /\ SubSeq(text, pos + 1, Taken(f)) = lines[n][f]
           /\ f < 3 => At(Taken(f), Stop[f]) /\ Taken(f) + 1 = FieldStart(n, f + 1)
           /\ f = 3 => Taken(f) = LineEnd(n)
<1> DEFINE s == FieldStart(n, f)  l == Len(lines[n][f])  x == lines[n][f]
<1>1. /\ s \in Nat /\ l \in Nat /\ 1 <= l /\ l <= Width[f] /\ s + l <= LineEnd(n)
      /\ x \in Seq(FileChar)
      /\ \A p \in 1..l : text[s + p] = x[p] /\ text[s + p] # Stop[f]
      /\ f < 3 => /\ text[s + l + 1] = Stop[f] /\ s + l < LineEnd(n)
                  /\ FieldStart(n, f + 1) = s + l + 1
      /\ f = 3 => s + l = LineEnd(n)
  <2>1. s \in Nat /\ l \in Nat /\ 1 <= l /\ l <= Width[f] /\ s + l <= LineEnd(n)
    BY FieldIs
  <2>2. x \in Seq(FileChar) /\ \A p \in 1..l : text[s + p] = x[p] /\ text[s + p] # Stop[f]
    <3>1. x \in Seq(FileChar)
      BY FieldIs
    <3>2. FieldText(n, f)
      BY FieldIs
    <3> QED  BY <3>1, <3>2 DEF FieldText
  <2>3. ASSUME f < 3
        PROVE  /\ text[s + l + 1] = Stop[f] /\ s + l < LineEnd(n)
               /\ FieldStart(n, f + 1) = s + l + 1
    <3>1. text[s + l + 1] = Stop[f]
      BY <2>3, FieldIs
    <3>2. s + l < LineEnd(n)
      BY <2>3, FieldIs
    <3>3. FieldStart(n, f + 1) = s + l + 1
      BY <2>3, FieldIs
    <3> QED  BY <3>1, <3>2, <3>3
  <2>4. f = 3 => s + l = LineEnd(n)
    BY FieldIs
  <2> QED  BY <2>1, <2>2, <2>3, <2>4
<1>2. /\ LineEnd(n) \in Nat /\ LineEnd(n) <= Len(text) /\ Len(text) \in Nat
      /\ LineEnd(n) < Len(text) => text[LineEnd(n) + 1] = Newline
  BY LineIs
<1>3. Stop[3] = Newline /\ Width[f] \in Nat
  BY WidthAssumption DEF Stop, Width
<1>4. pos = s
  OBVIOUS
<1>5. l = Len(x)
  OBVIOUS
<1> HIDE DEF s, l, x
<1>6. pos \in 0..Len(text)
  BY <1>1, <1>2, <1>4
<1>7. \A r \in (pos + 1)..(s + l) : text[r] # Stop[f]
  <2> TAKE r \in (pos + 1)..(s + l)
  <2>1. r - s \in 1..l /\ s + (r - s) = r
    BY <1>1, <1>4
  <2> QED  BY <2>1, <1>1
<1>8. s + l < Len(text) => text[s + l + 1] = Stop[f]
  BY <1>1, <1>2, <1>3
<1>9. s + l \in Nat /\ pos <= s + l /\ s + l <= pos + Width[f] /\ s + l <= Len(text)
  BY <1>1, <1>2, <1>3, <1>4
<1>10. Taken(f) = s + l
  BY <1>6, <1>7, <1>8, <1>9, TakenAt
<1>11. SubSeq(text, pos + 1, s + l) = x
  <2> DEFINE e == s + l  t == SubSeq(text, pos + 1, e)
  <2>1. text \in Seq(FileChar) /\ e \in pos..Len(text) /\ e - pos = l
    BY <1>1, <1>2, <1>4, <1>9 DEF Layout
  <2> HIDE DEF e
  <2>2. /\ t \in Seq(FileChar) /\ Len(t) = e - pos
        /\ \A p \in 1..(e - pos) : t[p] = text[pos + p]
    BY <2>1, <1>6, SubSeqIs
  <2> HIDE DEF t
  <2>3. /\ t \in Seq(FileChar) /\ Len(t) = Len(x) /\ x \in Seq(FileChar)
        /\ \A p \in 1..Len(t) : t[p] = x[p]
    BY <2>1, <2>2, <1>1, <1>4, <1>5
  <2>4. t = x
    BY <2>3, SeqEqual
  <2> QED  BY <2>4 DEF t, e
<1>12. f < 3 => At(s + l, Stop[f])
  BY <1>1, <1>2 DEF At
<1>13. s + l > pos
  BY <1>1, <1>4
<1> QED  BY <1>1, <1>10, <1>11, <1>12, <1>13 DEF s, l, x

\* The places in the file do not move.
LEMMA Unmoved ==
    ASSUME UNCHANGED <<lines, text>>
    PROVE  /\ \A n : Start(n)' = Start(n) /\ LineEnd(n)' = LineEnd(n) /\ Begin(n)' = Begin(n)
           /\ \A n : lines[n]' = lines[n] /\ Proper(lines[n])' = Proper(lines[n])
           /\ \A n, f : FieldStart(n, f)' = FieldStart(n, f)
           /\ Meant(lines)' = Meant(lines)
<1>1. \A n : Start(n)' = Start(n)
  BY DEF Start
<1>2. \A n : LineEnd(n)' = LineEnd(n) /\ Begin(n)' = Begin(n)
  BY <1>1 DEF LineEnd, Begin
<1>3. \A n, f : FieldStart(n, f)' = FieldStart(n, f)
  BY <1>1 DEF FieldStart
<1> QED  BY <1>1, <1>2, <1>3

\* What Convert does, without its quantifiers.
LEMMA ConvertIs ==
    ASSUME Convert
    PROVE  LET c == converted + 1
               end == Taken(c)
               goes == c < 3 /\ At(end, Stop[c])
           IN  /\ mainPc = "scan" /\ end > pos /\ UNCHANGED <<lines, text, start, opened>>
               /\ args' = [args EXCEPT ![c] = SubSeq(text, pos + 1, end)]
               /\ pos' = IF c = 3 THEN Skipped(end) ELSE IF goes THEN end + 1 ELSE end
               /\ converted' = c
               /\ mainPc' = IF goes THEN "scan" ELSE "act"
               /\ obeyed' = obeyed \cup
                     {n \in DOMAIN lines : c = 3 /\ start = Start(n) /\ args' = lines[n]}
               /\ UNCHANGED <<store, answers, lost>>
  BY DEF Convert, fileVars, storeVars

\* A call that reads a proper line goes on to its next field, or ends with the whole line.
LEMMA ReadConvert ==
    ASSUME Layout, DriverTypeOK, NEW n \in 1..Len(lines), Proper(lines[n]), Reading(n), Convert
    PROVE  \/ converted < 2 /\ mainPc' = "scan" /\ Reading(n)'
           \/ /\ converted = 2 /\ mainPc' = "act" /\ args' = lines[n]
              /\ pos' = Skipped(LineEnd(n)) /\ n \in obeyed'
<1>1. PICK c \in 1..3 :
         /\ start = Start(n) /\ converted = c - 1 /\ pos = FieldStart(n, c)
         /\ \A f \in 1..(c - 1) : args[f] = lines[n][f]
  BY DEF Reading
<1>c. converted + 1 = c /\ c \in Nat
  BY <1>1
<1>2. /\ Taken(c) > pos /\ SubSeq(text, pos + 1, Taken(c)) = lines[n][c]
      /\ c < 3 => At(Taken(c), Stop[c]) /\ Taken(c) + 1 = FieldStart(n, c + 1)
      /\ c = 3 => Taken(c) = LineEnd(n)
  BY <1>1, TakesField
<1>3. /\ UNCHANGED <<lines, text, start>>
      /\ args' = [args EXCEPT ![c] = SubSeq(text, pos + 1, Taken(c))]
      /\ pos' = IF c = 3 THEN Skipped(Taken(c))
                ELSE IF c < 3 /\ At(Taken(c), Stop[c]) THEN Taken(c) + 1 ELSE Taken(c)
      /\ converted' = c
      /\ mainPc' = IF c < 3 /\ At(Taken(c), Stop[c]) THEN "scan" ELSE "act"
      /\ obeyed' = obeyed \cup
            {m \in DOMAIN lines : c = 3 /\ start = Start(m) /\ args' = lines[m]}
  BY <1>c, ConvertIs
<1>4. DOMAIN args = 1..3 /\ DOMAIN lines[n] = 1..3 /\ n \in DOMAIN lines
  <2>1. DOMAIN lines[n] = 1..3
    BY ProperIs
  <2>2. DOMAIN lines = 1..Len(lines)
    BY LenProperties DEF Layout
  <2> QED  BY <2>1, <2>2 DEF DriverTypeOK
<1>5. /\ args' = [args EXCEPT ![c] = lines[n][c]] /\ DOMAIN args' = 1..3
      /\ \A f \in 1..c : args'[f] = lines[n][f]
  <2>1. args' = [args EXCEPT ![c] = lines[n][c]]
    BY <1>2, <1>3
  <2>2. \A f \in 1..c : f = c \/ f \in 1..(c - 1)
    BY <1>1
  <2> QED  BY <2>1, <2>2, <1>1, <1>4
<1>6. CASE c < 3
  <2>1. c + 1 \in 1..3 /\ converted' = c + 1 - 1 /\ c + 1 - 1 = c
    BY <1>c, <1>3, <1>6
  <2>2. mainPc' = "scan" /\ pos' = FieldStart(n, c + 1)
    BY <1>6, <1>2, <1>3
  <2>3. FieldStart(n, c + 1)' = FieldStart(n, c + 1) /\ Start(n)' = Start(n)
    BY <1>3, Unmoved
  <2>4. Reading(n)'
    <3> DEFINE At2(f) == /\ start' = Start(n)' /\ converted' = f - 1 /\ pos' = FieldStart(n, f)'
                         /\ \A g \in 1..(f - 1) : args'[g] = lines'[n][g]
    <3>1. At2(c + 1)
      BY <2>1, <2>2, <2>3, <1>1, <1>3, <1>5
    <3> HIDE DEF At2
    <3>2. \E f \in 1..3 : At2(f)
      BY <2>1, <3>1
    <3> QED  BY <3>2 DEF At2, Reading
  <2> QED  BY <2>2, <2>4, <1>1, <1>6
<1>7. CASE c = 3
  <2>2. mainPc' = "act" /\ pos' = Skipped(LineEnd(n))
    BY <1>7, <1>2, <1>3
  <2>3. args' = lines[n]
    <3>1. lines[n] \in Seq(Seq(Char)) /\ Len(lines[n]) = 3
      BY LineIs, LineAssumption DEF Proper
    <3>2. lines[n] = [f \in 1..3 |-> lines[n][f]]
      BY <3>1, LenProperties
    <3>3. args' = [f \in 1..3 |-> args'[f]]
      BY <1>4, <1>5
    <3> QED  BY <3>2, <3>3, <1>7, <1>5
  <2>4. n \in obeyed'
    BY <1>7, <2>3, <1>1, <1>3, <1>4
  <2> QED  BY <2>2, <2>3, <2>4, <1>1, <1>7
<1> QED  BY <1>c, <1>6, <1>7

\* A conversion that stands at a field of a proper line does not fail.
LEMMA ReadNotFails ==
    ASSUME Layout, NEW n \in 1..Len(lines), Proper(lines[n]), Reading(n)
    PROVE  ~ConvertFails /\ Taken(converted + 1) > pos
<1>1. converted + 1 \in 1..3 /\ pos = FieldStart(n, converted + 1) /\ pos \in Nat
  <2>1. converted + 1 \in 1..3 /\ pos = FieldStart(n, converted + 1)
    BY DEF Reading
  <2> QED  BY <2>1, FieldIs
<1>2. Taken(converted + 1) > pos
  BY <1>1, TakesField
<1> QED  BY <1>1, <1>2 DEF ConvertFails

\* At the start the stream stands at 0 and args are three fields.
LEMMA DriverTypeInit == MainInit => DriverTypeOK
<1> SUFFICES ASSUME MainInit PROVE DriverTypeOK
  OBVIOUS
<1>1. Len(text) \in Nat
  BY LayoutInit, LenProperties DEF Layout
<1>2. PICK c \in {<<"get">>, <<"junk">>} : args = <<c, <<"junk">>, <<"junk">>>>
  BY DEF MainInit
<1>3. DOMAIN args = 1..3
  BY <1>2
<1> QED  BY <1>1, <1>3 DEF MainInit, DriverTypeOK

\* What a conversion does to the position and the point of main.
LEMMA ConvertType ==
    ASSUME Layout, DriverTypeOK, Convert
    PROVE  DriverTypeOK'
<1> DEFINE c == converted + 1  end == Taken(c)
<1>1. c \in 1..3 /\ pos \in 0..Len(text) /\ DOMAIN args = 1..3 /\ mainPc = "scan"
  BY DEF DriverTypeOK, Convert
<1>2. end \in Nat /\ end <= Len(text) /\ Len(text) \in Nat
  BY <1>1, TakenIs
<1>3. /\ UNCHANGED text
      /\ args' = [args EXCEPT ![c] = SubSeq(text, pos + 1, end)]
      /\ pos' = IF c = 3 THEN Skipped(end)
                ELSE IF c < 3 /\ At(end, Stop[c]) THEN end + 1 ELSE end
      /\ converted' = c
      /\ mainPc' = IF c < 3 /\ At(end, Stop[c]) THEN "scan" ELSE "act"
  BY ConvertIs
<1> HIDE DEF c, end
<1>4. Skipped(end) \in 0..Len(text)
  <2>1. end \in 0..Len(text)
    BY <1>2
  <2> QED  BY <2>1, SkippedIs
<1>5. At(end, Stop[c]) => end + 1 \in 0..Len(text)
  BY <1>2 DEF At
<1>6. pos' \in 0..Len(text)
  BY <1>2, <1>3, <1>4, <1>5
<1>7. DOMAIN args' = 1..3
  BY <1>1, <1>3
<1> QED  BY <1>1, <1>3, <1>6, <1>7 DEF DriverTypeOK

\* Every step of main keeps DriverTypeOK.
LEMMA DriverTypeStep == Layout /\ DriverTypeOK /\ [MainNext]_mainVars => DriverTypeOK'
<1> SUFFICES ASSUME Layout, DriverTypeOK, [MainNext]_mainVars PROVE DriverTypeOK'
  OBVIOUS
<1> USE DEF DriverTypeOK
<1>1. CASE Open
  BY <1>1 DEF Open, scanVars
<1>2. CASE Dies
  BY <1>2 DEF Dies, scanVars, fileVars
<1>3. CASE Convert
  BY <1>3, ConvertType
<1>4. CASE ConvertFails
  BY <1>4 DEF ConvertFails, scanVars, fileVars
<1>5. CASE Set
  BY <1>5 DEF Set, Turn, fileVars
<1>6. CASE Get
  BY <1>6 DEF Get, Turn, fileVars
<1>7. CASE OtherCommand
  BY <1>7 DEF OtherCommand, Turn, fileVars
<1>8. CASE Close
  BY <1>8 DEF Close, scanVars, fileVars
<1>9. CASE UNCHANGED mainVars
  BY <1>9 DEF mainVars, scanVars, fileVars
<1> QED  BY <1>1, <1>2, <1>3, <1>4, <1>5, <1>6, <1>7, <1>8, <1>9 DEF MainNext, Main

--------------------------------------------------------------------------------
(* What the lines mean *)

\* What line n adds to what the ones before it have left.
MeantStep(ls, f, n) ==
    IF n = 0 THEN [map |-> [k \in {} |-> <<>>], answers |-> <<>>]
    ELSE [map |-> IF ls[n][1] = <<"set">>
                    THEN [k \in DOMAIN f[n - 1].map \cup {ls[n][2]} |->
                             IF k = ls[n][2] THEN ls[n][3] ELSE f[n - 1].map[k]]
                    ELSE f[n - 1].map,
          answers |-> IF ls[n][1] = <<"get">>
                        THEN Append(f[n - 1].answers, Answer(f[n - 1].map, ls[n][2]))
                        ELSE f[n - 1].answers]

\* What the lines mean, by what the ones before the last mean.
LEMMA MeantIs ==
    ASSUME NEW ls, Len(ls) \in Nat
    PROVE  \A n \in 0..Len(ls) : Meant(ls)[n] = MeantStep(ls, Meant(ls), n)
<1> DEFINE Upto(f, m) == f = [n \in 0..m |-> MeantStep(ls, f, n)]
           Bad == {m \in Nat : ~ \E f : Upto(f, m)}
<1>1. Bad = {}
  <2> SUFFICES ASSUME Bad # {} PROVE FALSE
    OBVIOUS
  <2>1. PICK m \in Bad : \A j \in Bad : m <= j
    BY LeastNat
  <2>2. m # 0
    <3> DEFINE g == [n \in 0..0 |-> [map |-> [k \in {} |-> <<>>], answers |-> <<>>]]
    <3>1. g = [n \in 0..0 |-> MeantStep(ls, g, n)]
      BY DEF MeantStep
    <3> QED  BY <2>1, <3>1
  <2>3. m - 1 \in Nat /\ m - 1 \notin Bad
    BY <2>1, <2>2
  <2>4. PICK f : Upto(f, m - 1)
    BY <2>3
  <2> DEFINE g == [n \in 0..m |-> IF n = m THEN MeantStep(ls, f, m) ELSE f[n]]
  <2>5. ASSUME NEW n \in 0..m PROVE g[n] = MeantStep(ls, g, n)
    <3>1. n # 0 => n - 1 \in 0..(m - 1) /\ g[n - 1] = f[n - 1]
      BY <2>3
    <3>2. MeantStep(ls, g, n) = MeantStep(ls, f, n)
      <4> HIDE DEF g
      <4> QED  BY <3>1 DEF MeantStep
    <3>3. n # m => n \in 0..(m - 1) /\ f[n] = MeantStep(ls, f, n)
      <4>1. n # m => n \in 0..(m - 1)
        BY <2>3
      <4> QED  BY <4>1, <2>4
    <3>4. g[n] = IF n = m THEN MeantStep(ls, f, m) ELSE f[n]
      OBVIOUS
    <3> HIDE DEF g
    <3> QED  BY <3>2, <3>3, <3>4
  <2>6. g = [n \in 0..m |-> g[n]]
    OBVIOUS
  <2> HIDE DEF g
  <2>7. [n \in 0..m |-> g[n]] = [n \in 0..m |-> MeantStep(ls, g, n)]
    BY <2>5
  <2>8. Upto(g, m)
    BY <2>6, <2>7
  <2> QED  BY <2>1, <2>8
<1>2. \E f : Upto(f, Len(ls))
  BY <1>1
<1>3. Meant(ls) = CHOOSE f : Upto(f, Len(ls))
  BY DEF Meant, MeantStep
<1>4. Upto(Meant(ls), Len(ls))
  <2> HIDE DEF Upto
  <2> QED  BY <1>2, <1>3
<1> DEFINE g == Meant(ls)
<1>5. g = [n \in 0..Len(ls) |-> MeantStep(ls, g, n)]
  BY <1>4
<1> HIDE DEF g
<1>6. \A n \in 0..Len(ls) : g[n] = MeantStep(ls, g, n)
  BY <1>5
<1> QED  BY <1>6 DEF g

\* A value, or what main writes for a key that is not there.
Texts == Seq(FileChar) \cup {<<"-1">>}

\* Line by line there is at most one answer more, and each is a value or "-1".
LEMMA MeantType ==
    ASSUME NEW ls \in Seq(Line), \A n \in 1..Len(ls) : Len(ls[n]) = 3
    PROVE  \A n \in 0..Len(ls) :
              /\ Meant(ls)[n].answers \in Seq(Texts) /\ Len(Meant(ls)[n].answers) \in 0..n
              /\ \A k \in DOMAIN Meant(ls)[n].map : Meant(ls)[n].map[k] \in Texts
<1> DEFINE g == Meant(ls)
           Fine(n) == /\ g[n].answers \in Seq(Texts) /\ Len(g[n].answers) \in 0..n
                      /\ \A k \in DOMAIN g[n].map : g[n].map[k] \in Texts
           Bad == {n \in Nat : n <= Len(ls) /\ ~Fine(n)}
<1>1. Len(ls) \in Nat
  BY LenProperties
<1>2. \A n \in 0..Len(ls) : g[n] = MeantStep(ls, g, n)
  BY <1>1, MeantIs
<1> HIDE DEF g
<1>3. Bad = {}
  <2> SUFFICES ASSUME Bad # {} PROVE FALSE
    OBVIOUS
  <2>1. PICK n \in Bad : \A j \in Bad : n <= j
    BY LeastNat
  <2>2. n \in 0..Len(ls)
    BY <2>1, <1>1
  <2>3. n # 0
    <3> SUFFICES ASSUME n = 0 PROVE Fine(0)
      BY <2>1
    <3>1. g[0] = [map |-> [k \in {} |-> <<>>], answers |-> <<>>]
      BY <2>2, <1>2 DEF MeantStep
    <3> QED  BY <3>1, EmptySeq
  <2>4. n - 1 \in Nat /\ n - 1 <= Len(ls) /\ n - 1 \notin Bad /\ n \in 1..Len(ls)
    BY <2>1, <2>2, <2>3
  <2>5. Fine(n - 1)
    BY <2>4
  <2> DEFINE b == g[n - 1]
  <2>6. /\ g[n].map = IF ls[n][1] = <<"set">>
                        THEN [k \in DOMAIN b.map \cup {ls[n][2]} |->
                                 IF k = ls[n][2] THEN ls[n][3] ELSE b.map[k]]
                        ELSE b.map
        /\ g[n].answers = IF ls[n][1] = <<"get">>
                            THEN Append(b.answers, Answer(b.map, ls[n][2]))
                            ELSE b.answers
    <3>1. g[n] = MeantStep(ls, g, n)
      BY <2>2, <1>2
    <3> QED  BY <3>1, <2>3 DEF MeantStep
  <2>7. /\ b.answers \in Seq(Texts) /\ Len(b.answers) \in 0..(n - 1)
        /\ \A k \in DOMAIN b.map : b.map[k] \in Texts
    BY <2>5
  <2> HIDE DEF b
  <2>8. ls[n][3] \in Texts
    <3>1. n \in 1..Len(ls)
      BY <2>4
    <3>2. ls[n] \in Line /\ Len(ls[n]) = 3
      BY <3>1, ElementOfSeq
    <3>3. 3 \in 1..Len(ls[n])
      BY <3>2
    <3> QED  BY <3>2, <3>3, FieldType DEF Texts
  <2>9. Answer(b.map, ls[n][2]) \in Texts
    BY <2>7 DEF Answer, Texts
  <2>10. \A k \in DOMAIN g[n].map : g[n].map[k] \in Texts
    BY <2>6, <2>7, <2>8
  <2>11. /\ Append(b.answers, Answer(b.map, ls[n][2])) \in Seq(Texts)
         /\ Len(Append(b.answers, Answer(b.map, ls[n][2]))) = Len(b.answers) + 1
    BY <2>7, <2>9
  <2>12. g[n].answers \in Seq(Texts) /\ Len(g[n].answers) \in 0..n
    BY <2>6, <2>7, <2>11, <2>4
  <2> QED  BY <2>1, <2>10, <2>12
<1> QED  BY <1>1, <1>3 DEF g

\* The answers only grow.
LEMMA MeantGrows ==
    ASSUME NEW ls \in Seq(Line), \A n \in 1..Len(ls) : Len(ls[n]) = 3,
           NEW n \in 0..Len(ls)
    PROVE  IsPrefix(Meant(ls)[n].answers, Meant(ls)[Len(ls)].answers)
<1> DEFINE g == Meant(ls)
           A(m) == g[m].answers
           Holds(m) == Len(A(n)) <= Len(A(m)) /\ \A p \in 1..Len(A(n)) : A(m)[p] = A(n)[p]
           Bad == {m \in Nat : m \in n..Len(ls) /\ ~Holds(m)}
<1>1. Len(ls) \in Nat /\ n \in Nat /\ n <= Len(ls)
  BY LenProperties
<1>2. \A m \in 0..Len(ls) : A(m) \in Seq(Texts) /\ Len(A(m)) \in Nat
  <2>1. \A m \in 0..Len(ls) : Meant(ls)[m].answers \in Seq(Texts)
    BY MeantType
  <2>2. \A m \in 0..Len(ls) : A(m) \in Seq(Texts)
    BY <2>1
  <2> HIDE DEF A
  <2> QED  BY <2>2, LenProperties
<1>3. \A m \in 1..Len(ls) :
         A(m) = A(m - 1) \/ A(m) = Append(A(m - 1), Answer(g[m - 1].map, ls[m][2]))
  <2>1. \A m \in 0..Len(ls) : Meant(ls)[m] = MeantStep(ls, Meant(ls), m)
    BY <1>1, MeantIs
  <2> TAKE m \in 1..Len(ls)
  <2>2. g[m] = MeantStep(ls, g, m) /\ m # 0
    BY <2>1, <1>1
  <2> HIDE DEF g
  <2> QED  BY <2>2 DEF MeantStep
<1> HIDE DEF A
<1>4. Holds(n)
  BY <1>1, <1>2
<1>5. Bad = {}
  <2> SUFFICES ASSUME Bad # {} PROVE FALSE
    OBVIOUS
  <2> HIDE DEF Holds
  <2>1. PICK m \in Bad : \A j \in Bad : m <= j
    BY LeastNat
  <2>2. m # n
    BY <2>1, <1>4
  <2>3. m - 1 \in Nat /\ m - 1 \in n..Len(ls) /\ m - 1 \notin Bad /\ m \in 1..Len(ls)
        /\ m - 1 \in 0..Len(ls) /\ n \in 0..Len(ls)
    BY <2>1, <2>2, <1>1
  <2>4. Holds(m - 1)
    BY <2>3
  <2>5. /\ A(m - 1) \in Seq(Texts) /\ A(m) \in Seq(Texts) /\ Len(A(m - 1)) \in Nat
        /\ Len(A(m)) \in Nat /\ Len(A(n)) \in Nat
    <3>1. m \in 0..Len(ls)
      BY <2>3, <1>1
    <3> QED  BY <3>1, <2>3, <1>2
  <2>6. A(m) = A(m - 1) \/ \E x : A(m) = Append(A(m - 1), x)
    BY <2>3, <1>3
  <2>7. Len(A(m)) >= Len(A(m - 1)) /\ \A p \in 1..Len(A(m - 1)) : A(m)[p] = A(m - 1)[p]
    <3>1. CASE A(m) = A(m - 1)
      BY <3>1, <2>5
    <3>2. ASSUME NEW x, A(m) = Append(A(m - 1), x)
          PROVE  Len(A(m)) >= Len(A(m - 1)) /\ \A p \in 1..Len(A(m - 1)) : A(m)[p] = A(m - 1)[p]
      BY <3>2, <2>5
    <3> QED  BY <3>1, <3>2, <2>6
  <2>8. Holds(m)
    BY <2>4, <2>5, <2>7 DEF Holds
  <2> QED  BY <2>1, <2>8
<1>6. Holds(Len(ls))
  BY <1>1, <1>5
<1>7. n \in 0..Len(ls) /\ Len(ls) \in 0..Len(ls)
  BY <1>1
<1> DEFINE s == A(n)  t == A(Len(ls))
<1>8. /\ s \in Seq(Texts) /\ t \in Seq(Texts) /\ Len(s) \in Nat /\ Len(t) \in Nat
      /\ Len(s) <= Len(t) /\ \A p \in 1..Len(s) : t[p] = s[p]
  BY <1>2, <1>6, <1>7
<1> HIDE DEF s, t
<1>9. IsPrefix(s, t)
  <2>1. /\ SubSeq(s, 1, Len(s)) \in Seq(Texts) /\ SubSeq(t, 1, Len(s)) \in Seq(Texts)
        /\ Len(SubSeq(s, 1, Len(s))) = Len(s) /\ Len(SubSeq(t, 1, Len(s))) = Len(s)
        /\ \A p \in 1..Len(s) : SubSeq(s, 1, Len(s))[p] = s[p] /\ SubSeq(t, 1, Len(s))[p] = t[p]
    BY <1>8
  <2>2. SubSeq(s, 1, Len(s)) = SubSeq(t, 1, Len(s))
    BY <2>1, <1>8, SeqEqual
  <2> QED  BY <2>2, <1>8 DEF IsPrefix
<1> QED  BY <1>9 DEF s, t, A

--------------------------------------------------------------------------------
(* The answers *)

\* Every line is one that main.c is made for.
AllProper == \A n \in DOMAIN lines : Proper(lines[n])

\* The types of the file.
LEMMA LinesAre ==
    ASSUME Layout
    PROVE  DOMAIN lines = 1..Len(lines) /\ Len(lines) \in Nat /\ Len(text) \in Nat
  BY LenProperties DEF Layout

\* A call begins at the first field.
LEMMA ReadingBegins ==
    ASSUME Layout, NEW n \in 1..Len(lines), Proper(lines[n])
    PROVE  /\ start = Start(n) /\ pos = Start(n) /\ converted = 0 => Reading(n)
           /\ UNCHANGED <<lines, text>> /\ start' = Start(n) /\ pos' = Start(n) /\ converted' = 0
              => Reading(n)'
<1>1. FieldStart(n, 1) = Start(n)
  BY ProperIs
<1>2. start = Start(n) /\ pos = Start(n) /\ converted = 0 => Reading(n)
  BY <1>1 DEF Reading
<1>3. ASSUME UNCHANGED <<lines, text>>, start' = Start(n), pos' = Start(n), converted' = 0
      PROVE  Reading(n)'
  <2>1. FieldStart(n, 1)' = Start(n) /\ Start(n)' = Start(n)
    BY <1>1, <1>3, Unmoved
  <2> QED  BY <2>1, <1>3 DEF Reading
<1> QED  BY <1>2, <1>3

\* Reading is about the position, the arguments and how far fscanf is.
LEMMA ReadingStays ==
    ASSUME NEW n, Reading(n), UNCHANGED <<lines, text, pos, args, converted, start>>
    PROVE  Reading(n)'
<1>1. PICK f \in 1..3 : /\ start = Start(n) /\ converted = f - 1 /\ pos = FieldStart(n, f)
                        /\ \A g \in 1..(f - 1) : args[g] = lines[n][g]
  BY DEF Reading
<1>2. Start(n)' = Start(n) /\ FieldStart(n, f)' = FieldStart(n, f)
  BY Unmoved
<1> QED  BY <1>1, <1>2 DEF Reading

\* At the start no line has been carried out, and the stream stands at the first.
LEMMA AnswersInit == MainInit => AnswersInv
<1> SUFFICES ASSUME MainInit, AllProper PROVE CarriedOut(0) /\ 0 \in 0..Len(lines)
  BY DEF AnswersInv, AllProper
<1>1. Layout
  BY LayoutInit
<1>2. Len(lines) \in Nat /\ DOMAIN lines = 1..Len(lines)
  BY <1>1, LinesAre
<1>3. mainPc = "open" /\ pos = 0 /\ start = 0 /\ converted = 0
      /\ store = [k \in {} |-> <<>>] /\ answers = <<>>
  BY DEF MainInit
<1>4. Len(lines) > 0 => Reading(0 + 1)
  <2> SUFFICES ASSUME Len(lines) > 0 PROVE Reading(1)
    OBVIOUS
  <2>1. 1 \in 1..Len(lines) /\ Proper(lines[1])
    BY <1>2 DEF AllProper
  <2>2. Start(1) = 0
    BY <1>1 DEF Layout
  <2> QED  BY <2>1, <2>2, <1>1, <1>3, ReadingBegins
<1>5. Len(lines) = 0 => pos = Len(text)
  BY <1>1, <1>3 DEF Layout
<1>6. Meant(lines)[0] = [map |-> [k \in {} |-> <<>>], answers |-> <<>>]
  <2>1. 0 \in 0..Len(lines)
    BY <1>2
  <2>2. Meant(lines)[0] = MeantStep(lines, Meant(lines), 0)
    BY <2>1, <1>2, MeantIs
  <2> QED  BY <2>2 DEF MeantStep
<1> QED  BY <1>2, <1>3, <1>4, <1>5, <1>6 DEF CarriedOut

\* What one more line means.
LEMMA MeantNext ==
    ASSUME Layout, NEW n \in 0..Len(lines), n < Len(lines)
    PROVE  LET before == Meant(lines)[n]
               line == lines[n + 1]
               after == Meant(lines)[n + 1]
           IN  /\ line[1] = <<"set">> =>
                    /\ after.map = [k \in DOMAIN before.map \cup {line[2]} |->
                                       IF k = line[2] THEN line[3] ELSE before.map[k]]
                    /\ after.answers = before.answers
               /\ line[1] = <<"get">> =>
                    /\ after.map = before.map
                    /\ after.answers = Append(before.answers, Answer(before.map, line[2]))
               /\ line[1] \notin {<<"set">>, <<"get">>} =>
                    after.map = before.map /\ after.answers = before.answers
<1> DEFINE g == Meant(lines)  b == g[n]  line == lines[n + 1]
<1>1. n + 1 \in 0..Len(lines) /\ n + 1 # 0 /\ n + 1 - 1 = n /\ Len(lines) \in Nat
  BY LinesAre
<1>2. g[n + 1] = MeantStep(lines, g, n + 1)
  BY <1>1, MeantIs
<1> HIDE DEF g
<1>3. /\ g[n + 1].map = IF line[1] = <<"set">>
                          THEN [k \in DOMAIN b.map \cup {line[2]} |->
                                   IF k = line[2] THEN line[3] ELSE b.map[k]]
                          ELSE b.map
      /\ g[n + 1].answers = IF line[1] = <<"get">>
                              THEN Append(b.answers, Answer(b.map, line[2]))
                              ELSE b.answers
  BY <1>1, <1>2 DEF MeantStep
<1>4. <<"set">> # <<"get">>
  OBVIOUS
<1> HIDE DEF b, line
<1>5. line[1] \notin {<<"set">>, <<"get">>} => line[1] # <<"set">> /\ line[1] # <<"get">>
  OBVIOUS
<1>6. line[1] = <<"set">> => line[1] # <<"get">>
  BY <1>4
<1>7. line[1] = <<"get">> => line[1] # <<"set">>
  BY <1>4
<1> QED  BY <1>3, <1>5, <1>6, <1>7 DEF g, b, line

\* main turns to the line behind the one it has carried out.
LEMMA TurnToNext ==
    ASSUME Layout, AllProper, NEW n \in 0..Len(lines), n < Len(lines),
           pos = Begin(n + 2), Turn
    PROVE  \/ n + 1 < Len(lines) /\ Reading(n + 1 + 1)'
           \/ n + 1 = Len(lines) /\ pos' = Len(text)' /\ converted' = 0
<1>1. /\ UNCHANGED <<lines, text, pos>> /\ converted' = 0 /\ start' = pos
      /\ Len(lines) \in Nat /\ DOMAIN lines = 1..Len(lines)
  BY LinesAre DEF Turn, fileVars
<1>2. CASE n + 1 < Len(lines)
  <2> DEFINE m == n + 1 + 1
  <2>1. m \in 1..Len(lines) /\ n + 2 = m /\ m <= Len(lines)
    BY <1>1, <1>2
  <2> HIDE DEF m
  <2>2. Proper(lines[m]) /\ Begin(m) = Start(m)
    BY <2>1, <1>1 DEF AllProper, Begin
  <2>3. start' = Start(m) /\ pos' = Start(m)
    BY <2>1, <2>2, <1>1
  <2>4. Reading(m)'
    BY <2>1, <2>2, <2>3, <1>1, ReadingBegins, Zenon
  <2> QED  BY <2>4, <1>2 DEF m
<1>3. CASE n + 1 = Len(lines)
  <2>1. ~(n + 2 <= Len(lines))
    BY <1>1, <1>3
  <2> QED  BY <2>1, <1>1, <1>3, Zenon DEF Begin
<1>4. n + 1 < Len(lines) \/ n + 1 = Len(lines)
  <2> DEFINE L == Len(lines)
  <2>1. L \in Nat /\ n \in 0..L /\ n < L
    BY <1>1
  <2> HIDE DEF L
  <2>2. n + 1 < L \/ n + 1 = L
    BY <2>1
  <2> QED  BY <2>2 DEF L
<1> QED  BY <1>2, <1>3, <1>4

\* Where n lines have been carried out, a step of main leaves n of them or n + 1.
LEMMA AnswersStep ==
    ASSUME Layout, DriverTypeOK, AllProper, NEW n \in 0..Len(lines), CarriedOut(n),
           [MainNext]_mainVars
    PROVE  \E m \in 0..Len(lines) : CarriedOut(m)'
<1> DEFINE L == Len(lines)  M == Meant(lines)
<1>1. L \in Nat /\ DOMAIN lines = 1..L /\ L <= MaxLines
  BY LinesAre DEF Layout
<1>2. /\ mainPc \in {"open", "failed", "scan"} =>
         \/ n < L /\ Reading(n + 1)
         \/ n = L /\ pos = Len(text) /\ converted = 0
      /\ mainPc = "act" => n < L /\ args = lines[n + 1] /\ pos = Begin(n + 2)
      /\ mainPc \in {"close", "done"} => n = L
      /\ ~lost => store = M[n].map /\ answers = M[n].answers
  BY DEF CarriedOut
<1>3. n < L => n + 1 \in 1..L /\ Proper(lines[n + 1])
  BY <1>1 DEF AllProper
<1>4. ASSUME NEW m \in 0..L, UNCHANGED <<lines, text>>,
             mainPc' \in {"open", "failed", "scan"} =>
               \/ m < L /\ Reading(m + 1)'
               \/ m = L /\ pos' = Len(text)' /\ converted' = 0,
             mainPc' = "act" => m < L /\ args' = lines[m + 1] /\ pos' = Begin(m + 2),
             mainPc' \in {"close", "done"} => m = L,
             ~lost' => store' = M[m].map /\ answers' = M[m].answers
      PROVE  CarriedOut(m)'
  <2>1. Meant(lines)' = Meant(lines) /\ Begin(m + 2)' = Begin(m + 2)
    BY <1>4, Unmoved
  <2> QED  BY <2>1, <1>4 DEF CarriedOut
<1>5. Reading(n + 1) /\ UNCHANGED <<lines, text, pos, args, converted, start>> => Reading(n + 1)'
  BY ReadingStays, Zenon
<1> HIDE DEF M
<1>6. CASE Open
  <2>1. /\ mainPc = "open" /\ mainPc' \in {"scan", "failed"}
        /\ UNCHANGED <<lines, text, pos, args, converted, start, store, answers, lost>>
    BY <1>6 DEF Open, scanVars, storeVars
  <2> QED  BY <2>1, <1>2, <1>4, <1>5
<1>7. CASE Dies
  <2>1. mainPc' = "died" /\ UNCHANGED <<lines, text, store, answers, lost>>
    BY <1>7 DEF Dies, fileVars, storeVars
  <2> QED  BY <2>1, <1>2, <1>4
<1>8. CASE Convert
  <2>1. /\ mainPc = "scan" /\ Taken(converted + 1) > pos
        /\ UNCHANGED <<lines, text, store, answers, lost>>
    BY <1>8, ConvertIs
  <2>2. ~(n = L /\ pos = Len(text) /\ converted = 0)
    <3> SUFFICES ASSUME pos = Len(text), converted = 0 PROVE FALSE
      OBVIOUS
    <3>1. converted + 1 \in 1..3 /\ pos \in 0..Len(text)
      BY DEF DriverTypeOK
    <3>2. Taken(converted + 1) \in Nat /\ pos \in Nat /\ Taken(converted + 1) <= Len(text)
      BY <3>1, TakenIs
    <3> QED  BY <3>2, <2>1
  <2>3. n < L /\ Reading(n + 1)
    BY <2>1, <2>2, <1>2
  <2>4. \/ mainPc' = "scan" /\ Reading(n + 1)'
        \/ mainPc' = "act" /\ args' = lines[n + 1] /\ pos' = Skipped(LineEnd(n + 1))
    BY <2>3, <1>3, <1>8, ReadConvert
  <2>5. Skipped(LineEnd(n + 1)) = Begin(n + 2)
    <3>1. n + 1 < L => Proper(lines[n + 1 + 1])
      BY <1>1 DEF AllProper
    <3>2. n + 1 + 1 = n + 2
      BY <1>1
    <3> QED  BY <3>1, <3>2, <2>3, <1>3, SkippedToNext
  <2> QED  BY <2>1, <2>3, <2>4, <2>5, <1>2, <1>4
<1>9. CASE ConvertFails
  <2>1. mainPc = "scan" /\ mainPc' = (IF pos = Len(text) /\ converted = 0 THEN "close" ELSE "act")
        /\ UNCHANGED <<lines, text, store, answers, lost>>
    BY <1>9 DEF ConvertFails, fileVars, storeVars
  <2>2. ~(n < L /\ Reading(n + 1))
    BY <1>3, <1>9, ReadNotFails
  <2>3. n = L /\ mainPc' = "close"
    BY <2>1, <2>2, <1>2
  <2> QED  BY <2>1, <2>3, <1>2, <1>4
<1>10. ASSUME mainPc = "act", Turn
       PROVE  /\ n < L /\ args = lines[n + 1] /\ mainPc' = "scan" /\ UNCHANGED <<lines, text>>
              /\ n + 1 \in 0..L
              /\ \/ n + 1 < L /\ Reading(n + 1 + 1)'
                 \/ n + 1 = L /\ pos' = Len(text)' /\ converted' = 0
  <2>1. n < L /\ args = lines[n + 1] /\ pos = Begin(n + 2)
    BY <1>2, <1>10
  <2>2. mainPc' = "scan" /\ UNCHANGED <<lines, text>>
    BY <1>10 DEF Turn, fileVars
  <2>3. n + 1 \in 0..L
    BY <1>1, <2>1
  <2> QED  BY <2>1, <2>2, <2>3, <1>10, TurnToNext
<1>11. ASSUME mainPc = "act", Turn,
              ~lost' => store' = M[n + 1].map /\ answers' = M[n + 1].answers
       PROVE  CarriedOut(n + 1)' /\ n + 1 \in 0..L
  BY <1>4, <1>10, <1>11
<1>12. CASE Set
  <2>1. /\ mainPc = "act" /\ args[1] = <<"set">> /\ Turn /\ answers' = answers
        /\ \/ /\ store' = [k \in DOMAIN store \cup {args[2]} |->
                              IF k = args[2] THEN args[3] ELSE store[k]]
              /\ lost' = lost
           \/ lost' = TRUE
    BY <1>12 DEF Set
  <2>2. n < L /\ args = lines[n + 1]
    BY <2>1, <1>10
  <2>3. /\ M[n + 1].map = [k \in DOMAIN M[n].map \cup {args[2]} |->
                              IF k = args[2] THEN args[3] ELSE M[n].map[k]]
        /\ M[n + 1].answers = M[n].answers
    BY <2>1, <2>2, MeantNext DEF M
  <2>4. ~lost' => store' = M[n + 1].map /\ answers' = M[n + 1].answers
    BY <2>1, <2>3, <1>2
  <2> QED  BY <2>1, <2>4, <1>11
<1>13. CASE Get
  <2>1. /\ mainPc = "act" /\ args[1] = <<"get">> /\ Turn /\ store' = store /\ lost' = lost
        /\ answers' = IF Len(answers) < MaxAnswers THEN Append(answers, Answer(store, args[2]))
                                                   ELSE answers
    BY <1>13 DEF Get
  <2>2. n < L /\ args = lines[n + 1]
    BY <2>1, <1>10
  <2>3. /\ M[n + 1].map = M[n].map
        /\ M[n + 1].answers = Append(M[n].answers, Answer(M[n].map, args[2]))
    BY <2>1, <2>2, MeantNext DEF M
  <2>4. Len(M[n].answers) < MaxAnswers
    <3>1. lines \in Seq(Line) /\ \A m \in 1..Len(lines) : Len(lines[m]) = 3
      BY <1>1 DEF AllProper, Proper, Layout
    <3>2. Len(M[n].answers) \in 0..n
      BY <3>1, MeantType DEF M
    <3> QED  BY <3>2, <2>2, <1>1, BoundAssumption
  <2>5. ~lost' => store' = M[n + 1].map /\ answers' = M[n + 1].answers
    BY <2>1, <2>3, <2>4, <1>2
  <2> QED  BY <2>1, <2>5, <1>11
<1>14. CASE OtherCommand
  <2>1. /\ mainPc = "act" /\ args[1] \notin {<<"set">>, <<"get">>} /\ Turn
        /\ UNCHANGED <<store, answers, lost>>
    BY <1>14 DEF OtherCommand, storeVars
  <2>2. n < L /\ args = lines[n + 1]
    BY <2>1, <1>10
  <2>3. M[n + 1].map = M[n].map /\ M[n + 1].answers = M[n].answers
    BY <2>1, <2>2, MeantNext DEF M
  <2>4. ~lost' => store' = M[n + 1].map /\ answers' = M[n + 1].answers
    BY <2>1, <2>3, <1>2
  <2> QED  BY <2>1, <2>4, <1>11
<1>15. CASE Close
  <2>1. /\ mainPc = "close" /\ mainPc' = "done"
        /\ UNCHANGED <<lines, text, store, answers, lost>>
    BY <1>15 DEF Close, fileVars, storeVars
  <2> QED  BY <2>1, <1>2, <1>4
<1>16. CASE UNCHANGED mainVars
  <2>1. UNCHANGED <<lines, text, mainPc, pos, args, converted, start, store, answers, lost>>
    BY <1>16 DEF mainVars, fileVars, scanVars, storeVars
  <2> QED  BY <2>1, <1>2, <1>4, <1>5
<1> QED  BY <1>6, <1>7, <1>8, <1>9, <1>12, <1>13, <1>14, <1>15, <1>16 DEF MainNext, Main

\* Every step of main keeps AnswersInv.
LEMMA AnswersInvStep ==
    Layout /\ DriverTypeOK /\ AnswersInv /\ [MainNext]_mainVars => AnswersInv'
<1> SUFFICES ASSUME Layout, DriverTypeOK, AnswersInv, [MainNext]_mainVars, AllProper'
             PROVE  \E m \in 0..Len(lines)' : CarriedOut(m)'
  BY DEF AnswersInv, AllProper
<1>1. UNCHANGED <<lines, text>>
  BY FileStays
<1>2. AllProper
  BY <1>1, Unmoved DEF AllProper
<1>3. PICK n \in 0..Len(lines) : CarriedOut(n)
  BY <1>2 DEF AnswersInv, AllProper
<1> QED  BY <1>1, <1>2, <1>3, AnswersStep

\* When all lines have been carried out, the answers are all of them; before, some of them.
LEMMA AnswersFollow == Layout /\ AnswersInv => AnswersRight
<1> SUFFICES ASSUME Layout, AnswersInv, AllProper, ~lost
             PROVE  /\ IsPrefix(answers, Meant(lines)[Len(lines)].answers)
                    /\ mainPc = "done" => answers = Meant(lines)[Len(lines)].answers
  BY DEF AnswersRight, AllProper
<1>1. PICK n \in 0..Len(lines) : CarriedOut(n)
  BY DEF AnswersInv, AllProper
<1>2. answers = Meant(lines)[n].answers /\ (mainPc = "done" => n = Len(lines))
  BY <1>1 DEF CarriedOut
<1>3. lines \in Seq(Line) /\ \A m \in 1..Len(lines) : Len(lines[m]) = 3
  BY LinesAre DEF AllProper, Proper, Layout
<1>4. IsPrefix(Meant(lines)[n].answers, Meant(lines)[Len(lines)].answers)
  BY <1>3, MeantGrows
<1> QED  BY <1>2, <1>4

--------------------------------------------------------------------------------
(* What a malformed line costs *)

\* A conversion that begins before the end of a short proper line.
LEMMA ConvertInside ==
    ASSUME Layout, DriverTypeOK, NEW n \in 1..Len(lines), Proper(lines[n]), Short(lines[n]),
           Inside(n), pos <= LineEnd(n), Convert
    PROVE  \/ pos' <= Start(n) + Len(lines[n][1])
           \/ mainPc' = "scan" /\ converted' \in {1, 2} /\ pos' = FieldStart(n, 2)
           \/ mainPc' = "scan" /\ converted' = 2 /\ pos' = FieldStart(n, 3)
           \/ mainPc' = "act" /\ pos' = Skipped(LineEnd(n))
<1> DEFINE s == Start(n)  a == Len(lines[n][1])  e == LineEnd(n)
<1>1. /\ s \in Nat /\ a \in Nat /\ e \in Nat /\ 1 <= a /\ s + a < e
      /\ text[s + a + 1] = Comma /\ FieldStart(n, 2) = s + a + 1
      /\ FieldStart(n, 2) < e
  <2>1. /\ s \in Nat /\ a \in Nat /\ 1 <= a /\ FieldStart(n, 2) = s + a + 1
        /\ text[s + a + 1] = Comma
    BY ProperIs
  <2>2. /\ FieldStart(n, 2) \in Nat /\ Len(lines[n][2]) \in Nat /\ 1 <= Len(lines[n][2])
        /\ FieldStart(n, 2) + Len(lines[n][2]) <= e
    BY FieldIs
  <2>3. e \in Nat
    BY LineIs
  <2>4. FieldStart(n, 2) < e
    BY <2>2, <2>3
  <2> HIDE DEF s, a, e
  <2> QED  BY <2>1, <2>3, <2>4
<1>2. /\ e <= Len(text) /\ Len(text) \in Nat /\ e - s <= Width[3] /\ Width[3] \in Nat
      /\ \A r \in (s + 1)..e : text[r] # Newline
      /\ e < Len(text) => text[e + 1] = Newline
  <2>1. /\ e <= Len(text) /\ Len(text) \in Nat /\ e = s + Len(Render(lines[n]))
        /\ \A r \in (s + 1)..e : text[r] # Newline
        /\ e < Len(text) => text[e + 1] = Newline /\ Len(Render(lines[n])) \in Nat
    BY LineIs
  <2>2. Len(Render(lines[n])) \in Nat
    BY LineIs
  <2>3. Len(Render(lines[n])) <= Width[3] /\ Width[3] \in Nat
    BY WidthAssumption DEF Short, Width
  <2> QED  BY <2>1, <2>2, <2>3, <1>1
<1>3. Stop[1] = Comma /\ Stop[2] = Comma /\ Stop[3] = Newline
  BY DEF Stop
<1>4. /\ converted \in 0..2 /\ pos \in 0..Len(text) /\ pos \in Nat /\ pos <= e
      /\ mainPc = "scan"
  BY ConvertIs DEF DriverTypeOK
<1>5. /\ Taken(converted + 1) > pos /\ converted' = converted + 1
      /\ pos' = IF converted + 1 = 3 THEN Skipped(Taken(converted + 1))
                ELSE IF converted + 1 < 3 /\ At(Taken(converted + 1), Stop[converted + 1])
                       THEN Taken(converted + 1) + 1 ELSE Taken(converted + 1)
      /\ mainPc' = IF converted + 1 < 3 /\ At(Taken(converted + 1), Stop[converted + 1])
                     THEN "scan" ELSE "act"
  BY ConvertIs
<1>6. /\ Taken(converted + 1) \in Nat /\ Taken(converted + 1) <= Len(text)
  <2>1. converted + 1 \in 1..3
    BY <1>4
  <2> QED  BY <2>1, <1>4, TakenIs
<1>7. pos # Len(text)
  BY <1>2, <1>4, <1>5, <1>6
<1>8. \/ pos <= s + a
      \/ converted \in {1, 2} /\ pos = FieldStart(n, 2)
      \/ converted = 2 /\ pos = FieldStart(n, 3)
  <2>1. pos < s \/ pos \in s..e
    BY <1>1, <1>4
  <2>2. pos \in s..e => \/ pos <= s + a
                        \/ converted \in {1, 2} /\ pos = FieldStart(n, 2)
                        \/ converted = 2 /\ pos = FieldStart(n, 3)
    BY <1>7 DEF Inside, LineEnd
  <2> HIDE DEF s, a, e
  <2> QED  BY <2>1, <2>2, <1>1, <1>4
<1>9. ASSUME converted \in {0, 1}, pos <= s + a
      PROVE  \/ pos' <= s + a
             \/ mainPc' = "scan" /\ converted' \in {1, 2} /\ pos' = FieldStart(n, 2)
  <2> DEFINE end == Taken(converted + 1)
  <2>1. end <= s + a
    <3>1. converted + 1 \in 1..3 /\ Stop[converted + 1] = Comma
      <4>1. converted + 1 = 1 \/ converted + 1 = 2
        BY <1>9
      <4>2. \A c \in {1, 2} : c \in 1..3 /\ Stop[c] = Comma
        BY <1>3
      <4> QED  BY <4>1, <4>2
    <3>2. s + a \in Nat /\ s + a < Len(text)
      BY <1>1, <1>2
    <3>3. text[s + a + 1] = Stop[converted + 1]
      BY <3>1, <1>1
    <3> HIDE DEF s, a, e
    <3> QED  BY <3>1, <3>2, <3>3, <1>4, <1>9, TakenBefore
  <2>2. converted + 1 # 3 /\ converted + 1 < 3 /\ converted' \in {1, 2}
    BY <1>9, <1>5
  <2>3. pos' = end \/ (mainPc' = "scan" /\ pos' = end + 1)
    BY <2>2, <1>5
  <2> HIDE DEF end, s, a, e
  <2>4. end <= s + a /\ end \in Nat /\ (end + 1 <= s + a \/ end + 1 = s + a + 1)
    BY <2>1, <1>1, <1>6 DEF end
  <2> QED  BY <2>2, <2>3, <2>4, <1>1
<1>10. ASSUME converted = 1, pos = FieldStart(n, 2)
       PROVE  mainPc' = "scan" /\ converted' = 2 /\ pos' = FieldStart(n, 3)
  <2>1. At(Taken(2), Stop[2]) /\ Taken(2) + 1 = FieldStart(n, 2 + 1)
    BY <1>10, TakesField
  <2>2. converted + 1 = 2
    BY <1>10
  <2> QED  BY <2>1, <2>2, <1>5
<1>11. ASSUME converted = 2, pos < s
       PROVE  pos' <= s
  <2>1. n # 1
    BY <1>11, <1>4 DEF Layout
  <2>2. n - 1 \in 1..Len(lines) /\ n - 1 < Len(lines) /\ n - 1 + 1 = n
    BY <2>1, LinesAre
  <2>3. s = LineEnd(n - 1) + 1 /\ LineEnd(n - 1) \in Nat /\ LineEnd(n - 1) < Len(text)
        /\ text[LineEnd(n - 1) + 1] = Newline
    BY <2>2, LineIs DEF Layout
  <2> DEFINE f == LineEnd(n - 1)
  <2> HIDE DEF f, s, a, e
  <2>4. pos <= f
    BY <2>3, <1>4, <1>11 DEF f
  <2>5. Taken(3) <= f
    BY <2>3, <2>4, <1>3, <1>4, TakenBefore DEF f
  <2>6. converted + 1 = 3
    BY <1>11
  <2>7. Taken(3) \in 0..s /\ pos' = Skipped(Taken(3))
    BY <2>3, <2>5, <2>6, <1>5, <1>6 DEF f
  <2>8. Skipped(Taken(3)) <= s
    BY <2>7, SkippedBefore DEF s
  <2> QED  BY <2>7, <2>8
<1>12. ASSUME converted = 2, s <= pos
       PROVE  mainPc' = "act" /\ pos' = Skipped(e)
  <2>1. e <= pos + Width[3]
    BY <1>1, <1>2, <1>4, <1>12
  <2>2. \A r \in (pos + 1)..e : text[r] # Stop[3]
    BY <1>1, <1>2, <1>3, <1>4, <1>12
  <2>3. e < Len(text) => text[e + 1] = Stop[3]
    BY <1>2, <1>3
  <2> HIDE DEF s, a, e
  <2>4. Taken(3) = e
    BY <2>1, <2>2, <2>3, <1>1, <1>2, <1>4, TakenAt
  <2>5. converted + 1 = 3 /\ ~(converted + 1 < 3)
    BY <1>12
  <2> QED  BY <2>4, <2>5, <1>5
<1> HIDE DEF s, a, e
<1>13. CASE converted \in {0, 1}
  BY <1>8, <1>9, <1>10, <1>13 DEF s, a
<1>14. CASE converted = 2
  <2>1. pos < s \/ s <= pos
    BY <1>1, <1>4
  <2>2. pos' \in Nat
    <3>1. pos' \in 0..Len(text)' /\ UNCHANGED text
      BY ConvertType, ConvertIs DEF DriverTypeOK
    <3> QED  BY <3>1, <1>2
  <2>3. pos' <= s => pos' <= s + a
    BY <2>2, <1>1
  <2> QED  BY <2>1, <2>3, <1>11, <1>12, <1>14 DEF s, a, e
<1> QED  BY <1>4, <1>13, <1>14

\* Behind a conversion the stream is further on.
LEMMA ConvertMoves == ASSUME Layout, DriverTypeOK, Convert PROVE pos' \in Nat /\ pos' > pos
<1> DEFINE end == Taken(converted + 1)
<1>1. converted + 1 \in 1..3 /\ pos \in 0..Len(text) /\ pos \in Nat
  BY DEF DriverTypeOK, Convert
<1>2. end \in Nat /\ end <= Len(text) /\ Len(text) \in Nat
  BY <1>1, TakenIs
<1>3. end > pos /\ (pos' = Skipped(end) \/ pos' = end + 1 \/ pos' = end)
  BY ConvertIs
<1> HIDE DEF end
<1>4. end \in 0..Len(text)
  BY <1>2
<1>5. Skipped(end) \in Nat /\ end <= Skipped(end)
  BY <1>4, SkippedIs
<1> QED  BY <1>1, <1>2, <1>3, <1>5

\* Behind a short proper line the newline is skipped, if there is one.
LEMMA SkippedBehind ==
    ASSUME Layout, NEW n \in 1..Len(lines)
    PROVE  Skipped(LineEnd(n)) > LineEnd(n) \/ Skipped(LineEnd(n)) = Len(text)
<1> DEFINE e == LineEnd(n)  q == Skipped(e)
<1>1. /\ e \in Nat /\ e <= Len(text) /\ Len(text) \in Nat
      /\ e < Len(text) => text[e + 1] = Newline
  BY LineIs
<1>2. e \in 0..Len(text)
  BY <1>1
<1>3. q \in Nat /\ e <= q /\ (q = Len(text) \/ text[q + 1] # Newline)
  BY <1>2, SkippedIs
<1> HIDE DEF e, q
<1>4. q = e => q = Len(text)
  BY <1>1, <1>3
<1>5. q > e \/ q = Len(text)
  BY <1>1, <1>3, <1>4
<1> QED  BY <1>5 DEF e, q

\* Inside a line a call of fscanf does not end with nothing but at the file's end.
LEMMA FailsOutside ==
    ASSUME Layout, DriverTypeOK, NEW n \in 1..Len(lines), Proper(lines[n]), ConvertFails
    PROVE  /\ converted = 1 => pos # FieldStart(n, 2)
           /\ converted = 2 => pos # FieldStart(n, 2) /\ pos # FieldStart(n, 3)
<1>1. Taken(converted + 1) = pos /\ pos \in 0..Len(text)
  BY DEF ConvertFails, DriverTypeOK
<1>2. ASSUME NEW f \in {2, 3}, converted = f - 1, pos = FieldStart(n, f) PROVE FALSE
  <2>1. converted + 1 = f /\ f \in 1..3
    BY <1>2
  <2>2. Taken(f) > pos /\ pos \in Nat
    BY <2>1, <1>2, TakesField, FieldIs
  <2> QED  BY <2>1, <2>2, <1>1
<1>3. ASSUME converted = 2, pos = FieldStart(n, 2) PROVE FALSE
  <2>1. Taken(3) = pos
    BY <1>1, <1>3
  <2>2. /\ Width[3] \in Nat \ {0} /\ pos \in Nat /\ Len(text) \in Nat
        /\ Taken(3) = pos + Width[3] \/ Taken(3) = Len(text) \/ text[Taken(3) + 1] = Newline
    BY <1>1, TakenIs DEF Stop
  <2>3. /\ Start(n) <= pos /\ Len(lines[n][2]) \in Nat /\ 1 <= Len(lines[n][2])
        /\ pos + Len(lines[n][2]) <= LineEnd(n)
    BY <1>3, FieldIs
  <2>4. /\ Start(n) \in Nat /\ LineEnd(n) \in Nat /\ LineEnd(n) <= Len(text)
        /\ \A r \in (Start(n) + 1)..LineEnd(n) : text[r] # Newline
    BY LineIs
  <2> DEFINE s == Start(n)  e == LineEnd(n)  b == Len(lines[n][2])
  <2>5. s \in Nat /\ e \in Nat /\ s <= pos /\ b \in Nat /\ 1 <= b /\ pos + b <= e /\ e <= Len(text)
    BY <2>3, <2>4
  <2> HIDE DEF s, e, b
  <2>6. pos + 1 \in (s + 1)..e /\ pos # Len(text)
    BY <2>2, <2>5
  <2>7. text[pos + 1] # Newline
    BY <2>4, <2>6 DEF s, e
  <2>8. pos # pos + Width[3]
    BY <2>2
  <2> QED  BY <2>1, <2>2, <2>6, <2>7, <2>8
<1>4. converted = 1 => pos # FieldStart(n, 2)
  BY <1>2
<1>5. converted = 2 => pos # FieldStart(n, 3)
  BY <1>2
<1> QED  BY <1>3, <1>4, <1>5

\* Inside a line nothing changes while the stream stands still.
LEMMA InsideStays ==
    ASSUME NEW n, Inside(n), UNCHANGED <<lines, text, pos>>,
           mainPc \in {"scan", "died"} => mainPc' \in {"scan", "died"} /\ converted' = converted
    PROVE  Inside(n)'
<1>1. /\ Start(n)' = Start(n) /\ FieldStart(n, 2)' = FieldStart(n, 2)
      /\ FieldStart(n, 3)' = FieldStart(n, 3)
  BY Unmoved
<1>2. /\ (Start(n) + Len(lines[n][1]))' = Start(n) + Len(lines[n][1])
      /\ (Start(n) + Len(Render(lines[n])))' = Start(n) + Len(Render(lines[n]))
  BY <1>1
<1> QED  BY <1>1, <1>2 DEF Inside

\* At the start the stream stands before every line's first comma.
LEMMA InsideInit == MainInit => InsideInv
<1> SUFFICES ASSUME MainInit, NEW n \in DOMAIN lines PROVE Inside(n)
  BY DEF InsideInv
<1>1. Layout
  BY LayoutInit
<1>2. n \in 1..Len(lines)
  BY <1>1, LinesAre
<1>3. Start(n) \in Nat /\ lines[n] \in Line
  BY <1>1, <1>2, LineIs
<1>4. Len(lines[n][1]) \in Nat
  BY <1>3, FieldType
<1>5. pos = 0
  BY DEF MainInit
<1> QED  BY <1>3, <1>4, <1>5 DEF Inside

\* What a conversion leaves the stream at, of a line it is inside or has passed.
LEMMA InsideConvert ==
    ASSUME Layout, DriverTypeOK, NEW n \in 1..Len(lines), Proper(lines[n]), Short(lines[n]),
           Inside(n), Convert
    PROVE  Inside(n)'
<1>1. UNCHANGED <<lines, text>>
  BY ConvertIs
<1>2. /\ Start(n)' = Start(n) /\ FieldStart(n, 2)' = FieldStart(n, 2)
      /\ FieldStart(n, 3)' = FieldStart(n, 3)
  BY <1>1, Unmoved
<1>3. /\ (Start(n) + Len(lines[n][1]))' = Start(n) + Len(lines[n][1])
      /\ (Start(n) + Len(Render(lines[n])))' = LineEnd(n)
  BY <1>1, <1>2 DEF LineEnd
<1>4. pos' \in Nat /\ pos' > pos /\ pos \in Nat /\ LineEnd(n) \in Nat
  BY ConvertMoves, LineIs DEF DriverTypeOK
<1>5. \/ pos' > LineEnd(n)
      \/ pos' <= Start(n) + Len(lines[n][1])
      \/ mainPc' = "scan" /\ converted' \in {1, 2} /\ pos' = FieldStart(n, 2)
      \/ mainPc' = "scan" /\ converted' = 2 /\ pos' = FieldStart(n, 3)
      \/ pos' = Len(text)
  <2>1. CASE pos <= LineEnd(n)
    BY <2>1, ConvertInside, SkippedBehind
  <2>2. CASE ~(pos <= LineEnd(n))
    BY <2>2, <1>4
  <2> QED  BY <2>1, <2>2
<1>6. pos' > LineEnd(n) => pos' \notin Start(n)..LineEnd(n)
  BY <1>4
<1> QED  BY <1>1, <1>2, <1>3, <1>5, <1>6 DEF Inside

\* Every step of main keeps InsideInv.
LEMMA InsideStep == Layout /\ DriverTypeOK /\ InsideInv /\ [MainNext]_mainVars => InsideInv'
<1> SUFFICES ASSUME Layout, DriverTypeOK, InsideInv, [MainNext]_mainVars,
                    NEW n \in DOMAIN lines', Proper(lines[n])', Short(lines[n])'
             PROVE  Inside(n)'
  BY DEF InsideInv
<1>1. UNCHANGED <<lines, text>>
  BY FileStays
<1>2. n \in 1..Len(lines) /\ Proper(lines[n]) /\ Short(lines[n])
  BY <1>1, LinesAre, Unmoved DEF Short
<1>3. Inside(n)
  BY <1>1, <1>2 DEF InsideInv
<1>4. CASE Open
  BY <1>1, <1>3, <1>4, InsideStays DEF Open, scanVars
<1>5. CASE Dies
  BY <1>1, <1>3, <1>5, InsideStays DEF Dies, scanVars
<1>6. CASE Convert
  BY <1>2, <1>3, <1>6, InsideConvert
<1>7. CASE ConvertFails
  <2>1. UNCHANGED pos
    BY <1>7 DEF ConvertFails, scanVars
  <2>2. (Start(n) + Len(lines[n][1]))' = Start(n) + Len(lines[n][1])
        /\ (Start(n) + Len(Render(lines[n])))' = Start(n) + Len(Render(lines[n]))
        /\ Start(n)' = Start(n)
    BY <1>1, Unmoved
  <2>3. /\ converted = 1 => pos # FieldStart(n, 2)
        /\ converted = 2 => pos # FieldStart(n, 2) /\ pos # FieldStart(n, 3)
    BY <1>2, <1>7, FailsOutside
  <2> QED  BY <2>1, <2>2, <2>3, <1>1, <1>3 DEF Inside
<1>8. CASE Set
  BY <1>1, <1>3, <1>8, InsideStays DEF Set, Turn
<1>9. CASE Get
  BY <1>1, <1>3, <1>9, InsideStays DEF Get, Turn
<1>10. CASE OtherCommand
  BY <1>1, <1>3, <1>10, InsideStays DEF OtherCommand, Turn
<1>11. CASE Close
  BY <1>1, <1>3, <1>11, InsideStays DEF Close, scanVars
<1>12. CASE UNCHANGED mainVars
  BY <1>1, <1>3, <1>12, InsideStays DEF mainVars, scanVars
<1> QED  BY <1>4, <1>5, <1>6, <1>7, <1>8, <1>9, <1>10, <1>11, <1>12 DEF MainNext, Main

\* At the start every promised line is ahead, or is the one fscanf begins with.
LEMMA PromisedInit == MainInit => PromisedInv
<1> SUFFICES ASSUME MainInit, NEW n \in DOMAIN lines, Promised(n) PROVE Kept(n)
  BY DEF PromisedInv
<1>1. Layout
  BY LayoutInit
<1>2. n \in 1..Len(lines) /\ Proper(lines[n]) /\ Len(lines) \in Nat
  BY <1>1, LinesAre DEF Promised
<1>3. mainPc = "open" /\ pos = 0 /\ start = 0 /\ converted = 0
  BY DEF MainInit
<1>4. CASE n = 1
  <2>1. Start(n) = 0
    BY <1>1, <1>2, <1>4 DEF Layout
  <2>2. Reading(n)
    BY <2>1, <1>1, <1>2, <1>3, ReadingBegins
  <2> QED  BY <2>2, <1>3 DEF Kept
<1>5. CASE n # 1
  <2>1. n - 1 \in 1..Len(lines) /\ n - 1 < Len(lines) /\ n - 1 + 1 = n
    BY <1>2, <1>5
  <2>2. Start(n) = LineEnd(n - 1) + 1 /\ LineEnd(n - 1) \in Nat
    BY <2>1, <1>1, LineIs DEF Layout
  <2> QED  BY <2>2, <1>3 DEF Kept
<1> QED  BY <1>4, <1>5

\* From before a promised line the stream does not come behind its start but by reading it.
LEMMA AheadConvert ==
    ASSUME Layout, DriverTypeOK, InsideInv, NEW n \in 1..Len(lines), Promised(n),
           pos < Start(n), Convert
    PROVE  pos' < Start(n) \/ (mainPc' = "act" /\ pos' = Start(n))
<1>1. n # 1 /\ pos \in Nat
  BY DEF Layout, DriverTypeOK
<1>2. PICK m \in 1..Len(lines) : m = n - 1 /\ m < Len(lines) /\ m + 1 = n
  BY <1>1, LinesAre
<1>3. Proper(lines[m]) /\ Short(lines[m]) /\ Proper(lines[n])
  BY <1>1, <1>2 DEF Promised
<1>4. Inside(m)
  BY <1>2, <1>3, LinesAre DEF InsideInv
<1>5. Start(n) = LineEnd(m) + 1 /\ LineEnd(m) \in Nat
  BY <1>2, LineIs DEF Layout
<1>6. pos <= LineEnd(m)
  BY <1>1, <1>5
<1>7. \/ pos' <= Start(m) + Len(lines[m][1])
      \/ mainPc' = "scan" /\ converted' \in {1, 2} /\ pos' = FieldStart(m, 2)
      \/ mainPc' = "scan" /\ converted' = 2 /\ pos' = FieldStart(m, 3)
      \/ mainPc' = "act" /\ pos' = Skipped(LineEnd(m))
  BY <1>3, <1>4, <1>6, ConvertInside
<1>8. \A f \in 2..3 : FieldStart(m, f) \in Nat /\ FieldStart(m, f) <= LineEnd(m)
  <2> TAKE f \in 2..3
  <2> DEFINE x == FieldStart(m, f)  l == Len(lines[m][f])  e == LineEnd(m)
  <2>0. f \in 1..3
    OBVIOUS
  <2>1. x \in Nat /\ l \in Nat /\ x + l <= e /\ e \in Nat
    BY <2>0, <1>3, <1>5, FieldIs
  <2> HIDE DEF x, l, e
  <2>2. x \in Nat /\ x <= e
    BY <2>1
  <2> QED  BY <2>2 DEF x, e
<1>9. Start(m) + Len(lines[m][1]) \in Nat /\ Start(m) + Len(lines[m][1]) < LineEnd(m)
  <2> DEFINE x == Start(m)  a == Len(lines[m][1])  e == LineEnd(m)
  <2>1. 2 \in 2..3
    OBVIOUS
  <2>2. x \in Nat /\ a \in Nat /\ FieldStart(m, 2) = x + a + 1 /\ FieldStart(m, 2) <= e
        /\ e \in Nat
    BY <2>1, <1>3, <1>5, <1>8, ProperIs
  <2> HIDE DEF x, a, e
  <2>3. x + a \in Nat /\ x + a < e
    BY <2>2
  <2> QED  BY <2>3 DEF x, a, e
<1>10. Skipped(LineEnd(m)) = Start(n)
  BY <1>2, <1>3, LinesAre, SkippedToNext DEF Begin
<1>11. pos' \in Nat
  BY ConvertMoves
<1>12. ASSUME NEW f \in 2..3, pos' = FieldStart(m, f) PROVE pos' < Start(n)
  BY <1>12, <1>5, <1>8
<1>13. (pos' = FieldStart(m, 2) \/ pos' = FieldStart(m, 3)) => pos' < Start(n)
  <2>1. 2 \in 2..3 /\ 3 \in 2..3
    OBVIOUS
  <2> QED  BY <2>1, <1>12
<1>14. pos' <= Start(m) + Len(lines[m][1]) => pos' < Start(n)
  <2> DEFINE x == Start(m) + Len(lines[m][1])  e == LineEnd(m)
  <2>1. x \in Nat /\ x < e /\ e \in Nat /\ Start(n) = e + 1
    BY <1>5, <1>9
  <2> HIDE DEF x, e
  <2>2. pos' <= x => pos' < e + 1
    BY <2>1, <1>11
  <2> QED  BY <2>1, <2>2 DEF x
<1> QED  BY <1>7, <1>10, <1>13, <1>14

\* Every step of main keeps PromisedInv.
LEMMA PromisedStep ==
    Layout /\ DriverTypeOK /\ InsideInv /\ PromisedInv /\ [MainNext]_mainVars => PromisedInv'
<1> SUFFICES ASSUME Layout, DriverTypeOK, InsideInv, PromisedInv, [MainNext]_mainVars,
                    NEW n \in DOMAIN lines', Promised(n)'
             PROVE  Kept(n)'
  BY DEF PromisedInv
<1>1. UNCHANGED <<lines, text>>
  BY FileStays
<1>2. n \in 1..Len(lines) /\ Promised(n) /\ Proper(lines[n]) /\ n \in DOMAIN lines
  BY <1>1, LinesAre, Unmoved DEF Promised, Short
<1>3. \/ pos < Start(n)
      \/ mainPc \in {"act", "died"} /\ pos = Start(n)
      \/ mainPc \in {"open", "failed", "scan", "died"} /\ Reading(n)
      \/ n \in obeyed
  BY <1>2 DEF PromisedInv, Kept
<1>4. Start(n)' = Start(n)
  BY <1>1, Unmoved
<1>5. n \in obeyed => n \in obeyed'
  BY DEF MainNext, Main, mainVars, scanVars, Open, Dies, Convert, ConvertFails, Turn, Set, Get,
         OtherCommand, Close
<1>6. Reading(n) /\ UNCHANGED <<pos, args, converted, start>> => Reading(n)'
  BY <1>1, ReadingStays
<1>7. CASE Open
  BY <1>3, <1>4, <1>5, <1>6, <1>7 DEF Open, scanVars, Kept
<1>8. CASE Dies
  BY <1>3, <1>4, <1>5, <1>6, <1>8 DEF Dies, scanVars, Kept
<1>9. CASE Convert
  <2>1. mainPc = "scan"
    BY <1>9, ConvertIs
  <2>2. CASE pos < Start(n)
    BY <2>2, <1>2, <1>4, <1>9, AheadConvert DEF Kept
  <2>3. CASE Reading(n)
    BY <2>3, <1>2, <1>9, ReadConvert DEF Kept
  <2> QED  BY <2>1, <2>2, <2>3, <1>3, <1>5 DEF Kept
<1>10. CASE ConvertFails
  <2>1. ~Reading(n)
    BY <1>2, <1>10, ReadNotFails
  <2>2. mainPc = "scan" /\ UNCHANGED pos
    BY <1>10 DEF ConvertFails, scanVars
  <2> QED  BY <2>1, <2>2, <1>3, <1>4, <1>5 DEF Kept
<1>11. ASSUME mainPc = "act", Turn PROVE Kept(n)'
  <2>1. mainPc' = "scan" /\ UNCHANGED pos /\ start' = pos /\ converted' = 0
    BY <1>11 DEF Turn
  <2>2. CASE pos = Start(n)
    BY <2>1, <2>2, <1>1, <1>2, ReadingBegins DEF Kept
  <2> QED  BY <2>1, <2>2, <1>3, <1>4, <1>5, <1>11 DEF Kept
<1>12. CASE Set
  BY <1>11, <1>12 DEF Set
<1>13. CASE Get
  BY <1>11, <1>13 DEF Get
<1>14. CASE OtherCommand
  BY <1>11, <1>14 DEF OtherCommand
<1>15. CASE Close
  BY <1>3, <1>4, <1>5, <1>15 DEF Close, scanVars, Kept
<1>16. CASE UNCHANGED mainVars
  BY <1>3, <1>4, <1>5, <1>6, <1>16 DEF mainVars, scanVars, Kept
<1> QED  BY <1>7, <1>8, <1>9, <1>10, <1>12, <1>13, <1>14, <1>15, <1>16 DEF MainNext, Main

\* At the end of the file no promised line is ahead any more: each has been read.
LEMMA PromisesFollow == Layout /\ DriverTypeOK /\ PromisedInv => OnlyNextLineLost
<1> SUFFICES ASSUME Layout, DriverTypeOK, PromisedInv, mainPc = "done",
                    NEW n \in DOMAIN lines, Promised(n)
             PROVE  n \in obeyed
  BY DEF OnlyNextLineLost
<1>1. n \in 1..Len(lines) /\ Proper(lines[n])
  BY LinesAre DEF Promised
<1>2. pos = Len(text)
  BY DEF DriverTypeOK
<1>3. /\ Start(n) < LineEnd(n) /\ LineEnd(n) <= Len(text) /\ Start(n) \in Nat
      /\ LineEnd(n) \in Nat /\ Len(text) \in Nat
  BY <1>1, ProperNotEmpty, LineIs
<1>4. ~(pos < Start(n))
  BY <1>2, <1>3
<1> QED  BY <1>4 DEF PromisedInv, Kept

--------------------------------------------------------------------------------
(* The theorems *)

\* The whole inductive invariant of kvs_lab's main.
DriverInv == Layout /\ DriverTypeOK /\ AnswersInv /\ InsideInv /\ PromisedInv

\* kvs_lab's main keeps it.
LEMMA DriverInvariant == MainSpec => []DriverInv
<1>1. MainInit => DriverInv
  BY LayoutInit, DriverTypeInit, AnswersInit, InsideInit, PromisedInit DEF DriverInv
<1>2. DriverInv /\ [MainNext]_mainVars => DriverInv'
  BY LayoutStep, DriverTypeStep, AnswersInvStep, InsideStep, PromisedStep DEF DriverInv
<1> QED  BY <1>1, <1>2, PTL DEF MainSpec

\* The stream of kvs_lab's main stays in the file, main turns to close at its end only, and
\* fscanf has three fields at all times.
THEOREM DriverTypeCorrect == MainSpec => []DriverTypeOK
<1>1. DriverInv => DriverTypeOK
  BY DEF DriverInv
<1> QED  BY <1>1, DriverInvariant, PTL

\* From a file of proper lines kvs_lab's main writes one answer for each get, in order, the
\* value of the last set before it, unless a put has failed: whatever the widths of the
\* format, the characters, and the number and the length of the lines.
THEOREM AnswersCorrect == MainSpec => []AnswersRight
<1>1. DriverInv => AnswersRight
  BY AnswersFollow DEF DriverInv
<1> QED  BY <1>1, DriverInvariant, PTL

\* A line that kvs_lab's main is not made for costs at most the line after it: if main ends,
\* every proper line at the start of the file, or behind a short proper one, has been read as
\* it is, whatever stands anywhere else.
THEOREM OneLineLost == MainSpec => []OnlyNextLineLost
<1>1. DriverInv => OnlyNextLineLost
  BY PromisesFollow DEF DriverInv
<1> QED  BY <1>1, DriverInvariant, PTL

================================================================================
