-------------------------- MODULE SampleSkipListProofs --------------------------
(****************************************************************************)
(* IInv of SampleSkipList is inductive, for any keys, any values, any pool  *)
(* of nodes and any MAX_LEVEL; the invariants TLC checks follow from it.    *)
(****************************************************************************)
EXTENDS SampleSkipList, FiniteSetTheorems, TLAPS

--------------------------------------------------------------------------------
(* What splicing a node into a level does to the lists of LevelLists; the   *)
(* lemmas are those of KvsLabProofs.                                        *)

\* InsertAfter writes two pointers of one level and nothing else.
LEMMA InsertAfterValue ==
    ASSUME NEW f \in PtrMaps, NEW j \in Level, NEW p \in Ptr, NEW m \in Node, p # m
    PROVE  LET g == InsertAfter(f, p, m, j)
           IN  /\ g \in PtrMaps
               /\ g[p][j] = m
               /\ g[m][j] = f[p][j]
               /\ \A q \in Ptr \ {p, m} : g[q] = f[q]
               /\ \A q \in Ptr, l \in Level \ {j} : g[q][l] = f[q][l]
  BY DEF InsertAfter, PtrMaps, Ptr

\* The other levels keep their nodes and their order.
LEMMA InsertAfterElsewhere ==
    ASSUME NEW f \in PtrMaps, NEW j \in Level, NEW p \in Ptr, NEW m \in Node, p # m,
           NEW l \in Level \ {j}
    PROVE  Linked(InsertAfter(f, p, m, j), l) = Linked(f, l)
<1> DEFINE g == InsertAfter(f, p, m, j)
<1>1. \A q \in Ptr : g[q][l] = f[q][l]
  BY InsertAfterValue
<1> HIDE DEF g
<1>2. Linked(g, l) = Linked(f, l)
  BY <1>1 DEF Linked
<1> QED  BY <1>2 DEF g

\* The level gains the node m and loses none.
LEMMA InsertAfterLinks ==
    ASSUME NEW f \in PtrMaps, NEW j \in Level, NEW p \in Ptr, NEW m \in Node, p # m,
           f[m][j] = Null, PtrAssumption
    PROVE  Linked(InsertAfter(f, p, m, j), j) = Linked(f, j) \cup {m}
<1> DEFINE g == InsertAfter(f, p, m, j)
<1>1. /\ g[p][j] = m /\ g[m][j] = f[p][j]
      /\ \A q \in Ptr \ {p, m} : g[q][j] = f[q][j]
  BY InsertAfterValue
<1>2. m \in Ptr
  BY DEF Ptr
<1> HIDE DEF g
<1>3. ASSUME NEW n \in Linked(g, j)  PROVE n \in Linked(f, j) \cup {m}
  BY <1>1, <1>2, <1>3 DEF Linked
<1>4. ASSUME NEW n \in Linked(f, j)  PROVE n \in Linked(g, j)
  <2>1. PICK q \in Ptr : f[q][j] = n
    BY <1>4 DEF Linked
  <2>2. q # m
    BY <2>1, PtrAssumption DEF Linked
  <2>3. CASE q = p
    BY <2>1, <2>3, <1>1, <1>2 DEF Linked
  <2>4. CASE q # p
    BY <2>1, <2>2, <2>4, <1>1 DEF Linked
  <2> QED  BY <2>3, <2>4
<1>5. m \in Linked(g, j)
  BY <1>1 DEF Linked
<1>6. Linked(g, j) = Linked(f, j) \cup {m}
  BY <1>3, <1>4, <1>5
<1> QED  BY <1>6 DEF g

\* Spliced in after the last node before its key, a node keeps its level sorted.
LEMMA InsertAfterSorted ==
    ASSUME NEW f \in PtrMaps, NEW k \in KeyMaps, NEW j \in Level, NEW p \in Ptr,
           NEW m \in Node, PtrAssumption, KeyAssumption,
           \A n \in Linked(f, j) : k[n] \in Key,
           k[m] \in Key,
           f[m][j] = Null, m \notin Linked(f, j),
           Sorted(f, k, j),
           IsLastBefore(f, k, p, k[m], j),
           \A n \in Linked(f, j) : k[n] # k[m],
           \A a, b \in Linked(f, j) : k[a] = k[b] => a = b
    PROVE  Sorted(InsertAfter(f, p, m, j), k, j)
<1> DEFINE g == InsertAfter(f, p, m, j)
<1>1. p # m
  BY PtrAssumption DEF IsLastBefore, OnLevel
<1>2. /\ g[p][j] = m /\ g[m][j] = f[p][j]
      /\ \A q \in Ptr \ {p, m} : g[q][j] = f[q][j]
  BY <1>1, InsertAfterValue
<1>3. Linked(g, j) = Linked(f, j) \cup {m}
  BY <1>1, InsertAfterLinks
<1>4. \A q \in Ptr : f[q][j] # Null => f[q][j] \in Linked(f, j)
  BY DEF Linked, PtrMaps
<1>5. Linked(f, j) \subseteq Node
  BY DEF Linked
<1>6. \A n \in Linked(f, j) \cup {m} : k[n] \in Nat
  BY KeyAssumption
<1> HIDE DEF g
<1>7. ASSUME NEW q \in OnLevel(g, j)  PROVE IsNext(g, k, q, g[q][j], j)
  <2>1. IsNext(f, k, p, f[p][j], j)
    BY DEF Sorted, IsLastBefore
  <2>2. CASE q = p
    <3>1. Precedes(k, p, k[m])
      BY DEF IsLastBefore
    <3>2. ASSUME NEW n \in Linked(f, j), Precedes(k, p, k[n])  PROVE k[m] <= k[n]
      <4>1. f[p][j] # Null /\ k[f[p][j]] <= k[n]
        BY <2>1, <3>2 DEF IsNext
      <4>2. k[m] <= k[f[p][j]]
        BY <4>1 DEF IsLastBefore
      <4> QED  BY <4>1, <4>2, <1>4, <1>6
    <3>3. k[m] <= k[m]
      BY <1>6
    <3> QED  BY <2>2, <3>1, <3>2, <3>3, <1>2, <1>3, PtrAssumption DEF IsNext
  <2>3. CASE q = m
    <3>1. ASSUME f[p][j] # Null  PROVE k[m] < k[f[p][j]]
      <4>1. k[m] <= k[f[p][j]] /\ k[m] # k[f[p][j]]
        BY <3>1, <1>4 DEF IsLastBefore
      <4> QED  BY <4>1, <1>4, <1>6, <3>1
    <3>2. ASSUME NEW n \in Linked(f, j), k[m] < k[n]
          PROVE  f[p][j] # Null /\ k[f[p][j]] <= k[n]
      <4>1. Precedes(k, p, k[n])
        <5>1. CASE p = Header
          BY <5>1 DEF Precedes
        <5>2. CASE p # Header
          <6>1. p \in Linked(f, j) /\ k[p] < k[m]
            BY <5>2 DEF IsLastBefore, OnLevel, Precedes
          <6> QED  BY <6>1, <3>2, <1>6 DEF Precedes
        <5> QED  BY <5>1, <5>2
      <4> QED  BY <4>1, <2>1 DEF IsNext
    <3>3. m # Header /\ ~(k[m] < k[m])
      BY PtrAssumption, <1>6
    <3> QED  BY <2>3, <3>1, <3>2, <3>3, <1>2, <1>3 DEF IsNext, Precedes
  <2>4. CASE q # p /\ q # m
    <3>1. q \in OnLevel(f, j) /\ q \in Ptr
      BY <2>4, <1>3, <1>5 DEF OnLevel, Ptr
    <3>2. IsNext(f, k, q, f[q][j], j) /\ g[q][j] = f[q][j]
      BY <3>1, <2>4, <1>2 DEF Sorted
    <3>3. ASSUME Precedes(k, q, k[m])
          PROVE  f[q][j] # Null /\ k[f[q][j]] <= k[m]
      \* q lies before p: a node of level j between p and m would be p's next one.
      <4>1. CASE p = Header
        <5>1. q \in Linked(f, j) /\ k[q] < k[m]
          BY <4>1, <2>4, <3>1, <3>3 DEF OnLevel, Precedes
        <5>2. f[p][j] # Null /\ k[f[p][j]] <= k[q]
          BY <5>1, <4>1, <2>1 DEF IsNext, Precedes
        <5>3. k[m] <= k[f[p][j]]
          BY <5>2 DEF IsLastBefore
        <5> QED  BY <5>1, <5>2, <5>3, <1>4, <1>6
      <4>2. CASE p # Header /\ Precedes(k, q, k[p])
        <5>1. p \in Linked(f, j) /\ k[p] < k[m]
          BY <4>2 DEF IsLastBefore, OnLevel, Precedes
        <5>2. f[q][j] # Null /\ k[f[q][j]] <= k[p]
          BY <5>1, <4>2, <3>2 DEF IsNext
        <5> QED  BY <5>1, <5>2, <1>4, <1>6, <3>1
      <4>3. CASE p # Header /\ ~Precedes(k, q, k[p])
        <5>1. p \in Linked(f, j) /\ k[p] < k[m]
          BY <4>3 DEF IsLastBefore, OnLevel, Precedes
        <5>2. q \in Linked(f, j) /\ ~(k[q] < k[p]) /\ k[q] < k[m]
          BY <4>3, <3>1, <3>3 DEF OnLevel, Precedes
        <5>3. CASE k[p] < k[q]
          <6>1. f[p][j] # Null /\ k[f[p][j]] <= k[q]
            BY <5>2, <5>3, <2>1 DEF IsNext, Precedes
          <6>2. k[m] <= k[f[p][j]]
            BY <6>1 DEF IsLastBefore
          <6> QED  BY <5>2, <6>1, <6>2, <1>4, <1>6
        <5>4. CASE k[p] = k[q]
          BY <5>1, <5>2, <5>4, <2>4
        <5> QED  BY <5>1, <5>2, <5>3, <5>4, <1>6
      <4> QED  BY <4>1, <4>2, <4>3
    <3> QED  BY <3>2, <3>3, <1>2, <1>3, <2>4 DEF IsNext
  <2> QED  BY <2>2, <2>3, <2>4
<1>8. Sorted(g, k, j)
  BY <1>7 DEF Sorted
<1> QED  BY <1>8 DEF g

\* The order of a level depends on the keys of its own nodes only.
LEMMA SortedSameKeys ==
    ASSUME NEW f \in PtrMaps, NEW k, NEW h, NEW j \in Level, PtrAssumption,
           \A n \in Linked(f, j) : k[n] = h[n],
           Sorted(f, k, j)
    PROVE  Sorted(f, h, j)
<1>1. \A p \in OnLevel(f, j) : f[p][j] # Null => f[p][j] \in Linked(f, j)
  BY DEF OnLevel, Linked, PtrMaps, Ptr
<1> SUFFICES ASSUME NEW p \in OnLevel(f, j)  PROVE IsNext(f, h, p, f[p][j], j)
  BY DEF Sorted
<1>2. IsNext(f, k, p, f[p][j], j)
  BY DEF Sorted
<1>3. p # Header => k[p] = h[p]
  BY DEF OnLevel
<1> QED  BY <1>1, <1>2, <1>3 DEF IsNext, Precedes

\* So does being the last node of a level before a key.
LEMMA LastBeforeSameKeys ==
    ASSUME NEW f \in PtrMaps, NEW k, NEW h, NEW j \in Level, NEW p, NEW x, PtrAssumption,
           \A n \in Linked(f, j) : k[n] = h[n],
           IsLastBefore(f, k, p, x, j)
    PROVE  IsLastBefore(f, h, p, x, j)
<1>1. f[p][j] # Null => f[p][j] \in Linked(f, j)
  BY DEF IsLastBefore, OnLevel, Linked, PtrMaps, Ptr
<1>2. p # Header => k[p] = h[p]
  BY DEF IsLastBefore, OnLevel
<1> QED  BY <1>1, <1>2 DEF IsLastBefore, Precedes

\* A splice on one level leaves the order of the others alone.
LEMMA InsertAfterSortedElsewhere ==
    ASSUME NEW f \in PtrMaps, NEW k, NEW j \in Level, NEW p \in Ptr, NEW m \in Node, p # m,
           NEW l \in Level \ {j}, Sorted(f, k, l)
    PROVE  Sorted(InsertAfter(f, p, m, j), k, l)
<1> DEFINE g == InsertAfter(f, p, m, j)
<1>1. \A q \in Ptr : g[q][l] = f[q][l]
  BY InsertAfterValue
<1>2. Linked(g, l) = Linked(f, l)
  BY InsertAfterElsewhere
<1>3. OnLevel(g, l) = OnLevel(f, l) /\ OnLevel(f, l) \subseteq Ptr
  BY <1>2 DEF OnLevel, Linked, Ptr
<1> HIDE DEF g
<1>4. Sorted(g, k, l)
  BY <1>1, <1>2, <1>3 DEF Sorted, IsNext
<1> QED  BY <1>4 DEF g

\* Nor does it change which node of another level is the last before a key.
LEMMA InsertAfterLastElsewhere ==
    ASSUME NEW f \in PtrMaps, NEW k, NEW j \in Level, NEW p \in Ptr, NEW m \in Node, p # m,
           NEW l \in Level \ {j}, NEW q, NEW x, IsLastBefore(f, k, q, x, l)
    PROVE  IsLastBefore(InsertAfter(f, p, m, j), k, q, x, l)
<1> DEFINE g == InsertAfter(f, p, m, j)
<1>1. \A r \in Ptr : g[r][l] = f[r][l]
  BY InsertAfterValue
<1>2. Linked(g, l) = Linked(f, l)
  BY InsertAfterElsewhere
<1>3. OnLevel(g, l) = OnLevel(f, l) /\ OnLevel(f, l) \subseteq Ptr
  BY <1>2 DEF OnLevel, Linked, Ptr
<1> HIDE DEF g
<1>4. IsLastBefore(g, k, q, x, l)
  BY <1>1, <1>3 DEF IsLastBefore
<1> QED  BY <1>4 DEF g

\* If p is the last of level j before x and p's next node does not hold x, no node does.
LEMMA NotFound ==
    ASSUME NEW f \in PtrMaps, NEW k, NEW j \in Level, NEW p, NEW x \in Key,
           KeyAssumption, PtrAssumption,
           \A n \in Linked(f, j) : k[n] \in Key,
           Sorted(f, k, j), IsLastBefore(f, k, p, x, j),
           f[p][j] = Null \/ k[f[p][j]] # x
    PROVE  \A n \in Linked(f, j) : k[n] # x
<1> SUFFICES ASSUME NEW n \in Linked(f, j), k[n] = x  PROVE FALSE
  OBVIOUS
<1>1. IsNext(f, k, p, f[p][j], j)
  BY DEF Sorted, IsLastBefore
<1>2. f[p][j] # Null /\ k[f[p][j]] <= x
  BY <1>1 DEF IsNext, IsLastBefore
<1>3. f[p][j] \in Linked(f, j)
  BY <1>2 DEF IsLastBefore, OnLevel, Linked, PtrMaps, Ptr
<1>4. x <= k[f[p][j]]
  BY <1>2 DEF IsLastBefore
<1>5. k[f[p][j]] \in Nat /\ x \in Nat
  BY <1>3, KeyAssumption
<1> QED  BY <1>2, <1>4, <1>5

--------------------------------------------------------------------------------
(* The map a list is: each key with the value of the node that holds it *)

LEMMA HeldValue ==
    ASSUME NEW N, NEW k, NEW v, DistinctKeys(N, k), NEW n \in N
    PROVE  HeldAt(N, k, v, k[n]) = v[n]
<1>1. Holders(N, k, k[n]) = {n}
  BY DEF Holders, DistinctKeys
<1>2. (CHOOSE m \in {n} : TRUE) = n
  OBVIOUS
<1> QED  BY <1>1, <1>2 DEF HeldAt

LEMMA HeldNothing ==
    ASSUME NEW N, NEW k, NEW v, NEW x, \A n \in N : k[n] # x
    PROVE  HeldAt(N, k, v, x) = Null
<1>1. Holders(N, k, x) = {}
  BY DEF Holders
<1> QED  BY <1>1 DEF HeldAt

\* The map depends on the keys and values of the nodes N and on nothing else.
LEMMA MapOfSame ==
    ASSUME NEW N, NEW k, NEW v, NEW k2, NEW v2, DistinctKeys(N, k),
           \A n \in N : k2[n] = k[n] /\ v2[n] = v[n]
    PROVE  MapOf(N, k2, v2) = MapOf(N, k, v)
<1>1. DistinctKeys(N, k2)
  BY DEF DistinctKeys
<1>2. ASSUME NEW x  PROVE HeldAt(N, k2, v2, x) = HeldAt(N, k, v, x)
  <2>1. CASE \E n \in N : k[n] = x
    BY <1>1, <2>1, HeldValue
  <2>2. CASE \A n \in N : k[n] # x
    BY <2>2, HeldNothing
  <2> QED  BY <2>1, <2>2
<1> QED  BY <1>2 DEF MapOf

LEMMA MapOfStored ==
    ASSUME NEW N, NEW k, NEW v, NEW k2, NEW v2, NEW m, NEW x \in Key, NEW y,
           Stores(N, k, v, k2, v2, m, x, y), m \in N => k[m] = x
    PROVE  MapOf(N \cup {m}, k2, v2) = [MapOf(N, k, v) EXCEPT ![x] = y]
<1> USE DEF Stores
<1>1. DistinctKeys(N \cup {m}, k2)
  BY DEF DistinctKeys
<1>2. HeldAt(N \cup {m}, k2, v2, x) = y
  BY <1>1, HeldValue
<1>3. ASSUME NEW z, z # x
      PROVE  HeldAt(N \cup {m}, k2, v2, z) = HeldAt(N, k, v, z)
  <2>1. CASE \E n \in N : k[n] = z
    <3>1. PICK n \in N : k[n] = z
      BY <2>1
    <3>2. n # m /\ k2[n] = z /\ v2[n] = v[n] /\ n \in N \cup {m}
      BY <1>3, <3>1
    <3> QED  BY <1>1, <3>1, <3>2, HeldValue
  <2>2. CASE \A n \in N : k[n] # z
    <3>1. \A n \in N \cup {m} : k2[n] # z
      BY <1>3, <2>2
    <3> QED  BY <2>2, <3>1, HeldNothing
  <2> QED  BY <2>1, <2>2
<1> QED  BY <1>2, <1>3 DEF MapOf

--------------------------------------------------------------------------------
(* Lists with pointers nothing has been written to.  With NULL in their     *)
(* place they are lists as above.                                           *)

RawMaps == [Ptr -> [Level -> Node \cup {Null, Unset}]]

Seen(f) == [p \in Ptr |-> [j \in Level |-> IF f[p][j] = Unset THEN Null ELSE f[p][j]]]

\* The pointers of level j that a walk along it reads.
AllSet(f, j) == \A p \in OnLevel(f, j) : f[p][j] # Unset

LEMMA LevelZero == 0 \in Level /\ Level \subseteq Int
  BY LevelAssumption DEF Level

LEMMA NoNode == /\ Null \notin Node /\ Unset \notin Node /\ Unset # Null /\ Header \notin Node
                /\ Header \in Ptr /\ Null \notin Ptr /\ Unset \notin Ptr /\ Node \subseteq Ptr
  BY PtrAssumption, UnsetAssumption DEF Ptr

LEMMA SeenFacts ==
    ASSUME NEW f \in RawMaps
    PROVE  /\ Seen(f) \in PtrMaps
           /\ \A p \in Ptr, j \in Level :
                Seen(f)[p][j] = IF f[p][j] = Unset THEN Null ELSE f[p][j]
           /\ \A j \in Level : Linked(Seen(f), j) = Linked(f, j) /\ OnLevel(Seen(f), j) = OnLevel(f, j)
<1>1. \A p \in Ptr, j \in Level :
        Seen(f)[p][j] = IF f[p][j] = Unset THEN Null ELSE f[p][j]
  BY DEF Seen
<1>2. Seen(f) \in PtrMaps
  BY DEF Seen, PtrMaps, RawMaps
<1>3. \A j \in Level : Linked(Seen(f), j) = Linked(f, j)
  BY <1>1, NoNode DEF Linked
<1> QED  BY <1>1, <1>2, <1>3 DEF OnLevel

LEMMA SeenOrder ==
    ASSUME NEW f \in RawMaps, NEW k, NEW j \in Level, AllSet(f, j)
    PROVE  /\ Sorted(Seen(f), k, j) <=> Sorted(f, k, j)
           /\ \A p, x : IsLastBefore(Seen(f), k, p, x, j) <=> IsLastBefore(f, k, p, x, j)
<1>1. /\ Linked(Seen(f), j) = Linked(f, j) /\ OnLevel(Seen(f), j) = OnLevel(f, j)
      /\ OnLevel(f, j) \subseteq Ptr
  BY SeenFacts, NoNode DEF OnLevel, Linked
<1>2. \A p \in OnLevel(f, j) : Seen(f)[p][j] = f[p][j]
  BY <1>1, SeenFacts DEF AllSet
<1>3. Sorted(Seen(f), k, j) <=> Sorted(f, k, j)
  BY <1>1, <1>2 DEF Sorted, IsNext
<1>4. \A p, x : IsLastBefore(Seen(f), k, p, x, j) <=> IsLastBefore(f, k, p, x, j)
  BY <1>1, <1>2 DEF IsLastBefore
<1> QED  BY <1>3, <1>4

\* InsertAfter writes two pointers of one level and nothing else.
LEMMA RawValue ==
    ASSUME NEW f \in RawMaps, NEW j \in Level, NEW p \in Ptr, NEW m \in Node, p # m
    PROVE  LET g == InsertAfter(f, p, m, j)
           IN  /\ g \in RawMaps
               /\ g[p][j] = m
               /\ g[m][j] = f[p][j]
               /\ \A q \in Ptr \ {p, m} : g[q] = f[q]
               /\ \A q \in Ptr, l \in Level \ {j} : g[q][l] = f[q][l]
  BY DEF InsertAfter, RawMaps, Ptr

LEMMA SeenInsert ==
    ASSUME NEW f \in RawMaps, NEW j \in Level, NEW p \in Ptr, NEW m \in Node, p # m
    PROVE  Seen(InsertAfter(f, p, m, j)) = InsertAfter(Seen(f), p, m, j)
<1> DEFINE g == InsertAfter(f, p, m, j)
           h == InsertAfter(Seen(f), p, m, j)
<1>1. /\ g \in RawMaps /\ g[p][j] = m /\ g[m][j] = f[p][j]
      /\ \A q \in Ptr \ {p, m} : g[q] = f[q]
      /\ \A q \in Ptr, l \in Level \ {j} : g[q][l] = f[q][l]
  BY RawValue
<1>2. Seen(f) \in PtrMaps
  BY SeenFacts
<1>3. /\ h \in PtrMaps /\ h[p][j] = m /\ h[m][j] = Seen(f)[p][j]
      /\ \A q \in Ptr \ {p, m} : h[q] = Seen(f)[q]
      /\ \A q \in Ptr, l \in Level \ {j} : h[q][l] = Seen(f)[q][l]
  BY <1>2, InsertAfterValue
<1> HIDE DEF g, h
<1>4. Seen(g) \in PtrMaps
  BY <1>1, SeenFacts
<1>5. ASSUME NEW q \in Ptr, NEW l \in Level  PROVE Seen(g)[q][l] = h[q][l]
  <2>1. Seen(g)[q][l] = IF g[q][l] = Unset THEN Null ELSE g[q][l]
    BY <1>1, SeenFacts
  <2>2. Seen(f)[q][l] = IF f[q][l] = Unset THEN Null ELSE f[q][l]
    BY SeenFacts
  <2>3. Seen(f)[p][j] = IF f[p][j] = Unset THEN Null ELSE f[p][j]
    BY SeenFacts
  <2>4. CASE l # j
    BY <2>1, <2>2, <2>4, <1>1, <1>3
  <2>5. CASE l = j /\ q = p
    BY <2>1, <2>5, <1>1, <1>3, NoNode
  <2>6. CASE l = j /\ q = m
    BY <2>1, <2>3, <2>6, <1>1, <1>3
  <2>7. CASE l = j /\ q \notin {p, m}
    BY <2>1, <2>2, <2>7, <1>1, <1>3
  <2> QED  BY <2>4, <2>5, <2>6, <2>7
<1>6. Seen(g) = h
  BY <1>3, <1>4, <1>5 DEF PtrMaps
<1> QED  BY <1>6 DEF g, h

\* The level gains the node m, whose pointer was not set, and the others stay the same.
LEMMA RawLinks ==
    ASSUME NEW f \in RawMaps, NEW j \in Level, NEW p \in Ptr, NEW m \in Node, p # m,
           f[m][j] = Unset
    PROVE  LET g == InsertAfter(f, p, m, j)
           IN  /\ Linked(g, j) = Linked(f, j) \cup {m}
               /\ \A l \in Level \ {j} : Linked(g, l) = Linked(f, l)
<1> DEFINE g == InsertAfter(f, p, m, j)
<1>1. Seen(g) = InsertAfter(Seen(f), p, m, j) /\ g \in RawMaps
  BY SeenInsert, RawValue
<1>2. /\ Seen(f) \in PtrMaps /\ Seen(f)[m][j] = Null
      /\ \A l \in Level : Linked(Seen(f), l) = Linked(f, l)
  BY SeenFacts, NoNode
<1> HIDE DEF g
<1>3. \A l \in Level : Linked(Seen(g), l) = Linked(g, l)
  BY <1>1, SeenFacts
<1>4. Linked(Seen(g), j) = Linked(Seen(f), j) \cup {m}
  BY <1>1, <1>2, PtrAssumption, InsertAfterLinks
<1>5. \A l \in Level \ {j} : Linked(Seen(g), l) = Linked(Seen(f), l)
  BY <1>1, <1>2, InsertAfterElsewhere
<1> QED  BY <1>2, <1>3, <1>4, <1>5 DEF g

\* Spliced in after the last node before its key, a node keeps its level sorted, and the
\* other levels as they are.
LEMMA RawSorted ==
    ASSUME NEW f \in RawMaps, NEW k \in KeyMaps, NEW j \in Level, NEW p \in Ptr, NEW m \in Node,
           p # m, f[m][j] = Unset, m \notin Linked(f, j), k[m] \in Key,
           \A l \in Level : AllSet(f, l) /\ Sorted(f, k, l),
           \A n \in Linked(f, j) : k[n] \in Key /\ k[n] # k[m],
           \A a, b \in Linked(f, j) : k[a] = k[b] => a = b,
           IsLastBefore(f, k, p, k[m], j)
    PROVE  LET g == InsertAfter(f, p, m, j)
           IN  /\ \A l \in Level : AllSet(g, l) /\ Sorted(g, k, l)
               /\ \A l \in Level \ {j} : \A q, x :
                    IsLastBefore(f, k, q, x, l) => IsLastBefore(g, k, q, x, l)
<1> DEFINE g == InsertAfter(f, p, m, j)
           s == Seen(f)
<1>1. /\ g \in RawMaps /\ g[p][j] = m /\ g[m][j] = f[p][j]
      /\ \A q \in Ptr \ {p, m} : g[q] = f[q]
      /\ \A q \in Ptr, l \in Level \ {j} : g[q][l] = f[q][l]
  BY RawValue
<1>2. /\ Linked(g, j) = Linked(f, j) \cup {m}
      /\ \A l \in Level \ {j} : Linked(g, l) = Linked(f, l)
  BY RawLinks
<1>3. Seen(g) = InsertAfter(s, p, m, j)
  BY SeenInsert
<1>4. /\ s \in PtrMaps /\ s[m][j] = Null
      /\ \A l \in Level : Linked(s, l) = Linked(f, l) /\ OnLevel(s, l) = OnLevel(f, l)
  BY SeenFacts, NoNode
<1>5. /\ \A l \in Level : Sorted(s, k, l)
      /\ \A l \in Level : \A q, x : IsLastBefore(f, k, q, x, l) <=> IsLastBefore(s, k, q, x, l)
  BY SeenOrder
<1> HIDE DEF g, s
<1>6. Sorted(Seen(g), k, j)
  <2>1. Sorted(InsertAfter(s, p, m, j), k, j)
    BY <1>4, <1>5, PtrAssumption, KeyAssumption, InsertAfterSorted
  <2> QED  BY <1>3, <2>1
<1>7. ASSUME NEW l \in Level \ {j}  PROVE Sorted(Seen(g), k, l)
  <2>1. Sorted(s, k, l)
    BY <1>5
  <2>2. Sorted(InsertAfter(s, p, m, j), k, l)
    BY <1>4, <2>1, InsertAfterSortedElsewhere
  <2> QED  BY <1>3, <2>2
<1>8. \A l \in Level : AllSet(g, l)
  <2> SUFFICES ASSUME NEW l \in Level, NEW q \in OnLevel(g, l)  PROVE g[q][l] # Unset
    BY DEF AllSet
  <2>1. q \in Ptr
    BY NoNode DEF OnLevel, Linked
  <2>2. CASE l # j
    BY <1>1, <1>2, <2>1, <2>2 DEF AllSet, OnLevel
  <2>3. CASE l = j /\ q \notin {p, m}
    BY <1>1, <1>2, <2>1, <2>3 DEF AllSet, OnLevel
  <2>4. CASE l = j /\ q = p
    BY <1>1, <2>4, NoNode
  <2>5. CASE l = j /\ q = m
    <3>1. p \in OnLevel(f, j)
      BY DEF IsLastBefore
    <3> QED  BY <1>1, <2>5, <3>1 DEF AllSet
  <2> QED  BY <2>2, <2>3, <2>4, <2>5
<1>9. ASSUME NEW l \in Level  PROVE Sorted(g, k, l)
  <2>1. Sorted(Seen(g), k, l) /\ AllSet(g, l)
    BY <1>6, <1>7, <1>8
  <2> QED  BY <1>1, <2>1, SeenOrder
<1>10. ASSUME NEW l \in Level \ {j}, NEW q, NEW x, IsLastBefore(f, k, q, x, l)
       PROVE  IsLastBefore(g, k, q, x, l)
  <2>1. IsLastBefore(InsertAfter(s, p, m, j), k, q, x, l)
    BY <1>4, <1>5, <1>10, InsertAfterLastElsewhere
  <2>2. IsLastBefore(Seen(g), k, q, x, l)
    BY <1>3, <2>1
  <2>3. AllSet(g, l) /\ l \in Level
    BY <1>8
  <2>4. \A r, y : IsLastBefore(Seen(g), k, r, y, l) <=> IsLastBefore(g, k, r, y, l)
    BY <1>1, <2>3, SeenOrder
  <2> QED  BY <2>2, <2>4
<1> QED  BY <1>8, <1>9, <1>10 DEF g

\* The order of a level depends on the keys of its own nodes only.
LEMMA RawSameKeys ==
    ASSUME NEW f \in RawMaps, NEW k, NEW h, NEW j \in Level, AllSet(f, j),
           \A n \in Linked(f, j) : k[n] = h[n]
    PROVE  /\ Sorted(f, k, j) => Sorted(f, h, j)
           /\ \A p, x : IsLastBefore(f, k, p, x, j) => IsLastBefore(f, h, p, x, j)
<1>1. Seen(f) \in PtrMaps /\ Linked(Seen(f), j) = Linked(f, j)
  BY SeenFacts
<1>2. ASSUME Sorted(f, k, j)  PROVE Sorted(f, h, j)
  <2>1. Sorted(Seen(f), k, j)
    BY <1>2, SeenOrder
  <2>2. Sorted(Seen(f), h, j)
    BY <1>1, <2>1, PtrAssumption, SortedSameKeys
  <2> QED  BY <2>2, SeenOrder
<1>3. ASSUME NEW p, NEW x, IsLastBefore(f, k, p, x, j)  PROVE IsLastBefore(f, h, p, x, j)
  <2>1. IsLastBefore(Seen(f), k, p, x, j)
    BY <1>3, SeenOrder
  <2>2. IsLastBefore(Seen(f), h, p, x, j)
    BY <1>1, <2>1, PtrAssumption, LastBeforeSameKeys
  <2> QED  BY <2>2, SeenOrder
<1> QED  BY <1>2, <1>3

--------------------------------------------------------------------------------
(* Facts about single states *)

LEMMA Types ==
    ASSUME IInv
    PROVE  /\ forward \in RawMaps /\ key \in KeyMaps /\ i \in Level /\ level \in Level
           /\ op \in {NoOp} \cup PutOp \cup GetOp \cup SnapOp
  BY DEF IInv, TypeOK, RawMaps, KeyMaps

\* As long as the process runs, every pointer of a level's own nodes is set.
LEMMA PointersSet ==
    ASSUME IInv, pc \notin {"new", "done"}, NEW j \in Level
    PROVE  AllSet(forward, j) /\ Sorted(forward, key, j)
  BY DEF IInv, ListInv, AllSet, OnLevel, LevelSorted, Linked

\* And leads to a node of that level.
LEMMA PointerIsLinked ==
    ASSUME IInv, pc \notin {"new", "done"}, NEW j \in Level, NEW p \in OnLevel(forward, j)
    PROVE  /\ p \in Ptr /\ forward[p][j] # Unset
           /\ forward[p][j] # Null => forward[p][j] \in Linked(forward, j)
<1>1. p \in Ptr
  BY NoNode DEF OnLevel, Linked
<1>2. forward[p][j] # Unset
  BY PointersSet DEF AllSet
<1> QED  BY <1>1, <1>2, Types DEF RawMaps, Linked

LEMMA LinkedKeys ==
    ASSUME IInv, NEW j \in Level, NEW n \in Linked(forward, j)
    PROVE  n \in Linked(forward, 0) /\ key[n] \in Key /\ key[n] \in Nat /\ n \in Node /\ j <= level
<1>1. 0 \in 0..j
  BY LevelAssumption DEF Level
<1>2. n \in Linked(forward, 0) /\ j <= level
  BY <1>1 DEF IInv, ListInv
<1> QED  BY <1>2, KeyAssumption DEF IInv, ListInv, Linked

\* Before kvs_open no node is linked.
LEMMA NothingLinked ==
    ASSUME CallInv, pc = "new"
    PROVE  \A j \in Level : Linked(forward, j) = {}
  BY NoNode DEF CallInv, Linked

LEMMA OpKey ==
    ASSUME IInv, pc \in {"putSearch", "putFound", "putLink", "getSearch", "getFound"}
    PROVE  op.key \in Key /\ op.key \in Nat
<1>1. op \in PutOp \cup GetOp \cup SnapOp
  BY DEF IInv, CallInv
<1> QED  BY <1>1, KeyAssumption DEF PutOp, GetOp, SnapOp

\* A search stands on a node, and what it advances to is a node.
LEMMA SearchPosition ==
    ASSUME IInv, pc \in {"putSearch", "getSearch"}
    PROVE  /\ i \in Level /\ i <= level /\ node \in Ptr /\ node \in OnLevel(forward, i)
           /\ forward[node][i] # Unset
           /\ forward[node][i] # Null => /\ forward[node][i] \in Linked(forward, i)
                                         /\ forward[node][i] \in Node
<1>1. i \in Level /\ i <= level /\ node \in OnLevel(forward, i)
  BY Types DEF IInv, SearchInv
<1> QED  BY <1>1, PointerIsLinked DEF Linked

\* A descending search: node is the last node of level i before the key.
LEMMA DescendPosition ==
    ASSUME IInv, pc \in {"putSearch", "getSearch"}, ~MustAdvance
    PROVE  IsLastBefore(forward, key, node, op.key, i)
<1>1. Precedes(key, node, op.key) /\ op.key \in Nat
  BY OpKey DEF IInv, SearchInv
<1>2. ASSUME forward[node][i] # Null  PROVE op.key <= key[forward[node][i]]
  <2>1. forward[node][i] \in Linked(forward, i) /\ i \in Level
    BY <1>2, SearchPosition
  <2>2. key[forward[node][i]] \in Nat
    BY <2>1, LinkedKeys
  <2>3. ~(key[forward[node][i]] < op.key)
    BY <1>2 DEF MustAdvance
  <2> QED  BY <1>1, <2>2, <2>3
<1> QED  BY <1>1, <1>2, SearchPosition DEF IsLastBefore

\* The end of a search: node is the last node of level 0 before the key.
LEMMA FoundPosition ==
    ASSUME IInv, pc \in {"putFound", "getFound"}
    PROVE  /\ node \in OnLevel(forward, 0) /\ forward[node][0] # Unset
           /\ Found # Null => /\ Found \in Linked(forward, 0) /\ Found \in Node
                             /\ key[Found] = op.key
           /\ Found = Null => \A n \in Linked(forward, 0) : key[n] # op.key
<1>1. IsLastBefore(forward, key, node, op.key, 0)
  BY DEF IInv, SearchInv
<1>2. node \in OnLevel(forward, 0)
  BY <1>1 DEF IsLastBefore
<1>3. forward[node][0] # Unset /\ (forward[node][0] # Null => forward[node][0] \in Linked(forward, 0))
  BY <1>2, PointerIsLinked, LevelZero
<1>4. /\ Found # Null => Found \in Linked(forward, 0) /\ key[Found] = op.key
      /\ Found = Null => forward[node][0] = Null \/ key[forward[node][0]] # op.key
  BY <1>3, NoNode DEF Found, Linked
<1>5. ASSUME Found = Null  PROVE \A n \in Linked(forward, 0) : key[n] # op.key
  <2> DEFINE s == Seen(forward)
  <2>1. /\ s \in PtrMaps /\ Linked(s, 0) = Linked(forward, 0)
        /\ s[node][0] = forward[node][0]
    <3>1. node \in Ptr
      BY <1>2, NoNode DEF OnLevel, Linked
    <3> QED  BY <1>3, <3>1, Types, SeenFacts, LevelZero
  <2>2. Sorted(s, key, 0) /\ IsLastBefore(s, key, node, op.key, 0)
    BY <1>1, Types, PointersSet, SeenOrder, LevelZero
  <2>3. \A n \in Linked(s, 0) : key[n] \in Key
    BY <2>1 DEF IInv, ListInv
  <2>4. s[node][0] = Null \/ key[s[node][0]] # op.key
    BY <1>4, <1>5, <2>1
  <2> HIDE DEF s
  <2>5. \A n \in Linked(s, 0) : key[n] # op.key
    BY <2>1, <2>2, <2>3, <2>4, OpKey, LevelZero, KeyAssumption, PtrAssumption, NotFound
  <2> QED  BY <2>1, <2>5
<1> QED  BY <1>2, <1>3, <1>4, <1>5 DEF Linked

\* The node put is linking, and where.
LEMMA LinkPosition ==
    ASSUME IInv, pc = "putLink"
    PROVE  /\ newnode \in Node /\ newnode # Null /\ key[newnode] = op.key
           /\ i \in Level /\ top \in Level /\ i <= top /\ top <= level
           /\ prev[i] \in Ptr /\ prev[i] # newnode
           /\ IsLastBefore(forward, key, prev[i], op.key, i)
           /\ newnode \notin Linked(forward, i) /\ forward[newnode][i] = Unset
<1>1. newnode \in Node /\ newnode # Null /\ i \in Level /\ top \in Level
  BY NoNode DEF IInv, TypeOK, CallInv
<1>2. i <= top /\ top <= level /\ key[newnode] = op.key
  BY DEF IInv, LinkInv
<1>3. i \in i..top /\ ~(i < i)
  BY <1>1, <1>2, LevelZero
<1>4. newnode \notin Linked(forward, i)
  BY <1>1, <1>3 DEF IInv, LinkInv
<1>5. IsLastBefore(forward, key, prev[i], op.key, i)
  BY <1>3 DEF IInv, LinkInv
<1>6. prev[i] \in OnLevel(forward, i)
  BY <1>5 DEF IsLastBefore
<1>7. prev[i] # newnode /\ prev[i] \in Ptr
  BY <1>1, <1>4, <1>6, NoNode DEF OnLevel, Linked
<1>8. forward[newnode][i] = Unset
  BY <1>1, <1>4 DEF IInv, ListInv
<1> QED  BY <1>1, <1>2, <1>4, <1>5, <1>7, <1>8

\* malloc hands out no node that is linked, and nothing has been written to its pointers.
LEMMA FreshIsUnlinked ==
    ASSUME IInv, pc = "putFound", NEW n \in Node, Fresh(n)
    PROVE  \A j \in Level : n \notin Linked(forward, j) /\ forward[n][j] = Unset
<1>1. n \notin Linked(forward, 0)
  <2> SUFFICES ASSUME n \in Linked(forward, 0)  PROVE FALSE
    OBVIOUS
  <2>1. <<"node", n>> \in BlocksOf(Linked(forward, 0) \cup ({newnode} \ {Null}))
    BY DEF BlocksOf
  <2>2. <<"node", n>> \in heap
    BY <2>1 DEF IInv, HeapInv, HeapExact
  <2> QED  BY <2>2 DEF Fresh
<1>2. \A j \in Level : n \notin Linked(forward, j)
  BY <1>1, LinkedKeys
<1> QED  BY <1>2 DEF IInv, ListInv

--------------------------------------------------------------------------------
(* What the list frees is live, so that free takes away those blocks and    *)
(* nothing else.                                                            *)

LEMMA FreedLive ==
    ASSUME NEW h, NEW blocks, blocks \subseteq h
    PROVE  Freed(h, blocks) = h \ blocks
  BY DEF Freed

LEMMA OpKinds == NoOp \notin SnapOp /\ \A o \in PutOp \cup GetOp : o \notin SnapOp
<1>1. NoOp.name = "none" /\ \A o \in PutOp \cup GetOp : o.name \in {"put", "get"}
  BY DEF NoOp, PutOp, GetOp
<1>2. \A o \in SnapOp : o.name = "snapshot"
  BY DEF SnapOp
<1> QED  BY <1>1, <1>2

LEMMA BlocksOfNode ==
    ASSUME NEW S, NEW n \in S
    PROVE  /\ <<"node", n>> \in BlocksOf(S)
           /\ ValueOf(n) \subseteq BlocksOf(S)
  BY DEF BlocksOf, ValueOf

\* A node without a value has no block for one.
LEMMA NoValueBlock ==
    ASSUME NEW S \in SUBSET Node, NEW n \in Node, value[n] = Null
    PROVE  <<"value", n>> \notin BlocksOf(S)
  BY DEF BlocksOf

\* What a replacement does to the heap: its strdup takes the name that the free gave back.
LEMMA ReplaceHeap ==
    ASSUME IInv
    PROVE  /\ PutReplace => heap' = heap \cup {<<"value", Found>>}
           /\ PutReplaceLoses => heap' = heap \ {<<"value", Found>>}
<1> SUFFICES ASSUME PutReplace \/ PutReplaceLoses
             PROVE  /\ PutReplace => heap' = heap \cup {<<"value", Found>>}
                    /\ PutReplaceLoses => heap' = heap \ {<<"value", Found>>}
  OBVIOUS
<1> DEFINE S == Linked(forward, 0) \cup ({newnode} \ {Null})
<1>1. /\ pc = "putFound" /\ newnode = Null /\ op \in PutOp
      /\ Found \in Linked(forward, 0) /\ Found \in Node
  BY FoundPosition DEF PutReplace, PutReplaceLoses, IInv, CallInv
<1>2. Found \in S /\ S \in SUBSET Node
  BY <1>1 DEF Linked
<1>3. heap = BlocksOf(S)
  <2>1. ~Snapping
    BY <1>1, OpKinds DEF Snapping
  <2> QED  BY <1>1, <2>1 DEF IInv, HeapInv, HeapExact
<1> HIDE DEF S
<1>4. ValueOf(Found) \subseteq heap
  BY <1>2, <1>3, BlocksOfNode
<1>5. Freed(heap, ValueOf(Found)) = heap \ ValueOf(Found)
  BY <1>4, FreedLive
<1>6. value[Found] = Null => <<"value", Found>> \notin heap
  BY <1>1, <1>2, <1>3, NoValueBlock
<1>7. heap \ ValueOf(Found) = heap \ {<<"value", Found>>}
  BY <1>6 DEF ValueOf
<1>8. Strduped(heap \ {<<"value", Found>>}, Found) = heap \cup {<<"value", Found>>}
  BY DEF Strduped
<1> QED  BY <1>5, <1>7, <1>8 DEF PutReplace, PutReplaceLoses

\* The end of a snapshot.
LEMMA SnapHeap ==
    ASSUME IInv, SnapEnd \/ SnapAbort
    PROVE  heap' = heap \ {<<"iterator", Header>>}
<1>1. pc \in {"snap", "getFound"} /\ Snapping
  BY DEF SnapEnd, SnapAbort, Snapping
<1>2. {<<"iterator", Header>>} \subseteq heap
  BY <1>1 DEF IInv, HeapInv, HeapExact
<1> QED  BY <1>2, FreedLive DEF SnapEnd, SnapAbort

\* A turn of the loop of kvs_close, and its end.
LEMMA CloseHeap ==
    ASSUME IInv
    PROVE  /\ CloseNode => heap' = heap \ {<<"value", node>>, <<"node", node>>}
           /\ CloseEnd => heap' = heap \ {<<"node", Header>>, <<"kvs", Header>>}
<1> SUFFICES ASSUME pc = "closing"
             PROVE  /\ CloseNode => heap' = heap \ {<<"value", node>>, <<"node", node>>}
                    /\ CloseEnd => heap' = heap \ {<<"node", Header>>, <<"kvs", Header>>}
  BY DEF CloseNode, CloseEnd
<1> DEFINE L0 == Linked(forward, 0)
<1>1. /\ node = Null \/ node \in L0
      /\ heap = BlocksOf(L0) \ ({"node", "value"} \X Passed)
      /\ L0 \in SUBSET Node /\ Header \notin L0 /\ Passed \subseteq L0
  BY NoNode DEF IInv, HeapInv, Linked, Passed
<1> HIDE DEF L0
<1>2. ASSUME CloseNode  PROVE heap' = heap \ {<<"value", node>>, <<"node", node>>}
  <2>1. node \in L0 /\ node \in Node
    BY <1>1, <1>2 DEF CloseNode
  <2>2. node \notin Passed
    <3>1. node # Null /\ key[node] \in Nat
      BY <2>1, NoNode, LinkedKeys, LevelZero DEF L0
    <3> QED  BY <3>1 DEF Passed
  <2>3. ValueOf(node) \cup {<<"node", node>>} \subseteq BlocksOf(L0)
    BY <2>1, BlocksOfNode
  <2>4. ValueOf(node) \cup {<<"node", node>>} \subseteq heap
    BY <1>1, <2>2, <2>3 DEF ValueOf
  <2>5. heap' = heap \ (ValueOf(node) \cup {<<"node", node>>})
    BY <1>2, <2>4, FreedLive DEF CloseNode
  <2>6. value[node] = Null => <<"value", node>> \notin heap
    BY <1>1, <2>1, NoValueBlock
  <2> QED  BY <2>5, <2>6 DEF ValueOf
<1>3. ASSUME CloseEnd  PROVE heap' = heap \ {<<"node", Header>>, <<"kvs", Header>>}
  <2>1. {<<"node", Header>>, <<"kvs", Header>>} \subseteq heap
    BY <1>1 DEF BlocksOf
  <2> QED  BY <1>3, <2>1, FreedLive DEF CloseEnd
<1> QED  BY <1>2, <1>3

--------------------------------------------------------------------------------
(* Types *)

LEMMA InitTypes == Init => TypeOK
  BY LevelZero, LevelAssumption, NoNode DEF Init, TypeOK, Level, NoPrev

LEMMA GrownLevelType ==
    ASSUME level \in Level, NEW lvl \in Level
    PROVE  GrownLevel(lvl) \in Level /\ level <= GrownLevel(lvl) /\ lvl <= GrownLevel(lvl)
  BY LevelAssumption DEF GrownLevel, Level

LEMMA AnswerType ==
    ASSUME IInv, pc = "getFound"
    PROVE  Answer \in Value \cup {Null}
  BY FoundPosition DEF IInv, TypeOK, Answer

LEMMA TypeStep == IInv /\ [Next]_vars => TypeOK'
<1> SUFFICES ASSUME IInv, [Next]_vars  PROVE TypeOK'
  OBVIOUS
<1> USE LevelZero, NoNode
<1>0. TypeOK
  BY DEF IInv
<1>1. CASE KvsOpen \/ KvsOpenFails
  <2>1. heap' \subseteq {"kvs", "node", "value", "value2", "iterator"} \X Ptr
    BY <1>0, <1>1 DEF KvsOpen, KvsOpenFails, TypeOK
  <2>2. forward' \in [Ptr -> [Level -> Node \cup {Null, Unset}]]
    BY <1>0, <1>1 DEF KvsOpen, KvsOpenFails, TypeOK, listVars
  <2> QED  BY <1>0, <1>1, <2>1, <2>2
           DEF KvsOpen, KvsOpenFails, TypeOK, listVars, localVars, snapVars
<1>2. CASE PutCall \/ GetCall
  BY <1>0, <1>2 DEF PutCall, GetCall, Search, TypeOK, listVars, snapVars, NoPrev
<1>3. CASE SnapCall \/ CloseCall
  <2>1. forward[Header][0] \in Node \cup {Null}
    <3>1. pc = "idle" /\ Header \in OnLevel(forward, 0)
      BY <1>3 DEF SnapCall, CloseCall, OnLevel
    <3> QED  BY <3>1, PointerIsLinked DEF Linked
  <2> QED  BY <1>0, <1>3, <2>1 DEF SnapCall, CloseCall, TypeOK, listVars, localVars, snapVars
<1>4. CASE PutAdvance \/ GetAdvance
  <2>1. pc \in {"putSearch", "getSearch"} /\ forward[node][i] # Null
    BY <1>4 DEF PutAdvance, GetAdvance, MustAdvance
  <2>2. forward[node][i] \in Node
    BY <2>1, SearchPosition
  <2> QED  BY <1>0, <1>4, <2>2 DEF PutAdvance, GetAdvance, TypeOK, listVars, snapVars
<1>5. CASE PutDescend \/ GetDescend
  <2>1. i # 0 => i - 1 \in Level
    BY <1>0, LevelAssumption DEF TypeOK, Level
  <2>2. node \in Ptr
    BY <1>5, SearchPosition DEF PutDescend, GetDescend
  <2> QED  BY <1>0, <1>5, <2>1, <2>2 DEF PutDescend, GetDescend, TypeOK, listVars, snapVars
<1>6. CASE PutReplace \/ PutReplaceLoses
  <2>1. pc = "putFound" /\ Found \in Node /\ op.value \in Value
    BY <1>6, FoundPosition DEF PutReplace, PutReplaceLoses, IInv, CallInv, PutOp
  <2>2. heap' \subseteq {"kvs", "node", "value", "value2", "iterator"} \X Ptr
    BY <1>0, <1>6, <2>1, ReplaceHeap DEF TypeOK
  <2>3. value' \in [Node -> Value \cup {Null}]
    BY <1>0, <1>6, <2>1 DEF PutReplace, PutReplaceLoses, TypeOK
  <2>4. Return(0) /\ UNCHANGED <<level, items, forward, key, snapVars>>
    BY <1>6 DEF PutReplace, PutReplaceLoses
  <2> QED  BY <1>0, <2>2, <2>3, <2>4 DEF Return, Leave, TypeOK, snapVars, NoPrev
<1>7. CASE PutCreate
  <2>1. pc = "putFound" /\ op.key \in Key /\ op.value \in Value
    BY <1>7 DEF PutCreate, IInv, CallInv, PutOp
  <2>2. PICK lvl \in Level, n \in Node, v \in {op.value, Null} :
          /\ prev' = GrownPrev(lvl) /\ level' = GrownLevel(lvl)
          /\ heap' = heap \cup {<<"node", n>>} \cup (IF v = Null THEN {} ELSE {<<"value", n>>})
          /\ key' = [key EXCEPT ![n] = op.key]
          /\ value' = [value EXCEPT ![n] = v]
          /\ newnode' = n /\ top' = lvl
    BY <1>7 DEF PutCreate, RandLv, Level
  <2>3. pc' = "putLink" /\ i' = 0 /\ UNCHANGED <<op, ret, items, forward, node, snapVars>>
    BY <1>7 DEF PutCreate
  <2>4. level' \in Level /\ prev' \in [Level -> Ptr \cup {Unset}]
    BY <1>0, <2>2, GrownLevelType DEF GrownPrev, TypeOK
  <2>5. heap' \subseteq {"kvs", "node", "value", "value2", "iterator"} \X Ptr
    BY <1>0, <2>2 DEF TypeOK
  <2>6. key' \in [Node -> Key \cup {Null}] /\ value' \in [Node -> Value \cup {Null}]
    BY <1>0, <2>1, <2>2 DEF TypeOK
  <2> QED  BY <1>0, <2>2, <2>3, <2>4, <2>5, <2>6 DEF TypeOK, snapVars
<1>8. CASE PutLink
  <2>1. forward' \in [Ptr -> [Level -> Node \cup {Null, Unset}]]
    BY <1>8, LinkPosition, Types, RawValue DEF PutLink, RawMaps
  <2>2. i # top => i + 1 \in Level
    BY <1>8, LinkPosition, LevelAssumption DEF PutLink, Level
  <2> QED  BY <1>0, <1>8, <2>1, <2>2 DEF PutLink, Return, Leave, TypeOK, snapVars, NoPrev
<1>9. CASE GetReturn
  BY <1>0, <1>9, AnswerType DEF GetReturn, Return, Leave, TypeOK, listVars, snapVars, NoPrev
<1>10. CASE SnapWrite
  <2>1. pc = "getFound" /\ op.key \in Key
    BY <1>10, OpKey DEF SnapWrite
  <2>2. out' \in Seq(Key \X Value)
    BY <1>0, <1>10, <2>1, AnswerType DEF SnapWrite, TypeOK
  <2> QED  BY <1>0, <1>10, <2>2 DEF SnapWrite, Leave, TypeOK, listVars, NoPrev
<1>11. CASE SnapAbort
  <2>1. heap' \subseteq {"kvs", "node", "value", "value2", "iterator"} \X Ptr
    BY <1>0, <1>11, SnapHeap DEF TypeOK
  <2>2. Leave("idle") /\ it' = Null /\ out' = <<>> /\ UNCHANGED <<ret, listVars>>
    BY <1>11 DEF SnapAbort
  <2> QED  BY <1>0, <2>1, <2>2 DEF Leave, TypeOK, listVars, NoPrev
<1>12. CASE SnapNext
  <2>1. pc = "snap" /\ it \in Linked(forward, 0)
    BY <1>12 DEF SnapNext, IInv, SnapInv
  <2>2. forward[it][0] \in Node \cup {Null} /\ key[it] \in Key
    BY <2>1, PointerIsLinked, LinkedKeys DEF OnLevel, Linked
  <2>3. op' \in SnapOp /\ pc' = "getSearch" /\ node' = Header /\ i' = level /\ it' = forward[it][0]
    BY <1>12, <2>2 DEF SnapNext, Search, SnapOp
  <2>4. UNCHANGED <<ret, listVars, prev, newnode, top, out, heap>>
    BY <1>12 DEF SnapNext
  <2> QED  BY <1>0, <2>2, <2>3, <2>4 DEF TypeOK, listVars
<1>13. CASE SnapEnd
  <2>1. heap' \subseteq {"kvs", "node", "value", "value2", "iterator"} \X Ptr
    BY <1>0, <1>13, SnapHeap DEF TypeOK
  <2>2. pc' = "idle" /\ out' = <<>> /\ UNCHANGED <<op, ret, listVars, localVars, it>>
    BY <1>13 DEF SnapEnd
  <2> QED  BY <1>0, <2>1, <2>2 DEF TypeOK, listVars, localVars
<1>14. CASE CloseNode
  <2>1. pc = "closing" /\ node \in Linked(forward, 0)
    BY <1>14 DEF CloseNode, IInv, HeapInv
  <2>2. forward[node][0] \in Node \cup {Null}
    BY <2>1, PointerIsLinked DEF OnLevel, Linked
  <2> QED  BY <1>0, <1>14, <2>2, CloseHeap DEF CloseNode, TypeOK, listVars, snapVars
<1>15. CASE CloseEnd
  BY <1>0, <1>15, CloseHeap DEF CloseEnd, TypeOK, listVars, localVars, snapVars
<1>16. CASE PutDies \/ SnapDies \/ Ended \/ UNCHANGED vars
  BY <1>0, <1>16 DEF PutDies, SnapDies, Dies, Ended, vars, TypeOK, listVars, localVars, snapVars
<1> QED  BY <1>1, <1>2, <1>3, <1>4, <1>5, <1>6, <1>7, <1>8, <1>9, <1>10, <1>11, <1>12, <1>13,
            <1>14, <1>15, <1>16 DEF Next, Step

--------------------------------------------------------------------------------
(* The lists *)

LEMMA ListsSame ==
    ASSUME LevelSorted, ListInv, UNCHANGED <<level, forward, key>>,
           pc \notin {"new", "done"} \/ pc' = pc
    PROVE  LevelSorted' /\ ListInv'
  BY DEF LevelSorted, ListInv

LEMMA ListsOpen == IInv /\ (KvsOpen \/ KvsOpenFails) => LevelSorted' /\ ListInv'
<1> SUFFICES ASSUME IInv, KvsOpen \/ KvsOpenFails  PROVE LevelSorted' /\ ListInv'
  OBVIOUS
<1> USE NoNode
<1>0. /\ pc = "new" /\ forward = [p \in Ptr |-> [j \in Level |-> Unset]]
      /\ \A j \in Level : Linked(forward, j) = {}
  BY NothingLinked DEF KvsOpen, KvsOpenFails, IInv, CallInv
<1>1. \A j \in Level : Linked(forward', j) = {}
  BY <1>0 DEF KvsOpen, KvsOpenFails, Linked, listVars
<1>2. /\ \A n \in Node : \A j \in Level : forward'[n][j] = Unset
      /\ pc' # "done" => \A j \in Level : forward'[Header][j] = Null
  BY <1>0 DEF KvsOpen, KvsOpenFails, listVars
<1>3. ListInv'
  BY <1>1, <1>2, LevelZero DEF ListInv
<1>4. LevelSorted'
  <2> SUFFICES ASSUME NEW j \in Level  PROVE Sorted(forward', key', j)
    BY DEF LevelSorted
  <2> QED  BY <1>1 DEF Sorted, IsNext, OnLevel, Precedes
<1> QED  BY <1>3, <1>4

LEMMA ListsCreate == IInv /\ PutCreate => LevelSorted' /\ ListInv'
<1> SUFFICES ASSUME IInv, PutCreate  PROVE LevelSorted' /\ ListInv'
  OBVIOUS
<1>1. PICK lvl \in Level, n \in Node :
        Fresh(n) /\ level' = GrownLevel(lvl) /\ key' = [key EXCEPT ![n] = op.key]
  BY DEF PutCreate, RandLv, Level
<1>2. pc = "putFound" /\ forward' = forward /\ level \in Level
  BY Types DEF PutCreate
<1>3. level' \in Level /\ level <= level'
  BY <1>1, <1>2, GrownLevelType
<1>4. \A j \in Level : \A m \in Linked(forward, j) : m # n /\ key[m] = key'[m]
  BY <1>1, <1>2, FreshIsUnlinked, Types DEF KeyMaps, Linked
<1>5. LevelSorted'
  <2> SUFFICES ASSUME NEW j \in Level  PROVE Sorted(forward, key', j)
    BY <1>2 DEF LevelSorted
  <2>1. AllSet(forward, j) /\ Sorted(forward, key, j)
    BY <1>2, PointersSet
  <2> QED  BY <1>4, <2>1, Types, RawSameKeys
<1>6. ListInv'
  <2>1. ASSUME NEW j \in Level, NEW m \in Linked(forward, j)  PROVE j <= level'
    <3>1. j <= level
      BY LinkedKeys
    <3> QED  BY <3>1, <1>2, <1>3, LevelZero
  <2>2. \A m \in Linked(forward, 0) : key'[m] = key[m]
    BY <1>4, LevelZero
  <2> QED  BY <1>2, <2>1, <2>2 DEF IInv, ListInv
<1> QED  BY <1>5, <1>6

LEMMA ListsLink == IInv /\ PutLink => LevelSorted' /\ ListInv'
<1> SUFFICES ASSUME IInv, PutLink  PROVE LevelSorted' /\ ListInv'
  OBVIOUS
<1> DEFINE p == prev[i]
<1>0. pc = "putLink" /\ forward' = InsertAfter(forward, p, newnode, i) /\ UNCHANGED <<level, key>>
  BY DEF PutLink
<1>1. /\ newnode \in Node /\ key[newnode] = op.key /\ i \in Level /\ top \in Level
      /\ i <= top /\ top <= level /\ p \in Ptr /\ p # newnode
      /\ IsLastBefore(forward, key, p, op.key, i)
      /\ newnode \notin Linked(forward, i) /\ forward[newnode][i] = Unset
  BY <1>0, LinkPosition
<1>2. /\ forward \in RawMaps /\ key \in KeyMaps /\ op.key \in Key
      /\ \A l \in Level : AllSet(forward, l) /\ Sorted(forward, key, l)
  BY <1>0, Types, PointersSet, OpKey
<1>3. /\ Linked(forward', i) = Linked(forward, i) \cup {newnode}
      /\ \A l \in Level \ {i} : Linked(forward', l) = Linked(forward, l)
  BY <1>0, <1>1, <1>2, RawLinks
<1>4. /\ forward'[p][i] = newnode /\ forward'[newnode][i] = forward[p][i]
      /\ \A q \in Ptr \ {p, newnode} : forward'[q] = forward[q]
      /\ \A q \in Ptr, l \in Level \ {i} : forward'[q][l] = forward[q][l]
  BY <1>0, <1>1, <1>2, RawValue
<1>5. \A j \in Level : \A n \in Linked(forward, j) :
        n \in Linked(forward, 0) /\ key[n] \in Key /\ n \in Node /\ (n # newnode => key[n] # op.key)
  BY <1>0, LinkedKeys DEF IInv, LinkInv
<1>6. \A m, n \in Linked(forward, 0) : key[m] = key[n] => m = n
  BY DEF IInv, ListInv
<1>7. \A l \in Level : AllSet(forward', l) /\ Sorted(forward', key, l)
  <2>1. /\ \A n \in Linked(forward, i) : key[n] \in Key /\ key[n] # key[newnode]
        /\ \A a, b \in Linked(forward, i) : key[a] = key[b] => a = b
    BY <1>1, <1>5, <1>6
  <2> QED  BY <1>0, <1>1, <1>2, <2>1, RawSorted
<1>8. LevelSorted'
  BY <1>0, <1>7 DEF LevelSorted
<1>9. ASSUME NEW n \in Node, NEW j \in Level
      PROVE  n \in Linked(forward', j) <=> forward'[n][j] # Unset
  <2>1. n \in Linked(forward, j) <=> forward[n][j] # Unset
    BY DEF IInv, ListInv
  <2>2. CASE j # i
    BY <1>3, <1>4, <2>1, <2>2, NoNode
  <2>3. CASE j = i /\ n \notin {p, newnode}
    BY <1>3, <1>4, <2>1, <2>3, NoNode
  <2>4. CASE j = i /\ n = newnode
    <3>1. forward[p][i] # Unset
      BY <1>1, <1>2 DEF AllSet, IsLastBefore
    <3> QED  BY <1>3, <1>4, <2>4, <3>1
  <2>5. CASE j = i /\ n = p
    <3>1. p \in Linked(forward, i)
      BY <1>1, <2>5, NoNode DEF IsLastBefore, OnLevel
    <3> QED  BY <1>1, <1>3, <1>4, <2>5, <3>1, NoNode
  <2> QED  BY <2>2, <2>3, <2>4, <2>5
<1>10. \A j \in Level : forward'[Header][j] # Unset
  BY <1>7 DEF AllSet, OnLevel
<1>11. ASSUME NEW j \in Level, NEW n \in Linked(forward', j)
       PROVE  j <= level /\ \A l \in 0..j : n \in Linked(forward', l)
  <2>1. \A l \in 0..j : l \in Level
    BY LevelAssumption DEF Level
  <2>2. CASE n \in Linked(forward, j)
    BY <1>3, <2>1, <2>2 DEF IInv, ListInv
  <2>3. CASE n \notin Linked(forward, j)
    <3>1. n = newnode /\ j = i
      BY <1>3, <2>3
    <3>2. \A l \in 0..j : l = i \/ l < i
      <4>1. i \in Int
        BY <1>1, LevelZero
      <4> QED  BY <3>1, <4>1
    <3>3. \A l \in Level : l < i => newnode \in Linked(forward, l) /\ l # i
      <4>1. ~(i < i)
        <5>1. i \in Int
          BY <1>1, LevelZero
        <5> QED  BY <5>1
      <4>2. \A l \in Level : l < i => newnode \in Linked(forward, l)
        BY <1>0 DEF IInv, LinkInv
      <4> QED  BY <4>1, <4>2
    <3>4. i <= level
      <4>1. i \in Int /\ top \in Int /\ level \in Int /\ i <= top /\ top <= level
        BY <1>1, Types, LevelZero
      <4> QED  BY <4>1
    <3> QED  BY <1>3, <2>1, <3>1, <3>2, <3>3, <3>4
  <2> QED  BY <2>2, <2>3
<1>12. \/ Linked(forward', 0) = Linked(forward, 0)
       \/ i = 0 /\ Linked(forward', 0) = Linked(forward, 0) \cup {newnode}
  BY <1>3, LevelZero
<1>13. /\ \A n \in Linked(forward', 0) : key[n] \in Key
       /\ \A m, n \in Linked(forward', 0) : key[m] = key[n] => m = n
  BY <1>1, <1>2, <1>5, <1>6, <1>12, LevelZero
<1> QED  BY <1>0, <1>8, <1>9, <1>10, <1>11, <1>13 DEF ListInv

LEMMA ListsStep == IInv /\ [Next]_vars => LevelSorted' /\ ListInv'
<1> SUFFICES ASSUME IInv, [Next]_vars  PROVE LevelSorted' /\ ListInv'
  OBVIOUS
<1>1. CASE \/ PutCall \/ GetCall \/ SnapCall \/ SnapDies \/ CloseCall
           \/ PutAdvance \/ PutDescend \/ PutReplace \/ PutReplaceLoses \/ PutDies
           \/ GetAdvance \/ GetDescend \/ GetReturn \/ SnapNext \/ SnapWrite \/ SnapAbort
           \/ SnapEnd \/ CloseNode \/ CloseEnd
  <2>1. UNCHANGED <<level, forward, key>> /\ pc \notin {"new", "done"}
    BY <1>1 DEF PutCall, GetCall, SnapCall, SnapDies, CloseCall, PutAdvance, PutDescend,
       PutReplace, PutReplaceLoses, PutDies, Dies, GetAdvance, GetDescend, GetReturn, SnapNext,
       SnapWrite, SnapAbort, SnapEnd, CloseNode, CloseEnd, listVars
  <2> QED  BY <2>1, ListsSame DEF IInv
<1>2. CASE Ended \/ UNCHANGED vars
  <2>1. UNCHANGED <<level, forward, key, pc>>
    BY <1>2 DEF Ended, vars, listVars
  <2> QED  BY <2>1, ListsSame DEF IInv
<1> QED  BY <1>1, <1>2, ListsOpen, ListsCreate, ListsLink DEF Next, Step

--------------------------------------------------------------------------------
(* The locals and the searches *)

LEMMA CallStep == IInv /\ [Next]_vars => CallInv'
<1> SUFFICES ASSUME IInv, [Next]_vars  PROVE CallInv'
  OBVIOUS
<1>0. CallInv /\ TypeOK
  BY DEF IInv
<1>1. CASE KvsOpen \/ KvsOpenFails
  BY <1>0, <1>1 DEF KvsOpen, KvsOpenFails, CallInv, localVars
<1>2. CASE PutCall \/ GetCall
  BY <1>0, <1>2 DEF PutCall, GetCall, Search, CallInv
<1>3. CASE SnapCall \/ CloseCall \/ CloseNode \/ CloseEnd
  BY <1>0, <1>3 DEF SnapCall, CloseCall, CloseNode, CloseEnd, CallInv, localVars
<1>4. CASE PutAdvance \/ GetAdvance \/ PutDescend \/ GetDescend
  BY <1>0, <1>4 DEF PutAdvance, GetAdvance, PutDescend, GetDescend, CallInv
<1>5. CASE PutReplace \/ PutReplaceLoses \/ GetReturn \/ SnapWrite \/ SnapAbort
  BY <1>0, <1>5 DEF PutReplace, PutReplaceLoses, GetReturn, SnapWrite, SnapAbort, Return, Leave, CallInv
<1>6. CASE PutCreate
  BY <1>0, <1>6, NoNode DEF PutCreate, CallInv
<1>7. CASE PutLink
  <2>1. CASE i = top
    BY <1>0, <1>7, <2>1 DEF PutLink, Return, Leave, CallInv
  <2>2. CASE i # top
    BY <1>0, <1>7, <2>2 DEF PutLink, CallInv
  <2> QED  BY <2>1, <2>2
<1>8. CASE SnapNext
  <2>1. pc = "snap" /\ it \in Linked(forward, 0)
    BY <1>8 DEF SnapNext, IInv, SnapInv
  <2>2. key[it] \in Key
    BY <2>1, LinkedKeys, LevelZero
  <2> QED  BY <1>0, <1>8, <2>2 DEF SnapNext, Search, SnapOp, CallInv
<1>9. CASE SnapEnd
  BY <1>0, <1>9 DEF SnapEnd, CallInv, localVars
<1>10. CASE PutDies \/ SnapDies
  BY <1>0, <1>10 DEF PutDies, SnapDies, Dies, CallInv, localVars
<1>11. CASE Ended \/ UNCHANGED vars
  BY <1>0, <1>11 DEF Ended, vars, CallInv, listVars, localVars
<1> QED  BY <1>1, <1>2, <1>3, <1>4, <1>5, <1>6, <1>7, <1>8, <1>9, <1>10, <1>11 DEF Next, Step

\* Where the search goes on one level further down.
LEMMA LowerLevel ==
    ASSUME IInv, NEW j \in Level, j # 0
    PROVE  j - 1 \in Level /\ OnLevel(forward, j) \subseteq OnLevel(forward, j - 1)
<1>1. j - 1 \in Level /\ j - 1 \in 0..j
  BY LevelAssumption DEF Level
<1> QED  BY <1>1 DEF IInv, ListInv, OnLevel

LEMMA SearchStep == IInv /\ [Next]_vars => SearchInv'
<1> SUFFICES ASSUME IInv, [Next]_vars  PROVE SearchInv'
  OBVIOUS
<1>0. SearchInv /\ level \in Level /\ i \in Level
  BY Types DEF IInv
<1>1. CASE PutCall \/ GetCall \/ SnapNext
  <2>1. /\ node' = Header /\ i' = level /\ UNCHANGED <<level, forward, key>>
        /\ pc' \in {"putSearch", "getSearch"}
    BY <1>1 DEF PutCall, GetCall, SnapNext, Search, listVars
  <2>2. level <= level /\ \A j \in Level : ~(level < j /\ j <= level)
    BY <1>0, LevelZero
  <2> QED  BY <2>1, <2>2 DEF SearchInv, OnLevel, Precedes
<1>2. CASE PutAdvance \/ GetAdvance
  <2>1. /\ pc \in {"putSearch", "getSearch"} /\ MustAdvance
        /\ node' = forward[node][i]
        /\ UNCHANGED <<pc, op, level, forward, key, i, prev>>
    BY <1>2 DEF PutAdvance, GetAdvance, listVars
  <2>2. node' \in OnLevel(forward, i)
    BY <2>1, SearchPosition DEF OnLevel, MustAdvance
  <2>3. Precedes(key, node', op.key)
    BY <2>1 DEF Precedes, MustAdvance
  <2> QED  BY <1>0, <2>1, <2>2, <2>3 DEF SearchInv
<1>3. CASE PutDescend \/ GetDescend
  <2>1. /\ pc \in {"putSearch", "getSearch"} /\ ~MustAdvance
        /\ UNCHANGED <<op, level, forward, key, node>>
        /\ pc = "putSearch" => prev' = [prev EXCEPT ![i] = node]
        /\ pc' = IF i # 0 THEN pc ELSE IF pc = "putSearch" THEN "putFound" ELSE "getFound"
        /\ i' = IF i = 0 THEN 0 ELSE i - 1
    BY <1>3 DEF PutDescend, GetDescend, listVars
  <2>2. IsLastBefore(forward, key, node, op.key, i)
    BY <2>1, DescendPosition
  <2>3. i <= level /\ node \in OnLevel(forward, i) /\ Precedes(key, node, op.key)
    BY <2>1 DEF IInv, SearchInv
  <2>4. pc = "putSearch" => \A j \in Level :
          i <= j /\ j <= level => IsLastBefore(forward, key, prev'[j], op.key, j)
    <3> SUFFICES ASSUME pc = "putSearch", NEW j \in Level, i <= j, j <= level
                 PROVE  IsLastBefore(forward, key, prev'[j], op.key, j)
      OBVIOUS
    <3>1. prev'[j] = IF j = i THEN node ELSE prev[j]
      BY <1>0, <2>1 DEF IInv, TypeOK
    <3>2. j # i => i < j
      BY <1>0, LevelZero
    <3>3. i < j => IsLastBefore(forward, key, prev[j], op.key, j)
      BY <1>0 DEF SearchInv
    <3> QED  BY <2>2, <3>1, <3>2, <3>3
  <2>5. CASE i = 0
    <3>1. \A j \in Level : i <= j
      BY <2>5, LevelAssumption DEF Level
    <3>2. pc' \in {"putFound", "getFound"} /\ (pc' = "putFound" => pc = "putSearch")
      BY <2>1, <2>5
    <3> QED  BY <2>1, <2>2, <2>4, <2>5, <3>1, <3>2 DEF SearchInv
  <2>6. CASE i # 0
    <3>1. node \in OnLevel(forward, i - 1)
      BY <1>0, <2>3, <2>6, LowerLevel
    <3>2. i - 1 <= level /\ \A j \in Level : (i - 1 < j => i <= j)
      BY <1>0, <2>3, LevelZero
    <3>3. pc' = pc /\ i' = i - 1
      BY <2>1, <2>6
    <3> QED  BY <2>1, <2>3, <2>4, <3>1, <3>2, <3>3 DEF SearchInv
  <2> QED  BY <2>5, <2>6
<1>4. CASE Ended \/ UNCHANGED vars
  <2>1. UNCHANGED <<pc, op, level, forward, key, node, i, prev>>
    BY <1>4 DEF Ended, vars, listVars, localVars
  <2> QED  BY <1>0, <2>1 DEF SearchInv
<1>5. CASE \/ KvsOpen \/ KvsOpenFails \/ SnapCall \/ SnapDies \/ CloseCall
           \/ PutReplace \/ PutReplaceLoses \/ PutCreate \/ PutDies \/ PutLink
           \/ GetReturn \/ SnapWrite \/ SnapAbort \/ SnapEnd \/ CloseNode \/ CloseEnd
  <2>1. pc' \notin {"putSearch", "getSearch", "putFound", "getFound"}
    BY <1>5 DEF KvsOpen, KvsOpenFails, SnapCall, SnapDies, Dies, CloseCall, PutReplace,
       PutReplaceLoses, PutCreate, PutDies, PutLink, GetReturn, SnapWrite, SnapAbort, SnapEnd,
       CloseNode, CloseEnd, Return, Leave
  <2> QED  BY <2>1 DEF SearchInv
<1> QED  BY <1>1, <1>2, <1>3, <1>4, <1>5 DEF Next, Step

--------------------------------------------------------------------------------
(* The linking loop *)

\* Before the first turn: what the search left in prev_node, the header on the new levels.
LEMMA LinkCreate == IInv /\ PutCreate => LinkInv'
<1> SUFFICES ASSUME IInv, PutCreate  PROVE LinkInv'
  OBVIOUS
<1>1. PICK lvl \in Level, n \in Node, v \in {op.value, Null} :
        /\ Fresh(n) /\ prev' = GrownPrev(lvl) /\ level' = GrownLevel(lvl)
        /\ key' = [key EXCEPT ![n] = op.key] /\ value' = [value EXCEPT ![n] = v]
        /\ newnode' = n /\ top' = lvl
  BY DEF PutCreate, RandLv, Level
<1>2. pc = "putFound" /\ Found = Null /\ i' = 0 /\ forward' = forward /\ op' = op
  BY DEF PutCreate
<1>3. \A j \in Level : n \notin Linked(forward, j)
  BY <1>1, <1>2, FreshIsUnlinked
<1>4. key'[n] = op.key /\ value'[n] = v /\ \A m \in Node \ {n} : key'[m] = key[m]
  BY <1>1, Types DEF KeyMaps, IInv, TypeOK
<1>5. level \in Level /\ level \in Int /\ lvl \in Int /\ 0 <= lvl /\ lvl <= level'
  BY <1>1, Types, GrownLevelType, LevelZero DEF Level
<1>6. \A m \in Linked(forward, 0) \ {n} : key'[m] # op.key
  BY <1>2, <1>4, FoundPosition DEF Linked
<1>7. ASSUME NEW j \in 0..lvl  PROVE IsLastBefore(forward, key', prev'[j], op.key, j)
  <2>1. j \in Level /\ j \in Int /\ j <= lvl
    BY <1>1, LevelAssumption DEF Level
  <2>2. AllSet(forward, j)
    BY <1>2, <2>1, PointersSet
  <2>3. prev'[j] = IF level < j THEN Header ELSE prev[j]
    BY <1>1, <2>1 DEF GrownPrev
  <2>4. IsLastBefore(forward, key, prev'[j], op.key, j)
    <3>1. CASE level < j
      <4>1. \A m \in Linked(forward, j) : j <= level
        BY <2>1, LinkedKeys
      <4>2. Linked(forward, j) = {}
        BY <1>5, <2>1, <3>1, <4>1
      <4>3. forward[Header][j] = Null
        BY <1>2, <2>1, <4>2, PointerIsLinked DEF OnLevel
      <4> QED  BY <2>3, <3>1, <4>3 DEF IsLastBefore, OnLevel, Precedes
    <3>2. CASE ~(level < j)
      <4>1. j <= level
        BY <1>5, <2>1, <3>2
      <4> QED  BY <1>2, <2>1, <2>3, <3>2, <4>1 DEF IInv, SearchInv
    <3> QED  BY <3>1, <3>2
  <2>5. \A m \in Linked(forward, j) : key[m] = key'[m]
    BY <1>3, <1>4, <2>1 DEF Linked
  <2> QED  BY <2>1, <2>2, <2>4, <2>5, Types, RawSameKeys
<1>8. \A j \in Level : n \in Linked(forward, j) <=> j < 0
  BY <1>3, LevelAssumption DEF Level
<1> QED  BY <1>1, <1>2, <1>4, <1>5, <1>6, <1>7, <1>8 DEF LinkInv

\* One turn that is not the last.
LEMMA LinkTurn == IInv /\ PutLink /\ i # top => LinkInv'
<1> SUFFICES ASSUME IInv, PutLink, i # top  PROVE LinkInv'
  OBVIOUS
<1> DEFINE p == prev[i]
<1>0. /\ pc = "putLink" /\ i' = i + 1 /\ UNCHANGED <<level, key, value, op, prev, newnode, top>>
      /\ forward' = InsertAfter(forward, p, newnode, i)
  BY DEF PutLink
<1>1. /\ newnode \in Node /\ key[newnode] = op.key /\ i \in Level /\ top \in Level
      /\ i <= top /\ top <= level /\ p \in Ptr /\ p # newnode
      /\ IsLastBefore(forward, key, p, op.key, i)
      /\ newnode \notin Linked(forward, i) /\ forward[newnode][i] = Unset
  BY <1>0, LinkPosition
<1>2. /\ forward \in RawMaps /\ key \in KeyMaps /\ op.key \in Key
      /\ \A l \in Level : AllSet(forward, l) /\ Sorted(forward, key, l)
  BY <1>0, Types, PointersSet, OpKey
<1>3. /\ Linked(forward', i) = Linked(forward, i) \cup {newnode}
      /\ \A l \in Level \ {i} : Linked(forward', l) = Linked(forward, l)
  BY <1>0, <1>1, <1>2, RawLinks
<1>4. /\ value[newnode] \in {op.value, Null}
      /\ \A n \in Linked(forward, 0) \ {newnode} : key[n] # op.key
      /\ \A j \in Level : newnode \in Linked(forward, j) <=> j < i
      /\ \A j \in i..top : IsLastBefore(forward, key, prev[j], op.key, j)
  BY <1>0 DEF IInv, LinkInv
<1>5. \A l \in Level \ {i} : \A q, x :
        IsLastBefore(forward, key, q, x, l) => IsLastBefore(forward', key, q, x, l)
  <2>1. /\ \A n \in Linked(forward, i) : key[n] \in Key /\ key[n] # key[newnode]
        /\ \A a, b \in Linked(forward, i) : key[a] = key[b] => a = b
    <3>1. \A n \in Linked(forward, i) : n \in Linked(forward, 0) /\ key[n] \in Key
      BY <1>1, LinkedKeys
    <3> QED  BY <1>1, <1>4, <3>1 DEF IInv, ListInv
  <2> QED  BY <1>0, <1>1, <1>2, <2>1, RawSorted
<1>6. i \in Int /\ top \in Int
  BY <1>1, LevelZero
<1>7. i + 1 <= top
  BY <1>1, <1>6
<1>8. ASSUME NEW j \in (i + 1)..top  PROVE IsLastBefore(forward', key, prev[j], op.key, j)
  <2>1. j \in Level \ {i} /\ j \in i..top
    BY <1>1, LevelAssumption DEF Level
  <2>2. IsLastBefore(forward, key, prev[j], op.key, j)
    BY <1>4, <2>1
  <2> QED  BY <1>5, <2>1, <2>2
<1>9. ASSUME NEW j \in Level  PROVE newnode \in Linked(forward', j) <=> j < i + 1
  <2>1. j \in Int
    BY LevelZero
  <2>2. j < i + 1 <=> j < i \/ j = i
    BY <1>6, <2>1
  <2> QED  BY <1>3, <1>4, <2>2
<1>10. \A n \in Linked(forward', 0) \ {newnode} : key[n] # op.key
  BY <1>3, <1>4, LevelZero
<1> QED  BY <1>0, <1>1, <1>4, <1>7, <1>8, <1>9, <1>10 DEF LinkInv

LEMMA LinkStep == IInv /\ [Next]_vars => LinkInv'
<1> SUFFICES ASSUME IInv, [Next]_vars  PROVE LinkInv'
  OBVIOUS
<1>1. CASE PutLink
  <2>1. CASE i = top
    BY <1>1, <2>1 DEF PutLink, Return, Leave, LinkInv
  <2> QED  BY <1>1, <2>1, LinkTurn
<1>2. CASE Ended \/ UNCHANGED vars
  <2>1. UNCHANGED <<pc, op, level, forward, key, value, i, prev, newnode, top>>
    BY <1>2 DEF Ended, vars, listVars, localVars
  <2> QED  BY <2>1 DEF IInv, LinkInv
<1>3. CASE \/ KvsOpen \/ KvsOpenFails \/ PutCall \/ GetCall \/ SnapCall \/ SnapDies \/ CloseCall
           \/ PutAdvance \/ PutDescend \/ PutReplace \/ PutReplaceLoses \/ PutDies
           \/ GetAdvance \/ GetDescend \/ GetReturn \/ SnapNext \/ SnapWrite \/ SnapAbort
           \/ SnapEnd \/ CloseNode \/ CloseEnd
  <2>1. pc' # "putLink"
    BY <1>3 DEF KvsOpen, KvsOpenFails, PutCall, GetCall, SnapCall, SnapDies, Dies, CloseCall,
       PutAdvance, PutDescend, PutReplace, PutReplaceLoses, PutDies, GetAdvance, GetDescend,
       GetReturn, SnapNext, SnapWrite, SnapAbort, SnapEnd, CloseNode, CloseEnd, Search, Return, Leave
  <2> QED  BY <2>1 DEF LinkInv
<1> QED  BY <1>1, <1>2, <1>3, LinkCreate DEF Next, Step

--------------------------------------------------------------------------------
(* The snapshot *)

\* The next node of level 0 is the next one the iterator and kvs_close come to.
LEMMA NextPassed ==
    ASSUME IInv, pc \notin {"new", "done"}, NEW c \in OnLevel(forward, 0)
    PROVE  LET next == forward[c][0]
           IN  \A n \in Linked(forward, 0) :
                 (next = Null \/ key[n] < key[next]) <=> c # Header /\ (n = c \/ key[n] < key[c])
<1> DEFINE next == forward[c][0]
<1>1. IsNext(forward, key, c, next, 0)
  BY LevelZero, PointersSet DEF Sorted
<1>2. \A n \in Linked(forward, 0) : key[n] \in Nat
  BY LinkedKeys, LevelZero
<1>3. c # Header => c \in Linked(forward, 0)
  BY DEF OnLevel
<1>4. next # Null => next \in Linked(forward, 0)
  BY PointerIsLinked, LevelZero
<1>5. \A m, n \in Linked(forward, 0) : key[m] = key[n] => m = n
  BY DEF IInv, ListInv
<1> SUFFICES ASSUME NEW n \in Linked(forward, 0)
             PROVE  (next = Null \/ key[n] < key[next]) <=> c # Header /\ (n = c \/ key[n] < key[c])
  OBVIOUS
<1> HIDE DEF next
<1>6. ASSUME next = Null \/ key[n] < key[next]
      PROVE  c # Header /\ (n = c \/ key[n] < key[c])
  <2>1. ~Precedes(key, c, key[n])
    BY <1>1, <1>2, <1>4, <1>6 DEF IsNext
  <2>2. c # Header /\ ~(key[c] < key[n])
    BY <2>1 DEF Precedes
  <2> QED  BY <1>2, <1>3, <1>5, <2>2
<1>7. ASSUME c # Header, n = c \/ key[n] < key[c], next # Null
      PROVE  key[n] < key[next]
  <2>1. key[c] < key[next]
    BY <1>1, <1>7 DEF IsNext, Precedes
  <2> QED  BY <1>2, <1>3, <1>4, <1>7, <2>1
<1> QED  BY <1>6, <1>7

\* No snapshot is taken, or none any more.
LEMMA SnapOff == it' = Null /\ out' = <<>> /\ ~Snapping' => SnapInv'
  BY DEF SnapInv, Snapping, SnapshotExact

\* The search of a snapshot's get.
LEMMA SnapSame ==
    ASSUME SnapInv, UNCHANGED <<forward, key, value, it, out, op>>, Snapping <=> Snapping'
    PROVE  SnapInv'
  BY DEF SnapInv, Snapping, SnapshotExact, Written

LEMMA SnapBegins == IInv /\ SnapCall => SnapInv'
<1> SUFFICES ASSUME IInv, SnapCall  PROVE SnapInv'
  OBVIOUS
<1>0. /\ pc = "idle" /\ pc' = "snap" /\ it' = forward[Header][0]
      /\ UNCHANGED <<forward, key, value, op, out>>
      /\ op = NoOp /\ op \notin SnapOp
  BY OpKinds DEF SnapCall, listVars, IInv, CallInv
<1>1. out = <<>>
  BY <1>0 DEF IInv, SnapInv, Snapping
<1>2. it' = Null \/ it' \in Linked(forward, 0)
  BY <1>0, PointerIsLinked, LevelZero DEF OnLevel
<1>3. Written' = {}
  BY <1>0, NextPassed DEF Written, OnLevel
<1>4. SnapshotExact'
  BY <1>0, <1>1, <1>3 DEF SnapshotExact
<1> QED  BY <1>0, <1>2, <1>4 DEF SnapInv, Snapping

LEMMA SnapAdvances == IInv /\ SnapNext => SnapInv'
<1> SUFFICES ASSUME IInv, SnapNext  PROVE SnapInv'
  OBVIOUS
<1>0. /\ pc = "snap" /\ it # Null /\ it' = forward[it][0] /\ pc' = "getSearch"
      /\ op' = [name |-> "snapshot", key |-> key[it]]
      /\ UNCHANGED <<forward, key, value, out>>
  BY DEF SnapNext, Search, listVars
<1>1. it \in Linked(forward, 0) /\ op = NoOp /\ op \notin SnapOp /\ it # Header
  BY <1>0, OpKinds, NoNode DEF IInv, SnapInv, CallInv, Linked
<1>2. op' \in SnapOp /\ op'.key = key[it]
  BY <1>0, <1>1, LinkedKeys, LevelZero DEF SnapOp
<1>3. it' = Null \/ it' \in Linked(forward, 0)
  BY <1>0, <1>1, PointerIsLinked, LevelZero DEF OnLevel
<1>4. Written' = Written
  <2>1. \A n \in Linked(forward, 0) :
          (it' = Null \/ key[n] < key[it']) <=> (n = it \/ key[n] < key[it])
    BY <1>0, <1>1, NextPassed DEF OnLevel
  <2>2. Written = {n \in Linked(forward, 0) : key[n] < key[it]}
    BY <1>0, <1>1 DEF Written
  <2>3. Written' = {n \in Linked(forward, 0) : (it' = Null \/ key[n] < key[it']) /\ key[n] # key[it]}
    BY <1>0, <1>2 DEF Written
  <2>4. \A n \in Linked(forward, 0) : key[n] \in Nat
    BY LinkedKeys, LevelZero
  <2> QED  BY <1>1, <2>1, <2>2, <2>3, <2>4
<1>5. SnapshotExact'
  <2>1. Snapping
    BY <1>0 DEF Snapping
  <2> QED  BY <1>0, <1>4, <2>1 DEF IInv, SnapInv, SnapshotExact
<1> QED  BY <1>0, <1>1, <1>2, <1>3, <1>5 DEF SnapInv, Snapping

\* get answers the value of the node the iterator has just left.
LEMMA SnapFound ==
    ASSUME IInv, pc = "getFound", op \in SnapOp
    PROVE  /\ Found \in Linked(forward, 0) /\ Found \in Node /\ key[Found] = op.key
           /\ it = forward[Found][0] /\ Answer = value[Found]
<1>1. PICK n \in Linked(forward, 0) : key[n] = op.key /\ it = forward[n][0]
  BY DEF IInv, SnapInv
<1>2. Found # Null
  BY <1>1, FoundPosition
<1>3. Found \in Linked(forward, 0) /\ Found \in Node /\ key[Found] = op.key
  BY <1>2, FoundPosition
<1>4. Found = n
  BY <1>1, <1>3 DEF IInv, ListInv
<1> QED  BY <1>1, <1>2, <1>3, <1>4 DEF Answer

LEMMA SnapWrites == IInv /\ SnapWrite => SnapInv'
<1> SUFFICES ASSUME IInv, SnapWrite  PROVE SnapInv'
  OBVIOUS
<1> DEFINE L0 == Linked(forward, 0)
           c  == Found
           Pairs(S) == {<<key[n], value[n]>> : n \in {l \in S : value[l] # Null}}
<1>0. /\ pc = "getFound" /\ op \in SnapOp /\ pc' = "snap" /\ op' = NoOp
      /\ out' = IF Answer = Null THEN out ELSE Append(out, <<op.key, Answer>>)
      /\ UNCHANGED <<forward, key, value, it>>
  BY DEF SnapWrite, Leave, listVars
<1>1. /\ c \in L0 /\ c \in Node /\ key[c] = op.key /\ it = forward[c][0] /\ Answer = value[c]
      /\ c # Header /\ \A n \in L0 : key[n] \in Nat
  BY <1>0, SnapFound, LinkedKeys, NoNode, LevelZero
<1>2. /\ {out[m] : m \in DOMAIN out} = Pairs(Written)
      /\ \A l, m \in DOMAIN out : l < m => out[l][1] < out[m][1]
      /\ out \in Seq(Key \X Value)
  BY <1>0 DEF IInv, TypeOK, SnapInv, SnapshotExact, Snapping
<1> HIDE DEF c
<1>3. \A n \in L0 : (it = Null \/ key[n] < key[it]) <=> (n = c \/ key[n] < key[c])
  BY <1>0, <1>1, NextPassed DEF OnLevel
<1>4. Written = {n \in L0 : key[n] < key[c]}
  <2>1. Written = {n \in L0 : (it = Null \/ key[n] < key[it]) /\ key[n] # key[c]}
    BY <1>0, <1>1 DEF Written
  <2> QED  BY <1>1, <1>3, <2>1
<1>5. Written' = Written \cup {c}
  <2>1. Written' = {n \in L0 : it = Null \/ key[n] < key[it]}
    BY <1>0, OpKinds DEF Written
  <2> QED  BY <1>1, <1>3, <1>4, <2>1
<1>6. /\ {out'[m] : m \in DOMAIN out'} = Pairs(Written \cup {c})
      /\ \A l, m \in DOMAIN out' : l < m => out'[l][1] < out'[m][1]
  <2>1. CASE Answer = Null
    BY <1>0, <1>1, <1>2, <2>1
  <2>2. CASE Answer # Null
    <3> DEFINE e == <<op.key, Answer>>
    <3>1. /\ out' = Append(out, e) /\ DOMAIN out = 1..Len(out) /\ Len(out) \in Nat
          /\ DOMAIN out' = 1..(Len(out) + 1)
          /\ \A m \in 1..Len(out) : out'[m] = out[m]
          /\ out'[Len(out) + 1] = e
      <4>1. out' = Append(out, e)
        BY <1>0, <2>2
      <4>2. Answer \in Value /\ op.key \in Key
        BY <1>0, <2>2, AnswerType, OpKey
      <4> QED  BY <1>2, <4>1, <4>2
    <3>2. {out'[m] : m \in DOMAIN out'} = {out[m] : m \in DOMAIN out} \cup {e}
      BY <3>1
    <3>3. Pairs(Written \cup {c}) = Pairs(Written) \cup {e}
      BY <1>1, <2>2
    <3>4. ASSUME NEW m \in DOMAIN out  PROVE out[m][1] < e[1]
      <4>1. out[m] \in Pairs(Written)
        BY <1>2
      <4>2. PICK n \in Written : out[m] = <<key[n], value[n]>>
        BY <4>1
      <4> QED  BY <1>1, <1>4, <4>2
    <3>5. ASSUME NEW l \in DOMAIN out', NEW m \in DOMAIN out', l < m
          PROVE  out'[l][1] < out'[m][1]
      <4>1. CASE m = Len(out) + 1
        <5>1. l \in DOMAIN out /\ out'[l] = out[l] /\ out'[m] = e
          BY <3>1, <3>5, <4>1
        <5> QED  BY <3>4, <5>1
      <4>2. CASE m # Len(out) + 1
        <5>1. l \in DOMAIN out /\ m \in DOMAIN out /\ out'[l] = out[l] /\ out'[m] = out[m]
          BY <3>1, <3>5, <4>2
        <5> QED  BY <1>2, <3>5, <5>1
      <4> QED  BY <4>1, <4>2
    <3> QED  BY <1>2, <3>2, <3>3, <3>5
  <2> QED  BY <2>1, <2>2
<1>7. SnapshotExact'
  BY <1>0, <1>5, <1>6 DEF SnapshotExact
<1>8. it' = Null \/ it' \in Linked(forward', 0)
  BY <1>0 DEF IInv, SnapInv
<1> QED  BY <1>0, <1>7, <1>8, OpKinds DEF SnapInv, Snapping

LEMMA SnapStep == IInv /\ [Next]_vars => SnapInv'
<1> SUFFICES ASSUME IInv, [Next]_vars  PROVE SnapInv'
  OBVIOUS
<1>0. SnapInv /\ CallInv /\ CallInv'
  BY CallStep DEF IInv
<1>1. CASE GetAdvance \/ GetDescend
  <2>1. /\ pc = "getSearch" /\ pc' \in {"getSearch", "getFound"}
        /\ UNCHANGED <<forward, key, value, it, out, op>>
    BY <1>1 DEF GetAdvance, GetDescend, listVars, snapVars
  <2> QED  BY <1>0, <2>1, SnapSame DEF Snapping
<1>2. CASE Ended \/ UNCHANGED vars
  <2>1. UNCHANGED <<pc, forward, key, value, it, out, op>>
    BY <1>2 DEF Ended, vars, listVars, snapVars
  <2> QED  BY <1>0, <2>1, SnapSame DEF Snapping
<1>3. CASE SnapAbort \/ SnapEnd
  <2>1. it' = Null /\ out' = <<>> /\ pc' = "idle"
    BY <1>3 DEF SnapAbort, SnapEnd, Leave
  <2> QED  BY <1>0, <2>1, SnapOff, OpKinds DEF Snapping, CallInv
<1>4. CASE \/ KvsOpen \/ KvsOpenFails \/ PutCall \/ GetCall \/ SnapDies \/ CloseCall
           \/ PutAdvance \/ PutDescend \/ PutReplace \/ PutReplaceLoses \/ PutCreate \/ PutDies
           \/ PutLink \/ GetReturn \/ CloseNode \/ CloseEnd
  <2>1. UNCHANGED snapVars
    BY <1>4 DEF KvsOpen, KvsOpenFails, PutCall, GetCall, SnapDies, Dies, CloseCall, PutAdvance,
       PutDescend, PutReplace, PutReplaceLoses, PutCreate, PutDies, PutLink, GetReturn, CloseNode,
       CloseEnd
  <2>2. ~Snapping
    BY <1>0, <1>4, OpKinds DEF Snapping, CallInv, KvsOpen, KvsOpenFails, PutCall, GetCall, SnapDies,
       CloseCall, PutAdvance, PutDescend, PutReplace, PutReplaceLoses, PutCreate, PutDies, PutLink,
       GetReturn, CloseNode, CloseEnd
  <2>3. ~Snapping'
    <3>1. CASE GetCall
      <4>1. op' \in GetOp /\ pc' = "getSearch"
        BY <3>1 DEF GetCall, Search
      <4> QED  BY <4>1, OpKinds DEF Snapping
    <3>2. CASE ~GetCall
      <4>1. pc' \notin {"snap", "getSearch", "getFound"}
        BY <1>4, <3>2 DEF KvsOpen, KvsOpenFails, PutCall, SnapDies, Dies, CloseCall, PutAdvance,
           PutDescend, PutReplace, PutReplaceLoses, PutCreate, PutDies, PutLink, GetReturn,
           CloseNode, CloseEnd, Search, Return, Leave
      <4>2. pc' \in {"new", "idle", "putSearch", "putFound", "putLink", "closing", "done", "dead"}
        BY <4>1, TypeStep DEF TypeOK
      <4> QED  BY <1>0, <4>2, OpKinds DEF Snapping, CallInv
    <3> QED  BY <3>1, <3>2
  <2>4. it = Null /\ out = <<>>
    BY <1>0, <2>2 DEF SnapInv
  <2> QED  BY <2>1, <2>3, <2>4, SnapOff DEF snapVars
<1> QED  BY <1>1, <1>2, <1>3, <1>4, SnapBegins, SnapAdvances, SnapWrites DEF Next, Step

--------------------------------------------------------------------------------
(* The heap *)

\* What holds between two steps of an open store.
LEMMA HeapOpenStore ==
    ASSUME IInv, pc \notin {"new", "closing", "done", "dead"}
    PROVE  /\ heap = BlocksOf(Linked(forward, 0) \cup ({newnode} \ {Null}))
                        \cup (IF Snapping THEN {<<"iterator", Header>>} ELSE {})
           /\ items = Cardinality(Linked(forward, 0) \ {newnode})
           /\ IsFiniteSet(Linked(forward, 0)) /\ Null \notin Linked(forward, 0)
  BY NoNode DEF IInv, HeapInv, HeapExact, Linked

LEMMA HeapSame ==
    ASSUME HeapInv, pc \notin {"new", "closing", "done", "dead"},
           pc' \notin {"new", "closing", "done"},
           UNCHANGED <<heap, forward, value, items, newnode>>, Snapping <=> Snapping'
    PROVE  HeapInv'
  BY DEF HeapInv, HeapExact, BlocksOf

LEMMA HeapOpens == IInv /\ (KvsOpen \/ KvsOpenFails) => HeapInv'
<1> SUFFICES ASSUME IInv, KvsOpen \/ KvsOpenFails  PROVE HeapInv'
  OBVIOUS
<1>0. /\ pc = "new" /\ heap = {} /\ newnode = Null /\ op = NoOp
      /\ Linked(forward, 0) = {} /\ items = Cardinality(Linked(forward, 0) \ {newnode})
      /\ forward = [p \in Ptr |-> [j \in Level |-> Unset]]
  BY NothingLinked, LevelZero DEF IInv, HeapInv, HeapExact, CallInv, KvsOpen, KvsOpenFails
<1>1. CASE KvsOpen
  <2>1. /\ pc' = "idle" /\ newnode' = Null /\ op' = op /\ items' = 0
        /\ heap' = {<<"kvs", Header>>, <<"node", Header>>}
        /\ forward' = [forward EXCEPT ![Header] = [j \in Level |-> Null]]
    BY <1>0, <1>1 DEF KvsOpen, localVars
  <2>2. Linked(forward', 0) = {}
    BY <1>0, <2>1, NoNode, LevelZero DEF Linked
  <2>3. IsFiniteSet({}) /\ Cardinality({}) = 0
    BY FS_EmptySet
  <2>4. ~Snapping'
    BY <1>0, <2>1, OpKinds DEF Snapping
  <2> QED  BY <2>1, <2>2, <2>3, <2>4 DEF HeapInv, HeapExact, BlocksOf
<1>2. CASE KvsOpenFails
  <2>1. pc' = "done" /\ UNCHANGED <<heap, forward, newnode, items>>
    BY <1>2 DEF KvsOpenFails, listVars, localVars
  <2>2. IsFiniteSet({})
    BY FS_EmptySet
  <2> QED  BY <1>0, <2>1, <2>2 DEF HeapInv, HeapExact
<1> QED  BY <1>1, <1>2

LEMMA HeapReplace == IInv /\ (PutReplace \/ PutReplaceLoses) => HeapInv'
<1> SUFFICES ASSUME IInv, PutReplace \/ PutReplaceLoses  PROVE HeapInv'
  OBVIOUS
<1> DEFINE L0 == Linked(forward, 0)
           c  == Found
<1>0. /\ pc = "putFound" /\ pc' = "idle" /\ newnode = Null /\ newnode' = Null /\ op' = NoOp
      /\ op \in PutOp /\ UNCHANGED <<forward, items>>
      /\ c \in L0 /\ c \in Node
  BY FoundPosition DEF PutReplace, PutReplaceLoses, Return, Leave, IInv, CallInv
<1>1. ~Snapping /\ ~Snapping'
  BY <1>0, OpKinds DEF Snapping
<1>2. /\ heap = BlocksOf(L0) /\ items = Cardinality(L0 \ {Null}) /\ IsFiniteSet(L0)
      /\ value \in [Node -> Value \cup {Null}] /\ L0 \subseteq Node
  BY <1>0, <1>1, HeapOpenStore DEF IInv, TypeOK, Linked
<1>3. heap' = BlocksOf(L0)'
  <2>1. CASE PutReplace
    <3>1. op.value # Null
      BY <1>0, ValueAssumption DEF PutOp
    <3>2. value' = [value EXCEPT ![c] = op.value] /\ heap' = heap \cup {<<"value", c>>}
      BY <2>1, ReplaceHeap DEF PutReplace
    <3> HIDE DEF c
    <3>3. {m \in L0 : value'[m] # Null} = {m \in L0 : value[m] # Null} \cup {c}
      BY <1>0, <1>2, <3>1, <3>2
    <3> QED  BY <1>0, <1>2, <3>2, <3>3 DEF BlocksOf
  <2>2. CASE PutReplaceLoses
    <3>1. value' = [value EXCEPT ![c] = Null] /\ heap' = heap \ {<<"value", c>>}
      BY <2>2, ReplaceHeap DEF PutReplaceLoses
    <3> HIDE DEF c
    <3>2. {m \in L0 : value'[m] # Null} = {m \in L0 : value[m] # Null} \ {c}
      BY <1>0, <1>2, <3>1
    <3>3. BlocksOf(L0)' = BlocksOf(L0) \ {<<"value", c>>}
      BY <1>0, <3>2, NoNode DEF BlocksOf
    <3> QED  BY <1>2, <3>1, <3>3
  <2> QED  BY <2>1, <2>2
<1> HIDE DEF L0, c
<1>4. Linked(forward', 0) = L0
  BY <1>0 DEF L0
<1>5. heap' = BlocksOf(Linked(forward, 0) \cup ({newnode} \ {Null}))'
  <2>1. Linked(forward', 0) \cup ({newnode'} \ {Null}) = Linked(forward', 0)
    BY <1>0
  <2> QED  BY <1>3, <2>1 DEF BlocksOf, L0
<1> QED  BY <1>0, <1>1, <1>2, <1>4, <1>3, <1>5 DEF HeapInv, HeapExact, L0

LEMMA HeapCreate == IInv /\ PutCreate => HeapInv'
<1> SUFFICES ASSUME IInv, PutCreate  PROVE HeapInv'
  OBVIOUS
<1> DEFINE L0 == Linked(forward, 0)
<1>0. /\ pc = "putFound" /\ pc' = "putLink" /\ newnode = Null /\ op' = op /\ op \in PutOp
      /\ UNCHANGED <<forward, items>>
  BY DEF PutCreate, IInv, CallInv
<1>1. PICK n \in Node, v \in {op.value, Null} :
        /\ Fresh(n) /\ newnode' = n
        /\ heap' = heap \cup {<<"node", n>>} \cup (IF v = Null THEN {} ELSE {<<"value", n>>})
        /\ value' = [value EXCEPT ![n] = v]
  BY DEF PutCreate
<1>2. n \notin L0 /\ n # Null
  BY <1>0, <1>1, FreshIsUnlinked, NoNode, LevelZero
<1>3. ~Snapping /\ ~Snapping'
  BY <1>0, OpKinds DEF Snapping
<1>4. /\ heap = BlocksOf(L0) /\ items = Cardinality(L0 \ {Null}) /\ IsFiniteSet(L0)
      /\ value \in [Node -> Value \cup {Null}] /\ L0 \subseteq Node
  BY <1>0, <1>3, HeapOpenStore DEF IInv, TypeOK, Linked
<1> DEFINE S == L0 \cup {n}
<1>5. {m \in S : value'[m] # Null} = {m \in L0 : value[m] # Null} \cup (IF v = Null THEN {} ELSE {n})
  BY <1>1, <1>2, <1>4
<1>6. heap' = {<<"kvs", Header>>, <<"node", Header>>} \cup {<<"node", m>> : m \in S}
                \cup {<<"value", m>> : m \in {l \in S : value'[l] # Null}}
  BY <1>1, <1>4, <1>5 DEF BlocksOf
<1>7. L0 \ {Null} = L0 \ {n} /\ Linked(forward', 0) = L0
  BY <1>0, <1>2, <1>4, NoNode
<1>8. Linked(forward', 0) \cup ({newnode'} \ {Null}) = S
  BY <1>1, <1>2, <1>7
<1> HIDE DEF L0, S
<1>9. heap' = BlocksOf(Linked(forward, 0) \cup ({newnode} \ {Null}))'
  BY <1>6, <1>8 DEF BlocksOf
<1> QED  BY <1>0, <1>1, <1>3, <1>4, <1>7, <1>9 DEF HeapInv, HeapExact

LEMMA HeapLink == IInv /\ PutLink => HeapInv'
<1> SUFFICES ASSUME IInv, PutLink  PROVE HeapInv'
  OBVIOUS
<1> DEFINE L0 == Linked(forward, 0)
           K0 == Linked(forward', 0)
<1>0. /\ pc = "putLink" /\ UNCHANGED <<heap, value>> /\ op \in PutOp
      /\ forward' = InsertAfter(forward, prev[i], newnode, i)
      /\ i = top => pc' = "idle" /\ op' = NoOp /\ newnode' = Null /\ items' = items + 1
      /\ i # top => pc' = "putLink" /\ op' = op /\ newnode' = newnode /\ items' = items
  BY DEF PutLink, Return, Leave, IInv, CallInv
<1>1. ~Snapping /\ ~Snapping'
  BY <1>0, OpKinds DEF Snapping
<1>2. /\ newnode \in Node /\ newnode # Null /\ i \in Level
      /\ prev[i] \in Ptr /\ prev[i] # newnode /\ forward[newnode][i] = Unset
  BY <1>0, LinkPosition
<1>3. K0 = L0 \cup {newnode}
  <2>1. CASE i = 0
    BY <1>0, <1>2, <2>1, Types, RawLinks
  <2>2. CASE i # 0
    <3>1. K0 = L0
      BY <1>0, <1>2, <2>2, Types, RawLinks, LevelZero
    <3>2. 0 < i
      BY <1>2, <2>2, LevelAssumption DEF Level
    <3>3. newnode \in L0
      BY <1>0, <3>2, LevelZero DEF IInv, LinkInv
    <3> QED  BY <3>1, <3>3
  <2> QED  BY <2>1, <2>2
<1>4. /\ heap = BlocksOf(L0 \cup {newnode}) /\ items = Cardinality(L0 \ {newnode})
      /\ IsFiniteSet(L0) /\ Null \notin L0
  <2>1. {newnode} \ {Null} = {newnode}
    BY <1>2
  <2> QED  BY <1>0, <1>1, <2>1, HeapOpenStore
<1> HIDE DEF L0, K0
<1>5. IsFiniteSet(K0) /\ IsFiniteSet(L0 \ {newnode})
  BY <1>3, <1>4, FS_AddElement, FS_RemoveElement
<1>6. items' = Cardinality(K0 \ {newnode'})
  <2>1. CASE i = top
    <3>1. K0 \ {Null} = (L0 \ {newnode}) \cup {newnode}
      BY <1>2, <1>3, <1>4
    <3>2. Cardinality((L0 \ {newnode}) \cup {newnode}) = Cardinality(L0 \ {newnode}) + 1
      BY <1>5, FS_AddElement
    <3> QED  BY <1>0, <1>4, <2>1, <3>1, <3>2
  <2>2. CASE i # top
    <3>1. K0 \ {newnode} = L0 \ {newnode}
      BY <1>3
    <3> QED  BY <1>0, <1>4, <2>2, <3>1
  <2> QED  BY <2>1, <2>2
<1>7. K0 \cup ({newnode'} \ {Null}) = L0 \cup {newnode}
  BY <1>0, <1>2, <1>3
<1>8. heap' = BlocksOf(Linked(forward, 0) \cup ({newnode} \ {Null}))'
  BY <1>0, <1>4, <1>7 DEF BlocksOf, K0
<1> QED  BY <1>0, <1>1, <1>5, <1>6, <1>8 DEF HeapInv, HeapExact, K0

LEMMA HeapSnap == IInv /\ (SnapCall \/ SnapEnd \/ SnapAbort) => HeapInv'
<1> SUFFICES ASSUME IInv, SnapCall \/ SnapEnd \/ SnapAbort  PROVE HeapInv'
  OBVIOUS
<1> DEFINE B == BlocksOf(Linked(forward, 0) \cup ({newnode} \ {Null}))
<1>0. /\ pc \in {"idle", "snap", "getFound"} /\ pc' \in {"idle", "snap"}
      /\ UNCHANGED <<forward, value, items>> /\ newnode = Null /\ newnode' = Null
  BY DEF SnapCall, SnapEnd, SnapAbort, Leave, listVars, localVars, IInv, CallInv
<1>1. heap = B \cup (IF Snapping THEN {<<"iterator", Header>>} ELSE {})
  BY <1>0, HeapOpenStore
<1>2. <<"iterator", Header>> \notin B
  BY DEF BlocksOf
<1>3. B' = B
  BY <1>0 DEF BlocksOf
<1> HIDE DEF B
<1>4. heap' = B \cup (IF Snapping' THEN {<<"iterator", Header>>} ELSE {})
  <2>1. CASE SnapCall
    <3>1. ~Snapping /\ Snapping' /\ heap' = heap \cup {<<"iterator", Header>>}
      BY <2>1, OpKinds DEF SnapCall, Snapping, IInv, CallInv
    <3> QED  BY <1>1, <3>1
  <2>2. CASE SnapEnd \/ SnapAbort
    <3>1. /\ Snapping /\ ~Snapping' /\ heap' = heap \ {<<"iterator", Header>>}
      BY <2>2, OpKinds, SnapHeap DEF SnapEnd, SnapAbort, Leave, Snapping, IInv, CallInv
    <3> QED  BY <1>1, <1>2, <3>1
  <2> QED  BY <2>1, <2>2
<1>5. IsFiniteSet(Linked(forward, 0)) /\ items = Cardinality(Linked(forward, 0) \ {newnode})
  BY <1>0, HeapOpenStore
<1> QED  BY <1>0, <1>3, <1>4, <1>5 DEF HeapInv, HeapExact, B

LEMMA HeapClose == IInv /\ (CloseCall \/ CloseNode \/ CloseEnd) => HeapInv'
<1> SUFFICES ASSUME IInv, CloseCall \/ CloseNode \/ CloseEnd  PROVE HeapInv'
  OBVIOUS
<1> DEFINE L0 == Linked(forward, 0)
<1>0. /\ pc \in {"idle", "closing"} /\ UNCHANGED <<forward, key, value, items, newnode>>
      /\ Header \in Ptr /\ Header \notin L0 /\ newnode = Null
  BY NoNode DEF CloseCall, CloseNode, CloseEnd, listVars, localVars, Linked, IInv, CallInv
<1>1. IsFiniteSet(L0) /\ items = Cardinality(L0 \ {newnode})
  BY <1>0 DEF IInv, HeapInv, HeapExact
<1>2. BlocksOf(L0)' = BlocksOf(L0)
  BY <1>0 DEF BlocksOf
<1>3. CASE CloseCall
  <2>1. pc = "idle" /\ pc' = "closing" /\ heap' = heap /\ node' = forward[Header][0]
    BY <1>3 DEF CloseCall
  <2>2. ~Snapping
    BY <2>1, OpKinds DEF Snapping, IInv, CallInv
  <2>3. heap = BlocksOf(L0)
    <3>1. L0 \cup ({newnode} \ {Null}) = L0
      BY <1>0
    <3> QED  BY <2>1, <2>2, <3>1, HeapOpenStore
  <2>4. Passed' = {}
    BY <1>0, <2>1, NextPassed DEF Passed, OnLevel
  <2>5. node' = Null \/ node' \in L0
    BY <1>0, <2>1, PointerIsLinked, LevelZero DEF OnLevel
  <2>6. heap' = BlocksOf(L0)' \ ({"node", "value"} \X Passed')
    BY <1>2, <2>1, <2>3, <2>4
  <2> QED  BY <1>0, <1>1, <2>1, <2>5, <2>6 DEF HeapInv, HeapExact
<1>4. CASE CloseNode
  <2>1. /\ pc = "closing" /\ pc' = "closing" /\ node # Null
        /\ heap' = heap \ {<<"value", node>>, <<"node", node>>}
        /\ node' = forward[node][0]
    BY <1>4, CloseHeap DEF CloseNode
  <2>2. node \in L0 /\ heap = BlocksOf(L0) \ ({"node", "value"} \X Passed)
    BY <2>1 DEF IInv, HeapInv
  <2>3. node # Header /\ node \in OnLevel(forward, 0)
    BY <1>0, <2>2 DEF OnLevel
  <2>4. node' = Null \/ node' \in L0
    BY <1>0, <2>1, <2>3, PointerIsLinked, LevelZero
  <2>5. Passed' = Passed \cup {node}
    <3>1. \A n \in L0 : (node' = Null \/ key[n] < key[node']) <=> (n = node \/ key[n] < key[node])
      BY <2>1, <2>3, NextPassed
    <3> QED  BY <1>0, <2>1, <2>2, <3>1 DEF Passed
  <2>6. heap' = BlocksOf(L0)' \ ({"node", "value"} \X Passed')
    BY <1>2, <2>1, <2>2, <2>5
  <2> QED  BY <1>0, <1>1, <2>1, <2>4, <2>6 DEF HeapInv, HeapExact
<1>5. CASE CloseEnd
  <2>1. /\ pc = "closing" /\ pc' = "done" /\ node = Null
        /\ heap' = heap \ {<<"node", Header>>, <<"kvs", Header>>}
    BY <1>5, CloseHeap DEF CloseEnd
  <2>2. heap = BlocksOf(L0) \ ({"node", "value"} \X Passed) /\ Passed = L0
    BY <2>1 DEF IInv, HeapInv, Passed
  <2>3. heap' = {}
    BY <2>1, <2>2 DEF BlocksOf
  <2> QED  BY <1>0, <1>1, <2>1, <2>3 DEF HeapInv, HeapExact
<1> QED  BY <1>3, <1>4, <1>5

LEMMA HeapStep == IInv /\ [Next]_vars => HeapInv'
<1> SUFFICES ASSUME IInv, [Next]_vars  PROVE HeapInv'
  OBVIOUS
<1>1. CASE \/ PutCall \/ GetCall \/ PutAdvance \/ PutDescend \/ GetAdvance \/ GetDescend
           \/ GetReturn \/ SnapNext \/ SnapWrite
  <2>1. /\ pc \notin {"new", "closing", "done", "dead"} /\ pc' \notin {"new", "closing", "done"}
        /\ UNCHANGED <<heap, forward, value, items>>
    BY <1>1 DEF PutCall, GetCall, PutAdvance, PutDescend, GetAdvance, GetDescend, GetReturn,
       SnapNext, SnapWrite, Search, Return, Leave, listVars
  <2>2. newnode' = newnode
    BY <1>1 DEF PutCall, GetCall, PutAdvance, PutDescend, GetAdvance, GetDescend, GetReturn,
       SnapNext, SnapWrite, Return, Leave, IInv, CallInv
  <2>3. Snapping <=> Snapping'
    <3>1. CASE PutCall \/ GetCall
      <4>1. pc = "idle" /\ op = NoOp /\ op' \in PutOp \cup GetOp /\ pc' \in {"putSearch", "getSearch"}
        BY <3>1 DEF PutCall, GetCall, Search, IInv, CallInv
      <4> QED  BY <4>1, OpKinds DEF Snapping
    <3>2. CASE PutAdvance \/ PutDescend \/ GetAdvance \/ GetDescend
      BY <3>2 DEF PutAdvance, PutDescend, GetAdvance, GetDescend, Snapping
    <3>3. CASE GetReturn
      <4>1. pc = "getFound" /\ op \in GetOp /\ op' = NoOp /\ pc' = "idle"
        BY <3>3 DEF GetReturn, Return, Leave
      <4> QED  BY <4>1, OpKinds DEF Snapping
    <3>4. CASE SnapNext
      <4>1. pc = "snap" /\ it \in Linked(forward, 0)
        BY <3>4 DEF SnapNext, IInv, SnapInv
      <4>2. op' \in SnapOp
        BY <3>4, <4>1, LinkedKeys, LevelZero DEF SnapNext, Search, SnapOp
      <4> QED  BY <4>1, <4>2 DEF Snapping
    <3>5. CASE SnapWrite
      BY <3>5 DEF SnapWrite, Leave, Snapping
    <3> QED  BY <1>1, <3>1, <3>2, <3>3, <3>4, <3>5
  <2> QED  BY <2>1, <2>2, <2>3, HeapSame DEF IInv
<1>2. CASE PutDies \/ SnapDies
  <2>1. pc' = "dead" /\ forward' = forward
    BY <1>2 DEF PutDies, SnapDies, Dies, listVars
  <2> QED  BY <2>1 DEF IInv, HeapInv, HeapExact
<1>3. CASE Ended \/ UNCHANGED vars
  BY <1>3 DEF Ended, vars, listVars, localVars, IInv, HeapInv, HeapExact, BlocksOf, Snapping, Passed
<1> QED  BY <1>1, <1>2, <1>3, HeapOpens, HeapReplace, HeapCreate, HeapLink, HeapSnap, HeapClose
         DEF Next, Step

--------------------------------------------------------------------------------
(* The theorems *)

LEMMA InitInv == Init => IInv
<1> SUFFICES ASSUME Init  PROVE IInv
  OBVIOUS
<1>1. TypeOK /\ CallInv
  BY InitTypes, NoNode, OpKinds DEF Init, CallInv
<1>2. \A j \in Level : Linked(forward, j) = {}
  BY <1>1, NothingLinked DEF Init
<1>3. LevelSorted /\ SearchInv /\ LinkInv
  BY DEF Init, LevelSorted, SearchInv, LinkInv
<1>4. ListInv
  <2>1. \A n \in Node : \A j \in Level : forward[n][j] = Unset
    BY NoNode DEF Init
  <2> QED  BY <1>2, <2>1, LevelZero DEF Init, ListInv
<1>5. SnapInv
  BY OpKinds DEF Init, SnapInv, SnapshotExact, Snapping
<1>6. HeapInv
  <2>1. Linked(forward, 0) = {} /\ Linked(forward, 0) \ {newnode} = {}
    BY <1>2, LevelZero
  <2> QED  BY <2>1, FS_EmptySet DEF Init, HeapInv, HeapExact
<1> QED  BY <1>1, <1>3, <1>4, <1>5, <1>6 DEF IInv

LEMMA NextInv == IInv /\ [Next]_vars => IInv'
  BY TypeStep, ListsStep, CallStep, SearchStep, LinkStep, SnapStep, HeapStep DEF IInv

\* IInv holds in every reachable state, whatever the keys, the values, the pool of nodes and
\* MAX_LEVEL.
THEOREM Inductive == Spec => []IInv
  BY InitInv, NextInv, PTL DEF Spec

\* Every variable of the store keeps its type, the locals of put, get and do_snapshot included.
THEOREM TypeCorrect == Spec => []TypeOK
<1>1. IInv => TypeOK
  BY DEF IInv
<1> QED  BY <1>1, Inductive, PTL

\* Every level stays one strictly increasing chain, between the turns of put's linking loop too.
THEOREM SortedLevels == Spec => []LevelSorted
<1>1. IInv => LevelSorted
  BY DEF IInv
<1> QED  BY <1>1, Inductive, PTL

\* No loop of put.c, get.c, close.c or iterator.c reads a pointer that was never written.
THEOREM PointersReadAreSet == Spec => []OnlySetPointersRead
<1>1. ASSUME IInv  PROVE OnlySetPointersRead
  <2>1. pc \in {"putSearch", "getSearch"} => forward[node][i] # Unset
    BY <1>1, SearchPosition
  <2>2. pc \in {"putFound", "getFound"} => forward[node][0] # Unset
    BY <1>1, FoundPosition
  <2>3. ASSUME pc = "putLink", NEW j \in i..top
        PROVE  prev[j] # Unset /\ forward[prev[j]][j] # Unset
    <3>1. j \in Level
      BY <1>1, <2>3, LinkPosition, LevelAssumption DEF Level
    <3>2. prev[j] \in OnLevel(forward, j)
      BY <1>1, <2>3 DEF IInv, LinkInv, IsLastBefore
    <3> QED  BY <1>1, <2>3, <3>1, <3>2, PointerIsLinked, NoNode
  <2>4. pc = "closing" /\ node # Null => forward[node][0] # Unset
    BY <1>1, LevelZero DEF IInv, HeapInv, ListInv, Linked
  <2>5. it # Null => forward[it][0] # Unset
    BY <1>1, LevelZero DEF IInv, SnapInv, ListInv, Linked
  <2> QED  BY <2>1, <2>2, <2>3, <2>4, <2>5 DEF OnlySetPointersRead
<1> QED  BY <1>1, Inductive, PTL

\* A node put has finished with is on exactly the levels its pointers were set for, with no
\* gap below them, and on none a search does not start at.
THEOREM WhollyLinkedAlways == Spec => []WhollyLinked
<1>1. ASSUME IInv  PROVE WhollyLinked
  BY <1>1, LevelZero DEF IInv, ListInv, WhollyLinked, Linked
<1> QED  BY <1>1, Inductive, PTL

\* do_snapshot has written, at every moment, each pair the iterator has passed, once and in
\* the order of the keys.
THEOREM SnapshotComplete == Spec => []SnapshotExact
<1>1. IInv => SnapshotExact
  BY DEF IInv, SnapInv
<1> QED  BY <1>1, Inductive, PTL

\* While the store is open the heap holds its blocks and no others, items counts its nodes,
\* and kvs_close frees them all.
THEOREM HeapAccounted == Spec => []HeapExact
<1>1. IInv => HeapExact
  BY DEF IInv, HeapInv
<1> QED  BY <1>1, Inductive, PTL

--------------------------------------------------------------------------------
(* The map: every step of the list is a step of SampleMap or does not show. *)

Running == pc \notin {"closing", "done", "dead"}

\* The nodes a caller sees: level 0 without the one put is linking.
Settled == Linked(forward, 0) \ {newnode}

LEMMA ContentsRunning ==
    ASSUME Running
    PROVE  Contents = MapOf(Settled, key, value)
  BY DEF Running, Contents, MapOf, HeldAt, Holders, Settled

LEMMA ContentsRunningNext ==
    ASSUME Running'
    PROVE  Contents' = MapOf(Settled', key', value')
  BY DEF Running, Contents, MapOf, HeldAt, Holders, Settled

LEMMA SettledNodes ==
    ASSUME IInv
    PROVE  /\ Settled \subseteq Node /\ DistinctKeys(Settled, key)
           /\ \A n \in Settled : key[n] \in Key
  BY DEF IInv, ListInv, Settled, DistinctKeys, Linked

\* A step that leaves the settled nodes alone leaves the map alone.
LEMMA ContentsSame ==
    ASSUME IInv, Running, Running', Settled' = Settled,
           \A n \in Settled : key'[n] = key[n] /\ value'[n] = value[n]
    PROVE  Contents' = Contents
<1>1. MapOf(Settled, key', value') = MapOf(Settled, key, value)
  BY SettledNodes, MapOfSame
<1> QED  BY <1>1, ContentsRunning, ContentsRunningNext

LEMMA RequestOf ==
    /\ pc # "dead" /\ op \in {NoOp} \cup PutOp \cup GetOp => Request = op
    /\ pc = "dead" \/ op \in SnapOp \cup {NoOp} => Request = NoOp
  BY OpKinds DEF Request

LEMMA RequestNext ==
    /\ pc' # "dead" /\ op' \in {NoOp} \cup PutOp \cup GetOp => Request' = op'
    /\ pc' = "dead" \/ op' \in SnapOp \cup {NoOp} => Request' = NoOp
  BY OpKinds DEF Request

\* kvs_open answers a store without keys, or NULL.
LEMMA OpenMaps == IInv /\ (KvsOpen \/ KvsOpenFails) => Map!Open
<1> SUFFICES ASSUME IInv, KvsOpen \/ KvsOpenFails  PROVE Map!Open
  OBVIOUS
<1>0. /\ pc = "new" /\ newnode = Null /\ op = NoOp /\ Linked(forward, 0) = {}
      /\ UNCHANGED <<op, ret, newnode>>
  BY NothingLinked, LevelZero DEF IInv, CallInv, KvsOpen, KvsOpenFails, localVars
<1>1. Contents = [k \in Key |-> Null]
  BY <1>0 DEF Contents
<1>2. pc' \in {"idle", "done"} /\ Contents' = [k \in Key |-> Null]
  <2>1. CASE KvsOpen
    <3>1. forward' = [forward EXCEPT ![Header] = [j \in Level |-> Null]] /\ pc' = "idle"
      BY <2>1 DEF KvsOpen
    <3>2. forward = [p \in Ptr |-> [j \in Level |-> Unset]]
      BY <1>0 DEF IInv, CallInv
    <3>3. Linked(forward', 0) = {}
      BY <3>1, <3>2, NoNode, LevelZero DEF Linked
    <3> QED  BY <3>1, <3>3 DEF Contents
  <2>2. CASE KvsOpenFails
    BY <2>2 DEF KvsOpenFails, Contents
  <2> QED  BY <2>1, <2>2
<1>3. Request = NoOp /\ Request' = NoOp
  BY <1>0, RequestOf, RequestNext
<1> QED  BY <1>0, <1>1, <1>2, <1>3 DEF Map!Open, Stage

LEMMA CallMaps == IInv /\ (PutCall \/ GetCall) => Map!Call
<1> SUFFICES ASSUME IInv, PutCall \/ GetCall  PROVE Map!Call
  OBVIOUS
<1>1. /\ pc = "idle" /\ pc' \in {"putSearch", "getSearch"} /\ op = NoOp
      /\ op' \in PutOp \cup GetOp /\ ret' = Null
      /\ UNCHANGED <<forward, key, value, newnode>>
  BY DEF PutCall, GetCall, Search, listVars, IInv, CallInv
<1>2. Contents' = Contents
  BY <1>1, ContentsSame DEF Running, Settled
<1>3. Request = NoOp /\ Request' = op'
  BY <1>1, RequestOf, RequestNext
<1> QED  BY <1>1, <1>2, <1>3 DEF Map!Call, Map!NoReq, Map!PutReq, Map!GetReq, NoOp, PutOp, GetOp, Stage

\* kvs_close, and a malloc that nobody tested.
LEMMA EndMaps == IInv /\ (CloseCall \/ PutDies \/ SnapDies) => Map!End
<1> SUFFICES ASSUME IInv, CloseCall \/ PutDies \/ SnapDies  PROVE Map!End
  OBVIOUS
<1>1. pc \in {"idle", "putFound"} /\ pc' \in {"closing", "dead"} /\ ret' = ret
  BY DEF CloseCall, PutDies, SnapDies, Dies
<1>2. Contents' = [k \in Key |-> Null]
  BY <1>1 DEF Contents
<1>3. pc' = "dead" \/ op' = NoOp
  BY DEF CloseCall, PutDies, SnapDies, Dies, IInv, CallInv
<1>4. Request' = NoOp
  BY <1>3, RequestNext
<1> QED  BY <1>1, <1>2, <1>4 DEF Map!End, Map!NoReq, NoOp, Stage

\* A new value, or none if strdup fails, under the key that was there.
LEMMA ReplaceMaps == IInv /\ (PutReplace \/ PutReplaceLoses) => Map!Put
<1> SUFFICES ASSUME IInv, PutReplace \/ PutReplaceLoses  PROVE Map!Put
  OBVIOUS
<1>0. PICK y \in {op.value, Null} : value' = [value EXCEPT ![Found] = y]
  BY DEF PutReplace, PutReplaceLoses
<1>1. /\ pc = "putFound" /\ pc' = "idle" /\ Found # Null
      /\ op' = NoOp /\ ret' = 0 /\ newnode = Null /\ newnode' = Null
      /\ UNCHANGED <<forward, key>>
      /\ op \in PutOp /\ op.key \in Key
  BY DEF PutReplace, PutReplaceLoses, Return, Leave, IInv, CallInv, PutOp
<1>2. /\ Found \in Settled /\ Found \in Node /\ key[Found] = op.key
      /\ Settled' = Settled /\ Settled \cup {Found} = Settled
  BY <1>1, FoundPosition DEF Settled
<1>3. Contents = MapOf(Settled, key, value) /\ Contents' = MapOf(Settled, key, value')
  BY <1>1, <1>2, ContentsRunning, ContentsRunningNext DEF Running
<1>4. \A n \in Settled \ {Found} : key[n] # op.key
  BY <1>2, SettledNodes DEF DistinctKeys
<1>5. MapOf(Settled \cup {Found}, key, value') = [MapOf(Settled, key, value) EXCEPT ![op.key] = y]
  <2> DEFINE w == value'
  <2>1. w[Found] = y /\ \A n \in Settled \ {Found} : w[n] = value[n]
    BY <1>0, <1>2, SettledNodes DEF IInv, TypeOK
  <2> HIDE DEF w
  <2>2. Stores(Settled, key, value, key, w, Found, op.key, y)
    BY <1>1, <1>2, <1>4, <2>1, SettledNodes DEF Stores
  <2>3. MapOf(Settled \cup {Found}, key, w) = [MapOf(Settled, key, value) EXCEPT ![op.key] = y]
    BY <1>1, <1>2, <2>2, MapOfStored
  <2> QED  BY <2>3 DEF w
<1>6. Contents' = [Contents EXCEPT ![op.key] = y]
  BY <1>2, <1>3, <1>5
<1>7. Request = op /\ Request' = NoOp
  BY <1>1, RequestOf, RequestNext
<1> QED  BY <1>0, <1>1, <1>6, <1>7 DEF Map!Put, Map!PutReq, Map!NoReq, NoOp, PutOp, Stage

\* put has allocated and filled the new node: no caller can see it yet.
LEMMA CreateHidden == IInv /\ PutCreate => UNCHANGED <<Contents, Stage, Request, ret>>
<1> SUFFICES ASSUME IInv, PutCreate  PROVE UNCHANGED <<Contents, Stage, Request, ret>>
  OBVIOUS
<1>1. PICK n \in Node, v \in {op.value, Null} :
        /\ Fresh(n) /\ newnode' = n
        /\ key' = [key EXCEPT ![n] = op.key] /\ value' = [value EXCEPT ![n] = v]
  BY DEF PutCreate
<1>2. pc = "putFound" /\ pc' = "putLink" /\ newnode = Null /\ UNCHANGED <<op, ret, forward>>
  BY DEF PutCreate, IInv, CallInv
<1>3. n \notin Linked(forward, 0)
  BY <1>1, <1>2, FreshIsUnlinked, LevelZero
<1>4. Settled' = Settled /\ n \notin Settled
  BY <1>1, <1>2, <1>3, NoNode DEF Settled, Linked
<1>5. \A m \in Settled : key'[m] = key[m] /\ value'[m] = value[m]
  BY <1>1, <1>4, SettledNodes DEF IInv, TypeOK
<1>6. Contents' = Contents
  BY <1>2, <1>4, <1>5, ContentsSame DEF Running
<1> QED  BY <1>2, <1>6 DEF Stage, Request

\* What one turn of the linking loop does to level 0.
LEMMA LinkZero ==
    ASSUME IInv, PutLink
    PROVE  Linked(forward', 0) = Linked(forward, 0) \cup {newnode}
<1>1. /\ pc = "putLink" /\ forward' = InsertAfter(forward, prev[i], newnode, i)
      /\ prev[i] \in Ptr /\ prev[i] # newnode /\ newnode \in Node /\ i \in Level
      /\ forward[newnode][i] = Unset
  BY LinkPosition DEF PutLink
<1>2. CASE i = 0
  BY <1>1, <1>2, Types, RawLinks
<1>3. CASE i # 0
  <2>1. Linked(forward', 0) = Linked(forward, 0)
    BY <1>1, <1>3, Types, RawLinks, LevelZero
  <2>2. 0 < i
    BY <1>1, <1>3, LevelAssumption DEF Level
  <2>3. newnode \in Linked(forward, 0)
    BY <1>1, <2>2, LevelZero DEF IInv, LinkInv
  <2> QED  BY <2>1, <2>3
<1> QED  BY <1>2, <1>3

\* A turn of the linking loop but the last changes nothing a caller can see.
LEMMA LinkHidden == IInv /\ PutLink /\ i # top => UNCHANGED <<Contents, Stage, Request, ret>>
<1> SUFFICES ASSUME IInv, PutLink, i # top  PROVE UNCHANGED <<Contents, Stage, Request, ret>>
  OBVIOUS
<1>1. pc = "putLink" /\ UNCHANGED <<pc, op, ret, newnode, key, value>>
  BY DEF PutLink
<1>2. Settled' = Settled
  BY <1>1, LinkZero DEF Settled
<1>3. Contents' = Contents
  BY <1>1, <1>2, ContentsSame DEF Running
<1> QED  BY <1>1, <1>3 DEF Stage, Request

\* After the last turn the new key is there, with its value if strdup had the memory.
LEMMA LinkMaps == IInv /\ PutLink /\ i = top => Map!Put
<1> SUFFICES ASSUME IInv, PutLink, i = top  PROVE Map!Put
  OBVIOUS
<1>1. /\ pc = "putLink" /\ pc' = "idle" /\ op' = NoOp /\ ret' = 0 /\ newnode' = Null
      /\ UNCHANGED <<key, value>>
      /\ op \in PutOp /\ op.key \in Key
  BY DEF PutLink, Return, Leave, IInv, CallInv, PutOp
<1> DEFINE y == value[newnode]
<1>2. /\ newnode \in Node /\ key[newnode] = op.key /\ y \in {op.value, Null}
      /\ \A n \in Settled : key[n] # op.key
  BY <1>1, LinkPosition DEF IInv, LinkInv, Settled
<1>3. Settled' = Settled \cup {newnode}
  <2>1. newnode' \notin Linked(forward', 0)
    BY <1>1, NoNode DEF Linked
  <2> QED  BY <2>1, LinkZero DEF Settled
<1>4. Contents = MapOf(Settled, key, value) /\ Contents' = MapOf(Settled \cup {newnode}, key, value)
  BY <1>1, <1>3, ContentsRunning, ContentsRunningNext DEF Running
<1>5. Contents' = [Contents EXCEPT ![op.key] = y]
  <2>1. Stores(Settled, key, value, key, value, newnode, op.key, y)
    BY <1>1, <1>2, SettledNodes DEF Stores
  <2>2. MapOf(Settled \cup {newnode}, key, value) = [MapOf(Settled, key, value) EXCEPT ![op.key] = y]
    BY <1>1, <1>2, <2>1, MapOfStored
  <2> QED  BY <1>4, <2>2
<1>6. Request = op /\ Request' = NoOp
  BY <1>1, RequestOf, RequestNext
<1> QED  BY <1>1, <1>2, <1>5, <1>6 DEF Map!Put, Map!PutReq, Map!NoReq, NoOp, PutOp, Stage

\* get answers what the map holds under its key.
LEMMA GetMaps == IInv /\ GetReturn => Map!Get
<1> SUFFICES ASSUME IInv, GetReturn  PROVE Map!Get
  OBVIOUS
<1>1. /\ pc = "getFound" /\ pc' = "idle" /\ op' = NoOp /\ ret' = Answer
      /\ newnode = Null /\ newnode' = Null /\ op \in GetOp /\ op.key \in Key
      /\ UNCHANGED <<forward, key, value>>
  BY DEF GetReturn, Return, Leave, listVars, IInv, CallInv, GetOp
<1>2. Contents' = Contents
  BY <1>1, ContentsSame DEF Running, Settled
<1>3. Contents[op.key] = HeldAt(Settled, key, value, op.key)
  BY <1>1, ContentsRunning DEF Running, MapOf
<1>4. ret' = Contents[op.key]
  <2>1. CASE Found # Null
    <3>1. Found \in Settled /\ key[Found] = op.key
      BY <1>1, <2>1, FoundPosition DEF Settled
    <3> QED  BY <1>1, <1>3, <2>1, <3>1, SettledNodes, HeldValue DEF Answer
  <2>2. CASE Found = Null
    <3>1. \A n \in Settled : key[n] # op.key
      BY <1>1, <2>2, FoundPosition DEF Settled
    <3> QED  BY <1>1, <1>3, <2>2, <3>1, HeldNothing DEF Answer
  <2> QED  BY <2>1, <2>2
<1>5. Request = op /\ Request' = NoOp
  BY <1>1, RequestOf, RequestNext
<1> QED  BY <1>1, <1>2, <1>4, <1>5 DEF Map!Get, Map!GetReq, Map!NoReq, NoOp, GetOp, Stage

\* Neither the turns of the searches show, nor do_snapshot, nor those of kvs_close.
LEMMA TurnHidden ==
    IInv /\ (\/ PutAdvance \/ PutDescend \/ GetAdvance \/ GetDescend \/ SnapCall \/ SnapNext
             \/ SnapWrite \/ SnapAbort \/ SnapEnd \/ CloseNode \/ CloseEnd)
        => UNCHANGED <<Contents, Stage, Request, ret>>
<1> SUFFICES ASSUME IInv,
                    \/ PutAdvance \/ PutDescend \/ GetAdvance \/ GetDescend \/ SnapCall \/ SnapNext
                    \/ SnapWrite \/ SnapAbort \/ SnapEnd \/ CloseNode \/ CloseEnd
             PROVE  UNCHANGED <<Contents, Stage, Request, ret>>
  OBVIOUS
<1>1. UNCHANGED <<ret, forward, key, value>>
  BY DEF PutAdvance, PutDescend, GetAdvance, GetDescend, SnapCall, SnapNext, SnapWrite, SnapAbort,
     SnapEnd, CloseNode, CloseEnd, listVars
<1>2. CASE PutAdvance \/ PutDescend \/ GetAdvance \/ GetDescend
  <2>1. /\ pc \in {"putSearch", "getSearch"} /\ UNCHANGED <<op, newnode>>
        /\ pc' \in {"putSearch", "putFound", "getSearch", "getFound"}
    BY <1>2 DEF PutAdvance, PutDescend, GetAdvance, GetDescend
  <2>2. Contents' = Contents
    BY <1>1, <2>1, ContentsSame DEF Running, Settled
  <2> QED  BY <1>1, <2>1, <2>2 DEF Stage, Request
<1>3. CASE SnapCall \/ SnapNext \/ SnapWrite \/ SnapAbort \/ SnapEnd
  <2>1. /\ pc \in {"idle", "snap", "getFound"} /\ pc' \in {"idle", "snap", "getSearch"}
        /\ newnode = Null /\ newnode' = Null /\ op \in SnapOp \cup {NoOp}
    BY <1>3 DEF SnapCall, SnapNext, Search, SnapWrite, SnapAbort, SnapEnd, Leave, localVars, IInv, CallInv
  <2>2. op' \in SnapOp \cup {NoOp}
    <3>1. CASE SnapNext
      <4>1. it \in Linked(forward, 0)
        BY <3>1 DEF SnapNext, IInv, SnapInv
      <4> QED  BY <3>1, <4>1, LinkedKeys, LevelZero DEF SnapNext, Search, SnapOp
    <3>2. CASE ~SnapNext
      BY <1>3, <2>1, <3>2 DEF SnapCall, SnapWrite, SnapAbort, SnapEnd, Leave
    <3> QED  BY <3>1, <3>2
  <2>3. Contents' = Contents
    BY <1>1, <2>1, ContentsSame DEF Running, Settled
  <2>4. Request = NoOp /\ Request' = NoOp
    BY <2>1, <2>2, RequestOf, RequestNext
  <2> QED  BY <1>1, <2>1, <2>3, <2>4 DEF Stage
<1>4. CASE CloseNode \/ CloseEnd
  <2>1. pc = "closing" /\ pc' \in {"closing", "done"} /\ op' = op
    BY <1>4 DEF CloseNode, CloseEnd
  <2>2. Contents = [k \in Key |-> Null] /\ Contents' = [k \in Key |-> Null]
    BY <2>1 DEF Contents
  <2> QED  BY <1>1, <2>1, <2>2 DEF Stage, Request
<1> QED  BY <1>2, <1>3, <1>4

LEMMA InitMaps == Init => Map!Init
<1> SUFFICES ASSUME Init  PROVE Map!Init
  OBVIOUS
<1>1. Linked(forward, 0) = {}
  BY NoNode, LevelZero DEF Init, Linked
<1>2. Contents = [k \in Key |-> Null]
  BY <1>1 DEF Contents
<1>3. Request = NoOp
  BY RequestOf DEF Init
<1> QED  BY <1>2, <1>3 DEF Init, Map!Init, Map!NoReq, NoOp, Stage

LEMMA StepMaps == IInv /\ [Next]_vars => [Map!Next]_<<Contents, Stage, Request, ret>>
<1> SUFFICES ASSUME IInv, [Next]_vars
             PROVE  Map!Next \/ UNCHANGED <<Contents, Stage, Request, ret>>
  OBVIOUS
<1>1. CASE KvsOpen \/ KvsOpenFails
  BY <1>1, OpenMaps DEF Map!Next
<1>2. CASE PutCall \/ GetCall
  BY <1>2, CallMaps DEF Map!Next
<1>3. CASE CloseCall \/ PutDies \/ SnapDies
  BY <1>3, EndMaps DEF Map!Next
<1>4. CASE PutReplace \/ PutReplaceLoses
  BY <1>4, ReplaceMaps DEF Map!Next
<1>5. CASE PutLink
  BY <1>5, LinkHidden, LinkMaps DEF Map!Next
<1>6. CASE GetReturn
  BY <1>6, GetMaps DEF Map!Next
<1>7. CASE PutCreate
  BY <1>7, CreateHidden
<1>8. CASE \/ PutAdvance \/ PutDescend \/ GetAdvance \/ GetDescend \/ SnapCall \/ SnapNext
           \/ SnapWrite \/ SnapAbort \/ SnapEnd \/ CloseNode \/ CloseEnd
  BY <1>8, TurnHidden
<1>9. CASE Ended \/ UNCHANGED vars
  <2>1. UNCHANGED <<pc, op, ret, forward, key, value, newnode>>
    BY <1>9 DEF Ended, vars, listVars, localVars
  <2> QED  BY <2>1 DEF Contents, Stage, Request
<1> QED  BY <1>1, <1>2, <1>3, <1>4, <1>5, <1>6, <1>7, <1>8, <1>9 DEF Next, Step

\* The skip list is the map main.c and do_recovery take it for, whatever the keys, the values,
\* the levels rand_lv draws and the mallocs that fail; a strdup that fails spoils the key of
\* its own put only, and do_snapshot changes nothing.
THEOREM Implements == Spec => ImplementsMap
<1>1. Spec => Map!Init /\ [][Map!Next]_<<Contents, Stage, Request, ret>>
  BY InitMaps, StepMaps, Inductive, PTL DEF Spec
<1> QED  BY <1>1 DEF ImplementsMap, Map!Spec, Map!mapVars
================================================================================
