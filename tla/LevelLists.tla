------------------------------- MODULE LevelLists -------------------------------
(****************************************************************************)
(* The linked lists a skip list is made of, one per level: forward pointers *)
(* as a function f, f[p][j] being p->forward[j], and the keys of the nodes  *)
(* as a function k.  Both skip lists of the repository store their nodes so.*)
(****************************************************************************)
EXTENDS Integers

CONSTANTS
    Key,        \* keys, ordered as strcmp orders them
    Node,       \* the addresses malloc can return for a node
    Header,     \* the address of the header node
    Null,       \* the C NULL
    MaxLevel    \* the highest index of a forward array

ASSUME KeyAssumption == Key \subseteq Nat
ASSUME PtrAssumption == Header \notin Node /\ Null \notin Node \cup {Header}
ASSUME LevelAssumption == MaxLevel \in Nat

Ptr   == Node \cup {Header}
Level == 0..MaxLevel

\* The nodes some pointer of level j points to.
Linked(f, j) == {n \in Node : \E p \in Ptr : f[p][j] = n}

OnLevel(f, j) == {Header} \cup Linked(f, j)

\* The node p stands before every node whose key is at least x.
Precedes(k, p, x) == p = Header \/ k[p] < x

\* q is the first node after p on level j, NULL when p is the last one.
IsNext(f, k, p, q, j) ==
    /\ q # Null => Precedes(k, p, k[q])
    /\ \A n \in Linked(f, j) : Precedes(k, p, k[n]) => q # Null /\ k[q] <= k[n]

\* Level j is one chain from the header in strictly increasing key order.
Sorted(f, k, j) == \A p \in OnLevel(f, j) : IsNext(f, k, p, f[p][j], j)

\* p is the last one of level j before the key x.
IsLastBefore(f, k, p, x, j) ==
    /\ p \in OnLevel(f, j)
    /\ Precedes(k, p, x)
    /\ f[p][j] = Null \/ x <= k[f[p][j]]

\* A splice with its two assignments the other way round (mutant).
InsertAfterSwapped(f, p, m, j) ==
    [f EXCEPT ![p] = [@ EXCEPT ![j] = m],
              ![m] = [@ EXCEPT ![j] = m]]

\* The node m spliced in after p on level j.
InsertAfter(f, p, m, j) ==
    [f EXCEPT ![p] = [@ EXCEPT ![j] = m],
              ![m] = [@ EXCEPT ![j] = f[p][j]]]

--------------------------------------------------------------------------------
(* What the proofs say of lists *)

PtrMaps == [Ptr -> [Level -> Node \cup {Null}]]
KeyMaps == [Node -> Key \cup {Null}]

\* The map held by the nodes N with the keys k and the values v.
Holders(N, k, x) == {n \in N : k[n] = x}
HeldAt(N, k, v, x) == IF Holders(N, k, x) = {} THEN Null ELSE v[CHOOSE n \in Holders(N, k, x) : TRUE]
MapOf(N, k, v) == [x \in Key |-> HeldAt(N, k, v, x)]

DistinctKeys(N, k) == \A m, n \in N : k[m] = k[n] => m = n

\* k2 and v2 differ from k and v on the nodes N in that m, the only node of x, holds y.
Stores(N, k, v, k2, v2, m, x, y) ==
    /\ DistinctKeys(N, k)
    /\ \A n \in N \ {m} : k2[n] = k[n] /\ v2[n] = v[n] /\ k[n] # x
    /\ k2[m] = x /\ v2[m] = y
================================================================================
