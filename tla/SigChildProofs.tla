------------------------------ MODULE SigChildProofs ------------------------------
(****************************************************************************)
(* The safety of sigchild.c for any number of children: IInv of SigChild is *)
(* inductive, and what TLC checks for four children follows from it.        *)
(****************************************************************************)
EXTENDS SigChild, FiniteSetTheorems, TLAPS

LEMMA Children ==
    /\ IsFiniteSet(Child) /\ Cardinality(Child) = NUM
    /\ \A S \in SUBSET Child : /\ IsFiniteSet(S) /\ Cardinality(S) \in 0..NUM
                               /\ Cardinality(S) = NUM => S = Child
<1>1. IsFiniteSet(Child) /\ Cardinality(Child) = NUM
  BY NumAssumption, FS_Interval DEF Child
<1>2. ASSUME NEW S \in SUBSET Child
      PROVE  /\ IsFiniteSet(S) /\ Cardinality(S) \in 0..NUM
             /\ Cardinality(S) = NUM => S = Child
  <2>1. IsFiniteSet(S) /\ Cardinality(S) <= NUM /\ (Cardinality(S) = NUM => S = Child)
    BY <1>1, FS_Subset
  <2>2. Cardinality(S) \in Nat
    BY <2>1, FS_CardinalityType
  <2> QED  BY <2>1, <2>2, NumAssumption
<1> QED  BY <1>1, <1>2

\* The number of children counted out and not yet counted out add up.
LEMMA CountedBounds ==
    ASSUME Counted
    PROVE  ccount \in 0..NUM /\ (ccount <= 0 => Reaped = Child)
<1>1. Cardinality(Reaped) \in 0..NUM /\ (Cardinality(Reaped) = NUM => Reaped = Child)
  BY Children DEF Reaped
<1> QED  BY <1>1, NumAssumption DEF Counted

LEMMA SameReaped ==
    ASSUME Counted, ccount' = ccount, Reaped' = Reaped
    PROVE  Counted'
  BY DEF Counted

LEMMA InitInv == Init => IInv
<1> SUFFICES ASSUME Init  PROVE IInv
  OBVIOUS
<1>1. Reaped = {} /\ Zombies = {}
  BY DEF Init, Reaped, Zombies
<1>2. Counted
  BY <1>1, FS_EmptySet, NumAssumption DEF Init, Counted
<1>3. TypeOK
  <2>1. i \in 0..NUM /\ ccount \in 0..NUM
    BY NumAssumption DEF Init
  <2>2. pending \in BOOLEAN /\ handling \in BOOLEAN /\ lostWake \in BOOLEAN
    BY DEF Init
  <2>3. child \in [Child -> {"none", "failed", "running", "zombie", "reaped"}]
    BY DEF Init
  <2> QED  BY <2>1, <2>2, <2>3 DEF Init, TypeOK
<1>4. ForkInv
  <2>1. \A c \in Child : 0 <= c
    BY NumAssumption DEF Child
  <2> QED  BY <2>1 DEF Init, ForkInv
<1> QED  BY <1>1, <1>2, <1>3, <1>4 DEF Init, IInv, ZombieSeen, SleepInv, DoneInv

LEMMA NextInv == IInv /\ [Next]_vars => IInv'
<1> SUFFICES ASSUME IInv, [Next]_vars  PROVE IInv'
  OBVIOUS
<1>0. TypeOK /\ Counted /\ ForkInv /\ ZombieSeen /\ SleepInv /\ DoneInv
  BY DEF IInv
<1>1. CASE Fork \/ ForkFails
  <2>1. /\ pc = "fork" /\ i < NUM /\ i' = i + 1 /\ ~handling
        /\ UNCHANGED <<pc, ccount, pending, handling, lostWake>>
        /\ \E s \in {"running", "failed"} : child' = [child EXCEPT ![i] = s]
    BY <1>1 DEF Fork, ForkFails, MainRuns
  <2>2. i \in Child /\ child[i] = "none" /\ i' \in 0..NUM
    BY <1>0, <2>1, NumAssumption DEF TypeOK, ForkInv, Child
  <2>3. /\ child' \in [Child -> {"none", "failed", "running", "zombie", "reaped"}]
        /\ child'[i] \in {"failed", "running"}
        /\ \A c \in Child \ {i} : child'[c] = child[c]
    BY <1>0, <2>1, <2>2 DEF TypeOK
  <2>4. Reaped' = Reaped /\ Zombies' = Zombies
    BY <2>2, <2>3 DEF Reaped, Zombies
  <2>5. TypeOK'
    BY <1>0, <2>1, <2>2, <2>3 DEF TypeOK
  <2>6. Counted'
    BY <1>0, <2>1, <2>4, SameReaped
  <2>7. ForkInv'
    <3>1. \A c \in Child : i <= c /\ c # i <=> i + 1 <= c
      BY <1>0, NumAssumption DEF TypeOK, Child
    <3>2. \A c \in Child : child'[c] = "none" <=> i + 1 <= c
      BY <1>0, <2>2, <2>3, <3>1 DEF ForkInv
    <3> QED  BY <2>1, <3>2 DEF ForkInv
  <2> QED  BY <1>0, <2>1, <2>4, <2>5, <2>6, <2>7 DEF IInv, ZombieSeen, SleepInv, DoneInv
<1>2. CASE ForkDone \/ Test \/ Pause
  <2>1. UNCHANGED <<i, ccount, child, pending, handling, lostWake>> /\ ~handling
    BY <1>2 DEF ForkDone, Test, Pause, MainRuns
  <2>2. Reaped' = Reaped /\ Zombies' = Zombies
    BY <2>1 DEF Reaped, Zombies
  <2>3. Counted' /\ ZombieSeen'
    BY <1>0, <2>1, <2>2, SameReaped DEF ZombieSeen
  <2>4. TypeOK' /\ ForkInv'
    BY <1>0, <1>2, <2>1 DEF TypeOK, ForkInv, ForkDone, Test, Pause
  <2>5. SleepInv' /\ DoneInv'
    <3>1. ~(ccount > 0) => ccount <= 0
      BY <1>0 DEF TypeOK
    <3> QED  BY <1>0, <1>2, <2>1, <3>1 DEF ForkDone, Test, Pause, SleepInv, DoneInv
  <2> QED  BY <2>3, <2>4, <2>5 DEF IInv
<1>3. CASE \E c \in Child : ChildExits(c)
  <2>1. PICK c \in Child : ChildExits(c)
    BY <1>3
  <2>2. /\ child[c] = "running" /\ child' = [child EXCEPT ![c] = "zombie"] /\ pending' = TRUE
        /\ UNCHANGED <<pc, i, ccount, handling, lostWake>>
    BY <2>1 DEF ChildExits, Running
  <2>3. Reaped' = Reaped
    BY <1>0, <2>2 DEF Reaped, TypeOK
  <2>4. TypeOK' /\ ForkInv'
    BY <1>0, <2>2 DEF TypeOK, ForkInv
  <2>5. Counted'
    BY <1>0, <2>2, <2>3, SameReaped
  <2> QED  BY <1>0, <2>2, <2>4, <2>5 DEF IInv, ZombieSeen, SleepInv, DoneInv
<1>4. CASE Deliver
  <2>1. Reaped' = Reaped
    BY <1>4 DEF Deliver, Reaped
  <2>2. TypeOK' /\ ForkInv' /\ Counted'
    BY <1>0, <1>4, <2>1, SameReaped DEF Deliver, TypeOK, ForkInv
  <2> QED  BY <1>0, <1>4, <2>2 DEF Deliver, IInv, ZombieSeen, SleepInv, DoneInv
<1>5. CASE \E c \in Child : Reap(c)
  <2>1. PICK c \in Child : Reap(c)
    BY <1>5
  <2>2. /\ handling /\ child[c] = "zombie" /\ child' = [child EXCEPT ![c] = "reaped"]
        /\ ccount' = ccount - 1
        /\ UNCHANGED <<pc, i, pending, handling, lostWake>>
    BY <2>1 DEF Reap, Zombies
  <2>3. Reaped' = Reaped \cup {c} /\ c \notin Reaped
    BY <1>0, <2>2 DEF Reaped, TypeOK
  <2>4. Counted'
    <3>1. IsFiniteSet(Reaped) /\ Cardinality(Reaped) \in 0..NUM
      BY Children DEF Reaped
    <3>2. Cardinality(Reaped') = Cardinality(Reaped) + 1
      BY <2>3, <3>1, FS_AddElement
    <3> QED  BY <1>0, <2>2, <3>1, <3>2, NumAssumption DEF Counted
  <2>5. ccount' \in 0..NUM
    <3>1. Cardinality(Reaped') \in 0..NUM
      BY <2>3, Children DEF Reaped
    <3> QED  BY <2>4, <3>1, NumAssumption DEF Counted
  <2>6. TypeOK' /\ ForkInv'
    BY <1>0, <2>2, <2>5 DEF TypeOK, ForkInv
  <2> QED  BY <1>0, <2>2, <2>4, <2>6 DEF IInv, ZombieSeen, SleepInv, DoneInv
<1>6. CASE HandlerReturns
  <2>1. Reaped' = Reaped /\ Zombies' = {}
    BY <1>6 DEF HandlerReturns, Reaped, Zombies
  <2>2. Counted' /\ ZombieSeen'
    BY <1>0, <1>6, <2>1, SameReaped DEF HandlerReturns, ZombieSeen
  <2>3. TypeOK' /\ ForkInv'
    BY <1>0, <1>6 DEF HandlerReturns, TypeOK, ForkInv
  <2>4. SleepInv' /\ DoneInv'
    <3>1. ccount > 0 \/ ccount <= 0
      BY <1>0 DEF TypeOK
    <3> QED  BY <1>0, <1>6, <3>1 DEF HandlerReturns, SleepInv, DoneInv
  <2> QED  BY <2>2, <2>3, <2>4 DEF IInv
<1>7. CASE UNCHANGED vars
  BY <1>0, <1>7 DEF vars, IInv, TypeOK, Counted, Reaped, ForkInv, ZombieSeen, Zombies,
     SleepInv, DoneInv
<1> QED  BY <1>1, <1>2, <1>3, <1>4, <1>5, <1>6, <1>7 DEF Next, Main, Handler

\* The inductive invariant of sigchild.c, for any NUM.
THEOREM Inductive == Spec => []IInv
  BY InitInv, NextInv, PTL DEF Spec

\* main's variables and the kernel's keep their types; ccount never goes below 0.
THEOREM TypeCorrect == Spec => []TypeOK
<1>1. IInv => TypeOK
  BY DEF IInv
<1> QED  BY <1>1, Inductive, PTL

\* However many exits merge into one SIGCHLD, a zombie is always about to be seen.
THEOREM ZombiesSeen == Spec => []ZombieSeen
<1>1. IInv => ZombieSeen
  BY DEF IInv
<1> QED  BY <1>1, Inductive, PTL

\* main returns after the last of its children, never before.
THEOREM ReturnsAfterAll == Spec => []ReturnsLast
<1>1. IInv => ReturnsLast
  BY CountedBounds DEF IInv, DoneInv, ReturnsLast
<1> QED  BY <1>1, Inductive, PTL

\* The race between the test and the pause and a failed fork are the only ways to hang.
THEOREM OnlyTwoWaysToHang == Spec => []StuckOnlyIf
<1>1. ASSUME IInv  PROVE StuckOnlyIf
  <2> SUFFICES ASSUME Stuck, \A c \in Child : child[c] # "failed"  PROVE lostWake
    BY DEF StuckOnlyIf
  <2>1. \A c \in Child : child[c] # "none"
    <3>1. i = NUM
      BY <1>1 DEF Stuck, IInv, ForkInv
    <3>2. \A c \in Child : ~(i <= c)
      BY <3>1, NumAssumption DEF Child
    <3> QED  BY <1>1, <3>2 DEF IInv, ForkInv
  <2>2. \A c \in Child : child[c] # "running" /\ child[c] # "zombie"
    BY DEF Stuck, Running, Zombies
  <2>3. Reaped = Child
    BY <1>1, <2>1, <2>2 DEF IInv, TypeOK, Reaped
  <2>4. ccount = 0
    BY <1>1, <2>3, Children, NumAssumption DEF IInv, Counted
  <2> QED  BY <1>1, <2>4 DEF IInv, SleepInv, Stuck
<1> QED  BY <1>1, Inductive, PTL
================================================================================
