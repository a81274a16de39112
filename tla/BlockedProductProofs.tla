-------------------------- MODULE BlockedProductProofs --------------------------
(****************************************************************************)
(* What the threads of matmul.c read and what an entry of C ends up with,   *)
(* for matrices, blocks, vector registers and teams of any size (K and BK   *)
(* multiples of the register, as in the source): the blocks of a loop nest  *)
(* cover it, the shares of the threads are apart, a step of the vector loop *)
(* covers the span of its block, and IInv below, which accounts for every   *)
(* product a turn of the nest still owes, is inductive.                     *)
(****************************************************************************)
EXTENDS BlockedProduct, FiniteSetTheorems, TLAPS

--------------------------------------------------------------------------------
(* Arithmetic *)

LEMMA MulLe == \A a, b, c \in Nat : a <= b => a * c <= b * c
  OBVIOUS

LEMMA MulNat == \A a, b \in Nat : a * b \in Nat
  OBVIOUS

LEMMA DivMod ==
    ASSUME NEW a \in Nat, NEW d \in Nat \ {0}
    PROVE  a \div d \in Nat /\ a % d \in 0..(d - 1) /\ a = (a \div d) * d + (a % d)
  OBVIOUS

\* A quotient and a remainder are the only ones.
LEMMA DivUnique ==
    ASSUME NEW d \in Nat \ {0}, NEW p \in Nat, NEW q \in Nat,
           NEW r \in 0..(d - 1), NEW s \in 0..(d - 1), p * d + r = q * d + s
    PROVE  p = q /\ r = s
<1>1. ASSUME NEW x \in Nat, NEW y \in Nat, x < y PROVE x * d + d <= y * d
  <2>1. (x + 1) * d <= y * d
    BY <1>1, MulLe
  <2> QED  BY <2>1
<1>2. ~(p < q)
  <2> SUFFICES ASSUME p < q PROVE FALSE
    OBVIOUS
  <2>1. p * d + d <= q * d
    BY <1>1
  <2>2. p * d \in Nat /\ q * d \in Nat
    BY MulNat
  <2> QED  BY <2>1, <2>2
<1>3. ~(q < p)
  <2> SUFFICES ASSUME q < p PROVE FALSE
    OBVIOUS
  <2>1. q * d + d <= p * d
    BY <1>1
  <2>2. p * d \in Nat /\ q * d \in Nat
    BY MulNat
  <2> QED  BY <2>1, <2>2
<1> QED  BY <1>2, <1>3

LEMMA MinOfTwo ==
    ASSUME NEW a \in Int, NEW b \in Int
    PROVE  Min({a, b}) = IF a <= b THEN a ELSE b
<1>1. CASE a <= b
  <2>1. \E x \in {a, b} : \A y \in {a, b} : x <= y
    BY <1>1
  <2> QED  BY <1>1, <2>1 DEF Min
<1>2. CASE ~(a <= b)
  <2>1. \E x \in {a, b} : \A y \in {a, b} : x <= y
    BY <1>2
  <2> QED  BY <1>2, <2>1 DEF Min
<1> QED  BY <1>1, <1>2

LEMMA LeastNat ==
    ASSUME NEW S \in SUBSET Nat, S # {}
    PROVE  \E x \in S : \A y \in S : x <= y
<1> DEFINE R == {ss \in Nat \X Nat : ss[1] < ss[2]}
<1>1. IsWellFoundedOn(R, Nat)
  BY NatLessThanWellFounded DEF OpToRel
<1> HIDE DEF R
<1>2. PICK x \in S : \A y \in S : ~ (<<y, x>> \in R)
  BY <1>1, WFMin
<1>3. \A y \in S : x <= y
  <2> SUFFICES ASSUME NEW y \in S, ~(x <= y) PROVE FALSE
    OBVIOUS
  <2>1. <<y, x>> \in R
    BY DEF R
  <2> QED  BY <1>2, <2>1
<1> QED  BY <1>3

--------------------------------------------------------------------------------
(* The sizes, and how a loop is dealt out *)

LEMMA Sizes ==
    /\ M \in Nat \ {0} /\ K \in Nat \ {0} /\ N \in Nat \ {0}
    /\ BM \in Nat \ {0} /\ BN \in Nat \ {0} /\ BK \in Nat \ {0}
    /\ W \in Nat \ {0} /\ T \in Nat \ {0}
  BY SizeAssumption

\* Where the turns of thread s begin.
First(n, s) == (n \div T) * s + Min({s, n % T})

LEMMA FirstIs ==
    ASSUME NEW n \in Nat
    PROVE  /\ \A s \in Nat : First(n, s) \in Nat
           /\ First(n, 0) = 0 /\ First(n, T) = n
           /\ \A s, u \in Nat : s <= u => First(n, s) <= First(n, u)
<1> DEFINE q == n \div T
           r == n % T
<1>1. q \in Nat /\ r \in 0..(T - 1) /\ n = q * T + r
  BY Sizes, DivMod
<1>2. \A s \in Nat : First(n, s) = q * s + (IF s <= r THEN s ELSE r)
  BY <1>1, MinOfTwo DEF First
<1> HIDE DEF q, r
<1>3. T \in Nat /\ T > 0 /\ r \in Nat /\ r < T
  BY <1>1, Sizes
<1>4. \A s \in Nat : q * s \in Nat
  BY <1>1, MulNat
<1>5. \A s, u \in Nat : s <= u => q * s <= q * u
  BY <1>1, MulLe
<1>6. q * 0 = 0
  BY <1>1
<1>7. \A s \in Nat : First(n, s) \in Nat
  BY <1>2, <1>3, <1>4
<1>8. First(n, 0) = 0 /\ First(n, T) = n
  BY <1>1, <1>2, <1>3, <1>6
<1>9. ASSUME NEW s \in Nat, NEW u \in Nat, s <= u
      PROVE  First(n, s) <= First(n, u)
  <2>1. q * s <= q * u /\ q * s \in Nat /\ q * u \in Nat
    BY <1>4, <1>5, <1>9
  <2> QED  BY <1>2, <1>3, <1>9, <2>1
<1> QED  BY <1>7, <1>8, <1>9

LEMMA ShareIs == \A n, t : Share(n, t) = First(n, t)..(First(n, t + 1) - 1)
  BY DEF Share, First

\* Every turn of a loop is one thread's.
LEMMA SharesCover ==
    ASSUME NEW n \in Nat
    PROVE  /\ \A t \in Thread : Share(n, t) \subseteq 0..(n - 1)
           /\ \A x \in 0..(n - 1) : \E t \in Thread : x \in Share(n, t)
           /\ \A t, u \in Thread : t # u => Share(n, t) \cap Share(n, u) = {}
<1>0. T \in Nat /\ T > 0 /\ \A t \in Thread : t \in Nat /\ t + 1 \in Nat /\ t + 1 <= T
  BY Sizes DEF Thread
<1>1. /\ \A s \in Nat : First(n, s) \in Nat
      /\ First(n, 0) = 0 /\ First(n, T) = n
      /\ \A s, u \in Nat : s <= u => First(n, s) <= First(n, u)
  BY FirstIs
<1>2. ASSUME NEW t \in Thread
      PROVE  Share(n, t) \subseteq 0..(n - 1)
  <2>1. First(n, t) \in Nat /\ First(n, t + 1) \in Nat /\ First(n, t + 1) <= n
    BY <1>0, <1>1
  <2> QED  BY <2>1, ShareIs
<1>3. ASSUME NEW x \in 0..(n - 1)
      PROVE  \E t \in Thread : x \in Share(n, t)
  <2> DEFINE P == {s \in Nat : First(n, s) > x}
  <2>1. T \in P /\ P \in SUBSET Nat
    BY <1>0, <1>1
  <2>2. PICK s \in P : \A u \in P : s <= u
    BY <2>1, LeastNat
  <2>3. s \in Nat /\ s # 0 /\ s <= T
    BY <1>1, <2>1, <2>2
  <2>4. s - 1 \in Nat /\ s - 1 \notin P /\ s - 1 \in Thread /\ s - 1 + 1 = s
    BY <1>0, <2>2, <2>3 DEF Thread
  <2>5. First(n, s - 1) <= x /\ x < First(n, s - 1 + 1)
    BY <1>1, <2>2, <2>3, <2>4
  <2>6. x \in Share(n, s - 1)
    BY <1>1, <2>3, <2>4, <2>5, ShareIs
  <2> QED  BY <2>4, <2>6
<1>4. ASSUME NEW t \in Thread, NEW u \in Thread, t < u
      PROVE  Share(n, t) \cap Share(n, u) = {}
  <2>1. t + 1 <= u
    BY <1>0, <1>4
  <2>2. /\ First(n, t + 1) <= First(n, u) /\ First(n, t + 1) \in Nat
        /\ First(n, u) \in Nat /\ First(n, t) \in Nat /\ First(n, u + 1) \in Nat
    BY <1>0, <1>1, <2>1
  <2>3. /\ Share(n, t) = First(n, t)..(First(n, t + 1) - 1)
        /\ Share(n, u) = First(n, u)..(First(n, u + 1) - 1)
    BY ShareIs
  <2>4. \A x \in Share(n, t) : x \notin Share(n, u)
    BY <2>2, <2>3
  <2> QED  BY <2>4
<1>5. \A t, u \in Thread : t # u => t < u \/ u < t
  BY <1>0
<1> QED  BY <1>2, <1>3, <1>4, <1>5

--------------------------------------------------------------------------------
(* Blocks *)

\* A block begins inside, and every place is in a block.
LEMMA BlocksIs ==
    ASSUME NEW n \in Nat \ {0}, NEW size \in Nat \ {0}
    PROVE  /\ Blocks(n, size) \in Nat \ {0}
           /\ \A b \in 0..(Blocks(n, size) - 1) : b * size \in Nat /\ b * size < n
           /\ \A x \in 0..(n - 1) : x \div size \in 0..(Blocks(n, size) - 1)
<1> DEFINE m == n + size - 1
           q == m \div size
           r == m % size
<1>1. m \in Nat /\ q \in Nat /\ r \in 0..(size - 1) /\ m = q * size + r
  <2>1. m \in Nat
    OBVIOUS
  <2> HIDE DEF m
  <2> QED  BY <2>1, DivMod
<1>2. Blocks(n, size) = q
  BY DEF Blocks
<1>3. q * size <= m /\ q * size >= n /\ q * size \in Nat
  <2>1. q * size \in Nat
    BY <1>1, MulNat
  <2> HIDE DEF q, r
  <2> QED  BY <1>1, <2>1
<1>4. m = n + size - 1
  OBVIOUS
<1> HIDE DEF m, q, r
<1>5. q # 0
  <2> SUFFICES ASSUME q = 0 PROVE FALSE
    OBVIOUS
  <2>1. q * size = 0
    BY <1>1
  <2> QED  BY <1>3, <2>1
<1>6. ASSUME NEW b \in 0..(q - 1)
      PROVE  b * size \in Nat /\ b * size < n
  <2>1. b \in Nat /\ b + 1 \in Nat /\ b + 1 <= q
    BY <1>1
  <2>2. (b + 1) * size <= q * size
    BY <1>1, <2>1, MulLe
  <2>3. (b + 1) * size = b * size + size /\ b * size \in Nat
    BY <2>1
  <2> QED  BY <1>3, <1>4, <2>2, <2>3
<1>7. ASSUME NEW x \in 0..(n - 1)
      PROVE  x \div size \in 0..(q - 1)
  <2>1. x \div size \in Nat /\ x % size \in 0..(size - 1) /\ x = (x \div size) * size + (x % size)
    BY DivMod
  <2>2. ~(q <= x \div size)
    <3> SUFFICES ASSUME q <= x \div size PROVE FALSE
      OBVIOUS
    <3>1. q * size <= (x \div size) * size
      BY <1>1, <2>1, MulLe
    <3>2. (x \div size) * size \in Nat
      BY <2>1, MulNat
    <3> QED  BY <1>3, <2>1, <3>1, <3>2
  <2> QED  BY <1>1, <2>1, <2>2
<1> QED  BY <1>1, <1>2, <1>5, <1>6, <1>7

--------------------------------------------------------------------------------
(* What one turn of the jj loop multiplies *)

Steps == 0..(Blocks(K, BK) - 1)

Row    == 0..(M - 1)
Column == 0..(N - 1)

\* The products of the turn <<n, k, ii, jj>>.
Part(k, ii, jj) ==
    {<<ii * K + kk + l, kk * N + jj + l>> : kk \in VectorSteps(k), l \in 0..(W - 1)}

LEMMA Multiples ==
    /\ \E w \in Nat : K = w * W
    /\ \E w \in Nat : BK = w * W
<1>1. \A n \in Nat : n % W = 0 => n = (n \div W) * W /\ n \div W \in Nat
  <2> TAKE n \in Nat
  <2>1. n \div W \in Nat /\ n = (n \div W) * W + (n % W)
    BY Sizes, DivMod
  <2>2. (n \div W) * W \in Nat
    BY <2>1, Sizes, MulNat
  <2> QED  BY <2>1, <2>2
<1> QED  BY <1>1, Sizes, VectorAssumption

\* BK is a multiple of the register: the remainder loop makes no turn.
LEMMA NoRest ==
    ASSUME NEW k \in Nat
    PROVE  RestSteps(k) = {}
<1>1. (BK \div W) * W = BK
  <2>1. BK \div W \in Nat /\ BK = (BK \div W) * W + (BK % W)
    BY Sizes, DivMod
  <2>2. (BK \div W) * W \in Nat
    BY <2>1, Sizes, MulNat
  <2> QED  BY <2>1, <2>2, VectorAssumption
<1>2. k + BK \in Int /\ K \in Int
  BY Sizes
<1>3. Min({k + BK, K}) = IF k + BK <= K THEN k + BK ELSE K
  BY <1>2, MinOfTwo
<1>4. RestSteps(k) = (k + BK)..(Min({k + BK, K}) - 1)
  BY <1>1 DEF RestSteps
<1> QED  BY <1>2, <1>3, <1>4

LEMMA ProductsIs ==
    ASSUME NEW k \in Nat, NEW ii, NEW jj
    PROVE  Products(k, ii, jj) = SetToBag(Part(k, ii, jj))
<1> DEFINE R == {<<ii * K + kk, kk * N + jj>> : kk \in RestSteps(k)}
<1>1. R = {}
  BY NoRest
<1>2. ASSUME NEW S
      PROVE  SetToBag(S) (+) SetToBag({}) = SetToBag(S)
  BY DEF SetToBag, (+)
<1> DEFINE S == {<<ii * K + kk + l, kk * N + jj + l>> : kk \in VectorSteps(k), l \in 0..(W - 1)}
<1>3. Products(k, ii, jj) = SetToBag(S) (+) SetToBag(R)
  BY DEF Products
<1>4. S = Part(k, ii, jj)
  BY DEF Part
<1> HIDE DEF S, R
<1> QED  BY <1>1, <1>2, <1>3, <1>4

\* A step of the blocks of K: it begins at a multiple of the register, inside the row.
LEMMA StepIs ==
    ASSUME NEW b \in Steps
    PROVE  /\ b * BK \in Nat /\ b * BK < K
           /\ \E w \in Nat : b * BK = w * W
<1>1. b \in Nat /\ b * BK \in Nat /\ b * BK < K
  BY Sizes, BlocksIs DEF Steps
<1>2. PICK w \in Nat : BK = w * W
  BY Multiples
<1>3. b * BK = (b * w) * W /\ b * w \in Nat
  BY <1>1, <1>2, Sizes
<1> QED  BY <1>1, <1>3

\* The places of a row of A in step b.
Span(b) == {x \in 0..(K - 1) : b * BK <= x /\ x < b * BK + BK}

\* A vector of the step lies within its span, and begins at a multiple of the register.
LEMMA VectorIs ==
    ASSUME NEW b \in Steps, NEW kk \in VectorSteps(b * BK), NEW l \in 0..(W - 1)
    PROVE  /\ kk \in Nat /\ b * BK <= kk /\ kk + W <= K
           /\ kk + l \in Span(b)
           /\ \E m \in Nat : kk = b * BK + m * W
<1> DEFINE k == b * BK
<1>1. k \in Nat /\ k < K /\ BK \in Nat /\ K \in Nat /\ W \in Nat /\ W > 0
  BY StepIs, Sizes
<1>2. kk \in k..(k + BK - 1) /\ (kk - k) % W = 0 /\ kk + W - 1 < K
  BY DEF VectorSteps
<1> HIDE DEF k
<1> DEFINE m == (kk - k) \div W
<1>3. kk \in Nat /\ k <= kk /\ kk < k + BK /\ kk + W <= K /\ kk - k \in Nat
  BY <1>1, <1>2
<1>4. m \in Nat /\ kk - k = m * W
  <2>1. m \in Nat /\ kk - k = m * W + ((kk - k) % W)
    <3>1. \A a \in Nat : a \div W \in Nat /\ a = (a \div W) * W + (a % W)
      BY Sizes, DivMod
    <3> QED  BY <1>3, <3>1
  <2>2. m * W \in Nat
    BY <1>1, <2>1, MulNat
  <2> HIDE DEF m
  <2> QED  BY <1>2, <2>1, <2>2
<1> HIDE DEF m
<1>5. PICK w \in Nat : BK = w * W
  BY Multiples
<1>6. kk - k + W <= BK
  <2>1. m < w
    <3> SUFFICES ASSUME w <= m PROVE FALSE
      BY <1>4
    <3>1. w * W <= m * W
      BY <1>1, <1>4, MulLe
    <3> QED  BY <1>1, <1>3, <1>4, <1>5, <3>1
  <2>2. (m + 1) * W <= w * W
    BY <1>1, <1>4, <2>1, MulLe
  <2>3. (m + 1) * W = m * W + W
    BY <1>1, <1>4
  <2> QED  BY <1>4, <1>5, <2>2, <2>3
<1>7. kk + l \in 0..(K - 1) /\ k <= kk + l /\ kk + l < k + BK
  BY <1>1, <1>3, <1>6
<1>8. kk = k + m * W
  BY <1>1, <1>3, <1>4
<1> QED  BY <1>3, <1>4, <1>7, <1>8 DEF k, Span

\* Every place of the span is in one vector of the step.
LEMMA SpanCovered ==
    ASSUME NEW b \in Steps, NEW x \in Span(b)
    PROVE  \E kk \in VectorSteps(b * BK), l \in 0..(W - 1) : x = kk + l
<1> DEFINE k == b * BK
<1>1. k \in Nat /\ k < K /\ BK \in Nat /\ K \in Nat /\ W \in Nat \ {0} /\ W > 0
  BY StepIs, Sizes
<1>2. x \in Nat /\ x < K /\ k <= x /\ x < k + BK /\ x - k \in Nat
  BY <1>1 DEF Span
<1>3. PICK u \in Nat : k = u * W
  BY StepIs
<1>4. PICK w \in Nat : K = w * W
  BY Multiples
<1> HIDE DEF k
<1> DEFINE m == (x - k) \div W
           l == (x - k) % W
           kk == k + m * W
<1>5. m \in Nat /\ l \in 0..(W - 1) /\ x - k = m * W + l /\ m * W \in Nat
  <2>1. m \in Nat /\ l \in 0..(W - 1) /\ x - k = m * W + l
    BY <1>1, <1>2, DivMod
  <2> QED  BY <1>1, <2>1, MulNat
<1> HIDE DEF m, l
<1>6. x = kk + l /\ kk \in k..(k + BK - 1)
  BY <1>1, <1>2, <1>5
<1>7. (kk - k) % W = 0
  <2>1. kk - k = m * W
    BY <1>1, <1>5
  <2>2. (m * W) \div W \in Nat /\ (m * W) % W \in 0..(W - 1)
        /\ m * W = ((m * W) \div W) * W + ((m * W) % W)
    BY <1>1, <1>5, DivMod
  <2>3. 0 \in 0..(W - 1) /\ m * W = m * W + 0
    BY <1>1, <1>5
  <2>4. (m * W) % W = 0
    BY <1>1, <1>5, <2>2, <2>3, DivUnique
  <2> QED  BY <2>1, <2>4
<1>8. kk + W - 1 < K
  <2>1. kk = (u + m) * W
    BY <1>1, <1>3, <1>5
  <2>2. u + m < w
    <3> SUFFICES ASSUME w <= u + m PROVE FALSE
      BY <1>5
    <3>1. w * W <= (u + m) * W
      BY <1>1, <1>5, MulLe
    <3> QED  BY <1>1, <1>2, <1>4, <1>5, <1>6, <2>1, <3>1
  <2>3. (u + m + 1) * W <= w * W
    BY <1>1, <1>5, <2>2, MulLe
  <2>4. (u + m + 1) * W = kk + W
    BY <1>1, <1>5, <2>1
  <2> QED  BY <1>1, <1>4, <1>5, <2>3, <2>4
<1>9. kk \in VectorSteps(k)
  BY <1>6, <1>7, <1>8 DEF VectorSteps
<1> QED  BY <1>5, <1>6, <1>9 DEF k

\* The products of a turn are of the places of A the step spans, one for each, and of places of B.
LEMMA PartIs ==
    ASSUME NEW b \in Steps, NEW ii \in Row, NEW jj \in Column
    PROVE  /\ \A p \in Part(b * BK, ii, jj) :
                /\ \E x \in Span(b) : p[1] = ii * K + x
                /\ p[1] \in 0..(M * K - 1) /\ p[2] \in 0..(K * N - 1)
           /\ \A x \in Span(b) : \E p \in Part(b * BK, ii, jj) : p[1] = ii * K + x
           /\ \A p, q \in Part(b * BK, ii, jj) : p[1] = q[1] => p = q
<1> DEFINE k == b * BK
<1>1. /\ k \in Nat /\ K \in Nat /\ K > 0 /\ W \in Nat \ {0} /\ W > 0
      /\ N \in Nat /\ N > 0 /\ M \in Nat /\ M > 0
      /\ ii \in Nat /\ ii + 1 <= M /\ jj \in Nat /\ jj + 1 <= N
      /\ ii * K \in Nat
  BY StepIs, Sizes DEF Row, Column
<1>2. ASSUME NEW kk \in VectorSteps(k), NEW l \in 0..(W - 1)
      PROVE  /\ \E x \in Span(b) : ii * K + kk + l = ii * K + x
             /\ ii * K + kk + l \in 0..(M * K - 1) /\ kk * N + jj + l \in 0..(K * N - 1)
  <2>1. kk \in Nat /\ kk + W <= K /\ kk + l \in Span(b)
    BY VectorIs
  <2>2. ii * K + kk + l = ii * K + (kk + l)
    BY <1>1, <2>1
  <2>3. ii * K + kk + l \in 0..(M * K - 1)
    <3>1. (ii + 1) * K <= M * K
      BY <1>1, MulLe
    <3>2. (ii + 1) * K = ii * K + K /\ M * K \in Nat
      BY <1>1
    <3> QED  BY <1>1, <2>1, <3>1, <3>2
  <2>4. kk * N + jj + l \in 0..(K * N - 1)
    <3>1. (kk + W) * N <= K * N
      BY <1>1, <2>1, MulLe
    <3>2. (kk + W) * N = kk * N + W * N
      BY <1>1, <2>1
    <3>3. N + W - 1 <= W * N
      <4>1. PICK v \in Nat : W = v + 1
        BY <1>1
      <4>2. PICK u \in Nat : N = u + 1
        BY <1>1
      <4>3. v * u \in Nat /\ (v + 1) * (u + 1) = v * u + v + u + 1
        OBVIOUS
      <4> QED  BY <4>1, <4>2, <4>3
    <3>4. kk * N \in Nat /\ W * N \in Nat /\ K * N \in Nat
      BY <1>1, <2>1
    <3> QED  BY <1>1, <3>1, <3>2, <3>3, <3>4
  <2> QED  BY <2>1, <2>2, <2>3, <2>4
<1>3. ASSUME NEW x \in Span(b)
      PROVE  \E kk \in VectorSteps(k), l \in 0..(W - 1) : ii * K + kk + l = ii * K + x
  <2>1. PICK kk \in VectorSteps(k), l \in 0..(W - 1) : x = kk + l
    BY SpanCovered
  <2>2. kk \in Nat
    BY VectorIs
  <2> QED  BY <1>1, <2>1, <2>2
<1>4. ASSUME NEW kk \in VectorSteps(k), NEW l \in 0..(W - 1),
             NEW mm \in VectorSteps(k), NEW o \in 0..(W - 1),
             ii * K + kk + l = ii * K + mm + o
      PROVE  kk = mm /\ l = o
  <2>1. PICK m \in Nat : kk = k + m * W
    BY VectorIs
  <2>2. PICK n \in Nat : mm = k + n * W
    BY VectorIs
  <2>3. m * W \in Nat /\ n * W \in Nat
    BY <1>1, MulNat
  <2>4. m * W + l = n * W + o
    BY <1>1, <1>4, <2>1, <2>2, <2>3
  <2>5. m = n /\ l = o
    BY <1>1, <2>4, DivUnique
  <2> QED  BY <2>1, <2>2, <2>5
<1> HIDE DEF k
<1>5. \A p : p \in Part(k, ii, jj) <=>
          \E kk \in VectorSteps(k), l \in 0..(W - 1) : p = <<ii * K + kk + l, kk * N + jj + l>>
  BY DEF Part
<1>6. \A p \in Part(k, ii, jj) :
          /\ \E x \in Span(b) : p[1] = ii * K + x
          /\ p[1] \in 0..(M * K - 1) /\ p[2] \in 0..(K * N - 1)
  BY <1>2, <1>5
<1>7. \A x \in Span(b) : \E p \in Part(k, ii, jj) : p[1] = ii * K + x
  <2> TAKE x \in Span(b)
  <2>1. PICK kk \in VectorSteps(k), l \in 0..(W - 1) : ii * K + kk + l = ii * K + x
    BY <1>3
  <2>2. <<ii * K + kk + l, kk * N + jj + l>> \in Part(k, ii, jj)
    BY <1>5
  <2> QED  BY <2>1, <2>2
<1>8. ASSUME NEW p \in Part(k, ii, jj), NEW q \in Part(k, ii, jj), p[1] = q[1]
      PROVE  p = q
  <2>1. PICK kk \in VectorSteps(k), l \in 0..(W - 1) : p = <<ii * K + kk + l, kk * N + jj + l>>
    BY <1>5
  <2>2. PICK mm \in VectorSteps(k), o \in 0..(W - 1) : q = <<ii * K + mm + o, mm * N + jj + o>>
    BY <1>5
  <2>3. kk = mm /\ l = o
    BY <1>4, <1>8, <2>1, <2>2
  <2> QED  BY <2>1, <2>2, <2>3
<1> QED  BY <1>6, <1>7, <1>8 DEF k

\* The spans of the steps are the row, and do not overlap.
LEMMA SpansPartition ==
    /\ \A x \in 0..(K - 1) : \E b \in Steps : x \in Span(b)
    /\ \A b, c \in Steps : \A x \in Span(b) : x \in Span(c) => b = c
    /\ \A b, c \in Steps : b * BK = c * BK => b = c
<1>1. BK \in Nat \ {0} /\ BK > 0 /\ K \in Nat \ {0}
  BY Sizes
<1>2. ASSUME NEW x \in 0..(K - 1)
      PROVE  \E b \in Steps : x \in Span(b)
  <2>1. x \div BK \in Steps
    BY <1>1, BlocksIs DEF Steps
  <2>2. x \div BK \in Nat /\ x % BK \in 0..(BK - 1) /\ x = (x \div BK) * BK + (x % BK)
    BY <1>1, DivMod
  <2>3. (x \div BK) * BK \in Nat
    BY <1>1, <2>2, MulNat
  <2>4. (x \div BK) * BK <= x /\ x < (x \div BK) * BK + BK
    BY <1>1, <2>2, <2>3
  <2> QED  BY <2>1, <2>4 DEF Span
<1>3. ASSUME NEW b \in Steps, NEW c \in Steps, NEW x \in Span(b), x \in Span(c)
      PROVE  b = c
  <2>1. b \in Nat /\ c \in Nat /\ b * BK \in Nat /\ c * BK \in Nat
    BY StepIs DEF Steps
  <2>2. x - b * BK \in 0..(BK - 1) /\ x - c * BK \in 0..(BK - 1)
    BY <1>1, <1>3, <2>1 DEF Span
  <2>3. b * BK + (x - b * BK) = c * BK + (x - c * BK)
    BY <1>3, <2>1 DEF Span
  <2> QED  BY <1>1, <2>1, <2>2, <2>3, DivUnique
<1>4. ASSUME NEW b \in Steps, NEW c \in Steps, b * BK = c * BK
      PROVE  b = c
  <2>1. b \in Nat /\ c \in Nat /\ 0 \in 0..(BK - 1) /\ b * BK + 0 = c * BK + 0
    BY <1>1, <1>4 DEF Steps
  <2> QED  BY <1>1, <2>1, DivUnique
<1> QED  BY <1>2, <1>3, <1>4

\* The products of two steps have no product in common.
LEMMA PartsApart ==
    ASSUME NEW b \in Steps, NEW c \in Steps, b # c, NEW ii \in Row, NEW jj \in Column,
           NEW p \in Part(b * BK, ii, jj), NEW q \in Part(c * BK, ii, jj)
    PROVE  p[1] # q[1]
<1> SUFFICES ASSUME p[1] = q[1] PROVE FALSE
  OBVIOUS
<1>1. PICK x \in Span(b) : p[1] = ii * K + x
  BY PartIs
<1>2. PICK y \in Span(c) : q[1] = ii * K + y
  BY PartIs
<1>3. x \in Nat /\ y \in Nat /\ ii \in Nat /\ K \in Nat
  BY Sizes DEF Span, Row
<1>4. x = y
  <2>1. ii * K \in Nat
    BY <1>3, MulNat
  <2>2. ii * K + x = ii * K + y
    BY <1>1, <1>2
  <2> DEFINE e == ii * K
  <2> HIDE DEF e
  <2>3. e \in Nat /\ e + x = e + y
    BY <2>1, <2>2 DEF e
  <2> QED  BY <1>3, <2>3
<1> QED  BY <1>4, SpansPartition

--------------------------------------------------------------------------------
(* The turns *)

\* The block of an entry of C, and the turn of step b for it.
BlockOf(ii, jj)   == (ii \div BM) * Blocks(N, BN) + (jj \div BN)
TurnOf(b, ii, jj) == <<BlockOf(ii, jj), b * BK, ii, jj>>

AllBlocks == Blocks(M, BM) * Blocks(N, BN)

\* A place in a block of a given size.
LEMMA InBlock ==
    ASSUME NEW n \in Nat \ {0}, NEW size \in Nat \ {0}, NEW p \in 0..(Blocks(n, size) - 1)
    PROVE  \A x : x \in (p * size)..(Min({p * size + size, n}) - 1) <=>
                  x \in 0..(n - 1) /\ x \div size = p
<1>1. p \in Nat /\ p * size \in Nat /\ p * size < n
  BY BlocksIs
<1>2. Min({p * size + size, n}) = IF p * size + size <= n THEN p * size + size ELSE n
  BY <1>1, MinOfTwo
<1>3. ASSUME NEW x \in (p * size)..(Min({p * size + size, n}) - 1)
      PROVE  x \in 0..(n - 1) /\ x \div size = p
  <2>1. x \in Nat /\ x < n /\ p * size <= x /\ x < p * size + size
    BY <1>1, <1>2
  <2>2. x - p * size \in 0..(size - 1) /\ x = p * size + (x - p * size)
    BY <1>1, <2>1
  <2>3. x \div size \in Nat /\ x % size \in 0..(size - 1) /\ x = (x \div size) * size + (x % size)
    BY <2>1, DivMod
  <2>4. x \div size = p
    BY <1>1, <2>2, <2>3, DivUnique
  <2> QED  BY <2>1, <2>4
<1>4. ASSUME NEW x \in 0..(n - 1), x \div size = p
      PROVE  x \in (p * size)..(Min({p * size + size, n}) - 1)
  <2>1. x \in Nat /\ x < n
    OBVIOUS
  <2>2. x % size \in 0..(size - 1) /\ x = (x \div size) * size + (x % size)
    BY <2>1, DivMod
  <2>3. p * size <= x /\ x < p * size + size
    BY <1>1, <1>4, <2>1, <2>2
  <2> QED  BY <1>1, <1>2, <2>1, <2>3
<1> QED  BY <1>3, <1>4

LEMMA BlockTurnsIs ==
    ASSUME NEW n \in 0..(AllBlocks - 1)
    PROVE  \A x : x \in BlockTurns(n) <=>
                  \E b \in Steps, ii \in Row, jj \in Column :
                      x = TurnOf(b, ii, jj) /\ BlockOf(ii, jj) = n
<1> DEFINE c == Blocks(N, BN)
           p == n \div c
           q == n % c
<1>1. c \in Nat \ {0} /\ Blocks(M, BM) \in Nat \ {0} /\ M \in Nat \ {0} /\ N \in Nat \ {0}
      /\ BM \in Nat \ {0} /\ BN \in Nat \ {0}
  BY Sizes, BlocksIs
<1>2. n \in Nat /\ n < Blocks(M, BM) * c
  BY <1>1 DEF AllBlocks
<1> HIDE DEF c
<1>3. p \in Nat /\ q \in 0..(c - 1) /\ n = p * c + q
  BY <1>1, <1>2, DivMod
<1> HIDE DEF p, q
<1>4. p \in 0..(Blocks(M, BM) - 1)
  <2> SUFFICES ASSUME Blocks(M, BM) <= p PROVE FALSE
    BY <1>1, <1>3
  <2>1. Blocks(M, BM) * c <= p * c /\ p * c \in Nat /\ Blocks(M, BM) * c \in Nat
    BY <1>1, <1>3, MulLe
  <2> QED  BY <1>1, <1>2, <1>3, <2>1
<1>5. \A ii : ii \in (p * BM)..(Min({p * BM + BM, M}) - 1) <=> ii \in Row /\ ii \div BM = p
  BY <1>1, <1>4, InBlock DEF Row
<1>6. \A jj : jj \in (q * BN)..(Min({q * BN + BN, N}) - 1) <=> jj \in Column /\ jj \div BN = q
  BY <1>1, <1>3, InBlock DEF c, Column
<1>7. ASSUME NEW ii \in Row, NEW jj \in Column
      PROVE  BlockOf(ii, jj) = n <=> ii \div BM = p /\ jj \div BN = q
  <2>1. ii \div BM \in Nat
    <3>1. ii \div BM \in 0..(Blocks(M, BM) - 1)
      BY <1>1, BlocksIs DEF Row
    <3> QED  BY <1>1, <3>1
  <2>2. jj \div BN \in 0..(c - 1)
    BY <1>1, BlocksIs DEF Column, c
  <2>3. BlockOf(ii, jj) = (ii \div BM) * c + (jj \div BN)
    BY DEF BlockOf, c
  <2> QED  BY <1>1, <1>3, <2>1, <2>2, <2>3, DivUnique
<1> DEFINE I == (p * BM)..(Min({p * BM + BM, M}) - 1)
           J == (q * BN)..(Min({q * BN + BN, N}) - 1)
<1>8. BlockTurns(n) = {<<n, b * BK, ii, jj>> : b \in Steps, ii \in I, jj \in J}
  BY DEF BlockTurns, Steps, p, q, c
<1>9. (\A ii : ii \in I <=> ii \in Row /\ ii \div BM = p)
      /\ (\A jj : jj \in J <=> jj \in Column /\ jj \div BN = q)
  BY <1>5, <1>6
<1> HIDE DEF I, J
<1>10. ASSUME NEW x, x \in BlockTurns(n)
       PROVE  \E b \in Steps, ii \in Row, jj \in Column :
                  x = TurnOf(b, ii, jj) /\ BlockOf(ii, jj) = n
  <2>1. PICK b \in Steps, ii \in I, jj \in J : x = <<n, b * BK, ii, jj>>
    BY <1>8, <1>10
  <2> QED  BY <1>7, <1>9, <2>1 DEF TurnOf
<1>11. ASSUME NEW b \in Steps, NEW ii \in Row, NEW jj \in Column, BlockOf(ii, jj) = n
       PROVE  TurnOf(b, ii, jj) \in BlockTurns(n)
  <2>1. TurnOf(b, ii, jj) = <<n, b * BK, ii, jj>>
    BY <1>11 DEF TurnOf
  <2>2. ii \in I /\ jj \in J
    BY <1>7, <1>9, <1>11
  <2> QED  BY <1>8, <2>1, <2>2
<1> QED  BY <1>10, <1>11

LEMMA BlockOfIs ==
    ASSUME NEW ii \in Row, NEW jj \in Column
    PROVE  BlockOf(ii, jj) \in 0..(AllBlocks - 1)
<1> DEFINE a == Blocks(M, BM)
           c == Blocks(N, BN)
           p == ii \div BM
           q == jj \div BN
<1>1. a \in Nat /\ c \in Nat /\ p \in 0..(a - 1) /\ q \in 0..(c - 1)
  BY Sizes, BlocksIs DEF Row, Column
<1>2. BlockOf(ii, jj) = p * c + q /\ AllBlocks = a * c
  BY DEF BlockOf, AllBlocks
<1> HIDE DEF a, c, p, q
<1>3. (p + 1) * c <= a * c /\ (p + 1) * c = p * c + c /\ p * c \in Nat /\ a * c \in Nat
  BY <1>1, MulLe
<1> QED  BY <1>1, <1>2, <1>3

\* Every turn of every step is one thread's.
LEMMA TurnsIs ==
    /\ \A t \in Thread : \A x \in TurnsOf("multiply", t) :
          \E b \in Steps, ii \in Row, jj \in Column : x = TurnOf(b, ii, jj)
    /\ \A b \in Steps, ii \in Row, jj \in Column :
          \E t \in Thread : TurnOf(b, ii, jj) \in TurnsOf("multiply", t)
    /\ \A t, u \in Thread : t # u => TurnsOf("multiply", t) \cap TurnsOf("multiply", u) = {}
<1>1. AllBlocks \in Nat
  BY Sizes, BlocksIs, MulNat DEF AllBlocks
<1>2. \A t : TurnsOf("multiply", t) = UNION {BlockTurns(n) : n \in Share(AllBlocks, t)}
  BY DEF TurnsOf, AllBlocks
<1>3. ASSUME NEW t \in Thread, NEW x \in TurnsOf("multiply", t)
      PROVE  \E b \in Steps, ii \in Row, jj \in Column :
                x = TurnOf(b, ii, jj) /\ BlockOf(ii, jj) \in Share(AllBlocks, t)
  <2>1. PICK n \in Share(AllBlocks, t) : x \in BlockTurns(n)
    BY <1>2
  <2>2. n \in 0..(AllBlocks - 1)
    BY <1>1, SharesCover
  <2> QED  BY <2>1, <2>2, BlockTurnsIs
<1>4. ASSUME NEW b \in Steps, NEW ii \in Row, NEW jj \in Column
      PROVE  \E t \in Thread : TurnOf(b, ii, jj) \in TurnsOf("multiply", t)
  <2>1. BlockOf(ii, jj) \in 0..(AllBlocks - 1)
    BY BlockOfIs
  <2>2. PICK t \in Thread : BlockOf(ii, jj) \in Share(AllBlocks, t)
    BY <1>1, <2>1, SharesCover
  <2>3. TurnOf(b, ii, jj) \in BlockTurns(BlockOf(ii, jj))
    BY <2>1, BlockTurnsIs
  <2> QED  BY <1>2, <2>2, <2>3
<1>5. ASSUME NEW t \in Thread, NEW u \in Thread, t # u
      PROVE  TurnsOf("multiply", t) \cap TurnsOf("multiply", u) = {}
  <2>1. \A x \in TurnsOf("multiply", t) : x[1] \in Share(AllBlocks, t)
    BY <1>3 DEF TurnOf
  <2>2. \A x \in TurnsOf("multiply", u) : x[1] \in Share(AllBlocks, u)
    BY <1>3 DEF TurnOf
  <2>3. Share(AllBlocks, t) \cap Share(AllBlocks, u) = {}
    BY <1>1, <1>5, SharesCover
  <2> QED  BY <2>1, <2>2, <2>3
<1> QED  BY <1>3, <1>4, <1>5

\* The loop nest has a first turn among any that are left.
LEMMA FirstTurn ==
    ASSUME NEW S, S # {}, \A x \in S : x \in Nat \X Nat \X Nat \X Nat
    PROVE  \E x \in S : \A y \in S \ {x} : Before(x, y)
<1>1. PICK s \in S : \A y \in S : s[1] <= y[1]
  <2> DEFINE F == {x[1] : x \in S}
  <2>1. F \in SUBSET Nat /\ F # {}
    OBVIOUS
  <2>2. \E m \in F : \A n \in F : m <= n
    <3> HIDE DEF F
    <3> QED  BY <2>1, LeastNat
  <2> QED  BY <2>2
<1> DEFINE S1 == {x \in S : x[1] = s[1]}
<1>2. PICK r \in S1 : \A y \in S1 : r[2] <= y[2]
  <2> DEFINE F == {x[2] : x \in S1}
  <2>1. F \in SUBSET Nat /\ F # {}
    OBVIOUS
  <2>2. \E m \in F : \A n \in F : m <= n
    <3> HIDE DEF F
    <3> QED  BY <2>1, LeastNat
  <2> QED  BY <2>2
<1> DEFINE S2 == {x \in S1 : x[2] = r[2]}
<1>3. PICK q \in S2 : \A y \in S2 : q[3] <= y[3]
  <2> DEFINE F == {x[3] : x \in S2}
  <2>1. F \in SUBSET Nat /\ F # {}
    OBVIOUS
  <2>2. \E m \in F : \A n \in F : m <= n
    <3> HIDE DEF F
    <3> QED  BY <2>1, LeastNat
  <2> QED  BY <2>2
<1> DEFINE S3 == {x \in S2 : x[3] = q[3]}
<1>4. PICK p \in S3 : \A y \in S3 : p[4] <= y[4]
  <2> DEFINE F == {x[4] : x \in S3}
  <2>1. F \in SUBSET Nat /\ F # {}
    OBVIOUS
  <2>2. \E m \in F : \A n \in F : m <= n
    <3> HIDE DEF F
    <3> QED  BY <2>1, LeastNat
  <2> QED  BY <2>2
<1>5. p \in S /\ p[1] = s[1] /\ p[2] = r[2] /\ p[3] = q[3] /\ DOMAIN p = 1..4
  OBVIOUS
<1>6. ASSUME NEW y \in S, y # p
      PROVE  Before(p, y)
  <2>1. /\ \A n \in 1..4 : p[n] \in Nat /\ y[n] \in Nat
        /\ p[1] # y[1] \/ p[2] # y[2] \/ p[3] # y[3] \/ p[4] # y[4]
    BY <1>5, <1>6
  <2>2. CASE p[1] # y[1]
    <3>1. p[1] < y[1]
      BY <1>1, <1>5, <2>1, <2>2
    <3>2. \A n \in 1..(1 - 1) : p[n] = y[n]
      OBVIOUS
    <3> QED  BY <1>5, <3>1, <3>2 DEF Before
  <2>3. CASE p[1] = y[1] /\ p[2] # y[2]
    <3>1. p[2] < y[2]
      BY <1>2, <1>5, <2>1, <2>3
    <3>2. \A n \in 1..(2 - 1) : p[n] = y[n]
      BY <2>3
    <3> QED  BY <1>5, <3>1, <3>2 DEF Before
  <2>4. CASE p[1] = y[1] /\ p[2] = y[2] /\ p[3] # y[3]
    <3>1. p[3] < y[3]
      BY <1>3, <1>5, <2>1, <2>4
    <3>2. \A n \in 1..(3 - 1) : p[n] = y[n]
      BY <2>4
    <3> QED  BY <1>5, <3>1, <3>2 DEF Before
  <2>5. CASE p[1] = y[1] /\ p[2] = y[2] /\ p[3] = y[3] /\ p[4] # y[4]
    <3>1. p[4] < y[4]
      BY <1>4, <1>5, <2>1, <2>5
    <3>2. \A n \in 1..(4 - 1) : p[n] = y[n]
      BY <2>5
    <3> QED  BY <1>5, <3>1, <3>2 DEF Before
  <2> QED  BY <2>1, <2>2, <2>3, <2>4, <2>5
<1> QED  BY <1>5, <1>6

LEMMA TurnIs ==
    ASSUME NEW t \in Thread, todo[t] # {}, todo[t] \subseteq TurnsOf("multiply", t)
    PROVE  /\ Turn(t) \in todo[t]
           /\ \E b \in Steps, ii \in Row, jj \in Column : Turn(t) = TurnOf(b, ii, jj)
<1>1. ASSUME NEW x \in todo[t]
      PROVE  x \in Nat \X Nat \X Nat \X Nat
  <2>1. PICK b \in Steps, ii \in Row, jj \in Column : x = TurnOf(b, ii, jj)
    BY TurnsIs
  <2>2. BlockOf(ii, jj) \in Nat /\ b * BK \in Nat /\ ii \in Nat /\ jj \in Nat
    BY BlockOfIs, StepIs DEF Row, Column
  <2> QED  BY <2>1, <2>2 DEF TurnOf
<1>2. \E x \in todo[t] : \A y \in todo[t] \ {x} : Before(x, y)
  BY <1>1, FirstTurn
<1>3. Turn(t) \in todo[t]
  BY <1>2 DEF Turn
<1> QED  BY <1>3, TurnsIs

\* The places of the entries of C.
LEMMA EntryIs ==
    /\ \A ii \in Row, jj \in Column : ii * N + jj \in 0..(M * N - 1)
    /\ \A ii, ll \in Row, jj, mm \in Column :
          ii * N + jj = ll * N + mm => ii = ll /\ jj = mm
    /\ M * N \in Nat
<1>1. N \in Nat \ {0} /\ N > 0 /\ M \in Nat /\ M * N \in Nat
  BY Sizes, MulNat
<1>2. ASSUME NEW ii \in Row, NEW jj \in Column
      PROVE  ii * N + jj \in 0..(M * N - 1)
  <2>1. ii \in Nat /\ ii + 1 <= M /\ jj \in Nat /\ jj < N
    BY <1>1 DEF Row, Column
  <2>2. (ii + 1) * N <= M * N /\ (ii + 1) * N = ii * N + N /\ ii * N \in Nat
    BY <1>1, <2>1, MulLe
  <2> QED  BY <1>1, <2>1, <2>2
<1>3. ASSUME NEW ii \in Row, NEW jj \in Column, NEW ll \in Row, NEW mm \in Column,
             ii * N + jj = ll * N + mm
      PROVE  ii = ll /\ jj = mm
  <2>1. ii \in Nat /\ ll \in Nat /\ jj \in 0..(N - 1) /\ mm \in 0..(N - 1)
    BY <1>1 DEF Row, Column
  <2> QED  BY <1>1, <1>3, <2>1, DivUnique
<1> QED  BY <1>1, <1>2, <1>3

--------------------------------------------------------------------------------
(* The invariant *)

Loops  == {"fillA", "fillB", "zeroC"}
Phases == {"alloc", "fillA", "fillB", "zeroC", "multiply", "printed", "returned",
           "diedInFree", "faulted"}

\* The loops that come after the one that fills A, or B.
Later == [fillA |-> {"fillB", "zeroC", "multiply", "printed", "faulted"},
          fillB |-> {"zeroC", "multiply", "printed", "faulted"}]

\* The places of A, or of B.
Places == [fillA |-> 0..(M * K - 1), fillB |-> 0..(K * N - 1)]

\* A thread has the turns of its loop still to make; of the first three, all or none.
TodoInv ==
    /\ loop \in Phases /\ DOMAIN todo = Thread
    /\ loop \in Loops => \A t \in Thread : todo[t] = TurnsOf(loop, t) \/ todo[t] = {}
    /\ loop \in {"multiply", "faulted"} =>
          \A t \in Thread : todo[t] \subseteq TurnsOf("multiply", t)
    /\ loop \notin Loops \cup {"multiply", "faulted"} => \A t \in Thread : todo[t] = {}

\* What the loops before have filled, and what this one has so far.
FillInv ==
    \A l \in {"fillA", "fillB"} :
        /\ loop \in Later[l] => {l} \X Places[l] \subseteq filled
        /\ loop = l => \A t \in Thread : {l} \X (TurnsOf(l, t) \ todo[t]) \subseteq filled

ZeroInv ==
    /\ DOMAIN C = 0..(M * N - 1)
    /\ loop = "zeroC" => \A t \in Thread : \A e \in TurnsOf("zeroC", t) \ todo[t] : C[e] = EmptyBag

\* What a thread has multiplied and not added are the products of its next turn.
TurnInv ==
    /\ DOMAIN c_sum = Thread
    /\ \A t \in Thread : c_sum[t] # EmptyBag =>
          /\ loop \in {"multiply", "faulted"} /\ todo[t] # {}
          /\ c_sum[t] = Products(Turn(t)[2], Turn(t)[3], Turn(t)[4])

\* The steps of an entry that no thread has still to add.
Added(ii, jj) == {b \in Steps : \A t \in Thread : TurnOf(b, ii, jj) \notin todo[t]}

\* An entry has had the products of those steps, each once.
SumInv ==
    loop \in {"multiply", "printed"} =>
        \A ii \in Row, jj \in Column :
            C[ii * N + jj] = SetToBag(UNION {Part(b * BK, ii, jj) : b \in Added(ii, jj)})

IInv == TodoInv /\ FillInv /\ ZeroInv /\ TurnInv /\ SumInv

LEMMA InitIInv == Init => IInv
<1> SUFFICES ASSUME Init PROVE IInv
  OBVIOUS
<1>1. TodoInv
  BY DEF Init, TodoInv, Phases, Loops
<1>2. FillInv
  BY DEF Init, FillInv, Later
<1>3. ZeroInv
  BY DEF Init, ZeroInv
<1>4. TurnInv
  BY DEF Init, TurnInv
<1>5. SumInv
  BY DEF Init, SumInv
<1> QED  BY <1>1, <1>2, <1>3, <1>4, <1>5 DEF IInv

\* The turns of the first three loops are the places they fill.
LEMMA FillTurns ==
    /\ \A t \in Thread : TurnsOf("fillA", t) = Share(M * K, t)
    /\ \A t \in Thread : TurnsOf("fillB", t) = Share(K * N, t)
    /\ \A t \in Thread : TurnsOf("zeroC", t) = Share(M * N, t)
    /\ \A l \in {"fillA", "fillB"} : \A x \in Places[l] :
          \E t \in Thread : x \in TurnsOf(l, t)
    /\ \A e \in 0..(M * N - 1) : \E t \in Thread : e \in TurnsOf("zeroC", t)
    /\ \A t \in Thread : TurnsOf("printed", t) = {}
<1>1. /\ \A t \in Thread : TurnsOf("fillA", t) = Share(M * K, t)
      /\ \A t \in Thread : TurnsOf("fillB", t) = Share(K * N, t)
      /\ \A t \in Thread : TurnsOf("zeroC", t) = Share(M * N, t)
      /\ \A t \in Thread : TurnsOf("printed", t) = {}
  BY DEF TurnsOf
<1>2. M * K \in Nat /\ K * N \in Nat /\ M * N \in Nat
  BY Sizes, MulNat
<1>3. \A x \in 0..(M * K - 1) : \E t \in Thread : x \in Share(M * K, t)
  BY <1>2, SharesCover
<1>4. \A x \in 0..(K * N - 1) : \E t \in Thread : x \in Share(K * N, t)
  BY <1>2, SharesCover
<1>5. \A x \in 0..(M * N - 1) : \E t \in Thread : x \in Share(M * N, t)
  BY <1>2, SharesCover
<1>6. Places["fillA"] = 0..(M * K - 1) /\ Places["fillB"] = 0..(K * N - 1)
  BY DEF Places
<1>7. \A x \in Places["fillA"] : \E t \in Thread : x \in TurnsOf("fillA", t)
  BY <1>1, <1>3, <1>6
<1>8. \A x \in Places["fillB"] : \E t \in Thread : x \in TurnsOf("fillB", t)
  BY <1>1, <1>4, <1>6
<1>9. \A e \in 0..(M * N - 1) : \E t \in Thread : e \in TurnsOf("zeroC", t)
  BY <1>1, <1>5
<1> QED  BY <1>1, <1>7, <1>8, <1>9

--------------------------------------------------------------------------------
(* The steps *)

LEMMA NextLoopStep == ASSUME IInv, NextLoop PROVE IInv'
<1>1. /\ loop \in DOMAIN Follows /\ loop' = Follows[loop]
      /\ \A t \in Thread : todo[t] = {}
      /\ todo' = [t \in Thread |-> TurnsOf(loop', t)]
      /\ UNCHANGED <<aligned, c_sum, filled, C>>
  BY DEF NextLoop
<1>2. \/ loop = "alloc" /\ loop' = "fillA"
      \/ loop = "fillA" /\ loop' = "fillB"
      \/ loop = "fillB" /\ loop' = "zeroC"
      \/ loop = "zeroC" /\ loop' = "multiply"
      \/ loop = "multiply" /\ loop' = "printed"
  BY <1>1 DEF Follows
<1>3. \A t \in Thread : todo'[t] = TurnsOf(loop', t)
  BY <1>1
<1>4. \A t \in Thread : c_sum[t] = EmptyBag
  BY <1>1 DEF IInv, TurnInv
<1>5. TodoInv'
  <2>1. loop' \in Phases /\ DOMAIN todo' = Thread
    BY <1>1, <1>2 DEF Phases
  <2>2. loop' = "printed" => \A t \in Thread : todo'[t] = {}
    BY <1>3, FillTurns
  <2> QED  BY <1>2, <1>3, <2>1, <2>2 DEF TodoInv, Loops
<1>6. FillInv'
  <2>1. ASSUME NEW l \in {"fillA", "fillB"}, loop = l
        PROVE  {l} \X Places[l] \subseteq filled
    <3>1. \A t \in Thread : {l} \X TurnsOf(l, t) \subseteq filled
      BY <1>1, <2>1 DEF IInv, FillInv
    <3>2. \A x \in Places[l] : \E t \in Thread : x \in TurnsOf(l, t)
      BY FillTurns
    <3>3. \A x \in Places[l] : <<l, x>> \in filled
      BY <3>1, <3>2
    <3> QED  BY <3>3
  <2>2. ASSUME NEW l \in {"fillA", "fillB"}, loop' \in Later[l]
        PROVE  loop \in Later[l] \/ loop = l
    BY <1>2, <2>2 DEF Later
  <2>3. ASSUME NEW l \in {"fillA", "fillB"}, loop' \in Later[l]
        PROVE  {l} \X Places[l] \subseteq filled'
    <3>1. CASE loop = l
      BY <1>1, <2>1, <3>1
    <3>2. CASE loop \in Later[l]
      BY <1>1, <3>2 DEF IInv, FillInv
    <3> QED  BY <2>2, <2>3, <3>1, <3>2
  <2>4. ASSUME NEW l \in {"fillA", "fillB"}, loop' = l
        PROVE  \A t \in Thread : {l} \X (TurnsOf(l, t) \ todo'[t]) \subseteq filled'
    BY <1>3, <2>4
  <2> QED  BY <2>3, <2>4 DEF FillInv
<1>7. ZeroInv'
  BY <1>1, <1>3 DEF IInv, ZeroInv
<1>8. TurnInv'
  BY <1>1, <1>4 DEF IInv, TurnInv
<1>9. SumInv'
  <2>1. CASE loop' = "multiply"
    <3>1. \A e \in 0..(M * N - 1) : C'[e] = EmptyBag
      <4>1. \A t \in Thread : \A e \in TurnsOf("zeroC", t) : C[e] = EmptyBag
        BY <1>1, <1>2, <2>1 DEF IInv, ZeroInv
      <4> QED  BY <1>1, <4>1, FillTurns
    <3>2. ASSUME NEW ii \in Row, NEW jj \in Column
          PROVE  C'[ii * N + jj] = SetToBag(UNION {Part(b * BK, ii, jj) : b \in Added(ii, jj)'})
      <4>1. Added(ii, jj)' = {}
        <5>1. \A b \in Steps : \E t \in Thread : TurnOf(b, ii, jj) \in todo'[t]
          BY <1>3, <2>1, TurnsIs
        <5> QED  BY <5>1 DEF Added
      <4>2. UNION {Part(b * BK, ii, jj) : b \in Added(ii, jj)'} = {}
        BY <4>1
      <4>3. C'[ii * N + jj] = EmptyBag
        BY <3>1, EntryIs
      <4> QED  BY <4>2, <4>3 DEF EmptyBag
    <3> QED  BY <3>2 DEF SumInv
  <2>2. CASE loop' = "printed"
    <3>1. \A t \in Thread : todo'[t] = todo[t]
      BY <1>1, <1>3, <2>2, FillTurns
    <3>2. \A ii, jj : Added(ii, jj)' = Added(ii, jj)
      BY <3>1 DEF Added
    <3>3. loop = "multiply"
      BY <1>2, <2>2
    <3> QED  BY <1>1, <3>2, <3>3 DEF IInv, SumInv
  <2>3. CASE loop' \notin {"multiply", "printed"}
    BY <2>3 DEF SumInv
  <2> QED  BY <2>1, <2>2, <2>3
<1> QED  BY <1>5, <1>6, <1>7, <1>8, <1>9 DEF IInv

LEMMA AllocFailsStep == ASSUME IInv, AllocFails PROVE IInv'
<1>1. /\ loop = "alloc" /\ loop' \in {"returned", "diedInFree"}
      /\ UNCHANGED <<aligned, todo, c_sum, filled, C>>
  BY DEF AllocFails
<1>2. TodoInv' /\ FillInv' /\ ZeroInv' /\ SumInv'
  BY <1>1 DEF IInv, TodoInv, FillInv, ZeroInv, SumInv, Phases, Loops, Later
<1>3. TurnInv'
  BY <1>1 DEF IInv, TurnInv
<1> QED  BY <1>2, <1>3 DEF IInv

LEMMA FillStep == ASSUME IInv, NEW t \in Thread, Fill(t) PROVE IInv'
<1>1. /\ loop \in Loops /\ todo[t] # {}
      /\ filled' = filled \cup (({loop} \ {"zeroC"}) \X todo[t])
      /\ C' = [e \in DOMAIN C |-> IF loop = "zeroC" /\ e \in todo[t] THEN EmptyBag ELSE C[e]]
      /\ todo' = [todo EXCEPT ![t] = {}]
      /\ UNCHANGED <<aligned, loop, c_sum>>
  BY DEF Fill, Loops
<1>2. /\ DOMAIN todo' = Thread /\ todo'[t] = {}
      /\ \A u \in Thread \ {t} : todo'[u] = todo[u]
  BY <1>1 DEF IInv, TodoInv
<1>3. todo[t] = TurnsOf(loop, t)
  BY <1>1 DEF IInv, TodoInv
<1>4. TodoInv'
  BY <1>1, <1>2 DEF IInv, TodoInv, Loops
<1>5. FillInv'
  <2>1. ASSUME NEW l \in {"fillA", "fillB"}, loop \in Later[l]
        PROVE  {l} \X Places[l] \subseteq filled'
    BY <1>1, <2>1 DEF IInv, FillInv
  <2>2. ASSUME NEW l \in {"fillA", "fillB"}, loop = l, NEW u \in Thread
        PROVE  {l} \X (TurnsOf(l, u) \ todo'[u]) \subseteq filled'
    <3>1. CASE u = t
      <4>1. filled' = filled \cup ({l} \X TurnsOf(l, t))
        BY <1>1, <1>3, <2>2
      <4> QED  BY <3>1, <4>1
    <3>2. CASE u # t
      BY <1>1, <1>2, <2>2, <3>2 DEF IInv, FillInv
    <3> QED  BY <3>1, <3>2
  <2> QED  BY <1>1, <2>1, <2>2 DEF FillInv
<1>6. ZeroInv'
  <2>1. DOMAIN C' = 0..(M * N - 1)
    BY <1>1 DEF IInv, ZeroInv
  <2>2. ASSUME loop = "zeroC", NEW u \in Thread, NEW e \in TurnsOf("zeroC", u) \ todo'[u]
        PROVE  C'[e] = EmptyBag
    <3>1. e \in DOMAIN C
      <4>1. TurnsOf("zeroC", u) \subseteq 0..(M * N - 1)
        BY FillTurns, EntryIs, SharesCover
      <4> QED  BY <4>1 DEF IInv, ZeroInv
    <3>2. CASE u = t
      BY <1>1, <1>3, <2>2, <3>1, <3>2
    <3>3. CASE u # t
      BY <1>1, <1>2, <2>2, <3>1, <3>3 DEF IInv, ZeroInv
    <3> QED  BY <3>2, <3>3
  <2> QED  BY <1>1, <2>1, <2>2 DEF ZeroInv
<1>7. TurnInv' /\ SumInv'
  BY <1>1 DEF IInv, TurnInv, SumInv, Loops
<1> QED  BY <1>4, <1>5, <1>6, <1>7 DEF IInv

LEMMA MultiplyStep == ASSUME IInv, NEW t \in Thread, Multiply(t) PROVE IInv'
<1>1. /\ loop = "multiply" /\ todo[t] # {}
      /\ c_sum' = [c_sum EXCEPT ![t] = Products(Turn(t)[2], Turn(t)[3], Turn(t)[4])]
      /\ UNCHANGED <<aligned, loop, todo, filled, C>>
  BY DEF Multiply
<1>2. TodoInv' /\ FillInv' /\ ZeroInv'
  BY <1>1 DEF IInv, TodoInv, FillInv, ZeroInv
<1>3. TurnInv'
  <2>1. \A u : Turn(u)' = Turn(u)
    BY <1>1 DEF Turn
  <2>2. /\ DOMAIN c_sum' = Thread
        /\ c_sum'[t] = Products(Turn(t)[2], Turn(t)[3], Turn(t)[4])
        /\ \A u \in Thread \ {t} : c_sum'[u] = c_sum[u]
    BY <1>1 DEF IInv, TurnInv
  <2> QED  BY <1>1, <2>1, <2>2 DEF IInv, TurnInv
<1>4. SumInv'
  BY <1>1 DEF IInv, SumInv, Added
<1> QED  BY <1>2, <1>3, <1>4 DEF IInv

LEMMA FaultStep == ASSUME IInv, NEW t \in Thread, Fault(t) PROVE IInv'
<1>1. /\ loop = "multiply" /\ loop' = "faulted"
      /\ UNCHANGED <<aligned, todo, c_sum, filled, C>>
  BY DEF Fault
<1>2. TodoInv' /\ ZeroInv' /\ SumInv'
  BY <1>1 DEF IInv, TodoInv, ZeroInv, SumInv, Phases, Loops
<1>3. FillInv'
  BY <1>1 DEF IInv, FillInv, Later
<1>4. TurnInv'
  BY <1>1 DEF IInv, TurnInv, Turn
<1> QED  BY <1>2, <1>3, <1>4 DEF IInv

\* Bags of which one holds nothing of the other.
LEMMA BagsApart ==
    ASSUME NEW R, NEW S, R \cap S = {}
    PROVE  SetToBag(R) (+) SetToBag(S) = SetToBag(R \cup S)
  BY DEF SetToBag, (+)

LEMMA AddStep == ASSUME IInv, NEW t \in Thread, Add(t) PROVE IInv'
<1>1. /\ loop = "multiply" /\ c_sum[t] # EmptyBag
      /\ C' = [C EXCEPT ![Turn(t)[3] * N + Turn(t)[4]] = @ (+) c_sum[t]]
      /\ c_sum' = [c_sum EXCEPT ![t] = EmptyBag]
      /\ todo' = [todo EXCEPT ![t] = @ \ {Turn(t)}]
      /\ UNCHANGED <<aligned, loop, filled>>
  BY DEF Add
<1>2. /\ todo[t] # {} /\ todo[t] \subseteq TurnsOf("multiply", t)
      /\ c_sum[t] = Products(Turn(t)[2], Turn(t)[3], Turn(t)[4])
  BY <1>1 DEF IInv, TurnInv, TodoInv
<1>3. Turn(t) \in todo[t]
  BY <1>2, TurnIs
<1>4. PICK b \in Steps, ii \in Row, jj \in Column : Turn(t) = TurnOf(b, ii, jj)
  BY <1>2, TurnIs
<1>5. Turn(t)[2] = b * BK /\ Turn(t)[3] = ii /\ Turn(t)[4] = jj
  BY <1>4 DEF TurnOf
<1>6. /\ DOMAIN todo' = Thread /\ todo'[t] = todo[t] \ {TurnOf(b, ii, jj)}
      /\ \A u \in Thread \ {t} : todo'[u] = todo[u]
  BY <1>1, <1>4 DEF IInv, TodoInv
<1>7. \A u \in Thread \ {t} : TurnOf(b, ii, jj) \notin todo[u]
  <2> TAKE u \in Thread \ {t}
  <2>1. todo[u] \subseteq TurnsOf("multiply", u)
    BY <1>1 DEF IInv, TodoInv
  <2>2. TurnsOf("multiply", t) \cap TurnsOf("multiply", u) = {}
    BY TurnsIs
  <2> QED  BY <1>2, <1>3, <1>4, <2>1, <2>2
<1>8. /\ DOMAIN C' = DOMAIN C
      /\ C'[ii * N + jj] = C[ii * N + jj] (+) SetToBag(Part(b * BK, ii, jj))
      /\ \A e \in DOMAIN C \ {ii * N + jj} : C'[e] = C[e]
  <2>1. ii * N + jj \in DOMAIN C
    BY EntryIs DEF IInv, ZeroInv
  <2>2. c_sum[t] = SetToBag(Part(b * BK, ii, jj))
    BY <1>2, <1>5, StepIs, ProductsIs
  <2>3. C' = [C EXCEPT ![ii * N + jj] = @ (+) SetToBag(Part(b * BK, ii, jj))]
    BY <1>1, <1>5, <2>2
  <2> DEFINE e == ii * N + jj
             D == SetToBag(Part(b * BK, ii, jj))
  <2> HIDE DEF e, D
  <2>4. e \in DOMAIN C /\ C' = [C EXCEPT ![e] = @ (+) D]
    BY <2>1, <2>3 DEF e, D
  <2>5. DOMAIN C' = DOMAIN C /\ C'[e] = C[e] (+) D /\ \A f \in DOMAIN C \ {e} : C'[f] = C[f]
    BY <2>4
  <2> QED  BY <2>5 DEF e, D
<1>9. TodoInv'
  BY <1>1, <1>6 DEF IInv, TodoInv, Loops
<1>10. FillInv'
  BY <1>1 DEF IInv, FillInv, Later
<1>11. ZeroInv'
  BY <1>1, <1>8 DEF IInv, ZeroInv
<1>12. TurnInv'
  <2>1. DOMAIN c_sum' = Thread /\ c_sum'[t] = EmptyBag
        /\ \A u \in Thread \ {t} : c_sum'[u] = c_sum[u]
    BY <1>1 DEF IInv, TurnInv
  <2>2. \A u \in Thread \ {t} : Turn(u)' = Turn(u)
    BY <1>6 DEF Turn
  <2> QED  BY <1>1, <1>6, <2>1, <2>2 DEF IInv, TurnInv
<1>13. SumInv'
  <2>1. \A ll \in Row, mm \in Column : \A c \in Steps :
            TurnOf(c, ll, mm) = TurnOf(b, ii, jj) => c = b /\ ll = ii /\ mm = jj
    BY SpansPartition DEF TurnOf
  <2>2. ASSUME NEW ll \in Row, NEW mm \in Column, ll # ii \/ mm # jj
        PROVE  C'[ll * N + mm] = SetToBag(UNION {Part(c * BK, ll, mm) : c \in Added(ll, mm)'})
    <3>1. Added(ll, mm)' = Added(ll, mm)
      <4>1. \A c \in Steps : \A u \in Thread :
                TurnOf(c, ll, mm) \in todo'[u] <=> TurnOf(c, ll, mm) \in todo[u]
        BY <1>6, <2>1, <2>2
      <4> QED  BY <4>1 DEF Added
    <3>2. ll * N + mm # ii * N + jj
      BY <2>2, EntryIs
    <3>3. ll * N + mm \in DOMAIN C
      BY EntryIs DEF IInv, ZeroInv
    <3>4. C'[ll * N + mm] = C[ll * N + mm]
      BY <1>8, <3>2, <3>3
    <3> QED  BY <1>1, <3>1, <3>4 DEF IInv, SumInv
  <2>3. C'[ii * N + jj] = SetToBag(UNION {Part(c * BK, ii, jj) : c \in Added(ii, jj)'})
    <3>1. Added(ii, jj)' = Added(ii, jj) \cup {b} /\ b \notin Added(ii, jj)
      <4>1. \A c \in Steps \ {b} : \A u \in Thread :
                TurnOf(c, ii, jj) \in todo'[u] <=> TurnOf(c, ii, jj) \in todo[u]
        BY <1>6, <2>1
      <4>2. \A u \in Thread : TurnOf(b, ii, jj) \notin todo'[u]
        BY <1>6, <1>7
      <4>3. TurnOf(b, ii, jj) \in todo[t]
        BY <1>3, <1>4
      <4> QED  BY <4>1, <4>2, <4>3 DEF Added
    <3> DEFINE Got  == UNION {Part(c * BK, ii, jj) : c \in Added(ii, jj)}
               More == Part(b * BK, ii, jj)
    <3>2. Got \cap More = {}
      <4> SUFFICES ASSUME NEW c \in Added(ii, jj), NEW p \in Part(c * BK, ii, jj), p \in More
                   PROVE  FALSE
        OBVIOUS
      <4>1. c \in Steps /\ c # b
        BY <3>1 DEF Added
      <4> QED  BY <4>1, PartsApart
    <3>3. UNION {Part(c * BK, ii, jj) : c \in Added(ii, jj)'} = Got \cup More
      BY <3>1
    <3>4. C[ii * N + jj] = SetToBag(Got)
      BY <1>1 DEF IInv, SumInv
    <3>5. C'[ii * N + jj] = SetToBag(Got) (+) SetToBag(More)
      BY <1>8, <3>4
    <3> HIDE DEF Got, More
    <3> QED  BY <3>2, <3>3, <3>5, BagsApart
  <2> QED  BY <2>2, <2>3 DEF SumInv
<1> QED  BY <1>9, <1>10, <1>11, <1>12, <1>13 DEF IInv

LEMMA NextIInv == IInv /\ [Next]_vars => IInv'
<1> SUFFICES ASSUME IInv, [Next]_vars PROVE IInv'
  OBVIOUS
<1>1. CASE NextLoop
  BY <1>1, NextLoopStep
<1>2. CASE AllocFails
  BY <1>2, AllocFailsStep
<1>3. ASSUME NEW t \in Thread, Work(t) PROVE IInv'
  BY <1>3, FillStep, MultiplyStep, FaultStep, AddStep DEF Work
<1>4. CASE UNCHANGED vars
  <2>1. UNCHANGED <<aligned, loop, todo, c_sum, filled, C>>
    BY <1>4 DEF vars
  <2>2. TodoInv' /\ FillInv' /\ ZeroInv'
    BY <2>1 DEF IInv, TodoInv, FillInv, ZeroInv
  <2>3. TurnInv'
    BY <2>1 DEF IInv, TurnInv, Turn
  <2>4. SumInv'
    BY <2>1 DEF IInv, SumInv, Added
  <2> QED  BY <2>2, <2>3, <2>4 DEF IInv
<1> QED  BY <1>1, <1>2, <1>3, <1>4 DEF Next, Ended

--------------------------------------------------------------------------------
(* What follows from it *)

LEMMA ReadsFilledFollows == IInv => ReadsFilled
<1> SUFFICES ASSUME IInv, NEW t \in Thread, NEW p \in BagToSet(c_sum[t])
             PROVE  <<"fillA", p[1]>> \in filled /\ <<"fillB", p[2]>> \in filled
  BY DEF ReadsFilled
<1>1. c_sum[t] # EmptyBag
  BY DEF EmptyBag, SetToBag, BagToSet
<1>2. /\ loop \in {"multiply", "faulted"} /\ todo[t] # {}
      /\ todo[t] \subseteq TurnsOf("multiply", t)
      /\ c_sum[t] = Products(Turn(t)[2], Turn(t)[3], Turn(t)[4])
  BY <1>1 DEF IInv, TurnInv, TodoInv
<1>3. PICK b \in Steps, ii \in Row, jj \in Column : Turn(t) = TurnOf(b, ii, jj)
  BY <1>2, TurnIs
<1>4. c_sum[t] = SetToBag(Part(b * BK, ii, jj))
  BY <1>2, <1>3, StepIs, ProductsIs DEF TurnOf
<1>5. p \in Part(b * BK, ii, jj)
  BY <1>4 DEF BagToSet, SetToBag
<1>6. p[1] \in Places["fillA"] /\ p[2] \in Places["fillB"]
  BY <1>5, PartIs DEF Places
<1>7. /\ {"fillA"} \X Places["fillA"] \subseteq filled
      /\ {"fillB"} \X Places["fillB"] \subseteq filled
  BY <1>2 DEF IInv, FillInv, Later
<1> QED  BY <1>6, <1>7

LEMMA RowUsedOnceFollows == IInv => RowUsedOnce
<1> SUFFICES ASSUME IInv, loop = "printed", NEW ii \in Row, NEW jj \in Column
             PROVE  LET used == C[ii * N + jj]
                    IN  /\ {p[1] : p \in BagToSet(used)} = {ii * K + k : k \in 0..(K - 1)}
                        /\ \A p, q \in BagToSet(used) : p[1] = q[1] => p = q
                        /\ \A p \in BagToSet(used) : used[p] = 1
  BY DEF RowUsedOnce, Row, Column
<1>1. Added(ii, jj) = Steps
  BY DEF IInv, TodoInv, Added, Loops
<1> DEFINE Got == UNION {Part(b * BK, ii, jj) : b \in Steps}
<1>2. C[ii * N + jj] = SetToBag(Got)
  BY <1>1 DEF IInv, SumInv
<1>3. \A p \in Got : \E k \in 0..(K - 1) : p[1] = ii * K + k
  <2> TAKE p \in Got
  <2>1. PICK b \in Steps : p \in Part(b * BK, ii, jj)
    OBVIOUS
  <2>2. PICK x \in Span(b) : p[1] = ii * K + x
    BY <2>1, PartIs
  <2> QED  BY <2>2 DEF Span
<1>4. \A k \in 0..(K - 1) : \E p \in Got : p[1] = ii * K + k
  <2> TAKE k \in 0..(K - 1)
  <2>1. PICK b \in Steps : k \in Span(b)
    BY SpansPartition
  <2>2. PICK p \in Part(b * BK, ii, jj) : p[1] = ii * K + k
    BY <2>1, PartIs
  <2> QED  BY <2>2
<1>5. ASSUME NEW p \in Got, NEW q \in Got, p[1] = q[1]
      PROVE  p = q
  <2>1. PICK b \in Steps : p \in Part(b * BK, ii, jj)
    OBVIOUS
  <2>2. PICK c \in Steps : q \in Part(c * BK, ii, jj)
    OBVIOUS
  <2>3. b = c
    BY <1>5, <2>1, <2>2, PartsApart
  <2> QED  BY <1>5, <2>1, <2>2, <2>3, PartIs
<1> HIDE DEF Got
<1>6. BagToSet(C[ii * N + jj]) = Got /\ \A p \in Got : C[ii * N + jj][p] = 1
  BY <1>2 DEF BagToSet, SetToBag
<1>7. {p[1] : p \in Got} = {ii * K + k : k \in 0..(K - 1)}
  BY <1>3, <1>4
<1> QED  BY <1>5, <1>6, <1>7

--------------------------------------------------------------------------------
\* IInv holds in every state matmul.c reaches, for matrices, blocks, vector registers and
\* teams of any size.
THEOREM Inductive == Spec => []IInv
  BY InitIInv, NextIInv, PTL DEF Spec

\* The threads read only places of A and B that have been filled.
THEOREM OnlyFilledRead == Spec => []ReadsFilled
  BY ReadsFilledFollows, Inductive, PTL

\* In the end each entry of C has had every A of its row exactly once.
THEOREM RowsUsedOnce == Spec => []RowUsedOnce
  BY RowUsedOnceFollows, Inductive, PTL
================================================================================
