---------------------------- MODULE SampleStoreProofs ----------------------------
(****************************************************************************)
(* What a snapshot promises is kept: IInv, an invariant of SampleStore      *)
(* about where in the image each record lies, is inductive for any keys,    *)
(* values and faults, and the invariants TLC checks follow from it.         *)
(****************************************************************************)
EXTENDS SampleStore, FiniteSetTheorems, SequenceTheorems, TLAPS

--------------------------------------------------------------------------------
(* Least and greatest numbers *)

\* Every nonempty set of naturals has a least element.
LEMMA LeastNat ==
    ASSUME NEW S \in SUBSET Nat, S # {}
    PROVE  \E x \in S : \A y \in S : x <= y
<1> DEFINE R == {ss \in Nat \X Nat : ss[1] < ss[2]}
<1>1. IsWellFoundedOn(R, Nat)
  BY NatLessThanWellFounded DEF OpToRel
<1> HIDE DEF R
<1>2. PICK x \in S : \A y \in S : ~ (<<y, x>> \in R)
  BY <1>1, WFMin
<1>3. \A y \in S : x <= y
  <2> SUFFICES ASSUME NEW y \in S, ~(x <= y) PROVE FALSE
    OBVIOUS
  <2>1. <<y, x>> \in R
    BY DEF R
  <2> QED  BY <1>2, <2>1
<1> QED  BY <1>3

LEMMA MinProperties ==
    ASSUME NEW S \in SUBSET Nat, S # {}
    PROVE  Min(S) \in S /\ \A y \in S : Min(S) <= y
  BY LeastNat DEF Min

LEMMA MinUnique ==
    ASSUME NEW S \in SUBSET Nat, NEW x \in S, \A y \in S : x <= y
    PROVE  Min(S) = x
<1>1. Min(S) \in S /\ Min(S) <= x
  BY MinProperties
<1>2. Min(S) \in Nat /\ x \in Nat /\ x <= Min(S)
  BY <1>1
<1> QED  BY <1>1, <1>2

\* Every nonempty set of naturals up to b has a greatest element.
LEMMA MaxProperties ==
    ASSUME NEW b \in Nat, NEW S \in SUBSET (0..b), S # {}
    PROVE  Max(S) \in S /\ \A y \in S : Max(S) >= y
<1> DEFINE D == {b - y : y \in S}
<1>1. \A y \in S : y \in Int /\ b - y \in Nat
  OBVIOUS
<1>2. D \in SUBSET Nat /\ D # {}
  BY <1>1
<1>3. PICK r \in D : \A q \in D : r <= q
  BY <1>2, LeastNat
<1>4. PICK x \in S : r = b - x
  OBVIOUS
<1>5. \A y \in S : b - x <= b - y
  BY <1>3, <1>4
<1>6. \A y \in S : x >= y
  BY <1>1, <1>5
<1> QED  BY <1>6 DEF Max

LEMMA MaxOfOne == \A x \in Int : Max({x}) = x
  BY DEF Max

--------------------------------------------------------------------------------
(* Strings *)

Byte == 0..255
Text == Seq(Byte)

LEMMA TextType ==
    ASSUME NEW s \in Text
    PROVE  Len(s) \in Nat /\ \A i \in 1..Len(s) : s[i] \in Byte /\ s[i] \in Int
<1>1. Len(s) \in Nat
  BY LenProperties DEF Text
<1>2. \A i \in 1..Len(s) : s[i] \in Byte
  BY ElementOfSeq DEF Text
<1>3. Byte \subseteq Int
  BY DEF Byte
<1> QED  BY <1>1, <1>2, <1>3

LEMMA TextEqual ==
    ASSUME NEW s \in Text, NEW t \in Text, Len(s) = Len(t), \A i \in 1..Len(s) : s[i] = t[i]
    PROVE  s = t
  BY SeqEqual DEF Text

LEMMA SubText ==
    ASSUME NEW s \in Text, NEW m \in Nat, NEW n \in Nat, 1 <= m, m <= n + 1, n <= Len(s)
    PROVE  /\ SubSeq(s, m, n) \in Text
           /\ Len(SubSeq(s, m, n)) = n - m + 1
           /\ \A i \in 1..(n - m + 1) : SubSeq(s, m, n)[i] = s[m + i - 1]
<1>1. Len(s) \in Nat /\ \A i \in 1..Len(s) : s[i] \in Byte
  BY TextType
<1>2. \A i \in m..n : s[i] \in Byte
  BY <1>1
<1>3. /\ SubSeq(s, m, n) \in Text
      /\ Len(SubSeq(s, m, n)) = IF m <= n THEN n - m + 1 ELSE 0
      /\ \A i \in 1..(n - m + 1) : SubSeq(s, m, n)[i] = s[m + i - 1]
  BY <1>2, SubSeqProperties DEF Text
<1> QED  BY <1>3

LEMMA ConcatText ==
    ASSUME NEW s \in Text, NEW t \in Text
    PROVE  /\ s \o t \in Text
           /\ Len(s \o t) = Len(s) + Len(t)
           /\ \A i \in 1..(Len(s) + Len(t)) :
                (s \o t)[i] = IF i <= Len(s) THEN s[i] ELSE t[i - Len(s)]
  BY ConcatProperties DEF Text

--------------------------------------------------------------------------------
(* The order of strcmp *)

LEMMA StrLessIs ==
    ASSUME NEW s \in Text, NEW t \in Text
    PROVE  StrLess(s, t) <=>
               \E n \in 0..Len(s) :
                   /\ n < Len(t)
                   /\ \A i \in 1..n : s[i] = t[i]
                   /\ n = Len(s) \/ s[n + 1] < t[n + 1]
<1>1. ASSUME NEW n \in 0..Len(s), n < Len(t)
      PROVE  SubSeq(s, 1, n) = SubSeq(t, 1, n) <=> \A i \in 1..n : s[i] = t[i]
  <2>1. n \in Nat /\ n <= Len(s) /\ n <= Len(t) /\ Len(t) \in Nat
    BY <1>1, TextType
  <2>2. /\ SubSeq(s, 1, n) \in Text /\ Len(SubSeq(s, 1, n)) = n
        /\ \A i \in 1..n : SubSeq(s, 1, n)[i] = s[i]
    BY <2>1, SubText
  <2>3. /\ SubSeq(t, 1, n) \in Text /\ Len(SubSeq(t, 1, n)) = n
        /\ \A i \in 1..n : SubSeq(t, 1, n)[i] = t[i]
    BY <2>1, SubText
  <2> QED  BY <2>2, <2>3, TextEqual
<1> QED  BY <1>1 DEF StrLess

\* strcmp is a strict order in which any two strings are comparable.
LEMMA StrLessAsymmetric ==
    ASSUME NEW s \in Text, NEW t \in Text, StrLess(s, t)
    PROVE  ~StrLess(t, s)
<1>1. PICK n \in 0..Len(s) : /\ n < Len(t) /\ \A i \in 1..n : s[i] = t[i]
                             /\ n = Len(s) \/ s[n + 1] < t[n + 1]
  BY StrLessIs
<1>2. SUFFICES ASSUME NEW m \in 0..Len(t), m < Len(s), \A i \in 1..m : t[i] = s[i],
                      m = Len(t) \/ t[m + 1] < s[m + 1]
               PROVE  FALSE
  BY StrLessIs
<1>3. /\ Len(s) \in Nat /\ \A i \in 1..Len(s) : s[i] \in Int
      /\ Len(t) \in Nat /\ \A i \in 1..Len(t) : t[i] \in Int
  BY TextType
<1>4. CASE n < m
  BY <1>3, <1>1, <1>2, <1>4
<1>5. CASE m < n
  BY <1>3, <1>1, <1>2, <1>5
<1>6. CASE m = n
  BY <1>3, <1>1, <1>2, <1>6
<1> QED  BY <1>3, <1>4, <1>5, <1>6

LEMMA StrLessTransitive ==
    ASSUME NEW s \in Text, NEW t \in Text, NEW u \in Text,
           StrLess(s, t), StrLess(t, u)
    PROVE  StrLess(s, u)
<1>1. PICK n \in 0..Len(s) : /\ n < Len(t) /\ \A i \in 1..n : s[i] = t[i]
                             /\ n = Len(s) \/ s[n + 1] < t[n + 1]
  BY StrLessIs
<1>2. PICK m \in 0..Len(t) : /\ m < Len(u) /\ \A i \in 1..m : t[i] = u[i]
                             /\ m = Len(t) \/ t[m + 1] < u[m + 1]
  BY StrLessIs
<1>3. /\ Len(s) \in Nat /\ \A i \in 1..Len(s) : s[i] \in Int
      /\ Len(t) \in Nat /\ \A i \in 1..Len(t) : t[i] \in Int
      /\ Len(u) \in Nat /\ \A i \in 1..Len(u) : u[i] \in Int
  BY TextType
<1>4. CASE n < m
  <2>1. n < Len(u) /\ \A i \in 1..n : s[i] = u[i]
    BY <1>3, <1>1, <1>2, <1>4
  <2>2. n = Len(s) \/ s[n + 1] < u[n + 1]
    BY <1>3, <1>1, <1>2, <1>4
  <2> QED  BY <1>3, <2>1, <2>2, StrLessIs
<1>5. CASE m <= n
  <2>1. m \in 0..Len(s) /\ m < Len(u) /\ \A i \in 1..m : s[i] = u[i]
    BY <1>3, <1>1, <1>2, <1>5
  <2>2. m = Len(s) \/ s[m + 1] < u[m + 1]
    <3>1. m < Len(t) /\ t[m + 1] < u[m + 1]
      BY <1>3, <1>1, <1>2, <1>5
    <3>2. CASE m < n
      BY <1>3, <1>1, <3>1, <3>2
    <3>3. CASE m = n /\ n # Len(s)
      <4>1. s[n + 1] < t[n + 1] /\ t[n + 1] < u[n + 1]
        BY <1>1, <3>1, <3>3
      <4>2. s[n + 1] \in Int /\ t[n + 1] \in Int /\ u[n + 1] \in Int
        BY <1>3, <1>1, <1>2, <3>3
      <4> QED  BY <3>3, <4>1, <4>2
    <3> QED  BY <1>3, <1>5, <3>2, <3>3
  <2> QED  BY <1>3, <2>1, <2>2, StrLessIs
<1> QED  BY <1>3, <1>4, <1>5

LEMMA StrLessTotal ==
    ASSUME NEW s \in Text, NEW t \in Text, s # t
    PROVE  StrLess(s, t) \/ StrLess(t, s)
<1>1. /\ Len(s) \in Nat /\ \A i \in 1..Len(s) : s[i] \in Int
      /\ Len(t) \in Nat /\ \A i \in 1..Len(t) : t[i] \in Int
  BY TextType
<1> DEFINE P == {n \in Nat : n = Len(s) \/ n = Len(t) \/ s[n + 1] # t[n + 1]}
<1>2. P \in SUBSET Nat /\ P # {}
  BY <1>1
<1> HIDE DEF P
<1>3. PICK n \in P : \A m \in P : n <= m
  BY <1>2, LeastNat
<1>4. n \in Nat /\ n <= Len(s) /\ n <= Len(t)
  BY <1>1, <1>3, <1>2 DEF P
<1>5. ASSUME NEW i \in 1..n
      PROVE  s[i] = t[i]
  <2>1. i - 1 \in Nat /\ ~(n <= i - 1)
    BY <1>4
  <2>2. i - 1 \notin P
    BY <1>3, <2>1
  <2> QED  BY <2>1, <2>2 DEF P
<1>6. Len(s) # Len(t) \/ n # Len(s)
  BY <1>1, <1>5, TextEqual
<1>7. CASE n = Len(s) \/ n = Len(t)
  BY <1>1, <1>4, <1>5, <1>6, <1>7, StrLessIs
<1>8. CASE n # Len(s) /\ n # Len(t)
  <2>1. s[n + 1] # t[n + 1] /\ n < Len(s) /\ n < Len(t)
    BY <1>1, <1>4, <1>8 DEF P
  <2>2. s[n + 1] \in Int /\ t[n + 1] \in Int
    BY <1>1, <1>4, <2>1
  <2>3. s[n + 1] < t[n + 1] \/ t[n + 1] < s[n + 1]
    BY <2>1, <2>2
  <2> QED  BY <1>4, <1>5, <2>1, <2>3, StrLessIs
<1> QED  BY <1>7, <1>8

\* The first key of a list: every nonempty finite set of strings has one before all others.
LEMMA FirstKey ==
    ASSUME NEW S \in SUBSET Text, IsFiniteSet(S), S # {}
    PROVE  \E k \in S : \A l \in S \ {k} : StrLess(k, l)
<1> DEFINE First(U) == \E k \in U : \A l \in U \ {k} : StrLess(k, l)
           Bad == {n \in Nat : \E U \in SUBSET S : U # {} /\ Cardinality(U) = n /\ ~First(U)}
<1> HIDE DEF First
<1>1. SUFFICES ASSUME ~First(S) PROVE FALSE
  BY DEF First
<1>2. Cardinality(S) \in Bad
  BY <1>1, FS_CardinalityType
<1>3. PICK n \in Bad : \A m \in Bad : n <= m
  BY <1>2, LeastNat
<1>4. PICK U \in SUBSET S : U # {} /\ Cardinality(U) = n /\ ~First(U)
  OBVIOUS
<1>5. PICK x \in U : TRUE
  BY <1>4
<1>6. /\ IsFiniteSet(U) /\ IsFiniteSet(U \ {x}) /\ Cardinality(U \ {x}) \in Nat
      /\ Cardinality(U \ {x}) < n
  BY <1>4, <1>5, FS_Subset, FS_RemoveElement, FS_CardinalityType
<1>7. U \ {x} # {}
  BY <1>4 DEF First
<1>8. First(U \ {x})
  BY <1>3, <1>6, <1>7
<1>9. PICK k \in U \ {x} : \A l \in (U \ {x}) \ {k} : StrLess(k, l)
  BY <1>8 DEF First
<1>10. CASE StrLess(k, x)
  BY <1>4, <1>9, <1>10 DEF First
<1>11. CASE StrLess(x, k)
  <2>1. \A l \in U \ {x} : StrLess(x, l)
    BY <1>4, <1>9, <1>11, StrLessTransitive
  <2> QED  BY <1>4, <2>1 DEF First
<1> QED  BY <1>9, <1>10, <1>11, StrLessTotal

--------------------------------------------------------------------------------
(* What strtok and strchr find *)

\* Strings as main.c reads them: no newline, and none but values have a comma.
Unbroken(s) == s \in Text /\ \A i \in 1..Len(s) : s[i] # Newline
Name(s)     == Unbroken(s) /\ \A i \in 1..Len(s) : s[i] # Comma

LEMMA TextDomain ==
    ASSUME NEW s \in Text
    PROVE  DOMAIN s = 1..Len(s)
  BY LenProperties DEF Text

\* The token that starts at m and is not cut before n ends at n.
LEMMA TokenUpTo ==
    ASSUME NEW i \in Text, NEW size, NEW m \in Nat, NEW n \in TokenEnds(i, size),
           m <= n, \A j \in m..(n - 1) : j \notin TokenEnds(i, size)
    PROVE  Token(i, size, m) = SubSeq(i, m, n)
<1> DEFINE Ends_m == {j \in TokenEnds(i, size) : j >= m}
<1>1. Len(i) \in Nat /\ TokenEnds(i, size) \in SUBSET (1..Len(i))
  BY TextType, TextDomain DEF TokenEnds
<1>2. Ends_m \in SUBSET Nat /\ n \in Ends_m
  BY <1>1
<1>3. \A j \in Ends_m : n <= j
  BY <1>1
<1>4. Min(Ends_m) = n
  BY <1>2, <1>3, MinUnique
<1> QED  BY <1>4 DEF Token

\* A token lies in the image and has no newline.
LEMMA TokenType ==
    ASSUME NEW i \in Text, NEW size, NEW m \in TokenStarts(i, size)
    PROVE  Unbroken(Token(i, size, m))
<1>1. Len(i) \in Nat /\ m \in 1..Len(i) /\ i[m] # Newline
  BY TextType, TextDomain DEF TokenStarts
<1>2. TokenEnds(i, size) \in SUBSET (1..Len(i)) /\ Len(i) \in TokenEnds(i, size)
  BY <1>1, TextDomain DEF TokenEnds
<1> DEFINE After == {j \in TokenEnds(i, size) : j >= m}
           n == Min(After)
<1>3. After \in SUBSET Nat /\ Len(i) \in After
  BY <1>1, <1>2
<1>4. n \in After /\ \A j \in After : n <= j
  BY <1>3, MinProperties
<1>5. n \in m..Len(i) /\ \A j \in m..(n - 1) : j \notin TokenEnds(i, size)
  <2>1. n \in 1..Len(i) /\ m <= n
    BY <1>2, <1>4
  <2> SUFFICES ASSUME NEW j \in m..(n - 1), j \in TokenEnds(i, size) PROVE FALSE
    BY <1>1, <2>1
  <2>2. j \in After
    OBVIOUS
  <2>3. n <= j
    BY <1>4, <2>2
  <2> HIDE DEF n, After
  <2> QED  BY <1>1, <2>1, <2>3
<1>6. Token(i, size, m) = SubSeq(i, m, n)
  BY DEF Token
<1> HIDE DEF n, After
<1>7. \A p \in m..n : i[p] # Newline
  <2> SUFFICES ASSUME NEW p \in m..n, p # m, i[p] = Newline
               PROVE  FALSE
    BY <1>1
  <2>1. p - 1 \in m..(n - 1) /\ p - 1 \in 1..Len(i) /\ (p - 1) + 1 = p
    BY <1>1, <1>5
  <2>2. p - 1 \in TokenEnds(i, size)
    BY <2>1, TextDomain DEF TokenEnds
  <2> QED  BY <1>5, <2>1, <2>2
<1>8. /\ SubSeq(i, m, n) \in Text /\ Len(SubSeq(i, m, n)) = n - m + 1
      /\ \A p \in 1..(n - m + 1) : SubSeq(i, m, n)[p] = i[m + p - 1]
  BY <1>1, <1>5, SubText
<1>9. \A p \in 1..(n - m + 1) : m + p - 1 \in m..n
  BY <1>1, <1>5
<1> QED  BY <1>6, <1>7, <1>8, <1>9 DEF Unbroken

\* A token is cut in two at its first comma.
LEMMA CommaFirst ==
    ASSUME NEW s \in Text, NEW c \in 1..Len(s), s[c] = Comma,
           \A p \in 1..(c - 1) : s[p] # Comma
    PROVE  /\ HasComma(s)
           /\ KeyOf(s) = SubSeq(s, 1, c - 1)
           /\ ValueOf(s) = SubSeq(s, c + 1, Len(s))
<1> DEFINE Commas == {p \in DOMAIN s : s[p] = Comma}
<1>1. Len(s) \in Nat /\ DOMAIN s = 1..Len(s)
  BY TextType, TextDomain
<1>2. Commas \in SUBSET Nat /\ c \in Commas
  BY <1>1
<1>3. \A p \in Commas : c <= p
  <2> SUFFICES ASSUME NEW p \in Commas, ~(c <= p) PROVE FALSE
    OBVIOUS
  <2>1. p \in 1..(c - 1)
    BY <1>1
  <2> QED  BY <2>1
<1>4. FirstComma(s) = c
  BY <1>2, <1>3, MinUnique DEF FirstComma
<1> QED  BY <1>1, <1>4 DEF HasComma, KeyOf, ValueOf

LEMMA KeyAndValueType ==
    ASSUME NEW s, Unbroken(s), HasComma(s)
    PROVE  Name(KeyOf(s)) /\ Unbroken(ValueOf(s))
<1>1. s \in Text /\ Len(s) \in Nat /\ DOMAIN s = 1..Len(s) /\ \A p \in 1..Len(s) : s[p] # Newline
  BY TextType, TextDomain DEF Unbroken
<1> DEFINE Commas == {p \in 1..Len(s) : s[p] = Comma}
           c == Min(Commas)
<1>2. Commas \in SUBSET Nat /\ Commas # {}
  BY <1>1 DEF HasComma
<1>3. c \in Commas /\ \A p \in Commas : c <= p
  BY <1>2, MinProperties
<1>4. c \in 1..Len(s) /\ s[c] = Comma /\ \A p \in 1..(c - 1) : s[p] # Comma
  BY <1>1, <1>3
<1> HIDE DEF c, Commas
<1>5. KeyOf(s) = SubSeq(s, 1, c - 1) /\ ValueOf(s) = SubSeq(s, c + 1, Len(s))
  BY <1>1, <1>4, CommaFirst
<1>6. Name(SubSeq(s, 1, c - 1))
  <2>1. /\ SubSeq(s, 1, c - 1) \in Text /\ Len(SubSeq(s, 1, c - 1)) = c - 1
        /\ \A p \in 1..(c - 1) : SubSeq(s, 1, c - 1)[p] = s[p]
    BY <1>1, <1>4, SubText
  <2> QED  BY <1>1, <1>4, <2>1 DEF Name, Unbroken
<1>7. Unbroken(SubSeq(s, c + 1, Len(s)))
  <2> DEFINE v == SubSeq(s, c + 1, Len(s))
  <2>1. c + 1 \in Nat /\ 1 <= c + 1 /\ c + 1 <= Len(s) + 1
    BY <1>1, <1>4
  <2>2. /\ v \in Text /\ Len(v) = Len(s) - (c + 1) + 1
        /\ \A p \in 1..(Len(s) - (c + 1) + 1) : v[p] = s[(c + 1) + p - 1]
    BY <1>1, <2>1, SubText
  <2> HIDE DEF v
  <2>3. \A p \in 1..Len(v) : (c + 1) + p - 1 \in 1..Len(s)
    BY <1>1, <1>4, <2>2
  <2>4. \A p \in 1..Len(v) : v[p] # Newline
    BY <1>1, <2>2, <2>3
  <2>5. Unbroken(v)
    BY <2>2, <2>4 DEF Unbroken
  <2> QED  BY <2>5 DEF v
<1> QED  BY <1>5, <1>6, <1>7

--------------------------------------------------------------------------------
(* Stores *)

\* A store that main.c can have in memory: finitely many names, each with a value or without.
Pairs(s) ==
    /\ IsFiniteSet(DOMAIN s)
    /\ \A k \in DOMAIN s : Name(k) /\ (s[k] = NoValue \/ Unbroken(s[k]))

Records(i, size) == {m \in TokenStarts(i, size) : HasComma(Token(i, size, m))}

LEMMA RecoveredKeys ==
    ASSUME NEW i, NEW size
    PROVE  DOMAIN Recovered(i, size) = {KeyOf(Token(i, size, m)) : m \in Records(i, size)}
  BY DEF Recovered, Records

LEMMA RecoveredValue ==
    ASSUME NEW i, NEW size, NEW k \in DOMAIN Recovered(i, size)
    PROVE  LET of == {m \in Records(i, size) : KeyOf(Token(i, size, m)) = k}
           IN  Recovered(i, size)[k] = ValueOf(Token(i, size, Max(of)))
<1> DEFINE last(l) == Max({m \in Records(i, size) : KeyOf(Token(i, size, m)) = l})
<1>1. Recovered(i, size) =
        [l \in {KeyOf(Token(i, size, m)) : m \in Records(i, size)} |->
            ValueOf(Token(i, size, last(l)))]
  BY DEF Recovered, Records
<1> HIDE DEF last
<1>2. Recovered(i, size)[k] = ValueOf(Token(i, size, last(k)))
  BY <1>1, RecoveredKeys
<1> QED  BY <1>2 DEF last

LEMMA RecoveredType ==
    ASSUME NEW i \in Text, NEW size
    PROVE  /\ Pairs(Recovered(i, size))
           /\ \A k \in DOMAIN Recovered(i, size) : Unbroken(Recovered(i, size)[k])
<1>1. Len(i) \in Nat /\ Records(i, size) \in SUBSET (0..Len(i))
  BY TextType, TextDomain DEF Records, TokenStarts
<1>2. \A m \in Records(i, size) :
        Name(KeyOf(Token(i, size, m))) /\ Unbroken(ValueOf(Token(i, size, m)))
  BY TokenType, KeyAndValueType DEF Records
<1>3. IsFiniteSet(DOMAIN Recovered(i, size))
  <2>1. IsFiniteSet(Records(i, size))
    <3>1. IsFiniteSet(0..Len(i))
      BY <1>1, FS_Interval
    <3> QED  BY <1>1, <3>1, FS_Subset
  <2> DEFINE key == [m \in Records(i, size) |-> KeyOf(Token(i, size, m))]
  <2>2. DOMAIN Recovered(i, size) = {key[m] : m \in Records(i, size)}
    <3>1. DOMAIN Recovered(i, size) = {KeyOf(Token(i, size, m)) : m \in Records(i, size)}
      BY RecoveredKeys
    <3> QED  BY <3>1
  <2>3. key \in Surjection(Records(i, size), {key[m] : m \in Records(i, size)})
    BY DEF Surjection
  <2> HIDE DEF key
  <2> QED  BY <2>1, <2>2, <2>3, FS_Surjection
<1>4. ASSUME NEW k \in DOMAIN Recovered(i, size)
      PROVE  Name(k) /\ Unbroken(Recovered(i, size)[k])
  <2> DEFINE Of == {m \in Records(i, size) : KeyOf(Token(i, size, m)) = k}
  <2>1. Of \in SUBSET (0..Len(i)) /\ Of # {}
    <3>1. k \in {KeyOf(Token(i, size, m)) : m \in Records(i, size)}
      BY RecoveredKeys
    <3> QED  BY <1>1, <3>1
  <2>2. Max(Of) \in Of
    BY <1>1, <2>1, MaxProperties
  <2>3. Recovered(i, size)[k] = ValueOf(Token(i, size, Max(Of)))
    BY RecoveredValue
  <2>4. Max(Of) \in Records(i, size) /\ KeyOf(Token(i, size, Max(Of))) = k
    BY <2>2
  <2> HIDE DEF Of
  <2> QED  BY <1>2, <2>3, <2>4
<1> QED  BY <1>3, <1>4 DEF Pairs

--------------------------------------------------------------------------------
(* Where the records lie in an image *)

\* The pairs a snapshot writes: finitely many names, each with a value.
Full(w) ==
    /\ IsFiniteSet(DOMAIN w) /\ w = [k \in DOMAIN w |-> w[k]]
    /\ \A k \in DOMAIN w : Name(k) /\ Unbroken(w[k])

LineLen(w, k) == Len(k) + Len(w[k]) + 2

\* i is the beginning of an image of the pairs of w under the keys D, which are the first
\* ones in the order of strcmp, in that order and without gaps: the line of k starts at at[k].
Layout(i, w, D, at) ==
    /\ D \subseteq DOMAIN w /\ at \in [D -> Nat \ {0}]
    /\ \A k \in D : \A l \in DOMAIN w : StrLess(l, k) => l \in D
    /\ \A k \in D : \A p \in 1..LineLen(w, k) :
          at[k] + p - 1 <= Len(i) => i[at[k] + p - 1] = Line(k, w[k])[p]
    /\ \A n \in 1..Len(i) : \E k \in D : at[k] <= n /\ n < at[k] + LineLen(w, k)
    /\ \A k \in D : \A l \in D : StrLess(k, l) => at[k] + LineLen(w, k) <= at[l]

\* No line of the keys D is cut off.
Complete(i, w, D, at) == \A k \in D : at[k] + LineLen(w, k) - 1 <= Len(i)

LEMMA ByteConstants == Newline \in Byte /\ Comma \in Byte /\ Newline # Comma
  BY DEF Newline, Comma, Byte

LEMMA LineIs ==
    ASSUME NEW k, NEW v, Name(k), Unbroken(v)
    PROVE  /\ Line(k, v) \in Text
           /\ Len(Line(k, v)) = Len(k) + Len(v) + 2
           /\ \A p \in 1..Len(k) : Line(k, v)[p] = k[p]
           /\ Line(k, v)[Len(k) + 1] = Comma
           /\ \A p \in 1..Len(v) : Line(k, v)[Len(k) + 1 + p] = v[p]
           /\ Line(k, v)[Len(k) + Len(v) + 2] = Newline
           /\ \A p \in 1..(Len(k) + Len(v) + 1) : Line(k, v)[p] # Newline
<1>1. k \in Text /\ v \in Text /\ Len(k) \in Nat /\ Len(v) \in Nat
  BY TextType DEF Name, Unbroken
<1> DEFINE c == <<Comma>>
           n == <<Newline>>
<1>2. c \in Text /\ Len(c) = 1 /\ c[1] = Comma /\ n \in Text /\ Len(n) = 1 /\ n[1] = Newline
  BY ByteConstants DEF Text
<1> HIDE DEF c, n
<1> DEFINE kc == k \o c
           kcv == kc \o v
           line == kcv \o n
<1>3. /\ kc \in Text /\ Len(kc) = Len(k) + 1
      /\ \A p \in 1..(Len(k) + 1) : kc[p] = IF p <= Len(k) THEN k[p] ELSE c[p - Len(k)]
  <2>1. /\ kc \in Text /\ Len(kc) = Len(k) + Len(c)
        /\ \A p \in 1..(Len(k) + Len(c)) : kc[p] = IF p <= Len(k) THEN k[p] ELSE c[p - Len(k)]
    BY <1>1, <1>2, ConcatText
  <2> HIDE DEF kc
  <2> QED  BY <1>2, <2>1
<1> HIDE DEF kc
<1>4. /\ kcv \in Text /\ Len(kcv) = Len(k) + 1 + Len(v)
      /\ \A p \in 1..(Len(k) + 1 + Len(v)) :
           kcv[p] = IF p <= Len(k) + 1 THEN kc[p] ELSE v[p - (Len(k) + 1)]
  <2>1. /\ kcv \in Text /\ Len(kcv) = Len(kc) + Len(v)
        /\ \A p \in 1..(Len(kc) + Len(v)) : kcv[p] = IF p <= Len(kc) THEN kc[p] ELSE v[p - Len(kc)]
    BY <1>1, <1>3, ConcatText
  <2> HIDE DEF kcv
  <2> QED  BY <1>3, <2>1
<1> HIDE DEF kcv
<1>5. /\ line \in Text /\ Len(line) = Len(k) + 1 + Len(v) + 1
      /\ \A p \in 1..(Len(k) + 1 + Len(v) + 1) :
           line[p] = IF p <= Len(k) + 1 + Len(v) THEN kcv[p] ELSE n[p - (Len(k) + 1 + Len(v))]
  <2>1. /\ line \in Text /\ Len(line) = Len(kcv) + Len(n)
        /\ \A p \in 1..(Len(kcv) + Len(n)) :
             line[p] = IF p <= Len(kcv) THEN kcv[p] ELSE n[p - Len(kcv)]
    BY <1>2, <1>4, ConcatText
  <2> HIDE DEF line
  <2> QED  BY <1>2, <1>4, <2>1
<1>6. Line(k, v) = line
  BY DEF Line, c, n, kc, kcv
<1> HIDE DEF line
<1>7. \A p \in 1..Len(k) : line[p] = k[p]
  BY <1>1, <1>3, <1>4, <1>5
<1>8. line[Len(k) + 1] = Comma
  <2>1. kc[Len(k) + 1] = c[1]
    BY <1>1, <1>3
  <2>2. kcv[Len(k) + 1] = kc[Len(k) + 1]
    BY <1>1, <1>4
  <2>3. line[Len(k) + 1] = kcv[Len(k) + 1]
    BY <1>1, <1>5
  <2> QED  BY <1>2, <2>1, <2>2, <2>3
<1>9. \A p \in 1..Len(v) : line[Len(k) + 1 + p] = v[p]
  <2> TAKE p \in 1..Len(v)
  <2>1. Len(k) + 1 + p \in 1..(Len(k) + 1 + Len(v)) /\ ~(Len(k) + 1 + p <= Len(k) + 1)
        /\ Len(k) + 1 + p - (Len(k) + 1) = p
    BY <1>1
  <2>2. kcv[Len(k) + 1 + p] = v[p]
    BY <1>4, <2>1
  <2>3. line[Len(k) + 1 + p] = kcv[Len(k) + 1 + p]
    BY <1>1, <1>5
  <2> QED  BY <2>2, <2>3
<1>10. line[Len(k) + Len(v) + 2] = Newline
  <2>1. line[Len(k) + Len(v) + 2] = n[1]
    BY <1>1, <1>5
  <2> QED  BY <1>2, <2>1
<1>11. \A p \in 1..(Len(k) + Len(v) + 1) : line[p] # Newline
  <2> TAKE p \in 1..(Len(k) + Len(v) + 1)
  <2>1. CASE p <= Len(k)
    BY <1>1, <1>7, <2>1 DEF Name, Unbroken
  <2>2. CASE p = Len(k) + 1
    BY <1>8, <2>2, ByteConstants
  <2>3. CASE p > Len(k) + 1
    <3>1. p - (Len(k) + 1) \in 1..Len(v) /\ p = Len(k) + 1 + (p - (Len(k) + 1))
      BY <1>1, <2>3
    <3>2. line[p] = v[p - (Len(k) + 1)]
      BY <1>9, <3>1
    <3> QED  BY <3>1, <3>2 DEF Unbroken
  <2> QED  BY <1>1, <2>1, <2>2, <2>3
<1>12. Len(line) = Len(k) + Len(v) + 2 /\ line \in Text
  BY <1>1, <1>5
<1> QED  BY <1>6, <1>7, <1>8, <1>9, <1>10, <1>11, <1>12

--------------------------------------------------------------------------------
(* The inductive invariant *)

\* i holds the beginning of an image of w; or the lines of the keys D, whole.
Begun(i, w)    == \E D \in SUBSET DOMAIN w : \E at \in [D -> Nat \ {0}] : Layout(i, w, D, at)
Whole(i, w, D) == \E at \in [D -> Nat \ {0}] : Layout(i, w, D, at) /\ Complete(i, w, D, at)

StoreInv ==
    /\ Pairs(store) /\ Full(written) /\ Full(synced)
    /\ pc # "off" => build \in Builds

FileInv ==
    /\ img # NoFile /\ "img" \notin holed => Begun(img, written)
    /\ disk # NoFile /\ "disk" \notin holed => Begun(disk, synced)
    /\ dirty => img # NoFile

\* do_snapshot has written the lines of the keys before those in rest.
SnapInv ==
    pc = "snap" =>
        /\ img # NoFile /\ promised = None /\ written = Writable(store)
        /\ \A k \in rest : \A l \in DOMAIN store \ rest : StrLess(l, k)
        /\ "img" \notin holed => Whole(img, written, DOMAIN written \ rest)

\* Nothing happens to the file of a snapshot reported successful until the next one.
PromiseInv ==
    promised # None =>
        /\ pc # "snap" /\ ~dirty /\ img # NoFile /\ disk = img
        /\ promised = written /\ synced = written
        /\ "img" \in holed <=> "disk" \in holed
        /\ "img" \notin holed => Whole(img, written, DOMAIN written)

\* What a recovery that read the whole file has left in the store.
LoadInv ==
    loaded =>
        /\ pc \in {"opened", "work"} => DOMAIN FileMap(build, img) \subseteq DOMAIN store
        /\ pc \in {"opened", "reopened", "verified"} =>
             /\ DOMAIN store = DOMAIN FileMap(build, img)
             /\ \A k \in DOMAIN store :
                  store[k] # FileMap(build, img)[k] =>
                    store[k] = NoValue /\ "oom" \in Fault /\ faults > 0

\* The iterator is closed when do_snapshot has returned.
RestInv == pc # "snap" => rest = {}

IInv == TypeOK /\ StoreInv /\ FileInv /\ SnapInv /\ PromiseInv /\ LoadInv /\ RestInv

--------------------------------------------------------------------------------
(* What do_recovery makes of an image laid out so *)

LEMMA OneBuffer ==
    ASSUME NEW size \in Nat \ {0}, NEW m \in 1..size, NEW n \in 1..size
    PROVE  SameBuffer(size, m, n)
<1>1. \A x \in 0..(size - 1) : x \div size = 0
  OBVIOUS
<1> QED  BY <1>1 DEF SameBuffer

\* A newline ends every line, and is nowhere else.
LEMMA LineFacts ==
    ASSUME NEW i \in Text, NEW w, Full(w), NEW D, NEW at, Layout(i, w, D, at), NEW k \in D
    PROVE  /\ at[k] \in Nat /\ 1 <= at[k] /\ Len(i) \in Nat
           /\ k \in Text /\ w[k] \in Text /\ Len(k) \in Nat /\ Len(w[k]) \in Nat
           /\ LineLen(w, k) = Len(k) + Len(w[k]) + 2 /\ LineLen(w, k) \in Nat
           /\ \A p \in 1..LineLen(w, k) :
                at[k] + p - 1 <= Len(i) =>
                  /\ i[at[k] + p - 1] = Line(k, w[k])[p]
                  /\ i[at[k] + p - 1] = Newline <=> p = LineLen(w, k)
<1>1. Name(k) /\ Unbroken(w[k])
  BY DEF Layout, Full
<1>2. k \in Text /\ w[k] \in Text /\ Len(k) \in Nat /\ Len(w[k]) \in Nat /\ Len(i) \in Nat
  BY <1>1, TextType DEF Name, Unbroken
<1>3. LineLen(w, k) = Len(k) + Len(w[k]) + 2 /\ LineLen(w, k) \in Nat
  BY <1>2 DEF LineLen
<1>4. at[k] \in Nat /\ 1 <= at[k]
  BY DEF Layout
<1>5. \A p \in 1..LineLen(w, k) :
        at[k] + p - 1 <= Len(i) => i[at[k] + p - 1] = Line(k, w[k])[p]
  BY DEF Layout
<1>6. \A p \in 1..LineLen(w, k) : Line(k, w[k])[p] = Newline <=> p = LineLen(w, k)
  <2>1. /\ Line(k, w[k])[Len(k) + Len(w[k]) + 2] = Newline
        /\ \A p \in 1..(Len(k) + Len(w[k]) + 1) : Line(k, w[k])[p] # Newline
    BY <1>1, LineIs
  <2> TAKE p \in 1..LineLen(w, k)
  <2>2. p = Len(k) + Len(w[k]) + 2 \/ p \in 1..(Len(k) + Len(w[k]) + 1)
    BY <1>2, <1>3
  <2> QED  BY <1>2, <1>3, <2>1, <2>2
<1> QED  BY <1>2, <1>3, <1>4, <1>5, <1>6

\* The byte n lies in one line.
LEMMA InLine ==
    ASSUME NEW i \in Text, NEW w, Full(w), NEW D, NEW at, Layout(i, w, D, at), NEW n \in 1..Len(i)
    PROVE  \E k \in D : n - at[k] + 1 \in 1..LineLen(w, k)
<1>1. PICK k \in D : at[k] <= n /\ n < at[k] + LineLen(w, k)
  BY DEF Layout
<1>2. at[k] \in Nat /\ LineLen(w, k) \in Nat /\ Len(i) \in Nat
  BY LineFacts
<1>3. n - at[k] + 1 \in 1..LineLen(w, k)
  BY <1>1, <1>2
<1> QED  BY <1>3

LEMMA LinesApart ==
    ASSUME NEW i \in Text, NEW w, Full(w), NEW D, NEW at, Layout(i, w, D, at),
           NEW k \in D, NEW l \in D, k # l
    PROVE  at[k] + LineLen(w, k) <= at[l] \/ at[l] + LineLen(w, l) <= at[k]
<1>1. k \in Text /\ l \in Text
  BY LineFacts
<1>2. StrLess(k, l) \/ StrLess(l, k)
  BY <1>1, StrLessTotal
<1> QED  BY <1>2 DEF Layout

\* A token starts where a line does, and nowhere else.
LEMMA StartsOfLines ==
    ASSUME NEW i \in Text, NEW w, Full(w), NEW D, NEW at, Layout(i, w, D, at),
           NEW size \in Nat \ {0}, Len(i) <= size
    PROVE  TokenStarts(i, size) = {at[k] : k \in {l \in D : at[l] <= Len(i)}}
<1>1. Len(i) \in Nat /\ DOMAIN i = 1..Len(i)
  BY TextType, TextDomain
<1>2. \A m \in 2..Len(i) : SameBuffer(size, m - 1, m)
  BY <1>1, OneBuffer
<1>3. ASSUME NEW k \in D, at[k] <= Len(i)
      PROVE  at[k] \in TokenStarts(i, size)
  <2>1. at[k] \in 1..Len(i) /\ i[at[k]] # Newline
    <3>1. 1 \in 1..LineLen(w, k) /\ at[k] + 1 - 1 = at[k] /\ 1 # LineLen(w, k) /\ at[k] \in Nat /\ 1 <= at[k]
      BY LineFacts
    <3> QED  BY <1>1, <1>3, <3>1, LineFacts
  <2>2. ASSUME at[k] # 1
        PROVE  i[at[k] - 1] = Newline
    <3>1. at[k] - 1 \in 1..Len(i)
      BY <1>1, <2>1, <2>2
    <3>2. PICK l \in D : at[k] - 1 - at[l] + 1 \in 1..LineLen(w, l)
      BY <3>1, InLine
    <3> DEFINE p == at[k] - 1 - at[l] + 1
    <3>3. at[l] \in Nat /\ at[k] \in Nat /\ LineLen(w, l) \in Nat /\ LineLen(w, k) \in Nat
      BY LineFacts
    <3>4. l # k
      BY <3>2, <3>3
    <3>5. at[l] + LineLen(w, l) <= at[k]
      BY <3>2, <3>3, <3>4, LinesApart
    <3>6. p = at[k] - at[l]
      BY <3>3
    <3>7. p \in 1..LineLen(w, l)
      BY <3>2
    <3> HIDE DEF p
    <3>8. p = LineLen(w, l) /\ at[l] + p - 1 = at[k] - 1
      BY <3>3, <3>5, <3>6, <3>7
    <3>9. at[l] + p - 1 <= Len(i)
      BY <1>1, <3>1, <3>8
    <3> QED  BY <3>7, <3>8, <3>9, LineFacts
  <2> QED  BY <1>1, <2>1, <2>2 DEF TokenStarts
<1>4. ASSUME NEW m \in TokenStarts(i, size)
      PROVE  \E k \in D : at[k] <= Len(i) /\ m = at[k]
  <2>1. m \in 1..Len(i) /\ i[m] # Newline /\ (m = 1 \/ i[m - 1] = Newline)
    BY <1>1, <1>2 DEF TokenStarts
  <2>2. PICK k \in D : m - at[k] + 1 \in 1..LineLen(w, k)
    BY <2>1, InLine
  <2>3. at[k] \in Nat /\ 1 <= at[k] /\ LineLen(w, k) \in Nat
    BY LineFacts
  <2>4. CASE m = at[k]
    BY <2>1, <2>4
  <2>5. CASE m # at[k]
    <3> DEFINE a == at[k]
               h == LineLen(w, k)
               p == m - a
    <3>0. /\ m \in Nat /\ m <= Len(i) /\ Len(i) \in Nat /\ a \in Nat /\ 1 <= a /\ h \in Nat
          /\ m - a + 1 \in 1..h /\ m # a
      BY <1>1, <2>1, <2>2, <2>3, <2>5
    <3> HIDE DEF a, h
    <3>1. p \in 1..h /\ p # h /\ a + p - 1 = m - 1 /\ m - 1 <= Len(i) /\ m # 1
      BY <3>0
    <3> HIDE DEF p
    <3> USE DEF a, h
    <3>2. i[m - 1] # Newline
      BY <3>1, LineFacts
    <3> QED  BY <2>1, <3>1, <3>2
  <2> QED  BY <2>4, <2>5
<1> QED  BY <1>3, <1>4

\* The token that starts at the line of k is the line up to its newline, or to the end of the image.
LEMMA TokenOfLine ==
    ASSUME NEW i \in Text, NEW w, Full(w), NEW D, NEW at, Layout(i, w, D, at),
           NEW size \in Nat \ {0}, Len(i) <= size, NEW k \in D, at[k] <= Len(i)
    PROVE  LET e == IF at[k] + LineLen(w, k) - 2 <= Len(i) THEN at[k] + LineLen(w, k) - 2 ELSE Len(i)
           IN  Token(i, size, at[k]) = SubSeq(i, at[k], e)
<1> DEFINE a == at[k]
           len == LineLen(w, k)
           last == Len(i)
           e == IF a + len - 2 <= last THEN a + len - 2 ELSE last
<1>1. /\ last \in Nat /\ DOMAIN i = 1..last /\ a \in Nat /\ 1 <= a /\ len \in Nat /\ len >= 2
      /\ a <= last /\ last <= size
  BY TextDomain, LineFacts
<1>2. \A p \in 1..len : a + p - 1 <= last => (i[a + p - 1] = Newline <=> p = len)
  BY LineFacts
<1> HIDE DEF a, len, last
<1>3. e \in Nat /\ a <= e /\ e <= last /\ e <= a + len - 2
  BY <1>1
<1>4. e # last => e = a + len - 2 /\ e < last
  BY <1>1
<1> HIDE DEF e
<1>5. e \in TokenEnds(i, size)
  <2>1. ASSUME e # last PROVE i[e + 1] = Newline
    <3>1. len \in 1..len /\ a + len - 1 = e + 1 /\ e + 1 <= last
      BY <1>1, <1>3, <1>4, <2>1
    <3> QED  BY <1>2, <3>1
  <2>2. e \in DOMAIN i
    BY <1>1, <1>3
  <2> QED  BY <2>1, <2>2 DEF TokenEnds, last
<1>6. ASSUME NEW j \in a..(e - 1), j \in TokenEnds(i, size)
      PROVE  FALSE
  <2>1. j \in Nat /\ a <= j /\ j + 1 <= e /\ j + 1 <= last /\ j # last
    BY <1>1, <1>3
  <2>2. j \in 1..size /\ j + 1 \in 1..size
    BY <1>1, <2>1
  <2>3. i[j + 1] # Newline
    <3> DEFINE p == j + 1 - a + 1
    <3>1. p \in 1..len /\ p # len /\ a + p - 1 = j + 1
      BY <1>1, <1>3, <2>1
    <3> HIDE DEF p
    <3> QED  BY <1>2, <2>1, <3>1
  <2>4. SameBuffer(size, j, j + 1)
    BY <2>2, OneBuffer
  <2> QED  BY <1>6, <2>1, <2>3, <2>4 DEF TokenEnds, last
<1>7. Token(i, size, a) = SubSeq(i, a, e)
  BY <1>1, <1>3, <1>5, <1>6, TokenUpTo
<1> QED  BY <1>7 DEF e, a, len, last

\* It is a record once it holds the comma, of k and of what there is of its value.
LEMMA RecordOfLine ==
    ASSUME NEW i \in Text, NEW w, Full(w), NEW D, NEW at, Layout(i, w, D, at),
           NEW size \in Nat \ {0}, Len(i) <= size, NEW k \in D, at[k] + Len(k) <= Len(i)
    PROVE  LET t == Token(i, size, at[k])
           IN  /\ HasComma(t) /\ KeyOf(t) = k /\ IsPrefixOf(ValueOf(t), w[k])
               /\ at[k] + LineLen(w, k) - 2 <= Len(i) => ValueOf(t) = w[k]
<1> DEFINE e == IF at[k] + LineLen(w, k) - 2 <= Len(i) THEN at[k] + LineLen(w, k) - 2 ELSE Len(i)
           t == SubSeq(i, at[k], e)
           v == w[k]
<1>1. /\ at[k] \in Nat /\ 1 <= at[k] /\ Len(i) \in Nat /\ at[k] <= Len(i)
      /\ k \in Text /\ v \in Text /\ Len(k) \in Nat /\ Len(v) \in Nat
      /\ LineLen(w, k) = Len(k) + Len(v) + 2
      /\ \A p \in 1..LineLen(w, k) :
           at[k] + p - 1 <= Len(i) => i[at[k] + p - 1] = Line(k, v)[p]
  BY LineFacts
<1>2. Token(i, size, at[k]) = t
  BY <1>1, TokenOfLine
<1>3. /\ e \in Nat /\ at[k] + Len(k) <= e /\ e <= Len(i) /\ e <= at[k] + LineLen(w, k) - 2
      /\ at[k] + LineLen(w, k) - 2 <= Len(i) => e = at[k] + LineLen(w, k) - 2
  <2> DEFINE a == at[k]
             h == LineLen(w, k)
             u == Len(i)
  <2>1. /\ a \in Nat /\ 1 <= a /\ u \in Nat /\ a + Len(k) <= u
        /\ Len(k) \in Nat /\ Len(v) \in Nat /\ h = Len(k) + Len(v) + 2
    BY <1>1
  <2>2. e = IF a + h - 2 <= u THEN a + h - 2 ELSE u
    OBVIOUS
  <2> HIDE DEF a, h, u, e, v
  <2>3. /\ e \in Nat /\ a + Len(k) <= e /\ e <= u /\ e <= a + h - 2
        /\ a + h - 2 <= u => e = a + h - 2
    BY <2>1, <2>2
  <2> QED  BY <2>3 DEF a, h, u
<1> HIDE DEF e
<1>4. /\ t \in Text /\ Len(t) = e - at[k] + 1
      /\ \A p \in 1..(e - at[k] + 1) : t[p] = i[at[k] + p - 1]
  <2>1. at[k] \in Nat /\ e \in Nat /\ 1 <= at[k] /\ at[k] <= e + 1 /\ e <= Len(i)
    BY <1>1, <1>3
  <2> QED  BY <2>1, SubText
<1> DEFINE c == Len(k) + 1
           n == Len(t) - c
<1>5. Name(k) /\ Unbroken(v)
  BY DEF Layout, Full
<1> HIDE DEF t, v
<1>6. \A p \in 1..Len(t) : t[p] = Line(k, v)[p]
  <2> TAKE p \in 1..Len(t)
  <2> DEFINE a == at[k]
             h == LineLen(w, k)
             u == Len(i)
  <2>0. /\ a \in Nat /\ e \in Nat /\ h \in Nat /\ u \in Nat /\ e <= u /\ e <= a + h - 2
        /\ p \in 1..(e - a + 1)
    BY <1>1, <1>3, <1>4
  <2> HIDE DEF a, h, u
  <2>1. p \in 1..h /\ a + p - 1 <= u /\ p \in 1..(e - a + 1)
    BY <2>0
  <2> USE DEF a, h, u
  <2> QED  BY <1>1, <1>4, <2>1
<1>7. c \in 1..Len(t) /\ t[c] = Comma
  <2>1. c \in 1..Len(t)
    BY <1>1, <1>3, <1>4
  <2>2. Line(k, v)[c] = Comma
    BY <1>5, LineIs
  <2> QED  BY <1>6, <2>1, <2>2
<1>8. \A p \in 1..(c - 1) : t[p] = k[p] /\ t[p] # Comma
  <2> TAKE p \in 1..(c - 1)
  <2>1. p \in 1..Len(k) /\ p \in 1..Len(t)
    BY <1>1, <1>7
  <2>2. Line(k, v)[p] = k[p] /\ k[p] # Comma
    BY <1>5, <2>1, LineIs DEF Name
  <2> QED  BY <1>6, <2>1, <2>2
<1>9. HasComma(t) /\ KeyOf(t) = SubSeq(t, 1, c - 1) /\ ValueOf(t) = SubSeq(t, c + 1, Len(t))
  BY <1>4, <1>7, <1>8, CommaFirst
<1>10. SubSeq(t, 1, c - 1) = k
  <2>1. c - 1 = Len(k) /\ c - 1 \in Nat /\ c - 1 <= Len(t) /\ Len(t) \in Nat
    BY <1>1, <1>7
  <2>2. /\ SubSeq(t, 1, c - 1) \in Text /\ Len(SubSeq(t, 1, c - 1)) = c - 1
        /\ \A p \in 1..(c - 1) : SubSeq(t, 1, c - 1)[p] = t[p]
    BY <1>4, <2>1, SubText
  <2> DEFINE a == SubSeq(t, 1, c - 1)
  <2>3. \A p \in 1..Len(a) : a[p] = k[p]
    BY <1>8, <2>2
  <2> HIDE DEF a, c
  <2>4. a \in Text /\ Len(a) = Len(k)
    BY <2>1, <2>2 DEF a
  <2>5. a = k
    BY <1>1, <2>3, <2>4, TextEqual
  <2> QED  BY <2>5 DEF a
<1>11. n \in Nat /\ n <= Len(v) /\ (at[k] + LineLen(w, k) - 2 <= Len(i) => n = Len(v))
  <2> DEFINE a == at[k]
             lk == Len(k)
             lv == Len(v)
             lt == Len(t)
             whole == a + LineLen(w, k) - 2 <= Len(i)
  <2>1. /\ a \in Nat /\ lk \in Nat /\ lv \in Nat /\ e \in Nat /\ lt = e - a + 1
        /\ a + lk <= e /\ e <= a + (lk + lv + 2) - 2
        /\ whole => e = a + (lk + lv + 2) - 2
    BY <1>1, <1>3, <1>4
  <2>2. n = lt - (lk + 1)
    OBVIOUS
  <2> HIDE DEF a, lk, lv, lt, n, whole
  <2>3. n \in Nat /\ n <= lv /\ (whole => n = lv)
    BY <2>1, <2>2
  <2> QED  BY <2>3 DEF a, lv, whole
<1>12. SubSeq(t, c + 1, Len(t)) = SubSeq(v, 1, n)
  <2> DEFINE a == SubSeq(t, c + 1, Len(t))
             b == SubSeq(v, 1, n)
  <2>1. c \in Nat /\ c <= Len(t) /\ Len(t) \in Nat /\ Len(t) - c = n /\ c = Len(k) + 1
    BY <1>1, <1>4, <1>7
  <2> HIDE DEF c, n
  <2>2. c + 1 \in Nat /\ 1 <= c + 1 /\ c + 1 <= Len(t) + 1 /\ Len(t) - (c + 1) + 1 = n
    BY <2>1
  <2>3. /\ a \in Text /\ Len(a) = Len(t) - (c + 1) + 1
        /\ \A p \in 1..(Len(t) - (c + 1) + 1) : a[p] = t[(c + 1) + p - 1]
    BY <1>4, <2>1, <2>2, SubText
  <2>4. /\ b \in Text /\ Len(b) = n /\ \A p \in 1..n : b[p] = v[p]
    <3>1. n - 1 + 1 = n
      BY <1>11
    <3>2. Len(b) = n - 1 + 1 /\ b \in Text /\ \A p \in 1..(n - 1 + 1) : b[p] = v[1 + p - 1]
      BY <1>1, <1>11, SubText
    <3>3. \A p \in 1..n : 1 + p - 1 = p
      BY <1>11
    <3> HIDE DEF b
    <3> QED  BY <3>1, <3>2, <3>3
  <2> HIDE DEF a, b
  <2>5. ASSUME NEW p \in 1..n
        PROVE  a[p] = b[p]
    <3> DEFINE q == (c + 1) + p - 1
    <3>1. q \in 1..Len(t) /\ q = Len(k) + 1 + p /\ p \in 1..Len(v)
      BY <1>1, <1>11, <2>1
    <3>2. a[p] = t[q]
      BY <2>2, <2>3
    <3> HIDE DEF q
    <3>3. Line(k, v)[Len(k) + 1 + p] = v[p]
      BY <1>5, <3>1, LineIs
    <3>4. t[q] = Line(k, v)[q]
      BY <1>6, <3>1
    <3> QED  BY <2>4, <3>1, <3>2, <3>3, <3>4
  <2> QED  BY <2>2, <2>3, <2>4, <2>5, TextEqual DEF a, b
<1>13. IsPrefixOf(SubSeq(v, 1, n), v) /\ (n = Len(v) => SubSeq(v, 1, n) = v)
  <2> HIDE DEF n
  <2>1. Len(SubSeq(v, 1, n)) = n
    BY <1>1, <1>11, SubText
  <2>2. SubSeq(v, 1, Len(v)) = v
    BY <1>1, SubSeqFull DEF Text
  <2>3. SubSeq(v, 1, Len(SubSeq(v, 1, n))) = SubSeq(v, 1, n)
    BY <2>1
  <2>4. Len(SubSeq(v, 1, n)) <= Len(v)
    BY <1>11, <2>1
  <2> QED  BY <1>11, <2>2, <2>3, <2>4 DEF IsPrefixOf
<1> QED  BY <1>2, <1>9, <1>10, <1>11, <1>12, <1>13 DEF v

\* Before that it has no comma, and is passed over.
LEMMA NoRecordYet ==
    ASSUME NEW i \in Text, NEW w, Full(w), NEW D, NEW at, Layout(i, w, D, at),
           NEW size \in Nat \ {0}, Len(i) <= size, NEW k \in D,
           at[k] <= Len(i), ~(at[k] + Len(k) <= Len(i))
    PROVE  ~HasComma(Token(i, size, at[k]))
<1> DEFINE a == at[k]
           lk == Len(k)
           lv == Len(w[k])
           last == Len(i)
           t == SubSeq(i, a, last)
<1>1. /\ a \in Nat /\ 1 <= a /\ last \in Nat /\ lk \in Nat /\ lv \in Nat
      /\ LineLen(w, k) = lk + lv + 2 /\ a <= last /\ last < a + lk
  BY LineFacts
<1>2. \A p \in 1..LineLen(w, k) : a + p - 1 <= last => i[a + p - 1] = Line(k, w[k])[p]
  BY LineFacts
<1>3. Token(i, size, a) = t
  <2>1. a + LineLen(w, k) - 2 >= last
    BY <1>1
  <2>2. (IF a + LineLen(w, k) - 2 <= last THEN a + LineLen(w, k) - 2 ELSE last) = last
    BY <1>1, <2>1
  <2> HIDE DEF a, last
  <2> QED  BY <1>1, <2>2, TokenOfLine DEF a, last
<1>4. Name(k) /\ Unbroken(w[k])
  BY DEF Layout, Full
<1> HIDE DEF a, lk, lv, last
<1>5. t \in Text /\ Len(t) = last - a + 1 /\ \A p \in 1..(last - a + 1) : t[p] = i[a + p - 1]
  <2>1. a <= last + 1 /\ last <= Len(i)
    BY <1>1 DEF last
  <2> QED  BY <1>1, <2>1, SubText
<1> HIDE DEF t
<1>6. ASSUME NEW p \in DOMAIN t
      PROVE  t[p] # Comma
  <2>1. p \in 1..(last - a + 1)
    BY <1>5, TextDomain
  <2>2. p \in 1..lk /\ p \in 1..LineLen(w, k) /\ a + p - 1 <= last
    BY <1>1, <2>1
  <2>3. Line(k, w[k])[p] = k[p] /\ k[p] # Comma
    BY <1>4, <2>2, LineIs DEF Name, lk
  <2> QED  BY <1>2, <1>5, <2>1, <2>2, <2>3
<1> QED  BY <1>3, <1>6 DEF HasComma, a

\* The keys of D whose comma is in the image.
Reached(i, D, at) == {k \in D : at[k] + Len(k) <= Len(i)}

\* do_recovery puts the pairs whose comma is in the image, with as much of the value as is.
LEMMA RecoveredFromLayout ==
    ASSUME NEW i \in Text, NEW w, Full(w), NEW D, NEW at, Layout(i, w, D, at),
           NEW size \in Nat \ {0}, Len(i) <= size
    PROVE  /\ DOMAIN Recovered(i, size) = Reached(i, D, at)
           /\ \A k \in DOMAIN Recovered(i, size) :
                /\ IsPrefixOf(Recovered(i, size)[k], w[k])
                /\ at[k] + LineLen(w, k) - 2 <= Len(i) => Recovered(i, size)[k] = w[k]
<1> DEFINE Got == {k \in D : at[k] + Len(k) <= Len(i)}
<1>0. Reached(i, D, at) = Got
  BY DEF Reached
<1>1. \A k \in Got : at[k] <= Len(i)
  <2> TAKE k \in Got
  <2>1. at[k] \in Nat /\ Len(k) \in Nat /\ Len(i) \in Nat
    BY LineFacts
  <2> QED  BY <2>1
<1>2. \A k \in Got : HasComma(Token(i, size, at[k])) /\ KeyOf(Token(i, size, at[k])) = k
  BY RecordOfLine
<1>3. Records(i, size) = {at[k] : k \in Got}
  <2>1. ASSUME NEW m \in Records(i, size)
        PROVE  \E k \in Got : m = at[k]
    <3>1. m \in TokenStarts(i, size) /\ HasComma(Token(i, size, m))
      BY DEF Records
    <3>2. PICK k \in D : at[k] <= Len(i) /\ m = at[k]
      BY <3>1, StartsOfLines
    <3>3. k \in Got
      BY <3>1, <3>2, NoRecordYet
    <3> QED  BY <3>2, <3>3
  <2>2. ASSUME NEW k \in Got
        PROVE  at[k] \in Records(i, size)
    <3>1. at[k] \in TokenStarts(i, size)
      BY <1>1, StartsOfLines
    <3> QED  BY <1>2, <3>1 DEF Records
  <2> QED  BY <2>1, <2>2
<1>4. DOMAIN Recovered(i, size) = Got
  <2>1. DOMAIN Recovered(i, size) = {KeyOf(Token(i, size, m)) : m \in Records(i, size)}
    BY RecoveredKeys
  <2> HIDE DEF Got
  <2> QED  BY <1>2, <1>3, <2>1
<1>5. ASSUME NEW k \in Got
      PROVE  Recovered(i, size)[k] = ValueOf(Token(i, size, at[k]))
  <2> DEFINE of == {m \in Records(i, size) : KeyOf(Token(i, size, m)) = k}
  <2>1. Recovered(i, size)[k] = ValueOf(Token(i, size, Max(of)))
    BY <1>4, RecoveredValue
  <2>2. of = {at[k]}
    <3> HIDE DEF Got
    <3> QED  BY <1>2, <1>3
  <2>3. at[k] \in Int
    BY LineFacts
  <2>4. Max(of) = at[k]
    BY <2>2, <2>3, MaxOfOne
  <2> QED  BY <2>1, <2>4
<1>6. ASSUME NEW k \in Got
      PROVE  /\ IsPrefixOf(Recovered(i, size)[k], w[k])
             /\ at[k] + LineLen(w, k) - 2 <= Len(i) => Recovered(i, size)[k] = w[k]
  BY <1>5, RecordOfLine
<1> QED  BY <1>0, <1>4, <1>6

LEMMA RecoveredTorn ==
    ASSUME NEW i \in Text, NEW w, Full(w), Begun(i, w), NEW size \in Nat \ {0}, Len(i) <= size
    PROVE  IsTornCopy(Recovered(i, size), w)
<1>1. PICK D \in SUBSET DOMAIN w : \E at \in [D -> Nat \ {0}] : Layout(i, w, D, at)
  BY DEF Begun
<1>2. PICK at \in [D -> Nat \ {0}] : Layout(i, w, D, at)
  BY <1>1
<1> DEFINE r == Recovered(i, size)
<1>3. /\ DOMAIN r = Reached(i, D, at)
      /\ \A k \in DOMAIN r : /\ IsPrefixOf(r[k], w[k])
                             /\ at[k] + LineLen(w, k) - 2 <= Len(i) => r[k] = w[k]
  BY <1>2, RecoveredFromLayout
<1> HIDE DEF r
<1>4. ASSUME NEW k \in DOMAIN r, NEW l \in DOMAIN w, StrLess(l, k)
      PROVE  l \in DOMAIN r /\ r[l] = w[l]
  <2>1. k \in D /\ l \in D /\ at[k] + Len(k) <= Len(i)
    BY <1>2, <1>3, <1>4 DEF Layout, Reached
  <2>2. at[l] + LineLen(w, l) <= at[k]
    BY <1>2, <1>4, <2>1 DEF Layout
  <2>3. /\ at[k] \in Nat /\ at[l] \in Nat /\ Len(k) \in Nat /\ Len(i) \in Nat
        /\ Len(l) \in Nat /\ Len(w[l]) \in Nat /\ LineLen(w, l) = Len(l) + Len(w[l]) + 2
    BY <1>2, <2>1, LineFacts
  <2>4. at[l] + Len(l) <= Len(i) /\ at[l] + LineLen(w, l) - 2 <= Len(i)
    BY <2>1, <2>2, <2>3
  <2> QED  BY <1>3, <2>1, <2>4 DEF Reached
<1>5. IsTornCopy(r, w)
  <2>1. \A k \in DOMAIN r : k \in DOMAIN w
    BY <1>2, <1>3 DEF Reached
  <2> QED  BY <1>3, <1>4, <2>1 DEF IsTornCopy
<1> QED  BY <1>5 DEF r

LEMMA RecoveredWhole ==
    ASSUME NEW i \in Text, NEW w, Full(w), Whole(i, w, DOMAIN w),
           NEW size \in Nat \ {0}, Len(i) <= size
    PROVE  Recovered(i, size) = w
<1> DEFINE D == DOMAIN w
           r == Recovered(i, size)
<1>1. PICK at \in [D -> Nat \ {0}] : Layout(i, w, D, at) /\ Complete(i, w, D, at)
  BY DEF Whole
<1>2. /\ DOMAIN r = Reached(i, D, at)
      /\ \A k \in DOMAIN r : at[k] + LineLen(w, k) - 2 <= Len(i) => r[k] = w[k]
  BY <1>1, RecoveredFromLayout
<1>3. \A k \in D : at[k] + Len(k) <= Len(i) /\ at[k] + LineLen(w, k) - 2 <= Len(i)
  <2> TAKE k \in D
  <2>1. /\ at[k] \in Nat /\ Len(k) \in Nat /\ Len(i) \in Nat /\ Len(w[k]) \in Nat
        /\ LineLen(w, k) = Len(k) + Len(w[k]) + 2
    BY <1>1, LineFacts
  <2>2. at[k] + LineLen(w, k) - 1 <= Len(i)
    BY <1>1 DEF Complete
  <2> QED  BY <2>1, <2>2
<1>4. r = [k \in DOMAIN r |-> r[k]]
  BY DEF Recovered
<1> HIDE DEF r
<1>5. DOMAIN r = D /\ \A k \in D : r[k] = w[k]
  BY <1>2, <1>3 DEF Reached
<1>6. w = [k \in D |-> w[k]]
  BY DEF Full
<1>7. r = [k \in D |-> w[k]]
  BY <1>4, <1>5
<1> QED  BY <1>6, <1>7 DEF r

--------------------------------------------------------------------------------
(* How the image grows and what may be left of it *)

LEMMA WholeIsBegun ==
    ASSUME NEW i, NEW w, NEW D \in SUBSET DOMAIN w, Whole(i, w, D)
    PROVE  Begun(i, w)
  BY DEF Whole, Begun

\* Any prefix of such an image is one.
LEMMA PrefixBegun ==
    ASSUME NEW i \in Text, NEW w, Begun(i, w), NEW n \in 0..Len(i)
    PROVE  SubSeq(i, 1, n) \in Text /\ Begun(SubSeq(i, 1, n), w)
<1> DEFINE j == SubSeq(i, 1, n)
<1>1. PICK D \in SUBSET DOMAIN w : \E at \in [D -> Nat \ {0}] : Layout(i, w, D, at)
  BY DEF Begun
<1>2. PICK at \in [D -> Nat \ {0}] : Layout(i, w, D, at)
  BY <1>1
<1>3. n \in Nat /\ n <= Len(i) /\ Len(i) \in Nat
  BY TextType
<1>4. j \in Text /\ Len(j) = n /\ \A p \in 1..n : j[p] = i[p]
  <2>1. /\ j \in Text /\ Len(j) = n - 1 + 1
        /\ \A p \in 1..(n - 1 + 1) : j[p] = i[1 + p - 1]
    BY <1>3, SubText
  <2>2. n - 1 + 1 = n /\ \A p \in 1..n : 1 + p - 1 = p
    BY <1>3
  <2> HIDE DEF j
  <2> QED  BY <2>1, <2>2
<1> HIDE DEF j
<1>5. /\ D \subseteq DOMAIN w /\ at \in [D -> Nat \ {0}]
      /\ \A k \in D : \A l \in DOMAIN w : StrLess(l, k) => l \in D
      /\ \A k \in D : \A l \in D : StrLess(k, l) => at[k] + LineLen(w, k) <= at[l]
  BY <1>2 DEF Layout
<1>6. ASSUME NEW k \in D, NEW p \in 1..LineLen(w, k), at[k] + p - 1 <= Len(j)
      PROVE  j[at[k] + p - 1] = Line(k, w[k])[p]
  <2>1. at[k] \in Nat /\ 1 <= at[k] /\ p \in Int /\ 1 <= p
    BY <1>5
  <2>2. at[k] + p - 1 \in 1..n /\ at[k] + p - 1 <= Len(i)
    BY <1>3, <1>4, <1>6, <2>1
  <2>3. i[at[k] + p - 1] = Line(k, w[k])[p]
    BY <1>2, <2>2 DEF Layout
  <2> QED  BY <1>4, <2>2, <2>3
<1>7. \A m \in 1..Len(j) : \E k \in D : at[k] <= m /\ m < at[k] + LineLen(w, k)
  <2> TAKE m \in 1..Len(j)
  <2>1. m \in 1..Len(i)
    BY <1>3, <1>4
  <2> QED  BY <1>2, <2>1 DEF Layout
<1>8. Layout(j, w, D, at)
  BY <1>5, <1>6, <1>7 DEF Layout
<1>9. Begun(j, w)
  BY <1>5, <1>8 DEF Begun
<1> QED  BY <1>4, <1>9 DEF j

LEMMA NothingWritten ==
    ASSUME NEW w
    PROVE  <<>> \in Text /\ Whole(<<>>, w, {})
<1> DEFINE at == [k \in {} |-> 1]
<1>1. <<>> \in Text /\ Len(<<>>) = 0
  BY EmptySeq DEF Text
<1>2. at \in [{} -> Nat \ {0}]
  OBVIOUS
<1>3. Layout(<<>>, w, {}, at) /\ Complete(<<>>, w, {}, at)
  BY <1>1, <1>2 DEF Layout, Complete
<1> HIDE DEF at
<1> QED  BY <1>1, <1>2, <1>3 DEF Whole

\* The line of the next key, or the beginning of it, continues the image.
LEMMA LineAppended ==
    ASSUME NEW i \in Text, NEW w, Full(w), NEW D \in SUBSET DOMAIN w, Whole(i, w, D),
           NEW k \in DOMAIN w, k \notin D,
           \A l \in DOMAIN w : StrLess(l, k) <=> l \in D,
           NEW n \in 0..LineLen(w, k)
    PROVE  LET part == SubSeq(Line(k, w[k]), 1, n)
           IN  /\ part \in Text /\ i \o part \in Text /\ Begun(i \o part, w)
               /\ n = LineLen(w, k) =>
                    part = Line(k, w[k]) /\ Whole(i \o part, w, D \cup {k})
<1> DEFINE line == Line(k, w[k])
           part == SubSeq(line, 1, n)
           j == i \o part
           E == D \cup {k}
<1>1. PICK at \in [D -> Nat \ {0}] : Layout(i, w, D, at) /\ Complete(i, w, D, at)
  BY DEF Whole
<1> DEFINE af == [l \in E |-> IF l = k THEN Len(i) + 1 ELSE at[l]]
<1>2. Name(k) /\ Unbroken(w[k]) /\ k \in Text /\ Len(k) \in Nat /\ Len(w[k]) \in Nat /\ Len(i) \in Nat
  BY TextType DEF Full, Name, Unbroken
<1>3. line \in Text /\ Len(line) = LineLen(w, k) /\ LineLen(w, k) \in Nat
  BY <1>2, LineIs DEF LineLen
<1> HIDE DEF line
<1>4. part \in Text /\ Len(part) = n /\ n \in Nat /\ \A p \in 1..n : part[p] = line[p]
  <2>1. n \in Nat /\ n <= Len(line) /\ n - 1 + 1 = n /\ \A p \in 1..n : 1 + p - 1 = p
    BY <1>3
  <2>2. /\ part \in Text /\ Len(part) = n - 1 + 1
        /\ \A p \in 1..(n - 1 + 1) : part[p] = line[1 + p - 1]
    BY <1>3, <2>1, SubText
  <2> HIDE DEF part
  <2> QED  BY <2>1, <2>2
<1>5. n = LineLen(w, k) => part = line
  BY <1>3, SubSeqFull DEF Text
<1> HIDE DEF part
<1>6. /\ j \in Text /\ Len(j) = Len(i) + n
      /\ \A p \in 1..Len(i) : j[p] = i[p]
      /\ \A p \in 1..n : j[Len(i) + p] = line[p]
  <2>1. /\ j \in Text /\ Len(j) = Len(i) + Len(part)
        /\ \A p \in 1..(Len(i) + Len(part)) : j[p] = IF p <= Len(i) THEN i[p] ELSE part[p - Len(i)]
    BY <1>4, ConcatText
  <2> HIDE DEF j
  <2>2. \A p \in 1..Len(i) : j[p] = i[p]
    BY <1>2, <1>4, <2>1
  <2>3. ASSUME NEW p \in 1..n PROVE j[Len(i) + p] = line[p]
    <3>1. Len(i) + p \in 1..(Len(i) + Len(part)) /\ ~(Len(i) + p <= Len(i)) /\ Len(i) + p - Len(i) = p
      BY <1>2, <1>4
    <3> QED  BY <1>4, <2>1, <3>1
  <2> QED  BY <1>4, <2>1, <2>2, <2>3
<1> HIDE DEF j
<1>7. /\ af \in [E -> Nat \ {0}] /\ af[k] = Len(i) + 1
      /\ \A l \in D : af[l] = at[l] /\ l # k
  BY <1>2
<1> HIDE DEF af
<1>8. ASSUME NEW l \in D
      PROVE  /\ at[l] \in Nat /\ 1 <= at[l] /\ LineLen(w, l) \in Nat
             /\ at[l] + LineLen(w, l) - 1 <= Len(i)
  BY <1>1, LineFacts DEF Complete
<1>9. ASSUME NEW l \in E, NEW p \in 1..LineLen(w, l), af[l] + p - 1 <= Len(j)
      PROVE  j[af[l] + p - 1] = Line(l, w[l])[p]
  <2>1. CASE l \in D
    <3>1. at[l] + p - 1 \in 1..Len(i)
      BY <1>2, <1>8, <2>1
    <3>2. i[at[l] + p - 1] = Line(l, w[l])[p]
      BY <1>1, <2>1, <3>1 DEF Layout
    <3> QED  BY <1>6, <1>7, <2>1, <3>1, <3>2
  <2>2. CASE l = k
    <3>1. Len(i) + 1 + p - 1 = Len(i) + p /\ p \in 1..n
      BY <1>2, <1>3, <1>4, <1>6, <1>7, <1>9, <2>2
    <3> QED  BY <1>6, <1>7, <2>2, <3>1 DEF line
  <2> QED  BY <2>1, <2>2
<1>10. ASSUME NEW m \in 1..Len(j)
       PROVE  \E l \in E : af[l] <= m /\ m < af[l] + LineLen(w, l)
  <2>1. CASE m <= Len(i)
    <3>1. m \in 1..Len(i)
      BY <1>2, <1>4, <1>6, <2>1
    <3>2. PICK l \in D : at[l] <= m /\ m < at[l] + LineLen(w, l)
      BY <1>1, <3>1 DEF Layout
    <3> QED  BY <1>7, <3>2
  <2>2. CASE m > Len(i)
    <3>1. af[k] <= m /\ m < af[k] + LineLen(w, k)
      BY <1>2, <1>3, <1>4, <1>6, <1>7, <2>2
    <3> QED  BY <3>1
  <2> QED  BY <1>2, <1>4, <1>6, <2>1, <2>2
<1>11. ASSUME NEW l \in E, NEW q \in E, StrLess(l, q)
       PROVE  af[l] + LineLen(w, l) <= af[q]
  <2>1. l \in Text /\ q \in Text
    BY DEF Full, Name, Unbroken
  <2>2. ~StrLess(q, l)
    BY <1>11, <2>1, StrLessAsymmetric
  <2>3. l # k
    <3> SUFFICES ASSUME l = k PROVE FALSE
      OBVIOUS
    <3>1. q \notin D
      BY <2>2
    <3> QED  BY <1>11, <2>2, <3>1
  <2>4. l \in D
    BY <2>3
  <2>5. CASE q = k
    BY <1>2, <1>7, <1>8, <2>4, <2>5
  <2>6. CASE q \in D
    BY <1>1, <1>7, <1>11, <2>4, <2>6 DEF Layout
  <2> QED  BY <2>5, <2>6
<1>12. \A l \in E : \A q \in DOMAIN w : StrLess(q, l) => q \in E
  BY <1>1 DEF Layout
<1>13. Layout(j, w, E, af)
  BY <1>7, <1>9, <1>10, <1>11, <1>12 DEF Layout
<1>14. Begun(j, w)
  BY <1>7, <1>13 DEF Begun
<1>15. ASSUME n = LineLen(w, k)
       PROVE  Whole(j, w, E)
  <2>1. ASSUME NEW l \in E PROVE af[l] + LineLen(w, l) - 1 <= Len(j)
    <3>1. CASE l \in D
      BY <1>2, <1>4, <1>6, <1>7, <1>8, <3>1
    <3>2. CASE l = k
      BY <1>2, <1>4, <1>6, <1>7, <1>15, <3>2
    <3> QED  BY <3>1, <3>2
  <2> QED  BY <1>7, <1>13, <2>1 DEF Whole, Complete
<1> QED  BY <1>4, <1>5, <1>6, <1>14, <1>15 DEF j, part, line

--------------------------------------------------------------------------------
(* The operations on stores *)

LEMMA StringsOfTrace ==
    /\ \A k \in Key : Name(k)
    /\ \A v \in Value : Unbroken(v)
<1>1. ASSUME NEW S \in SUBSET Byte, NEW s \in Seq(S)
      PROVE  s \in Text /\ \A i \in 1..Len(s) : s[i] \in S
  <2>1. s \in Text
    BY SeqMonotonic DEF Text
  <2> QED  BY <2>1, ElementOfSeq
<1>2. ASSUME NEW k \in Key PROVE Name(k)
  <2> DEFINE S == (1..255) \ {Comma, Newline, 13}
  <2>1. S \in SUBSET Byte
    <3>1. \A b \in 1..255 : b \in 0..255
      OBVIOUS
    <3> QED  BY <3>1 DEF Byte
  <2>2. k \in Seq(S)
    BY StringAssumption
  <2>3. k \in Text /\ \A i \in 1..Len(k) : k[i] \in S
    BY <1>1, <2>1, <2>2
  <2>4. \A i \in 1..Len(k) : k[i] # Comma /\ k[i] # Newline
    BY <2>3
  <2> HIDE DEF S
  <2> QED  BY <2>3, <2>4 DEF Name, Unbroken
<1>3. ASSUME NEW v \in Value PROVE Unbroken(v)
  <2> DEFINE S == (1..255) \ {Newline, 13}
  <2>1. S \in SUBSET Byte
    <3>1. \A b \in 1..255 : b \in 0..255
      OBVIOUS
    <3> QED  BY <3>1 DEF Byte
  <2>2. v \in Seq(S)
    BY StringAssumption
  <2>3. v \in Text /\ \A i \in 1..Len(v) : v[i] \in S
    BY <1>1, <2>1, <2>2
  <2>4. \A i \in 1..Len(v) : v[i] # Newline
    BY <2>3
  <2> HIDE DEF S
  <2> QED  BY <2>3, <2>4 DEF Unbroken
<1> QED  BY <1>2, <1>3

LEMMA EmptyPairs == Pairs(EmptyStore) /\ Full(EmptyStore) /\ DOMAIN EmptyStore = {}
<1>1. DOMAIN EmptyStore = {} /\ EmptyStore = [k \in DOMAIN EmptyStore |-> EmptyStore[k]]
  BY DEF EmptyStore
<1>2. IsFiniteSet({})
  BY FS_EmptySet
<1> QED  BY <1>1, <1>2 DEF Pairs, Full

LEMMA OverlayPairs ==
    ASSUME NEW f, NEW g, Pairs(f), Pairs(g)
    PROVE  /\ Pairs(Overlay(f, g))
           /\ DOMAIN Overlay(f, g) = DOMAIN f \cup DOMAIN g
           /\ \A k \in DOMAIN g : Overlay(f, g)[k] = g[k]
<1>1. IsFiniteSet(DOMAIN f \cup DOMAIN g)
  BY FS_Union DEF Pairs
<1>2. /\ DOMAIN Overlay(f, g) = DOMAIN f \cup DOMAIN g
      /\ \A k \in DOMAIN g : Overlay(f, g)[k] = g[k]
      /\ \A k \in DOMAIN f : k \notin DOMAIN g => Overlay(f, g)[k] = f[k]
  BY DEF Overlay
<1> QED  BY <1>1, <1>2 DEF Pairs

LEMMA LostValuePairs ==
    ASSUME NEW f, Pairs(f), NEW k
    PROVE  /\ Pairs([f EXCEPT ![k] = NoValue]) /\ DOMAIN [f EXCEPT ![k] = NoValue] = DOMAIN f
           /\ \A l \in DOMAIN f : [f EXCEPT ![k] = NoValue][l] \in {f[l], NoValue}
  BY DEF Pairs

LEMMA OnePair ==
    ASSUME NEW k, Name(k), NEW v, v = NoValue \/ Unbroken(v)
    PROVE  Pairs([l \in {k} |-> v]) /\ DOMAIN [l \in {k} |-> v] = {k}
<1>1. IsFiniteSet({k})
  BY FS_Singleton
<1> QED  BY <1>1 DEF Pairs

LEMMA WritableFull ==
    ASSUME NEW s, Pairs(s)
    PROVE  /\ Full(Writable(s))
           /\ DOMAIN Writable(s) = {k \in DOMAIN s : s[k] # NoValue}
           /\ \A k \in DOMAIN Writable(s) : Writable(s)[k] = s[k]
<1>1. /\ DOMAIN Writable(s) = {k \in DOMAIN s : s[k] # NoValue}
      /\ \A k \in DOMAIN Writable(s) : Writable(s)[k] = s[k]
      /\ Writable(s) = [k \in DOMAIN Writable(s) |-> Writable(s)[k]]
  BY DEF Writable
<1>2. IsFiniteSet(DOMAIN Writable(s))
  BY <1>1, FS_Subset DEF Pairs
<1> QED  BY <1>1, <1>2 DEF Full, Pairs

LEMMA StoreTypes ==
    /\ \A s : Pairs(s) => IsStore(s)
    /\ \A s : Full(s) => IsStore(s)
    /\ \A s : IsString(s) <=> s \in Text
  BY DEF Pairs, Full, IsStore, IsString, Name, Unbroken, Text, Byte

--------------------------------------------------------------------------------
(* What the recovery of either program reads *)

IsFile(i) == i = NoFile \/ i \in Text

\* The image fits the buffer of do_custom.c; that of do_baseline.c is as long as the file.
FitsBuffer(i) == "custom" \in Builds => i = NoFile \/ Len(i) <= Chunk

LEMMA FileMapPairs ==
    ASSUME NEW b, NEW i, IsFile(i)
    PROVE  Pairs(FileMap(b, i))
  BY EmptyPairs, RecoveredType DEF FileMap, IsFile

LEMMA BufferSize ==
    ASSUME NEW b \in Builds, NEW i \in Text, i # NoFile, FitsBuffer(i)
    PROVE  Buffer(b, i) \in Nat \ {0} /\ Len(i) <= Buffer(b, i)
<1>1. Len(i) \in Nat
  BY TextType
<1>2. CASE b = "baseline"
  BY <1>1, <1>2 DEF Buffer
<1>3. CASE b # "baseline"
  BY <1>1, <1>3, BuildsAssumption, ChunkAssumption DEF Buffer, FitsBuffer
<1> QED  BY <1>2, <1>3

LEMMA FileMapTorn ==
    ASSUME NEW b \in Builds, NEW i, IsFile(i), FitsBuffer(i),
           NEW w, Full(w), i # NoFile => Begun(i, w)
    PROVE  IsTornCopy(FileMap(b, i), w)
<1>1. CASE i = NoFile
  BY <1>1, EmptyPairs DEF FileMap, IsTornCopy
<1>2. CASE i # NoFile
  BY <1>2, BufferSize, RecoveredTorn DEF FileMap, IsFile
<1> QED  BY <1>1, <1>2

LEMMA FileMapWhole ==
    ASSUME NEW b \in Builds, NEW i \in Text, i # NoFile, FitsBuffer(i),
           NEW w, Full(w), Whole(i, w, DOMAIN w)
    PROVE  FileMap(b, i) = w
  BY BufferSize, RecoveredWhole DEF FileMap

--------------------------------------------------------------------------------
(* The steps *)

LEMMA FaultCounted ==
    ASSUME TypeOK, NEW f, Happens(f)
    PROVE  f \in Fault /\ faults' \in 0..MaxFaults /\ faults' > 0
  BY FaultAssumption DEF TypeOK, Happens

LEMMA TypesOfFiles ==
    ASSUME TypeOK
    PROVE  IsFile(img) /\ IsFile(disk)
  BY StoreTypes DEF TypeOK, IsFile

\* What TypeOK says of the next state, but for what a step does to the files.
ProgressType ==
    /\ pc' \in {"off", "opened", "work", "snap", "saved", "reopened", "verified"}
    /\ build' \in Builds \cup {None} /\ loaded' \in BOOLEAN
    /\ rest' \subseteq DOMAIN store' /\ faults' \in 0..MaxFaults

LEMMA NextTypeOK ==
    ASSUME ProgressType, Pairs(store'), Full(written'), Full(synced'),
           promised' = None \/ Full(promised'), IsFile(img'), IsFile(disk'),
           dirty' \in BOOLEAN, holed' \subseteq {"img", "disk"}
    PROVE  TypeOK'
  BY StoreTypes DEF TypeOK, ProgressType, IsFile

\* A step that leaves the file alone, and does not go on with the snapshot.
LEMMA FilesSame ==
    ASSUME IInv, UNCHANGED <<fileVars, ghostVars>>, pc' # "snap",
           ProgressType, Pairs(store'), pc' # "off" => build' \in Builds
    PROVE  TypeOK' /\ StoreInv' /\ FileInv' /\ SnapInv' /\ PromiseInv'
<1>1. UNCHANGED <<img, disk, dirty, written, synced, promised, holed>>
  BY DEF fileVars, ghostVars
<1>2. TypeOK'
  <2>1. promised = None \/ Full(promised)
    BY DEF IInv, PromiseInv, StoreInv
  <2>2. dirty \in BOOLEAN /\ holed \subseteq {"img", "disk"} /\ IsFile(img) /\ IsFile(disk)
    BY TypesOfFiles DEF IInv, TypeOK
  <2> QED  BY <1>1, <2>1, <2>2, NextTypeOK DEF IInv, StoreInv
<1>3. StoreInv'
  BY <1>1 DEF IInv, StoreInv
<1>4. FileInv'
  BY <1>1 DEF IInv, FileInv
<1>5. SnapInv'
  BY DEF SnapInv
<1>6. PromiseInv'
  BY <1>1 DEF IInv, PromiseInv
<1> QED  BY <1>2, <1>3, <1>4, <1>5, <1>6

LEMMA EndsType ==
    ASSUME Ends, faults' \in 0..MaxFaults
    PROVE  /\ pc' = "off" /\ loaded' = FALSE /\ ProgressType /\ Pairs(store')
           /\ LoadInv' /\ SnapInv' /\ RestInv'
  BY EmptyPairs DEF Ends, ProgressType, LoadInv, SnapInv, RestInv

LEMMA EndsQuietly ==
    ASSUME IInv, Ends, UNCHANGED <<fileVars, ghostVars>>, faults' \in 0..MaxFaults
    PROVE  IInv'
<1>1. /\ pc' = "off" /\ loaded' = FALSE /\ ProgressType /\ Pairs(store')
      /\ LoadInv' /\ SnapInv' /\ RestInv'
  BY EndsType
<1>2. TypeOK' /\ StoreInv' /\ FileInv' /\ PromiseInv'
  BY <1>1, FilesSame
<1> QED  BY <1>1, <1>2 DEF IInv

\* do_recovery that reads the whole file puts its pairs, but for a value a failed strdup loses.
LEMMA RecoverySucceedsType ==
    ASSUME IInv, NEW b, NEW s, Pairs(s), RecoverySucceeds(b, s)
    PROVE  /\ Pairs(store') /\ faults' \in 0..MaxFaults
           /\ DOMAIN store' = DOMAIN s \cup DOMAIN FileMap(b, img)
           /\ \A k \in DOMAIN FileMap(b, img) :
                store'[k] # FileMap(b, img)[k] =>
                    store'[k] = NoValue /\ "oom" \in Fault /\ faults' > 0
<1> DEFINE f == FileMap(b, img)
           t == Overlay(s, f)
<1>1. Pairs(f)
  BY TypesOfFiles, FileMapPairs DEF IInv
<1> HIDE DEF f
<1>2. Pairs(t) /\ DOMAIN t = DOMAIN s \cup DOMAIN f /\ \A k \in DOMAIN f : t[k] = f[k]
  BY <1>1, OverlayPairs
<1>3. faults \in 0..MaxFaults
  BY DEF IInv, TypeOK
<1> HIDE DEF t
<1>4. CASE store' = t /\ UNCHANGED faults
  BY <1>2, <1>3, <1>4 DEF f
<1>5. CASE Happens("oom") /\ \E k \in DOMAIN f : store' = [t EXCEPT ![k] = NoValue]
  <2>1. PICK k \in DOMAIN f : store' = [t EXCEPT ![k] = NoValue]
    BY <1>5
  <2>2. Pairs(store') /\ DOMAIN store' = DOMAIN t /\ \A l \in DOMAIN t : store'[l] \in {t[l], NoValue}
    BY <1>2, <2>1, LostValuePairs
  <2>3. "oom" \in Fault /\ faults' \in 0..MaxFaults /\ faults' > 0
    BY <1>5, FaultCounted DEF IInv
  <2> QED  BY <1>2, <2>2, <2>3 DEF f
<1> QED  BY <1>4, <1>5 DEF RecoverySucceeds, f, t

LEMMA RecoveryFailsType ==
    ASSUME IInv, NEW b, NEW s, Pairs(s), RecoveryFails(b, s)
    PROVE  Pairs(store') /\ faults' \in 0..MaxFaults
<1>1. CASE img = NoFile /\ store' = s /\ UNCHANGED faults
  BY <1>1 DEF IInv, TypeOK
<1>2. CASE /\ img # NoFile /\ Happens("read")
           /\ \E part \in ReadBeforeError(b) : store' = Overlay(s, FileMap(b, part))
  <2>1. PICK part \in ReadBeforeError(b) : store' = Overlay(s, FileMap(b, part))
    BY <1>2
  <2>2. img \in Text
    BY <1>2, TypesOfFiles DEF IInv, IsFile
  <2>3. part \in Text
    <3>1. CASE b = "baseline"
      BY <2>1, <3>1, NothingWritten DEF ReadBeforeError
    <3>2. CASE b # "baseline"
      <4>1. PICK n \in 0..Len(img) : part = SubSeq(img, 1, n)
        BY <2>1, <3>2 DEF ReadBeforeError
      <4>2. n \in Nat /\ n <= Len(img) /\ 1 <= n + 1 /\ Len(img) \in Nat
        BY <2>2, TextType
      <4> QED  BY <2>2, <4>1, <4>2, SubText
    <3> QED  BY <3>1, <3>2
  <2>4. Pairs(FileMap(b, part))
    BY <2>3, FileMapPairs DEF IsFile
  <2>5. Pairs(store')
    BY <2>1, <2>4, OverlayPairs
  <2> QED  BY <1>2, <2>5, FaultCounted DEF IInv
<1> QED  BY <1>1, <1>2 DEF RecoveryFails

\* What kvs_open leaves: the pairs of the file if it says so.
LEMMA KvsOpenType ==
    ASSUME IInv, NEW b, KvsOpen(b)
    PROVE  /\ Pairs(store') /\ faults' \in 0..MaxFaults /\ loaded' \in BOOLEAN
           /\ loaded' =>
                /\ DOMAIN store' = DOMAIN FileMap(b, img)
                /\ \A k \in DOMAIN store' :
                     store'[k] # FileMap(b, img)[k] =>
                         store'[k] = NoValue /\ "oom" \in Fault /\ faults' > 0
<1>1. Pairs(EmptyStore) /\ DOMAIN EmptyStore = {}
  BY EmptyPairs
<1>2. CASE RecoverySucceeds(b, EmptyStore) /\ loaded' = TRUE
  BY <1>1, <1>2, RecoverySucceedsType
<1>3. CASE RecoveryFails(b, EmptyStore) /\ loaded' = FALSE
  BY <1>1, <1>3, RecoveryFailsType
<1> QED  BY <1>2, <1>3 DEF KvsOpen

LEMMA StartStep == ASSUME IInv, Start PROVE IInv'
<1>1. pc = "off" /\ pc' = "opened" /\ build' \in Builds /\ KvsOpen(build')
      /\ UNCHANGED <<rest, fileVars, ghostVars>>
  BY DEF Start
<1>2. /\ Pairs(store') /\ faults' \in 0..MaxFaults /\ loaded' \in BOOLEAN
      /\ loaded' =>
           /\ DOMAIN store' = DOMAIN FileMap(build', img)
           /\ \A k \in DOMAIN store' :
                store'[k] # FileMap(build', img)[k] =>
                    store'[k] = NoValue /\ "oom" \in Fault /\ faults' > 0
  BY <1>1, KvsOpenType
<1>3. rest' = {} /\ img' = img
  BY <1>1 DEF IInv, RestInv, fileVars
<1>4. ProgressType
  BY <1>1, <1>2, <1>3 DEF ProgressType
<1>5. TypeOK' /\ StoreInv' /\ FileInv' /\ SnapInv' /\ PromiseInv'
  BY <1>1, <1>2, <1>4, FilesSame
<1>6. LoadInv'
  BY <1>1, <1>2, <1>3 DEF LoadInv, FileMap
<1> QED  BY <1>1, <1>3, <1>5, <1>6 DEF IInv, RestInv

LEMMA OpenFilesStep == ASSUME IInv, OpenFiles PROVE IInv'
<1>1. pc = "opened" /\ pc' = "work"
      /\ UNCHANGED <<build, store, loaded, rest, fileVars, ghostVars, faults>>
  BY DEF OpenFiles
<1>2. ProgressType /\ Pairs(store') /\ build' \in Builds
  BY <1>1 DEF IInv, TypeOK, StoreInv, ProgressType
<1>3. TypeOK' /\ StoreInv' /\ FileInv' /\ SnapInv' /\ PromiseInv'
  BY <1>1, <1>2, FilesSame
<1>4. LoadInv'
  BY <1>1 DEF IInv, LoadInv, FileMap, fileVars
<1> QED  BY <1>1, <1>3, <1>4 DEF IInv, RestInv

\* A put of the workload, with its value or without.
LEMMA PutStep ==
    ASSUME IInv, pc = "work", NEW k \in Key, NEW v, v = NoValue \/ Unbroken(v),
           store' = Overlay(store, [l \in {k} |-> v]), faults' \in 0..MaxFaults,
           UNCHANGED <<build, pc, loaded, rest, fileVars, ghostVars>>
    PROVE  IInv'
<1>1. Pairs(store') /\ DOMAIN store \subseteq DOMAIN store'
  <2>1. Pairs([l \in {k} |-> v])
    BY StringsOfTrace, OnePair
  <2> DEFINE g == [l \in {k} |-> v]
  <2> HIDE DEF g
  <2> QED  BY <2>1, OverlayPairs DEF IInv, StoreInv, g
<1>2. ProgressType /\ build' \in Builds
  BY <1>1 DEF IInv, TypeOK, StoreInv, ProgressType
<1>3. TypeOK' /\ StoreInv' /\ FileInv' /\ SnapInv' /\ PromiseInv'
  BY <1>1, <1>2, FilesSame
<1>4. LoadInv'
  BY <1>1 DEF IInv, LoadInv, FileMap, fileVars
<1> QED  BY <1>3, <1>4 DEF IInv, RestInv

LEMMA SetStep == ASSUME IInv, Set PROVE IInv'
<1>1. PICK k \in Key, v \in Value : store' = Overlay(store, [l \in {k} |-> v])
  BY DEF Set
<1>2. Unbroken(v) /\ faults \in 0..MaxFaults
  BY StringsOfTrace DEF IInv, TypeOK
<1> QED  BY <1>1, <1>2, PutStep DEF Set

LEMMA SetOutOfMemoryStep == ASSUME IInv, SetOutOfMemory PROVE IInv'
<1>1. PICK k \in Key : store' = Overlay(store, [l \in {k} |-> NoValue])
  BY DEF SetOutOfMemory
<1>2. faults' \in 0..MaxFaults
  BY FaultCounted DEF IInv, SetOutOfMemory
<1> QED  BY <1>1, <1>2, PutStep DEF SetOutOfMemory

LEMMA SnapOpenStep == ASSUME IInv, SnapOpen PROVE IInv'
<1>1. /\ pc = "work" /\ pc' = "snap" /\ img' = <<>> /\ dirty' = TRUE /\ rest' = DOMAIN store
      /\ written' = Writable(store) /\ promised' = None /\ holed' = holed \ {"img"}
      /\ UNCHANGED <<build, store, loaded, disk, synced, faults>>
  BY DEF SnapOpen
<1>2. Pairs(store) /\ Full(synced) /\ build \in Builds
  BY <1>1 DEF IInv, StoreInv
<1>3. Full(written') /\ DOMAIN written' \subseteq DOMAIN store
  BY <1>1, <1>2, WritableFull
<1>4. <<>> \in Text /\ Whole(<<>>, written', {}) /\ Begun(<<>>, written') /\ <<>> # NoFile
  <2>1. <<>> \in Text /\ Whole(<<>>, written', {})
    BY NothingWritten
  <2> QED  BY <2>1, WholeIsBegun, NoFileAssumption DEF Text, Byte
<1>5. TypeOK'
  <2>1. ProgressType
    BY <1>1 DEF IInv, TypeOK, ProgressType
  <2>2. IsFile(img') /\ IsFile(disk') /\ dirty' \in BOOLEAN /\ holed' \subseteq {"img", "disk"}
    BY <1>1, <1>4, TypesOfFiles DEF IInv, TypeOK, IsFile
  <2> QED  BY <1>1, <1>2, <1>3, <2>1, <2>2, NextTypeOK
<1>6. StoreInv'
  BY <1>1, <1>2, <1>3 DEF StoreInv
<1>7. FileInv'
  BY <1>1, <1>4 DEF IInv, FileInv
<1>8. SnapInv'
  <2>1. DOMAIN written' \ rest' = {}
    BY <1>1, <1>3
  <2> QED  BY <1>1, <1>4, <2>1 DEF SnapInv, Writable
<1>9. PromiseInv' /\ LoadInv' /\ RestInv'
  BY <1>1 DEF PromiseInv, LoadInv, RestInv
<1> QED  BY <1>5, <1>6, <1>7, <1>8, <1>9 DEF IInv

\* The iterator is at the first of the keys it has not reached.
LEMMA NextKeyIs ==
    ASSUME IInv, rest # {}
    PROVE  /\ NextKey \in rest /\ NextKey \in DOMAIN store /\ NextKey \in Text
           /\ \A l \in rest \ {NextKey} : l \in Text /\ StrLess(NextKey, l)
<1>1. rest \in SUBSET Text /\ IsFiniteSet(rest) /\ rest \subseteq DOMAIN store
  BY FS_Subset DEF IInv, TypeOK, StoreInv, Pairs, Name, Unbroken
<1>2. \E k \in rest : \A l \in rest \ {k} : StrLess(k, l)
  BY <1>1, FirstKey
<1>3. NextKey \in rest /\ \A l \in rest \ {NextKey} : StrLess(NextKey, l)
  BY <1>2 DEF NextKey
<1> QED  BY <1>1, <1>3

\* The line do_snapshot writes next is the one that is due.
LEMMA NextLine ==
    ASSUME IInv, pc = "snap", rest # {}, store[NextKey] # NoValue
    PROVE  LET k == NextKey
               D == DOMAIN written \ rest
           IN  /\ k \in DOMAIN written /\ k \notin D /\ written[k] = store[k] /\ Name(k) /\ Unbroken(written[k])
               /\ \A l \in DOMAIN written : StrLess(l, k) <=> l \in D
<1> DEFINE k == NextKey
<1>1. /\ k \in rest /\ k \in DOMAIN store /\ k \in Text
      /\ \A l \in rest \ {k} : l \in Text /\ StrLess(k, l)
  BY NextKeyIs
<1> HIDE DEF k
<1>2. /\ DOMAIN written = {l \in DOMAIN store : store[l] # NoValue}
      /\ \A l \in DOMAIN written : written[l] = store[l]
  BY WritableFull DEF IInv, StoreInv, SnapInv
<1>3. k \in DOMAIN written /\ written[k] = store[k] /\ Name(k) /\ Unbroken(written[k])
  BY <1>1, <1>2 DEF IInv, StoreInv, Full, k
<1>4. \A l \in DOMAIN store \ rest : StrLess(l, k)
  BY <1>1 DEF IInv, SnapInv
<1>5. ASSUME NEW l \in DOMAIN written, StrLess(l, k)
      PROVE  l \notin rest
  <2> SUFFICES ASSUME l \in rest PROVE FALSE
    OBVIOUS
  <2>1. ~StrLess(k, l)
    BY <1>1, <1>5, StrLessAsymmetric
  <2>2. l = k
    BY <1>1, <2>1
  <2> QED  BY <1>5, <2>1, <2>2
<1> QED  BY <1>1, <1>2, <1>3, <1>4, <1>5 DEF k

\* What there is of the file after n bytes of that line, if it was whole before.
LEMMA NextLineAppended ==
    ASSUME IInv, pc = "snap", rest # {}, store[NextKey] # NoValue,
           NEW n \in 0..Len(Line(NextKey, store[NextKey]))
    PROVE  LET line == Line(NextKey, store[NextKey])
               part == SubSeq(line, 1, n)
           IN  /\ line \in Text /\ part \in Text /\ img \o part \in Text /\ img \o part # NoFile
               /\ n = Len(line) => part = line
               /\ "img" \notin holed => Begun(img \o part, written)
               /\ "img" \notin holed /\ n = Len(line) =>
                    Whole(img \o part, written, (DOMAIN written \ rest) \cup {NextKey})
<1> DEFINE k == NextKey
           line == Line(k, store[k])
           part == SubSeq(line, 1, n)
           D == DOMAIN written \ rest
<1>1. /\ k \in DOMAIN written /\ k \notin D /\ written[k] = store[k] /\ Name(k) /\ Unbroken(written[k])
      /\ \A l \in DOMAIN written : StrLess(l, k) <=> l \in D
  BY NextLine
<1>2. img \in Text /\ img # NoFile
  BY TypesOfFiles DEF IInv, SnapInv, IsFile
<1>3. line \in Text /\ Len(line) = LineLen(written, k) /\ Len(line) \in Nat
  <2>1. Name(k) /\ Unbroken(store[k]) /\ written[k] = store[k]
    BY <1>1
  <2>2. line \in Text /\ Len(line) = Len(k) + Len(store[k]) + 2
    BY <2>1, LineIs
  <2> HIDE DEF line, k
  <2>3. Len(line) \in Nat
    BY <2>2, TextType
  <2> QED  BY <2>1, <2>2, <2>3 DEF LineLen
<1> HIDE DEF k, line
<1>4. part \in Text /\ (n = Len(line) => part = line)
  <2>1. n \in Nat /\ n <= Len(line) /\ 1 <= n + 1
    BY <1>3 DEF line, k
  <2>2. part \in Text
    BY <1>3, <2>1, SubText
  <2>3. SubSeq(line, 1, Len(line)) = line
    BY <1>3, SubSeqFull DEF Text
  <2> QED  BY <2>2, <2>3
<1>5. img \o part \in Text /\ img \o part # NoFile
  <2>1. img \o part \in Text
    BY <1>2, <1>4, ConcatText
  <2> QED  BY <2>1, NoFileAssumption DEF Text, Byte
<1>6. ASSUME "img" \notin holed
      PROVE  /\ Begun(img \o part, written)
             /\ n = Len(line) => Whole(img \o part, written, D \cup {k})
  <2>1. Whole(img, written, D) /\ Full(written)
    BY <1>6 DEF IInv, SnapInv, StoreInv
  <2>2. n \in 0..LineLen(written, k) /\ line = Line(k, written[k])
    BY <1>1, <1>3 DEF line, k
  <2> HIDE DEF D
  <2>3. D \in SUBSET DOMAIN written
    BY DEF D
  <2> QED  BY <1>1, <1>2, <1>3, <2>1, <2>2, <2>3, LineAppended
<1> QED  BY <1>3, <1>4, <1>5, <1>6 DEF line, k

LEMMA SnapWriteStep == ASSUME IInv, SnapWrite PROVE IInv'
<1> DEFINE k == NextKey
           line == Line(k, store[k])
           D == DOMAIN written \ rest
<1>1. /\ pc = "snap" /\ rest # {} /\ rest' = rest \ {k}
      /\ img' = IF store[k] = NoValue THEN img ELSE img \o line
      /\ UNCHANGED <<build, pc, store, loaded, disk, dirty, written, synced, promised, holed, faults>>
  BY DEF SnapWrite, ghostVars
<1>2. /\ k \in rest /\ k \in DOMAIN store
      /\ \A l \in rest \ {k} : StrLess(k, l)
  BY <1>1, NextKeyIs
<1>3. img \in Text /\ img # NoFile
  BY <1>1, TypesOfFiles DEF IInv, SnapInv, IsFile
<1>4. DOMAIN written = {l \in DOMAIN store : store[l] # NoValue}
  BY <1>1, WritableFull DEF IInv, StoreInv, SnapInv
<1>5. /\ img' \in Text /\ img' # NoFile
      /\ "img" \notin holed => Begun(img', written) /\ Whole(img', written, DOMAIN written \ rest')
  <2>1. CASE store[k] = NoValue
    <3>1. img' = img /\ DOMAIN written \ rest' = D
      BY <1>1, <1>4, <2>1
    <3>2. "img" \notin holed => Begun(img, written) /\ Whole(img, written, D)
      BY <1>1, <1>3 DEF IInv, FileInv, SnapInv
    <3> QED  BY <1>3, <3>1, <3>2
  <2>2. CASE store[k] # NoValue
    <3> DEFINE n == Len(line)
               part == SubSeq(line, 1, n)
    <3>1. n \in 0..n
      <4>1. line \in Text
        BY <1>1, <2>2, NextLine, LineIs
      <4> QED  BY <4>1, TextType
    <3>2. /\ img \o part \in Text /\ img \o part # NoFile /\ part = line
          /\ "img" \notin holed =>
               Begun(img \o part, written) /\ Whole(img \o part, written, D \cup {k})
      BY <1>1, <2>2, <3>1, NextLineAppended
    <3>3. DOMAIN written \ rest' = D \cup {k}
      BY <1>1, <1>2, <1>4, <2>2
    <3>4. img' = img \o line
      BY <1>1, <2>2
    <3> HIDE DEF k, line, part, D
    <3> QED  BY <3>2, <3>3, <3>4
  <2> QED  BY <2>1, <2>2
<1> HIDE DEF k, line
<1>6. TypeOK'
  BY <1>1, <1>2, <1>5, StoreTypes DEF IInv, TypeOK
<1>7. StoreInv'
  BY <1>1 DEF IInv, StoreInv
<1>8. FileInv'
  BY <1>1, <1>5 DEF IInv, FileInv
<1>9. SnapInv'
  <2>1. \A l \in rest' : \A q \in DOMAIN store \ rest' : StrLess(q, l)
    BY <1>1, <1>2 DEF IInv, SnapInv
  <2>2. promised = None /\ written = Writable(store)
    BY <1>1 DEF IInv, SnapInv
  <2> QED  BY <1>1, <1>5, <2>1, <2>2 DEF SnapInv, Writable
<1>10. PromiseInv' /\ LoadInv' /\ RestInv'
  BY <1>1 DEF IInv, SnapInv, PromiseInv, LoadInv, RestInv
<1> QED  BY <1>6, <1>7, <1>8, <1>9, <1>10 DEF IInv

LEMMA SnapWriteShortStep == ASSUME IInv, SnapWriteShort PROVE IInv'
<1> DEFINE line == Line(NextKey, store[NextKey])
<1>1. /\ pc = "snap" /\ rest # {} /\ store[NextKey] # NoValue /\ Happens("full")
      /\ UNCHANGED <<disk, dirty, written, synced, promised>>
  BY DEF SnapWriteShort
<1>2. PICK n \in 0..(Len(line) - 1) : img' = img \o SubSeq(line, 1, n)
  BY DEF SnapWriteShort
<1>3. /\ img' \in Text /\ img' # NoFile
      /\ "img" \notin holed => Begun(img', written)
  <2>1. n \in 0..Len(line)
    <3>1. line \in Text
      BY <1>1, NextLine, LineIs
    <3>2. Len(line) \in Nat
      BY <3>1, TextType
    <3> HIDE DEF line
    <3> QED  BY <3>2
  <2> QED  BY <1>1, <1>2, <2>1, NextLineAppended
<1> HIDE DEF line
<1>4. promised = None /\ build \in Builds /\ faults' \in 0..MaxFaults
  BY <1>1, FaultCounted DEF IInv, SnapInv, StoreInv
<1>5. NextKey \in rest /\ NextKey \in DOMAIN store /\ \A l \in rest \ {NextKey} : StrLess(NextKey, l)
  BY <1>1, NextKeyIs
<1>6. PromiseInv'
  BY <1>1, <1>4 DEF PromiseInv
<1>7. CASE Ends /\ UNCHANGED holed
  <2>1. /\ pc' = "off" /\ loaded' = FALSE /\ ProgressType /\ Pairs(store')
        /\ LoadInv' /\ SnapInv' /\ RestInv'
    BY <1>4, <1>7, EndsType
  <2>2. TypeOK'
    BY <1>1, <1>3, <1>4, <1>7, <2>1, NextTypeOK, TypesOfFiles DEF IInv, TypeOK, StoreInv, IsFile
  <2>3. StoreInv' /\ FileInv'
    BY <1>1, <1>3, <1>7, <2>1 DEF IInv, StoreInv, FileInv
  <2> QED  BY <1>6, <2>1, <2>2, <2>3 DEF IInv
<1>8. CASE /\ rest' = rest \ {NextKey} /\ holed' = holed \cup {"img"}
           /\ UNCHANGED <<build, pc, store, loaded>>
  <2>1. ProgressType
    BY <1>1, <1>4, <1>8 DEF IInv, TypeOK, ProgressType
  <2>2. TypeOK'
    BY <1>1, <1>3, <1>4, <1>8, <2>1, NextTypeOK, TypesOfFiles DEF IInv, TypeOK, StoreInv, IsFile
  <2>3. StoreInv' /\ FileInv'
    BY <1>1, <1>3, <1>8 DEF IInv, StoreInv, FileInv
  <2>4. SnapInv'
    <3>1. \A l \in rest' : \A q \in DOMAIN store \ rest' : StrLess(q, l)
      BY <1>1, <1>5, <1>8 DEF IInv, SnapInv
    <3>2. written = Writable(store)
      BY <1>1 DEF IInv, SnapInv
    <3> QED  BY <1>1, <1>3, <1>4, <1>8, <3>1, <3>2 DEF SnapInv, Writable
  <2>5. LoadInv' /\ RestInv'
    BY <1>1, <1>8 DEF LoadInv, RestInv
  <2> QED  BY <1>6, <2>2, <2>3, <2>4, <2>5 DEF IInv
<1> QED  BY <1>7, <1>8 DEF SnapWriteShort

LEMMA SnapSyncStep == ASSUME IInv, SnapSync PROVE IInv'
<1>1. /\ pc = "snap" /\ rest = {} /\ pc' = "saved" /\ disk' = img /\ dirty' = FALSE
      /\ synced' = written /\ promised' = written /\ holed' = HoledBoth("img")
      /\ UNCHANGED <<build, store, loaded, rest, img, written, faults>>
  BY DEF SnapSync
<1>2. /\ img # NoFile /\ Pairs(store) /\ Full(written) /\ build \in Builds
      /\ "img" \notin holed => Whole(img, written, DOMAIN written) /\ Begun(img, written)
  <2>1. DOMAIN written \ rest = DOMAIN written
    BY <1>1
  <2> QED  BY <1>1, <2>1 DEF IInv, StoreInv, SnapInv, FileInv
<1>3. /\ holed' \subseteq {"img", "disk"}
      /\ "img" \in holed' <=> "img" \in holed
      /\ "disk" \in holed' <=> "img" \in holed
  BY <1>1 DEF HoledBoth
<1>4. TypeOK'
  <2>1. ProgressType
    BY <1>1 DEF IInv, TypeOK, ProgressType
  <2> QED  BY <1>1, <1>2, <1>3, <2>1, NextTypeOK, TypesOfFiles DEF IInv
<1>5. StoreInv' /\ FileInv'
  BY <1>1, <1>2, <1>3 DEF StoreInv, FileInv
<1>6. PromiseInv'
  BY <1>1, <1>2, <1>3 DEF PromiseInv
<1>7. SnapInv' /\ LoadInv' /\ RestInv'
  BY <1>1 DEF SnapInv, LoadInv, RestInv
<1> QED  BY <1>4, <1>5, <1>6, <1>7 DEF IInv

LEMMA ReopenStep == ASSUME IInv, Reopen PROVE IInv'
<1>1. /\ pc = "saved" /\ pc' = "reopened" /\ KvsOpen(build)
      /\ UNCHANGED <<build, rest, fileVars, ghostVars>>
  BY DEF Reopen
<1>2. /\ Pairs(store') /\ faults' \in 0..MaxFaults /\ loaded' \in BOOLEAN
      /\ loaded' =>
           /\ DOMAIN store' = DOMAIN FileMap(build, img)
           /\ \A k \in DOMAIN store' :
                store'[k] # FileMap(build, img)[k] =>
                    store'[k] = NoValue /\ "oom" \in Fault /\ faults' > 0
  BY <1>1, KvsOpenType
<1>3. rest' = {} /\ img' = img /\ build' \in Builds
  BY <1>1 DEF IInv, RestInv, StoreInv, fileVars
<1>4. ProgressType
  BY <1>1, <1>2, <1>3 DEF ProgressType
<1>5. TypeOK' /\ StoreInv' /\ FileInv' /\ SnapInv' /\ PromiseInv'
  BY <1>1, <1>2, <1>3, <1>4, FilesSame
<1>6. LoadInv'
  BY <1>1, <1>2, <1>3 DEF LoadInv, FileMap
<1> QED  BY <1>3, <1>5, <1>6 DEF IInv, RestInv

LEMMA RecoverAgainStep == ASSUME IInv, RecoverAgain PROVE IInv'
<1>1. /\ pc = "reopened" /\ pc' = "verified" /\ RecoverySucceeds(build, store)
      /\ UNCHANGED <<build, loaded, rest, fileVars, ghostVars>>
  BY DEF RecoverAgain
<1>2. /\ Pairs(store') /\ faults' \in 0..MaxFaults
      /\ DOMAIN store' = DOMAIN store \cup DOMAIN FileMap(build, img)
      /\ \A k \in DOMAIN FileMap(build, img) :
           store'[k] # FileMap(build, img)[k] =>
               store'[k] = NoValue /\ "oom" \in Fault /\ faults' > 0
  BY <1>1, RecoverySucceedsType DEF IInv, StoreInv
<1>3. rest' = {} /\ img' = img /\ build' \in Builds /\ loaded' \in BOOLEAN
  BY <1>1 DEF IInv, RestInv, StoreInv, TypeOK, fileVars
<1>4. ProgressType
  BY <1>1, <1>2, <1>3 DEF ProgressType
<1>5. TypeOK' /\ StoreInv' /\ FileInv' /\ SnapInv' /\ PromiseInv'
  BY <1>1, <1>2, <1>3, <1>4, FilesSame
<1>6. LoadInv'
  BY <1>1, <1>2, <1>3 DEF IInv, LoadInv, FileMap
<1> QED  BY <1>3, <1>5, <1>6 DEF IInv, RestInv

LEMMA CrashStep == ASSUME IInv, Crash PROVE IInv'
<1>1. Ends /\ Happens("crash") /\ UNCHANGED <<disk, dirty, written, synced, promised, holed>>
  BY DEF Crash, ghostVars
<1>2. PICK part \in PartialWrites : img' = IF part = <<>> THEN img ELSE img \o part
  BY DEF Crash
<1>3. faults' \in 0..MaxFaults
  BY <1>1, FaultCounted DEF IInv
<1>4. /\ pc' = "off" /\ loaded' = FALSE /\ ProgressType /\ Pairs(store')
      /\ LoadInv' /\ SnapInv' /\ RestInv'
  BY <1>1, <1>3, EndsType
<1>5. CASE img' = img
  <2>1. fileVars' = fileVars /\ ghostVars' = ghostVars
    BY <1>1, <1>5 DEF fileVars, ghostVars
  <2> QED  BY <1>1, <1>3, <2>1, EndsQuietly
<1>6. CASE img' # img
  <2>1. pc = "snap" /\ rest # {} /\ store[NextKey] # NoValue
    BY <1>2, <1>6 DEF PartialWrites
  <2> DEFINE line == Line(NextKey, store[NextKey])
  <2>2. PICK n \in 0..Len(line) : part = SubSeq(line, 1, n)
    BY <1>2, <2>1 DEF PartialWrites
  <2>3. img' = img \o SubSeq(line, 1, n)
    BY <1>2, <1>6, <2>2
  <2>4. img' \in Text /\ img' # NoFile /\ ("img" \notin holed => Begun(img', written))
    BY <2>1, <2>2, <2>3, NextLineAppended
  <2> HIDE DEF line
  <2>5. promised = None
    BY <2>1 DEF IInv, SnapInv
  <2>6. TypeOK'
    BY <1>1, <1>4, <2>4, <2>5, NextTypeOK, TypesOfFiles DEF IInv, TypeOK, StoreInv, IsFile
  <2>7. StoreInv' /\ FileInv' /\ PromiseInv'
    BY <1>1, <1>4, <2>4, <2>5 DEF IInv, StoreInv, FileInv, PromiseInv
  <2> QED  BY <1>4, <2>6, <2>7 DEF IInv
<1> QED  BY <1>5, <1>6

LEMMA PowerFailStep == ASSUME IInv, PowerFail PROVE IInv'
<1>1. /\ Ends /\ Happens("power") /\ dirty' = FALSE /\ disk' = img' /\ synced' = written'
      /\ promised' = promised
  BY DEF PowerFail
<1>2. faults' \in 0..MaxFaults
  BY <1>1, FaultCounted DEF IInv
<1>3. /\ pc' = "off" /\ loaded' = FALSE /\ ProgressType /\ Pairs(store')
      /\ LoadInv' /\ SnapInv' /\ RestInv'
  BY <1>1, <1>2, EndsType
<1>4. IsFile(img) /\ IsFile(disk) /\ Full(written) /\ Full(synced)
  BY TypesOfFiles DEF IInv, StoreInv
<1>5. promised' = None \/ Full(promised')
  BY <1>1 DEF IInv, PromiseInv, StoreInv
<1>6. CASE img' = disk /\ written' = synced /\ holed' = HoledBoth("disk")
  <2>1. /\ holed' \subseteq {"img", "disk"}
        /\ "img" \in holed' <=> "disk" \in holed
        /\ "disk" \in holed' <=> "disk" \in holed
    BY <1>6 DEF HoledBoth
  <2>2. TypeOK'
    BY <1>1, <1>3, <1>4, <1>5, <1>6, <2>1, NextTypeOK
  <2>3. StoreInv' /\ FileInv'
    BY <1>1, <1>3, <1>4, <1>6, <2>1 DEF IInv, StoreInv, FileInv
  <2>4. PromiseInv'
    BY <1>1, <1>3, <1>6, <2>1 DEF IInv, PromiseInv
  <2> QED  BY <1>3, <2>2, <2>3, <2>4 DEF IInv
<1>7. CASE /\ dirty /\ \E n \in 0..Len(img) : img' = SubSeq(img, 1, n)
           /\ written' = written /\ holed' = HoledBoth("img")
  <2>1. promised = None /\ img # NoFile /\ img \in Text
    <3>1. promised = None
      BY <1>7 DEF IInv, PromiseInv
    <3>2. img # NoFile
      BY <1>7 DEF IInv, FileInv
    <3> QED  BY <1>4, <3>1, <3>2 DEF IsFile
  <2>2. PICK n \in 0..Len(img) : img' = SubSeq(img, 1, n)
    BY <1>7
  <2>3. img' \in Text
    <3>1. Len(img) \in Nat
      BY <2>1, TextType
    <3>2. n \in Nat /\ n <= Len(img) /\ 1 <= n + 1
      BY <3>1
    <3>3. SubSeq(img, 1, n) \in Text
      BY <2>1, <3>2, SubText
    <3> QED  BY <2>2, <3>3
  <2>4. "img" \notin holed => Begun(img', written)
    <3>1. "img" \notin holed => Begun(img, written)
      BY <2>1 DEF IInv, FileInv
    <3> QED  BY <2>1, <2>2, <3>1, PrefixBegun
  <2>5. /\ holed' \subseteq {"img", "disk"}
        /\ "img" \in holed' <=> "img" \in holed
        /\ "disk" \in holed' <=> "img" \in holed
    BY <1>7 DEF HoledBoth
  <2>6. TypeOK'
    BY <1>1, <1>3, <1>4, <1>5, <1>7, <2>3, <2>5, NextTypeOK DEF IsFile
  <2>7. StoreInv' /\ FileInv' /\ PromiseInv'
    BY <1>1, <1>3, <1>4, <1>7, <2>1, <2>4, <2>5 DEF StoreInv, FileInv, PromiseInv
  <2> QED  BY <1>3, <2>6, <2>7 DEF IInv
<1> QED  BY <1>6, <1>7 DEF PowerFail

--------------------------------------------------------------------------------
(* The invariant *)

LEMMA InitIInv == Init => IInv
<1> SUFFICES ASSUME Init PROVE IInv
  OBVIOUS
<1>1. /\ build = None /\ pc = "off" /\ store = EmptyStore /\ loaded = FALSE /\ rest = {}
      /\ img = NoFile /\ disk = NoFile /\ dirty = FALSE
      /\ written = EmptyStore /\ synced = EmptyStore /\ promised = None
      /\ holed = {} /\ faults = 0
  BY DEF Init
<1>2. Pairs(EmptyStore) /\ Full(EmptyStore) /\ DOMAIN EmptyStore = {} /\ 0 \in 0..MaxFaults
  BY EmptyPairs, FaultAssumption
<1>3. TypeOK
  BY <1>1, <1>2, StoreTypes DEF TypeOK
<1>4. StoreInv
  BY <1>1, <1>2 DEF StoreInv
<1>5. FileInv /\ SnapInv /\ PromiseInv
  BY <1>1 DEF FileInv, SnapInv, PromiseInv
<1>6. LoadInv /\ RestInv
  BY <1>1 DEF LoadInv, RestInv
<1> QED  BY <1>3, <1>4, <1>5, <1>6 DEF IInv

\* The program ends early, or at its end: FilesMissing, SnapOpenFails, SnapSyncFails,
\* ReopenFails, RecoverAgainFails and Exit.
LEMMA EarlyEnd ==
    ASSUME IInv, Ends, UNCHANGED <<fileVars, ghostVars>>,
           UNCHANGED faults \/ \E f \in FaultKinds : Happens(f)
    PROVE  IInv'
<1>1. CASE UNCHANGED faults
  <2>1. faults' \in 0..MaxFaults
    BY <1>1 DEF IInv, TypeOK
  <2> QED  BY <2>1, EndsQuietly
<1>2. CASE \E f \in FaultKinds : Happens(f)
  BY <1>2, FaultCounted, EndsQuietly DEF IInv
<1> QED  BY <1>1, <1>2

LEMMA StutterStep == ASSUME IInv, UNCHANGED vars PROVE IInv'
<1>1. UNCHANGED <<build, pc, store, loaded, rest, img, disk, dirty, written, synced,
                  promised, holed, faults>>
  BY DEF vars, fileVars, ghostVars
<1>2. TypeOK' /\ StoreInv' /\ FileInv' /\ RestInv'
  BY <1>1 DEF IInv, TypeOK, StoreInv, FileInv, RestInv
<1>3. SnapInv' /\ PromiseInv'
  BY <1>1 DEF IInv, SnapInv, PromiseInv, Writable
<1>4. LoadInv'
  BY <1>1 DEF IInv, LoadInv, FileMap
<1> QED  BY <1>2, <1>3, <1>4 DEF IInv

LEMMA NextIInv == IInv /\ [Next]_vars => IInv'
<1> SUFFICES ASSUME IInv, [Next]_vars PROVE IInv'
  OBVIOUS
<1>1. CASE Start
  BY <1>1, StartStep
<1>2. CASE OpenFiles
  BY <1>2, OpenFilesStep
<1>3. CASE Set
  BY <1>3, SetStep
<1>4. CASE SetOutOfMemory
  BY <1>4, SetOutOfMemoryStep
<1>5. CASE SnapOpen
  BY <1>5, SnapOpenStep
<1>6. CASE SnapWrite
  BY <1>6, SnapWriteStep
<1>7. CASE SnapWriteShort
  BY <1>7, SnapWriteShortStep
<1>8. CASE SnapSync
  BY <1>8, SnapSyncStep
<1>9. CASE Reopen
  BY <1>9, ReopenStep
<1>10. CASE RecoverAgain
  BY <1>10, RecoverAgainStep
<1>11. CASE Crash
  BY <1>11, CrashStep
<1>12. CASE PowerFail
  BY <1>12, PowerFailStep
<1>13. CASE FilesMissing \/ Exit
  BY <1>13, EarlyEnd DEF FilesMissing, Exit
<1>14. CASE SnapOpenFails \/ SnapSyncFails \/ ReopenFails
  <2>1. Ends /\ UNCHANGED <<fileVars, ghostVars>> /\ Happens("io")
    BY <1>14 DEF SnapOpenFails, SnapSyncFails, ReopenFails
  <2> QED  BY <2>1, EarlyEnd DEF FaultKinds
<1>15. CASE RecoverAgainFails
  <2>1. Ends /\ UNCHANGED <<fileVars, ghostVars>> /\ Happens("read")
    BY <1>15 DEF RecoverAgainFails
  <2> QED  BY <2>1, EarlyEnd DEF FaultKinds
<1>16. CASE UNCHANGED vars
  BY <1>16, StutterStep
<1> QED
  BY <1>1, <1>2, <1>3, <1>4, <1>5, <1>6, <1>7, <1>8, <1>9, <1>10, <1>11, <1>12, <1>13,
     <1>14, <1>15, <1>16 DEF Next

--------------------------------------------------------------------------------
(* What follows from it *)

\* Every image there is fits the buffer of do_custom.c, if that program is run at all.
ImageFits == FitsBuffer(img) /\ FitsBuffer(disk)

LEMMA TornTailFollows == IInv /\ ImageFits => TornTail
<1> SUFFICES ASSUME IInv, ImageFits, NEW b \in Builds
             PROVE  /\ "img" \notin holed => IsTornCopy(FileMap(b, img), written)
                    /\ "disk" \notin holed => IsTornCopy(FileMap(b, disk), synced)
  BY DEF TornTail
<1>1. IsFile(img) /\ IsFile(disk) /\ Full(written) /\ Full(synced)
  BY TypesOfFiles DEF IInv, StoreInv
<1>2. ASSUME "img" \notin holed
      PROVE  IsTornCopy(FileMap(b, img), written)
  <2>1. img # NoFile => Begun(img, written)
    BY <1>2 DEF IInv, FileInv
  <2> QED  BY <1>1, <2>1, FileMapTorn DEF ImageFits
<1>3. ASSUME "disk" \notin holed
      PROVE  IsTornCopy(FileMap(b, disk), synced)
  <2>1. disk # NoFile => Begun(disk, synced)
    BY <1>3 DEF IInv, FileInv
  <2> QED  BY <1>1, <2>1, FileMapTorn DEF ImageFits
<1> QED  BY <1>2, <1>3

LEMMA PromiseKeptFollows == IInv /\ ImageFits => PromiseKept
<1> SUFFICES ASSUME IInv, ImageFits, promised # None, holed = {}
             PROVE  /\ \A b \in Builds : /\ FileMap(b, img) = promised
                                         /\ FileMap(b, disk) = promised
                    /\ loaded /\ pc \in {"opened", "reopened", "verified"} =>
                         /\ DOMAIN store = DOMAIN promised
                         /\ \A k \in DOMAIN store :
                              store[k] # promised[k] =>
                                store[k] = NoValue /\ "oom" \in Fault /\ faults > 0
  BY DEF PromiseKept
<1>1. /\ img # NoFile /\ disk = img /\ promised = written
      /\ Whole(img, promised, DOMAIN promised)
  BY DEF IInv, PromiseInv
<1>2. img \in Text /\ Full(promised)
  BY <1>1, TypesOfFiles DEF IInv, StoreInv, IsFile
<1>3. ASSUME NEW b \in Builds
      PROVE  FileMap(b, img) = promised
  BY <1>1, <1>2, FileMapWhole DEF ImageFits
<1>4. ASSUME loaded, pc \in {"opened", "reopened", "verified"}
      PROVE  /\ DOMAIN store = DOMAIN promised
             /\ \A k \in DOMAIN store :
                  store[k] # promised[k] =>
                    store[k] = NoValue /\ "oom" \in Fault /\ faults > 0
  <2>1. FileMap(build, img) = promised
    BY <1>3, <1>4 DEF IInv, StoreInv
  <2> QED  BY <1>4, <2>1 DEF IInv, LoadInv
<1> QED  BY <1>1, <1>3, <1>4

--------------------------------------------------------------------------------
\* IInv holds in every state main reaches, for any keys, values, programs and faults.
THEOREM Inductive == Spec => []IInv
  BY InitIInv, NextIInv, PTL DEF Spec

\* The progress of main, the store, the two states of the file and its history keep
\* their types; the iterator of do_snapshot never leaves the list.
THEOREM TypeCorrect == Spec => []TypeOK
<1>1. IInv => TypeOK
  BY DEF IInv
<1> QED  BY <1>1, Inductive, PTL

\* While every image fits the buffer of do_custom.c, or only do_baseline.c runs, a
\* do_snapshot that has returned 0 keeps its promise: in both programs, across crashes,
\* power failures and failed reads, what do_recovery restores is what was in memory.
THEOREM PromiseIsKept == Spec => [](ImageFits => PromiseKept)
<1>1. IInv => (ImageFits => PromiseKept)
  BY PromiseKeptFollows
<1> QED  BY <1>1, Inductive, PTL

\* While every image fits that buffer, what a crash, a power failure or a noticed short
\* write has left of a snapshot is recovered as its first keys, the last value perhaps
\* cut short.
THEOREM TailIsTorn == Spec => [](ImageFits => TornTail)
<1>1. IInv => (ImageFits => TornTail)
  BY TornTailFollows
<1> QED  BY <1>1, Inductive, PTL

\* do_baseline.c, which reads the whole file into one buffer, keeps the promise for
\* images of any length.
THEOREM BaselinePromise ==
    ASSUME Builds = {"baseline"}
    PROVE  Spec => []PromiseKept
<1>1. IInv => PromiseKept
  BY PromiseKeptFollows DEF ImageFits, FitsBuffer
<1> QED  BY <1>1, Inductive, PTL

\* And it recovers what is left of an image of any length as the first keys of one snapshot.
THEOREM BaselineTail ==
    ASSUME Builds = {"baseline"}
    PROVE  Spec => []TornTail
<1>1. IInv => TornTail
  BY TornTailFollows DEF ImageFits, FitsBuffer
<1> QED  BY <1>1, Inductive, PTL

\* The O_TRUNC of do_snapshot destroys no key that is not in memory, if kvs_open said it
\* had recovered the image; of images of any length, in either program.
THEOREM NothingIsForgotten == Spec => NothingForgotten
<1>1. IInv /\ [Next]_vars =>
        [pc = "work" /\ pc' = "snap" /\ loaded =>
            DOMAIN FileMap(build, img) \subseteq DOMAIN store]_vars
  BY DEF IInv, LoadInv
<1> QED  BY <1>1, Inductive, PTL DEF Spec, NothingForgotten
================================================================================
