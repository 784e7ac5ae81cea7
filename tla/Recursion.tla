------------------------------- MODULE Recursion -------------------------------
(***************************************************************************)
(* Induction and recursion over numbers and finite sets, stated about sets *)
(* and functions instead of operators: what the proofs need to reason      *)
(* about loops, which the models have as recursive functions.              *)
(***************************************************************************)
EXTENDS Naturals, FiniteSetTheorems, TLAPS

\* Induction over the members of a set.
LEMMA SetInduction ==
  ASSUME NEW S, 0 \in S, \A n \in S \cap Nat : n + 1 \in S
  PROVE  Nat \subseteq S
<1>1. IsWellFoundedOn(OpToRel(<, Nat), Nat)
  BY NatLessThanWellFounded
<1> DEFINE T == Nat \ S
           R == OpToRel(<, Nat)
<1> SUFFICES ASSUME T # {} PROVE FALSE
  OBVIOUS
<1>2. PICK x \in T : \A y \in T : ~(<<y, x>> \in R)
  <2>1. T \subseteq Nat
    OBVIOUS
  <2> HIDE DEF T, R
  <2> QED BY <1>1, <2>1, WFMin DEF R
<1>3. x - 1 \in Nat /\ x - 1 < x
  OBVIOUS
<1>4. <<x - 1, x>> \in R
  BY <1>3 DEF OpToRel
<1>5. x # 0 /\ x - 1 \in S => x \in S
  BY <1>3
<1> HIDE DEF R
<1> QED
  BY <1>2, <1>3, <1>4, <1>5

\* A set of natural numbers has a least member.
LEMMA LeastMember ==
  ASSUME NEW S, S \subseteq Nat, S # {}
  PROVE  \E x \in S : \A y \in S : x <= y
<1> DEFINE R == OpToRel(<, Nat)
<1>1. PICK x \in S : \A y \in S : ~(<<y, x>> \in R)
  <2>1. IsWellFoundedOn(R, Nat)
    BY NatLessThanWellFounded
  <2> HIDE DEF R
  <2> QED
    BY <2>1, WFMin
<1>2. ASSUME NEW y \in S PROVE x <= y
  <2>1. ~(y < x)
    BY <1>1 DEF OpToRel
  <2> QED
    BY <2>1
<1> QED
  BY <1>2

\* Recursion over 0..N: there is a function that has a at 0 and gets each value
\* from the one before it.
Steps(g, N, a, F) == g[0] = a /\ \A i \in 1..N : g[i] = F[i][g[i - 1]]

LEMMA PrimitiveRecursion ==
  ASSUME NEW N \in Nat, NEW S, NEW a \in S, NEW F \in [1..N -> [S -> S]]
  PROVE  \E g \in [0..N -> S] : Steps(g, N, a, F)
<1> USE DEF Steps
<1> DEFINE Upto(n) == \E g \in [0..n -> S] : Steps(g, n, a, F)
           D == {n \in Nat : n <= N => Upto(n)}
<1>1. 0 \in D
  <2> DEFINE g == [i \in 0..0 |-> a]
  <2>1. g \in [0..0 -> S] /\ g[0] = a
    OBVIOUS
  <2>2. \A i \in 1..0 : g[i] = F[i][g[i - 1]]
    OBVIOUS
  <2> HIDE DEF g
  <2>3. Upto(0)
    BY <2>1, <2>2
  <2> QED
    BY <2>3
<1>2. ASSUME NEW n \in Nat, n \in D PROVE n + 1 \in D
  <2> SUFFICES ASSUME n + 1 <= N PROVE Upto(n + 1)
    OBVIOUS
  <2>1. PICK g \in [0..n -> S] : Steps(g, n, a, F)
    BY <1>2
  <2> DEFINE h == [i \in 0..(n + 1) |-> IF i = n + 1 THEN F[i][g[n]] ELSE g[i]]
  <2>2. h \in [0..(n + 1) -> S]
    <3>1. g[n] \in S /\ n + 1 \in 1..N
      OBVIOUS
    <3>2. F[n + 1] \in [S -> S]
      BY <3>1
    <3>3. F[n + 1][g[n]] \in S
      BY <3>1, <3>2
    <3> QED
      BY <3>3
  <2>3. h[0] = a
    BY <2>1
  <2>4. \A i \in 1..(n + 1) : h[i] = F[i][h[i - 1]]
    BY <2>1
  <2> HIDE DEF h
  <2> QED
    BY <2>2, <2>3, <2>4
<1>3. Nat \subseteq D
  <2> HIDE DEF D
  <2> QED
    BY <1>1, <1>2, SetInduction
<1>4. N \in D
  BY <1>3
<1> QED
  BY <1>4

\* Members of 0..N, one after the other.
LEMMA UptoInduction ==
  ASSUME NEW N \in Nat, NEW D, 0 \in D, \A i \in 1..N : i - 1 \in D => i \in D
  PROVE  0..N \subseteq D
<1> DEFINE E == {n \in Nat : n <= N => n \in D}
<1>1. 0 \in E
  OBVIOUS
<1>2. ASSUME NEW n \in Nat, n \in E PROVE n + 1 \in E
  <2>1. CASE n + 1 <= N
    <3>1. n + 1 \in 1..N /\ n \in D /\ (n + 1) - 1 = n
      BY <1>2, <2>1
    <3> QED
      BY <3>1
  <2> QED
    BY <2>1
<1>3. Nat \subseteq E
  <2> HIDE DEF E
  <2> QED
    BY <1>1, <1>2, SetInduction
<1> QED
  BY <1>3


-----------------------------------------------------------------------------
\* The member of a set that the folds of the community modules take first.
OneOf(s) == CHOOSE x \in s : TRUE

LEMMA OneOfIsMember == ASSUME NEW s, s # {} PROVE OneOf(s) \in s
BY DEF OneOf

\* A sum over sets that takes one member after the other, as a recursive function.
SumsUp(g, w, D) ==
  g = [s \in SUBSET D |-> IF s = {} THEN 0 ELSE w[OneOf(s)] + g[s \ {OneOf(s)}]]

\* A set without one of its members.
LEMMA OneLess ==
  ASSUME NEW s, IsFiniteSet(s), NEW x \in s
  PROVE  /\ IsFiniteSet(s \ {x}) /\ Cardinality(s \ {x}) \in Nat
         /\ Cardinality(s) = Cardinality(s \ {x}) + 1
<1>1. IsFiniteSet(s \ {x}) /\ Cardinality(s \ {x}) = Cardinality(s) - 1
  BY FS_RemoveElement
<1>2. Cardinality(s \ {x}) \in Nat /\ Cardinality(s) \in Nat
  BY <1>1, FS_CardinalityType
<1> QED
  BY <1>1, <1>2

\* There is such a function.
LEMMA SumExists ==
  ASSUME NEW D, IsFiniteSet(D), NEW w \in [D -> Nat]
  PROVE  \E g \in [SUBSET D -> Nat] : SumsUp(g, w, D)
<1> DEFINE Small(n) == {s \in SUBSET D : Cardinality(s) <= n}
           Value(g, s) == IF s = {} THEN 0 ELSE w[OneOf(s)] + g[s \ {OneOf(s)}]
           Upto(n) == \E g \in [Small(n) -> Nat] : \A s \in Small(n) : g[s] = Value(g, s)
           E == {n \in Nat : Upto(n)}
<1>1. \A s \in SUBSET D : IsFiniteSet(s) /\ Cardinality(s) \in Nat
  BY FS_Subset, FS_CardinalityType
<1>2. 0 \in E
  <2>1. \A s \in Small(0) : s = {}
    BY <1>1, FS_EmptySet
  <2> DEFINE g == [s \in Small(0) |-> 0]
  <2>2. g \in [Small(0) -> Nat]
    OBVIOUS
  <2>3. \A s \in Small(0) : g[s] = Value(g, s)
    BY <2>1
  <2> HIDE DEF g, Value, Small
  <2> QED
    BY <2>2, <2>3
<1>3. ASSUME NEW n \in Nat, n \in E PROVE n + 1 \in E
  <2>1. PICK g \in [Small(n) -> Nat] : \A s \in Small(n) : g[s] = Value(g, s)
    BY <1>3
  <2> DEFINE h == [s \in Small(n + 1) |-> Value(g, s)]
  <2>2. ASSUME NEW s \in Small(n + 1), s # {}
        PROVE  s \ {OneOf(s)} \in Small(n) /\ OneOf(s) \in D
    BY <1>1, <2>2, OneOfIsMember, OneLess
  <2>3. h \in [Small(n + 1) -> Nat]
    <3>1. ASSUME NEW s \in Small(n + 1) PROVE Value(g, s) \in Nat
      <4>1. CASE s = {}
        BY <4>1
      <4>2. CASE s # {}
        <5>1. w[OneOf(s)] \in Nat /\ g[s \ {OneOf(s)}] \in Nat
          BY <2>2, <4>2
        <5> QED
          BY <4>2, <5>1
      <4> QED
        BY <4>1, <4>2
    <3> HIDE DEF Value, Small
    <3> QED
      BY <3>1
  <2>4. ASSUME NEW s \in Small(n) PROVE s \in Small(n + 1) /\ h[s] = g[s]
    BY <1>1, <2>1
  <2>5. ASSUME NEW s \in Small(n + 1) PROVE h[s] = Value(h, s)
    <3>1. CASE s = {}
      BY <3>1
    <3>2. CASE s # {}
      <4>1. h[s \ {OneOf(s)}] = g[s \ {OneOf(s)}]
        BY <2>2, <2>4, <3>2
      <4> QED
        BY <3>2, <4>1
    <3> QED
      BY <3>1, <3>2
  <2> HIDE DEF h, Value, Small
  <2> QED
    BY <2>3, <2>5
<1>4. Nat \subseteq E
  <2> HIDE DEF E
  <2> QED
    BY <1>2, <1>3, SetInduction
<1>5. Cardinality(D) \in Nat /\ Cardinality(D) \in E
  BY <1>1, <1>4
<1>6. Small(Cardinality(D)) = SUBSET D
  BY <1>1, FS_Subset
<1>7. PICK g \in [SUBSET D -> Nat] : \A s \in SUBSET D : g[s] = Value(g, s)
  BY <1>5, <1>6
<1> QED
  BY <1>7 DEF SumsUp

\* Whatever sums up has numbers for its values.
LEMMA SumIsNat ==
  ASSUME NEW D, IsFiniteSet(D), NEW w \in [D -> Nat], NEW g, SumsUp(g, w, D)
  PROVE  g \in [SUBSET D -> Nat]
<1>1. \A s \in SUBSET D : IsFiniteSet(s) /\ Cardinality(s) \in Nat
  BY FS_Subset, FS_CardinalityType
<1>2. \A s \in SUBSET D : g[s] = IF s = {} THEN 0 ELSE w[OneOf(s)] + g[s \ {OneOf(s)}]
  BY DEF SumsUp
<1> DEFINE E == {n \in Nat : \A s \in SUBSET D : Cardinality(s) <= n => g[s] \in Nat}
<1>3. 0 \in E
  BY <1>1, <1>2, FS_EmptySet
<1>4. ASSUME NEW n \in Nat, n \in E PROVE n + 1 \in E
  <2> SUFFICES ASSUME NEW s \in SUBSET D, Cardinality(s) <= n + 1, s # {}
               PROVE  g[s] \in Nat
    BY <1>2
  <2>1. OneOf(s) \in s
    BY OneOfIsMember
  <2>2. Cardinality(s \ {OneOf(s)}) <= n
    BY <1>1, <2>1, OneLess
  <2>3. g[s \ {OneOf(s)}] \in Nat /\ w[OneOf(s)] \in Nat
    BY <1>4, <2>1, <2>2
  <2> QED
    BY <1>2, <2>3
<1>5. Nat \subseteq E
  <2> HIDE DEF E
  <2> QED
    BY <1>3, <1>4, SetInduction
<1>6. \A s \in SUBSET D : g[s] \in Nat
  BY <1>1, <1>5
<1> QED
  BY <1>6 DEF SumsUp

\* As such a function, but one that may take any member first.
TakesAny(g, w, D) ==
  /\ g[{}] = 0
  /\ \A s \in SUBSET D, x \in D : x \in s => g[s] = w[x] + g[s \ {x}]

\* It does not matter which member is taken first.
LEMMA SumOneLess ==
  ASSUME NEW D, IsFiniteSet(D), NEW w \in [D -> Nat], NEW g, SumsUp(g, w, D)
  PROVE  TakesAny(g, w, D)
<1>0. g \in [SUBSET D -> Nat]
  BY SumIsNat
<1>1. g[{}] = 0
  BY DEF SumsUp
<1>2. \A s \in SUBSET D : s # {} => g[s] = w[OneOf(s)] + g[s \ {OneOf(s)}]
  BY DEF SumsUp
<1>3. \A s \in SUBSET D : IsFiniteSet(s) /\ Cardinality(s) \in Nat
  BY FS_Subset, FS_CardinalityType
<1> DEFINE Right(s) == \A x \in s : g[s] = w[x] + g[s \ {x}]
           E == {n \in Nat : \A s \in SUBSET D : Cardinality(s) <= n => Right(s)}
<1>4. 0 \in E
  BY <1>3, FS_EmptySet
<1>5. ASSUME NEW n \in Nat, n \in E PROVE n + 1 \in E
  <2> SUFFICES ASSUME NEW s \in SUBSET D, Cardinality(s) <= n + 1, NEW x \in s
               PROVE  g[s] = w[x] + g[s \ {x}]
    OBVIOUS
  <2> DEFINE y == OneOf(s)
  <2>1. y \in s
    BY OneOfIsMember
  <2> HIDE DEF y
  <2>2. g[s] = w[y] + g[s \ {y}]
    BY <1>2 DEF y
  <2>3. CASE x = y
    BY <2>2, <2>3
  <2>4. CASE x # y
    <3>1. Cardinality(s \ {x}) <= n /\ Cardinality(s \ {y}) <= n
      BY <1>3, <2>1, OneLess
    <3>2. g[s \ {y}] = w[x] + g[(s \ {y}) \ {x}]
      BY <1>5, <2>4, <3>1
    <3>3. g[s \ {x}] = w[y] + g[(s \ {x}) \ {y}]
      BY <1>5, <2>1, <2>4, <3>1
    <3>4. (s \ {y}) \ {x} = (s \ {x}) \ {y}
      OBVIOUS
    <3>5. w[x] \in Nat /\ w[y] \in Nat /\ g[(s \ {x}) \ {y}] \in Nat
      BY <1>0, <2>1
    <3>6. \A a, b, c \in Nat : a + (b + c) = b + (a + c)
      OBVIOUS
    <3> DEFINE c == g[(s \ {x}) \ {y}]
    <3> HIDE DEF E, c
    <3>7. g[s] = w[y] + (w[x] + c)
      BY <2>2, <3>2, <3>4, Zenon DEF c
    <3>8. g[s \ {x}] = w[y] + c
      BY <3>3, Zenon DEF c
    <3>9. w[x] \in Nat /\ w[y] \in Nat /\ c \in Nat
      BY <3>5, Zenon DEF c
    <3>10. w[y] + (w[x] + c) = w[x] + (w[y] + c)
      BY <3>6, <3>9, Zenon
    <3> QED
      BY <3>7, <3>8, <3>10, Zenon
  <2> QED
    BY <2>3, <2>4
<1>6. Nat \subseteq E
  <2> HIDE DEF E
  <2> QED
    BY <1>4, <1>5, SetInduction
<1>7. \A s \in SUBSET D : Right(s)
  <2> SUFFICES ASSUME NEW s \in SUBSET D PROVE Right(s)
    OBVIOUS
  <2>1. Cardinality(s) \in Nat
    BY <1>3
  <2> QED
    BY <1>6, <2>1
<1> QED
  BY <1>1, <1>7 DEF TakesAny

\* The sum over 1..n is that of its first numbers, one after the other.
Adding(sum, n, w) == sum[0] = 0 /\ \A i \in 1..n : sum[i] = sum[i - 1] + w[i]

LEMMA SumOfInterval ==
  ASSUME NEW n \in Nat, NEW w \in [1..n -> Nat], NEW g, SumsUp(g, w, 1..n)
  PROVE  \E sum \in [0..n -> Nat] : Adding(sum, n, w) /\ g[1..n] = sum[n]
<1> DEFINE D == 1..n
<1>1. IsFiniteSet(D) /\ w \in [D -> Nat] /\ SumsUp(g, w, D)
  <2>1. IsFiniteSet(1..n)
    BY FS_Interval
  <2> QED
    BY <2>1
<1>2. \A i \in 0..n : (1..i) \in SUBSET D
  OBVIOUS
<1> HIDE DEF D
<1>3. g \in [SUBSET D -> Nat]
  BY <1>1, SumIsNat
<1>4. TakesAny(g, w, D)
  BY <1>1, SumOneLess
<1> DEFINE sum == [i \in 0..n |-> g[1..i]]
<1>5. sum \in [0..n -> Nat]
  BY <1>2, <1>3
<1>6. sum[0] = 0
  <2>1. 1..0 = {}
    OBVIOUS
  <2> QED
    BY <1>4, <2>1 DEF TakesAny
<1>7. ASSUME NEW i \in 1..n PROVE sum[i] = sum[i - 1] + w[i]
  <2>0. i \in D
    BY DEF D
  <2>1. (1..i) \ {i} = 1..(i - 1) /\ i \in 1..i /\ i - 1 \in 0..n /\ i \in 0..n
    OBVIOUS
  <2>2. g[1..i] = w[i] + g[(1..i) \ {i}]
    <3> DEFINE s == 1..i
    <3>1. s \in SUBSET D /\ i \in s
      BY <1>2, <2>1
    <3> HIDE DEF s
    <3>2. g[s] = w[i] + g[s \ {i}]
      BY <1>4, <3>1, <2>0 DEF TakesAny
    <3> QED
      BY <3>2 DEF s
  <2>3. sum[i - 1] \in Nat /\ w[i] \in Nat
    BY <1>5, <2>1
  <2>4. sum[i] = g[1..i] /\ sum[i - 1] = g[1..(i - 1)]
    BY <2>1
  <2>5. sum[i] = w[i] + sum[i - 1]
    BY <2>1, <2>2, <2>4, Zenon
  <2> HIDE DEF sum
  <2> QED
    BY <2>3, <2>5
<1>8. sum[n] = g[1..n]
  OBVIOUS
<1> HIDE DEF sum
<1> QED
  BY <1>5, <1>6, <1>7, <1>8 DEF Adding
===============================================================================
