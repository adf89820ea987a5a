----------------------------- MODULE NaturalLemmas -----------------------------
(***************************************************************************)
(* Facts about numbers and finite sets that the proofs of several modules  *)
(* use.  The induction principles speak of a set where one would expect a  *)
(* predicate: the set of the numbers, or of the sets, that satisfy it.     *)
(***************************************************************************)
EXTENDS Integers, FiniteSets, FiniteSetTheorems, NaturalsInduction, TLAPS

\* A set of numbers that is not empty has a smallest one.
LEMMA SmallestExists ==
  ASSUME NEW S \in SUBSET Nat, S # {}
  PROVE  \E n \in S : \A m \in S : n <= m
  <1>1. PICK n \in S : \A m \in S : ~(<<m, n>> \in OpToRel(<, Nat))
    BY NatLessThanWellFounded, WFMin, Zenon
  <1>2. \A m \in S : m < n => <<m, n>> \in OpToRel(<, Nat)
    BY Zenon DEF OpToRel
  <1>3. \A m \in S : ~(m < n)
    BY <1>1, <1>2, Zenon
  <1> QED BY <1>3

\* A set that has 0 and with every number the next one has all of them.
LEMMA SetInduction ==
  ASSUME NEW T, 0 \in T, \A n \in Nat : n \in T => n + 1 \in T
  PROVE  \A n \in Nat : n \in T
  <1> SUFFICES ASSUME Nat \ T # {}
               PROVE  FALSE
    OBVIOUS
  <1>1. PICK n \in Nat \ T : \A m \in Nat \ T : n <= m
    BY SmallestExists
  <1>2. n # 0 /\ n - 1 \in Nat
    BY <1>1
  <1>3. n - 1 \in T
    BY <1>1, <1>2
  <1> QED BY <1>1, <1>2, <1>3

\* The same up to a bound.
LEMMA BoundedInduction ==
  ASSUME NEW b \in Nat, NEW T, 0 \in T, \A n \in 0..(b - 1) : n \in T => n + 1 \in T
  PROVE  \A n \in 0..b : n \in T
  <1> DEFINE U == {n \in Nat : n <= b => n \in T}
  <1>1. 0 \in U /\ \A n \in Nat : n \in U => n + 1 \in U
    OBVIOUS
  <1>2. \A n \in Nat : n \in U
    <2> HIDE DEF U
    <2> QED BY <1>1, SetInduction
  <1> QED BY <1>2

\* A collection that has the empty set, and with a subset of S the one with
\* one more element of S, has S.
LEMMA FiniteSetInduction ==
  ASSUME NEW S, IsFiniteSet(S), NEW C, {} \in C,
         \A T \in SUBSET S, x \in S : T \in C => T \cup {x} \in C
  PROVE  S \in C
  <1> DEFINE N == {n \in Nat : \A T \in SUBSET S : Cardinality(T) = n => T \in C}
  <1>1. 0 \in N
    <2>1. \A T \in SUBSET S : Cardinality(T) = 0 => T = {}
      BY FS_Subset, FS_EmptySet
    <2> QED BY <2>1
  <1>2. \A n \in Nat : n \in N => n + 1 \in N
    <2> SUFFICES ASSUME NEW n \in Nat, n \in N, NEW T \in SUBSET S, Cardinality(T) = n + 1
                 PROVE  T \in C
      OBVIOUS
    <2>1. IsFiniteSet(T) /\ T # {}
      BY FS_Subset, FS_EmptySet
    <2>2. PICK x \in T : TRUE
      BY <2>1
    <2>3. Cardinality(T \ {x}) = n
      <3>1. Cardinality(T \ {x}) = Cardinality(T) - 1
        BY <2>1, <2>2, FS_RemoveElement, Zenon
      <3> QED BY <3>1
    <2>4. T \ {x} \in SUBSET S /\ x \in S /\ T = (T \ {x}) \cup {x}
      BY <2>2
    <2>5. T \ {x} \in C
      BY <2>3, <2>4
    <2> HIDE DEF N
    <2> QED BY <2>4, <2>5
  <1>3. \A n \in Nat : n \in N
    <2> HIDE DEF N
    <2> QED BY <1>1, <1>2, SetInduction
  <1>4. Cardinality(S) \in Nat
    BY FS_CardinalityType
  <1> QED BY <1>3, <1>4

\* A finite set of numbers has a largest one.
LEMMA LargestOfFinite ==
  ASSUME NEW S \in SUBSET Nat, IsFiniteSet(S), S # {}
  PROVE  \E n \in S : \A m \in S : m <= n
  <1> DEFINE C == {T \in SUBSET S : T # {} => \E n \in T : \A m \in T : m <= n}
  <1>1. {} \in C
    OBVIOUS
  <1>2. ASSUME NEW T \in SUBSET S, NEW x \in S, T \in C
        PROVE  T \cup {x} \in C
    <2>1. CASE T = {}
      BY <2>1
    <2>2. CASE T # {}
      <3>1. PICK n \in T : \A m \in T : m <= n
        BY <1>2, <2>2
      <3>2. CASE x <= n
        <4>1. n \in T \cup {x} /\ \A m \in T \cup {x} : m <= n
          BY <3>1, <3>2
        <4> QED BY <4>1
      <3>3. CASE ~(x <= n)
        <4>1. x \in T \cup {x} /\ \A m \in T \cup {x} : m <= x
          BY <3>1, <3>3
        <4> QED BY <4>1
      <3> QED BY <3>2, <3>3
    <2> QED BY <2>1, <2>2
  <1>3. S \in C
    <2> HIDE DEF C
    <2> QED BY <1>1, <1>2, FiniteSetInduction
  <1> QED BY <1>3

\* A proper subset of a finite set is smaller.
LEMMA StrictSubsetIsSmaller ==
  ASSUME NEW S, IsFiniteSet(S), NEW T \in SUBSET S, T # S
  PROVE  /\ Cardinality(T) \in Nat /\ Cardinality(S) \in Nat
         /\ Cardinality(T) < Cardinality(S)
  BY FS_Subset, FS_CardinalityType

\* The image of a finite set is finite.
LEMMA FiniteImage ==
  ASSUME NEW S, IsFiniteSet(S), NEW f, DOMAIN f = S, f = [x \in S |-> f[x]]
  PROVE  IsFiniteSet({f[x] : x \in S})
  <1> DEFINE T == {f[x] : x \in S}
  <1>1. f \in Surjection(S, T)
    BY Zenon DEF Surjection
  <1> QED BY <1>1, FS_Surjection, Zenon

\* A set that has an injection into a finite one is finite.
LEMMA FiniteByInjection ==
  ASSUME NEW S, NEW T, IsFiniteSet(T), NEW f \in [S -> T],
         \A x, y \in S : f[x] = f[y] => x = y
  PROVE  IsFiniteSet(S)
  <1>1. f \in Injection(S, T)
    BY Zenon DEF Injection, IsInjective
  <1> QED BY <1>1, FS_Injection, Zenon

\* A function that is defined from its value one below exists.
Recursive(g, n, base, step) == g[0] = base /\ \A i \in 1..n : g[i] = step[i][g[i - 1]]

StepsStay(step, n, S) == \A i \in 1..n, x \in S : step[i][x] \in S

LEMMA RecursionExists ==
  ASSUME NEW n \in Nat, NEW S, NEW base \in S, NEW step, StepsStay(step, n, S)
  PROVE  \E g \in [0..n -> S] : Recursive(g, n, base, step)
  <1> USE DEF StepsStay, Recursive
  <1> DEFINE Upto(m) == \E g \in [0..m -> S] :
                          g[0] = base /\ \A i \in 1..m : g[i] = step[i][g[i - 1]]
             T == {m \in 0..n : Upto(m)}
  <1>1. 0 \in T
    <2> DEFINE g == [i \in 0..0 |-> base]
    <2>1. g \in [0..0 -> S] /\ g[0] = base
      OBVIOUS
    <2>2. \A i \in 1..0 : g[i] = step[i][g[i - 1]]
      OBVIOUS
    <2> HIDE DEF g
    <2>3. Upto(0)
      BY <2>1, <2>2
    <2> QED BY <2>3
  <1>2. ASSUME NEW m \in 0..(n - 1), m \in T
        PROVE  m + 1 \in T
    <2>1. PICK g \in [0..m -> S] : g[0] = base /\ \A i \in 1..m : g[i] = step[i][g[i - 1]]
      BY <1>2
    <2> DEFINE h == [i \in 0..(m + 1) |-> IF i = m + 1 THEN step[m + 1][g[m]] ELSE g[i]]
    <2>2. h \in [0..(m + 1) -> S]
      OBVIOUS
    <2>3. h[0] = base
      BY <2>1
    <2>4. ASSUME NEW i \in 1..(m + 1)
          PROVE  h[i] = step[i][h[i - 1]]
      <3>1. i - 1 \in 0..m /\ h[i - 1] = g[i - 1]
        OBVIOUS
      <3>2. CASE i = m + 1
        <4>1. h[i] = step[i][g[i - 1]]
          BY <3>2
        <4> QED BY <3>1, <4>1
      <3>3. CASE i # m + 1
        <4>1. i \in 1..m /\ h[i] = g[i]
          BY <3>3
        <4> QED BY <2>1, <3>1, <4>1
      <3> QED BY <3>2, <3>3
    <2> HIDE DEF h
    <2> QED BY <2>2, <2>3, <2>4
  <1> HIDE DEF T
  <1>3. \A m \in 0..n : m \in T
    BY <1>1, <1>2, BoundedInduction
  <1> QED BY <1>3 DEF T


\* What has its first value in a set, and stays there, is in it.
LEMMA StaysIn ==
  ASSUME NEW n \in Nat, NEW S, NEW f, f[0] \in S, \A i \in 1..n : f[i - 1] \in S => f[i] \in S
  PROVE  \A i \in 0..n : f[i] \in S
  <1> DEFINE T == {i \in 0..n : f[i] \in S}
  <1>1. 0 \in T
    OBVIOUS
  <1>2. ASSUME NEW i \in 0..(n - 1), i \in T
        PROVE  i + 1 \in T
    <2>1. i + 1 \in 1..n /\ (i + 1) - 1 = i /\ f[i] \in S
      BY <1>2
    <2> QED BY <2>1
  <1> HIDE DEF T
  <1>3. \A i \in 0..n : i \in T
    BY <1>1, <1>2, BoundedInduction
  <1> QED BY <1>3 DEF T

================================================================================
