----------------------------- MODULE PlanningProofs -----------------------------
(***************************************************************************)
(* Proofs about Planning: what is frozen is safe to execute, whatever the  *)
(* names, the selections and the directories.                              *)
(***************************************************************************)
EXTENDS Planning, NaturalLemmas, SequenceTheorems

-----------------------------------------------------------------------------
(***************************************************************************)
(* Orders and sorting.                                                     *)
(***************************************************************************)
StrictOrder(S, R) ==
  /\ \A a \in S : <<a, a>> \notin R
  /\ \A a, b, c \in S : <<a, b>> \in R /\ <<b, c>> \in R => <<a, c>> \in R
  /\ \A a, b \in S : a # b => <<a, b>> \in R \/ <<b, a>> \in R

\* A sorted set has every element once, in the order.
LEMMA SortedIsSorted ==
  ASSUME NEW S, IsFiniteSet(S), NEW R, StrictOrder(S, R)
  PROVE  /\ Cardinality(S) \in Nat
         /\ Sorted(S, R) \in [1..Cardinality(S) -> S]
         /\ \A s \in S : \E i \in 1..Cardinality(S) : Sorted(S, R)[i] = s
         /\ \A i, j \in 1..Cardinality(S) : i < j <=> <<Sorted(S, R)[i], Sorted(S, R)[j]>> \in R
  <1> DEFINE n == Cardinality(S)
             Before(s) == {t \in S : <<t, s>> \in R}
             before == [s \in S |-> Cardinality(Before(s))]
             q == Sorted(S, R)
  <1>1. n \in Nat
    BY FS_CardinalityType
  <1>2. ASSUME NEW s \in S
        PROVE  /\ IsFiniteSet(Before(s)) /\ Cardinality(Before(s)) \in Nat
               /\ Cardinality(Before(s)) < n
    <2>1. Before(s) \in SUBSET S /\ s \notin Before(s)
      BY DEF StrictOrder
    <2>2. Before(s) # S
      BY <2>1
    <2> HIDE DEF Before
    <2>3. IsFiniteSet(Before(s))
      BY <2>1, FS_Subset, Zenon
    <2> QED BY <2>1, <2>2, <2>3, StrictSubsetIsSmaller
  <1>3. ASSUME NEW a \in S, NEW b \in S, <<a, b>> \in R
        PROVE  before[a] < before[b]
    <2>1. Before(a) \in SUBSET Before(b)
      BY <1>3 DEF StrictOrder
    <2>2. a \in Before(b) /\ a \notin Before(a)
      BY <1>3 DEF StrictOrder
    <2>3. before[a] = Cardinality(Before(a)) /\ before[b] = Cardinality(Before(b))
      OBVIOUS
    <2>4. IsFiniteSet(Before(b))
      BY <1>2
    <2> HIDE DEF Before, before
    <2>5. Before(a) # Before(b)
      BY <2>2
    <2>6. Cardinality(Before(a)) < Cardinality(Before(b))
      BY <2>1, <2>4, <2>5, StrictSubsetIsSmaller
    <2> QED BY <2>3, <2>6
  <1>4. before \in [S -> 0..(n - 1)]
    <2> SUFFICES ASSUME NEW s \in S PROVE Cardinality(Before(s)) \in 0..(n - 1)
      OBVIOUS
    <2> HIDE DEF Before
    <2> QED BY <1>1, <1>2
  <1>5. ASSUME NEW a \in S, NEW b \in S, before[a] = before[b]
        PROVE  a = b
    <2> HIDE DEF before
    <2>1. before[a] \in Int /\ before[b] \in Int
      BY <1>4
    <2>2. ~(before[a] < before[b]) /\ ~(before[b] < before[a])
      BY <1>5, <2>1
    <2>3. <<a, b>> \notin R /\ <<b, a>> \notin R
      BY <1>3, <2>2
    <2> QED BY <2>3 DEF StrictOrder
  <1> HIDE DEF before
  <1>6. before \in Injection(S, 0..(n - 1))
    BY <1>4, <1>5, Zenon DEF Injection, IsInjective
  <1>7. IsFiniteSet(0..(n - 1)) /\ Cardinality(0..(n - 1)) = n
    BY <1>1, FS_Interval
  <1>8. before \in Surjection(S, 0..(n - 1))
    BY <1>6, <1>7, FS_Injection, Zenon
  <1>9. \A k \in 0..(n - 1) : \E s \in S : before[s] = k
    BY <1>8, Zenon DEF Surjection
  <1>10. q = [i \in 1..n |-> CHOOSE s \in S : before[s] = i - 1]
    BY DEF Sorted, before
  <1>11. ASSUME NEW i \in 1..n
         PROVE  q[i] \in S /\ before[q[i]] = i - 1
    <2>1. i - 1 \in 0..(n - 1)
      BY <1>1
    <2>2. \E s \in S : before[s] = i - 1
      BY <1>9, <2>1
    <2>3. q[i] = CHOOSE s \in S : before[s] = i - 1
      BY <1>10
    <2> QED BY <2>2, <2>3
  <1>12. q \in [1..n -> S]
    <2>1. \A i \in 1..n : (CHOOSE s \in S : before[s] = i - 1) \in S
      BY <1>10, <1>11
    <2> QED BY <1>10, <2>1
  <1>13. \A s \in S : \E i \in 1..n : q[i] = s
    <2> SUFFICES ASSUME NEW s \in S PROVE \E i \in 1..n : q[i] = s
      OBVIOUS
    <2>1. before[s] \in 0..(n - 1)
      BY <1>4
    <2>2. before[s] + 1 \in 1..n /\ (before[s] + 1) - 1 = before[s]
      BY <1>1, <2>1
    <2>3. q[before[s] + 1] \in S /\ before[q[before[s] + 1]] = before[s]
      BY <1>11, <2>2
    <2>4. q[before[s] + 1] = s
      BY <1>5, <2>3
    <2> QED BY <2>2, <2>4
  <1>14. ASSUME NEW i \in 1..n, NEW j \in 1..n
         PROVE  i < j <=> <<q[i], q[j]>> \in R
    <2>1. q[i] \in S /\ q[j] \in S /\ before[q[i]] = i - 1 /\ before[q[j]] = j - 1
      BY <1>11
    <2>2. <<q[i], q[j]>> \in R => i < j
      BY <1>3, <2>1
    <2>3. <<q[j], q[i]>> \in R => j < i
      BY <1>3, <2>1
    <2>4. i # j => q[i] # q[j]
      BY <2>1
    <2> QED BY <2>1, <2>2, <2>3, <2>4 DEF StrictOrder
  <1> QED BY <1>1, <1>12, <1>13, <1>14

-----------------------------------------------------------------------------
(***************************************************************************)
(* The pass over the selected paths and the allocation of numbers are      *)
(* recursive functions; there is one with the values their definitions     *)
(* give.                                                                   *)
(***************************************************************************)
NothingVisited == [conflicts |-> {}, stack |-> <<>>]

VisitedUpTo(g, m, selected) ==
  g = [i \in 0..m |-> IF i = 0 THEN NothingVisited ELSE Visit(g[i - 1], selected[i])]

LEMMA VisitedIsDefined ==
  ASSUME NEW selected, Len(selected) \in Nat
  PROVE  /\ VisitedInTurn(selected)[0] = NothingVisited
         /\ \A i \in 1..Len(selected) :
              VisitedInTurn(selected)[i] = Visit(VisitedInTurn(selected)[i - 1], selected[i])
  <1> DEFINE n == Len(selected)
             K == {m \in 0..n : \E g : VisitedUpTo(g, m, selected)}
  <1>1. 0 \in K
    <2>1. VisitedUpTo([i \in 0..0 |-> NothingVisited], 0, selected)
      BY DEF VisitedUpTo
    <2> QED BY <2>1
  <1>2. ASSUME NEW m \in 0..(n - 1), m \in K
        PROVE  m + 1 \in K
    <2>1. PICK g : VisitedUpTo(g, m, selected)
      BY <1>2
    <2> DEFINE h == [i \in 0..(m + 1) |-> IF i = m + 1 THEN Visit(g[m], selected[m + 1]) ELSE g[i]]
    <2>2. ASSUME NEW i \in 0..(m + 1)
          PROVE  h[i] = IF i = 0 THEN NothingVisited ELSE Visit(h[i - 1], selected[i])
      <3>1. CASE i = m + 1
        <4>1. h[i] = Visit(g[m], selected[i]) /\ h[i - 1] = g[m] /\ i # 0
          BY <3>1
        <4> QED BY <4>1
      <3>2. CASE i # m + 1 /\ i # 0
        <4>1. i \in 0..m /\ i - 1 \in 0..m /\ h[i] = g[i] /\ h[i - 1] = g[i - 1]
          BY <3>2
        <4> QED BY <2>1, <3>2, <4>1 DEF VisitedUpTo
      <3>3. CASE i = 0
        <4>1. i \in 0..m /\ h[i] = g[i]
          BY <3>3
        <4> QED BY <2>1, <3>3, <4>1 DEF VisitedUpTo
      <3> QED BY <3>1, <3>2, <3>3
    <2>3. h = [i \in 0..(m + 1) |-> h[i]]
      OBVIOUS
    <2> HIDE DEF h
    <2>4. VisitedUpTo(h, m + 1, selected)
      BY <2>2, <2>3 DEF VisitedUpTo
    <2> QED BY <2>4
  <1>3. n \in K
    <2>1. n \in Nat
      OBVIOUS
    <2> HIDE DEF K, n
    <2>2. \A m \in 0..n : m \in K
      BY <1>1, <1>2, <2>1, BoundedInduction
    <2> QED BY <2>1, <2>2
  <1>4. \E g : VisitedUpTo(g, n, selected)
    BY <1>3
  <1>5. VisitedInTurn(selected) = CHOOSE g : VisitedUpTo(g, n, selected)
    BY Zenon DEF VisitedInTurn, VisitedUpTo, NothingVisited
  <1>6. VisitedUpTo(VisitedInTurn(selected), n, selected)
    BY <1>4, <1>5, Zenon
  <1> QED BY <1>6 DEF VisitedUpTo

NothingAllocated(ordered, rule) ==
  [ordinals |-> [c \in {Counter(rule, s) : s \in Range(ordered)} |-> 0],
   values   |-> [id \in {s.id : s \in Range(ordered)} |-> NoValue]]

AllocatedUpTo(g, m, ordered, rule) ==
  g = [i \in 0..m |-> IF i = 0 THEN NothingAllocated(ordered, rule)
                      ELSE Allocate(g[i - 1], rule, ordered[i])]

LEMMA AllocatedIsDefined ==
  ASSUME NEW ordered, NEW rule, Len(ordered) \in Nat
  PROVE  /\ AllocatedInTurn(ordered, rule)[0] = NothingAllocated(ordered, rule)
         /\ \A i \in 1..Len(ordered) :
              AllocatedInTurn(ordered, rule)[i] =
                Allocate(AllocatedInTurn(ordered, rule)[i - 1], rule, ordered[i])
  <1> DEFINE n == Len(ordered)
             start == NothingAllocated(ordered, rule)
             K == {m \in 0..n : \E g : AllocatedUpTo(g, m, ordered, rule)}
  <1>1. 0 \in K
    <2>1. AllocatedUpTo([i \in 0..0 |-> start], 0, ordered, rule)
      BY DEF AllocatedUpTo
    <2> QED BY <2>1
  <1>2. ASSUME NEW m \in 0..(n - 1), m \in K
        PROVE  m + 1 \in K
    <2>1. PICK g : AllocatedUpTo(g, m, ordered, rule)
      BY <1>2
    <2> DEFINE h == [i \in 0..(m + 1) |-> IF i = m + 1 THEN Allocate(g[m], rule, ordered[m + 1]) ELSE g[i]]
    <2>2. ASSUME NEW i \in 0..(m + 1)
          PROVE  h[i] = IF i = 0 THEN start ELSE Allocate(h[i - 1], rule, ordered[i])
      <3>1. CASE i = m + 1
        <4>1. h[i] = Allocate(g[m], rule, ordered[i]) /\ h[i - 1] = g[m] /\ i # 0
          BY <3>1
        <4> QED BY <4>1
      <3>2. CASE i # m + 1 /\ i # 0
        <4>1. i \in 0..m /\ i - 1 \in 0..m /\ h[i] = g[i] /\ h[i - 1] = g[i - 1]
          BY <3>2
        <4> QED BY <2>1, <3>2, <4>1 DEF AllocatedUpTo
      <3>3. CASE i = 0
        <4>1. i \in 0..m /\ h[i] = g[i]
          BY <3>3
        <4> QED BY <2>1, <3>3, <4>1 DEF AllocatedUpTo
      <3> QED BY <3>1, <3>2, <3>3
    <2>3. h = [i \in 0..(m + 1) |-> h[i]]
      OBVIOUS
    <2> HIDE DEF h
    <2>4. AllocatedUpTo(h, m + 1, ordered, rule)
      BY <2>2, <2>3 DEF AllocatedUpTo
    <2> QED BY <2>4
  <1>3. n \in K
    <2>1. n \in Nat
      OBVIOUS
    <2> HIDE DEF K, n
    <2>2. \A m \in 0..n : m \in K
      BY <1>1, <1>2, <2>1, BoundedInduction
    <2> QED BY <2>1, <2>2
  <1>4. \E g : AllocatedUpTo(g, n, ordered, rule)
    BY <1>3
  <1>5. AllocatedInTurn(ordered, rule) = CHOOSE g : AllocatedUpTo(g, n, ordered, rule)
    BY Zenon DEF AllocatedInTurn, AllocatedUpTo, NothingAllocated
  <1>6. AllocatedUpTo(AllocatedInTurn(ordered, rule), n, ordered, rule)
    BY <1>4, <1>5, Zenon
  <1> QED BY <1>6 DEF AllocatedUpTo

-----------------------------------------------------------------------------
(***************************************************************************)
(* Names and paths in the order of their first difference.                 *)
(***************************************************************************)
FirstDifference(p, q, i) ==
  /\ i \in DOMAIN p \cap DOMAIN q /\ p[i] # q[i]
  /\ \A j \in DOMAIN p \cap DOMAIN q : j < i => p[j] = q[j]

\* Two sequences differ at a first place, or one begins with the other.
LEMMA FirstDifferenceExists ==
  ASSUME NEW S, NEW p \in Seq(S), NEW q \in Seq(S)
  PROVE  (\E i \in 1..Len(p) : FirstDifference(p, q, i)) \/ (\A i \in DOMAIN p \cap DOMAIN q : p[i] = q[i])
  <1> DEFINE differing == {i \in DOMAIN p \cap DOMAIN q : p[i] # q[i]}
  <1> SUFFICES ASSUME differing # {} PROVE \E i \in 1..Len(p) : FirstDifference(p, q, i)
    OBVIOUS
  <1>1. differing \in SUBSET Nat
    OBVIOUS
  <1>2. PICK i \in differing : \A j \in differing : i <= j
    <2> HIDE DEF differing
    <2> QED BY <1>1, SmallestExists
  <1>3. FirstDifference(p, q, i)
    <2>1. \A j \in DOMAIN p \cap DOMAIN q : j < i => ~(i <= j)
      OBVIOUS
    <2> QED BY <1>2, <2>1 DEF FirstDifference
  <1> QED BY <1>2, <1>3

\* There is one first difference.
LEMMA FirstDifferenceIsUnique ==
  ASSUME NEW S, NEW p \in Seq(S), NEW q \in Seq(S), NEW i, NEW j,
         FirstDifference(p, q, i), FirstDifference(p, q, j)
  PROVE  i = j
  <1>1. i \in Nat /\ j \in Nat
    BY DEF FirstDifference
  <1> QED BY <1>1 DEF FirstDifference

\* The order that one of the elements induces on sequences of them
Before(p, q, R) ==
  \/ \E i \in 1..Len(p) : FirstDifference(p, q, i) /\ <<p[i], q[i]>> \in R
  \/ (\A i \in DOMAIN p \cap DOMAIN q : p[i] = q[i]) /\ Len(p) < Len(q)

\* Two sequences that agree as far as both go: the shorter comes first.
LEMMA ShorterIsBefore ==
  ASSUME NEW S, NEW R, NEW p \in Seq(S), NEW q \in Seq(S),
         \A i \in DOMAIN p \cap DOMAIN q : p[i] = q[i]
  PROVE  Before(p, q, R) <=> Len(p) < Len(q)
  <1>1. ASSUME NEW i, FirstDifference(p, q, i)
        PROVE  FALSE
    BY <1>1 DEF FirstDifference
  <1> QED BY <1>1, Zenon DEF Before

LEMMA BeforeIsIrreflexive ==
  ASSUME NEW S, NEW R, NEW p \in Seq(S)
  PROVE  ~Before(p, p, R)
  BY DEF Before, FirstDifference

LEMMA BeforeIsTotal ==
  ASSUME NEW S, NEW R, StrictOrder(S, R), NEW p \in Seq(S), NEW q \in Seq(S), p # q
  PROVE  Before(p, q, R) \/ Before(q, p, R)
  <1>1. CASE \E i \in 1..Len(p) : FirstDifference(p, q, i)
    <2>1. PICK i \in 1..Len(p) : FirstDifference(p, q, i)
      BY <1>1
    <2>2. i \in 1..Len(q) /\ FirstDifference(q, p, i) /\ p[i] \in S /\ q[i] \in S /\ p[i] # q[i]
      BY <2>1 DEF FirstDifference
    <2>3. <<p[i], q[i]>> \in R \/ <<q[i], p[i]>> \in R
      BY <2>2 DEF StrictOrder
    <2> QED BY <2>1, <2>2, <2>3 DEF Before
  <1>2. CASE \A i \in DOMAIN p \cap DOMAIN q : p[i] = q[i]
    <2>1. Len(p) # Len(q)
      <3> SUFFICES ASSUME Len(p) = Len(q) PROVE FALSE
        OBVIOUS
      <3>1. \A i \in 1..Len(p) : p[i] = q[i]
        BY <1>2
      <3> QED BY <3>1, SeqEqual
    <2> QED BY <1>2, <2>1 DEF Before
  <1> QED BY <1>1, <1>2, FirstDifferenceExists

LEMMA BeforeIsTransitive ==
  ASSUME NEW S, NEW R, StrictOrder(S, R), NEW p \in Seq(S), NEW q \in Seq(S), NEW r \in Seq(S),
         Before(p, q, R), Before(q, r, R)
  PROVE  Before(p, r, R)
  <1>1. CASE \E i \in 1..Len(p) : FirstDifference(p, q, i) /\ <<p[i], q[i]>> \in R
    <2>1. PICK i \in 1..Len(p) : FirstDifference(p, q, i) /\ <<p[i], q[i]>> \in R
      BY <1>1
    <2>2. CASE \E j \in 1..Len(q) : FirstDifference(q, r, j) /\ <<q[j], r[j]>> \in R
      <3>1. PICK j \in 1..Len(q) : FirstDifference(q, r, j) /\ <<q[j], r[j]>> \in R
        BY <2>2
      <3>2. CASE i < j
        <4>1. i \in DOMAIN q \cap DOMAIN r /\ r[i] = q[i]
          BY <2>1, <3>1, <3>2 DEF FirstDifference
        <4>2. ASSUME NEW k \in DOMAIN p \cap DOMAIN r, k < i
              PROVE  p[k] = r[k]
          <5>1. k \in DOMAIN q /\ k < j
            BY <2>1, <3>1, <3>2, <4>2 DEF FirstDifference
          <5> QED BY <2>1, <3>1, <4>2, <5>1 DEF FirstDifference
        <4>3. FirstDifference(p, r, i)
          BY <2>1, <4>1, <4>2 DEF FirstDifference
        <4> QED BY <2>1, <4>1, <4>3 DEF Before
      <3>3. CASE j < i
        <4>1. j \in DOMAIN p \cap DOMAIN q
          BY <2>1, <3>1, <3>3 DEF FirstDifference
        <4>2. p[j] = q[j] /\ q[j] # r[j] /\ j \in DOMAIN r
          BY <2>1, <3>1, <3>3, <4>1 DEF FirstDifference
        <4>3. ASSUME NEW k \in DOMAIN p \cap DOMAIN r, k < j
              PROVE  p[k] = r[k]
          <5>1. k \in DOMAIN q /\ k < i
            BY <2>1, <3>1, <3>3, <4>3 DEF FirstDifference
          <5> QED BY <2>1, <3>1, <4>3, <5>1 DEF FirstDifference
        <4>4. FirstDifference(p, r, j)
          BY <4>1, <4>2, <4>3 DEF FirstDifference
        <4>5. j \in 1..Len(p) /\ <<p[j], r[j]>> \in R
          BY <3>1, <4>1, <4>2
        <4> QED BY <4>4, <4>5, Zenon DEF Before
      <3>4. CASE i = j
        <4>1. p[i] \in S /\ q[i] \in S /\ r[i] \in S /\ i \in 1..Len(r)
          BY <2>1, <3>1, <3>4 DEF FirstDifference
        <4>2. <<p[i], r[i]>> \in R
          BY <2>1, <3>1, <3>4, <4>1 DEF StrictOrder
        <4>3. p[i] # r[i]
          BY <4>1, <4>2 DEF StrictOrder
        <4>4. FirstDifference(p, r, i)
          BY <2>1, <3>1, <3>4, <4>1, <4>3 DEF FirstDifference
        <4> QED BY <2>1, <4>2, <4>4, Zenon DEF Before
      <3> QED BY <3>2, <3>3, <3>4
    <2>3. CASE (\A j \in DOMAIN q \cap DOMAIN r : q[j] = r[j]) /\ Len(q) < Len(r)
      <3>1. FirstDifference(p, r, i) /\ r[i] = q[i]
        BY <2>1, <2>3 DEF FirstDifference
      <3> QED BY <2>1, <3>1 DEF Before
    <2> QED BY <2>2, <2>3 DEF Before
  <1>2. CASE (\A i \in DOMAIN p \cap DOMAIN q : p[i] = q[i]) /\ Len(p) < Len(q)
    <2>1. CASE \E j \in 1..Len(q) : FirstDifference(q, r, j) /\ <<q[j], r[j]>> \in R
      <3>1. PICK j \in 1..Len(q) : FirstDifference(q, r, j) /\ <<q[j], r[j]>> \in R
        BY <2>1
      <3>2. CASE j <= Len(p)
        <4>1. j \in DOMAIN p \cap DOMAIN q /\ q[j] # r[j] /\ j \in DOMAIN r
          BY <3>1, <3>2 DEF FirstDifference
        <4>2. p[j] = q[j]
          BY <1>2, <4>1
        <4>3. ASSUME NEW k \in DOMAIN p \cap DOMAIN r, k < j
              PROVE  p[k] = r[k]
          <5>1. k \in DOMAIN q /\ k \in DOMAIN p
            BY <1>2, <4>3
          <5> QED BY <1>2, <3>1, <4>3, <5>1 DEF FirstDifference
        <4>4. FirstDifference(p, r, j)
          BY <4>1, <4>2, <4>3 DEF FirstDifference
        <4>5. j \in 1..Len(p) /\ <<p[j], r[j]>> \in R
          BY <3>1, <4>1, <4>2
        <4> QED BY <4>4, <4>5, Zenon DEF Before
      <3>3. CASE Len(p) < j
        <4>1. Len(p) < Len(r) /\ \A i \in DOMAIN p \cap DOMAIN r : p[i] = r[i]
          BY <1>2, <3>1, <3>3 DEF FirstDifference
        <4> QED BY <4>1, ShorterIsBefore
      <3> QED BY <3>2, <3>3
    <2>2. CASE (\A j \in DOMAIN q \cap DOMAIN r : q[j] = r[j]) /\ Len(q) < Len(r)
      <3>1. Len(p) < Len(r) /\ \A i \in DOMAIN p \cap DOMAIN r : p[i] = r[i]
        BY <1>2, <2>2
      <3> QED BY <3>1, ShorterIsBefore
    <2> QED BY <2>1, <2>2 DEF Before
  <1> QED BY <1>1, <1>2 DEF Before

LEMMA PrefixOfSeq ==
  ASSUME NEW S, NEW p \in Seq(S), NEW q \in Seq(S)
  PROVE  IsPrefix(p, q) <=> Len(p) <= Len(q) /\ \A i \in 1..Len(p) : p[i] = q[i]
  <1>1. CASE Len(p) <= Len(q)
    <2>1. /\ SubSeq(p, 1, Len(p)) \in Seq(S) /\ Len(SubSeq(p, 1, Len(p))) = Len(p)
          /\ \A i \in 1..Len(p) : SubSeq(p, 1, Len(p))[i] = p[i]
      OBVIOUS
    <2>2. /\ SubSeq(q, 1, Len(p)) \in Seq(S) /\ Len(SubSeq(q, 1, Len(p))) = Len(p)
          /\ \A i \in 1..Len(p) : SubSeq(q, 1, Len(p))[i] = q[i]
      BY <1>1
    <2>3. (SubSeq(p, 1, Len(p)) = SubSeq(q, 1, Len(p))) <=> \A i \in 1..Len(p) : p[i] = q[i]
      <3>1. ASSUME \A i \in 1..Len(p) : p[i] = q[i]
            PROVE  SubSeq(p, 1, Len(p)) = SubSeq(q, 1, Len(p))
        <4>1. \A i \in 1..Len(SubSeq(p, 1, Len(p))) :
                SubSeq(p, 1, Len(p))[i] = SubSeq(q, 1, Len(p))[i]
          BY <2>1, <2>2, <3>1
        <4> QED BY <2>1, <2>2, <4>1, SeqEqual
      <3> QED BY <2>1, <2>2, <3>1
    <2> QED BY <1>1, <2>3 DEF IsPrefix
  <1>2. CASE ~(Len(p) <= Len(q))
    BY <1>2 DEF IsPrefix
  <1> QED BY <1>1, <1>2

\* The sequences that begin with one follow it without a gap.
LEMMA PrefixesHaveNoGap ==
  ASSUME NEW S, NEW R, StrictOrder(S, R), NEW p \in Seq(S), NEW v \in Seq(S), NEW u \in Seq(S),
         IsPrefix(p, u), Before(p, v, R), Before(v, u, R)
  PROVE  IsPrefix(p, v)
  <1>1. Len(p) <= Len(u) /\ \A i \in 1..Len(p) : p[i] = u[i]
    BY PrefixOfSeq
  <1>2. ASSUME NEW i \in 1..Len(p), FirstDifference(p, v, i), <<p[i], v[i]>> \in R
        PROVE  FALSE
    <2>1. i \in 1..Len(v) /\ i \in 1..Len(u) /\ u[i] = p[i] /\ p[i] \in S /\ v[i] \in S
      BY <1>1, <1>2 DEF FirstDifference
    <2>2. FirstDifference(v, u, i)
      <3>1. v[i] # u[i]
        BY <1>2, <2>1 DEF FirstDifference
      <3>2. ASSUME NEW j \in DOMAIN v \cap DOMAIN u, j < i
            PROVE  v[j] = u[j]
        <4>1. j \in 1..Len(p)
          BY <2>1, <3>2
        <4> QED BY <1>1, <1>2, <3>2, <4>1 DEF FirstDifference
      <3> QED BY <2>1, <3>1, <3>2 DEF FirstDifference
    <2>3. ~(\A j \in DOMAIN v \cap DOMAIN u : v[j] = u[j])
      BY <2>2 DEF FirstDifference
    <2>4. PICK j \in 1..Len(v) : FirstDifference(v, u, j) /\ <<v[j], u[j]>> \in R
      BY <2>3 DEF Before
    <2>5. j = i
      BY <2>2, <2>4, FirstDifferenceIsUnique
    <2> QED BY <1>2, <2>1, <2>4, <2>5 DEF StrictOrder
  <1>3. (\A i \in DOMAIN p \cap DOMAIN v : p[i] = v[i]) /\ Len(p) < Len(v)
    BY <1>2 DEF Before
  <1>4. \A i \in 1..Len(p) : p[i] = v[i]
    BY <1>3
  <1> QED BY <1>3, <1>4, PrefixOfSeq

LEMMA PrefixIsBefore ==
  ASSUME NEW S, NEW R, NEW p \in Seq(S), NEW q \in Seq(S), IsPrefix(p, q), p # q
  PROVE  Before(p, q, R)
  <1>1. Len(p) <= Len(q) /\ \A i \in 1..Len(p) : p[i] = q[i]
    BY PrefixOfSeq
  <1>2. Len(p) # Len(q)
    BY <1>1, SeqEqual
  <1>3. Len(p) < Len(q)
    BY <1>1, <1>2
  <1>4. \A i \in DOMAIN p \cap DOMAIN q : p[i] = q[i]
    BY <1>1
  <1> QED BY <1>3, <1>4, ShorterIsBefore

LEMMA PrefixIsTransitive ==
  ASSUME NEW S, NEW p \in Seq(S), NEW q \in Seq(S), NEW r \in Seq(S), IsPrefix(p, q), IsPrefix(q, r)
  PROVE  IsPrefix(p, r)
  <1>1. Len(p) <= Len(q) /\ \A i \in 1..Len(p) : p[i] = q[i]
    BY PrefixOfSeq
  <1>2. Len(q) <= Len(r) /\ \A i \in 1..Len(q) : q[i] = r[i]
    BY PrefixOfSeq
  <1>3. Len(p) <= Len(r) /\ \A i \in 1..Len(p) : p[i] = r[i]
    BY <1>1, <1>2
  <1> QED BY <1>3, PrefixOfSeq

CharacterOrder == {p \in Characters \X Characters : Rank[p[1]] < Rank[p[2]]}
NameOrder      == {p \in Seq(Characters) \X Seq(Characters) : NameLess(p[1], p[2])}
PathOrder      == {p \in Seq(Seq(Characters)) \X Seq(Seq(Characters)) : PathLess(p[1], p[2])}

LEMMA CharactersAreOrdered == StrictOrder(Characters, CharacterOrder)
  <1>1. ASSUME NEW c \in Characters
        PROVE  Rank[c] \in Nat /\ Alphabet[Rank[c]] = c
    <2>1. PICK i \in DOMAIN Alphabet : Alphabet[i] = c
      BY DEF Characters
    <2>2. Rank[c] \in DOMAIN Alphabet /\ Alphabet[Rank[c]] = c
      BY <2>1 DEF Rank
    <2>3. Alphabet \in Seq(Characters)
      BY AlphabetAssumption, Zenon
    <2>4. DOMAIN Alphabet \subseteq Nat
      BY <2>3
    <2> QED BY <2>2, <2>4
  <1>2. \A a, b \in Characters : <<a, b>> \in CharacterOrder <=> Rank[a] < Rank[b]
    BY DEF CharacterOrder
  <1>3. \A a, b \in Characters : Rank[a] = Rank[b] => a = b
    BY <1>1
  <1> QED BY <1>1, <1>2, <1>3 DEF StrictOrder

\* NameLess and PathLess look for the smallest index where they differ.
LEMMA NameLessIsBefore ==
  ASSUME NEW m \in Seq(Characters), NEW n \in Seq(Characters)
  PROVE  NameLess(m, n) <=> Before(m, n, CharacterOrder)
  <1> DEFINE common == {i \in DOMAIN m \cap DOMAIN n : m[i] # n[i]}
  <1>1. CASE common = {}
    <2>1. NameLess(m, n) <=> Len(m) < Len(n)
      BY <1>1 DEF NameLess
    <2>2. \A i \in DOMAIN m \cap DOMAIN n : m[i] = n[i]
      BY <1>1
    <2> QED BY <2>1, <2>2, ShorterIsBefore
  <1>2. CASE common # {}
    <2>1. PICK i \in 1..Len(m) : FirstDifference(m, n, i)
      BY <1>2, FirstDifferenceExists
    <2>2. i \in common /\ \A j \in common : i <= j
      BY <2>1 DEF FirstDifference
    <2>3. \A j \in common : (\A k \in common : j <= k) => j = i
      BY <2>2
    <2>4. (CHOOSE j \in common : \A k \in common : j <= k) = i
      <3> HIDE DEF common
      <3> QED BY <2>2, <2>3
    <2>5. NameLess(m, n) <=> Rank[m[i]] < Rank[n[i]]
      BY <1>2, <2>4 DEF NameLess
    <2>6. m[i] \in Characters /\ n[i] \in Characters /\ m[i] # n[i]
      BY <2>1 DEF FirstDifference
    <2>7. NameLess(m, n) <=> <<m[i], n[i]>> \in CharacterOrder
      BY <2>5, <2>6 DEF CharacterOrder
    <2>8. \A j \in 1..Len(m) : FirstDifference(m, n, j) => j = i
      BY <2>1, FirstDifferenceIsUnique
    <2>9. ~(\A j \in DOMAIN m \cap DOMAIN n : m[j] = n[j])
      BY <2>2
    <2> QED BY <2>1, <2>7, <2>8, <2>9 DEF Before
  <1> QED BY <1>1, <1>2

LEMMA NamesAreOrdered == StrictOrder(Seq(Characters), NameOrder)
  <1>1. \A m, n \in Seq(Characters) : <<m, n>> \in NameOrder <=> Before(m, n, CharacterOrder)
    BY NameLessIsBefore DEF NameOrder
  <1>2. \A m \in Seq(Characters) : <<m, m>> \notin NameOrder
    BY <1>1, BeforeIsIrreflexive
  <1>3. \A m, n \in Seq(Characters) : m # n => <<m, n>> \in NameOrder \/ <<n, m>> \in NameOrder
    BY <1>1, BeforeIsTotal, CharactersAreOrdered
  <1>4. \A l, m, n \in Seq(Characters) :
          <<l, m>> \in NameOrder /\ <<m, n>> \in NameOrder => <<l, n>> \in NameOrder
    BY <1>1, BeforeIsTransitive, CharactersAreOrdered
  <1> QED BY <1>2, <1>3, <1>4 DEF StrictOrder

LEMMA PathLessIsBefore ==
  ASSUME NEW p \in Seq(Seq(Characters)), NEW q \in Seq(Seq(Characters))
  PROVE  PathLess(p, q) <=> Before(p, q, NameOrder)
  <1> DEFINE common == {i \in DOMAIN p \cap DOMAIN q : p[i] # q[i]}
  <1>1. CASE common = {}
    <2>1. PathLess(p, q) <=> Len(p) < Len(q)
      BY <1>1 DEF PathLess
    <2>2. \A i \in DOMAIN p \cap DOMAIN q : p[i] = q[i]
      BY <1>1
    <2> QED BY <2>1, <2>2, ShorterIsBefore
  <1>2. CASE common # {}
    <2>1. PICK i \in 1..Len(p) : FirstDifference(p, q, i)
      BY <1>2, FirstDifferenceExists
    <2>2. i \in common /\ \A j \in common : i <= j
      BY <2>1 DEF FirstDifference
    <2>3. \A j \in common : (\A k \in common : j <= k) => j = i
      BY <2>2
    <2>4. (CHOOSE j \in common : \A k \in common : j <= k) = i
      <3> HIDE DEF common
      <3> QED BY <2>2, <2>3
    <2>5. PathLess(p, q) <=> NameLess(p[i], q[i])
      BY <1>2, <2>4 DEF PathLess
    <2>6. p[i] \in Seq(Characters) /\ q[i] \in Seq(Characters)
      BY <2>1 DEF FirstDifference
    <2>7. PathLess(p, q) <=> <<p[i], q[i]>> \in NameOrder
      BY <2>5, <2>6 DEF NameOrder
    <2>8. \A j \in 1..Len(p) : FirstDifference(p, q, j) => j = i
      BY <2>1, FirstDifferenceIsUnique
    <2>9. ~(\A j \in DOMAIN p \cap DOMAIN q : p[j] = q[j])
      BY <2>2
    <2> QED BY <2>1, <2>7, <2>8, <2>9 DEF Before
  <1> QED BY <1>1, <1>2

LEMMA PathsAreOrdered == StrictOrder(Seq(Seq(Characters)), PathOrder)
  <1>1. \A p, q \in Seq(Seq(Characters)) : <<p, q>> \in PathOrder <=> Before(p, q, NameOrder)
    BY PathLessIsBefore DEF PathOrder
  <1>2. \A p \in Seq(Seq(Characters)) : <<p, p>> \notin PathOrder
    BY <1>1, BeforeIsIrreflexive
  <1>3. \A p, q \in Seq(Seq(Characters)) : p # q => <<p, q>> \in PathOrder \/ <<q, p>> \in PathOrder
    BY <1>1, BeforeIsTotal, NamesAreOrdered
  <1>4. \A p, q, r \in Seq(Seq(Characters)) :
          <<p, q>> \in PathOrder /\ <<q, r>> \in PathOrder => <<p, r>> \in PathOrder
    BY <1>1, BeforeIsTransitive, NamesAreOrdered
  <1> QED BY <1>2, <1>3, <1>4 DEF StrictOrder

-----------------------------------------------------------------------------
(***************************************************************************)
(* The pass over the selected paths.                                       *)
(***************************************************************************)
Sources == [id : Nat, parent : Seq(Seq(Characters)), name : Seq(Characters),
            object : Objects \cup {Foreign}]

PathsDiffer(S) == \A s, t \in S : Path(s) = Path(t) => s = t

LEMMA PathType ==
  ASSUME NEW s, s.parent \in Seq(Seq(Characters)), s.name \in Seq(Characters)
  PROVE  Path(s) \in Seq(Seq(Characters))
  BY DEF Path

LEMMA SourcePaths == \A s \in Sources : Path(s) \in Seq(Seq(Characters))
  BY PathType DEF Sources

LEMMA RangeIsFinite ==
  ASSUME NEW S, NEW q \in Seq(S)
  PROVE  IsFiniteSet(Range(q)) /\ Range(q) \subseteq S
  <1>1. DOMAIN q = 1..Len(q) /\ Len(q) \in Nat /\ q = [k \in DOMAIN q |-> q[k]]
    OBVIOUS
  <1>2. IsFiniteSet(1..Len(q))
    <2>1. 1 \in Int /\ Len(q) \in Int
      BY <1>1
    <2> QED BY <2>1, FS_Interval, Zenon
  <1>3. IsFiniteSet({q[k] : k \in DOMAIN q})
    BY <1>1, <1>2, FiniteImage
  <1> QED BY <1>1, <1>3 DEF Range

LEMMA SelectedInOrder ==
  ASSUME NEW sources \in Seq(Sources), PathsDiffer(Range(sources))
  PROVE  LET n == Cardinality(Range(sources))
             q == SelectedSources(sources)
         IN /\ n \in Nat /\ q \in [1..n -> Range(sources)]
            /\ \A s \in Range(sources) : \E i \in 1..n : q[i] = s
            /\ \A i, j \in 1..n : i < j <=> PathLess(Path(q[i]), Path(q[j]))
  <1> DEFINE S == Range(sources)
             R == {p \in S \X S : SelectionLess(Path(p[1]), Path(p[2]))}
  <1>1. S \subseteq Sources
    BY RangeIsFinite
  <1>2. IsFiniteSet(S)
    BY RangeIsFinite
  <1>3. \A s, t \in S : <<s, t>> \in R <=> <<Path(s), Path(t)>> \in PathOrder
    <2>1. \A s, t \in S : <<s, t>> \in R <=> PathLess(Path(s), Path(t))
      BY DEF SelectionLess
    <2>2. \A s \in S : Path(s) \in Seq(Seq(Characters))
      BY <1>1, SourcePaths
    <2> HIDE DEF R, S
    <2> QED BY <2>1, <2>2 DEF PathOrder
  <1>4. StrictOrder(S, R)
    <2>1. \A s \in S : Path(s) \in Seq(Seq(Characters))
      BY <1>1, SourcePaths
    <2>2. \A s, t \in S : s # t => Path(s) # Path(t)
      BY DEF PathsDiffer
    <2> HIDE DEF R, S
    <2> QED BY <1>3, <2>1, <2>2, PathsAreOrdered DEF StrictOrder
  <1>5. SelectedSources(sources) = Sorted(S, R)
    BY DEF SelectedSources
  <1>6. \A s, t \in S : <<s, t>> \in R <=> PathLess(Path(s), Path(t))
    BY DEF SelectionLess
  <1> HIDE DEF R, S
  <1>7. /\ Cardinality(S) \in Nat
        /\ Sorted(S, R) \in [1..Cardinality(S) -> S]
        /\ \A s \in S : \E i \in 1..Cardinality(S) : Sorted(S, R)[i] = s
        /\ \A i, j \in 1..Cardinality(S) : i < j <=> <<Sorted(S, R)[i], Sorted(S, R)[j]>> \in R
    BY <1>2, <1>4, SortedIsSorted
  <1>8. \A i, j \in 1..Cardinality(S) : i < j <=> PathLess(Path(Sorted(S, R)[i]), Path(Sorted(S, R)[j]))
    BY <1>6, <1>7
  <1> QED BY <1>5, <1>7, <1>8 DEF S

LEMMA RangeOfAppend ==
  ASSUME NEW S, NEW p \in Seq(S), NEW s \in S
  PROVE  Range(Append(p, s)) = Range(p) \cup {s}
  <1>1. /\ Len(Append(p, s)) = Len(p) + 1 /\ DOMAIN Append(p, s) = 1..(Len(p) + 1)
        /\ \A k \in 1..Len(p) : Append(p, s)[k] = p[k]
        /\ Append(p, s)[Len(p) + 1] = s
        /\ Len(p) \in Nat /\ DOMAIN p = 1..Len(p)
    OBVIOUS
  <1>2. ASSUME NEW x \in Range(p)
        PROVE  x \in Range(Append(p, s))
    <2>1. PICK k \in 1..Len(p) : p[k] = x
      BY <1>1 DEF Range
    <2>2. k \in 1..(Len(p) + 1) /\ Append(p, s)[k] = x
      BY <1>1, <2>1
    <2> QED BY <1>1, <2>2 DEF Range
  <1>3. s \in Range(Append(p, s))
    <2>1. Len(p) + 1 \in DOMAIN Append(p, s)
      BY <1>1
    <2> QED BY <1>1, <2>1 DEF Range
  <1>4. ASSUME NEW x \in Range(Append(p, s)), x # s
        PROVE  x \in Range(p)
    <2>1. PICK k \in 1..(Len(p) + 1) : Append(p, s)[k] = x
      BY <1>1 DEF Range
    <2>2. k \in 1..Len(p)
      BY <1>1, <1>4, <2>1
    <2> QED BY <1>1, <2>1, <2>2 DEF Range
  <1> QED BY <1>2, <1>3, <1>4

\* A stack of directories each of which holds the next one
Nested(stack) ==
  \A k, l \in DOMAIN stack : k < l => StartsWith(Path(stack[l]), Path(stack[k]))

LEMMA EnclosingIsWhatHolds ==
  ASSUME NEW stack \in Seq(Sources), Nested(stack), NEW s \in Sources
  PROVE  /\ Enclosing(stack, s) \in Seq(Sources)
         /\ Nested(Enclosing(stack, s))
         /\ Range(Enclosing(stack, s)) = {t \in Range(stack) : StartsWith(Path(s), Path(t))}
         /\ stack # <<>> /\ StartsWith(Path(s), Path(stack[Len(stack)])) => Enclosing(stack, s) = stack
  <1> DEFINE depths == {k \in DOMAIN stack : StartsWith(Path(s), Path(stack[k]))}
             depth == IF depths = {} THEN 0 ELSE CHOOSE k \in depths : \A d \in depths : d <= k
  <1>1. depth \in 0..Len(stack) /\ (depth # 0 => depth \in depths) /\ \A d \in depths : d <= depth
    <2>1. CASE depths = {}
      BY <2>1
    <2>2. CASE depths # {}
      <3>1. depths \in SUBSET Nat /\ depths \subseteq 1..Len(stack)
        OBVIOUS
      <3>2. IsFiniteSet(depths)
        <4>1. IsFiniteSet(1..Len(stack))
          BY FS_Interval
        <4> HIDE DEF depths
        <4> QED BY <3>1, <4>1, FS_Subset
      <3> HIDE DEF depths
      <3>3. \E k \in depths : \A d \in depths : d <= k
        BY <2>2, <3>1, <3>2, LargestOfFinite
      <3>4. depth \in depths /\ \A d \in depths : d <= depth
        BY <2>2, <3>3
      <3>5. Len(stack) \in Nat
        OBVIOUS
      <3> HIDE DEF depth
      <3> QED BY <3>1, <3>4, <3>5
    <2> QED BY <2>1, <2>2
  <1>2. Enclosing(stack, s) = SubSeq(stack, 1, depth)
    BY DEF Enclosing
  <1>3. \A k \in DOMAIN stack : k \in depths <=> StartsWith(Path(s), Path(stack[k]))
    OBVIOUS
  <1>4. depths \subseteq 1..Len(stack)
    OBVIOUS
  <1> HIDE DEF depth, depths
  <1>5. ASSUME NEW k \in 1..depth
        PROVE  k \in depths
    <2>1. k \in DOMAIN stack /\ depth \in DOMAIN stack /\ depth # 0
      BY <1>1
    <2>2. CASE k = depth
      BY <1>1, <2>1, <2>2
    <2>3. CASE k < depth
      <3>1. IsPrefix(Path(stack[k]), Path(stack[depth]))
        BY <2>1, <2>3 DEF Nested, StartsWith
      <3>2. IsPrefix(Path(stack[depth]), Path(s))
        BY <1>1, <1>3, <2>1 DEF StartsWith
      <3>3. /\ Path(stack[k]) \in Seq(Seq(Characters)) /\ Path(stack[depth]) \in Seq(Seq(Characters))
            /\ Path(s) \in Seq(Seq(Characters))
        BY <2>1, SourcePaths
      <3>4. IsPrefix(Path(stack[k]), Path(s))
        BY <3>1, <3>2, <3>3, PrefixIsTransitive
      <3> QED BY <1>3, <2>1, <3>4 DEF StartsWith
    <2> QED BY <1>1, <2>2, <2>3
  <1>6. /\ SubSeq(stack, 1, depth) \in Seq(Sources) /\ Len(SubSeq(stack, 1, depth)) = depth
        /\ DOMAIN SubSeq(stack, 1, depth) = 1..depth
        /\ \A k \in 1..depth : SubSeq(stack, 1, depth)[k] = stack[k]
    BY <1>1
  <1>7. Nested(SubSeq(stack, 1, depth))
    BY <1>1, <1>6 DEF Nested
  <1>8. Range(SubSeq(stack, 1, depth)) = {t \in Range(stack) : StartsWith(Path(s), Path(t))}
    <2>1. ASSUME NEW k \in 1..depth
          PROVE  stack[k] \in Range(stack) /\ StartsWith(Path(s), Path(stack[k]))
      BY <1>1, <1>3, <1>5 DEF Range
    <2>2. ASSUME NEW t \in Range(stack), StartsWith(Path(s), Path(t))
          PROVE  \E k \in 1..depth : stack[k] = t
      <3>1. PICK k \in 1..Len(stack) : stack[k] = t
        BY DEF Range
      <3>2. k \in depths
        BY <1>3, <2>2, <3>1
      <3>3. k \in 1..depth
        BY <1>1, <1>4, <3>2
      <3> QED BY <3>1, <3>3
    <2>3. Range(SubSeq(stack, 1, depth)) = {stack[k] : k \in 1..depth}
      BY <1>6 DEF Range
    <2> QED BY <2>1, <2>2, <2>3
  <1>9. ASSUME stack # <<>>, StartsWith(Path(s), Path(stack[Len(stack)]))
        PROVE  SubSeq(stack, 1, depth) = stack
    <2>1. Len(stack) \in DOMAIN stack
      BY <1>9
    <2>2. Len(stack) \in depths
      BY <1>3, <1>9, <2>1
    <2>3. depth = Len(stack)
      BY <1>1, <2>2
    <2> QED BY <1>6, <2>3, SeqEqual
  <1> QED BY <1>2, <1>6, <1>7, <1>8, <1>9

Holds(t, u) == t.object \in Directories /\ StartsWith(Path(u), Path(t))

InConflict(S) == {t \in S : \E u \in S \ {t} : Holds(t, u) \/ Holds(u, t)}

InTheWay(S) == {s.id : s \in InConflict(S)}

\* After i sources the conflicts are those among them, and the stack is made
\* of the directories among them that hold the last one.
PassedUpTo(q, v, i) ==
  LET done == {q[k] : k \in 1..i}
      stack == v[i].stack
  IN /\ v[i].conflicts = InTheWay(done)
     /\ stack \in Seq(Sources) /\ Nested(stack)
     /\ Range(stack) = {t \in done : Holds(t, q[i])}
     /\ i # 0 /\ q[i].object \in Directories => stack # <<>> /\ stack[Len(stack)] = q[i]

LEMMA PassKeepsItsInvariant ==
  ASSUME NEW n \in Nat, NEW q \in [1..n -> Sources], NEW v, NEW i \in 1..n,
         \A j, k \in 1..n : j < k <=> PathLess(Path(q[j]), Path(q[k])),
         v[i] = Visit(v[i - 1], q[i]),
         PassedUpTo(q, v, i - 1)
  PROVE  PassedUpTo(q, v, i)
  <1> DEFINE s == q[i]
             done == {q[k] : k \in 1..(i - 1)}
             old == v[i - 1].stack
             enclosing == Enclosing(old, s)
             stack == v[i].stack
  <1>1. s \in Sources /\ done \subseteq Sources /\ {q[k] : k \in 1..i} = done \cup {s}
    OBVIOUS
  <1>2. /\ v[i - 1].conflicts = InTheWay(done)
        /\ old \in Seq(Sources) /\ Nested(old)
        /\ Range(old) = {t \in done : Holds(t, q[i - 1])}
        /\ i - 1 # 0 /\ q[i - 1].object \in Directories => old # <<>> /\ old[Len(old)] = q[i - 1]
    BY DEF PassedUpTo
  <1>3. /\ v[i].conflicts = IF enclosing = <<>> THEN v[i - 1].conflicts
                            ELSE v[i - 1].conflicts \cup {enclosing[Len(enclosing)].id, s.id}
        /\ stack = IF s.object \in Directories THEN Append(enclosing, s) ELSE enclosing
    BY DEF Visit
  <1>4. /\ enclosing \in Seq(Sources) /\ Nested(enclosing)
        /\ Range(enclosing) = {t \in Range(old) : StartsWith(Path(s), Path(t))}
        /\ old # <<>> /\ StartsWith(Path(s), Path(old[Len(old)])) => enclosing = old
    <2> HIDE DEF enclosing, old, s
    <2>1. old \in Seq(Sources) /\ Nested(old) /\ s \in Sources
      BY <1>1, <1>2
    <2> QED BY <2>1, EnclosingIsWhatHolds DEF enclosing
  \* A source that holds the next one holds every source in between.
  <1>5. ASSUME NEW j \in 1..n, NEW k \in 1..n, NEW l \in 1..n, j < k, k < l, Holds(q[j], q[l])
        PROVE  Holds(q[j], q[k])
    <2>1. /\ Path(q[j]) \in Seq(Seq(Characters)) /\ Path(q[k]) \in Seq(Seq(Characters))
          /\ Path(q[l]) \in Seq(Seq(Characters))
      BY SourcePaths
    <2>2. PathLess(Path(q[j]), Path(q[k])) /\ PathLess(Path(q[k]), Path(q[l]))
      BY <1>5
    <2>3. Before(Path(q[j]), Path(q[k]), NameOrder) /\ Before(Path(q[k]), Path(q[l]), NameOrder)
      BY <2>1, <2>2, PathLessIsBefore
    <2>4. IsPrefix(Path(q[j]), Path(q[l]))
      BY <1>5 DEF Holds, StartsWith
    <2>5. IsPrefix(Path(q[j]), Path(q[k]))
      BY <2>1, <2>3, <2>4, PrefixesHaveNoGap, NamesAreOrdered
    <2> QED BY <1>5, <2>5 DEF Holds, StartsWith
  \* A source holds no source before it.
  <1>6. ASSUME NEW j \in 1..n, NEW k \in 1..n, j < k
        PROVE  ~Holds(q[k], q[j])
    <2>1. Path(q[j]) \in Seq(Seq(Characters)) /\ Path(q[k]) \in Seq(Seq(Characters))
      BY SourcePaths
    <2>2. PathLess(Path(q[j]), Path(q[k])) /\ ~PathLess(Path(q[k]), Path(q[j]))
      BY <1>6
    <2>3. ~Before(Path(q[k]), Path(q[j]), NameOrder)
      BY <2>1, <2>2, PathLessIsBefore
    <2>4. Path(q[j]) # Path(q[k])
      BY <2>2
    <2>5. ~IsPrefix(Path(q[k]), Path(q[j]))
      BY <2>1, <2>3, <2>4, PrefixIsBefore
    <2> QED BY <2>5 DEF Holds, StartsWith
  <1>7. \A j, k \in 1..n : q[j] = q[k] => j = k
    <2>1. \A j, k \in 1..n : q[j] = q[k] => ~(j < k) /\ ~(k < j)
      OBVIOUS
    <2> QED BY <2>1
  <1>8. Range(enclosing) = {t \in done : Holds(t, s)}
    <2>1. ASSUME NEW t \in done, Holds(t, s)
          PROVE  t \in Range(old)
      <3>1. PICK j \in 1..(i - 1) : t = q[j]
        BY <2>1
      <3>2. j \in 1..n /\ i - 1 \in 1..n /\ j < i
        BY <3>1
      <3>3. CASE j = i - 1
        <4>1. t.object \in Directories /\ IsPrefix(Path(t), Path(t))
          <5>1. Path(t) \in Seq(Seq(Characters))
            BY <3>1, <3>2, SourcePaths
          <5> QED BY <2>1, <5>1, PrefixOfSeq DEF Holds
        <4> QED BY <1>2, <2>1, <3>1, <3>3, <4>1 DEF Holds, StartsWith
      <3>4. CASE j < i - 1
        <4>1. i - 1 < i
          OBVIOUS
        <4>2. Holds(q[j], q[i - 1])
          BY <1>5, <2>1, <3>1, <3>2, <3>4, <4>1
        <4> QED BY <1>2, <2>1, <3>1, <4>2
      <3> QED BY <3>1, <3>2, <3>3, <3>4
    <2>2. ASSUME NEW t \in Range(old), StartsWith(Path(s), Path(t))
          PROVE  t \in done /\ Holds(t, s)
      BY <1>2, <2>2 DEF Holds
    <2>3. \A t : Holds(t, s) => StartsWith(Path(s), Path(t))
      BY DEF Holds
    <2> HIDE DEF done, enclosing, s, old
    <2> QED BY <1>2, <1>4, <2>1, <2>2, <2>3
  <1>9. v[i].conflicts = InTheWay(done \cup {s})
    <2>1. s \notin done
      <3>1. \A k \in 1..(i - 1) : q[k] # s
        BY <1>7
      <3> QED BY <3>1
    <2>2. \A t \in done : ~Holds(s, t)
      BY <1>6
    <2>3. CASE enclosing = <<>>
      <3>1. Range(enclosing) = {}
        BY <2>3 DEF Range
      <3>2. \A t \in done : ~Holds(t, s)
        <4> HIDE DEF done, s, enclosing
        <4> QED BY <1>8, <3>1
      <3>3. InConflict(done \cup {s}) = InConflict(done)
        <4> HIDE DEF done, s
        <4> QED BY <2>1, <2>2, <3>2 DEF InConflict
      <3>4. v[i].conflicts = v[i - 1].conflicts
        BY <1>3, <2>3
      <3> QED BY <1>2, <3>3, <3>4 DEF InTheWay
    <2>4. CASE enclosing # <<>>
      <3> DEFINE top == enclosing[Len(enclosing)]
      <3>1. top \in Range(enclosing)
        <4> HIDE DEF enclosing
        <4> QED BY <1>4, <2>4 DEF Range
      <3>2. top \in done /\ Holds(top, s)
        <4> HIDE DEF done, s, enclosing
        <4> QED BY <1>8, <3>1
      <3>3. ASSUME NEW t \in done, Holds(t, s)
            PROVE  t \in InConflict(done) \/ t = top
        <4>1. PICK j \in 1..(i - 1) : t = q[j]
          OBVIOUS
        <4>2. CASE j = i - 1
          <5>1. t.object \in Directories /\ StartsWith(Path(s), Path(t))
            BY <3>3 DEF Holds
          <5>2. old # <<>> /\ old[Len(old)] = t
            <6> HIDE DEF old, done, s
            <6> QED BY <1>2, <4>1, <4>2, <5>1
          <5>3. enclosing = old
            <6> HIDE DEF old, enclosing, s
            <6> QED BY <1>4, <5>1, <5>2
          <5> HIDE DEF enclosing, old
          <5> QED BY <5>2, <5>3 DEF top
        <4>3. CASE j < i - 1
          <5>1. j \in 1..n /\ j + 1 \in 1..n /\ j < j + 1 /\ j + 1 < i /\ j + 1 \in 1..(i - 1)
            BY <4>1, <4>3
          <5>2. Holds(t, q[j + 1])
            BY <1>5, <3>3, <4>1, <5>1
          <5>3. q[j + 1] \in done /\ q[j + 1] # t
            BY <1>7, <4>1, <5>1
          <5> HIDE DEF done
          <5> QED BY <3>3, <5>2, <5>3 DEF InConflict
        <4> QED BY <4>1, <4>2, <4>3
      <3>4. v[i].conflicts = InTheWay(done) \cup {top.id, s.id}
        <4> HIDE DEF enclosing, done, s
        <4> QED BY <1>2, <1>3, <2>4
      <3> HIDE DEF done, s, top, enclosing
      <3>5. InConflict(done \cup {s}) = InConflict(done) \cup {top, s}
        <4>1. ASSUME NEW t \in InConflict(done)
              PROVE  t \in InConflict(done \cup {s})
          BY DEF InConflict
        <4>2. top \in InConflict(done \cup {s}) /\ s \in InConflict(done \cup {s})
          BY <2>1, <3>2 DEF InConflict
        <4>3. ASSUME NEW t \in InConflict(done \cup {s}), t # s
              PROVE  t \in InConflict(done) \/ t = top
          <5>1. t \in done
            BY <4>3 DEF InConflict
          <5>2. CASE Holds(t, s)
            BY <3>3, <5>1, <5>2
          <5>3. CASE ~Holds(t, s)
            BY <2>2, <4>3, <5>1, <5>3 DEF InConflict
          <5> QED BY <5>2, <5>3
        <4> QED BY <4>1, <4>2, <4>3
      <3> QED BY <3>4, <3>5 DEF InTheWay
    <2> QED BY <2>3, <2>4
  <1>10. /\ stack \in Seq(Sources) /\ Nested(stack)
         /\ Range(stack) = {t \in done \cup {s} : Holds(t, s)}
         /\ s.object \in Directories => stack # <<>> /\ stack[Len(stack)] = s
    <2>1. StartsWith(Path(s), Path(s))
      <3>1. Path(s) \in Seq(Seq(Characters))
        BY <1>1, SourcePaths
      <3> QED BY <3>1, PrefixOfSeq DEF StartsWith
    <2> HIDE DEF done, enclosing, s, old, stack
    <2>2. CASE s.object \in Directories
      <3>1. stack = Append(enclosing, s)
        BY <1>3, <2>2
      <3>2. /\ Append(enclosing, s) \in Seq(Sources) /\ Len(Append(enclosing, s)) = Len(enclosing) + 1
            /\ \A k \in 1..Len(enclosing) : Append(enclosing, s)[k] = enclosing[k]
            /\ Append(enclosing, s)[Len(enclosing) + 1] = s
            /\ Len(enclosing) \in Nat
        BY <1>1, <1>4
      <3>3. Range(Append(enclosing, s)) = Range(enclosing) \cup {s}
        BY <1>1, <1>4, RangeOfAppend
      <3>4. Nested(Append(enclosing, s))
        <4> SUFFICES ASSUME NEW k \in 1..(Len(enclosing) + 1), NEW l \in 1..(Len(enclosing) + 1), k < l
                     PROVE  StartsWith(Path(Append(enclosing, s)[l]), Path(Append(enclosing, s)[k]))
          BY <3>2 DEF Nested
        <4>1. k \in 1..Len(enclosing) /\ Append(enclosing, s)[k] = enclosing[k]
          BY <3>2
        <4>2. CASE l = Len(enclosing) + 1
          <5>1. enclosing[k] \in Range(enclosing)
            BY <1>4, <4>1 DEF Range
          <5>2. StartsWith(Path(s), Path(enclosing[k]))
            BY <1>4, <5>1
          <5> QED BY <3>2, <4>1, <4>2, <5>2
        <4>3. CASE l # Len(enclosing) + 1
          <5>1. l \in 1..Len(enclosing) /\ Append(enclosing, s)[l] = enclosing[l]
            BY <3>2, <4>3
          <5> QED BY <1>4, <4>1, <5>1 DEF Nested
        <4> QED BY <4>2, <4>3
      <3>5. Holds(s, s)
        BY <2>1, <2>2 DEF Holds
      <3>6. Range(stack) = {t \in done \cup {s} : Holds(t, s)}
        BY <1>8, <3>1, <3>3, <3>5
      <3>7. stack # <<>> /\ stack[Len(stack)] = s
        BY <3>1, <3>2
      <3> QED BY <3>1, <3>2, <3>4, <3>6, <3>7
    <2>3. CASE s.object \notin Directories
      <3>1. stack = enclosing /\ ~Holds(s, s)
        BY <1>3, <2>3 DEF Holds
      <3> QED BY <1>4, <1>8, <2>3, <3>1
    <2> QED BY <2>2, <2>3
  <1> QED BY <1>1, <1>9, <1>10 DEF PassedUpTo

\* The pass finds every directory that holds another source.
LEMMA ConflictsAreFound ==
  ASSUME NEW sources \in Seq(Sources), PathsDiffer(Range(sources))
  PROVE  AncestorConflicts(sources) = InTheWay(Range(sources))
  <1> DEFINE S == Range(sources)
             n == Cardinality(S)
             q == SelectedSources(sources)
             v == VisitedInTurn(q)
             K == {i \in 0..n : PassedUpTo(q, v, i)}
  <1>1. /\ n \in Nat /\ q \in [1..n -> S]
        /\ \A s \in S : \E i \in 1..n : q[i] = s
        /\ \A i, j \in 1..n : i < j <=> PathLess(Path(q[i]), Path(q[j]))
    BY SelectedInOrder
  <1>2. S \subseteq Sources
    BY DEF Range
  <1> HIDE DEF S, n, q
  <1>3. q \in [1..n -> Sources] /\ Len(q) = n
    BY <1>1, <1>2
  <1>4. v[0] = NothingVisited /\ \A i \in 1..n : v[i] = Visit(v[i - 1], q[i])
    BY <1>1, <1>3, VisitedIsDefined
  <1> HIDE DEF v
  <1>5. PassedUpTo(q, v, 0)
    <2>1. {q[k] : k \in 1..0} = {}
      OBVIOUS
    <2>2. v[0].conflicts = {} /\ v[0].stack = <<>>
      BY <1>4 DEF NothingVisited
    <2>3. InTheWay({}) = {}
      BY DEF InTheWay, InConflict
    <2>4. <<>> \in Seq(Sources) /\ Nested(<<>>) /\ Range(<<>>) = {}
      BY DEF Nested, Range
    <2> QED BY <2>1, <2>2, <2>3, <2>4 DEF PassedUpTo
  <1>6. ASSUME NEW i \in 0..(n - 1), PassedUpTo(q, v, i)
        PROVE  PassedUpTo(q, v, i + 1)
    <2>1. i + 1 \in 1..n /\ (i + 1) - 1 = i
      BY <1>1
    <2>2. PassedUpTo(q, v, (i + 1) - 1) /\ v[i + 1] = Visit(v[(i + 1) - 1], q[i + 1])
      BY <1>4, <1>6, <2>1
    <2> QED BY <1>1, <1>3, <2>1, <2>2, PassKeepsItsInvariant
  <1>7. n \in K
    <2>1. 0 \in K /\ \A i \in 0..(n - 1) : i \in K => i + 1 \in K
      BY <1>1, <1>5, <1>6
    <2> HIDE DEF K
    <2>2. \A i \in 0..n : i \in K
      BY <1>1, <2>1, BoundedInduction
    <2> QED BY <1>1, <2>2
  <1>8. v[n].conflicts = InTheWay({q[k] : k \in 1..n})
    BY <1>7 DEF PassedUpTo
  <1>9. {q[k] : k \in 1..n} = S
    BY <1>1
  <1> QED BY <1>8, <1>9 DEF AncestorConflicts, v, q, n, S

-----------------------------------------------------------------------------
(***************************************************************************)
(* Sequence numbers.                                                       *)
(***************************************************************************)
IdsDiffer(S) == \A s, t \in S : s.id = t.id => s = t

\* The order of a rule
Earlier(order, s, t) ==
  IF order = "source" \/ s.name = t.name THEN s.id < t.id ELSE NameLess(s.name, t.name)

LEMMA OrderedInOrder ==
  ASSUME NEW sources \in Seq(Sources), IdsDiffer(Range(sources)), NEW order
  PROVE  LET n == Cardinality(Range(sources))
             q == OrderedSources(sources, order)
         IN /\ n \in Nat /\ q \in [1..n -> Range(sources)]
            /\ \A s \in Range(sources) : \E i \in 1..n : q[i] = s
            /\ \A i, j \in 1..n : i < j <=> Earlier(order, q[i], q[j])
  <1> DEFINE S == Range(sources)
             R == {p \in S \X S : Earlier(order, p[1], p[2])}
  <1>1. S \subseteq Sources /\ IsFiniteSet(S)
    BY RangeIsFinite
  <1>2. \A s, t \in S : <<s, t>> \in R <=> Earlier(order, s, t)
    OBVIOUS
  <1>3. \A s, t \in S : s # t => s.id # t.id
    BY DEF IdsDiffer
  <1>4. OrderedSources(sources, order) = Sorted(S, R)
    BY DEF OrderedSources, Earlier
  <1> HIDE DEF R, S
  <1>5. \A s \in S : s.id \in Nat /\ s.name \in Seq(Characters)
    BY <1>1 DEF Sources
  <1>6. \A s, t \in S : NameLess(s.name, t.name) <=> <<s.name, t.name>> \in NameOrder
    BY <1>5 DEF NameOrder
  <1>7. StrictOrder(S, R)
    <2>1. \A s \in S : <<s, s>> \notin R
      BY <1>2, <1>5 DEF Earlier
    <2>2. \A s, t \in S : s # t => <<s, t>> \in R \/ <<t, s>> \in R
      <3> SUFFICES ASSUME NEW s \in S, NEW t \in S, s # t
                   PROVE  Earlier(order, s, t) \/ Earlier(order, t, s)
        BY <1>2
      <3>1. CASE order = "source" \/ s.name = t.name
        BY <1>3, <1>5, <3>1 DEF Earlier
      <3>2. CASE ~(order = "source" \/ s.name = t.name)
        <4>1. <<s.name, t.name>> \in NameOrder \/ <<t.name, s.name>> \in NameOrder
          BY <1>5, <3>2, NamesAreOrdered DEF StrictOrder
        <4> QED BY <1>6, <3>2, <4>1 DEF Earlier
      <3> QED BY <3>1, <3>2
    <2>3. ASSUME NEW s \in S, NEW t \in S, NEW u \in S, <<s, t>> \in R, <<t, u>> \in R
          PROVE  <<s, u>> \in R
      <3>1. Earlier(order, s, t) /\ Earlier(order, t, u)
        BY <1>2, <2>3
      <3>2. CASE order = "source"
        <4>1. s.id < t.id /\ t.id < u.id
          BY <3>1, <3>2 DEF Earlier
        <4>2. s.id < u.id
          BY <1>5, <4>1
        <4> QED BY <1>2, <3>2, <4>2 DEF Earlier
      <3>3. CASE order # "source" /\ s.name = t.name /\ t.name = u.name
        <4>1. s.id < t.id /\ t.id < u.id
          BY <3>1, <3>3 DEF Earlier
        <4>2. s.id < u.id
          BY <1>5, <4>1
        <4> QED BY <1>2, <3>3, <4>2 DEF Earlier
      <3>4. CASE order # "source" /\ ~(s.name = t.name /\ t.name = u.name)
        <4>1. /\ s.name = t.name \/ <<s.name, t.name>> \in NameOrder
              /\ t.name = u.name \/ <<t.name, u.name>> \in NameOrder
          BY <1>6, <3>1, <3>4 DEF Earlier
        <4>2. <<s.name, u.name>> \in NameOrder
          BY <1>5, <3>4, <4>1, NamesAreOrdered DEF StrictOrder
        <4>3. s.name # u.name
          BY <1>5, <4>2, NamesAreOrdered DEF StrictOrder
        <4> QED BY <1>2, <1>6, <3>4, <4>2, <4>3 DEF Earlier
      <3> QED BY <3>2, <3>3, <3>4
    <2> QED BY <2>1, <2>2, <2>3 DEF StrictOrder
  <1>8. /\ Cardinality(S) \in Nat
        /\ Sorted(S, R) \in [1..Cardinality(S) -> S]
        /\ \A s \in S : \E i \in 1..Cardinality(S) : Sorted(S, R)[i] = s
        /\ \A i, j \in 1..Cardinality(S) : i < j <=> <<Sorted(S, R)[i], Sorted(S, R)[j]>> \in R
    BY <1>1, <1>7, SortedIsSorted
  <1>9. \A i, j \in 1..Cardinality(S) : i < j <=> Earlier(order, Sorted(S, R)[i], Sorted(S, R)[j])
    BY <1>2, <1>8
  <1> QED BY <1>4, <1>8, <1>9 DEF S

\* The sources of one counter that have their numbers before s
Predecessors(S, rule, s) ==
  {t \in S : Counter(rule, t) = Counter(rule, s) /\ Earlier(rule.order, t, s)}

\* After i sources every counter stands at the number of its sources so
\* far, and these sources have their values.
NumberedUpTo(q, g, S, rule, i) ==
  LET done == {q[k] : k \in 1..i}
  IN /\ g[i].ordinals = [c \in {Counter(rule, s) : s \in S} |->
                           Cardinality({t \in done : Counter(rule, t) = c})]
     /\ DOMAIN g[i].values = {s.id : s \in S}
     /\ g[i].values = [id \in {s.id : s \in S} |-> g[i].values[id]]
     /\ \A s \in done : g[i].values[s.id] =
          SequenceValue(rule, Cardinality(Predecessors(S, rule, s)))

LEMMA NumberingKeepsItsInvariant ==
  ASSUME NEW S, IsFiniteSet(S), IdsDiffer(S), NEW rule,
         NEW n \in Nat, NEW q \in [1..n -> S], NEW g, NEW i \in 1..n,
         \A s \in S : \E k \in 1..n : q[k] = s,
         \A j, k \in 1..n : j < k <=> Earlier(rule.order, q[j], q[k]),
         g[i] = Allocate(g[i - 1], rule, q[i]),
         NumberedUpTo(q, g, S, rule, i - 1)
  PROVE  NumberedUpTo(q, g, S, rule, i)
  <1> DEFINE s == q[i]
             done == {q[k] : k \in 1..(i - 1)}
             Of(T, c) == {t \in T : Counter(rule, t) = c}
             counters == {Counter(rule, t) : t \in S}
             ids == {t.id : t \in S}
  <1>1. s \in S /\ done \in SUBSET S /\ {q[k] : k \in 1..i} = done \cup {s}
    OBVIOUS
  <1>2. s \notin done
    <2>1. \A k \in 1..(i - 1) : q[k] # s
      <3>1. \A k \in 1..(i - 1) : k < i /\ ~(i < i) /\ k \in 1..n
        OBVIOUS
      <3> QED BY <3>1
    <2> QED BY <2>1
  <1>3. Of(done, Counter(rule, s)) = Predecessors(S, rule, s)
    <2>1. ASSUME NEW k \in 1..(i - 1)
          PROVE  Earlier(rule.order, q[k], s)
      <3>1. k \in 1..n /\ k < i
        OBVIOUS
      <3> QED BY <3>1
    <2>2. ASSUME NEW t \in S, Earlier(rule.order, t, s)
          PROVE  t \in done
      <3>1. PICK k \in 1..n : q[k] = t
        OBVIOUS
      <3>2. k < i
        BY <2>2, <3>1
      <3>3. k \in 1..(i - 1)
        BY <3>1, <3>2
      <3> QED BY <3>1, <3>3
    <2>3. \A t \in done : Earlier(rule.order, t, s)
      BY <2>1
    <2> HIDE DEF done, s
    <2> QED BY <1>1, <2>2, <2>3 DEF Predecessors
  <1>4. /\ g[i - 1].ordinals = [c \in counters |-> Cardinality(Of(done, c))]
        /\ DOMAIN g[i - 1].values = ids
        /\ g[i - 1].values = [id \in ids |-> g[i - 1].values[id]]
        /\ \A t \in done : g[i - 1].values[t.id] =
             SequenceValue(rule, Cardinality(Predecessors(S, rule, t)))
    BY DEF NumberedUpTo
  <1>5. Counter(rule, s) \in counters /\ s.id \in ids
    BY <1>1
  <1>6. g[i - 1].ordinals[Counter(rule, s)] = Cardinality(Predecessors(S, rule, s))
    <2> HIDE DEF Of, counters, done, s
    <2> QED BY <1>3, <1>4, <1>5
  <1>7. /\ g[i].ordinals = [g[i - 1].ordinals EXCEPT ![Counter(rule, s)] =
                              Cardinality(Predecessors(S, rule, s)) + 1]
        /\ g[i].values = [g[i - 1].values EXCEPT ![s.id] =
                            SequenceValue(rule, Cardinality(Predecessors(S, rule, s)))]
    BY <1>6 DEF Allocate
  <1>8. ASSUME NEW c \in counters
        PROVE  g[i].ordinals[c] = Cardinality(Of(done \cup {s}, c))
    <2>1. CASE c = Counter(rule, s)
      <3>1. Of(done \cup {s}, c) = Of(done, c) \cup {s} /\ s \notin Of(done, c)
        BY <1>2, <2>1
      <3>2. IsFiniteSet(Of(done, c))
        <4>1. Of(done, c) \in SUBSET S
          BY <1>1
        <4> HIDE DEF Of
        <4> QED BY <4>1, FS_Subset, Zenon
      <3>3. Cardinality(Of(done, c) \cup {s}) = Cardinality(Of(done, c)) + 1
        <4> HIDE DEF Of, done, s
        <4> QED BY <3>1, <3>2, FS_AddElement, Zenon
      <3>4. g[i].ordinals[c] = Cardinality(Predecessors(S, rule, s)) + 1
        <4> HIDE DEF Of, done, s, counters
        <4> QED BY <1>4, <1>5, <1>7, <2>1
      <3> HIDE DEF done, s
      <3> QED BY <1>3, <2>1, <3>1, <3>3, <3>4
    <2>2. CASE c # Counter(rule, s)
      <3>1. Of(done \cup {s}, c) = Of(done, c)
        BY <2>2
      <3>2. g[i].ordinals[c] = g[i - 1].ordinals[c]
        <4> HIDE DEF Of, done, s, counters
        <4> QED BY <1>4, <1>5, <1>7, <2>2
      <3> HIDE DEF Of, done, s, counters
      <3> QED BY <1>4, <3>1, <3>2
    <2> QED BY <2>1, <2>2
  <1>9. ASSUME NEW t \in done \cup {s}
        PROVE  g[i].values[t.id] = SequenceValue(rule, Cardinality(Predecessors(S, rule, t)))
    <2>1. t \in S /\ t.id \in ids
      BY <1>1
    <2>2. CASE t = s
      <3> HIDE DEF done, s, ids
      <3> QED BY <1>4, <1>5, <1>7, <2>2
    <2>3. CASE t # s
      <3>1. t.id # s.id
        BY <1>1, <2>1, <2>3 DEF IdsDiffer
      <3>2. t \in done
        BY <2>3
      <3> HIDE DEF done, s, ids
      <3> QED BY <1>4, <1>5, <1>7, <2>1, <3>1, <3>2
    <2> QED BY <2>2, <2>3
  <1>10. /\ g[i].ordinals = [c \in counters |-> g[i].ordinals[c]]
         /\ DOMAIN g[i].values = ids
         /\ g[i].values = [id \in ids |-> g[i].values[id]]
    <2> HIDE DEF done, s, ids, counters, Of
    <2> QED BY <1>4, <1>7
  <1>11. g[i].ordinals = [c \in counters |-> Cardinality(Of(done \cup {s}, c))]
    <2> HIDE DEF done, s, counters, Of
    <2> QED BY <1>8, <1>10
  <1> HIDE DEF done, s
  <1> QED BY <1>1, <1>9, <1>10, <1>11 DEF NumberedUpTo

LEMMA NumbersAreAllocated ==
  ASSUME NEW sources \in Seq(Sources), IdsDiffer(Range(sources)), NEW rule,
         NEW s \in Range(sources)
  PROVE  /\ Cardinality(Predecessors(Range(sources), rule, s)) \in Nat
         /\ AllocateSequence(sources, rule)[s.id] =
              SequenceValue(rule, Cardinality(Predecessors(Range(sources), rule, s)))
  <1> DEFINE S == Range(sources)
             n == Cardinality(S)
             q == OrderedSources(sources, rule.order)
             g == AllocatedInTurn(q, rule)
             K == {i \in 0..n : NumberedUpTo(q, g, S, rule, i)}
  <1>1. /\ n \in Nat /\ q \in [1..n -> S]
        /\ \A t \in S : \E i \in 1..n : q[i] = t
        /\ \A i, j \in 1..n : i < j <=> Earlier(rule.order, q[i], q[j])
    BY OrderedInOrder
  <1>2. IsFiniteSet(S) /\ IdsDiffer(S) /\ s \in S
    BY RangeIsFinite
  <1>3. AllocateSequence(sources, rule) = g[n].values
    BY DEF AllocateSequence
  <1> HIDE DEF S, n, q
  <1>4. Len(q) = n /\ Range(q) = S
    <2>1. Len(q) = n /\ DOMAIN q = 1..n
      BY <1>1
    <2>2. {q[k] : k \in 1..n} = S
      BY <1>1
    <2> QED BY <2>1, <2>2 DEF Range
  <1>5. /\ g[0] = NothingAllocated(q, rule)
        /\ \A i \in 1..n : g[i] = Allocate(g[i - 1], rule, q[i])
    BY <1>1, <1>4, AllocatedIsDefined
  <1> HIDE DEF g
  <1>6. NumberedUpTo(q, g, S, rule, 0)
    <2>1. {q[k] : k \in 1..0} = {}
      OBVIOUS
    <2>2. \A c : {t \in {} : Counter(rule, t) = c} = {}
      OBVIOUS
    <2>3. Cardinality({}) = 0
      BY FS_EmptySet
    <2>4. /\ g[0].ordinals = [c \in {Counter(rule, t) : t \in S} |-> 0]
          /\ g[0].values = [id \in {t.id : t \in S} |-> NoValue]
      BY <1>4, <1>5 DEF NothingAllocated
    <2>5. g[0].ordinals = [c \in {Counter(rule, t) : t \in S} |->
                             Cardinality({t \in {} : Counter(rule, t) = c})]
      BY <2>2, <2>3, <2>4
    <2>6. /\ DOMAIN g[0].values = {t.id : t \in S}
          /\ g[0].values = [id \in {t.id : t \in S} |-> g[0].values[id]]
      BY <2>4
    <2> QED BY <2>1, <2>5, <2>6 DEF NumberedUpTo
  <1>7. ASSUME NEW i \in 0..(n - 1), NumberedUpTo(q, g, S, rule, i)
        PROVE  NumberedUpTo(q, g, S, rule, i + 1)
    <2>1. i + 1 \in 1..n /\ (i + 1) - 1 = i
      BY <1>1
    <2>2. NumberedUpTo(q, g, S, rule, (i + 1) - 1) /\ g[i + 1] = Allocate(g[(i + 1) - 1], rule, q[i + 1])
      BY <1>5, <1>7, <2>1
    <2> QED BY <1>1, <1>2, <2>1, <2>2, NumberingKeepsItsInvariant
  <1>8. n \in K
    <2>1. 0 \in K /\ \A i \in 0..(n - 1) : i \in K => i + 1 \in K
      BY <1>1, <1>6, <1>7
    <2> HIDE DEF K
    <2>2. \A i \in 0..n : i \in K
      BY <1>1, <2>1, BoundedInduction
    <2> QED BY <1>1, <2>2
  <1>9. \A t \in {q[k] : k \in 1..n} :
          g[n].values[t.id] = SequenceValue(rule, Cardinality(Predecessors(S, rule, t)))
    BY <1>8 DEF NumberedUpTo
  <1>10. s \in {q[k] : k \in 1..n}
    BY <1>1, <1>2
  <1>11. g[n].values[s.id] = SequenceValue(rule, Cardinality(Predecessors(S, rule, s)))
    BY <1>9, <1>10
  <1>12. Cardinality(Predecessors(S, rule, s)) \in Nat
    <2>1. Predecessors(S, rule, s) \in SUBSET S
      BY DEF Predecessors
    <2>2. IsFiniteSet(Predecessors(S, rule, s))
      BY <1>2, <2>1, FS_Subset, Zenon
    <2> QED BY <2>2, FS_CardinalityType, Zenon
  <1> QED BY <1>3, <1>11, <1>12 DEF S

LEMMA SequenceValueIsExact ==
  ASSUME NEW rule, rule.start \in Nat, rule.step \in Nat, NEW ordinal \in Nat
  PROVE  SequenceValue(rule, ordinal) =
           IF rule.start + rule.step * ordinal <= MaxNumber
           THEN rule.start + rule.step * ordinal ELSE NoValue
  <1> DEFINE offset == rule.step * ordinal
  <1>1. offset \in Nat
    OBVIOUS
  <1>2. MaxNumber \in Nat
    BY BoundsAssumption DEF BoundsAssumption
  <1>3. SequenceValue(rule, ordinal) =
          IF offset > MaxNumber \/ rule.start + offset > MaxNumber THEN NoValue ELSE rule.start + offset
    BY DEF SequenceValue
  <1> HIDE DEF offset
  <1>4. SequenceValue(rule, ordinal) = IF rule.start + offset <= MaxNumber THEN rule.start + offset ELSE NoValue
    BY <1>1, <1>2, <1>3
  <1> QED BY <1>4 DEF offset

-----------------------------------------------------------------------------
(***************************************************************************)
(* What rules make of a name is a name.                                    *)
(***************************************************************************)
\* The length of a text in bytes is a number.
LEMMA BytesAreNatural ==
  ASSUME NEW text \in Texts
  PROVE  Bytes(text) \in Nat
  <1> DEFINE n == Len(text)
             S == Nat
             base == 0
             Step(i, x) == x + Width[text[i]]
             step == [i \in 1..n |-> [x \in S |-> Step(i, x)]]
             Is(g) == g = [i \in 0..n |-> IF i = 0 THEN base ELSE Step(i, g[i - 1])]
             f == CHOOSE g : Is(g)
  <1>1. n \in Nat
    BY DEF Texts
  <1>2. base \in S
    OBVIOUS
  <1>3. ASSUME NEW i \in 1..n, NEW x \in S
        PROVE  Step(i, x) \in S
    <2>1. text[i] \in Characters
      BY DEF Texts
    <2>2. Width \in [Characters -> Nat \ {0}]
      BY AlphabetAssumption DEF AlphabetAssumption
    <2>3. Width[text[i]] \in Nat
      BY <2>1, <2>2
    <2> QED BY <2>3
  <1>4. Bytes(text) = f[n]
    BY Zenon DEF Bytes
  <1> HIDE DEF n, S, base, Step
  <1>5. \A i \in 1..n, x \in S : step[i][x] = Step(i, x)
    OBVIOUS
  <1> HIDE DEF step
  <1>6. PICK g \in [0..n -> S] : Recursive(g, n, base, step)
    <2>1. StepsStay(step, n, S)
      BY <1>3, <1>5 DEF StepsStay
    <2> QED BY <1>1, <1>2, <2>1, RecursionExists
  <1>7. Is(g)
    <2>1. ASSUME NEW i \in 0..n
          PROVE  g[i] = IF i = 0 THEN base ELSE Step(i, g[i - 1])
      <3>1. CASE i = 0
        BY <1>6, <3>1 DEF Recursive
      <3>2. CASE i # 0
        <4>1. i \in 1..n /\ i - 1 \in 0..n
          BY <1>1, <3>2
        <4> QED BY <1>5, <1>6, <3>2, <4>1 DEF Recursive
      <3> QED BY <3>1, <3>2
    <2> QED BY <2>1
  <1>8. Is(f)
    <2> HIDE DEF Is
    <2> QED BY <1>7
  <1>9. f[0] = base /\ \A i \in 1..n : f[i] = Step(i, f[i - 1])
    <2> HIDE DEF f
    <2> QED BY <1>1, <1>8
  <1> HIDE DEF f, Is
  <1>10. \A i \in 0..n : f[i] \in S
    <2>1. f[0] \in S
      BY <1>2, <1>9
    <2>2. \A i \in 1..n : f[i - 1] \in S => f[i] \in S
      BY <1>3, <1>9
    <2> QED BY <1>1, <2>1, <2>2, StaysIn
  <1> QED BY <1>1, <1>4, <1>10 DEF S

\* A text with its characters mapped to texts is one.
LEMMA MappedIsText ==
  ASSUME NEW text \in Texts, NEW mapping \in [Characters -> Texts]
  PROVE  Mapped(text, mapping) \in Texts
  <1> DEFINE n == Len(text)
             S == Texts
             base == <<>>
             Step(i, x) == x \o mapping[text[i]]
             step == [i \in 1..n |-> [x \in S |-> Step(i, x)]]
             Is(g) == g = [i \in 0..n |-> IF i = 0 THEN base ELSE Step(i, g[i - 1])]
             f == CHOOSE g : Is(g)
  <1>1. n \in Nat
    BY DEF Texts
  <1>2. base \in S
    BY DEF Texts
  <1>3. ASSUME NEW i \in 1..n, NEW x \in S
        PROVE  Step(i, x) \in S
    <2>1. text[i] \in Characters
      BY DEF Texts
    <2>2. mapping[text[i]] \in Texts
      BY <2>1
    <2> QED BY <2>2 DEF Texts
  <1>4. Mapped(text, mapping) = f[n]
    BY Zenon DEF Mapped
  <1> HIDE DEF n, S, base, Step
  <1>5. \A i \in 1..n, x \in S : step[i][x] = Step(i, x)
    OBVIOUS
  <1> HIDE DEF step
  <1>6. PICK g \in [0..n -> S] : Recursive(g, n, base, step)
    <2>1. StepsStay(step, n, S)
      BY <1>3, <1>5 DEF StepsStay
    <2> QED BY <1>1, <1>2, <2>1, RecursionExists
  <1>7. Is(g)
    <2>1. ASSUME NEW i \in 0..n
          PROVE  g[i] = IF i = 0 THEN base ELSE Step(i, g[i - 1])
      <3>1. CASE i = 0
        BY <1>6, <3>1 DEF Recursive
      <3>2. CASE i # 0
        <4>1. i \in 1..n /\ i - 1 \in 0..n
          BY <1>1, <3>2
        <4> QED BY <1>5, <1>6, <3>2, <4>1 DEF Recursive
      <3> QED BY <3>1, <3>2
    <2> QED BY <2>1
  <1>8. Is(f)
    <2> HIDE DEF Is
    <2> QED BY <1>7
  <1>9. f[0] = base /\ \A i \in 1..n : f[i] = Step(i, f[i - 1])
    <2> HIDE DEF f
    <2> QED BY <1>1, <1>8
  <1> HIDE DEF f, Is
  <1>10. \A i \in 0..n : f[i] \in S
    <2>1. f[0] \in S
      BY <1>2, <1>9
    <2>2. \A i \in 1..n : f[i - 1] \in S => f[i] \in S
      BY <1>3, <1>9
    <2> QED BY <1>1, <2>1, <2>2, StaysIn
  <1> QED BY <1>1, <1>4, <1>10 DEF S

\* Replacing reads the text in turn.
LEMMA ReplacedIsDefined ==
  ASSUME NEW text \in Texts, NEW search \in Texts, NEW replacement \in Texts
  PROVE  /\ ReplacedInTurn(text, search, replacement)[0] = [out |-> <<>>, skip |-> 0]
         /\ \A i \in 1..Len(text) : ReplacedInTurn(text, search, replacement)[i] = ReadLiteral(ReplacedInTurn(text, search, replacement)[i - 1], text, i, search, replacement)
         /\ \A i \in 0..Len(text) : ReplacedInTurn(text, search, replacement)[i] \in [out : Texts, skip : Int]
  <1> DEFINE n == Len(text)
             S == [out : Texts, skip : Int]
             base == [out |-> <<>>, skip |-> 0]
             Step(i, x) == ReadLiteral(x, text, i, search, replacement)
             step == [i \in 1..n |-> [x \in S |-> Step(i, x)]]
             Is(g) == g = [i \in 0..n |-> IF i = 0 THEN base ELSE Step(i, g[i - 1])]
             f == CHOOSE g : Is(g)
  <1>1. n \in Nat
    BY DEF Texts
  <1>2. base \in S
    BY DEF Texts
  <1>3. ASSUME NEW i \in 1..n, NEW x \in S
        PROVE  Step(i, x) \in S
    <2>1. text[i] \in Characters /\ Len(search) \in Int
      BY DEF Texts
    <2>2. Append(x.out, text[i]) \in Texts /\ x.out \o replacement \in Texts
      BY <2>1 DEF Texts
    <2>3. [x EXCEPT !.skip = @ - 1] \in S
      OBVIOUS
    <2>5. [x EXCEPT !.out = Append(@, text[i])] \in S
      BY <2>2
    <2>4. [out |-> x.out \o replacement, skip |-> Len(search) - 1] \in S
      BY <2>1, <2>2
    <2> QED BY <2>3, <2>4, <2>5 DEF ReadLiteral
  <1>4. ReplacedInTurn(text, search, replacement) = f
    BY Zenon DEF ReplacedInTurn
  <1> HIDE DEF n, S, base, Step
  <1>5. \A i \in 1..n, x \in S : step[i][x] = Step(i, x)
    OBVIOUS
  <1> HIDE DEF step
  <1>6. PICK g \in [0..n -> S] : Recursive(g, n, base, step)
    <2>1. StepsStay(step, n, S)
      BY <1>3, <1>5 DEF StepsStay
    <2> QED BY <1>1, <1>2, <2>1, RecursionExists
  <1>7. Is(g)
    <2>1. ASSUME NEW i \in 0..n
          PROVE  g[i] = IF i = 0 THEN base ELSE Step(i, g[i - 1])
      <3>1. CASE i = 0
        BY <1>6, <3>1 DEF Recursive
      <3>2. CASE i # 0
        <4>1. i \in 1..n /\ i - 1 \in 0..n
          BY <1>1, <3>2
        <4> QED BY <1>5, <1>6, <3>2, <4>1 DEF Recursive
      <3> QED BY <3>1, <3>2
    <2> QED BY <2>1
  <1>8. Is(f)
    <2> HIDE DEF Is
    <2> QED BY <1>7
  <1>9. f[0] = base /\ \A i \in 1..n : f[i] = Step(i, f[i - 1])
    <2> HIDE DEF f
    <2> QED BY <1>1, <1>8
  <1> HIDE DEF f, Is
  <1>10. \A i \in 0..n : f[i] \in S
    <2>1. f[0] \in S
      BY <1>2, <1>9
    <2>2. \A i \in 1..n : f[i - 1] \in S => f[i] \in S
      BY <1>3, <1>9
    <2> QED BY <1>1, <2>1, <2>2, StaysIn
  <1> QED BY <1>4, <1>9, <1>10 DEF n, S, base, Step

\* Cleaning does, too.
LEMMA CleanedIsDefined ==
  ASSUME NEW text \in Texts, NEW replacement \in Texts
  PROVE  /\ CleanedInTurn(text, replacement)[0] = [out |-> <<>>, pending |-> FALSE]
         /\ \A i \in 1..Len(text) : CleanedInTurn(text, replacement)[i] = ReadSpaced(CleanedInTurn(text, replacement)[i - 1], text[i], replacement)
         /\ \A i \in 0..Len(text) : CleanedInTurn(text, replacement)[i] \in [out : Texts, pending : BOOLEAN]
  <1> DEFINE n == Len(text)
             S == [out : Texts, pending : BOOLEAN]
             base == [out |-> <<>>, pending |-> FALSE]
             Step(i, x) == ReadSpaced(x, text[i], replacement)
             step == [i \in 1..n |-> [x \in S |-> Step(i, x)]]
             Is(g) == g = [i \in 0..n |-> IF i = 0 THEN base ELSE Step(i, g[i - 1])]
             f == CHOOSE g : Is(g)
  <1>1. n \in Nat
    BY DEF Texts
  <1>2. base \in S
    BY DEF Texts
  <1>3. ASSUME NEW i \in 1..n, NEW x \in S
        PROVE  Step(i, x) \in S
    <2>1. text[i] \in Characters
      BY DEF Texts
    <2>2. x.out \o <<text[i]>> \in Texts /\ x.out \o replacement \o <<text[i]>> \in Texts
      BY <2>1 DEF Texts
    <2> QED BY <2>2 DEF ReadSpaced
  <1>4. CleanedInTurn(text, replacement) = f
    BY Zenon DEF CleanedInTurn
  <1> HIDE DEF n, S, base, Step
  <1>5. \A i \in 1..n, x \in S : step[i][x] = Step(i, x)
    OBVIOUS
  <1> HIDE DEF step
  <1>6. PICK g \in [0..n -> S] : Recursive(g, n, base, step)
    <2>1. StepsStay(step, n, S)
      BY <1>3, <1>5 DEF StepsStay
    <2> QED BY <1>1, <1>2, <2>1, RecursionExists
  <1>7. Is(g)
    <2>1. ASSUME NEW i \in 0..n
          PROVE  g[i] = IF i = 0 THEN base ELSE Step(i, g[i - 1])
      <3>1. CASE i = 0
        BY <1>6, <3>1 DEF Recursive
      <3>2. CASE i # 0
        <4>1. i \in 1..n /\ i - 1 \in 0..n
          BY <1>1, <3>2
        <4> QED BY <1>5, <1>6, <3>2, <4>1 DEF Recursive
      <3> QED BY <3>1, <3>2
    <2> QED BY <2>1
  <1>8. Is(f)
    <2> HIDE DEF Is
    <2> QED BY <1>7
  <1>9. f[0] = base /\ \A i \in 1..n : f[i] = Step(i, f[i - 1])
    <2> HIDE DEF f
    <2> QED BY <1>1, <1>8
  <1> HIDE DEF f, Is
  <1>10. \A i \in 0..n : f[i] \in S
    <2>1. f[0] \in S
      BY <1>2, <1>9
    <2>2. \A i \in 1..n : f[i - 1] \in S => f[i] \in S
      BY <1>3, <1>9
    <2> QED BY <1>1, <2>1, <2>2, StaysIn
  <1> QED BY <1>4, <1>9, <1>10 DEF n, S, base, Step

\* Filtering does, too.
LEMMA FilteredIsDefined ==
  ASSUME NEW text \in Texts, NEW class, NEW operation
  PROVE  /\ FilteredInTurn(text, class, operation)[0] = <<>>
         /\ \A i \in 1..Len(text) : FilteredInTurn(text, class, operation)[i] = IF Stays(text[i], class, operation) THEN Append(FilteredInTurn(text, class, operation)[i - 1], text[i]) ELSE FilteredInTurn(text, class, operation)[i - 1]
         /\ \A i \in 0..Len(text) : FilteredInTurn(text, class, operation)[i] \in Texts
  <1> DEFINE n == Len(text)
             S == Texts
             base == <<>>
             Step(i, x) == IF Stays(text[i], class, operation) THEN Append(x, text[i]) ELSE x
             step == [i \in 1..n |-> [x \in S |-> Step(i, x)]]
             Is(g) == g = [i \in 0..n |-> IF i = 0 THEN base ELSE Step(i, g[i - 1])]
             f == CHOOSE g : Is(g)
  <1>1. n \in Nat
    BY DEF Texts
  <1>2. base \in S
    BY DEF Texts
  <1>3. ASSUME NEW i \in 1..n, NEW x \in S
        PROVE  Step(i, x) \in S
    <2>1. text[i] \in Characters
      BY DEF Texts
    <2> QED BY <2>1 DEF Texts
  <1>4. FilteredInTurn(text, class, operation) = f
    BY Zenon DEF FilteredInTurn
  <1> HIDE DEF n, S, base, Step
  <1>5. \A i \in 1..n, x \in S : step[i][x] = Step(i, x)
    OBVIOUS
  <1> HIDE DEF step
  <1>6. PICK g \in [0..n -> S] : Recursive(g, n, base, step)
    <2>1. StepsStay(step, n, S)
      BY <1>3, <1>5 DEF StepsStay
    <2> QED BY <1>1, <1>2, <2>1, RecursionExists
  <1>7. Is(g)
    <2>1. ASSUME NEW i \in 0..n
          PROVE  g[i] = IF i = 0 THEN base ELSE Step(i, g[i - 1])
      <3>1. CASE i = 0
        BY <1>6, <3>1 DEF Recursive
      <3>2. CASE i # 0
        <4>1. i \in 1..n /\ i - 1 \in 0..n
          BY <1>1, <3>2
        <4> QED BY <1>5, <1>6, <3>2, <4>1 DEF Recursive
      <3> QED BY <3>1, <3>2
    <2> QED BY <2>1
  <1>8. Is(f)
    <2> HIDE DEF Is
    <2> QED BY <1>7
  <1>9. f[0] = base /\ \A i \in 1..n : f[i] = Step(i, f[i - 1])
    <2> HIDE DEF f
    <2> QED BY <1>1, <1>8
  <1> HIDE DEF f, Is
  <1>10. \A i \in 0..n : f[i] \in S
    <2>1. f[0] \in S
      BY <1>2, <1>9
    <2>2. \A i \in 1..n : f[i - 1] \in S => f[i] \in S
      BY <1>3, <1>9
    <2> QED BY <1>1, <2>1, <2>2, StaysIn
  <1> QED BY <1>4, <1>9, <1>10 DEF n, S, base, Step

\* A number without its last digits is a number.
LEMMA ShortenedIsNatural ==
  ASSUME NEW value \in Nat, NEW k \in Nat
  PROVE  Shortened(value, k) \in Nat
  <1> DEFINE n == k
             S == Nat
             base == value
             Step(i, x) == x \div 10
             step == [i \in 1..n |-> [x \in S |-> Step(i, x)]]
             Is(g) == g = [i \in 0..n |-> IF i = 0 THEN base ELSE Step(i, g[i - 1])]
             f == CHOOSE g : Is(g)
  <1>1. n \in Nat
    OBVIOUS
  <1>2. base \in S
    OBVIOUS
  <1>3. ASSUME NEW i \in 1..n, NEW x \in S
        PROVE  Step(i, x) \in S
    OBVIOUS
  <1>4. Shortened(value, k) = f[n]
    BY Zenon DEF Shortened
  <1> HIDE DEF n, S, base, Step
  <1>5. \A i \in 1..n, x \in S : step[i][x] = Step(i, x)
    OBVIOUS
  <1> HIDE DEF step
  <1>6. PICK g \in [0..n -> S] : Recursive(g, n, base, step)
    <2>1. StepsStay(step, n, S)
      BY <1>3, <1>5 DEF StepsStay
    <2> QED BY <1>1, <1>2, <2>1, RecursionExists
  <1>7. Is(g)
    <2>1. ASSUME NEW i \in 0..n
          PROVE  g[i] = IF i = 0 THEN base ELSE Step(i, g[i - 1])
      <3>1. CASE i = 0
        BY <1>6, <3>1 DEF Recursive
      <3>2. CASE i # 0
        <4>1. i \in 1..n /\ i - 1 \in 0..n
          BY <1>1, <3>2
        <4> QED BY <1>5, <1>6, <3>2, <4>1 DEF Recursive
      <3> QED BY <3>1, <3>2
    <2> QED BY <2>1
  <1>8. Is(f)
    <2> HIDE DEF Is
    <2> QED BY <1>7
  <1>9. f[0] = base /\ \A i \in 1..n : f[i] = Step(i, f[i - 1])
    <2> HIDE DEF f
    <2> QED BY <1>1, <1>8
  <1> HIDE DEF f, Is
  <1>10. \A i \in 0..n : f[i] \in S
    <2>1. f[0] \in S
      BY <1>2, <1>9
    <2>2. \A i \in 1..n : f[i - 1] \in S => f[i] \in S
      BY <1>3, <1>9
    <2> QED BY <1>1, <2>1, <2>2, StaysIn
  <1> QED BY <1>1, <1>4, <1>10 DEF S

\* A padded number is a text.
LEMMA PaddedIsText ==
  ASSUME NEW value \in Nat, NEW width \in Nat
  PROVE  Padded(value, width) \in Texts
  <1> DEFINE D == {k \in 1..value : Shortened(value, k) > 0}
             digits == 1 + Cardinality(D)
             size == IF digits < width THEN width ELSE digits
  <1>1. size \in Nat
    <2>1. IsFiniteSet(1..value)
      BY FS_Interval
    <2>2. Cardinality(D) \in Nat
      BY <2>1, FS_Subset, FS_CardinalityType
    <2> HIDE DEF D
    <2> QED BY <2>2
  <1>2. Padded(value, width) = [i \in 1..size |-> Digit[Shortened(value, size - i) % 10]]
    BY DEF Padded
  <1> HIDE DEF size
  <1>3. ASSUME NEW i \in 1..size
        PROVE  Digit[Shortened(value, size - i) % 10] \in Characters
    <2>1. size - i \in Nat
      BY <1>1
    <2>2. Shortened(value, size - i) \in Nat
      BY <2>1, ShortenedIsNatural
    <2>3. Shortened(value, size - i) % 10 \in 0..9
      BY <2>2
    <2>4. DOMAIN Digit = 0..9
      BY DEF Digit
    <2> QED BY <2>3, <2>4, DigitsAssumption DEF DigitsAssumption
  <1> HIDE DEF Padded
  <1>4. Padded(value, width) \in [1..size -> Characters]
    BY <1>2, <1>3
  <1> QED BY <1>1, <1>4 DEF Texts

LEMMA PartIsText ==
  ASSUME NEW text \in Texts, NEW m \in Int, NEW n \in Int, 1 <= m, n <= Len(text)
  PROVE  SubSeq(text, m, n) \in Texts
  <1>1. \A i \in m..n : text[i] \in Characters
    BY DEF Texts
  <1> QED BY <1>1, SubSeqProperties DEF Texts

LEMMA FinalDotIsInside ==
  ASSUME NEW name \in Texts
  PROVE  FinalDot(name) \in 0..Len(name)
  <1>1. CASE Dots(name) = {}
    <2>1. Len(name) \in Nat
      BY DEF Texts
    <2> QED BY <1>1, <2>1 DEF FinalDot
  <1>2. CASE Dots(name) # {}
    <2>1. Dots(name) \in SUBSET Nat /\ Dots(name) \subseteq 1..Len(name) /\ Len(name) \in Nat
      BY DEF Dots, Texts
    <2>2. IsFiniteSet(Dots(name))
      <3>1. IsFiniteSet(1..Len(name))
        BY <2>1, FS_Interval
      <3> QED BY <2>1, <3>1, FS_Subset
    <2>3. \E i \in Dots(name) : \A j \in Dots(name) : j <= i
      BY <1>2, <2>1, <2>2, LargestOfFinite
    <2>4. (CHOOSE i \in Dots(name) : \A j \in Dots(name) : j <= i) \in 1..Len(name)
      BY <2>1, <2>3
    <2> QED BY <1>2, <2>1, <2>4 DEF FinalDot
  <1> QED BY <1>1, <1>2

LEMMA RangeIsText ==
  ASSUME NEW text \in Texts, NEW range,
         range.offset \in Nat, range.length \in Nat \cup {Rest}
  PROVE  ApplyRange(text, range) \in Texts
  <1> DEFINE bounds == RangeBounds(Len(text), range)
  <1>1. Len(text) \in Nat
    BY DEF Texts
  <1>2. bounds[1] \in 0..Len(text) /\ bounds[2] \in 0..Len(text)
    <2> DEFINE n == Len(text)
               first == AtMost(range.offset, n)
               last == AtLeastZero(n - range.offset)
    <2>1. first \in 0..n /\ last \in 0..n
      BY <1>1 DEF AtMost, AtLeastZero
    <2>2. range.length # Rest => /\ AtMost(first + range.length, n) \in 0..n
                                 /\ AtLeastZero(last - range.length) \in 0..n
      <3> HIDE DEF first, last
      <3> QED BY <1>1, <2>1 DEF AtMost, AtLeastZero
    <2>3. bounds = IF range.origin = "start"
                   THEN <<first, IF range.length = Rest THEN n ELSE AtMost(first + range.length, n)>>
                   ELSE <<IF range.length = Rest THEN 0 ELSE AtLeastZero(last - range.length), last>>
      BY DEF RangeBounds
    <2> HIDE DEF first, last, bounds
    <2> QED BY <1>1, <2>1, <2>2, <2>3
  <1> HIDE DEF bounds
  <1>3. SubSeq(text, bounds[1] + 1, bounds[2]) \in Texts
    BY <1>2, PartIsText
  <1>4. SubSeq(text, 1, bounds[1]) \in Texts /\ SubSeq(text, bounds[2] + 1, Len(text)) \in Texts
    BY <1>1, <1>2, PartIsText
  <1>5. SubSeq(text, 1, bounds[1]) \o SubSeq(text, bounds[2] + 1, Len(text)) \in Texts
    BY <1>4 DEF Texts
  <1> QED BY <1>3, <1>5 DEF ApplyRange, bounds

LEMMA ClassIsText ==
  ASSUME NEW text \in Texts, NEW class, NEW operation
  PROVE  ApplyClass(text, class, operation) \in Texts
  <1>1. Len(text) \in 0..Len(text)
    BY DEF Texts
  <1> QED BY <1>1, FilteredIsDefined DEF ApplyClass

LEMMA ConcatIsText == \A s, t \in Texts : s \o t \in Texts
  BY DEF Texts

\* The parts of a name around its final dot
LEMMA PartsAreTexts ==
  ASSUME NEW name \in Texts
  PROVE  LET dot == FinalDot(name)
         IN dot # 0 => /\ SubSeq(name, 1, dot - 1) \in Texts /\ SubSeq(name, dot, Len(name)) \in Texts
                       /\ SubSeq(name, 1, dot) \in Texts /\ SubSeq(name, dot + 1, Len(name)) \in Texts
  <1> DEFINE dot == FinalDot(name)
  <1>1. Len(name) \in Nat /\ dot \in 0..Len(name)
    BY FinalDotIsInside DEF Texts
  <1> HIDE DEF dot
  <1>2. ASSUME dot # 0
        PROVE  /\ 1 <= dot /\ dot <= Len(name) /\ 1 <= dot + 1 /\ dot - 1 <= Len(name)
               /\ dot \in Int /\ dot - 1 \in Int /\ dot + 1 \in Int /\ 1 \in Int /\ 1 <= 1
               /\ Len(name) \in Int /\ Len(name) <= Len(name)
    BY <1>1, <1>2
  <1>3. ASSUME dot # 0
        PROVE  /\ SubSeq(name, 1, dot - 1) \in Texts /\ SubSeq(name, dot, Len(name)) \in Texts
               /\ SubSeq(name, 1, dot) \in Texts /\ SubSeq(name, dot + 1, Len(name)) \in Texts
    BY <1>2, <1>3, PartIsText
  <1> QED BY <1>3 DEF dot

LEMMA TransformedIsText ==
  ASSUME NEW rule \in Rules, NEW name \in Texts, NEW value \in Nat \cup {NoValue},
         rule.kind = "sequence" => value # NoValue
  PROVE  Transformed(rule, name, value) \in Texts
  <1>1. CASE rule \in [kind : {"prefix", "suffix"}, value : Texts]
    <2>1. rule.value \o name \in Texts /\ name \o rule.value \in Texts
      BY <1>1, ConcatIsText
    <2> QED BY <1>1, <2>1 DEF Transformed
  <1>2. CASE rule \in [kind : {"replace"}, search : Texts, replacement : Texts]
    <2>1. rule.kind = "replace" /\ rule.search \in Texts /\ rule.replacement \in Texts
      BY <1>2
    <2>2. ReplaceLiteral(name, rule.search, rule.replacement) \in Texts
      <3>1. Len(name) \in 0..Len(name)
        BY DEF Texts
      <3> QED BY <2>1, <3>1, ReplacedIsDefined DEF ReplaceLiteral
    <2> QED BY <2>1, <2>2 DEF Transformed
  <1>3. CASE rule \in [kind : {"sequence"}, scope : {"all", "parent"}, order : {"source", "name"}, start : Nat,
                       step : Nat, padding : Nat, placement : {"prefix", "suffix"}, separator : Texts]
    <2>1. rule.kind = "sequence" /\ rule.separator \in Texts /\ rule.padding \in Nat /\ value \in Nat
      BY <1>3
    <2>2. Padded(value, rule.padding) \in Texts
      BY <2>1, PaddedIsText
    <2>3. /\ Padded(value, rule.padding) \o rule.separator \o name \in Texts
          /\ name \o rule.separator \o Padded(value, rule.padding) \in Texts
      BY <2>1, <2>2, ConcatIsText
    <2> QED BY <2>1, <2>3 DEF Transformed
  <1>4. CASE rule \in [kind : {"extension"}, operation : {"remove"}]
                \cup [kind : {"extension"}, operation : {"replace"}, value : Texts]
    <2>1. rule.kind = "extension" /\ (rule.operation # "remove" => rule.value \in Texts)
      BY <1>4
    <2> DEFINE stem == IF FinalDot(name) = 0 THEN name ELSE SubSeq(name, 1, FinalDot(name) - 1)
    <2>2. stem \in Texts
      BY PartsAreTexts
    <2>3. <<".">> \in Texts
      <3>1. "." \in Characters
        BY AlphabetAssumption DEF AlphabetAssumption
      <3> QED BY <3>1 DEF Texts
    <2> HIDE DEF stem
    <2>4. rule.operation # "remove" => stem \o <<".">> \o rule.value \in Texts
      BY <2>1, <2>2, <2>3, ConcatIsText
    <2>5. ApplyExtension(name, rule) \in Texts
      BY <2>2, <2>4 DEF ApplyExtension, stem
    <2> QED BY <2>1, <2>5 DEF Transformed
  <1>5. CASE rule \in [kind : {"case"}, part : Parts, mode : {"lower", "upper"}]
    <2> DEFINE T(t) == Mapped(t, IF rule.mode = "lower" THEN Lower ELSE Upper)
    <2>1. \A t \in Texts : T(t) \in Texts
      BY MappedIsText, AlphabetAssumption DEF AlphabetAssumption, Texts
    <2>2. Transformed(rule, name, value) = OnPart(name, rule.part, T)
      BY <1>5 DEF Transformed
    <2> HIDE DEF T
    <2> QED BY <2>1, <2>2, PartsAreTexts, ConcatIsText DEF OnPart
  <1>6. CASE rule \in [kind : {"whitespace"}, part : Parts, replacement : Texts]
    <2> DEFINE T(t) == CleanWhitespace(t, rule.replacement)
    <2>1. ASSUME NEW t \in Texts
          PROVE  T(t) \in Texts
      <3>1. Len(t) \in 0..Len(t) /\ rule.replacement \in Texts
        BY <1>6 DEF Texts
      <3> QED BY <3>1, CleanedIsDefined DEF CleanWhitespace
    <2>2. Transformed(rule, name, value) = OnPart(name, rule.part, T)
      BY <1>6 DEF Transformed
    <2> HIDE DEF T
    <2> QED BY <2>1, <2>2, PartsAreTexts, ConcatIsText DEF OnPart
  <1>7. CASE rule \in [kind : {"range"}, part : Parts, operation : {"keep", "remove"}, origin : {"start", "end"},
                       offset : Nat, length : Nat \cup {Rest}]
    <2> DEFINE T(t) == ApplyRange(t, rule)
    <2>1. \A t \in Texts : T(t) \in Texts
      <3>1. rule.offset \in Nat /\ rule.length \in Nat \cup {Rest}
        BY <1>7
      <3> QED BY <3>1, RangeIsText
    <2>2. Transformed(rule, name, value) = OnPart(name, rule.part, T)
      BY <1>7 DEF Transformed
    <2> HIDE DEF T
    <2> QED BY <2>1, <2>2, PartsAreTexts, ConcatIsText DEF OnPart
  <1>8. CASE rule \in [kind : {"class"}, part : Parts, operation : {"keep", "remove"}, class : STRING]
    <2> DEFINE T(t) == ApplyClass(t, rule.class, rule.operation)
    <2>1. \A t \in Texts : T(t) \in Texts
      BY ClassIsText
    <2>2. Transformed(rule, name, value) = OnPart(name, rule.part, T)
      BY <1>8 DEF Transformed
    <2> HIDE DEF T
    <2> QED BY <2>1, <2>2, PartsAreTexts, ConcatIsText DEF OnPart
  <1> QED BY <1>1, <1>2, <1>3, <1>4, <1>5, <1>6, <1>7, <1>8 DEF Rules

\* A rule fails or makes a text of a text.
LEMMA RuleMakesText ==
  ASSUME NEW rule \in Rules, NEW name \in Texts, NEW value \in Nat \cup {NoValue}
  PROVE  LET result == ApplyRule(rule, name, value)
         IN result.error \in {"none", "OutputTooLong", "UnsupportedEncoding", "SequenceOverflow"}
            /\ (result.error = "none" => result.name \in Texts)
  <1>1. CASE rule.kind = "sequence" /\ value = NoValue
    BY <1>1 DEF ApplyRule, Failed
  <1>2. CASE ~(rule.kind = "sequence" /\ value = NoValue)
    <2> DEFINE proposed == Transformed(rule, name, value)
    <2>1. proposed \in Texts
      BY <1>2, TransformedIsText
    <2> HIDE DEF proposed
    <2> QED BY <1>2, <2>1 DEF ApplyRule, Failed, Done, proposed
  <1> QED BY <1>1, <1>2

-----------------------------------------------------------------------------
(***************************************************************************)
(* The trace of a row.                                                     *)
(***************************************************************************)
TraceSteps == [rule : Nat, before : Texts, after : Texts]

\* The bytes of a trace are summed in turn.
LEMMA KeptIsDefined ==
  ASSUME NEW trace \in Seq(TraceSteps)
  PROVE  /\ KeptInTurn(trace)[0] = (IF trace = <<>> THEN 0 ELSE Bytes(trace[1].before))
         /\ \A i \in 1..Len(trace) : KeptInTurn(trace)[i] = KeptInTurn(trace)[i - 1] + Bytes(trace[i].after)
         /\ \A i \in 0..Len(trace) : KeptInTurn(trace)[i] \in Nat
  <1> DEFINE n == Len(trace)
             S == Nat
             base == (IF trace = <<>> THEN 0 ELSE Bytes(trace[1].before))
             Step(i, x) == x + Bytes(trace[i].after)
             step == [i \in 1..n |-> [x \in S |-> Step(i, x)]]
             Is(g) == g = [i \in 0..n |-> IF i = 0 THEN base ELSE Step(i, g[i - 1])]
             f == CHOOSE g : Is(g)
  <1>1. n \in Nat
    OBVIOUS
  <1>2. base \in S
    <2>1. ASSUME trace # <<>>
          PROVE  Bytes(trace[1].before) \in Nat
      <3>1. trace[1] \in TraceSteps
        BY <2>1
      <3> QED BY <3>1, BytesAreNatural DEF TraceSteps
    <2> QED BY <2>1
  <1>3. ASSUME NEW i \in 1..n, NEW x \in S
        PROVE  Step(i, x) \in S
    <2>1. trace[i] \in TraceSteps
      OBVIOUS
    <2>2. Bytes(trace[i].after) \in Nat
      BY <2>1, BytesAreNatural DEF TraceSteps
    <2> QED BY <2>2
  <1>4. KeptInTurn(trace) = f
    BY Zenon DEF KeptInTurn
  <1> HIDE DEF n, S, base, Step
  <1>5. \A i \in 1..n, x \in S : step[i][x] = Step(i, x)
    OBVIOUS
  <1> HIDE DEF step
  <1>6. PICK g \in [0..n -> S] : Recursive(g, n, base, step)
    <2>1. StepsStay(step, n, S)
      BY <1>3, <1>5 DEF StepsStay
    <2> QED BY <1>1, <1>2, <2>1, RecursionExists
  <1>7. Is(g)
    <2>1. ASSUME NEW i \in 0..n
          PROVE  g[i] = IF i = 0 THEN base ELSE Step(i, g[i - 1])
      <3>1. CASE i = 0
        BY <1>6, <3>1 DEF Recursive
      <3>2. CASE i # 0
        <4>1. i \in 1..n /\ i - 1 \in 0..n
          BY <1>1, <3>2
        <4> QED BY <1>5, <1>6, <3>2, <4>1 DEF Recursive
      <3> QED BY <3>1, <3>2
    <2> QED BY <2>1
  <1>8. Is(f)
    <2> HIDE DEF Is
    <2> QED BY <1>7
  <1>9. f[0] = base /\ \A i \in 1..n : f[i] = Step(i, f[i - 1])
    <2> HIDE DEF f
    <2> QED BY <1>1, <1>8
  <1> HIDE DEF f, Is
  <1>10. \A i \in 0..n : f[i] \in S
    <2>1. f[0] \in S
      BY <1>2, <1>9
    <2>2. \A i \in 1..n : f[i - 1] \in S => f[i] \in S
      BY <1>3, <1>9
    <2> QED BY <1>1, <2>1, <2>2, StaysIn
  <1> QED BY <1>4, <1>9, <1>10 DEF n, S, base, Step

LEMMA AppendedTrace ==
  ASSUME NEW trace \in Seq(TraceSteps), NEW t \in TraceSteps
  PROVE  /\ BytesOfTrace(trace) \in Nat
         /\ Bytes(t.before) \in Nat /\ Bytes(t.after) \in Nat
         /\ BytesOfTrace(Append(trace, t)) =
              IF trace = <<>> THEN Bytes(t.before) + Bytes(t.after)
              ELSE BytesOfTrace(trace) + Bytes(t.after)
  <1> DEFINE longer == Append(trace, t)
             n == Len(trace)
             f == KeptInTurn(trace)
             g == KeptInTurn(longer)
  <1>1. /\ n \in Nat /\ longer \in Seq(TraceSteps) /\ Len(longer) = n + 1 /\ longer # <<>>
        /\ longer[n + 1] = t /\ \A i \in 1..n : longer[i] = trace[i]
    OBVIOUS
  <1>2. Bytes(t.before) \in Nat /\ Bytes(t.after) \in Nat
    BY BytesAreNatural DEF TraceSteps
  <1>3. /\ f[0] = IF trace = <<>> THEN 0 ELSE Bytes(trace[1].before)
        /\ \A i \in 1..n : f[i] = f[i - 1] + Bytes(trace[i].after)
        /\ \A i \in 0..n : f[i] \in Nat
    BY KeptIsDefined
  <1> HIDE DEF longer, f
  <1>4. /\ g[0] = Bytes(longer[1].before)
        /\ \A i \in 1..(n + 1) : g[i] = g[i - 1] + Bytes(longer[i].after)
    BY <1>1, KeptIsDefined
  <1> HIDE DEF g, n
  <1>5. BytesOfTrace(trace) = f[n] /\ BytesOfTrace(longer) = g[n + 1]
    BY <1>1 DEF BytesOfTrace, f, g, n
  <1>6. g[n + 1] = g[n] + Bytes(t.after)
    <2>1. n + 1 \in 1..(n + 1) /\ (n + 1) - 1 = n
      BY <1>1
    <2> QED BY <1>1, <1>4, <2>1
  <1>7. CASE trace = <<>>
    <2>1. n = 0
      BY <1>7 DEF n
    <2> QED BY <1>1, <1>2, <1>3, <1>4, <1>5, <1>6, <1>7, <2>1 DEF longer
  <1>8. CASE trace # <<>>
    <2>1. 1 \in 1..n
      BY <1>8 DEF n
    <2> DEFINE T == {i \in 0..n : g[i] = f[i]}
    <2>2. 0 \in T
      BY <1>1, <1>3, <1>4, <1>8, <2>1
    <2>3. ASSUME NEW i \in 0..(n - 1), i \in T
          PROVE  i + 1 \in T
      <3>1. i + 1 \in 1..n /\ i + 1 \in 1..(n + 1) /\ (i + 1) - 1 = i /\ g[i] = f[i]
        BY <1>1, <2>3
      <3>2. g[i + 1] = f[i + 1]
        BY <1>1, <1>3, <1>4, <3>1
      <3> QED BY <3>1, <3>2
    <2> HIDE DEF T
    <2>4. n \in 0..n
      BY <1>1
    <2>5. n \in T
      BY <1>1, <2>2, <2>3, <2>4, BoundedInduction
    <2>6. g[n] = f[n]
      BY <2>5 DEF T
    <2> QED BY <1>1, <1>2, <1>3, <1>5, <1>6, <1>8, <2>4, <2>6 DEF longer
  <1> QED BY <1>7, <1>8

Evaluations == [name : Texts, trace : Seq(TraceSteps), budget : Nat,
                error : {"none", "OutputTooLong", "UnsupportedEncoding", "SequenceOverflow"},
                truncated : BOOLEAN]

\* What rules have made of a source's name, a trace that explains it, and what
\* it has left of a budget: a step that did not fit leaves nothing.
Explained(e, name, budget) ==
  /\ \A k \in DOMAIN e.trace :
       e.trace[k].before = IF k = 1 THEN name ELSE e.trace[k - 1].after
  /\ ~e.truncated => e.name = IF e.trace = <<>> THEN name ELSE e.trace[Len(e.trace)].after
  /\ e.truncated => e.budget = 0
  /\ BytesOfTrace(e.trace) + e.budget <= budget

LEMMA EmptyTrace == <<>> \in Seq(TraceSteps) /\ BytesOfTrace(<<>>) = 0
  <1>1. <<>> \in Seq(TraceSteps) /\ Len(<<>>) = 0
    OBVIOUS
  <1>2. KeptInTurn(<<>>)[0] = 0
    BY <1>1, KeptIsDefined
  <1> QED BY <1>1, <1>2 DEF BytesOfTrace

\* Tracing a step keeps the trace an explanation.
LEMMA TracedIsExplained ==
  ASSUME NEW name \in Texts, NEW budget \in Nat, NEW e \in Evaluations, Explained(e, name, budget),
         e.error = "none", NEW i \in Nat, NEW result,
         result.error \in {"none", "OutputTooLong", "UnsupportedEncoding", "SequenceOverflow"},
         result.error = "none" => result.name \in Texts
  PROVE  LET next == TracedResult(e, i, result)
         IN next \in Evaluations /\ Explained(next, name, budget)
  <1> DEFINE next == TracedResult(e, i, result)
             bytes == TraceCost(e, result)
             t == [rule |-> i, before |-> e.name, after |-> result.name]
             left == Retained(e.budget, bytes)
  <1>0. /\ e.name \in Texts /\ e.trace \in Seq(TraceSteps) /\ e.budget \in Nat /\ e.truncated \in BOOLEAN
    BY DEF Evaluations
  <1>1. CASE result.error # "none"
    <2>1. next = [e EXCEPT !.error = result.error]
      BY <1>1 DEF TracedResult, Traced
    <2> HIDE DEF next
    <2>2. next \in Evaluations
      BY <2>1 DEF Evaluations
    <2>3. /\ next.name = e.name /\ next.trace = e.trace /\ next.budget = e.budget
          /\ next.truncated = e.truncated
      BY <2>1 DEF Evaluations
    <2> QED BY <2>2, <2>3 DEF Explained, next
  <1>2. CASE result.error = "none"
    <2>1. t \in TraceSteps /\ result.name \in Texts
      BY <1>0, <1>2 DEF TraceSteps
    <2>2. /\ BytesOfTrace(e.trace) \in Nat
          /\ Bytes(e.name) \in Nat /\ Bytes(result.name) \in Nat
          /\ BytesOfTrace(Append(e.trace, t)) =
               IF e.trace = <<>> THEN Bytes(e.name) + Bytes(result.name)
               ELSE BytesOfTrace(e.trace) + Bytes(result.name)
      <3> HIDE DEF t
      <3>1. t.before = e.name /\ t.after = result.name
        BY DEF t
      <3> QED BY <1>0, <2>1, <3>1, AppendedTrace
    <2>3. bytes \in Nat /\ BytesOfTrace(Append(e.trace, t)) = BytesOfTrace(e.trace) + bytes
      <3> HIDE DEF t
      <3>1. CASE e.trace = <<>>
        BY <2>2, <3>1, EmptyTrace DEF TraceCost
      <3>2. CASE e.trace # <<>>
        BY <2>2, <3>2 DEF TraceCost
      <3> QED BY <3>1, <3>2
    <2> HIDE DEF bytes
    <2>4. left \in Nat /\ left <= e.budget /\ (bytes <= e.budget => left = e.budget - bytes)
          /\ (~(e.budget > 0 /\ bytes <= e.budget) => left = 0)
      BY <1>0, <2>3 DEF Retained
    <2>5. next = IF e.budget > 0 /\ bytes <= e.budget
                 THEN [e EXCEPT !.name = result.name, !.budget = left, !.trace = Append(e.trace, t)]
                 ELSE [e EXCEPT !.name = result.name, !.budget = left, !.truncated = TRUE]
      BY <1>2 DEF TracedResult, Traced, bytes, Evaluations
    <2> HIDE DEF left, next
    <2>6. CASE e.budget > 0 /\ bytes <= e.budget
      <3>1. next = [e EXCEPT !.name = result.name, !.budget = left, !.trace = Append(e.trace, t)]
        BY <2>5, <2>6
      <3> DEFINE longer == Append(e.trace, t)
      <3>2. longer \in Seq(TraceSteps) /\ longer # <<>> /\ Len(longer) = Len(e.trace) + 1
            /\ longer[Len(longer)] = t /\ (\A k \in DOMAIN e.trace : longer[k] = e.trace[k])
            /\ DOMAIN longer = 1..(Len(e.trace) + 1) /\ DOMAIN e.trace = 1..Len(e.trace)
            /\ Len(e.trace) \in Nat /\ (Len(e.trace) = 0 <=> e.trace = <<>>)
        <4> HIDE DEF t
        <4> QED BY <1>0, <2>1
      <3>3. t.before = e.name /\ t.after = result.name
        OBVIOUS
      <3> HIDE DEF longer, t
      <3>4. /\ next.name = result.name /\ next.budget = left /\ next.trace = longer
            /\ next.truncated = e.truncated /\ next \in Evaluations
        BY <2>1, <2>4, <3>1, <3>2 DEF longer, Evaluations
      <3>5. ~e.truncated
        BY <2>6 DEF Explained
      <3>6. ASSUME NEW k \in DOMAIN longer
            PROVE  longer[k].before = IF k = 1 THEN name ELSE longer[k - 1].after
        <4>1. CASE k = Len(e.trace) + 1
          <5>1. longer[k] = t
            BY <3>2, <4>1
          <5>2. e.trace # <<>> => /\ k # 1 /\ k - 1 = Len(e.trace) /\ longer[k - 1] = e.trace[Len(e.trace)]
            BY <3>2, <4>1
          <5>3. e.trace = <<>> => k = 1
            BY <3>2, <4>1
          <5> QED BY <3>3, <3>5, <5>1, <5>2, <5>3 DEF Explained
        <4>2. CASE k # Len(e.trace) + 1
          <5>1. k \in DOMAIN e.trace /\ (k # 1 => k - 1 \in DOMAIN e.trace)
            BY <3>2, <4>2
          <5> QED BY <3>2, <5>1 DEF Explained
        <4> QED BY <4>1, <4>2
      <3>7. BytesOfTrace(longer) + left <= budget
        BY <1>0, <2>2, <2>3, <2>4, <2>6 DEF Explained, longer
      <3> QED BY <3>2, <3>3, <3>4, <3>5, <3>6, <3>7 DEF Explained, next
    <2>7. CASE ~(e.budget > 0 /\ bytes <= e.budget)
      <3>1. next = [e EXCEPT !.name = result.name, !.budget = left, !.truncated = TRUE]
        BY <2>5, <2>7
      <3>2. /\ next.name = result.name /\ next.budget = left /\ next.trace = e.trace
            /\ next.truncated = TRUE /\ next \in Evaluations
        BY <2>1, <2>4, <3>1 DEF Evaluations
      <3>3. left = 0
        BY <2>4, <2>7
      <3>4. BytesOfTrace(e.trace) + left <= budget
        BY <1>0, <2>2, <2>4 DEF Explained
      <3> QED BY <3>2, <3>3, <3>4 DEF Explained, next
    <2> QED BY <2>6, <2>7
  <1> QED BY <1>1, <1>2

\* Every rule applied in turn keeps the trace an explanation.
LEMMA AppliedIsDefined ==
  ASSUME NEW s, s.name \in Texts, NEW rules \in Seq(Rules), NEW values, NEW budget \in Nat,
         \A i \in DOMAIN rules : values[i][s.id] \in Nat \cup {NoValue}
  PROVE  /\ AppliedInTurn(s, rules, values, budget)[0] = [name |-> s.name, trace |-> <<>>, budget |-> budget, error |-> "none", truncated |-> FALSE]
         /\ \A i \in 1..Len(rules) : AppliedInTurn(s, rules, values, budget)[i] = Applied(AppliedInTurn(s, rules, values, budget)[i - 1], s, rules, values, i)
         /\ \A i \in 0..Len(rules) : AppliedInTurn(s, rules, values, budget)[i] \in {e \in Evaluations : Explained(e, s.name, budget)}
  <1> DEFINE n == Len(rules)
             S == {e \in Evaluations : Explained(e, s.name, budget)}
             base == [name |-> s.name, trace |-> <<>>, budget |-> budget, error |-> "none", truncated |-> FALSE]
             Step(i, x) == Applied(x, s, rules, values, i)
             step == [i \in 1..n |-> [x \in S |-> Step(i, x)]]
             Is(g) == g = [i \in 0..n |-> IF i = 0 THEN base ELSE Step(i, g[i - 1])]
             f == CHOOSE g : Is(g)
  <1>1. n \in Nat
    OBVIOUS
  <1>2. base \in S
    <2>1. base \in Evaluations
      BY EmptyTrace DEF Evaluations
    <2>2. Explained(base, s.name, budget)
      BY EmptyTrace DEF Explained
    <2> QED BY <2>1, <2>2
  <1>3. ASSUME NEW i \in 1..n, NEW x \in S
        PROVE  Step(i, x) \in S
    <2>1. CASE x.error # "none" \/ (s.object \in Directories /\ ~AppliesToDirectories(rules[i]))
      BY <2>1 DEF Applied
    <2>2. CASE ~(x.error # "none" \/ (s.object \in Directories /\ ~AppliesToDirectories(rules[i])))
      <3> DEFINE result == ApplyRule(rules[i], x.name, values[i][s.id])
      <3>1. rules[i] \in Rules /\ values[i][s.id] \in Nat \cup {NoValue} /\ i \in Nat
        OBVIOUS
      <3>2. x \in Evaluations /\ Explained(x, s.name, budget) /\ x.name \in Texts /\ x.error = "none"
        BY <2>2 DEF Evaluations
      <3>3. /\ result.error \in {"none", "OutputTooLong", "UnsupportedEncoding", "SequenceOverflow"}
            /\ result.error = "none" => result.name \in Texts
        BY <3>1, <3>2, RuleMakesText
      <3> HIDE DEF result
      <3>4. TracedResult(x, i, result) \in S
        BY <3>1, <3>2, <3>3, TracedIsExplained
      <3> QED BY <2>2, <3>4 DEF Applied, result
    <2> QED BY <2>1, <2>2
  <1>4. AppliedInTurn(s, rules, values, budget) = f
    BY Zenon DEF AppliedInTurn
  <1> HIDE DEF n, S, base, Step
  <1>5. \A i \in 1..n, x \in S : step[i][x] = Step(i, x)
    OBVIOUS
  <1> HIDE DEF step
  <1>6. PICK g \in [0..n -> S] : Recursive(g, n, base, step)
    <2>1. StepsStay(step, n, S)
      BY <1>3, <1>5 DEF StepsStay
    <2> QED BY <1>1, <1>2, <2>1, RecursionExists
  <1>7. Is(g)
    <2>1. ASSUME NEW i \in 0..n
          PROVE  g[i] = IF i = 0 THEN base ELSE Step(i, g[i - 1])
      <3>1. CASE i = 0
        BY <1>6, <3>1 DEF Recursive
      <3>2. CASE i # 0
        <4>1. i \in 1..n /\ i - 1 \in 0..n
          BY <1>1, <3>2
        <4> QED BY <1>5, <1>6, <3>2, <4>1 DEF Recursive
      <3> QED BY <3>1, <3>2
    <2> QED BY <2>1
  <1>8. Is(f)
    <2> HIDE DEF Is
    <2> QED BY <1>7
  <1>9. f[0] = base /\ \A i \in 1..n : f[i] = Step(i, f[i - 1])
    <2> HIDE DEF f
    <2> QED BY <1>1, <1>8
  <1> HIDE DEF f, Is
  <1>10. \A i \in 0..n : f[i] \in S
    <2>1. f[0] \in S
      BY <1>2, <1>9
    <2>2. \A i \in 1..n : f[i - 1] \in S => f[i] \in S
      BY <1>3, <1>9
    <2> QED BY <1>1, <2>1, <2>2, StaysIn
  <1> QED BY <1>4, <1>9, <1>10 DEF n, S, base, Step

LEMMA EvaluationIsExplained ==
  ASSUME NEW s, s.name \in Texts, NEW rules \in Seq(Rules), NEW values, NEW budget \in Nat,
         \A i \in DOMAIN rules : values[i][s.id] \in Nat \cup {NoValue}
  PROVE  LET e == Evaluated(s, rules, values, budget)
         IN e \in Evaluations /\ Explained(e, s.name, budget)
  <1>1. Len(rules) \in 0..Len(rules)
    OBVIOUS
  <1>2. Evaluated(s, rules, values, budget) \in {e \in Evaluations : Explained(e, s.name, budget)}
    BY <1>1, AppliedIsDefined DEF Evaluated
  <1> QED BY <1>2

LEMMA TraceHasBytes == \A trace \in Seq(TraceSteps) : BytesOfTrace(trace) \in Nat
  <1> SUFFICES ASSUME NEW trace \in Seq(TraceSteps)
               PROVE  BytesOfTrace(trace) \in Nat
    OBVIOUS
  <1>1. Len(trace) \in 0..Len(trace)
    OBVIOUS
  <1> QED BY <1>1, KeptIsDefined DEF BytesOfTrace

\* The sources are evaluated in turn, each with the budget the one before left.
LEMMA EvaluationsAreDefined ==
  ASSUME NEW sources, Len(sources) \in Nat, NEW rules \in Seq(Rules), NEW values,
         \A k \in 1..Len(sources) : sources[k].name \in Texts
           /\ \A i \in DOMAIN rules : values[i][sources[k].id] \in Nat \cup {NoValue}
  PROVE  /\ EvaluatedInTurn(sources, rules, values)[0] = [budget |-> MaxTrace]
         /\ \A i \in 1..Len(sources) : EvaluatedInTurn(sources, rules, values)[i] = Evaluated(sources[i], rules, values, EvaluatedInTurn(sources, rules, values)[i - 1].budget)
         /\ \A i \in 0..Len(sources) : EvaluatedInTurn(sources, rules, values)[i] \in ([budget : Nat] \cup Evaluations)
  <1> DEFINE n == Len(sources)
             S == ([budget : Nat] \cup Evaluations)
             base == [budget |-> MaxTrace]
             Step(i, x) == Evaluated(sources[i], rules, values, x.budget)
             step == [i \in 1..n |-> [x \in S |-> Step(i, x)]]
             Is(g) == g = [i \in 0..n |-> IF i = 0 THEN base ELSE Step(i, g[i - 1])]
             f == CHOOSE g : Is(g)
  <1>1. n \in Nat
    OBVIOUS
  <1>2. base \in S
    BY BoundsAssumption DEF BoundsAssumption
  <1>3. ASSUME NEW i \in 1..n, NEW x \in S
        PROVE  Step(i, x) \in S
    <2>1. x.budget \in Nat
      BY DEF Evaluations
    <2>2. Evaluated(sources[i], rules, values, x.budget) \in Evaluations
      BY <2>1, EvaluationIsExplained
    <2> QED BY <2>2
  <1>4. EvaluatedInTurn(sources, rules, values) = f
    BY Zenon DEF EvaluatedInTurn
  <1> HIDE DEF n, S, base, Step
  <1>5. \A i \in 1..n, x \in S : step[i][x] = Step(i, x)
    OBVIOUS
  <1> HIDE DEF step
  <1>6. PICK g \in [0..n -> S] : Recursive(g, n, base, step)
    <2>1. StepsStay(step, n, S)
      BY <1>3, <1>5 DEF StepsStay
    <2> QED BY <1>1, <1>2, <2>1, RecursionExists
  <1>7. Is(g)
    <2>1. ASSUME NEW i \in 0..n
          PROVE  g[i] = IF i = 0 THEN base ELSE Step(i, g[i - 1])
      <3>1. CASE i = 0
        BY <1>6, <3>1 DEF Recursive
      <3>2. CASE i # 0
        <4>1. i \in 1..n /\ i - 1 \in 0..n
          BY <1>1, <3>2
        <4> QED BY <1>5, <1>6, <3>2, <4>1 DEF Recursive
      <3> QED BY <3>1, <3>2
    <2> QED BY <2>1
  <1>8. Is(f)
    <2> HIDE DEF Is
    <2> QED BY <1>7
  <1>9. f[0] = base /\ \A i \in 1..n : f[i] = Step(i, f[i - 1])
    <2> HIDE DEF f
    <2> QED BY <1>1, <1>8
  <1> HIDE DEF f, Is
  <1>10. \A i \in 0..n : f[i] \in S
    <2>1. f[0] \in S
      BY <1>2, <1>9
    <2>2. \A i \in 1..n : f[i - 1] \in S => f[i] \in S
      BY <1>3, <1>9
    <2> QED BY <1>1, <2>1, <2>2, StaysIn
  <1> QED BY <1>4, <1>9, <1>10 DEF n, S, base, Step

\* The bytes of the rows are summed in turn.
LEMMA RowBytesAreDefined ==
  ASSUME NEW rows, Len(rows) \in Nat, \A i \in 1..Len(rows) : rows[i].trace \in Seq(TraceSteps)
  PROVE  /\ RowsInTurn(rows)[0] = 0
         /\ \A i \in 1..Len(rows) : RowsInTurn(rows)[i] = RowsInTurn(rows)[i - 1] + BytesOfTrace(rows[i].trace)
         /\ \A i \in 0..Len(rows) : RowsInTurn(rows)[i] \in Nat
  <1> DEFINE n == Len(rows)
             S == Nat
             base == 0
             Step(i, x) == x + BytesOfTrace(rows[i].trace)
             step == [i \in 1..n |-> [x \in S |-> Step(i, x)]]
             Is(g) == g = [i \in 0..n |-> IF i = 0 THEN base ELSE Step(i, g[i - 1])]
             f == CHOOSE g : Is(g)
  <1>1. n \in Nat
    OBVIOUS
  <1>2. base \in S
    OBVIOUS
  <1>3. ASSUME NEW i \in 1..n, NEW x \in S
        PROVE  Step(i, x) \in S
    <2>1. rows[i].trace \in Seq(TraceSteps)
      OBVIOUS
    <2>2. BytesOfTrace(rows[i].trace) \in Nat
      BY <2>1, TraceHasBytes
    <2> QED BY <2>2
  <1>4. RowsInTurn(rows) = f
    BY Zenon DEF RowsInTurn
  <1> HIDE DEF n, S, base, Step
  <1>5. \A i \in 1..n, x \in S : step[i][x] = Step(i, x)
    OBVIOUS
  <1> HIDE DEF step
  <1>6. PICK g \in [0..n -> S] : Recursive(g, n, base, step)
    <2>1. StepsStay(step, n, S)
      BY <1>3, <1>5 DEF StepsStay
    <2> QED BY <1>1, <1>2, <2>1, RecursionExists
  <1>7. Is(g)
    <2>1. ASSUME NEW i \in 0..n
          PROVE  g[i] = IF i = 0 THEN base ELSE Step(i, g[i - 1])
      <3>1. CASE i = 0
        BY <1>6, <3>1 DEF Recursive
      <3>2. CASE i # 0
        <4>1. i \in 1..n /\ i - 1 \in 0..n
          BY <1>1, <3>2
        <4> QED BY <1>5, <1>6, <3>2, <4>1 DEF Recursive
      <3> QED BY <3>1, <3>2
    <2> QED BY <2>1
  <1>8. Is(f)
    <2> HIDE DEF Is
    <2> QED BY <1>7
  <1>9. f[0] = base /\ \A i \in 1..n : f[i] = Step(i, f[i - 1])
    <2> HIDE DEF f
    <2> QED BY <1>1, <1>8
  <1> HIDE DEF f, Is
  <1>10. \A i \in 0..n : f[i] \in S
    <2>1. f[0] \in S
      BY <1>2, <1>9
    <2>2. \A i \in 1..n : f[i - 1] \in S => f[i] \in S
      BY <1>3, <1>9
    <2> QED BY <1>1, <2>1, <2>2, StaysIn
  <1> QED BY <1>4, <1>9, <1>10 DEF n, S, base, Step

\* All the traces keep to the budget of the plan.
LEMMA TracesKeepToTheBudget ==
  ASSUME NEW sources, Len(sources) \in Nat, NEW rules \in Seq(Rules), NEW values,
         \A k \in 1..Len(sources) : sources[k].name \in Texts
           /\ \A i \in DOMAIN rules : values[i][sources[k].id] \in Nat \cup {NoValue},
         NEW rows, Len(rows) = Len(sources),
         \A i \in 1..Len(sources) : rows[i].trace = EvaluatedInTurn(sources, rules, values)[i].trace
  PROVE  /\ BytesOfRows(rows) <= MaxTrace
         /\ \A i \in 1..Len(sources) :
              LET e == EvaluatedInTurn(sources, rules, values)[i]
              IN e \in Evaluations /\ \E budget \in Nat : Explained(e, sources[i].name, budget)
  <1> DEFINE n == Len(sources)
             E == EvaluatedInTurn(sources, rules, values)
             f == RowsInTurn(rows)
  <1>1. /\ E[0] = [budget |-> MaxTrace]
        /\ \A i \in 1..n : E[i] = Evaluated(sources[i], rules, values, E[i - 1].budget)
        /\ \A i \in 0..n : E[i] \in [budget : Nat] \cup Evaluations
    BY EvaluationsAreDefined
  <1> HIDE DEF E
  <1>2. ASSUME NEW i \in 1..n
        PROVE  /\ E[i] \in Evaluations /\ Explained(E[i], sources[i].name, E[i - 1].budget)
               /\ E[i - 1].budget \in Nat /\ E[i].budget \in Nat
    <2>1. i - 1 \in 0..n
      OBVIOUS
    <2>2. E[i - 1].budget \in Nat
      BY <1>1, <2>1 DEF Evaluations
    <2>3. E[i] \in Evaluations /\ Explained(E[i], sources[i].name, E[i - 1].budget)
      <3> DEFINE s == sources[i]
                 left == E[i - 1].budget
      <3>1. /\ s.name \in Texts /\ left \in Nat
            /\ \A k \in DOMAIN rules : values[k][s.id] \in Nat \cup {NoValue}
            /\ E[i] = Evaluated(s, rules, values, left)
        BY <1>1, <2>2
      <3> HIDE DEF s, left
      <3>2. E[i] \in Evaluations /\ Explained(E[i], s.name, left)
        BY <3>1, EvaluationIsExplained
      <3> QED BY <3>2 DEF s, left
    <2> QED BY <2>2, <2>3 DEF Evaluations
  <1>3. \A i \in 1..n : rows[i].trace \in Seq(TraceSteps)
    BY <1>2 DEF E, Evaluations
  <1>4. /\ f[0] = 0 /\ \A i \in 1..n : f[i] = f[i - 1] + BytesOfTrace(rows[i].trace)
        /\ \A i \in 0..n : f[i] \in Nat
    BY <1>3, RowBytesAreDefined
  <1> HIDE DEF f
  <1> DEFINE T == {i \in 0..n : f[i] + E[i].budget <= MaxTrace}
  <1>5. 0 \in T
    <2>1. MaxTrace \in Nat
      BY BoundsAssumption DEF BoundsAssumption
    <2> QED BY <1>1, <1>4, <2>1
  <1>6. ASSUME NEW i \in 0..(n - 1), i \in T
        PROVE  i + 1 \in T
    <2>1. i + 1 \in 1..n /\ (i + 1) - 1 = i /\ i \in 0..n /\ i + 1 \in 0..n
      OBVIOUS
    <2>2. f[i + 1] = f[i] + BytesOfTrace(rows[i + 1].trace) /\ f[i] \in Nat
      BY <1>4, <2>1
    <2>3. /\ BytesOfTrace(E[i + 1].trace) + E[i + 1].budget <= E[i].budget
          /\ E[i + 1].budget \in Nat /\ E[i].budget \in Nat
      BY <1>2, <2>1 DEF Explained
    <2>4. rows[i + 1].trace = E[i + 1].trace /\ BytesOfTrace(E[i + 1].trace) \in Nat
      BY <1>2, <1>3, <2>1, TraceHasBytes DEF E
    <2>5. f[i] + E[i].budget <= MaxTrace /\ MaxTrace \in Nat
      BY <1>6, BoundsAssumption DEF BoundsAssumption
    <2>6. f[i + 1] + E[i + 1].budget <= MaxTrace
      BY <2>2, <2>3, <2>4, <2>5
    <2> QED BY <2>1, <2>6
  <1> HIDE DEF T
  <1>7. n \in T
    <2>1. n \in Nat /\ n \in 0..n
      OBVIOUS
    <2> HIDE DEF n
    <2> QED BY <1>5, <1>6, <2>1, BoundedInduction
  <1>8. f[n] <= MaxTrace
    <2>1. f[n] + E[n].budget <= MaxTrace /\ n \in 0..n
      BY <1>7 DEF T
    <2>2. f[n] \in Nat /\ E[n].budget \in Nat /\ MaxTrace \in Nat
      BY <1>1, <1>4, <2>1, BoundsAssumption DEF BoundsAssumption, Evaluations
    <2> QED BY <2>1, <2>2
  <1>9. BytesOfRows(rows) = f[n]
    BY DEF BytesOfRows, f
  <1> QED BY <1>2, <1>8, <1>9 DEF E

-----------------------------------------------------------------------------
(***************************************************************************)
(* What a user relies on.                                                  *)
(***************************************************************************)
\* A filter looks at a character alone.
LEMMA FilteredAppend ==
  ASSUME NEW text \in Texts, NEW c \in Characters, NEW class, NEW operation
  PROVE  /\ Append(text, c) \in Texts
         /\ ApplyClass(Append(text, c), class, operation) =
              IF Stays(c, class, operation) THEN Append(ApplyClass(text, class, operation), c)
              ELSE ApplyClass(text, class, operation)
  <1> DEFINE longer == Append(text, c)
             n == Len(text)
             f == FilteredInTurn(text, class, operation)
             g == FilteredInTurn(longer, class, operation)
  <1>1. /\ n \in Nat /\ longer \in Texts /\ Len(longer) = n + 1
        /\ longer[n + 1] = c /\ \A i \in 1..n : longer[i] = text[i]
    BY DEF Texts
  <1>2. /\ f[0] = <<>>
        /\ \A i \in 1..n : f[i] = IF Stays(text[i], class, operation) THEN Append(f[i - 1], text[i]) ELSE f[i - 1]
    BY FilteredIsDefined
  <1> HIDE DEF longer, f
  <1>3. /\ g[0] = <<>>
        /\ \A i \in 1..(n + 1) :
             g[i] = IF Stays(longer[i], class, operation) THEN Append(g[i - 1], longer[i]) ELSE g[i - 1]
    BY <1>1, FilteredIsDefined
  <1> HIDE DEF g, n
  <1> DEFINE T == {i \in 0..n : g[i] = f[i]}
  <1>4. 0 \in T
    BY <1>1, <1>2, <1>3
  <1>5. ASSUME NEW i \in 0..(n - 1), i \in T
        PROVE  i + 1 \in T
    <2>1. i + 1 \in 1..n /\ i + 1 \in 1..(n + 1) /\ (i + 1) - 1 = i /\ g[i] = f[i]
      BY <1>1, <1>5
    <2>2. g[i + 1] = f[i + 1]
      BY <1>1, <1>2, <1>3, <2>1
    <2> QED BY <2>1, <2>2
  <1> HIDE DEF T
  <1>6. n \in 0..n /\ n \in T
    BY <1>1, <1>4, <1>5, BoundedInduction
  <1>7. g[n] = f[n]
    BY <1>6 DEF T
  <1>8. g[n + 1] = IF Stays(c, class, operation) THEN Append(g[n], c) ELSE g[n]
    <2>1. n + 1 \in 1..(n + 1) /\ (n + 1) - 1 = n
      BY <1>1
    <2> QED BY <1>1, <1>3, <2>1
  <1>9. ApplyClass(text, class, operation) = f[n] /\ ApplyClass(longer, class, operation) = g[n + 1]
    BY <1>1 DEF ApplyClass, f, g, n
  <1> QED BY <1>1, <1>7, <1>8, <1>9 DEF longer

\* White space is one " " between two other characters, or the last one.
IsSpace(c) == Class[c] = "whitespace"

Spaced(text) ==
  \A i \in DOMAIN text : IsSpace(text[i]) =>
    text[i] = " " /\ i # 1 /\ (i # Len(text) => ~IsSpace(text[i + 1]))

EndsInSpace(text) == text # <<>> /\ IsSpace(text[Len(text)])

MayFollow(text, c) == IsSpace(c) => c = " " /\ text # <<>> /\ ~EndsInSpace(text)

LEMMA AppendFacts ==
  ASSUME NEW text \in Texts, NEW c \in Characters
  PROVE  /\ Len(text) \in Nat /\ DOMAIN text = 1..Len(text) /\ (text = <<>> <=> Len(text) = 0)
         /\ Append(text, c) \in Texts /\ Len(Append(text, c)) = Len(text) + 1
         /\ DOMAIN Append(text, c) = 1..(Len(text) + 1) /\ Append(text, c) # <<>>
         /\ Append(text, c)[Len(text) + 1] = c /\ \A i \in 1..Len(text) : Append(text, c)[i] = text[i]
  <1>1. text \in Seq(Characters)
    BY DEF Texts
  <1>2. Len(text) \in Nat /\ DOMAIN text = 1..Len(text) /\ (text = <<>> <=> Len(text) = 0)
    BY <1>1, EmptySeq
  <1>3. /\ Append(text, c) \in Seq(Characters) /\ Len(Append(text, c)) = Len(text) + 1
        /\ Append(text, c)[Len(text) + 1] = c /\ \A i \in 1..Len(text) : Append(text, c)[i] = text[i]
    BY <1>1, AppendProperties
  <1>4. DOMAIN Append(text, c) = 1..(Len(text) + 1)
    BY <1>3
  <1>5. Append(text, c) # <<>>
    <2>1. Len(<<>>) = 0
      OBVIOUS
    <2> QED BY <1>2, <1>3, <2>1
  <1> QED BY <1>2, <1>3, <1>4, <1>5 DEF Texts

LEMMA OneCharacterIsText ==
  ASSUME NEW c \in Characters
  PROVE  <<c>> \in Texts /\ \A text \in Texts : text \o <<c>> = Append(text, c)
  <1>1. <<c>> \in Seq(Characters)
    OBVIOUS
  <1>2. \A text \in Seq(Characters) : text \o <<c>> = Append(text, c)
    OBVIOUS
  <1> QED BY <1>1, <1>2 DEF Texts

LEMMA AppendSpaced ==
  ASSUME NEW text \in Texts, Spaced(text), NEW c \in Characters,
         MayFollow(text, c)
  PROVE  Append(text, c) \in Texts /\ Spaced(Append(text, c)) /\ (EndsInSpace(Append(text, c)) <=> IsSpace(c))
  <1> DEFINE longer == Append(text, c)
             n == Len(text)
  <1>1. /\ n \in Nat /\ DOMAIN text = 1..n /\ (text = <<>> <=> n = 0)
        /\ DOMAIN longer = 1..(n + 1) /\ Len(longer) = n + 1 /\ longer \in Texts /\ longer # <<>>
        /\ longer[n + 1] = c /\ \A i \in 1..n : longer[i] = text[i]
    BY AppendFacts
  <1>a. EndsInSpace(text) <=> n # 0 /\ IsSpace(text[n])
    BY <1>1 DEF EndsInSpace
  <1>b. n \in Nat /\ longer[n + 1] = c /\ \A i \in 1..n : longer[i] = text[i]
    BY <1>1
  <1> HIDE DEF longer, n
  <1>2. ASSUME NEW i \in 1..(n + 1), IsSpace(longer[i])
        PROVE  longer[i] = " " /\ i # 1 /\ (i # n + 1 => ~IsSpace(longer[i + 1]))
    <2>1. CASE i = n + 1
      <3>1. longer[i] = c
        BY <1>1, <2>1
      <3>2. c = " " /\ n # 0
        BY <1>1, <1>2, <3>1 DEF MayFollow
      <3>3. n # 0
        BY <3>2
      <3>4. i # 1
        BY <1>b, <2>1, <3>3
      <3>5. longer[i] = " "
        BY <3>1, <3>2
      <3> QED BY <2>1, <3>4, <3>5
    <2>2. CASE i # n + 1
      <3>1. i \in 1..n /\ longer[i] = text[i]
        BY <1>b, <1>2, <2>2
      <3>2. text[i] = " " /\ i # 1 /\ (i # n => ~IsSpace(text[i + 1]))
        BY <1>1, <1>2, <3>1 DEF Spaced, n
      <3>3. CASE i = n
        <4>1. IsSpace(text[n]) /\ n # 0
          <5>1. i = n /\ n # 0
            BY <1>b, <1>2, <3>1, <3>3
          <5>2. IsSpace(text[i])
            BY <1>2, <3>1
          <5> QED BY <5>1, <5>2
        <4>2. ~IsSpace(c)
          BY <1>a, <4>1 DEF MayFollow
        <4> QED BY <1>1, <3>1, <3>2, <3>3, <4>2
      <3>4. CASE i # n
        <4>1. i + 1 \in 1..n
          BY <1>b, <1>2, <3>1, <3>4
        <4>2. longer[i + 1] = text[i + 1]
          BY <1>b, <1>2, <4>1
        <4> QED BY <3>1, <3>2, <3>4, <4>2
      <3> QED BY <3>3, <3>4
    <2> QED BY <2>1, <2>2
  <1>3. Spaced(longer)
    <2>1. DOMAIN longer = 1..(n + 1) /\ Len(longer) = n + 1
      BY <1>1
    <2> QED BY <1>2, <2>1 DEF Spaced
  <1>4. EndsInSpace(longer) <=> IsSpace(c)
    BY <1>1 DEF EndsInSpace
  <1> QED BY <1>1, <1>3, <1>4 DEF longer

LEMMA SpaceIsASpace == " " \in Characters /\ IsSpace(" ")
  <1>1. {".", " "} \subseteq Characters /\ Class[" "] = "whitespace"
    BY AlphabetAssumption DEF AlphabetAssumption
  <1> QED BY <1>1 DEF IsSpace

\* Of what was read, everything but white space was written.
Unspaced(text) == ApplyClass(text, "whitespace", "remove")

CleanSoFar(state, kept) ==
  /\ Unspaced(state.out) = kept /\ Spaced(state.out) /\ ~EndsInSpace(state.out)
  /\ state.pending => state.out # <<>>

LEMMA UnspacedAppend ==
  ASSUME NEW text \in Texts, NEW c \in Characters
  PROVE  Unspaced(Append(text, c)) = IF IsSpace(c) THEN Unspaced(text) ELSE Append(Unspaced(text), c)
  <1>1. Stays(c, "whitespace", "remove") <=> ~IsSpace(c)
    BY DEF Stays, IsSpace
  <1> QED BY <1>1, FilteredAppend DEF Unspaced

LEMMA CleaningStaysClean ==
  ASSUME NEW state \in [out : Texts, pending : BOOLEAN], NEW kept, CleanSoFar(state, kept),
         NEW c \in Characters
  PROVE  CleanSoFar(ReadSpaced(state, c, <<" ">>), IF IsSpace(c) THEN kept ELSE Append(kept, c))
  <1> DEFINE next == ReadSpaced(state, c, <<" ">>)
             out == state.out
  <1>1. CASE IsSpace(c)
    <2>1. next = [state EXCEPT !.pending = state.out # <<>>]
      BY <1>1 DEF ReadSpaced, IsSpace
    <2>2. next.out = state.out /\ next.pending = (state.out # <<>>)
      <3> HIDE DEF next
      <3> QED BY <2>1
    <2> QED BY <1>1, <2>2 DEF CleanSoFar
  <1>2. CASE ~IsSpace(c)
    <2> DEFINE spaced == IF state.pending THEN Append(out, " ") ELSE out
    <2>1. /\ spaced \in Texts /\ Spaced(spaced) /\ Unspaced(spaced) = kept
      <3>1. out \in Texts /\ Spaced(out) /\ Unspaced(out) = kept /\ ~EndsInSpace(out)
            /\ (state.pending => out # <<>>)
        BY DEF CleanSoFar
      <3> HIDE DEF out
      <3>2. CASE state.pending
        <4>1. Append(out, " ") \in Texts /\ Spaced(Append(out, " "))
          BY <3>1, <3>2, SpaceIsASpace, AppendSpaced DEF MayFollow
        <4>2. Unspaced(Append(out, " ")) = Unspaced(out)
          BY <3>1, SpaceIsASpace, UnspacedAppend
        <4> QED BY <3>1, <3>2, <4>1, <4>2
      <3>3. CASE ~state.pending
        BY <3>1, <3>3
      <3> QED BY <3>2, <3>3
    <2>2. out \o <<" ">> = Append(out, " ")
      BY SpaceIsASpace, OneCharacterIsText
    <2>3. next = [out |-> spaced \o <<c>>, pending |-> FALSE]
      BY <1>2, <2>2 DEF ReadSpaced, IsSpace
    <2> HIDE DEF spaced, next, out
    <2>4. spaced \o <<c>> = Append(spaced, c)
      BY <2>1 DEF Texts
    <2>5. next.out = Append(spaced, c) /\ next.pending = FALSE
      BY <2>3, <2>4
    <2>6. Spaced(Append(spaced, c)) /\ ~EndsInSpace(Append(spaced, c))
      BY <1>2, <2>1, AppendSpaced DEF MayFollow
    <2>7. Unspaced(Append(spaced, c)) = Append(kept, c)
      BY <1>2, <2>1, UnspacedAppend
    <2> QED BY <1>2, <2>5, <2>6, <2>7 DEF CleanSoFar, next
  <1> QED BY <1>1, <1>2

\* Cleaned text (rules.rs:843)
LEMMA CleanedTextIsClean ==
  ASSUME NEW rule, NEW text \in Texts
  PROVE  TextIsClean(rule, text)
  <1> DEFINE n == Len(text)
             f == CleanedInTurn(text, <<" ">>)
             g == FilteredInTurn(text, "whitespace", "remove")
  <1>1. <<" ">> \in Texts
    BY SpaceIsASpace, OneCharacterIsText
  <1>2. /\ n \in Nat /\ \A i \in 1..n : text[i] \in Characters
    BY DEF Texts
  <1>3. /\ f[0] = [out |-> <<>>, pending |-> FALSE]
        /\ \A i \in 1..n : f[i] = ReadSpaced(f[i - 1], text[i], <<" ">>)
        /\ \A i \in 0..n : f[i] \in [out : Texts, pending : BOOLEAN]
    BY <1>1, CleanedIsDefined
  <1>4. /\ g[0] = <<>>
        /\ \A i \in 1..n : g[i] = IF Stays(text[i], "whitespace", "remove") THEN Append(g[i - 1], text[i]) ELSE g[i - 1]
    BY FilteredIsDefined
  <1>5. f[n].out = CleanWhitespace(text, <<" ">>) /\ g[n] = Unspaced(text)
    BY DEF CleanWhitespace, Unspaced, ApplyClass
  <1> HIDE DEF f, g, n
  <1> DEFINE T == {i \in 0..n : CleanSoFar(f[i], g[i])}
  <1>6. 0 \in T
    <2>1. Unspaced(<<>>) = <<>>
      <3>1. <<>> \in Texts /\ Len(<<>>) = 0
        BY DEF Texts
      <3> QED BY <3>1, FilteredIsDefined DEF Unspaced, ApplyClass
    <2>2. DOMAIN <<>> = {}
      OBVIOUS
    <2>3. f[0].out = <<>> /\ f[0].pending = FALSE
      <3> HIDE DEF T
      <3>1. f[0] = [out |-> <<>>, pending |-> FALSE]
        BY <1>3
      <3> QED BY <3>1
    <2>4. CleanSoFar(f[0], g[0])
      BY <1>4, <2>1, <2>2, <2>3 DEF CleanSoFar, Spaced, EndsInSpace
    <2> QED BY <1>2, <2>4
  <1>7. ASSUME NEW i \in 0..(n - 1), i \in T
        PROVE  i + 1 \in T
    <2>1. i + 1 \in 1..n /\ (i + 1) - 1 = i /\ i \in 0..n /\ i + 1 \in 0..n /\ CleanSoFar(f[i], g[i])
      BY <1>2, <1>7
    <2> DEFINE c == text[i + 1]
    <2>2. c \in Characters /\ f[i + 1] = ReadSpaced(f[i], c, <<" ">>) /\ f[i] \in [out : Texts, pending : BOOLEAN]
      BY <1>2, <1>3, <2>1
    <2>3. g[i + 1] = IF Stays(c, "whitespace", "remove") THEN Append(g[i], c) ELSE g[i]
      BY <1>4, <2>1
    <2> HIDE DEF c
    <2>4. g[i + 1] = IF IsSpace(c) THEN g[i] ELSE Append(g[i], c)
      BY <2>3 DEF Stays, IsSpace
    <2>5. CleanSoFar(f[i + 1], g[i + 1])
      BY <2>1, <2>2, <2>4, CleaningStaysClean
    <2> QED BY <2>1, <2>5
  <1> HIDE DEF T
  <1>8. n \in 0..n /\ n \in T
    BY <1>2, <1>6, <1>7, BoundedInduction
  <1> DEFINE result == CleanWhitespace(text, <<" ">>)
  <1>9. Unspaced(result) = Unspaced(text) /\ Spaced(result) /\ ~EndsInSpace(result) /\ result \in Texts
    BY <1>3, <1>5, <1>8 DEF CleanSoFar, T
  <1> HIDE DEF result
  <1>10. ASSUME NEW i \in DOMAIN result, IsSpace(result[i])
         PROVE  result[i] = " " /\ i # 1 /\ i # Len(result) /\ ~IsSpace(result[i + 1])
    <2>1. i # Len(result)
      <3>1. result # <<>>
        BY <1>9 DEF Texts
      <3> QED BY <1>9, <1>10, <3>1 DEF EndsInSpace
    <2> QED BY <1>9, <1>10, <2>1 DEF Spaced
  <1> QED BY <1>9, <1>10 DEF TextIsClean, Unspaced, IsSpace, result

\* Facts about sequences that the library's theorems leave out.
LEMMA PartElementwise ==
  ASSUME NEW S, NEW s \in Seq(S), NEW m \in Int, NEW n \in Int, 1 <= m, m <= n + 1, n <= Len(s)
  PROVE  /\ SubSeq(s, m, n) \in Seq(S) /\ Len(SubSeq(s, m, n)) = n - m + 1
         /\ \A i \in 1..(n - m + 1) : SubSeq(s, m, n)[i] = s[m + i - 1]
  <1>1. \A i \in m..n : s[i] \in S
    OBVIOUS
  <1>2. /\ SubSeq(s, m, n) \in Seq(S) /\ Len(SubSeq(s, m, n)) = IF m <= n THEN n - m + 1 ELSE 0
        /\ \A i \in 1..(n - m + 1) : SubSeq(s, m, n)[i] = s[m + i - 1]
    BY <1>1, SubSeqProperties
  <1>3. Len(SubSeq(s, m, n)) = n - m + 1
    BY <1>2
  <1> QED BY <1>2, <1>3

LEMMA PrefixElementwise ==
  ASSUME NEW S, NEW s \in Seq(S), NEW t \in Seq(S)
  PROVE  IsPrefix(s, t) <=> Len(s) <= Len(t) /\ \A i \in 1..Len(s) : s[i] = t[i]
  <1> DEFINE m == Len(s)
             n == Len(t)
             part == SubSeq(t, 1, m)
  <1>1. m \in Nat /\ n \in Nat /\ SubSeq(s, 1, m) = s
    BY SubSeqFull
  <1>2. \A i \in 1..n : t[i] \in S
    OBVIOUS
  <1>3. IsPrefix(s, t) <=> m <= n /\ s = part
    BY <1>1 DEF IsPrefix
  <1>4. ASSUME m <= n
        PROVE  part \in Seq(S) /\ Len(part) = m /\ \A i \in 1..m : part[i] = t[i]
    <2> HIDE DEF m, n
    <2>1. m \in Int /\ 1 \in Int /\ 1 <= 1 /\ 1 <= m + 1 /\ m <= n
      BY <1>1, <1>4
    <2>2. n = Len(t)
      BY DEF n
    <2>3. part \in Seq(S) /\ Len(part) = m - 1 + 1 /\ \A i \in 1..(m - 1 + 1) : part[i] = t[1 + i - 1]
      BY <2>1, <2>2, PartElementwise
    <2> HIDE DEF part
    <2> QED BY <1>1, <2>3
  <1> HIDE DEF part
  <1>5. ASSUME m <= n
        PROVE  s = part <=> \A i \in 1..m : s[i] = t[i]
    <2>1. s = part => \A i \in 1..m : s[i] = t[i]
      BY <1>4, <1>5
    <2>2. ASSUME \A i \in 1..m : s[i] = t[i]
          PROVE  s = part
      BY <1>4, <1>5, <2>2, SeqEqual
    <2> QED BY <2>1, <2>2
  <1> QED BY <1>3, <1>5

LEMMA ReverseElementwise ==
  ASSUME NEW S, NEW s \in Seq(S)
  PROVE  /\ Reverse(s) \in Seq(S) /\ Len(Reverse(s)) = Len(s)
         /\ \A i \in 1..Len(s) : Reverse(s)[i] = s[Len(s) - i + 1]
  <1> DEFINE n == Len(s)
  <1>1. n \in Nat /\ \A i \in 1..n : s[i] \in S
    OBVIOUS
  <1>2. Reverse(s) = [i \in 1..n |-> s[n - i + 1]]
    BY DEF Reverse
  <1> HIDE DEF n
  <1>3. \A i \in 1..n : n - i + 1 \in 1..n
    BY <1>1
  <1>4. Reverse(s) \in [1..n -> S]
    BY <1>1, <1>2, <1>3
  <1>5. Reverse(s) \in Seq(S) /\ Len(Reverse(s)) = n
    BY <1>1, <1>4
  <1> QED BY <1>2, <1>5 DEF n

LEMMA ConcatenationHasItsParts ==
  ASSUME NEW S, NEW s \in Seq(S), NEW t \in Seq(S)
  PROVE  IsPrefix(s, s \o t) /\ IsSuffix(t, s \o t)
  <1> DEFINE u == s \o t
             m == Len(s)
             n == Len(t)
  <1>1. /\ m \in Nat /\ n \in Nat /\ u \in Seq(S) /\ Len(u) = m + n
        /\ \A i \in 1..m + n : u[i] = IF i <= m THEN s[i] ELSE t[i - m]
    BY ConcatProperties
  <1> HIDE DEF u, m, n
  <1>2. IsPrefix(s, u)
    <2>1. m <= m + n /\ \A i \in 1..m : s[i] = u[i]
      BY <1>1
    <2> QED BY <1>1, <2>1, PrefixElementwise DEF m
  <1>3. IsSuffix(t, u)
    <2> DEFINE v == Reverse(u)
               w == Reverse(t)
    <2>1. w \in Seq(S) /\ Len(w) = n /\ \A i \in 1..n : w[i] = t[n - i + 1]
      BY ReverseElementwise DEF n
    <2>2. v \in Seq(S) /\ Len(v) = Len(u) /\ \A i \in 1..Len(u) : v[i] = u[Len(u) - i + 1]
      BY <1>1, ReverseElementwise
    <2> HIDE DEF v, w
    <2>3. ASSUME NEW i \in 1..n
          PROVE  w[i] = v[i]
      <3>1. /\ i \in 1..(m + n) /\ m + n - i + 1 \in 1..m + n /\ ~(m + n - i + 1 <= m)
            /\ m + n - i + 1 - m = n - i + 1
        BY <1>1
      <3>2. v[i] = t[n - i + 1]
        BY <1>1, <2>2, <3>1
      <3> QED BY <2>1, <3>2
    <2>4. Len(w) <= Len(v) /\ \A i \in 1..Len(w) : w[i] = v[i]
      <3>1. n <= m + n
        BY <1>1
      <3>2. Len(w) = n /\ Len(v) = m + n
        BY <1>1, <2>1, <2>2
      <3> QED BY <2>3, <3>1, <3>2
    <2>5. IsPrefix(w, v)
      <3>1. w \in Seq(S) /\ v \in Seq(S)
        BY <2>1, <2>2
      <3> QED BY <2>4, <3>1, PrefixElementwise
    <2> QED BY <2>5 DEF IsSuffix, v, w
  <1> QED BY <1>2, <1>3 DEF u

LEMMA ConcatenationDivides ==
  ASSUME NEW S, NEW s \in Seq(S), NEW t \in Seq(S)
  PROVE  /\ SubSeq(s \o t, 1, Len(s)) = s
         /\ SubSeq(s \o t, Len(s) + 1, Len(s \o t)) = t
  <1> DEFINE u == s \o t
             m == Len(s)
             n == Len(t)
             a == SubSeq(u, 1, m)
             b == SubSeq(u, m + 1, m + n)
  <1>1. /\ m \in Nat /\ n \in Nat /\ u \in Seq(S) /\ Len(u) = m + n
        /\ \A i \in 1..m + n : u[i] = IF i <= m THEN s[i] ELSE t[i - m]
    BY ConcatProperties
  <1>2. \A i \in 1..(m + n) : u[i] \in S
    BY <1>1
  <1> HIDE DEF u, m, n
  <1> DEFINE k == m + 1
             l == m + n
  <1>3. a \in Seq(S) /\ Len(a) = m /\ \A i \in 1..m : a[i] = s[i]
    <2>1. m \in Int /\ 1 \in Int /\ 1 <= 1 /\ 1 <= m + 1 /\ m <= Len(u)
      BY <1>1
    <2>2. a \in Seq(S) /\ Len(a) = m - 1 + 1 /\ \A i \in 1..(m - 1 + 1) : a[i] = u[1 + i - 1]
      BY <1>1, <2>1, PartElementwise
    <2> HIDE DEF a
    <2> QED BY <1>1, <2>2
  <1>4. b \in Seq(S) /\ Len(b) = n /\ \A i \in 1..n : b[i] = t[i]
    <2>1. k \in Int /\ l \in Int /\ 1 <= k /\ k <= l + 1 /\ l <= Len(u) /\ l - k + 1 = n
      BY <1>1
    <2>2. b = SubSeq(u, k, l)
      OBVIOUS
    <2> HIDE DEF b
    <2> HIDE DEF k, l
    <2>4. b \in Seq(S) /\ Len(b) = l - k + 1 /\ \A i \in 1..(l - k + 1) : b[i] = u[k + i - 1]
      BY <1>1, <2>1, <2>2, PartElementwise
    <2>5. ASSUME NEW i \in 1..n
          PROVE  b[i] = t[i]
      <3>1. i \in 1..(l - k + 1)
        BY <2>1
      <3> DEFINE j == k + i - 1
      <3>2. b[i] = u[j]
        BY <2>4, <3>1
      <3>3. j \in 1..m + n /\ ~(j <= m) /\ j - m = i
        BY <1>1, <2>5 DEF k
      <3> HIDE DEF j
      <3>4. u[j] = t[j - m]
        BY <1>1, <3>3
      <3> QED BY <3>2, <3>3, <3>4
    <2> QED BY <2>1, <2>4, <2>5
  <1> HIDE DEF a, b
  <1>5. a = s /\ b = t
    BY <1>3, <1>4, SeqEqual DEF m, n
  <1> QED BY <1>1, <1>5 DEF a, b, u, m

\* A rule for one part leaves the other one alone (rules.rs:820).
LEMMA OnePartIsLeftAlone ==
  ASSUME NEW name \in Texts, FinalDot(name) # 0, NEW changed \in Texts
  PROVE  /\ IsSuffix(SubSeq(name, FinalDot(name), Len(name)), changed \o SubSeq(name, FinalDot(name), Len(name)))
         /\ IsPrefix(SubSeq(name, 1, FinalDot(name)), SubSeq(name, 1, FinalDot(name)) \o changed)
  <1> DEFINE suffix == SubSeq(name, FinalDot(name), Len(name))
             prefix == SubSeq(name, 1, FinalDot(name))
  <1>1. suffix \in Seq(Characters) /\ prefix \in Seq(Characters) /\ changed \in Seq(Characters)
    BY PartsAreTexts DEF Texts
  <1> HIDE DEF suffix, prefix
  <1>2. IsSuffix(suffix, changed \o suffix) /\ IsPrefix(prefix, prefix \o changed)
    BY <1>1, ConcatenationHasItsParts
  <1> QED BY <1>2 DEF suffix, prefix

LEMMA LastDotIsFinal ==
  ASSUME NEW name \in Texts, NEW d \in DOMAIN name, d > 1, name[d] = ".",
         \A k \in (d + 1)..Len(name) : name[k] # "."
  PROVE  FinalDot(name) = d
  <1>1. DOMAIN name = 1..Len(name) /\ Len(name) \in Nat
    BY DEF Texts
  <1>2. d \in Dots(name) /\ Dots(name) \subseteq 1..Len(name)
    BY <1>1 DEF Dots
  <1>3. \A j \in Dots(name) : j <= d
    BY <1>1 DEF Dots
  <1>4. (CHOOSE i \in Dots(name) : \A j \in Dots(name) : j <= i) = d
    <2> DEFINE e == CHOOSE i \in Dots(name) : \A j \in Dots(name) : j <= i
    <2>1. e \in Dots(name) /\ \A j \in Dots(name) : j <= e
      BY <1>2, <1>3
    <2>2. e \in Nat /\ d \in Nat
      BY <1>2, <2>1
    <2> HIDE DEF e
    <2> QED BY <1>2, <1>3, <2>1, <2>2
  <1> QED BY <1>1, <1>2, <1>4 DEF FinalDot

LEMMA PartRulesKeepTheOther ==
  ASSUME NEW rule \in Rules, rule.kind \in TextRules \ {"replace"}, NEW name \in Texts
  PROVE  ExtensionIsApart(rule, name)
  <1> SUFFICES ASSUME NEW d \in DOMAIN name, d > 1, name[d] = ".",
                      \A k \in (d + 1)..Len(name) : name[k] # "."
               PROVE  LET result == Transformed(rule, name, NoValue)
                      IN /\ rule.part = "stem"      => IsSuffix(SubSeq(name, d, Len(name)), result)
                         /\ rule.part = "extension" => IsPrefix(SubSeq(name, 1, d), result)
    BY DEF ExtensionIsApart
  <1>1. FinalDot(name) = d
    BY LastDotIsFinal
  <1> DEFINE stem == SubSeq(name, 1, d - 1)
             extension == SubSeq(name, d + 1, Len(name))
             result == Transformed(rule, name, NoValue)
             Apart(s, e) == /\ rule.part = "stem" => result = s \o SubSeq(name, d, Len(name))
                            /\ rule.part = "extension" => result = SubSeq(name, 1, d) \o e
  <1>2. d # 0 /\ stem \in Texts /\ extension \in Texts
    BY <1>1, PartsAreTexts
  <1>3. ASSUME rule.kind = "case"
        PROVE  \E s, e \in Texts : Apart(s, e)
    <2> DEFINE T(t) == Mapped(t, IF rule.mode = "lower" THEN Lower ELSE Upper)
    <2>1. \A t \in Texts : T(t) \in Texts
      BY MappedIsText, AlphabetAssumption DEF AlphabetAssumption, Texts
    <2>2. Transformed(rule, name, NoValue) = OnPart(name, rule.part, T)
      BY <1>3 DEF Transformed
    <2> HIDE DEF T
    <2>3. Apart(T(stem), T(extension))
      BY <1>1, <1>2, <2>2 DEF OnPart, Apart
    <2>4. T(stem) \in Texts /\ T(extension) \in Texts
      BY <1>2, <2>1
    <2> QED BY <2>3, <2>4
  <1>4. ASSUME rule.kind = "whitespace"
        PROVE  \E s, e \in Texts : Apart(s, e)
    <2> DEFINE T(t) == CleanWhitespace(t, rule.replacement)
    <2>1. ASSUME NEW t \in Texts
          PROVE  T(t) \in Texts
      <3>1. Len(t) \in 0..Len(t)
        BY DEF Texts
      <3>2. rule.replacement \in Texts
        BY <1>4 DEF Rules
      <3> QED BY <3>1, <3>2, CleanedIsDefined DEF CleanWhitespace
    <2>2. Transformed(rule, name, NoValue) = OnPart(name, rule.part, T)
      BY <1>4 DEF Transformed
    <2> HIDE DEF T
    <2>3. Apart(T(stem), T(extension))
      BY <1>1, <1>2, <2>2 DEF OnPart, Apart
    <2>4. T(stem) \in Texts /\ T(extension) \in Texts
      BY <1>2, <2>1
    <2> QED BY <2>3, <2>4
  <1>5. ASSUME rule.kind = "range"
        PROVE  \E s, e \in Texts : Apart(s, e)
    <2> DEFINE T(t) == ApplyRange(t, rule)
    <2>1. \A t \in Texts : T(t) \in Texts
      <3>1. rule.offset \in Nat /\ rule.length \in Nat \cup {Rest}
        BY <1>5 DEF Rules
      <3> QED BY <3>1, RangeIsText
    <2>2. Transformed(rule, name, NoValue) = OnPart(name, rule.part, T)
      BY <1>5 DEF Transformed
    <2> HIDE DEF T
    <2>3. Apart(T(stem), T(extension))
      BY <1>1, <1>2, <2>2 DEF OnPart, Apart
    <2>4. T(stem) \in Texts /\ T(extension) \in Texts
      BY <1>2, <2>1
    <2> QED BY <2>3, <2>4
  <1>6. ASSUME rule.kind = "class"
        PROVE  \E s, e \in Texts : Apart(s, e)
    <2> DEFINE T(t) == ApplyClass(t, rule.class, rule.operation)
    <2>1. \A t \in Texts : T(t) \in Texts
      BY ClassIsText
    <2>2. Transformed(rule, name, NoValue) = OnPart(name, rule.part, T)
      BY <1>6 DEF Transformed
    <2> HIDE DEF T
    <2>3. Apart(T(stem), T(extension))
      BY <1>1, <1>2, <2>2 DEF OnPart, Apart
    <2>4. T(stem) \in Texts /\ T(extension) \in Texts
      BY <1>2, <2>1
    <2> QED BY <2>3, <2>4
  <1>7. PICK s, e \in Texts : Apart(s, e)
    <2> HIDE DEF Apart
    <2> QED BY <1>3, <1>4, <1>5, <1>6 DEF TextRules
  <1>8. /\ IsSuffix(SubSeq(name, d, Len(name)), s \o SubSeq(name, d, Len(name)))
        /\ IsPrefix(SubSeq(name, 1, d), SubSeq(name, 1, d) \o e)
    BY <1>1, <1>2, OnePartIsLeftAlone
  <1> QED BY <1>7, <1>8

\* The bounds of a range, of the one from the other end, and their distance
Ranges == [kind : {"range"}, part : Parts, operation : {"keep", "remove"}, origin : {"start", "end"},
           offset : Nat, length : Nat \cup {Rest}]

Mirrored(range) == [range EXCEPT !.operation = "keep", !.origin = IF @ = "start" THEN "end" ELSE "start"]

LEMMA BoundsOfRange ==
  ASSUME NEW range \in Ranges, NEW n \in Nat
  PROVE  /\ RangeBounds(n, range)[1] \in 0..n /\ RangeBounds(n, range)[2] \in 0..n
         /\ RangeBounds(n, range)[1] <= RangeBounds(n, range)[2]
         /\ RangeBounds(n, Mirrored(range))[1] = n - RangeBounds(n, range)[2]
         /\ RangeBounds(n, Mirrored(range))[2] = n - RangeBounds(n, range)[1]
         /\ range.length # Rest /\ range.offset + range.length <= n =>
              RangeBounds(n, range)[2] - RangeBounds(n, range)[1] = range.length
  <1> DEFINE offset == range.offset
             length == range.length
             first == AtMost(offset, n)
             next == IF length = Rest THEN n ELSE AtMost(first + length, n)
             last == AtLeastZero(n - offset)
             previous == IF length = Rest THEN 0 ELSE AtLeastZero(last - length)
  <1>1. offset \in Nat /\ length \in Nat \cup {Rest} /\ range.origin \in {"start", "end"}
    BY DEF Ranges
  <1>2. RangeBounds(n, range) = IF range.origin = "start" THEN <<first, next>> ELSE <<previous, last>>
    BY DEF RangeBounds
  <1>3. RangeBounds(n, Mirrored(range)) = IF range.origin = "start" THEN <<previous, last>> ELSE <<first, next>>
    <2> DEFINE mirrored == Mirrored(range)
    <2>1. /\ mirrored.offset = offset /\ mirrored.length = length
          /\ mirrored.origin = IF range.origin = "start" THEN "end" ELSE "start"
      BY DEF Mirrored, Ranges
    <2> HIDE DEF mirrored, offset, length
    <2>2. RangeBounds(n, mirrored) = IF mirrored.origin = "start" THEN <<first, next>> ELSE <<previous, last>>
      BY <2>1 DEF RangeBounds
    <2> QED BY <1>1, <2>1, <2>2 DEF mirrored
  <1> HIDE DEF offset, length
  <1>4. first \in 0..n /\ last \in 0..n /\ last = n - first
    BY <1>1 DEF AtMost, AtLeastZero
  <1>5. next \in first..n /\ previous \in 0..last /\ previous = n - next
    <2> HIDE DEF first, last
    <2>1. CASE length = Rest
      BY <1>4, <2>1
    <2>2. CASE length # Rest
      <3>1. length \in Nat
        BY <1>1, <2>2
      <3> QED BY <1>4, <2>2, <3>1 DEF AtMost, AtLeastZero
    <2> QED BY <2>1, <2>2
  <1>6. ASSUME length # Rest, offset + length <= n
        PROVE  next - first = length /\ last - previous = length
    <2>1. length \in Nat
      BY <1>1, <1>6
    <2>2. first = offset
      BY <1>1, <1>6, <2>1 DEF AtMost
    <2>3. next = offset + length
      <3> HIDE DEF first
      <3> QED BY <1>1, <1>6, <2>1, <2>2 DEF AtMost
    <2> HIDE DEF first, last, next, previous
    <2> QED BY <1>1, <1>4, <1>5, <2>1, <2>2, <2>3
  <1> HIDE DEF first, last, next, previous
  <1>7. CASE range.origin = "start"
    <2>1. /\ RangeBounds(n, range)[1] = first /\ RangeBounds(n, range)[2] = next
          /\ RangeBounds(n, Mirrored(range))[1] = previous /\ RangeBounds(n, Mirrored(range))[2] = last
      BY <1>2, <1>3, <1>7
    <2> QED BY <1>4, <1>5, <1>6, <2>1 DEF offset, length
  <1>8. CASE range.origin # "start"
    <2>1. /\ RangeBounds(n, range)[1] = previous /\ RangeBounds(n, range)[2] = last
          /\ RangeBounds(n, Mirrored(range))[1] = first /\ RangeBounds(n, Mirrored(range))[2] = next
      BY <1>2, <1>3, <1>8
    <2> QED BY <1>4, <1>5, <1>6, <2>1 DEF offset, length
  <1> QED BY <1>7, <1>8

\* Three parts that follow each other are the text.
LEMMA PartsMakeTheWhole ==
  ASSUME NEW text \in Texts, NEW a \in 0..Len(text), NEW b \in 0..Len(text), a <= b
  PROVE  /\ SubSeq(text, 1, a) \in Texts /\ SubSeq(text, a + 1, b) \in Texts
         /\ SubSeq(text, b + 1, Len(text)) \in Texts
         /\ Len(SubSeq(text, 1, a)) = a /\ Len(SubSeq(text, a + 1, b)) = b - a
         /\ SubSeq(text, 1, a) \o SubSeq(text, a + 1, b) \o SubSeq(text, b + 1, Len(text)) = text
  <1> DEFINE n == Len(text)
  <1>1. n \in Nat /\ text \in Seq(Characters) /\ SubSeq(text, 1, n) = text
    BY SubSeqFull DEF Texts
  <1> HIDE DEF n
  <1>2. /\ 1 \in 1..n + 1 /\ a \in (1 - 1)..n /\ b \in a..n /\ b \in (1 - 1)..n /\ n \in b..n
        /\ a \in Int /\ b \in Int /\ n \in Int /\ 1 \in Int /\ a + 1 \in Int /\ b + 1 \in Int
        /\ 1 <= 1 /\ 1 <= a + 1 /\ 1 <= b + 1 /\ a <= n /\ b <= n /\ n <= n /\ a + 1 <= b + 1 /\ b + 1 <= n + 1
    BY <1>1 DEF n
  <1>3. SubSeq(text, 1, a) \o SubSeq(text, a + 1, b) = SubSeq(text, 1, b)
    BY <1>1, <1>2, ConcatAdjacentSubSeq DEF n
  <1>4. SubSeq(text, 1, b) \o SubSeq(text, b + 1, n) = SubSeq(text, 1, n)
    BY <1>1, <1>2, ConcatAdjacentSubSeq DEF n
  <1>5. /\ SubSeq(text, 1, a) \in Seq(Characters) /\ SubSeq(text, a + 1, b) \in Seq(Characters)
        /\ SubSeq(text, b + 1, n) \in Seq(Characters)
        /\ Len(SubSeq(text, 1, a)) = a - 1 + 1 /\ Len(SubSeq(text, a + 1, b)) = b - (a + 1) + 1
    BY <1>1, <1>2, PartElementwise DEF n
  <1>6. Len(SubSeq(text, 1, a)) = a /\ Len(SubSeq(text, a + 1, b)) = b - a
    <2>1. a - 1 + 1 = a /\ b - (a + 1) + 1 = b - a
      BY <1>2
    <2> QED BY <1>5, <2>1
  <1>7. SubSeq(text, 1, a) \o SubSeq(text, a + 1, b) \o SubSeq(text, b + 1, n) = text
    BY <1>1, <1>3, <1>4
  <1> QED BY <1>5, <1>6, <1>7 DEF n, Texts

\* Keeping and removing a range (rules.rs:869)
LEMMA RangesDivide ==
  ASSUME NEW rule \in Ranges, NEW text \in Texts
  PROVE  RangeDivides(rule, text)
  <1> DEFINE n == Len(text)
             a == RangeBounds(n, rule)[1]
             b == RangeBounds(n, rule)[2]
             left == SubSeq(text, 1, a)
             kept == SubSeq(text, a + 1, b)
             right == SubSeq(text, b + 1, n)
             rest == left \o right
  <1>1. n \in Nat /\ text \in Seq(Characters)
    BY DEF Texts
  <1>2. a \in 0..n /\ b \in 0..n /\ a <= b
    BY <1>1, BoundsOfRange
  <1>3. ApplyRange(text, [rule EXCEPT !.operation = "keep"]) = kept
    <2> DEFINE range == [rule EXCEPT !.operation = "keep"]
    <2>1. /\ range.operation = "keep" /\ range.origin = rule.origin
          /\ range.offset = rule.offset /\ range.length = rule.length
      BY DEF Ranges
    <2> HIDE DEF range
    <2>2. RangeBounds(n, range) = RangeBounds(n, rule)
      BY <2>1 DEF RangeBounds
    <2> QED BY <2>1, <2>2 DEF ApplyRange, range
  <1>4. ApplyRange(text, [rule EXCEPT !.operation = "remove"]) = rest
    <2> DEFINE range == [rule EXCEPT !.operation = "remove"]
    <2>1. /\ range.operation = "remove" /\ range.origin = rule.origin
          /\ range.offset = rule.offset /\ range.length = rule.length
      BY DEF Ranges
    <2> HIDE DEF range
    <2>2. RangeBounds(n, range) = RangeBounds(n, rule)
      BY <2>1 DEF RangeBounds
    <2> QED BY <2>1, <2>2 DEF ApplyRange, range
  <1>5. ApplyRange(Reverse(text), Mirrored(rule)) = SubSeq(Reverse(text), n - b + 1, n - a)
    <2>1. Len(Reverse(text)) = n
      BY <1>1, ReverseElementwise
    <2>2. Mirrored(rule).operation = "keep"
      BY DEF Mirrored, Ranges
    <2>3. /\ RangeBounds(n, Mirrored(rule))[1] = n - b
          /\ RangeBounds(n, Mirrored(rule))[2] = n - a
      BY <1>1, BoundsOfRange
    <2> HIDE DEF n, a, b
    <2> QED BY <2>1, <2>2, <2>3 DEF ApplyRange
  <1>6. rule.length # Rest /\ rule.offset + rule.length <= n => b - a = rule.length
    BY <1>1, BoundsOfRange
  <1> HIDE DEF a, b
  <1>7. /\ left \in Texts /\ kept \in Texts /\ right \in Texts
        /\ Len(left) = a /\ Len(kept) = b - a /\ left \o kept \o right = text
    BY <1>2, PartsMakeTheWhole
  <1>8. \E k \in 0..Len(rest) : SubSeq(rest, 1, k) \o kept \o SubSeq(rest, k + 1, Len(rest)) = text
    <2> HIDE DEF left, kept, right
    <2>1. SubSeq(rest, 1, Len(left)) = left /\ SubSeq(rest, Len(left) + 1, Len(rest)) = right
      BY <1>7, ConcatenationDivides DEF Texts
    <2>2. Len(left) \in 0..Len(rest)
      <3>a. left \in Seq(Characters) /\ right \in Seq(Characters)
        BY <1>7 DEF Texts
      <3>b. Len(left) \in Nat /\ Len(right) \in Nat
        BY <3>a, LenProperties
      <3>1. Len(rest) = Len(left) + Len(right) /\ Len(left) \in Nat /\ Len(right) \in Nat
        BY <3>a, <3>b, ConcatProperties
      <3> HIDE DEF rest
      <3> QED BY <3>1
    <2> HIDE DEF rest
    <2> QED BY <1>7, <2>1, <2>2
  <1>9. Reverse(SubSeq(Reverse(text), n - b + 1, n - a)) = kept
    <2> DEFINE m == n - b + 1
               l == n - a
               mirror == Reverse(text)
               part == SubSeq(mirror, m, l)
    <2>1. mirror \in Seq(Characters) /\ Len(mirror) = n /\ \A i \in 1..n : mirror[i] = text[n - i + 1]
      BY <1>1, ReverseElementwise
    <2>2. m \in Int /\ l \in Int /\ 1 <= m /\ m <= l + 1 /\ l <= n /\ l - m + 1 = b - a
      <3> HIDE DEF n
      <3> QED BY <1>1, <1>2
    <2> HIDE DEF n, mirror, kept
    <2>3. part \in Seq(Characters) /\ Len(part) = b - a /\ \A i \in 1..(b - a) : part[i] = mirror[m + i - 1]
      <3> HIDE DEF m, l
      <3>1. /\ part \in Seq(Characters) /\ Len(part) = l - m + 1
            /\ \A i \in 1..(l - m + 1) : part[i] = mirror[m + i - 1]
        BY <2>1, <2>2, PartElementwise
      <3> QED BY <2>2, <3>1
    <2> HIDE DEF part
    <2>4. /\ Reverse(part) \in Seq(Characters) /\ Len(Reverse(part)) = b - a
          /\ \A i \in 1..(b - a) : Reverse(part)[i] = part[b - a - i + 1]
      BY <2>3, ReverseElementwise
    <2>5. \A i \in 1..(b - a) : kept[i] = text[a + i]
      <3>1. a + 1 \in Int /\ b \in Int /\ 1 <= a + 1 /\ a + 1 <= b + 1 /\ b <= Len(text)
        BY <1>1, <1>2 DEF n
      <3> DEFINE a1 == a + 1
      <3>2. a1 \in Int /\ b - a1 + 1 = b - a /\ \A i \in 1..(b - a) : a1 + i - 1 = a + i
        BY <1>1, <1>2
      <3>3. kept = SubSeq(text, a1, b)
        BY DEF kept
      <3> HIDE DEF a1
      <3>4. \A i \in 1..(b - a1 + 1) : kept[i] = text[a1 + i - 1]
        BY <1>1, <3>1, <3>2, <3>3, PartElementwise DEF a1
      <3> QED BY <3>2, <3>4
    <2>6. ASSUME NEW i \in 1..(b - a)
          PROVE  Reverse(part)[i] = kept[i]
      <3> DEFINE j == b - a - i + 1
                 k == m + j - 1
      <3>1. j \in 1..(b - a) /\ k \in 1..n /\ n - k + 1 = a + i
        BY <1>1, <1>2, <2>6
      <3>2. Reverse(part)[i] = part[j]
        BY <2>4, <2>6
      <3>3. part[j] = mirror[k]
        <4> HIDE DEF j
        <4> QED BY <2>3, <3>1
      <3> HIDE DEF k, j
      <3>4. mirror[k] = text[a + i]
        BY <2>1, <3>1
      <3> QED BY <2>5, <2>6, <3>2, <3>3, <3>4
    <2>7. Reverse(part) = kept
      <3>1. kept \in Seq(Characters) /\ Len(kept) = b - a
        BY <1>7 DEF Texts
      <3> QED BY <2>4, <2>6, <3>1, SeqEqual
    <2> QED BY <2>7 DEF part, mirror, m, l
  <1> HIDE DEF n, left, right, kept, rest
  <1> QED BY <1>3, <1>4, <1>5, <1>6, <1>7, <1>8, <1>9 DEF RangeDivides, Mirrored, n

\* A character is a prefix of what begins with it.
LEMMA OneCharacterBegins ==
  ASSUME NEW text \in Texts, NEW i \in 1..Len(text), NEW c \in Characters
  PROVE  IsPrefix(<<c>>, SubSeq(text, i, Len(text))) <=> text[i] = c
  <1> DEFINE n == Len(text)
             tail == SubSeq(text, i, n)
             search == <<c>>
  <1>1. text \in Seq(Characters) /\ n \in Nat /\ search \in Seq(Characters) /\ Len(search) = 1 /\ search[1] = c
    BY DEF Texts
  <1> HIDE DEF search, n
  <1>2. i \in Int /\ n \in Int /\ 1 <= i /\ i <= n + 1 /\ n <= Len(text) /\ 1 \in 1..(n - i + 1) /\ i + 1 - 1 = i
    BY <1>1 DEF n
  <1>3. tail \in Seq(Characters) /\ Len(tail) = n - i + 1 /\ \A j \in 1..(n - i + 1) : tail[j] = text[i + j - 1]
    BY <1>1, <1>2, PartElementwise
  <1>4. tail[1] = text[i] /\ 1 <= Len(tail)
    BY <1>2, <1>3
  <1> HIDE DEF tail
  <1>5. IsPrefix(search, tail) <=> Len(search) <= Len(tail) /\ \A j \in 1..Len(search) : search[j] = tail[j]
    <2>1. tail \in Seq(Characters) /\ search \in Seq(Characters)
      BY <1>1, <1>3
    <2> QED BY <2>1, PrefixElementwise
  <1>6. IsPrefix(search, tail) <=> text[i] = c
    BY <1>1, <1>4, <1>5
  <1> QED BY <1>6 DEF search, tail, n

\* A character is replaced wherever it is.
Written(out, a, c, value) == IF a = c THEN out \o value ELSE Append(out, a)

LEMMA ReadOneCharacter ==
  ASSUME NEW state \in [out : Texts, skip : Int], state.skip = 0,
         NEW text \in Texts, NEW i \in 1..Len(text), NEW c \in Characters, NEW value \in Texts
  PROVE  /\ ReadLiteral(state, text, i, <<c>>, value).out = Written(state.out, text[i], c, value)
         /\ ReadLiteral(state, text, i, <<c>>, value).skip = 0
  <1> DEFINE found == IsPrefix(<<c>>, SubSeq(text, i, Len(text)))
             next == ReadLiteral(state, text, i, <<c>>, value)
  <1>1. found <=> text[i] = c
    BY OneCharacterBegins
  <1>2. Len(<<c>>) - 1 = 0
    OBVIOUS
  <1>3. next = IF found THEN [out |-> state.out \o value, skip |-> 0] ELSE [state EXCEPT !.out = Append(@, text[i])]
    BY <1>2 DEF ReadLiteral
  <1> HIDE DEF found, next
  <1>4. CASE found
    <2>1. next = [out |-> state.out \o value, skip |-> 0]
      BY <1>3, <1>4
    <2>2. next.out = state.out \o value /\ next.skip = 0
      BY <2>1
    <2> QED BY <1>1, <1>4, <2>2 DEF Written, next
  <1>5. CASE ~found
    <2>1. next = [state EXCEPT !.out = Append(@, text[i])]
      BY <1>3, <1>5
    <2>2. next.out = Append(state.out, text[i]) /\ next.skip = 0
      BY <2>1
    <2> QED BY <1>1, <1>5, <2>2 DEF Written, next
  <1> QED BY <1>4, <1>5

\* What replacing one character makes of a longer text
LEMMA OneCharacterAppend ==
  ASSUME NEW text \in Texts, NEW a \in Characters, NEW c \in Characters, NEW value \in Texts
  PROVE  ReplaceLiteral(Append(text, a), <<c>>, value) =
           Written(ReplaceLiteral(text, <<c>>, value), a, c, value)
  <1> DEFINE longer == Append(text, a)
             n == Len(text)
             search == <<c>>
             f == ReplacedInTurn(text, search, value)
             g == ReplacedInTurn(longer, search, value)
  <1>1. /\ n \in Nat /\ longer \in Texts /\ Len(longer) = n + 1
        /\ longer[n + 1] = a /\ \A i \in 1..n : longer[i] = text[i]
    BY AppendFacts
  <1>2. search \in Texts
    BY OneCharacterIsText
  <1> HIDE DEF search
  <1>3. /\ f[0] = [out |-> <<>>, skip |-> 0]
        /\ \A i \in 1..n : f[i] = ReadLiteral(f[i - 1], text, i, search, value)
        /\ \A i \in 0..n : f[i] \in [out : Texts, skip : Int]
    BY <1>2, ReplacedIsDefined
  <1> HIDE DEF longer
  <1>4. /\ g[0] = [out |-> <<>>, skip |-> 0]
        /\ \A i \in 1..Len(longer) : g[i] = ReadLiteral(g[i - 1], longer, i, search, value)
        /\ \A i \in 0..Len(longer) : g[i] \in [out : Texts, skip : Int]
    BY <1>1, <1>2, ReplacedIsDefined
  <1>5. ReplaceLiteral(text, search, value) = f[n].out /\ ReplaceLiteral(longer, search, value) = g[n + 1].out
    BY <1>1 DEF ReplaceLiteral
  <1> HIDE DEF f, g, n
  <1>6. ASSUME NEW i \in 1..n, f[i - 1].skip = 0, g[i - 1].skip = 0, f[i - 1].out = g[i - 1].out
        PROVE  f[i].skip = 0 /\ g[i].skip = 0 /\ f[i].out = g[i].out
    <2>1. i - 1 \in 0..n /\ i - 1 \in 0..Len(longer) /\ i \in 1..Len(longer) /\ i \in 1..Len(text)
      BY <1>1, <1>6 DEF n
    <2>2. longer[i] = text[i] /\ longer \in Texts
      BY <1>1, <1>6
    <2>3. /\ f[i - 1] \in [out : Texts, skip : Int] /\ g[i - 1] \in [out : Texts, skip : Int]
          /\ f[i] = ReadLiteral(f[i - 1], text, i, search, value)
          /\ g[i] = ReadLiteral(g[i - 1], longer, i, search, value)
      BY <1>3, <1>4, <1>6, <2>1
    <2> DEFINE x == f[i - 1]
               y == g[i - 1]
    <2>4. x \in [out : Texts, skip : Int] /\ y \in [out : Texts, skip : Int] /\ x.skip = 0 /\ y.skip = 0
      BY <1>6, <2>3
    <2> HIDE DEF x, y
    <2>5. /\ ReadLiteral(x, text, i, <<c>>, value).out = Written(x.out, text[i], c, value)
          /\ ReadLiteral(x, text, i, <<c>>, value).skip = 0
      BY <2>1, <2>4, ReadOneCharacter
    <2>6. /\ ReadLiteral(y, longer, i, <<c>>, value).out = Written(y.out, longer[i], c, value)
          /\ ReadLiteral(y, longer, i, <<c>>, value).skip = 0
      BY <2>1, <2>2, <2>4, ReadOneCharacter
    <2> QED BY <1>6, <2>2, <2>3, <2>5, <2>6 DEF x, y, search
  <1> DEFINE T == {i \in 0..n : f[i].skip = 0 /\ g[i].skip = 0 /\ f[i].out = g[i].out}
  <1>7. 0 \in T
    <2>1. 0 \in 0..n
      BY <1>1
    <2>2. f[0].skip = 0 /\ g[0] = f[0]
      BY <1>3, <1>4
    <2> QED BY <2>1, <2>2
  <1>8. ASSUME NEW i \in 0..(n - 1), i \in T
        PROVE  i + 1 \in T
    <2>1. i + 1 \in 1..n /\ i + 1 \in 0..n /\ (i + 1) - 1 = i
      BY <1>1, <1>8
    <2>2. f[i].skip = 0 /\ g[i].skip = 0 /\ f[i].out = g[i].out
      BY <1>8
    <2> HIDE DEF T
    <2>3. f[i + 1].skip = 0 /\ g[i + 1].skip = 0 /\ f[i + 1].out = g[i + 1].out
      BY <1>6, <2>1, <2>2
    <2> QED BY <2>1, <2>3 DEF T
  <1> HIDE DEF T
  <1>9. n \in 0..n /\ n \in T
    BY <1>1, <1>7, <1>8, BoundedInduction
  <1>10. g[n + 1].out = Written(f[n].out, a, c, value)
    <2>1. n + 1 \in 1..Len(longer) /\ (n + 1) - 1 = n /\ n \in 0..Len(longer)
      BY <1>1
    <2>2. g[n + 1] = ReadLiteral(g[n], longer, n + 1, search, value) /\ g[n] \in [out : Texts, skip : Int]
      BY <1>4, <2>1
    <2>3. g[n].skip = 0 /\ g[n].out = f[n].out
      BY <1>9 DEF T
    <2> DEFINE k == n + 1
               y == g[n]
    <2>4. k \in 1..Len(longer) /\ longer[k] = a /\ y \in [out : Texts, skip : Int] /\ y.skip = 0 /\ longer \in Texts
      BY <1>1, <2>1, <2>2, <2>3
    <2> HIDE DEF k, y
    <2>5. ReadLiteral(y, longer, k, <<c>>, value).out = Written(y.out, longer[k], c, value)
      BY <2>4, ReadOneCharacter
    <2> QED BY <2>2, <2>3, <2>4, <2>5 DEF k, y, search
  <1> QED BY <1>5, <1>10 DEF longer, search

\* Replaced text can be put back (rules.rs:522).
LEMMA ReplacementsAreReversible ==
  ASSUME NEW text \in Texts, NEW search \in Texts, search # <<>>, NEW c \in Characters,
         c \notin Range(text) \cup Range(search)
  PROVE  ReplaceLiteral(ReplaceLiteral(text, search, <<c>>), <<c>>, search) = text
  <1> DEFINE n == Len(text)
             m == Len(search)
             f == ReplacedInTurn(text, search, <<c>>)
             Back(x) == ReplaceLiteral(x, <<c>>, search)
             Put(i) == /\ f[i].skip \in Nat /\ i + f[i].skip <= n
                       /\ Back(f[i].out) = SubSeq(text, 1, i + f[i].skip)
             T == {i \in 0..n : Put(i)}
  <1>1. /\ n \in Nat /\ m \in Nat \ {0} /\ text \in Seq(Characters) /\ search \in Seq(Characters)
        /\ SubSeq(text, 1, n) = text /\ \A i \in 1..n : text[i] \in Characters /\ text[i] # c
    <2>1. text \in Seq(Characters) /\ search \in Seq(Characters)
      BY DEF Texts
    <2>2. n \in Nat /\ DOMAIN text = 1..n
      BY <2>1
    <2>3. m \in Nat \ {0}
      BY <2>1, EmptySeq
    <2>4. \A i \in 1..n : text[i] \in Characters
      BY <2>1
    <2>5. \A i \in 1..n : text[i] # c
      BY <2>2 DEF Range
    <2> QED BY <2>1, <2>2, <2>3, <2>4, <2>5, SubSeqFull
  <1>2. <<c>> \in Texts
    BY OneCharacterIsText
  <1>3. /\ f[0] = [out |-> <<>>, skip |-> 0]
        /\ \A i \in 1..n : f[i] = ReadLiteral(f[i - 1], text, i, search, <<c>>)
        /\ \A i \in 0..n : f[i] \in [out : Texts, skip : Int]
    BY <1>2, ReplacedIsDefined
  <1>4. ReplaceLiteral(text, search, <<c>>) = f[n].out
    BY DEF ReplaceLiteral
  <1>5. Back(<<>>) = <<>>
    <2>1. <<>> \in Texts /\ Len(<<>>) = 0
      BY DEF Texts
    <2>2. ReplacedInTurn(<<>>, <<c>>, search)[0].out = <<>>
      <3>1. ReplacedInTurn(<<>>, <<c>>, search)[0] = [out |-> <<>>, skip |-> 0]
        BY <1>2, <2>1, ReplacedIsDefined
      <3> QED BY <3>1
    <2> QED BY <2>1, <2>2 DEF ReplaceLiteral
  <1>6. ASSUME NEW x \in Texts, NEW a \in Characters
        PROVE  Back(Append(x, a)) = Written(Back(x), a, c, search)
    BY OneCharacterAppend
  <1> HIDE DEF f, n, m, Back
  <1>7. 0 \in T
    <2>1. f[0].skip = 0 /\ f[0].out = <<>>
      BY <1>3
    <2>2. SubSeq(text, 1, 0) = <<>>
      BY SubSeqEmpty
    <2>3. 0 \in 0..n /\ 0 + f[0].skip = 0 /\ f[0].skip \in Nat /\ 0 <= n
      BY <1>1, <2>1
    <2>4. Back(f[0].out) = SubSeq(text, 1, 0 + f[0].skip)
      BY <1>5, <2>1, <2>2, <2>3
    <2> QED BY <2>3, <2>4
  <1>8. ASSUME NEW i \in 0..(n - 1), i \in T
        PROVE  i + 1 \in T
    <2> DEFINE k == i + 1
               skip == f[i].skip
               out == f[i].out
    <2>1. /\ k \in 1..n /\ k - 1 = i /\ k \in 0..n /\ i \in 0..n /\ text[k] \in Characters /\ text[k] # c
          /\ i \in Nat
      BY <1>1, <1>8
    <2>2. /\ skip \in Nat /\ i + skip <= n /\ Back(out) = SubSeq(text, 1, i + skip)
      BY <1>8
    <2>3. f[i] \in [out : Texts, skip : Int] /\ f[k] = ReadLiteral(f[i], text, k, search, <<c>>)
      BY <1>3, <2>1
    <2>4. out \in Texts
      BY <2>3
    <2> HIDE DEF T, k
    <2>5. CASE skip > 0
      <3>1. f[k] = [f[i] EXCEPT !.skip = @ - 1]
        BY <2>3, <2>5 DEF ReadLiteral
      <3>2. f[k].skip = skip - 1 /\ f[k].out = out
        BY <2>3, <3>1
      <3> HIDE DEF skip, out
      <3>3. f[k].skip \in Nat /\ k + f[k].skip = i + skip
        BY <2>1, <2>2, <2>5, <3>2 DEF k
      <3> QED BY <2>1, <2>2, <3>2, <3>3 DEF T, k
    <2> DEFINE tail == SubSeq(text, k, n)
    <2>6. CASE ~(skip > 0) /\ IsPrefix(search, tail)
      <3>1. f[k] = [out |-> out \o <<c>>, skip |-> m - 1]
        BY <2>3, <2>6 DEF ReadLiteral, n, m
      <3>2. f[k].skip = m - 1 /\ f[k].out = Append(out, c)
        BY <2>4, <3>1, OneCharacterIsText
      <3>3. skip = 0
        <4> HIDE DEF skip
        <4> QED BY <2>2, <2>6
      <3> HIDE DEF skip, out
      <3>4. Back(f[k].out) = SubSeq(text, 1, i) \o search
        <4>1. Back(Append(out, c)) = Back(out) \o search
          BY <1>6, <2>4 DEF Written
        <4>2. i + skip = i
          BY <2>1, <3>3
        <4> QED BY <2>2, <3>2, <4>1, <4>2
      <3>5. k \in Int /\ n \in Int /\ 1 <= k /\ k <= n + 1 /\ n <= Len(text)
        BY <1>1, <2>1 DEF n
      <3>6. /\ tail \in Seq(Characters) /\ Len(tail) = n - k + 1
            /\ \A j \in 1..(n - k + 1) : tail[j] = text[k + j - 1]
        BY <1>1, <3>5, PartElementwise
      <3> HIDE DEF tail
      <3>7. m <= n - k + 1 /\ \A j \in 1..m : search[j] = tail[j]
        BY <1>1, <2>6, <3>6, PrefixElementwise DEF m
      <3> DEFINE e == i + m
                 found == SubSeq(text, k, e)
      <3>8. /\ e \in Int /\ e \in k..n /\ k <= e + 1 /\ e <= Len(text) /\ e - k + 1 = m /\ e = k + (m - 1)
        BY <1>1, <2>1, <3>7 DEF k, n
      <3> HIDE DEF e
      <3>9. found = search
        <4>1. /\ found \in Seq(Characters) /\ Len(found) = e - k + 1
              /\ \A j \in 1..(e - k + 1) : found[j] = text[k + j - 1]
          BY <1>1, <3>5, <3>8, PartElementwise
        <4>2. ASSUME NEW j \in 1..m
              PROVE  found[j] = search[j]
          <5>1. j \in 1..(n - k + 1)
            BY <1>1, <3>5, <3>7
          <5>2. found[j] = text[k + j - 1] /\ tail[j] = text[k + j - 1]
            BY <3>6, <3>8, <4>1, <4>2, <5>1
          <5> QED BY <3>7, <5>2
        <4> HIDE DEF found
        <4> QED BY <1>1, <3>8, <4>1, <4>2, SeqEqual DEF m
      <3>10. SubSeq(text, 1, i) \o found = SubSeq(text, 1, e)
        <4>1. 1 \in 1..Len(text) + 1 /\ i \in (1 - 1)..Len(text) /\ e \in i..Len(text)
          BY <1>1, <2>1, <3>8 DEF n, k
        <4> QED BY <1>1, <4>1, ConcatAdjacentSubSeq DEF k
      <3>11. k + f[k].skip = e /\ f[k].skip \in Nat /\ e <= n
        BY <1>1, <3>2, <3>8
      <3> HIDE DEF found
      <3>12. Back(f[k].out) = SubSeq(text, 1, k + f[k].skip)
        BY <3>4, <3>9, <3>10, <3>11
      <3>13. k \in T
        BY <2>1, <3>11, <3>12 DEF T
      <3> QED BY <3>13 DEF k
    <2>7. CASE ~(skip > 0) /\ ~IsPrefix(search, tail)
      <3>1. f[k] = [f[i] EXCEPT !.out = Append(@, text[k])]
        BY <2>3, <2>7 DEF ReadLiteral, n
      <3>2. f[k].skip = skip /\ f[k].out = Append(out, text[k])
        BY <2>3, <3>1
      <3>3. skip = 0
        <4> HIDE DEF skip
        <4> QED BY <2>2, <2>7
      <3> HIDE DEF skip, out
      <3>4. Back(f[k].out) = Append(SubSeq(text, 1, i), text[k])
        <4>1. Back(Append(out, text[k])) = Append(Back(out), text[k])
          BY <1>6, <2>1, <2>4 DEF Written
        <4>2. i + skip = i
          BY <2>1, <3>3
        <4> QED BY <2>2, <3>2, <4>1, <4>2
      <3>5. Append(SubSeq(text, 1, i), text[k]) = SubSeq(text, 1, k)
        <4>1. SubSeq(text, 1, i) \in Seq(Characters)
          <5>1. 1 \in Int /\ i \in Int /\ 1 <= 1 /\ 1 <= i + 1 /\ i <= Len(text)
            BY <1>1, <2>1 DEF n
          <5> QED BY <1>1, <5>1, PartElementwise
        <4>2. 1 \in 1..Len(text) /\ k \in 1..Len(text)
          BY <1>1, <2>1 DEF n
        <4>3. SubSeq(text, 1, k) = SubSeq(text, 1, k - 1) \o <<text[k]>>
          BY <1>1, <4>2, SubSeqRecursiveSecond
        <4>4. Append(SubSeq(text, 1, i), text[k]) = SubSeq(text, 1, i) \o <<text[k]>>
          BY <2>1, <4>1, OneCharacterIsText DEF Texts
        <4> QED BY <2>1, <4>3, <4>4
      <3>6. k + f[k].skip = k /\ f[k].skip \in Nat /\ k <= n
        BY <2>1, <3>2, <3>3
      <3>7. Back(f[k].out) = SubSeq(text, 1, k + f[k].skip)
        BY <3>4, <3>5, <3>6
      <3>8. k \in T
        BY <2>1, <3>6, <3>7 DEF T
      <3> QED BY <3>8 DEF k
    <2> QED BY <2>5, <2>6, <2>7 DEF k
  <1>9. Put(n)
    <2> HIDE DEF T
    <2>1. n \in 0..n /\ n \in T
      BY <1>1, <1>7, <1>8, BoundedInduction
    <2> QED BY <2>1 DEF T
  <1>10. n + f[n].skip = n
    BY <1>1, <1>9
  <1> QED BY <1>1, <1>4, <1>9, <1>10 DEF Back

-----------------------------------------------------------------------------
(***************************************************************************)
(* The inductive invariant.                                                *)
(***************************************************************************)
\* What the file system is, and what an admission has read from it
IsTree(t) == IsFiniteSet(t) /\ t \subseteq Entries /\ NamesAreApart(t) /\ DirectoriesEnclose(t)

TreeOK == IsTree(tree)

CandidatesOK ==
  /\ IsFiniteSet(candidates) /\ candidates \subseteq Entries /\ PathsDiffer(candidates)

\* Ids are given once, and a path is registered once.
RegistryOK ==
  /\ generation \in Nat /\ nextSourceId \in 1..(MaxSourceId + 1)
  /\ SourceIds \in SUBSET Nat /\ IsFiniteSet(SourceIds)
  /\ \A id \in SourceIds : 1 <= id /\ id < nextSourceId /\ registry[id] \in Entries
  /\ \A i, j \in SourceIds : Path(registry[i]) = Path(registry[j]) => i = j

CachedOK ==
  cached # NoSnapshot => cached = [generation |-> generation, sources |-> RegisteredSources]

\* The sources a plan is built from are different files, and those of the
\* registry as long as its generation is the same.
RequestOK ==
  /\ DOMAIN request = DOMAIN NoRequest
  /\ request.stage \in {"none", "captured", "checked"}
  /\ request.sources \in Seq(Sources)
  /\ IdsDiffer(Range(request.sources)) /\ PathsDiffer(Range(request.sources))
  /\ request.rules = <<>> \/ \E r \in Requests : request.rules = r.rules
  /\ request.generation \in Nat /\ request.generation <= generation
  /\ request.stage # "none" /\ request.generation = generation => request.sources = RegisteredSources

\* The rows of a plan are those of a sequence of sources.
RowsOf(rows, sources) ==
  /\ DOMAIN rows = DOMAIN sources
  /\ \A i \in DOMAIN rows :
       /\ rows[i].id = sources[i].id /\ rows[i].parent = sources[i].parent
       /\ rows[i].original = sources[i].name

\* No name of an applicable plan is refused or taken twice, and no source
\* of it holds another one.
RowsAreSafe(rows, sources) ==
  /\ \A i \in DOMAIN rows : IsText(rows[i].proposed) /\ ~EndsInDotOrSpace(rows[i].proposed)
  /\ \A i, j \in DOMAIN rows : Destination(rows[i]) = Destination(rows[j]) => i = j
  /\ InConflict(Range(sources)) = {}

\* A plan explains itself by the sources it was built from: the registry's
\* as long as its generation is the same.
PlanOK ==
  plan # None =>
    /\ plan.generation \in Nat /\ plan.generation <= generation
    /\ plan.generation = generation =>
         /\ RowsOf(plan.rows, RegisteredSources)
         /\ CanApply(plan) => RowsAreSafe(plan.rows, RegisteredSources)

IInv == /\ TreeOK /\ CandidatesOK /\ RegistryOK /\ CachedOK /\ RequestOK /\ PlanOK
        /\ FrozenNamesAreSafe


-----------------------------------------------------------------------------
(***************************************************************************)
(* The tree.                                                               *)
(***************************************************************************)
LEMMA EntryPaths == \A e \in Entries : Path(e) \in Seq(Seq(Characters))
  BY PathType DEF Entries

LEMMA AppendedAreEqual ==
  ASSUME NEW S, NEW p \in Seq(S), NEW m \in S, NEW q \in Seq(S), NEW n \in S,
         Append(p, m) = Append(q, n)
  PROVE  p = q /\ m = n
  <1>1. Append(p, m) = Append(q, n) <=> p = q /\ m = n
    BY ONLY AppendInjective
  <1> QED BY <1>1

LEMMA PathsAreInjective ==
  ASSUME NEW e, e.parent \in Seq(Seq(Characters)), e.name \in Seq(Characters),
         NEW f, f.parent \in Seq(Seq(Characters)), f.name \in Seq(Characters), Path(e) = Path(f)
  PROVE  e.parent = f.parent /\ e.name = f.name
  <1> DEFINE p == e.parent
             q == f.parent
             m == e.name
             n == f.name
             C == Seq(Characters)
  <1>1. Append(p, m) = Append(q, n)
    BY DEF Path
  <1>2. p \in Seq(C) /\ q \in Seq(C) /\ m \in C /\ n \in C
    OBVIOUS
  <1> HIDE DEF p, q, m, n, C
  <1>3. p = q /\ m = n
    BY ONLY <1>1, <1>2, AppendedAreEqual
  <1> QED BY <1>3 DEF p, q, m, n

LEMMA EntryIsItsFields ==
  ASSUME NEW e \in Entries
  PROVE  /\ e.parent \in Seq(Seq(Characters)) /\ e.name \in Seq(Characters)
         /\ e.object \in Objects \cup {Foreign}
  BY DEF Entries

LEMMA TreePathsDiffer ==
  ASSUME NEW t, IsTree(t)
  PROVE  PathsDiffer(t)
  <1> SUFFICES ASSUME NEW e \in t, NEW f \in t, Path(e) = Path(f)
               PROVE  e = f
    BY DEF PathsDiffer
  <1>1. e \in Entries /\ f \in Entries
    BY DEF IsTree
  <1>2. e.parent = f.parent /\ e.name = f.name
    BY <1>1, EntryIsItsFields, PathsAreInjective
  <1> QED BY <1>2 DEF IsTree, NamesAreApart

LEMMA RemovalKeepsTree ==
  ASSUME NEW t, IsTree(t), NEW e \in t, e.object \notin Directories
  PROVE  IsTree(t \ {e})
  <1>1. IsFiniteSet(t \ {e})
    BY FS_RemoveElement, Zenon DEF IsTree
  <1>2. NamesAreApart(t \ {e})
    BY DEF IsTree, NamesAreApart
  <1>3. DirectoriesEnclose(t \ {e})
    <2> SUFFICES ASSUME NEW f \in t \ {e}, NEW k \in 1..Len(f.parent)
                 PROVE  \E g \in t \ {e} : Path(g) = SubSeq(f.parent, 1, k) /\ g.object \in Directories
      BY DEF DirectoriesEnclose
    <2>1. PICK g \in t : Path(g) = SubSeq(f.parent, 1, k) /\ g.object \in Directories
      BY DEF IsTree, DirectoriesEnclose
    <2> QED BY <2>1
  <1> QED BY <1>1, <1>2, <1>3 DEF IsTree

LEMMA AdditionKeepsTree ==
  ASSUME NEW t, IsTree(t), NEW f \in Entries,
         \A g \in t : ~(g.parent = f.parent /\ Folded(g.name) = Folded(f.name)),
         \A k \in 1..Len(f.parent) :
           \E g \in t : Path(g) = SubSeq(f.parent, 1, k) /\ g.object \in Directories
  PROVE  IsTree(t \cup {f})
  <1>1. IsFiniteSet(t \cup {f})
    BY FS_AddElement, Zenon DEF IsTree
  <1>2. NamesAreApart(t \cup {f})
    BY DEF IsTree, NamesAreApart
  <1>3. DirectoriesEnclose(t \cup {f})
    <2> SUFFICES ASSUME NEW e \in t \cup {f}, NEW k \in 1..Len(e.parent)
                 PROVE  \E g \in t : Path(g) = SubSeq(e.parent, 1, k) /\ g.object \in Directories
      BY DEF DirectoriesEnclose
    <2>1. CASE e \in t
      BY <2>1 DEF IsTree, DirectoriesEnclose
    <2>2. CASE e = f
      BY <2>2
    <2> QED BY <2>1, <2>2
  <1>4. t \cup {f} \subseteq Entries
    BY DEF IsTree
  <1> QED BY <1>1, <1>2, <1>3, <1>4 DEF IsTree

\* Whatever another program does leaves a tree.
LEMMA InterfereKeepsTree ==
  ASSUME TreeOK, Interfere
  PROVE  TreeOK'
  <1>1. PICK e \in tree :
          \/ /\ e.object \notin Directories
             /\ tree' \in {tree \ {e}, (tree \ {e}) \cup {[e EXCEPT !.object = Foreign]}}
          \/ \E n \in StrangerNames :
               \/ /\ e.object \notin Directories
                  /\ At(e.parent, n) = {} \/ Folded(n) = Folded(e.name)
                  /\ tree' = (tree \ {e}) \cup {[e EXCEPT !.name = n]}
               \/ /\ At(e.parent, n) = {}
                  /\ tree' = tree \cup {[parent |-> e.parent, name |-> n, object |-> Foreign]}
    BY DEF Interfere
  <1>2. IsTree(tree) /\ e \in Entries
    BY DEF TreeOK, IsTree
  <1>3. \A k \in 1..Len(e.parent) :
          \E g \in tree : Path(g) = SubSeq(e.parent, 1, k) /\ g.object \in Directories
    BY <1>2 DEF IsTree, DirectoriesEnclose
  <1>4. ASSUME e.object \notin Directories, NEW f \in Entries, f.parent = e.parent,
               \A g \in tree \ {e} : ~(g.parent = f.parent /\ Folded(g.name) = Folded(f.name))
        PROVE  IsTree((tree \ {e}) \cup {f})
    <2>1. IsTree(tree \ {e})
      BY <1>2, <1>4, RemovalKeepsTree
    <2>2. \A k \in 1..Len(f.parent) :
            \E g \in tree \ {e} : Path(g) = SubSeq(f.parent, 1, k) /\ g.object \in Directories
      BY <1>3, <1>4
    <2> QED BY <1>4, <2>1, <2>2, AdditionKeepsTree
  <1>5. CASE e.object \notin Directories /\ tree' = tree \ {e}
    BY <1>2, <1>5, RemovalKeepsTree DEF TreeOK
  <1>6. CASE /\ e.object \notin Directories
             /\ tree' = (tree \ {e}) \cup {[e EXCEPT !.object = Foreign]}
    <2> DEFINE f == [e EXCEPT !.object = Foreign]
    <2>1. f \in Entries /\ f.parent = e.parent /\ f.name = e.name
      BY <1>2 DEF Entries
    <2>2. \A g \in tree \ {e} : ~(g.parent = f.parent /\ Folded(g.name) = Folded(f.name))
      BY <1>2, <2>1 DEF IsTree, NamesAreApart
    <2> HIDE DEF f
    <2>3. IsTree((tree \ {e}) \cup {f})
      BY <1>4, <1>6, <2>1, <2>2
    <2> QED BY <1>6, <2>3 DEF f, TreeOK
  <1>7. ASSUME NEW n \in StrangerNames
        PROVE  /\ n \in Seq(Characters)
               /\ At(e.parent, n) = {} =>
                    \A g \in tree : ~(g.parent = e.parent /\ Folded(g.name) = Folded(n))
    <2>1. n \in Seq(Characters)
      BY TreesAssumption DEF TreesAssumption
    <2> QED BY <2>1 DEF At
  <1>8. ASSUME NEW n \in StrangerNames, e.object \notin Directories,
               At(e.parent, n) = {} \/ Folded(n) = Folded(e.name),
               tree' = (tree \ {e}) \cup {[e EXCEPT !.name = n]}
        PROVE  TreeOK'
    <2> DEFINE f == [e EXCEPT !.name = n]
    <2>1. f \in Entries /\ f.parent = e.parent /\ f.name = n
      BY <1>2, <1>7, <1>8 DEF Entries
    <2>2. \A g \in tree \ {e} : ~(g.parent = f.parent /\ Folded(g.name) = Folded(f.name))
      <3>1. CASE At(e.parent, n) = {}
        BY <1>7, <2>1, <3>1
      <3>2. CASE Folded(n) = Folded(e.name)
        BY <1>2, <2>1, <3>2 DEF IsTree, NamesAreApart
      <3> QED BY <1>8, <3>1, <3>2
    <2> HIDE DEF f
    <2>3. IsTree((tree \ {e}) \cup {f})
      BY <1>4, <1>8, <2>1, <2>2
    <2> QED BY <1>8, <2>3 DEF f, TreeOK
  <1>9. ASSUME NEW n \in StrangerNames, At(e.parent, n) = {},
               tree' = tree \cup {[parent |-> e.parent, name |-> n, object |-> Foreign]}
        PROVE  TreeOK'
    <2> DEFINE f == [parent |-> e.parent, name |-> n, object |-> Foreign]
    <2>1. f \in Entries /\ f.parent = e.parent /\ f.name = n
      BY <1>2, <1>7, <1>9 DEF Entries
    <2>2. \A g \in tree : ~(g.parent = f.parent /\ Folded(g.name) = Folded(f.name))
      BY <1>7, <1>9, <2>1
    <2> HIDE DEF f
    <2>3. IsTree(tree \cup {f})
      BY <1>2, <1>3, <2>1, <2>2, AdditionKeepsTree
    <2> QED BY <1>9, <2>3 DEF f, TreeOK
  <1> QED BY <1>1, <1>5, <1>6, <1>8, <1>9


-----------------------------------------------------------------------------
(***************************************************************************)
(* The registry.                                                           *)
(***************************************************************************)
\* The sources of a snapshot are those of the registry, each once.
LEMMA RegisteredSourcesAreTyped ==
  ASSUME RegistryOK
  PROVE  /\ RegisteredSources \in Seq(Sources)
         /\ IdsDiffer(Range(RegisteredSources)) /\ PathsDiffer(Range(RegisteredSources))
         /\ \A s \in Range(RegisteredSources) :
              /\ s.id \in SourceIds /\ s.parent = registry[s.id].parent
              /\ s.name = registry[s.id].name /\ s.object = registry[s.id].object
         /\ \A i, j \in DOMAIN RegisteredSources :
              RegisteredSources[i].id = RegisteredSources[j].id => i = j
  <1> DEFINE R == {p \in SourceIds \X SourceIds : p[1] < p[2]}
             ids == Sorted(SourceIds, R)
             n == Cardinality(SourceIds)
             q == RegisteredSources
             Source(id) == [id |-> id, parent |-> registry[id].parent,
                            name |-> registry[id].name, object |-> registry[id].object]
  <1>1. SourceIds \in SUBSET Nat /\ IsFiniteSet(SourceIds)
    BY DEF RegistryOK
  <1>2. StrictOrder(SourceIds, R)
    <2> HIDE DEF q, ids, n
    <2>1. \A i, j \in SourceIds : <<i, j>> \in R <=> i < j
      OBVIOUS
    <2>2. \A i \in SourceIds : i \in Nat
      BY <1>1
    <2> HIDE DEF R
    <2> QED BY <2>1, <2>2 DEF StrictOrder
  <1>3. /\ n \in Nat /\ ids \in [1..n -> SourceIds]
        /\ \A i, j \in 1..n : i < j <=> <<ids[i], ids[j]>> \in R
    <2> HIDE DEF R
    <2> QED BY <1>1, <1>2, SortedIsSorted
  <1>4. q = [i \in DOMAIN ids |-> Source(ids[i])]
    BY DEF RegisteredSources
  <1> HIDE DEF ids, n, q, R
  <1>5. DOMAIN q = 1..n /\ \A i \in 1..n : q[i] = Source(ids[i])
    BY <1>3, <1>4
  <1>6. ASSUME NEW id \in SourceIds
        PROVE  /\ Source(id) \in Sources /\ registry[id] \in Entries
               /\ Path(Source(id)) = Path(registry[id])
    <2>1. registry[id] \in Entries /\ id \in Nat
      BY <1>1 DEF RegistryOK
    <2>2. Path(Source(id)) = Path(registry[id])
      BY DEF Path
    <2> QED BY <2>1, <2>2, EntryIsItsFields DEF Sources
  <1>7. q \in Seq(Sources)
    <2>1. \A i \in 1..n : q[i] \in Sources
      BY <1>3, <1>5, <1>6
    <2>2. q \in [1..n -> Sources]
      BY <1>4, <1>5, <2>1
    <2> QED BY <1>3, <2>2
  <1>8. \A s \in Range(q) : \E id \in SourceIds : s = Source(id)
    BY <1>3, <1>5 DEF Range
  <1>9. IdsDiffer(Range(q))
    BY <1>8 DEF IdsDiffer
  <1>10. PathsDiffer(Range(q))
    <2> SUFFICES ASSUME NEW i \in SourceIds, NEW j \in SourceIds, Path(Source(i)) = Path(Source(j))
                 PROVE  Source(i) = Source(j)
      BY <1>8 DEF PathsDiffer
    <2> HIDE DEF Source
    <2>1. Path(registry[i]) = Path(registry[j])
      BY <1>6
    <2>2. i = j
      BY <2>1 DEF RegistryOK
    <2> QED BY <2>2
  <1>11. ASSUME NEW i \in DOMAIN q, NEW j \in DOMAIN q, q[i].id = q[j].id
         PROVE  i = j
    <2>1. i \in 1..n /\ j \in 1..n /\ ids[i] = ids[j] /\ ids[i] \in SourceIds
      BY <1>3, <1>5, <1>11
    <2>2. <<ids[i], ids[j]>> \notin R /\ <<ids[j], ids[i]>> \notin R
      BY <1>2, <2>1 DEF StrictOrder
    <2>3. ~(i < j) /\ ~(j < i)
      BY <1>3, <2>1, <2>2
    <2> QED BY <2>1, <2>3
  <1> QED BY <1>7, <1>8, <1>9, <1>10, <1>11 DEF q

\* An id is one that temporary names are known of.
LEMMA IdsAreBounded ==
  ASSUME RegistryOK
  PROVE  \A id \in SourceIds : id \in 1..MaxSourceId
  <1> SUFFICES ASSUME NEW id \in SourceIds
               PROVE  id \in 1..MaxSourceId
    OBVIOUS
  <1>1. MaxSourceId \in Nat
    BY BoundsAssumption DEF BoundsAssumption
  <1>2. id \in Nat /\ 1 <= id /\ id < nextSourceId /\ nextSourceId \in 1..(MaxSourceId + 1)
    BY DEF RegistryOK
  <1> QED BY <1>1, <1>2

\* The new sources are candidates with paths that are not registered yet.
LEMMA NewSourcesAreNew ==
  ASSUME CandidatesOK
  PROVE  \E n \in Nat :
           /\ NewSources \in [1..n -> candidates] /\ Len(NewSources) = n
           /\ \A i \in 1..n : ~IsRegistered(Path(NewSources[i]))
           /\ \A i, j \in 1..n : Path(NewSources[i]) = Path(NewSources[j]) => i = j
  <1> DEFINE S == {e \in candidates : ~IsRegistered(Path(e))}
             R == {p \in S \X S : PathLess(Path(p[1]), Path(p[2]))}
             n == Cardinality(S)
             q == NewSources
  <1>1. S \in SUBSET candidates
    OBVIOUS
  <1>2. IsFiniteSet(S)
    <2> HIDE DEF S
    <2> QED BY <1>1, FS_Subset, Zenon DEF CandidatesOK
  <1>3. \A e \in S : Path(e) \in Seq(Seq(Characters))
    BY EntryPaths DEF CandidatesOK
  <1>4. \A e, f \in S : e # f => Path(e) # Path(f)
    BY DEF CandidatesOK, PathsDiffer
  <1>5. StrictOrder(S, R)
    <2>1. \A e, f \in S : <<e, f>> \in R <=> PathLess(Path(e), Path(f))
      OBVIOUS
    <2> HIDE DEF S, R, q
    <2>2. \A e, f \in S : <<e, f>> \in R <=> <<Path(e), Path(f)>> \in PathOrder
      BY <1>3, <2>1 DEF PathOrder
    <2> QED BY <1>3, <1>4, <2>2, PathsAreOrdered DEF StrictOrder
  <1>6. q = Sorted(S, R)
    BY DEF NewSources
  <1>7. \A e \in S : ~IsRegistered(Path(e))
    OBVIOUS
  <1> HIDE DEF S, R, q
  <1>8. /\ n \in Nat /\ q \in [1..n -> S]
        /\ \A i, j \in 1..n : i < j <=> <<q[i], q[j]>> \in R
    BY <1>2, <1>5, <1>6, SortedIsSorted
  <1>9. ASSUME NEW i \in 1..n, NEW j \in 1..n, Path(q[i]) = Path(q[j])
        PROVE  i = j
    <2>1. q[i] \in S /\ q[j] \in S
      BY <1>8
    <2>2. q[i] = q[j]
      BY <1>4, <1>9, <2>1
    <2>3. <<q[i], q[j]>> \notin R /\ <<q[j], q[i]>> \notin R
      BY <1>5, <2>1, <2>2 DEF StrictOrder
    <2> QED BY <1>8, <2>3
  <1>10. q \in [1..n -> candidates] /\ Len(q) = n
    BY <1>1, <1>8
  <1> QED BY <1>7, <1>8, <1>9, <1>10 DEF q


-----------------------------------------------------------------------------
(***************************************************************************)
(* The steps.                                                              *)
(***************************************************************************)
\* Snapshots, requests and plans stay what they are of a registry that is
\* the same, and are of an earlier generation of one that has changed.
LEMMA SnapshotsStay ==
  ASSUME RegistryOK, CachedOK, RequestOK, PlanOK, UNCHANGED <<request, plan>>,
         UNCHANGED <<registry, generation, cached>>
           \/ (generation' = generation + 1 /\ cached' = NoSnapshot)
  PROVE  CachedOK' /\ RequestOK' /\ PlanOK'
  <1>1. CASE UNCHANGED <<registry, generation, cached>>
    <2>1. RegisteredSources' = RegisteredSources
      BY <1>1 DEF RegisteredSources, SourceIds
    <2>2. CachedOK'
      BY <1>1, <2>1 DEF CachedOK
    <2>3. RequestOK'
      BY <1>1, <2>1 DEF RequestOK
    <2>4. PlanOK'
      BY <1>1, <2>1 DEF PlanOK
    <2> QED BY <2>2, <2>3, <2>4
  <1>2. CASE generation' = generation + 1 /\ cached' = NoSnapshot
    <2>1. generation \in Nat
      BY DEF RegistryOK
    <2>2. CachedOK'
      BY <1>2 DEF CachedOK
    <2>3. request.generation \in Nat /\ request.generation <= generation
      BY DEF RequestOK
    <2>4. RequestOK'
      BY <1>2, <2>1, <2>3 DEF RequestOK
    <2>5. ASSUME plan # None
          PROVE  plan.generation \in Nat /\ plan.generation < generation'
      <3>1. plan.generation \in Nat /\ plan.generation <= generation
        BY <2>5 DEF PlanOK
      <3> QED BY <1>2, <2>1, <3>1
    <2>6. PlanOK'
      BY <1>2, <2>1, <2>5 DEF PlanOK
    <2> QED BY <2>2, <2>4, <2>6
  <1> QED BY <1>1, <1>2

\* FrozenNamesAreSafe speaks of the frozen entries and the tree.
LEMMA FrozenStays ==
  ASSUME FrozenNamesAreSafe, UNCHANGED <<frozen, tree>>
  PROVE  FrozenNamesAreSafe'
  BY DEF FrozenNamesAreSafe, At

LEMMA InitIsOK == Init => IInv
  <1> SUFFICES ASSUME Init
               PROVE  IInv
    OBVIOUS
  <1>1. TreeOK
    BY TreesAssumption DEF Init, TreesAssumption, TreeOK, IsTree
  <1>2. CandidatesOK
    BY FS_EmptySet DEF Init, CandidatesOK, PathsDiffer
  <1>3. RegistryOK
    <2>1. SourceIds = {}
      BY DEF Init, SourceIds
    <2>2. MaxSourceId \in Nat
      BY BoundsAssumption DEF BoundsAssumption
    <2> QED BY <2>1, <2>2, FS_EmptySet DEF Init, RegistryOK
  <1>4. CachedOK
    BY DEF Init, CachedOK
  <1>5. RequestOK
    <2>1. Range(<<>>) = {}
      BY DEF Range
    <2> QED BY <2>1 DEF Init, RequestOK, NoRequest, IdsDiffer, PathsDiffer
  <1>6. PlanOK /\ FrozenNamesAreSafe
    BY DEF Init, PlanOK, FrozenNamesAreSafe
  <1> QED BY <1>1, <1>2, <1>3, <1>4, <1>5, <1>6 DEF IInv

LEMMA NormalizeKeeps == IInv /\ NormalizePaths => IInv'
  <1> SUFFICES ASSUME IInv, NormalizePaths
               PROVE  IInv'
    OBVIOUS
  <1>1. TreeOK'
    BY DEF IInv, NormalizePaths, TreeOK
  <1>2. CandidatesOK'
    <2>1. candidates' \in SUBSET tree
      BY DEF NormalizePaths
    <2>2. PathsDiffer(tree) /\ IsFiniteSet(tree) /\ tree \subseteq Entries
      BY TreePathsDiffer DEF IInv, TreeOK, IsTree
    <2>3. IsFiniteSet(candidates')
      BY <2>1, <2>2, FS_Subset, Zenon
    <2> QED BY <2>1, <2>2, <2>3 DEF CandidatesOK, PathsDiffer
  <1>3. UNCHANGED <<tree, registry, nextSourceId, generation, cached, request, plan, frozen>>
    BY DEF NormalizePaths, registryVars
  <1>4. RegistryOK'
    BY <1>3 DEF IInv, RegistryOK, SourceIds
  <1>5. CachedOK' /\ RequestOK' /\ PlanOK'
    BY <1>3, SnapshotsStay DEF IInv
  <1>6. FrozenNamesAreSafe'
    BY <1>3, FrozenStays DEF IInv
  <1> QED BY <1>1, <1>2, <1>4, <1>5, <1>6 DEF IInv

LEMMA AdmitKeeps == IInv /\ AdmitCandidates => IInv'
  <1> SUFFICES ASSUME IInv, AdmitCandidates
               PROVE  IInv'
    OBVIOUS
  <1> DEFINE new == NewSources
             first == nextSourceId
  <1>1. UNCHANGED <<tree, request, plan, frozen>> /\ candidates' = {}
    BY DEF AdmitCandidates
  <1>2. TreeOK'
    BY <1>1 DEF IInv, TreeOK
  <1>3. CandidatesOK'
    BY <1>1, FS_EmptySet DEF CandidatesOK, PathsDiffer
  <1>4. \/ UNCHANGED <<registry, nextSourceId, generation, cached>>
        \/ /\ registry' = [id \in SourceIds \cup first..(first + Len(new) - 1) |->
                             IF id \in SourceIds THEN registry[id] ELSE new[id - first + 1]]
           /\ nextSourceId' = first + Len(new) /\ first + Len(new) <= MaxSourceId + 1
           /\ generation' = generation + 1
           /\ cached' = NoSnapshot
    BY DEF AdmitCandidates, registryVars
  <1>5. RegistryOK'
    <2>1. CASE UNCHANGED <<registry, nextSourceId, generation, cached>>
      BY <2>1 DEF IInv, RegistryOK, SourceIds
    <2>2. CASE /\ registry' = [id \in SourceIds \cup first..(first + Len(new) - 1) |->
                                 IF id \in SourceIds THEN registry[id] ELSE new[id - first + 1]]
               /\ nextSourceId' = first + Len(new) /\ first + Len(new) <= MaxSourceId + 1
               /\ generation' = generation + 1
               /\ cached' = NoSnapshot
      <3>1. PICK n \in Nat :
              /\ new \in [1..n -> candidates] /\ Len(new) = n
              /\ \A i \in 1..n : ~IsRegistered(Path(new[i]))
              /\ \A i, j \in 1..n : Path(new[i]) = Path(new[j]) => i = j
        BY NewSourcesAreNew DEF IInv
      <3>2. /\ generation \in Nat /\ first \in Nat /\ 1 <= first /\ MaxSourceId \in Nat
            /\ SourceIds \in SUBSET Nat /\ IsFiniteSet(SourceIds)
            /\ \A id \in SourceIds : 1 <= id /\ id < first /\ registry[id] \in Entries
            /\ \A i, j \in SourceIds : Path(registry[i]) = Path(registry[j]) => i = j
            /\ candidates \subseteq Entries
        BY BoundsAssumption DEF IInv, RegistryOK, CandidatesOK, BoundsAssumption
      <3> DEFINE fresh == first..(first + n - 1)
      <3>3. SourceIds' = SourceIds \cup fresh
        BY <2>2, <3>1 DEF SourceIds
      <3>4. \A id \in fresh : id \in Nat /\ 1 <= id /\ id < first + n /\ id \notin SourceIds /\ id - first + 1 \in 1..n
        BY <3>1, <3>2
      <3>5. \A id \in SourceIds : registry'[id] = registry[id]
        BY <2>2
      <3>6. \A id \in fresh : registry'[id] = new[id - first + 1]
        BY <2>2, <3>1, <3>4
      <3>7. IsFiniteSet(fresh)
        <4>1. first \in Int /\ first + n - 1 \in Int
          BY <3>1, <3>2
        <4> QED BY <4>1, FS_Interval, Zenon
      <3>8. IsFiniteSet(SourceIds \cup fresh)
        BY <3>2, <3>7, FS_Union, Zenon
      <3>9. \A i \in fresh : registry'[i] \in Entries /\ ~IsRegistered(Path(registry'[i]))
        BY <3>1, <3>2, <3>4, <3>6
      <3> HIDE DEF fresh, new, first
      <3>10. \A i \in fresh, j \in SourceIds : Path(registry'[i]) # Path(registry'[j])
        BY <3>5, <3>9 DEF IsRegistered
      <3>11. ASSUME NEW i \in fresh, NEW j \in fresh, Path(registry'[i]) = Path(registry'[j])
             PROVE  i = j
        <4>1. i - first + 1 = j - first + 1
          BY <3>1, <3>4, <3>6, <3>11
        <4> QED BY <3>2, <3>4, <4>1
      <3>12. \A i, j \in SourceIds' : Path(registry'[i]) = Path(registry'[j]) => i = j
        BY <3>2, <3>3, <3>5, <3>10, <3>11
      <3>13. nextSourceId' = first + n /\ generation' = generation + 1
        BY <2>2, <3>1
      <3>14. \A i \in SourceIds : i < first + n
        BY <3>1, <3>2
      <3>15. \A i \in SourceIds' : 1 <= i /\ i < nextSourceId'
        BY <3>2, <3>3, <3>4, <3>13, <3>14
      <3>16. \A i \in SourceIds' : registry'[i] \in Entries
        BY <3>2, <3>3, <3>5, <3>9
      <3>17. generation' \in Nat /\ nextSourceId' \in 1..(MaxSourceId + 1)
        <4>1. first + n <= MaxSourceId + 1
          BY <2>2, <3>1 DEF new, first
        <4> QED BY <3>1, <3>2, <3>13, <4>1
      <3>18. SourceIds' \in SUBSET Nat
        BY <3>2, <3>3, <3>4
      <3> QED BY <3>3, <3>8, <3>12, <3>15, <3>16, <3>17, <3>18 DEF RegistryOK
    <2> QED BY <1>4, <2>1, <2>2
  <1>6. CachedOK' /\ RequestOK' /\ PlanOK'
    BY <1>1, <1>4, SnapshotsStay DEF IInv
  <1>7. FrozenNamesAreSafe'
    BY <1>1, FrozenStays DEF IInv
  <1> QED BY <1>2, <1>3, <1>5, <1>6, <1>7 DEF IInv

LEMMA RemoveKeeps == IInv /\ RemoveSources => IInv'
  <1> SUFFICES ASSUME IInv, RemoveSources
               PROVE  IInv'
    OBVIOUS
  <1>1. /\ UNCHANGED <<tree, candidates, nextSourceId, request, plan, frozen>>
        /\ generation' = generation + 1 /\ cached' = NoSnapshot
    BY DEF RemoveSources
  <1>2. TreeOK' /\ CandidatesOK'
    BY <1>1 DEF IInv, TreeOK, CandidatesOK
  <1>3. RegistryOK'
    <2>1. PICK removed \in SUBSET SourceIds : registry' = [id \in SourceIds \ removed |-> registry[id]]
      BY DEF RemoveSources
    <2>2. SourceIds' = SourceIds \ removed /\ \A id \in SourceIds' : registry'[id] = registry[id]
      BY <2>1 DEF SourceIds
    <2>3. SourceIds \in SUBSET Nat /\ IsFiniteSet(SourceIds) /\ SourceIds' \in SUBSET SourceIds
      BY <2>2 DEF IInv, RegistryOK
    <2>4. IsFiniteSet(SourceIds')
      BY <2>3, FS_Subset, Zenon
    <2>5. /\ \A id \in SourceIds' : 1 <= id /\ id < nextSourceId' /\ registry'[id] \in Entries
          /\ \A i, j \in SourceIds' : Path(registry'[i]) = Path(registry'[j]) => i = j
      BY <1>1, <2>2, <2>3 DEF IInv, RegistryOK
    <2>6. generation' \in Nat /\ nextSourceId' \in 1..(MaxSourceId + 1) /\ SourceIds' \in SUBSET Nat
      BY <1>1, <2>3 DEF IInv, RegistryOK
    <2> QED BY <2>4, <2>5, <2>6 DEF RegistryOK
  <1>4. CachedOK' /\ RequestOK' /\ PlanOK'
    BY <1>1, SnapshotsStay DEF IInv
  <1>5. FrozenNamesAreSafe'
    BY <1>1, FrozenStays DEF IInv
  <1> QED BY <1>2, <1>3, <1>4, <1>5 DEF IInv


LEMMA RegisteredSourcesStay ==
  ASSUME UNCHANGED registry
  PROVE  RegisteredSources' = RegisteredSources
  BY DEF RegisteredSources, SourceIds

LEMMA SnapshotKeeps == IInv /\ PlanningSnapshot => IInv'
  <1> SUFFICES ASSUME IInv, PlanningSnapshot
               PROVE  IInv'
    OBVIOUS
  <1>1. UNCHANGED <<tree, candidates, registry, nextSourceId, generation>> /\ plan' = None /\ frozen' = None
    BY DEF PlanningSnapshot
  <1>2. TreeOK' /\ CandidatesOK' /\ RegistryOK'
    BY <1>1 DEF IInv, TreeOK, CandidatesOK, RegistryOK, SourceIds, IsRegistered
  <1>3. cached' = [generation |-> generation, sources |-> RegisteredSources]
    BY DEF PlanningSnapshot, IInv, CachedOK
  <1>4. RegisteredSources' = RegisteredSources
    BY <1>1, RegisteredSourcesStay
  <1>5. CachedOK'
    BY <1>1, <1>3, <1>4 DEF CachedOK
  <1>6. RequestOK'
    <2>1. PICK r \in Requests :
            request' = [stage |-> "captured", rules |-> r.rules, overrides |-> r.overrides, stale |-> {},
                        generation |-> cached'.generation, sources |-> cached'.sources]
      BY DEF PlanningSnapshot
    <2>2. /\ request'.stage = "captured" /\ request'.rules = r.rules
          /\ request'.generation = generation /\ request'.sources = RegisteredSources
          /\ DOMAIN request' = DOMAIN NoRequest
      BY <1>3, <2>1 DEF NoRequest
    <2>3. /\ RegisteredSources \in Seq(Sources)
          /\ IdsDiffer(Range(RegisteredSources)) /\ PathsDiffer(Range(RegisteredSources))
      BY RegisteredSourcesAreTyped DEF IInv
    <2>4. generation \in Nat
      BY DEF IInv, RegistryOK
    <2> QED BY <1>1, <1>4, <2>2, <2>3, <2>4 DEF RequestOK
  <1>7. PlanOK' /\ FrozenNamesAreSafe'
    BY <1>1 DEF PlanOK, FrozenNamesAreSafe
  <1> QED BY <1>2, <1>5, <1>6, <1>7 DEF IInv

LEMMA CheckKeeps == IInv /\ CheckSources => IInv'
  <1> SUFFICES ASSUME IInv, CheckSources
               PROVE  IInv'
    OBVIOUS
  <1>1. UNCHANGED <<tree, candidates, registry, nextSourceId, generation, cached, plan, frozen>>
    BY DEF CheckSources, registryVars
  <1>2. TreeOK' /\ CandidatesOK' /\ RegistryOK'
    BY <1>1 DEF IInv, TreeOK, CandidatesOK, RegistryOK, SourceIds
  <1>3. RegisteredSources' = RegisteredSources
    BY <1>1, RegisteredSourcesStay
  <1>4. CachedOK' /\ PlanOK'
    BY <1>1, <1>3 DEF IInv, CachedOK, PlanOK
  <1>5. RequestOK'
    <2>1. DOMAIN request = DOMAIN NoRequest
      BY DEF IInv, RequestOK
    <2>2. /\ DOMAIN request' = DOMAIN request /\ request'.stage = "checked"
          /\ request'.sources = request.sources /\ request'.rules = request.rules
          /\ request'.generation = request.generation
      BY <2>1 DEF CheckSources, NoRequest
    <2>3. request.stage # "none"
      BY DEF CheckSources
    <2> QED BY <1>1, <1>3, <2>2, <2>3 DEF IInv, RequestOK
  <1>6. FrozenNamesAreSafe'
    BY <1>1, FrozenStays DEF IInv
  <1> QED BY <1>2, <1>4, <1>5, <1>6 DEF IInv

LEMMA InterfereKeeps == IInv /\ Interfere => IInv'
  <1> SUFFICES ASSUME IInv, Interfere
               PROVE  IInv'
    OBVIOUS
  <1>1. UNCHANGED <<candidates, registry, nextSourceId, generation, cached, request, plan>> /\ frozen' = None
    BY DEF Interfere, registryVars
  <1>2. TreeOK'
    BY InterfereKeepsTree DEF IInv
  <1>3. CandidatesOK' /\ RegistryOK'
    BY <1>1 DEF IInv, CandidatesOK, RegistryOK, SourceIds
  <1>4. CachedOK' /\ RequestOK' /\ PlanOK'
    BY <1>1, SnapshotsStay DEF IInv
  <1>5. FrozenNamesAreSafe'
    BY <1>1 DEF FrozenNamesAreSafe
  <1> QED BY <1>2, <1>3, <1>4, <1>5 DEF IInv

-----------------------------------------------------------------------------
(***************************************************************************)
(* The rows of a plan.                                                     *)
(***************************************************************************)
\* Marking adds diagnostics and leaves the rest of a row alone.
LEMMA MarkedRows ==
  ASSUME NEW rows, NEW sources, NEW stale, NEW unavailable, NEW i \in DOMAIN rows,
         {"id", "parent", "original", "proposed", "blocked", "trace", "truncated", "overridden"}
           \subseteq DOMAIN rows[i]
  PROVE  LET row == Marked(rows, sources, stale, unavailable)[i]
         IN /\ row.id = rows[i].id /\ row.parent = rows[i].parent
            /\ row.original = rows[i].original /\ row.proposed = rows[i].proposed
            /\ row.trace = rows[i].trace /\ row.truncated = rows[i].truncated
            /\ row.overridden = rows[i].overridden
            /\ row.blocked = {} =>
                 /\ rows[i].blocked = {}
                 /\ rows[i].id \notin AncestorConflicts(sources)
                 /\ i \notin Duplicates(rows)
  <1> DEFINE conflicts == AncestorConflicts(sources)
             occupied  == {<<e.parent, ComparisonKey(e.name)>> :
                             e \in OccupiedNames(sources, ParentsOf(sources) \ unavailable)}
             found == {d \in {"StaleSource", "AncestorDescendantConflict", "ParentUnavailable",
                              "DuplicateDestination", "OccupiedDestination"} :
                         CASE d = "StaleSource"                -> rows[i].id \in stale
                           [] d = "AncestorDescendantConflict" -> rows[i].id \in conflicts
                           [] d = "ParentUnavailable"          -> rows[i].parent \in unavailable
                           [] d = "DuplicateDestination"       -> i \in Duplicates(rows)
                           [] OTHER -> IsText(rows[i].proposed) /\ Destination(rows[i]) \in occupied}
             row == Marked(rows, sources, stale, unavailable)[i]
  <1>1. row = [rows[i] EXCEPT !.blocked = @ \cup found]
    BY DEF Marked
  <1>2. rows[i].id \in conflicts => "AncestorDescendantConflict" \in found
    OBVIOUS
  <1>3. i \in Duplicates(rows) => "DuplicateDestination" \in found
    OBVIOUS
  <1> HIDE DEF row, found, conflicts
  <1>4. /\ row.id = rows[i].id /\ row.parent = rows[i].parent
        /\ row.original = rows[i].original /\ row.proposed = rows[i].proposed
        /\ row.trace = rows[i].trace /\ row.truncated = rows[i].truncated
        /\ row.overridden = rows[i].overridden
        /\ row.blocked = rows[i].blocked \cup found
    BY <1>1
  <1>5. row.blocked = {} => rows[i].blocked = {} /\ found = {}
    BY <1>4
  <1> QED BY <1>2, <1>3, <1>4, <1>5 DEF row, conflicts

\* A row that nothing blocks proposes a name the target accepts.
LEMMA RowFields ==
  ASSUME NEW s, NEW evaluated, NEW overrides
  PROVE  LET row == Row(s, evaluated, overrides)
         IN /\ {"id", "parent", "original", "proposed", "blocked", "trace", "truncated", "overridden"}
                 \subseteq DOMAIN row
            /\ row.id = s.id /\ row.parent = s.parent /\ row.original = s.name
            /\ row.blocked = {} => NameDiagnostics(row.proposed) = {}
  BY DEF Row

LEMMA AcceptedName ==
  ASSUME NEW name, NameDiagnostics(name) = {}
  PROVE  IsText(name) /\ ~EndsInDotOrSpace(name)
  <1>1. name # <<>> /\ IsText(name)
    BY DEF NameDiagnostics
  <1>2. EndsInDotOrSpace(name) => "TrailingDotOrSpace" \in NameDiagnostics(name)
    BY <1>1 DEF NameDiagnostics
  <1> QED BY <1>1, <1>2

LEMMA RequestedRowsAreSafe ==
  ASSUME RequestOK, NEW unavailable, NEW rows, rows = RequestedRows(unavailable)
  PROVE  /\ RowsOf(rows, request.sources)
         /\ (\A i \in DOMAIN rows : rows[i].blocked = {}) => RowsAreSafe(rows, request.sources)
  <1> DEFINE sources == request.sources
             plain == Rows(sources, request.rules, request.overrides)
  <1>1. CASE Compiles(request.rules) /\ OverridesAreValid(request.sources, request.overrides)
    <2>1. rows = Marked(plain, sources, request.stale, unavailable)
      BY <1>1 DEF RequestedRows
    <2> DEFINE evaluated == EvaluatedInTurn(sources, request.rules, Values(sources, request.rules))
    <2>3. plain = [i \in DOMAIN sources |-> Row(sources[i], evaluated[i], request.overrides)]
      BY DEF Rows
    <2> HIDE DEF plain, sources, evaluated
    <2>4. DOMAIN plain = DOMAIN sources
          /\ \A i \in DOMAIN sources : plain[i] = Row(sources[i], evaluated[i], request.overrides)
      BY <2>3
    <2>5. DOMAIN rows = DOMAIN plain
      BY <2>1 DEF Marked
    <2>6. ASSUME NEW i \in DOMAIN sources
          PROVE  /\ {"id", "parent", "original", "proposed", "blocked", "trace", "truncated", "overridden"}
                      \subseteq DOMAIN plain[i]
                 /\ plain[i].id = sources[i].id /\ plain[i].parent = sources[i].parent
                 /\ plain[i].original = sources[i].name
                 /\ plain[i].blocked = {} => NameDiagnostics(plain[i].proposed) = {}
      BY <2>4, RowFields
    <2>7. ASSUME NEW i \in DOMAIN sources
          PROVE  /\ rows[i].id = plain[i].id /\ rows[i].parent = plain[i].parent
                 /\ rows[i].original = plain[i].original /\ rows[i].proposed = plain[i].proposed
                 /\ rows[i].blocked = {} =>
                      /\ plain[i].blocked = {}
                      /\ plain[i].id \notin AncestorConflicts(sources)
                      /\ i \notin Duplicates(plain)
      BY <2>1, <2>4, <2>6, MarkedRows
    <2>8. RowsOf(rows, sources)
      BY <2>4, <2>5, <2>6, <2>7 DEF RowsOf
    <2>9. ASSUME \A i \in DOMAIN rows : rows[i].blocked = {}
          PROVE  RowsAreSafe(rows, sources)
      <3>1. \A i \in DOMAIN rows : NameDiagnostics(rows[i].proposed) = {}
        BY <2>4, <2>5, <2>6, <2>7, <2>9
      <3>2. \A i \in DOMAIN rows : IsText(rows[i].proposed) /\ ~EndsInDotOrSpace(rows[i].proposed)
        BY <3>1, AcceptedName
      <3>3. ASSUME NEW i \in DOMAIN rows, NEW j \in DOMAIN rows, i # j,
                   Destination(rows[i]) = Destination(rows[j])
            PROVE  FALSE
        <4>1. i \in DOMAIN plain /\ j \in DOMAIN plain \ {i}
          BY <2>5, <3>3
        <4>2. Destination(plain[i]) = Destination(plain[j])
          BY <2>4, <2>7, <3>3, <4>1 DEF Destination
        <4>3. IsText(plain[i].proposed) /\ IsText(plain[j].proposed)
          BY <2>4, <2>5, <2>7, <3>2, <4>1
        <4>4. i \in Duplicates(plain)
          BY <4>1, <4>2, <4>3 DEF Duplicates
        <4> QED BY <2>4, <2>7, <2>9, <3>3, <4>1, <4>4
      <3>4. InConflict(Range(sources)) = {}
        <4> SUFFICES ASSUME NEW t \in InConflict(Range(sources))
                     PROVE  FALSE
          OBVIOUS
        <4>1. AncestorConflicts(sources) = InTheWay(Range(sources))
          BY ConflictsAreFound DEF RequestOK, sources
        <4>2. t.id \in AncestorConflicts(sources) /\ t \in Range(sources)
          BY <4>1 DEF InTheWay, InConflict
        <4>3. PICK i \in DOMAIN sources : t = sources[i]
          BY <4>2 DEF Range
        <4> QED BY <2>4, <2>5, <2>6, <2>7, <2>9, <4>2, <4>3
      <3> QED BY <3>2, <3>3, <3>4 DEF RowsAreSafe
    <2> QED BY <2>8, <2>9 DEF sources
  <1>2. CASE ~(Compiles(request.rules) /\ OverridesAreValid(request.sources, request.overrides))
    <2>1. rows = InvalidRows(sources)
      BY <1>2 DEF RequestedRows
    <2>2. RowsOf(rows, sources)
      BY <2>1 DEF InvalidRows, RowsOf
    <2>3. DOMAIN rows = DOMAIN sources /\ \A i \in DOMAIN rows : rows[i].blocked # {}
      <3> HIDE DEF sources
      <3>1. DOMAIN rows = DOMAIN sources
        BY <2>1 DEF InvalidRows
      <3>2. ASSUME NEW i \in DOMAIN rows
            PROVE  rows[i].blocked = {"InvalidRule"}
        BY <2>1, <3>1 DEF InvalidRows
      <3> QED BY <3>1, <3>2
    <2>4. ASSUME DOMAIN sources = {}
          PROVE  RowsAreSafe(rows, sources)
      <3>1. Range(sources) = {}
        BY <2>4 DEF Range
      <3> QED BY <2>3, <2>4, <3>1 DEF RowsAreSafe, InConflict
    <2> QED BY <2>2, <2>3, <2>4
  <1> QED BY <1>1, <1>2

LEMMA BuildKeeps == IInv /\ BuildPlan => IInv'
  <1> SUFFICES ASSUME IInv, BuildPlan
               PROVE  IInv'
    OBVIOUS
  <1>1. UNCHANGED <<tree, candidates, registry, nextSourceId, generation, cached, frozen>>
        /\ request' = NoRequest /\ request.stage = "checked"
    BY DEF BuildPlan, registryVars
  <1>2. TreeOK' /\ CandidatesOK' /\ RegistryOK'
    BY <1>1 DEF IInv, TreeOK, CandidatesOK, RegistryOK, SourceIds
  <1>3. RegisteredSources' = RegisteredSources
    BY <1>1, RegisteredSourcesStay
  <1>4. CachedOK'
    BY <1>1, <1>3 DEF IInv, CachedOK
  <1>5. RequestOK'
    <2>1. Range(<<>>) = {}
      BY DEF Range
    <2>2. generation' \in Nat
      BY <1>1 DEF IInv, RegistryOK
    <2> QED BY <1>1, <2>1, <2>2 DEF RequestOK, NoRequest, IdsDiffer, PathsDiffer
  <1>6. PlanOK'
    <2>1. PICK unavailable : plan' = PlanOf(RequestedRows(unavailable))
      BY DEF BuildPlan
    <2> DEFINE rows == RequestedRows(unavailable)
    <2>2. /\ RowsOf(rows, request.sources)
          /\ (\A i \in DOMAIN rows : rows[i].blocked = {}) => RowsAreSafe(rows, request.sources)
      BY RequestedRowsAreSafe DEF IInv
    <2> HIDE DEF rows
    <2>3. plan'.generation = request.generation /\ plan'.rows = rows
      BY <2>1 DEF PlanOf, rows
    <2>4. /\ request.generation \in Nat /\ request.generation <= generation
          /\ request.generation = generation => request.sources = RegisteredSources
      BY <1>1 DEF IInv, RequestOK
    <2>5. CanApply(plan') => \A i \in DOMAIN rows : rows[i].blocked = {}
      BY <2>3 DEF CanApply
    <2> QED BY <1>1, <1>3, <2>2, <2>3, <2>4, <2>5 DEF PlanOK
  <1>7. FrozenNamesAreSafe'
    BY <1>1, FrozenStays DEF IInv
  <1> QED BY <1>2, <1>4, <1>5, <1>6, <1>7 DEF IInv


-----------------------------------------------------------------------------
(***************************************************************************)
(* What a plan says about its names.                                       *)
(***************************************************************************)
\* Every rule has a number for every source, or none.
LEMMA ValuesAreNumbers ==
  ASSUME NEW sources \in Seq(Sources), IdsDiffer(Range(sources)), NEW rules \in Seq(Rules),
         NEW k \in 1..Len(sources), NEW i \in DOMAIN rules
  PROVE  Values(sources, rules)[i][sources[k].id] \in Nat \cup {NoValue}
  <1> DEFINE rule == rules[i]
             s == sources[k]
  <1>1. s \in Range(sources) /\ rule \in Rules
    BY DEF Range
  <1>2. CASE rule.kind = "sequence"
    <2>1. rule.start \in Nat /\ rule.step \in Nat
      <3> HIDE DEF rule
      <3> QED BY <1>1, <1>2 DEF Rules
    <2>2. Values(sources, rules)[i] = AllocateSequence(sources, rule)
      BY <1>2 DEF Values
    <2> HIDE DEF rule, s
    <2>3. /\ Cardinality(Predecessors(Range(sources), rule, s)) \in Nat
          /\ AllocateSequence(sources, rule)[s.id] =
               SequenceValue(rule, Cardinality(Predecessors(Range(sources), rule, s)))
      BY <1>1, NumbersAreAllocated
    <2> DEFINE c == Cardinality(Predecessors(Range(sources), rule, s))
    <2>4. SequenceValue(rule, c) = IF rule.start + rule.step * c <= MaxNumber
                                   THEN rule.start + rule.step * c ELSE NoValue
      BY <2>1, <2>3, SequenceValueIsExact
    <2> HIDE DEF c
    <2>5. rule.start + rule.step * c \in Nat
      BY <2>1, <2>3 DEF c
    <2>6. Values(sources, rules)[i][s.id] = SequenceValue(rule, c)
      BY <2>2, <2>3 DEF c
    <2> QED BY <2>4, <2>5, <2>6 DEF s
  <1>3. CASE rule.kind # "sequence"
    <2>1. Values(sources, rules)[i] = [id \in {t.id : t \in Range(sources)} |-> NoValue]
      BY <1>3 DEF Values
    <2>2. s.id \in {t.id : t \in Range(sources)}
      BY <1>1
    <2> HIDE DEF s
    <2> QED BY <2>1, <2>2 DEF s
  <1> QED BY <1>2, <1>3

\* The trace of a row leads from its original name to the one its rules propose.
RowExplained(row) ==
  /\ row.trace \in Seq(TraceSteps)
  /\ \A k \in DOMAIN row.trace :
       row.trace[k].before = IF k = 1 THEN row.original ELSE row.trace[k - 1].after
  /\ ~row.truncated /\ ~row.overridden =>
       row.proposed = IF row.trace = <<>> THEN row.original ELSE row.trace[Len(row.trace)].after

LEMMA RowIsExplained ==
  ASSUME NEW s, NEW evaluated \in Evaluations, NEW overrides, NEW budget,
         Explained(evaluated, s.name, budget)
  PROVE  RowExplained(Row(s, evaluated, overrides))
  <1> DEFINE row == Row(s, evaluated, overrides)
  <1>1. /\ row.original = s.name /\ row.trace = evaluated.trace /\ row.truncated = evaluated.truncated
        /\ ~row.overridden => row.proposed = evaluated.name
    BY DEF Row
  <1> HIDE DEF row
  <1>2. evaluated.trace \in Seq(TraceSteps)
    BY DEF Evaluations
  <1> QED BY <1>1, <1>2 DEF RowExplained, Explained, row

\* After the last step that changed a name it stays what it is.
LEMMA LastChangeIsExplained ==
  ASSUME NEW row, RowExplained(row), NEW rules, LastChangedRule(row, rules) # 0
  PROVE  \E k \in DOMAIN row.trace : /\ row.trace[k].rule = LastChangedRule(row, rules)
                                      /\ row.trace[k].before # row.proposed
                                      /\ row.trace[k].after = row.proposed
  <1> DEFINE trace == row.trace
             n == Len(trace)
             changes == {k \in DOMAIN trace : trace[k].before # trace[k].after}
             last == CHOOSE k \in changes : \A j \in changes : j <= k
  <1>1. n \in Nat /\ DOMAIN trace = 1..n
    BY DEF RowExplained
  <1>2. /\ ~row.overridden /\ ~row.truncated /\ changes # {}
        /\ LastChangedRule(row, rules) = trace[last].rule
    BY DEF LastChangedRule
  <1>3. last \in changes /\ \A j \in changes : j <= last
    <2>1. changes \in SUBSET Nat /\ IsFiniteSet(changes)
      <3>1. IsFiniteSet(1..n)
        BY <1>1, FS_Interval
      <3> QED BY <1>1, <3>1, FS_Subset
    <2> HIDE DEF changes
    <2> QED BY <1>2, <2>1, LargestOfFinite
  <1> HIDE DEF last
  <1>4. last \in 1..n /\ trace[last].before # trace[last].after
    BY <1>1, <1>3
  <1> DEFINE T == {m \in 0..(n - last) : trace[last + m].after = trace[last].after}
  <1>5. 0 \in T
    BY <1>1, <1>4
  <1>6. ASSUME NEW m \in 0..((n - last) - 1), m \in T
        PROVE  m + 1 \in T
    <2>1. last + (m + 1) \in 1..n /\ last + (m + 1) # 1 /\ (last + (m + 1)) - 1 = last + m
          /\ last + (m + 1) > last /\ m + 1 \in 0..(n - last)
      BY <1>1, <1>4
    <2>2. trace[last + m].after = trace[last].after
      BY <1>6
    <2>3. last + (m + 1) \notin changes
      <3> HIDE DEF changes
      <3> QED BY <1>1, <1>3, <1>4, <2>1
    <2>4. trace[last + (m + 1)].before = trace[last + (m + 1)].after
      BY <1>1, <2>1, <2>3
    <2>5. trace[last + (m + 1)].before = trace[last + m].after
      BY <1>1, <2>1 DEF RowExplained
    <2> QED BY <2>1, <2>2, <2>4, <2>5
  <1>7. n - last \in T
    <2>1. n - last \in Nat /\ n - last \in 0..(n - last)
      BY <1>1, <1>4
    <2> HIDE DEF T
    <2> QED BY <1>5, <1>6, <2>1, BoundedInduction
  <1>8. trace[n].after = trace[last].after
    <2>1. last + (n - last) = n
      BY <1>1, <1>4
    <2> QED BY <1>7, <2>1
  <1>9. row.proposed = trace[n].after
    BY <1>1, <1>2, <1>4 DEF RowExplained
  <1> HIDE DEF changes, n
  <1> QED BY <1>1, <1>2, <1>4, <1>8, <1>9

\* The rows of a request are explained and keep to the trace budget.
LEMMA RequestedRowsAreExplained ==
  ASSUME RequestOK, NEW unavailable, NEW rows, rows = RequestedRows(unavailable)
  PROVE  (\A i \in DOMAIN rows : RowExplained(rows[i])) /\ BytesOfRows(rows) <= MaxTrace
  <1> DEFINE sources == request.sources
             rules == request.rules
             plain == Rows(sources, rules, request.overrides)
             n == Len(sources)
             evaluated == EvaluatedInTurn(sources, rules, Values(sources, rules))
  <1>1. n \in Nat /\ DOMAIN sources = 1..n /\ sources \in Seq(Sources) /\ IdsDiffer(Range(sources))
    BY DEF RequestOK
  <1>2. rules \in Seq(Rules)
    <2>1. CASE rules = <<>>
      BY <2>1
    <2>2. CASE \E r \in Requests : rules = r.rules
      BY <2>2, RequestsAssumption DEF RequestsAssumption
    <2> QED BY <2>1, <2>2 DEF RequestOK
  <1> HIDE DEF sources, rules
  <1>3. ASSUME NEW k \in 1..n
        PROVE  sources[k].name \in Texts
    <2>1. sources[k] \in Sources
      BY <1>1
    <2> QED BY <2>1 DEF Sources, Texts
  <1>4. CASE Compiles(rules) /\ OverridesAreValid(sources, request.overrides)
    <2>1. rows = Marked(plain, sources, request.stale, unavailable)
      BY <1>4 DEF RequestedRows, sources, rules
    <2>2. plain = [i \in DOMAIN sources |-> Row(sources[i], evaluated[i], request.overrides)]
      BY DEF Rows
    <2> HIDE DEF plain
    <2>3. ASSUME NEW k \in 1..n, NEW i \in DOMAIN rules
          PROVE  Values(sources, rules)[i][sources[k].id] \in Nat \cup {NoValue}
      BY <1>1, <1>2, ValuesAreNumbers
    <2> DEFINE values == Values(sources, rules)
    <2>4. evaluated = EvaluatedInTurn(sources, rules, values)
      OBVIOUS
    <2>5. \A k \in 1..n : sources[k].name \in Texts /\ \A i \in DOMAIN rules : values[i][sources[k].id] \in Nat \cup {NoValue}
      BY <1>3, <2>3
    <2> HIDE DEF values, evaluated
    <2>6. ASSUME NEW i \in 1..n
          PROVE  /\ rows[i].trace = evaluated[i].trace
                 /\ rows[i].original = plain[i].original /\ rows[i].proposed = plain[i].proposed
                 /\ rows[i].truncated = plain[i].truncated /\ rows[i].overridden = plain[i].overridden
                 /\ plain[i].trace = evaluated[i].trace
                 /\ plain[i] = Row(sources[i], evaluated[i], request.overrides)
      <3>1. i \in DOMAIN plain /\ plain[i] = Row(sources[i], evaluated[i], request.overrides)
        BY <1>1, <2>2
      <3>2. plain[i].trace = evaluated[i].trace
        BY <3>1 DEF Row
      <3>3. {"id", "parent", "original", "proposed", "blocked", "trace", "truncated", "overridden"}
              \subseteq DOMAIN plain[i]
        BY <3>1, RowFields
      <3> QED BY <2>1, <3>1, <3>2, <3>3, MarkedRows
    <2>7. DOMAIN rows = 1..n /\ Len(rows) = n
      <3>1. DOMAIN plain = 1..n
        BY <1>1, <2>2
      <3>2. DOMAIN rows = 1..n
        BY <2>1, <3>1 DEF Marked
      <3>3. \E f : rows = [i \in 1..n |-> f[i]]
        BY <2>1, <3>1 DEF Marked
      <3> QED BY <1>1, <3>2, <3>3
    <2>8. /\ BytesOfRows(rows) <= MaxTrace
          /\ \A i \in 1..n : /\ evaluated[i] \in Evaluations
                             /\ \E budget \in Nat : Explained(evaluated[i], sources[i].name, budget)
      <3>1. \A i \in 1..n : rows[i].trace = EvaluatedInTurn(sources, rules, values)[i].trace
        BY <2>4, <2>6
      <3> QED BY <1>1, <1>2, <2>4, <2>5, <2>7, <3>1, TracesKeepToTheBudget
    <2>9. ASSUME NEW i \in 1..n
          PROVE  RowExplained(rows[i])
      <3>1. RowExplained(plain[i])
        BY <2>6, <2>8, RowIsExplained
      <3>2. rows[i].trace = plain[i].trace
        BY <2>6
      <3> QED BY <2>6, <3>1, <3>2 DEF RowExplained
    <2> QED BY <2>7, <2>8, <2>9
  <1>5. CASE ~(Compiles(rules) /\ OverridesAreValid(sources, request.overrides))
    <2>1. rows = InvalidRows(sources)
      BY <1>5 DEF RequestedRows, sources, rules
    <2>2. /\ DOMAIN rows = 1..n /\ Len(rows) = n
          /\ \A i \in 1..n : /\ rows[i].trace = <<>> /\ rows[i].proposed = rows[i].original
      BY <1>1, <2>1 DEF InvalidRows
    <2>3. ASSUME NEW i \in DOMAIN rows
          PROVE  RowExplained(rows[i])
      <3>1. rows[i].trace = <<>> /\ rows[i].proposed = rows[i].original
        BY <2>2
      <3>2. DOMAIN <<>> = {} /\ <<>> \in Seq(TraceSteps)
        BY EmptyTrace
      <3> QED BY <3>1, <3>2 DEF RowExplained
    <2> DEFINE f == RowsInTurn(rows)
    <2>4. f[0] = 0 /\ \A i \in 1..n : f[i] = f[i - 1] + BytesOfTrace(rows[i].trace)
      <3>1. \A i \in 1..Len(rows) : rows[i].trace \in Seq(TraceSteps)
        BY <2>2, EmptyTrace
      <3> HIDE DEF n
      <3>2. Len(rows) = n /\ n \in Nat
        BY <1>1, <2>2
      <3> QED BY <3>1, <3>2, RowBytesAreDefined
    <2> HIDE DEF f, n
    <2>5. \A i \in 1..n : BytesOfTrace(rows[i].trace) = 0
      BY <2>2, EmptyTrace
    <2> DEFINE S == {0}
    <2>6. f[0] \in S /\ \A i \in 1..n : f[i - 1] \in S => f[i] \in S
      BY <2>4, <2>5
    <2> HIDE DEF S
    <2>7. \A i \in 0..n : f[i] \in S
      BY <1>1, <2>6, StaysIn
    <2>8. f[n] = 0
      BY <1>1, <2>7 DEF S
    <2>9. BytesOfRows(rows) = 0
      BY <2>2, <2>8 DEF BytesOfRows, f
    <2>10. MaxTrace \in Nat
      BY BoundsAssumption DEF BoundsAssumption
    <2> QED BY <2>3, <2>9, <2>10
  <1> QED BY <1>4, <1>5

LEMMA BuildExplains == IInv /\ BuildPlan => TraceExplainsTheProposal'
  <1> SUFFICES ASSUME IInv, BuildPlan
               PROVE  TraceExplainsTheProposal'
    OBVIOUS
  <1>1. PICK unavailable : plan' = PlanOf(RequestedRows(unavailable))
    BY DEF BuildPlan
  <1> DEFINE rows == RequestedRows(unavailable)
             rules == request.rules
  <1>2. (\A i \in DOMAIN rows : RowExplained(rows[i])) /\ BytesOfRows(rows) <= MaxTrace
    BY RequestedRowsAreExplained DEF IInv
  <1>3. /\ plan'.rows = rows
        /\ \A i \in DOMAIN rows : plan'.changedBy[i] = LastChangedRule(rows[i], rules)
    BY <1>1 DEF PlanOf
  <1> HIDE DEF rows, rules
  <1>4. ASSUME NEW i \in DOMAIN rows
        PROVE  LET row == rows[i]
                   trace == row.trace
               IN /\ \A k \in DOMAIN trace :
                       trace[k].before = IF k = 1 THEN row.original ELSE trace[k - 1].after
                  /\ ~row.truncated /\ ~row.overridden =>
                       row.proposed = IF trace = <<>> THEN row.original ELSE trace[Len(trace)].after
                  /\ plan'.changedBy[i] # 0 =>
                       \E k \in DOMAIN trace : /\ trace[k].rule = plan'.changedBy[i]
                                                /\ trace[k].before # row.proposed
                                                /\ trace[k].after = row.proposed
    <2>1. RowExplained(rows[i]) /\ plan'.changedBy[i] = LastChangedRule(rows[i], rules)
      BY <1>2, <1>3
    <2>2. plan'.changedBy[i] # 0 =>
            \E k \in DOMAIN rows[i].trace : /\ rows[i].trace[k].rule = plan'.changedBy[i]
                                            /\ rows[i].trace[k].before # rows[i].proposed
                                            /\ rows[i].trace[k].after = rows[i].proposed
      BY <2>1, LastChangeIsExplained
    <2> QED BY <2>1, <2>2 DEF RowExplained
  <1> QED BY <1>2, <1>3, <1>4 DEF TraceExplainsTheProposal

-----------------------------------------------------------------------------
(***************************************************************************)
(* Freezing.                                                               *)
(***************************************************************************)
\* Names the target accepts are compared whole, as the file system does.
LEMMA DestinationIsFolded ==
  ASSUME NEW row, ~EndsInDotOrSpace(row.proposed)
  PROVE  Destination(row) = <<row.parent, Folded(row.proposed)>>
  BY DEF Destination, ComparisonKey, Trimmed, Folded

\* A source below another one is in a directory, and the source is that.
LEMMA EnclosingSourceHolds ==
  ASSUME IInv, NEW s \in Sources, NEW u \in Sources,
         StartsWith(u.parent, Path(s)),
         At(u.parent, u.name) # {}, At(s.parent, s.name) = {s.object}
  PROVE  Holds(s, u) /\ s # u
  <1> DEFINE k == Len(Path(s))
  <1>1. /\ Path(s) \in Seq(Seq(Characters)) /\ u.parent \in Seq(Seq(Characters))
        /\ Path(u) \in Seq(Seq(Characters)) /\ u.name \in Seq(Characters)
        /\ s.parent \in Seq(Seq(Characters)) /\ s.name \in Seq(Characters)
    BY SourcePaths DEF Sources
  <1>2. k \in Nat /\ k >= 1
    <2>1. Path(s) = Append(s.parent, s.name)
      BY DEF Path
    <2> QED BY <1>1, <2>1
  <1>3. k <= Len(u.parent) /\ \A i \in 1..k : Path(s)[i] = u.parent[i]
    BY <1>1, PrefixOfSeq DEF StartsWith
  <1>4. SubSeq(u.parent, 1, k) = Path(s)
    <2>1. /\ SubSeq(u.parent, 1, k) \in Seq(Seq(Characters)) /\ Len(SubSeq(u.parent, 1, k)) = k
          /\ \A i \in 1..k : SubSeq(u.parent, 1, k)[i] = u.parent[i]
      BY <1>1, <1>2, <1>3
    <2> QED BY <1>1, <1>3, <2>1, SeqEqual
  <1>5. PICK e \in tree : e.parent = u.parent
    BY DEF At
  <1>6. k \in 1..Len(e.parent)
    BY <1>1, <1>2, <1>3, <1>5
  <1>7. PICK g \in tree : Path(g) = SubSeq(e.parent, 1, k) /\ g.object \in Directories
    BY <1>6 DEF IInv, TreeOK, IsTree, DirectoriesEnclose
  <1>8. Path(g) = Path(s)
    BY <1>4, <1>5, <1>7
  <1>9. g.parent = s.parent /\ g.name = s.name
    <2>1. g \in Entries
      BY DEF IInv, TreeOK, IsTree
    <2> QED BY <1>1, <1>8, <2>1, EntryIsItsFields, PathsAreInjective
  <1>10. g.object \in At(s.parent, s.name)
    BY <1>9 DEF At
  <1>11. s.object \in Directories
    BY <1>7, <1>10
  <1>12. /\ Len(Path(u)) = Len(u.parent) + 1
         /\ \A i \in 1..Len(u.parent) : Path(u)[i] = u.parent[i]
    <2>1. \A p \in Seq(Seq(Characters)), m \in Seq(Characters) :
            Len(Append(p, m)) = Len(p) + 1 /\ \A i \in 1..Len(p) : Append(p, m)[i] = p[i]
      OBVIOUS
    <2> QED BY <1>1, <2>1, Zenon DEF Path
  <1>13. StartsWith(Path(u), Path(s))
    <2>1. Len(Path(s)) <= Len(Path(u))
      BY <1>1, <1>2, <1>3, <1>12
    <2>2. ASSUME NEW i \in 1..Len(Path(s))
          PROVE  Path(s)[i] = Path(u)[i]
      <3>1. i \in 1..Len(u.parent) /\ Path(s)[i] = u.parent[i]
        BY <1>1, <1>2, <1>3
      <3> QED BY <1>12, <3>1
    <2> QED BY <1>1, <2>1, <2>2, PrefixOfSeq DEF StartsWith
  <1>14. s # u
    <2>1. Len(Path(s)) < Len(Path(u))
      BY <1>1, <1>2, <1>3, <1>12
    <2> QED BY <1>1, <2>1
  <1> QED BY <1>11, <1>13, <1>14 DEF Holds

LEMMA FreezeKeeps == IInv /\ FreezeExecutionPlan => IInv'
  <1> SUFFICES ASSUME IInv, FreezeExecutionPlan
               PROVE  IInv'
    OBVIOUS
  <1>1. UNCHANGED <<tree, candidates, registry, nextSourceId, generation, cached, request, plan>>
    BY DEF FreezeExecutionPlan, registryVars
  <1>2. TreeOK' /\ CandidatesOK' /\ RegistryOK'
    BY <1>1 DEF IInv, TreeOK, CandidatesOK, RegistryOK, SourceIds
  <1>3. CachedOK' /\ RequestOK' /\ PlanOK'
    BY <1>1, SnapshotsStay DEF IInv
  <1> DEFINE rows == {r \in Range(plan.rows) : Changed(r)}
             planned(parent) == {registry[r.id].object : r \in {q \in rows : q.parent = parent}}
             Frozen(r) == [id |-> r.id, parent |-> r.parent, original |-> r.original,
                           temporary |-> AvailableTemporaryName(r), proposed |-> r.proposed,
                           object |-> registry[r.id].object]
             sources == RegisteredSources
  <1>4. /\ \A r \in rows : /\ SourceIsUnchanged(r) /\ DestinationIsFree(r, planned(r.parent))
                          /\ FreeAttempts(r) # {}
        /\ frozen' = {Frozen(r) : r \in rows}
    BY DEF FreezeExecutionPlan
  <1>5. RowsOf(plan.rows, sources) /\ RowsAreSafe(plan.rows, sources)
    BY DEF FreezeExecutionPlan, IInv, PlanOK
  <1>6. /\ sources \in Seq(Sources)
        /\ \A s \in Range(sources) :
             /\ s.id \in SourceIds /\ s.parent = registry[s.id].parent
             /\ s.name = registry[s.id].name /\ s.object = registry[s.id].object
        /\ \A i, j \in DOMAIN sources : sources[i].id = sources[j].id => i = j
    BY RegisteredSourcesAreTyped DEF IInv
  <1>7. ASSUME NEW r \in rows
        PROVE  \E i \in DOMAIN plan.rows : r = plan.rows[i]
    BY DEF Range
  <1> HIDE DEF rows, sources
  <1>8. ASSUME NEW r \in rows
        PROVE  \E s \in Range(sources) :
                 /\ s \in Sources /\ s.id = r.id /\ s.parent = r.parent /\ s.name = r.original
                 /\ s.object = registry[r.id].object /\ At(s.parent, s.name) = {s.object}
    <2>1. PICK i \in DOMAIN plan.rows : r = plan.rows[i]
      BY <1>7
    <2>2. /\ i \in DOMAIN sources
          /\ r.id = sources[i].id /\ r.parent = sources[i].parent /\ r.original = sources[i].name
      BY <1>5, <2>1 DEF RowsOf
    <2>3. sources[i] \in Range(sources) /\ sources[i] \in Sources
      BY <1>6, <2>2, RangeIsFinite DEF Range
    <2>4. At(r.parent, r.original) = {registry[r.id].object}
      BY <1>4 DEF SourceIsUnchanged
    <2> QED BY <1>6, <2>2, <2>3, <2>4
  <1>9. ASSUME NEW r \in rows, NEW q \in rows, r.parent = q.parent, Folded(r.proposed) = Folded(q.proposed)
        PROVE  r = q
    <2>1. PICK i \in DOMAIN plan.rows : r = plan.rows[i]
      BY <1>7
    <2>2. PICK j \in DOMAIN plan.rows : q = plan.rows[j]
      BY <1>7
    <2>3. ~EndsInDotOrSpace(r.proposed) /\ ~EndsInDotOrSpace(q.proposed)
      BY <1>5, <2>1, <2>2 DEF RowsAreSafe
    <2>4. Destination(r) = Destination(q)
      BY <1>9, <2>3, DestinationIsFolded
    <2>5. i = j
      BY <1>5, <2>1, <2>2, <2>4 DEF RowsAreSafe
    <2> QED BY <2>1, <2>2, <2>5
  <1>10. ASSUME NEW r \in rows, NEW e \in tree, e.parent = r.parent, Folded(e.name) = Folded(r.proposed)
         PROVE  \E q \in rows : q.parent = r.parent /\ registry[q.id].object = e.object
    <2>1. e.object \in At(r.parent, r.proposed)
      BY <1>10 DEF At
    <2>2. e.object \in planned(r.parent)
      BY <1>4, <2>1 DEF DestinationIsFree
    <2> QED BY <2>2
  <1>11. ASSUME NEW r \in rows, NEW q \in rows
         PROVE  ~StartsWith(q.parent, Append(r.parent, r.original))
    <2> SUFFICES ASSUME StartsWith(q.parent, Append(r.parent, r.original))
                 PROVE  FALSE
      OBVIOUS
    <2>1. PICK s \in Range(sources) :
            /\ s \in Sources /\ s.id = r.id /\ s.parent = r.parent /\ s.name = r.original
            /\ s.object = registry[r.id].object /\ At(s.parent, s.name) = {s.object}
      BY <1>8
    <2>2. PICK u \in Range(sources) :
            /\ u \in Sources /\ u.id = q.id /\ u.parent = q.parent /\ u.name = q.original
            /\ u.object = registry[q.id].object /\ At(u.parent, u.name) = {u.object}
      BY <1>8
    <2>3. StartsWith(u.parent, Path(s))
      BY <2>1, <2>2 DEF Path
    <2>4. Holds(s, u) /\ s # u
      BY <2>1, <2>2, <2>3, EnclosingSourceHolds
    <2>5. s \in InConflict(Range(sources))
      BY <2>4 DEF InConflict
    <2> QED BY <1>5, <2>5 DEF RowsAreSafe
  <1>12. ASSUME NEW r \in rows
         PROVE  /\ r.id \in 1..MaxSourceId
                /\ \E k \in FreeAttempts(r) : AvailableTemporaryName(r) = TemporaryNames[r.id][k]
    <2>1. r.id \in SourceIds /\ FreeAttempts(r) # {}
      BY <1>4 DEF SourceIsUnchanged
    <2>2. r.id \in 1..MaxSourceId
      BY <2>1, IdsAreBounded DEF IInv
    <2>3. FreeAttempts(r) \subseteq Nat
      <3>1. TemporaryNames[r.id] \in Seq(Seq(Characters))
        BY <2>2, TemporaryNamesAssumption DEF TemporaryNamesAssumption
      <3>2. DOMAIN TemporaryNames[r.id] \subseteq Nat
        BY <3>1
      <3> QED BY <3>2 DEF FreeAttempts
    <2>4. PICK k \in FreeAttempts(r) : \A j \in FreeAttempts(r) : k <= j
      BY <2>1, <2>3, SmallestExists
    <2> QED BY <2>2, <2>4 DEF AvailableTemporaryName
  <1>13. ASSUME NEW r \in rows
         PROVE  /\ At(r.parent, AvailableTemporaryName(r)) = {}
                /\ AvailableTemporaryName(r) \in Range(TemporaryNames[r.id])
    BY <1>12 DEF FreeAttempts, Range
  <1>14. ASSUME NEW r \in rows, NEW q \in rows,
                Folded(AvailableTemporaryName(r)) = Folded(AvailableTemporaryName(q))
         PROVE  r = q
    <2>1. r.id = q.id
      BY <1>12, <1>13, <1>14, TemporaryNamesAssumption DEF TemporaryNamesAssumption
    <2>2. PICK i \in DOMAIN plan.rows : r = plan.rows[i]
      BY <1>7
    <2>3. PICK j \in DOMAIN plan.rows : q = plan.rows[j]
      BY <1>7
    <2>4. i = j
      BY <1>5, <1>6, <2>1, <2>2, <2>3 DEF RowsOf
    <2> QED BY <2>2, <2>3, <2>4
  <1>15. FrozenNamesAreSafe'
    <2>1. /\ \A r \in frozen' : At(r.parent, r.original) = {r.object}
          /\ \A r, q \in frozen' : r.parent = q.parent /\ Folded(r.proposed) = Folded(q.proposed) => r = q
          /\ \A r \in frozen', e \in tree :
               e.parent = r.parent /\ Folded(e.name) = Folded(r.proposed) =>
                 \E q \in frozen' : q.parent = r.parent /\ q.object = e.object
          /\ \A r \in frozen' : At(r.parent, r.temporary) = {}
          /\ \A r, q \in frozen' : Folded(r.temporary) = Folded(q.temporary) => r = q
          /\ \A r, q \in frozen' : ~StartsWith(q.parent, Append(r.parent, r.original))
      <3>1. \A x \in frozen' : \E r \in rows : x = Frozen(r)
        BY <1>4
      <3>2. \A r \in rows : Frozen(r) \in frozen'
        BY <1>4
      <3>3. \A r \in rows : /\ Frozen(r).parent = r.parent /\ Frozen(r).original = r.original
                            /\ Frozen(r).proposed = r.proposed /\ Frozen(r).object = registry[r.id].object
                            /\ Frozen(r).temporary = AvailableTemporaryName(r)
        OBVIOUS
      <3> HIDE DEF Frozen
      <3>4. \A x \in frozen' : At(x.parent, x.original) = {x.object}
        <4> SUFFICES ASSUME NEW x \in frozen'
                     PROVE  At(x.parent, x.original) = {x.object}
          OBVIOUS
        <4>1. PICK r \in rows : x = Frozen(r)
          BY <3>1
        <4>2. At(r.parent, r.original) = {registry[r.id].object}
          BY <1>4 DEF SourceIsUnchanged
        <4> QED BY <3>3, <4>1, <4>2
      <3>5. \A x, y \in frozen' : x.parent = y.parent /\ Folded(x.proposed) = Folded(y.proposed) => x = y
        BY <1>9, <3>1, <3>3
      <3>6. ASSUME NEW x \in frozen', NEW e \in tree, e.parent = x.parent, Folded(e.name) = Folded(x.proposed)
            PROVE  \E y \in frozen' : y.parent = x.parent /\ y.object = e.object
        <4>1. PICK r \in rows : x = Frozen(r)
          BY <3>1
        <4>2. PICK q \in rows : q.parent = r.parent /\ registry[q.id].object = e.object
          BY <1>10, <3>3, <3>6, <4>1
        <4> QED BY <3>2, <3>3, <4>1, <4>2
      <3>7. \A x, y \in frozen' : ~StartsWith(y.parent, Append(x.parent, x.original))
        BY <1>11, <3>1, <3>3
      <3>8. \A x \in frozen' : At(x.parent, x.temporary) = {}
        BY <1>13, <3>1, <3>3
      <3>9. \A x, y \in frozen' : Folded(x.temporary) = Folded(y.temporary) => x = y
        BY <1>14, <3>1, <3>3
      <3> QED BY <3>4, <3>5, <3>6, <3>7, <3>8, <3>9
    <2> QED BY <1>1, <2>1 DEF FrozenNamesAreSafe, At
  <1> QED BY <1>2, <1>3, <1>15 DEF IInv

-----------------------------------------------------------------------------
(***************************************************************************)
(* Theorems.                                                               *)
(***************************************************************************)
\* The inductive invariant: the registry has a path once, and requests and
\* plans are of its sources as long as their generation is its (lib.rs:299).
THEOREM Invariant == Spec => []IInv
  <1>1. Init => IInv
    BY InitIsOK
  <1>2. IInv /\ [Next]_vars => IInv'
    <2> SUFFICES ASSUME IInv, [Next]_vars
                 PROVE  IInv'
      OBVIOUS
    <2>1. CASE UNCHANGED vars
      <3>1. UNCHANGED <<tree, candidates, registry, nextSourceId, generation, cached, request, plan, frozen>>
        BY <2>1 DEF vars, registryVars
      <3>2. TreeOK' /\ CandidatesOK' /\ RegistryOK'
        BY <3>1 DEF IInv, TreeOK, CandidatesOK, RegistryOK, SourceIds
      <3>3. CachedOK' /\ RequestOK' /\ PlanOK'
        BY <3>1, SnapshotsStay DEF IInv
      <3>4. FrozenNamesAreSafe'
        BY <3>1, FrozenStays DEF IInv
      <3> QED BY <3>2, <3>3, <3>4 DEF IInv
    <2> QED BY <2>1, NormalizeKeeps, AdmitKeeps, RemoveKeeps, SnapshotKeeps, CheckKeeps,
               BuildKeeps, FreezeKeeps, InterfereKeeps, Zenon DEF Next
  <1> QED BY <1>1, <1>2, PTL DEF Spec

\* What is frozen can be carried out as it was shown (executor.rs:689).
THEOREM FrozenPlansAreSafe == Spec => []FrozenNamesAreSafe
  <1>1. IInv => FrozenNamesAreSafe
    BY DEF IInv
  <1> QED BY <1>1, Invariant, PTL

\* The names of a frozen plan are as the executor needs them in each
\* directory, compared as the file system does: a source's own, but for one
\* file that is registered by two spellings of its name.  A final name that
\* meets a temporary one is not among them (executor.rs:749).
FrozenNamesFit ==
  frozen # None =>
    \A r, q \in frozen :
      r.parent = q.parent =>
        /\ Folded(r.temporary) # Folded(q.original)
        /\ r # q => /\ Folded(r.temporary) # Folded(q.temporary)
                    /\ Folded(r.proposed) # Folded(q.proposed)
        /\ r.object # q.object => Folded(r.original) # Folded(q.original)

\* What the executor is given fits: this is the assumption that the names of
\* a transaction are distinct in module RenameTransaction, but for the two cases
\* that FrozenNamesFit names.
THEOREM FrozenNamesAreFit == Spec => []FrozenNamesFit
  <1>1. FrozenNamesAreSafe => FrozenNamesFit
    <2> SUFFICES ASSUME FrozenNamesAreSafe, frozen # None,
                        NEW r \in frozen, NEW q \in frozen, r.parent = q.parent
                 PROVE  /\ Folded(r.temporary) # Folded(q.original)
                        /\ r # q => /\ Folded(r.temporary) # Folded(q.temporary)
                                    /\ Folded(r.proposed) # Folded(q.proposed)
                        /\ r.object # q.object => Folded(r.original) # Folded(q.original)
      BY DEF FrozenNamesFit
    <2>1. /\ At(r.parent, r.temporary) = {} /\ At(r.parent, r.original) = {r.object}
          /\ At(q.parent, q.original) = {q.object}
      BY DEF FrozenNamesAreSafe
    <2>2. \A m, n : Folded(m) = Folded(n) => At(r.parent, m) = At(r.parent, n)
      BY DEF At
    <2>3. Folded(r.temporary) # Folded(q.original)
      BY <2>1, <2>2
    <2>4. r.object # q.object => Folded(r.original) # Folded(q.original)
      BY <2>1, <2>2
    <2>5. r # q => /\ Folded(r.temporary) # Folded(q.temporary)
                  /\ Folded(r.proposed) # Folded(q.proposed)
      BY DEF FrozenNamesAreSafe
    <2> QED BY <2>3, <2>4, <2>5
  <1> QED BY <1>1, FrozenPlansAreSafe, PTL

\* No snapshot outlives a change of the registry (lib.rs:299).
THEOREM GenerationsNameTheRegistry == Spec => []GenerationNamesTheRegistry
  <1>1. IInv => GenerationNamesTheRegistry
    BY DEF IInv, CachedOK, RequestOK, GenerationNamesTheRegistry
  <1> QED BY <1>1, Invariant, PTL

\* The pass over the sorted paths misses no directory that holds another
\* source, and accuses none that does not (lib.rs:425).
THEOREM EveryAncestorIsFound == Spec => []AncestorsAreFound
  <1>1. IInv => AncestorsAreFound
    <2> SUFFICES ASSUME IInv
                 PROVE  AncestorsAreFound
      OBVIOUS
    <2>1. AncestorConflicts(request.sources) = InTheWay(Range(request.sources))
      BY ConflictsAreFound DEF IInv, RequestOK
    <2> QED BY <2>1 DEF AncestorsAreFound, InTheWay, InConflict, Holds
  <1> QED BY <1>1, Invariant, PTL

\* Numbers grow along their order and none wraps (planner.rs:390).
THEOREM EverySequenceGrows == Spec => []SequenceNumbersGrow
  <1>1. IInv => SequenceNumbersGrow
    <2> SUFFICES ASSUME IInv, NEW i \in DOMAIN request.rules, request.rules[i].kind = "sequence",
                        NEW s \in Range(request.sources)
                 PROVE  LET rule == request.rules[i]
                            values == AllocateSequence(request.sources, rule)
                            scope(r) == {t \in Range(request.sources) : rule.scope = "all" \/ t.parent = r.parent}
                            before(t, r) == IF rule.order = "name" /\ r.name # t.name THEN NameLess(t.name, r.name)
                                            ELSE t.id < r.id
                            exact == rule.start + rule.step * Cardinality({t \in scope(s) : before(t, s)})
                        IN values[s.id] = IF exact <= MaxNumber THEN exact ELSE NoValue
      BY DEF SequenceNumbersGrow
    <2> DEFINE rule == request.rules[i]
               S == Range(request.sources)
               before(t, r) == IF rule.order = "name" /\ r.name # t.name THEN NameLess(t.name, r.name)
                               ELSE t.id < r.id
               counted == {t \in {u \in S : rule.scope = "all" \/ u.parent = s.parent} : before(t, s)}
    <2>1. rule.start \in Nat /\ rule.step \in Nat /\ rule.order \in {"source", "name"}
      <3>1. request.rules # <<>>
        OBVIOUS
      <3>2. PICK r \in Requests : request.rules = r.rules
        BY <3>1 DEF IInv, RequestOK
      <3>3. rule \in Rules
        BY <3>2, RequestsAssumption DEF RequestsAssumption
      <3>4. rule.kind = "sequence"
        OBVIOUS
      <3> HIDE DEF rule
      <3> QED BY <3>3, <3>4 DEF Rules
    <2>2. counted = Predecessors(S, rule, s)
      <3>1. \A t \in S : before(t, s) <=> Earlier(rule.order, t, s)
        BY <2>1 DEF Earlier
      <3>2. \A t \in S : (rule.scope = "all" \/ t.parent = s.parent) <=> Counter(rule, t) = Counter(rule, s)
        BY DEF Counter
      <3> HIDE DEF rule, S, before
      <3> QED BY <3>1, <3>2 DEF Predecessors
    <2>3. /\ Cardinality(Predecessors(S, rule, s)) \in Nat
          /\ AllocateSequence(request.sources, rule)[s.id] =
               SequenceValue(rule, Cardinality(Predecessors(S, rule, s)))
      BY NumbersAreAllocated DEF IInv, RequestOK
    <2> HIDE DEF rule, S, counted
    <2>4. AllocateSequence(request.sources, rule)[s.id] =
            IF rule.start + rule.step * Cardinality(counted) <= MaxNumber
            THEN rule.start + rule.step * Cardinality(counted) ELSE NoValue
      BY <2>1, <2>2, <2>3, SequenceValueIsExact
    <2> QED BY <2>4 DEF rule, S, counted
  <1> QED BY <1>1, Invariant, PTL

\* The trace of a row leads from its original name to the one proposed, the
\* rule a name is put down to made it, and all traces together keep to the
\* budget of the plan (planner.rs:264, application lib.rs:2535).
THEOREM EveryTraceExplains == Spec => []TraceExplainsTheProposal
  <1>1. Init => TraceExplainsTheProposal
    BY DEF Init, TraceExplainsTheProposal
  <1>2. IInv /\ TraceExplainsTheProposal /\ [Next]_vars => TraceExplainsTheProposal'
    <2> SUFFICES ASSUME IInv, TraceExplainsTheProposal, [Next]_vars
                 PROVE  TraceExplainsTheProposal'
      OBVIOUS
    <2>1. CASE BuildPlan
      BY <2>1, BuildExplains
    <2>2. CASE plan' = plan
      BY <2>2 DEF TraceExplainsTheProposal
    <2>3. CASE plan' = None
      BY <2>3 DEF TraceExplainsTheProposal
    <2>4. UNCHANGED vars => plan' = plan
      BY DEF vars
    <2>5. PlanningSnapshot => plan' = None
      BY DEF PlanningSnapshot
    <2>6. NormalizePaths \/ AdmitCandidates \/ RemoveSources \/ CheckSources \/ FreezeExecutionPlan
            \/ Interfere => plan' = plan
      BY DEF NormalizePaths, AdmitCandidates, RemoveSources, CheckSources, FreezeExecutionPlan, Interfere
    <2> QED BY <2>1, <2>2, <2>3, <2>4, <2>5, <2>6, Zenon DEF Next
  <1> QED BY <1>1, <1>2, Invariant, PTL DEF Spec

\* A rule that compiles does to any text what a user relies on.
LEMMA RulesArePromising ==
  ASSUME NEW rule \in Rules, NEW name \in Texts, RuleCompiles(rule)
  PROVE  /\ rule.kind \in TextRules \ {"replace"} => ExtensionIsApart(rule, name)
         /\ rule.kind = "range"      => RangeDivides(rule, name)
         /\ rule.kind = "whitespace" => TextIsClean(rule, name)
         /\ rule.kind = "replace"    => ReplacementIsReversible(rule, name)
  <1>1. rule.kind \in TextRules \ {"replace"} => ExtensionIsApart(rule, name)
    BY PartRulesKeepTheOther
  <1>2. ASSUME rule.kind = "range"
        PROVE  RangeDivides(rule, name)
    <2>1. rule \in Ranges
      BY <1>2 DEF Rules, Ranges
    <2> QED BY <2>1, RangesDivide
  <1>3. ASSUME rule.kind = "replace"
        PROVE  ReplacementIsReversible(rule, name)
    <2> SUFFICES ASSUME Len(rule.replacement) = 1,
                        rule.replacement[1] \notin Range(name) \cup Range(rule.search)
                 PROVE  ReplaceLiteral(ReplaceLiteral(name, rule.search, rule.replacement),
                                       rule.replacement, rule.search) = name
      BY DEF ReplacementIsReversible
    <2>1. rule.search \in Texts /\ rule.replacement \in Texts
      BY <1>3 DEF Rules
    <2>2. rule.search # <<>>
      BY <1>3 DEF RuleCompiles
    <2> DEFINE search == rule.search
               replacement == rule.replacement
               c == replacement[1]
    <2>3. search \in Texts /\ replacement \in Texts /\ Len(replacement) = 1
      BY <2>1
    <2>4. search # <<>> /\ c \notin Range(name) \cup Range(search)
      BY <2>2
    <2> HIDE DEF search, replacement
    <2>5. c \in Characters /\ replacement = <<c>>
      BY <2>3 DEF Texts
    <2> HIDE DEF c
    <2>6. ReplaceLiteral(ReplaceLiteral(name, search, <<c>>), <<c>>, search) = name
      BY <2>3, <2>4, <2>5, ReplacementsAreReversible
    <2> QED BY <2>5, <2>6 DEF search, replacement
  <1> QED BY <1>1, <1>2, <1>3, CleanedTextIsClean

\* Whatever the names of the sources and the rules of a request are, a rule for
\* one part of a name leaves the other alone, a range divides the text, cleaning
\* loses nothing but white space, and a replacement that is nowhere else in the
\* text can be put back (rules.rs:522, 820, 843, 869).
THEOREM EveryRuleKeepsItsPromises == Spec => []RulesKeepTheirPromises
  <1>1. ASSUME IInv
        PROVE  RulesKeepTheirPromises
    <2> SUFFICES ASSUME NEW s \in Range(request.sources), NEW i \in DOMAIN request.rules,
                        RuleCompiles(request.rules[i])
                 PROVE  LET rule == request.rules[i]
                        IN /\ rule.kind \in TextRules \ {"replace"} => ExtensionIsApart(rule, s.name)
                           /\ rule.kind = "range"      => RangeDivides(rule, s.name)
                           /\ rule.kind = "whitespace" => TextIsClean(rule, s.name)
                           /\ rule.kind = "replace"    => ReplacementIsReversible(rule, s.name)
      BY Zenon DEF RulesKeepTheirPromises
    <2>1. request.rules \in Seq(Rules)
      <3>1. CASE request.rules = <<>>
        BY <3>1
      <3>2. CASE \E r \in Requests : request.rules = r.rules
        BY <3>2, RequestsAssumption DEF RequestsAssumption
      <3> QED BY <1>1, <3>1, <3>2 DEF IInv, RequestOK
    <2>2. request.rules[i] \in Rules
      BY <2>1
    <2>3. s.name \in Texts
      <3>1. s \in Sources
        BY <1>1 DEF IInv, RequestOK, Range
      <3> QED BY <3>1 DEF Sources, Texts
    <2> QED BY <2>2, <2>3, RulesArePromising
  <1> QED BY <1>1, Invariant, PTL

=================================================================================
