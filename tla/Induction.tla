------------------------------ MODULE Induction ------------------------------
(***************************************************************************)
(* Induction over data, as lemmas about sets: what holds of 0 and of n + 1  *)
(* whenever of n is a set that contains Nat.  From it, what the recursive   *)
(* definitions of the models need: a least element, positions in a strict   *)
(* order, and the functions that folds over sequences are made of.          *)
(***************************************************************************)
EXTENDS SequencesExt, Integers, FiniteSetTheorems, SequenceTheorems, TLAPS

(* Else n + 1 maps the members of S up to n, finitely many, one to one into  *)
(* those but 0, which are fewer.                                            *)
LEMMA NatSetInduction ==
  ASSUME NEW S, 0 \in S, \A n \in Nat : n \in S => n + 1 \in S
  PROVE  Nat \subseteq S
<1>1. SUFFICES ASSUME NEW n \in Nat, n \notin S PROVE FALSE
  OBVIOUS
<1> DEFINE A == {k \in 0 .. n : k \in S}
           B == A \ {0}
           f == [k \in A |-> k + 1]
<1>2. IsFiniteSet(0 .. n)
  BY FS_Interval
<1>3. A \in SUBSET (0 .. n) /\ 0 \in A
  OBVIOUS
<1>4. IsFiniteSet(A)
  BY <1>2, <1>3, FS_Subset
<1>5. IsFiniteSet(B) /\ Cardinality(B) = Cardinality(A) - 1
  BY <1>3, <1>4, FS_RemoveElement
<1>6. Cardinality(A) \in Nat
  BY <1>4, FS_CardinalityType
<1>7. \A k \in A : k + 1 \in B
  BY <1>1
<1>8. f \in [A -> B]
  BY <1>7
<1>9. \A x, y \in A : f[x] = f[y] => x = y
  OBVIOUS
<1>10. Cardinality(B) < Cardinality(A)
  BY <1>5, <1>6
<1> HIDE DEF A, B, f
<1>11. \E x, y \in A : x # y /\ f[x] = f[y]
  BY <1>4, <1>5, <1>8, <1>10, FS_PigeonHole
<1> QED
  BY <1>9, <1>11

LEMMA LeastNatural ==
  ASSUME NEW S \in SUBSET Nat, S # {}
  PROVE  \E m \in S : \A k \in S : m <= k
<1> SUFFICES ASSUME \A m \in S : \E k \in S : k < m PROVE FALSE
  OBVIOUS
<1> DEFINE Below == {n \in Nat : \A k \in 0 .. n : k \notin S}
<1>1. 0 \in Below
  OBVIOUS
<1>2. ASSUME NEW n \in Nat, n \in Below PROVE n + 1 \in Below
  <2>1. n + 1 \notin S
    BY <1>2
  <2> QED
    BY <1>2, <2>1
<1> HIDE DEF Below
<1>3. Nat \subseteq Below
  BY <1>1, <1>2, NatSetInduction
<1>4. PICK x \in S : TRUE
  OBVIOUS
<1>5. x \in Nat /\ x \in 0 .. x
  BY <1>4
<1> QED
  BY <1>3, <1>4, <1>5 DEF Below

-----------------------------------------------------------------------------
(***************************************************************************)
(* Positions in a strict total order of 1 .. n, given as a set of pairs:     *)
(* the number of those before it is a different one for each element, so    *)
(* the elements lie at the positions 1 .. n.                               *)
(***************************************************************************)
IsOrder(L, n) ==
  /\ \A i \in 1 .. n : <<i, i>> \notin L
  /\ \A i, j \in 1 .. n : i # j => <<i, j>> \in L \/ <<j, i>> \in L
  /\ \A i, j, k \in 1 .. n : <<i, j>> \in L /\ <<j, k>> \in L => <<i, k>> \in L

Ahead(L, n, i) == {j \in 1 .. n : <<j, i>> \in L}
Nth(L, n, k)   == CHOOSE i \in 1 .. n : Cardinality(Ahead(L, n, i)) = k - 1

LEMMA MoreAhead ==
  ASSUME NEW n \in Nat, NEW L, IsOrder(L, n), NEW i \in 1 .. n, NEW j \in 1 .. n,
         <<i, j>> \in L
  PROVE  /\ Cardinality(Ahead(L, n, i)) \in 0 .. n - 1
         /\ Cardinality(Ahead(L, n, i)) < Cardinality(Ahead(L, n, j))
<1>1. Ahead(L, n, i) \in SUBSET Ahead(L, n, j)
  BY DEF IsOrder, Ahead
<1>2. i \in Ahead(L, n, j) /\ i \notin Ahead(L, n, i)
  BY DEF IsOrder, Ahead
<1>3. IsFiniteSet(1 .. n) /\ Cardinality(1 .. n) = n
  BY FS_Interval
<1>4. IsFiniteSet(Ahead(L, n, j)) /\ IsFiniteSet(Ahead(L, n, i)) /\ Cardinality(Ahead(L, n, j)) <= n
  BY <1>3, FS_Subset DEF Ahead
<1>5. Cardinality(Ahead(L, n, j)) \in Nat /\ Cardinality(Ahead(L, n, i)) \in Nat
  BY <1>4, FS_CardinalityType
<1>6. Cardinality(Ahead(L, n, i)) <= Cardinality(Ahead(L, n, j))
  BY <1>1, <1>4, FS_Subset
<1>7. Cardinality(Ahead(L, n, i)) # Cardinality(Ahead(L, n, j))
  BY <1>1, <1>2, <1>4, FS_Subset
<1> QED
  BY <1>4, <1>5, <1>6, <1>7

LEMMA AheadBounds ==
  ASSUME NEW n \in Nat, NEW L, IsOrder(L, n), NEW i \in 1 .. n
  PROVE  Cardinality(Ahead(L, n, i)) \in 0 .. n - 1
<1> DEFINE A == Ahead(L, n, i)
           B == (1 .. n) \ {i}
<1>1. IsFiniteSet(1 .. n) /\ Cardinality(1 .. n) = n
  BY FS_Interval
<1>2. IsFiniteSet(B) /\ Cardinality(B) = n - 1
  BY <1>1, FS_RemoveElement
<1>3. A \in SUBSET B
  BY DEF IsOrder, Ahead
<1> HIDE DEF A, B
<1>4. IsFiniteSet(A) /\ Cardinality(A) <= n - 1
  BY <1>2, <1>3, FS_Subset
<1>5. Cardinality(A) \in Nat
  BY <1>4, FS_CardinalityType
<1> QED
  BY <1>4, <1>5 DEF A

(* Each position is taken by one element, and earlier positions by earlier   *)
(* elements.                                                                *)
LEMMA Positions ==
  ASSUME NEW n \in Nat, NEW L, IsOrder(L, n)
  PROVE  /\ \A k \in 1 .. n : /\ Nth(L, n, k) \in 1 .. n
                              /\ Cardinality(Ahead(L, n, Nth(L, n, k))) = k - 1
         /\ \A k, m \in 1 .. n : k < m => <<Nth(L, n, k), Nth(L, n, m)>> \in L
         /\ \A i \in 1 .. n : \E k \in 1 .. n : Nth(L, n, k) = i
         /\ \A i \in 1 .. n, k \in 1 .. n :
              Cardinality(Ahead(L, n, i)) = k - 1 => Nth(L, n, k) = i
<1> DEFINE C(i) == Cardinality(Ahead(L, n, i))
           rank == [i \in 1 .. n |-> C(i) + 1]
<1>1. \A i \in 1 .. n : C(i) \in 0 .. n - 1
  BY AheadBounds
<1>2. \A i, j \in 1 .. n : <<i, j>> \in L => C(i) < C(j)
  BY MoreAhead
<1> HIDE DEF C
<1>3. ASSUME NEW i \in 1 .. n, NEW j \in 1 .. n, C(i) = C(j) PROVE i = j
  <2>1. ~ (C(i) < C(j)) /\ ~ (C(j) < C(i))
    BY <1>1, <1>3
  <2> QED
    BY <1>2, <2>1 DEF IsOrder
<1>4. rank \in Injection(1 .. n, 1 .. n)
  BY <1>1, <1>3 DEF Injection, IsInjective
<1>5. IsFiniteSet(1 .. n)
  BY FS_Interval
<1> HIDE DEF rank
<1>6. rank \in Surjection(1 .. n, 1 .. n)
  BY <1>4, <1>5, FS_Injection
<1>7. \A k \in 1 .. n : \E i \in 1 .. n : rank[i] = k
  BY <1>6 DEF Surjection
<1>8. ASSUME NEW k \in 1 .. n PROVE \E i \in 1 .. n : C(i) = k - 1
  <2>1. PICK i \in 1 .. n : rank[i] = k
    BY <1>7
  <2>2. C(i) + 1 = k /\ C(i) \in 0 .. n - 1
    BY <1>1, <2>1 DEF rank
  <2> QED
    BY <2>2
<1>9. ASSUME NEW k \in 1 .. n PROVE Nth(L, n, k) \in 1 .. n /\ C(Nth(L, n, k)) = k - 1
  BY <1>8 DEF Nth, C
<1>10. ASSUME NEW i \in 1 .. n, NEW k \in 1 .. n, C(i) = k - 1 PROVE Nth(L, n, k) = i
  BY <1>3, <1>9, <1>10
<1>11. ASSUME NEW i \in 1 .. n PROVE \E k \in 1 .. n : Nth(L, n, k) = i
  <2>1. C(i) + 1 \in 1 .. n /\ C(i) = (C(i) + 1) - 1
    BY <1>1
  <2> QED
    BY <1>10, <2>1
<1>12. ASSUME NEW k \in 1 .. n, NEW m \in 1 .. n, k < m
       PROVE  <<Nth(L, n, k), Nth(L, n, m)>> \in L
  <2> DEFINE a == Nth(L, n, k)
             b == Nth(L, n, m)
  <2>1. a \in 1 .. n /\ b \in 1 .. n /\ C(a) = k - 1 /\ C(b) = m - 1
    BY <1>9
  <2> HIDE DEF a, b
  <2>2. a # b /\ <<b, a>> \notin L
    BY <1>2, <1>12, <2>1
  <2>3. <<a, b>> \in L
    BY <2>1, <2>2 DEF IsOrder
  <2> QED
    BY <2>3 DEF a, b
<1> QED
  BY <1>9, <1>10, <1>11, <1>12 DEF C

(* A strict weak order, with its ties decided by position.                  *)
WeakOrder(B, n) ==
  /\ \A i, j \in 1 .. n : <<i, j>> \in B => <<j, i>> \notin B
  /\ \A i, j, k \in 1 .. n : <<i, j>> \in B => <<i, k>> \in B \/ <<k, j>> \in B

Tied(B, n) == {p \in (1 .. n) \X (1 .. n) :
                 p \in B \/ (<<p[2], p[1]>> \notin B /\ p[1] < p[2])}

LEMMA TiedIsOrder ==
  ASSUME NEW n \in Nat, NEW B, WeakOrder(B, n)
  PROVE  IsOrder(Tied(B, n), n)
<1>1. \A i, j \in 1 .. n : <<i, j>> \in Tied(B, n) <=>
                            <<i, j>> \in B \/ (<<j, i>> \notin B /\ i < j)
  BY DEF Tied
<1> HIDE DEF Tied
<1>2. ASSUME NEW i \in 1 .. n, NEW j \in 1 .. n, i # j
      PROVE  <<i, j>> \in Tied(B, n) <=> <<j, i>> \notin Tied(B, n)
  <2>1. i < j \/ j < i
    BY <1>2
  <2>2. ~ (i < j /\ j < i)
    BY <1>2
  <2>3. <<i, j>> \in B => <<j, i>> \notin B
    BY DEF WeakOrder
  <2>4. <<j, i>> \in B => <<i, j>> \notin B
    BY DEF WeakOrder
  <2> QED
    BY <1>1, <2>1, <2>2, <2>3, <2>4
<1>3. ASSUME NEW i \in 1 .. n PROVE <<i, i>> \notin Tied(B, n)
  <2>1. <<i, i>> \notin B
    BY DEF WeakOrder
  <2>2. ~ (i < i)
    OBVIOUS
  <2> QED
    BY <1>1, <2>1, <2>2
<1>4. ASSUME NEW i \in 1 .. n, NEW j \in 1 .. n, NEW k \in 1 .. n,
             <<i, j>> \in Tied(B, n), <<j, k>> \in Tied(B, n)
      PROVE  <<i, k>> \in Tied(B, n)
  <2>1. CASE <<i, j>> \in B
    <3>1. <<i, k>> \in B \/ <<k, j>> \in B
      BY <2>1 DEF WeakOrder
    <3>2. <<k, j>> \notin B
      <4>1. <<j, k>> \in B => <<k, j>> \notin B
        BY DEF WeakOrder
      <4> QED
        BY <1>1, <1>4, <4>1
    <3> QED
      BY <1>1, <3>1, <3>2
  <2>2. CASE <<j, i>> \notin B /\ i < j /\ <<j, k>> \in B
    <3>1. <<j, i>> \in B \/ <<i, k>> \in B
      BY <2>2 DEF WeakOrder
    <3> QED
      BY <1>1, <2>2, <3>1
  <2>3. CASE <<j, i>> \notin B /\ i < j /\ <<k, j>> \notin B /\ j < k
    <3>1. <<k, i>> \in B => <<k, j>> \in B \/ <<j, i>> \in B
      BY DEF WeakOrder
    <3>2. i < k
      BY <2>3
    <3> QED
      BY <1>1, <2>3, <3>1, <3>2
  <2> QED
    BY <1>1, <1>4, <2>1, <2>2, <2>3
<1> QED
  BY <1>2, <1>3, <1>4 DEF IsOrder

(* The sequence s, arranged in that order.                                  *)
Arranges(s, t, B) == /\ Len(t) = Len(s)
                     /\ \A k \in 1 .. Len(s) : t[k] = s[Nth(Tied(B, Len(s)), Len(s), k)]

Distinct(s) == \A j, k \in 1 .. Len(s) : s[j] = s[k] => j = k
Rearranged(s, t) == /\ Len(t) = Len(s)
                    /\ ToSet(t) = ToSet(s)
                    /\ Distinct(s) => Distinct(t)

LEMMA ArrangedFacts ==
  ASSUME NEW D, NEW s \in Seq(D), NEW t \in Seq(D), NEW B, WeakOrder(B, Len(s)), Arranges(s, t, B)
  PROVE  /\ Rearranged(s, t)
         /\ \A j, k \in 1 .. Len(t) : j < k =>
              \E a, b \in 1 .. Len(s) : t[j] = s[a] /\ t[k] = s[b] /\ <<b, a>> \notin B
<1> DEFINE n == Len(s)
           L == Tied(B, n)
           p(k) == Nth(L, n, k)
<1>1. n \in Nat /\ IsOrder(L, n)
  BY TiedIsOrder
<1> HIDE DEF L
<1>2. /\ \A k \in 1 .. n : p(k) \in 1 .. n /\ Cardinality(Ahead(L, n, p(k))) = k - 1
      /\ \A k, m \in 1 .. n : k < m => <<p(k), p(m)>> \in L
      /\ \A i \in 1 .. n : \E k \in 1 .. n : p(k) = i
  BY <1>1, Positions
<1>3. Len(t) = n /\ \A k \in 1 .. n : t[k] = s[p(k)]
  BY DEF Arranges, L
<1> HIDE DEF n, p
<1>4. ToSet(t) = {t[k] : k \in 1 .. n} /\ ToSet(s) = {s[k] : k \in 1 .. n}
  BY <1>3 DEF ToSet, n
<1>5. ToSet(t) = ToSet(s)
  <2>1. ASSUME NEW k \in 1 .. n PROVE \E i \in 1 .. n : t[k] = s[i]
    BY <1>2, <1>3
  <2>2. ASSUME NEW i \in 1 .. n PROVE \E k \in 1 .. n : t[k] = s[i]
    <3>1. PICK k \in 1 .. n : p(k) = i
      BY <1>2
    <3> QED
      BY <1>3, <3>1
  <2> QED
    BY <1>4, <2>1, <2>2
<1>6. \A j, k \in 1 .. n : p(j) = p(k) => j = k
  <2>1. ASSUME NEW j \in 1 .. n, NEW k \in 1 .. n, p(j) = p(k) PROVE j = k
    <3>1. j - 1 = k - 1
      BY <1>2, <2>1
    <3> QED
      BY <1>1, <3>1
  <2> QED
    BY <2>1
<1>7. ASSUME NEW j \in 1 .. n, NEW k \in 1 .. n, j < k
      PROVE  \E a, b \in 1 .. n : t[j] = s[a] /\ t[k] = s[b] /\ <<b, a>> \notin B
  <2>1. <<p(j), p(k)>> \in L /\ p(j) \in 1 .. n /\ p(k) \in 1 .. n
    BY <1>2, <1>7
  <2>2. <<p(k), p(j)>> \notin B
    BY <2>1 DEF L, Tied, WeakOrder, n
  <2> QED
    BY <1>3, <2>1, <2>2
<1>8. ASSUME \A j, k \in 1 .. n : s[j] = s[k] => j = k,
             NEW j \in 1 .. n, NEW k \in 1 .. n, t[j] = t[k]
      PROVE  j = k
  <2>1. p(j) \in 1 .. n /\ p(k) \in 1 .. n /\ s[p(j)] = s[p(k)]
    BY <1>2, <1>3, <1>8
  <2> QED
    BY <1>6, <1>8, <2>1
<1>9. Len(t) = Len(s)
  BY <1>3 DEF n
<1>10. Rearranged(s, t)
  BY <1>5, <1>8, <1>9 DEF n, Rearranged, Distinct
<1> QED
  BY <1>7, <1>9, <1>10 DEF n

-----------------------------------------------------------------------------
(***************************************************************************)
(* FoldLeft folds the elements of a set of positions, the last one last.     *)
(* Here the step is given as a function on what has been folded so far and   *)
(* a position.                                                              *)
(***************************************************************************)
Folds(it, base, g, n) ==
  it = [S \in SUBSET (1 .. n) |->
          IF S = {} THEN base ELSE g[<<it[S \ {Max(S)}], Max(S)>>]]

LEMMA LastIsMax ==
  ASSUME NEW n \in Nat, NEW S \in SUBSET (1 .. n + 1), n + 1 \in S
  PROVE  Max(S) = n + 1
<1>1. \A y \in S : n + 1 >= y
  OBVIOUS
<1>2. \A x \in S : (\A y \in S : x >= y) => x = n + 1
  OBVIOUS
<1>3. Max(S) \in S /\ \A y \in S : Max(S) >= y
  BY <1>1 DEF Max
<1> QED
  BY <1>2, <1>3

LEMMA MaxIsMember ==
  ASSUME NEW n \in Nat, NEW S \in SUBSET (1 .. n), S # {}
  PROVE  Max(S) \in S /\ \A k \in S : k <= Max(S)
<1> DEFINE T == {n - k : k \in S}
<1>1. T \in SUBSET Nat /\ T # {}
  <2>1. \A k \in S : n - k \in Nat
    OBVIOUS
  <2>2. PICK k \in S : TRUE
    OBVIOUS
  <2>3. n - k \in T
    BY <2>2
  <2> QED
    BY <2>1, <2>3
<1> HIDE DEF T
<1>2. PICK m \in T : \A k \in T : m <= k
  BY <1>1, LeastNatural
<1>3. PICK x \in S : m = n - x
  BY <1>2 DEF T
<1>4. ASSUME NEW y \in S PROVE x >= y
  <2>1. n - y \in T
    BY DEF T
  <2>2. n - x <= n - y
    BY <1>2, <1>3, <2>1
  <2>3. x \in Nat /\ y \in Nat
    OBVIOUS
  <2> QED
    BY <2>2, <2>3
<1> QED
  BY <1>3, <1>4 DEF Max

LEMMA FoldExists ==
  ASSUME NEW A, NEW base \in A, NEW n \in Nat, NEW g \in [A \X (1 .. n) -> A]
  PROVE  \E it \in [SUBSET (1 .. n) -> A] : Folds(it, base, g, n)
<1> DEFINE Can(m) == \E it \in [SUBSET (1 .. m) -> A] : Folds(it, base, g, m)
           Good == {m \in Nat : m <= n => Can(m)}
<1> HIDE DEF Can
<1>1. 0 \in Good
  <2> DEFINE it == [S \in SUBSET (1 .. 0) |-> base]
  <2>1. \A S \in SUBSET (1 .. 0) : S = {}
    OBVIOUS
  <2>2. it \in [SUBSET (1 .. 0) -> A]
    OBVIOUS
  <2>3. Folds(it, base, g, 0)
    BY <2>1 DEF Folds
  <2>4. Can(0)
    BY <2>2, <2>3 DEF Can
  <2> QED
    BY <2>4
<1>2. ASSUME NEW m \in Nat, m \in Good PROVE m + 1 \in Good
  <2> SUFFICES ASSUME m + 1 <= n PROVE Can(m + 1)
    OBVIOUS
  <2>0. Can(m)
    BY <1>2
  <2>1. PICK it \in [SUBSET (1 .. m) -> A] : Folds(it, base, g, m)
    BY <2>0 DEF Can
  <2> DEFINE next == [S \in SUBSET (1 .. m + 1) |->
                        IF m + 1 \in S THEN g[<<it[S \ {m + 1}], m + 1>>] ELSE it[S]]
  <2>2. \A S \in SUBSET (1 .. m + 1) : S \ {m + 1} \in SUBSET (1 .. m)
    OBVIOUS
  <2>3. \A S \in SUBSET (1 .. m + 1) : m + 1 \notin S => S \in SUBSET (1 .. m)
    OBVIOUS
  <2>4. next \in [SUBSET (1 .. m + 1) -> A]
    BY <2>2, <2>3
  <2>5. ASSUME NEW S \in SUBSET (1 .. m + 1)
        PROVE  next[S] = IF S = {} THEN base ELSE g[<<next[S \ {Max(S)}], Max(S)>>]
    <3>1. CASE m + 1 \in S
      <4>1. Max(S) = m + 1
        BY <3>1, LastIsMax
      <4>2. next[S] = g[<<it[S \ {m + 1}], m + 1>>] /\ next[S \ {m + 1}] = it[S \ {m + 1}]
        BY <3>1, <2>2
      <4> QED
        BY <3>1, <4>1, <4>2
    <3>2. CASE m + 1 \notin S
      <4>1. S \in SUBSET (1 .. m) /\ next[S] = it[S]
        BY <3>2, <2>3
      <4>2. it[S] = IF S = {} THEN base ELSE g[<<it[S \ {Max(S)}], Max(S)>>]
        BY <2>1, <4>1 DEF Folds
      <4> DEFINE T == S \ {Max(S)}
      <4>3. T \in SUBSET (1 .. m) /\ T \in SUBSET (1 .. m + 1) /\ m + 1 \notin T
        BY <4>1, <3>2
      <4>4. next[T] = it[T]
        BY <4>3
      <4> HIDE DEF next
      <4> QED
        BY <4>1, <4>2, <4>4
    <3> QED
      BY <3>1, <3>2
  <2>6. Folds(next, base, g, m + 1)
    <3>1. next = [S \in SUBSET (1 .. m + 1) |-> next[S]]
      OBVIOUS
    <3> HIDE DEF next
    <3> QED
      BY <2>5, <3>1 DEF Folds
  <2> QED
    BY <2>4, <2>6 DEF Can
<1> HIDE DEF Good
<1>3. Nat \subseteq Good
  BY <1>1, <1>2, NatSetInduction
<1>4. n \in Good
  BY <1>3
<1>5. Can(n)
  BY <1>4 DEF Good
<1> QED
  BY <1>5 DEF Can

-----------------------------------------------------------------------------
(* An order given by ranks: what Sortings makes of a sequence.               *)
Ranks(B, n)     == [i \in 1 .. n |-> Cardinality(Ahead(Tied(B, n), n, i)) + 1]
ByRank(s, rank) == [k \in 1 .. Len(s) |-> s[CHOOSE i \in DOMAIN s : rank[i] = k]]

LEMMA RanksAre ==
  ASSUME NEW n \in Nat, NEW B, WeakOrder(B, n)
  PROVE  Ranks(B, n) \in [1 .. n -> Int]
<1>1. IsOrder(Tied(B, n), n)
  BY TiedIsOrder
<1>2. \A i \in 1 .. n : Cardinality(Ahead(Tied(B, n), n, i)) \in 0 .. n - 1
  BY <1>1, AheadBounds
<1> QED
  BY <1>2 DEF Ranks

LEMMA ArrangedBy ==
  ASSUME NEW D, NEW s \in Seq(D), NEW B, WeakOrder(B, Len(s))
  PROVE  LET t == ByRank(s, Ranks(B, Len(s))) IN t \in Seq(D) /\ Arranges(s, t, B)
<1> DEFINE n == Len(s)
           place == Ranks(B, Len(s))
           t == ByRank(s, place)
           L == Tied(B, n)
           C(i) == Cardinality(Ahead(L, n, i))
           p(k) == Nth(L, n, k)
<1>1. n \in Nat /\ IsOrder(L, n) /\ DOMAIN s = 1 .. n
  BY TiedIsOrder
<1> HIDE DEF L
<1>2. /\ \A k \in 1 .. n : p(k) \in 1 .. n /\ C(p(k)) = k - 1
      /\ \A i \in 1 .. n, k \in 1 .. n : C(i) = k - 1 => p(k) = i
  BY <1>1, Positions
<1>3. \A i \in 1 .. n : C(i) \in 0 .. n - 1
  BY <1>1, AheadBounds
<1>4. \A i \in 1 .. n : place[i] = C(i) + 1
  BY DEF L, Ranks
<1> HIDE DEF p, C, place
<1>5. ASSUME NEW k \in 1 .. n PROVE (CHOOSE i \in DOMAIN s : place[i] = k) = p(k)
  <2> DEFINE j == CHOOSE i \in 1 .. n : place[i] = k
  <2>1. place[p(k)] = k /\ p(k) \in 1 .. n
    BY <1>2, <1>4
  <2>2. j \in 1 .. n /\ place[j] = k
    BY <2>1
  <2> HIDE DEF j
  <2>3. C(j) + 1 = k /\ C(j) \in 0 .. n - 1 /\ k \in Int
    BY <1>3, <1>4, <2>2
  <2>3a. C(j) = k - 1
    BY <1>1, <2>3
  <2>4. p(k) = j
    BY <1>2, <2>2, <2>3a
  <2> QED
    BY <1>1, <2>4 DEF j
<1>6. \A k \in 1 .. n : t[k] = s[p(k)]
  BY <1>5 DEF ByRank
<1>7. t \in [1 .. n -> D]
  <2>1. \A k \in 1 .. n : s[p(k)] \in D
    BY <1>1, <1>2
  <2>2. t = [k \in 1 .. n |-> t[k]]
    BY DEF ByRank
  <2> QED
    BY <1>6, <2>1, <2>2
<1> HIDE DEF n
<1>8. t \in Seq(D) /\ Len(t) = n
  <2>1. ASSUME NEW x, x \in [1 .. n -> D] PROVE x \in Seq(D) /\ Len(x) = n
    BY <1>1, <2>1
  <2> QED
    BY <1>7, <2>1
<1> QED
  BY <1>6, <1>8 DEF Arranges, p, L, n, place

(* Each prefix of a fold.                                                    *)
LEMMA FoldStep ==
  ASSUME NEW n \in Nat, NEW base, NEW g, NEW it, Folds(it, base, g, n)
  PROVE  /\ it[1 .. 0] = base
         /\ \A k \in 0 .. n - 1 : it[1 .. k + 1] = g[<<it[1 .. k], k + 1>>]
<1>1. it[1 .. 0] = base
  <2>1. 1 .. 0 = {} /\ 1 .. 0 \in SUBSET (1 .. n)
    OBVIOUS
  <2> QED
    BY <2>1 DEF Folds
<1>2. ASSUME NEW k \in 0 .. n - 1 PROVE it[1 .. k + 1] = g[<<it[1 .. k], k + 1>>]
  <2>1. 1 .. k + 1 \in SUBSET (1 .. n) /\ k + 1 \in 1 .. k + 1 /\ k \in Nat
    OBVIOUS
  <2>2. Max(1 .. k + 1) = k + 1
    BY <2>1, LastIsMax
  <2>3. (1 .. k + 1) \ {k + 1} = 1 .. k
    OBVIOUS
  <2>4. 1 .. k + 1 # {}
    BY <2>1
  <2> QED
    BY <2>1, <2>2, <2>3, <2>4 DEF Folds
<1> QED
  BY <1>1, <1>2

(* What neither comes before the other is the same: where elements lie in    *)
(* the order, the same ones are neighbours.                                 *)
Alike(Q, n) ==
  /\ \A i \in 1 .. n : <<i, i>> \in Q
  /\ \A i, j \in 1 .. n : <<i, j>> \in Q => <<j, i>> \in Q
  /\ \A i, j, k \in 1 .. n : <<i, j>> \in Q /\ <<j, k>> \in Q => <<i, k>> \in Q
  /\ \A i, j, k \in 1 .. n : i < j /\ j < k /\ <<i, k>> \in Q => <<i, j>> \in Q

LEMMA InOrderAlike ==
  ASSUME NEW n \in Nat, NEW B, WeakOrder(B, n), NEW Q,
         \A i, j \in 1 .. n : <<i, j>> \in Q <=> <<i, j>> \notin B /\ <<j, i>> \notin B,
         \A j, k \in 1 .. n : j < k => <<k, j>> \notin B
  PROVE  Alike(Q, n)
<1>1. ASSUME NEW i \in 1 .. n PROVE <<i, i>> \in Q
  BY DEF WeakOrder
<1>2. ASSUME NEW i \in 1 .. n, NEW j \in 1 .. n, NEW k \in 1 .. n,
             <<i, j>> \in Q, <<j, k>> \in Q
      PROVE  <<i, k>> \in Q
  BY <1>2 DEF WeakOrder
<1>3. ASSUME NEW i \in 1 .. n, NEW j \in 1 .. n, NEW k \in 1 .. n,
             i < j, j < k, <<i, k>> \in Q
      PROVE  <<i, j>> \in Q
  BY <1>3 DEF WeakOrder
<1> QED
  BY <1>1, <1>2, <1>3 DEF Alike

(* Rows <<element, count>> for runs of the same elements.                    *)
Counting(D) == Seq(D \X (Nat \ {0}))
AddTo(s, Q, rows, k) ==
  IF k > 1 /\ <<k - 1, k>> \in Q THEN [rows EXCEPT ![Len(rows)][2] = @ + 1]
                                 ELSE Append(rows, <<s[k], 1>>)

(* The rows count the first k elements: of tells the row that counts each.   *)
Counts(s, Q, k, rows, of) ==
  /\ of \in [1 .. k -> 1 .. Len(rows)]
  /\ k > 0 => of[k] = Len(rows)
  /\ \A i, j \in 1 .. k : of[i] = of[j] <=> <<i, j>> \in Q
  /\ \A a \in 1 .. Len(rows) :
       /\ \E j \in 1 .. k : of[j] = a /\ rows[a][1] = s[j]
       /\ rows[a][2] = Cardinality({j \in 1 .. k : of[j] = a})

LEMMA RowGrows ==
  ASSUME NEW D, NEW s \in Seq(D), NEW Q, Alike(Q, Len(s)), NEW k \in 0 .. Len(s) - 1,
         NEW rows \in Counting(D), NEW of, Counts(s, Q, k, rows, of),
         k + 1 > 1 /\ <<k, k + 1>> \in Q
  PROVE  /\ [rows EXCEPT ![Len(rows)][2] = @ + 1] \in Counting(D)
         /\ \E up : Counts(s, Q, k + 1, [rows EXCEPT ![Len(rows)][2] = @ + 1], up)
<1> DEFINE m == Len(rows)
           r2 == [rows EXCEPT ![m][2] = @ + 1]
           up == [j \in 1 .. k + 1 |-> IF j = k + 1 THEN m ELSE of[j]]
           Q1(i, j) == <<i, j>> \in Q
<1>1. k \in Nat /\ k > 0 /\ k \in 1 .. k /\ m \in Nat /\ of[k] = m /\ of[k] \in 1 .. m
  BY DEF Counts, Counting
<1>2. m \in 1 .. m /\ rows[m] \in D \X (Nat \ {0})
  BY <1>1 DEF Counting
<1>3. r2 \in Counting(D) /\ Len(r2) = m
  <2> DEFINE v == [rows[m] EXCEPT ![2] = @ + 1]
  <2>1. v \in D \X (Nat \ {0})
    BY <1>2
  <2>2. r2 = [rows EXCEPT ![m] = v]
    OBVIOUS
  <2> HIDE DEF v, r2
  <2> QED
    BY <1>2, <2>1, <2>2, ExceptSeq DEF Counting
<1>4. /\ r2[m][1] = rows[m][1] /\ r2[m][2] = rows[m][2] + 1
      /\ \A a \in 1 .. m : a # m => r2[a] = rows[a]
  <2>1. \A a \in 1 .. m : r2[a] = IF a = m THEN [rows[m] EXCEPT ![2] = @ + 1] ELSE rows[a]
    BY <1>2 DEF Counting
  <2>2. PICK d \in D, c \in Nat : rows[m] = <<d, c>>
    BY <1>2
  <2> QED
    BY <1>2, <2>1, <2>2
<1> HIDE DEF r2
<1>5. \A j \in 1 .. k : j \in 1 .. k + 1 /\ j # k + 1 /\ up[j] = of[j] /\ of[j] \in 1 .. m
  BY <1>1 DEF Counts
<1>6. up[k + 1] = m /\ k + 1 \in 1 .. k + 1 /\ \A j \in 1 .. k + 1 : j = k + 1 \/ j \in 1 .. k
  BY <1>1
<1>7. up \in [1 .. k + 1 -> 1 .. m]
  BY <1>2, <1>5, <1>6
<1> HIDE DEF up
<1>8. \A i \in 1 .. k : of[i] = m <=> <<i, k + 1>> \in Q
  <2>1. \A i \in 1 .. k : of[i] = m <=> <<i, k>> \in Q
    BY <1>1 DEF Counts
  <2>2. \A i \in 1 .. k + 1 : i \in 1 .. Len(s)
    OBVIOUS
  <2> QED
    BY <1>1, <1>5, <1>6, <2>1, <2>2 DEF Alike
<1>9. \A i, j \in 1 .. k + 1 : up[i] = up[j] <=> <<i, j>> \in Q
  <2>1. \A i \in 1 .. k + 1 : i \in 1 .. Len(s)
    OBVIOUS
  <2>2. \A i, j \in 1 .. k : of[i] = of[j] <=> <<i, j>> \in Q
    BY DEF Counts
  <2>3. \A i, j \in 1 .. k + 1 : <<i, j>> \in Q <=> <<j, i>> \in Q
    BY <2>1 DEF Alike
  <2>4. <<k + 1, k + 1>> \in Q
    BY <1>6, <2>1 DEF Alike
  <2> QED
    BY <1>5, <1>6, <1>8, <2>2, <2>3, <2>4
<1>10. ASSUME NEW a \in 1 .. m
       PROVE  /\ \E j \in 1 .. k + 1 : up[j] = a /\ r2[a][1] = s[j]
              /\ r2[a][2] = Cardinality({j \in 1 .. k + 1 : up[j] = a})
  <2> DEFINE S == {j \in 1 .. k : of[j] = a}
             T == {j \in 1 .. k + 1 : up[j] = a}
  <2>1. /\ \E j \in 1 .. k : of[j] = a /\ rows[a][1] = s[j]
        /\ rows[a][2] = Cardinality(S)
    BY DEF Counts
  <2>2. \E j \in 1 .. k + 1 : up[j] = a /\ r2[a][1] = s[j]
    BY <1>4, <1>5, <2>1
  <2>3. IsFiniteSet(S)
    <3>1. IsFiniteSet(1 .. k) /\ S \in SUBSET (1 .. k)
      BY <1>1, FS_Interval
    <3> QED
      BY <3>1, FS_Subset
  <2>4. CASE a = m
    <3>1. T = S \cup {k + 1}
      BY <1>5, <1>6, <2>4
    <3>2. k + 1 \notin S
      BY <1>1
    <3> HIDE DEF S, T
    <3>3. Cardinality(T) = Cardinality(S) + 1
      BY <2>3, <3>1, <3>2, FS_AddElement
    <3> QED
      BY <1>4, <2>1, <2>2, <2>4, <3>3 DEF T
  <2>5. CASE a # m
    <3>1. T = S
      BY <1>5, <1>6, <2>5
    <3> QED
      BY <1>4, <2>1, <2>2, <2>5, <3>1
  <2> QED
    BY <2>4, <2>5
<1>11. Counts(s, Q, k + 1, r2, up)
  BY <1>3, <1>6, <1>7, <1>9, <1>10 DEF Counts
<1> QED
  BY <1>3, <1>11 DEF r2

LEMMA RowOpens ==
  ASSUME NEW D, NEW s \in Seq(D), NEW Q, Alike(Q, Len(s)), NEW k \in 0 .. Len(s) - 1,
         NEW rows \in Counting(D), NEW of, Counts(s, Q, k, rows, of),
         ~ (k + 1 > 1 /\ <<k, k + 1>> \in Q)
  PROVE  /\ Append(rows, <<s[k + 1], 1>>) \in Counting(D)
         /\ \E up : Counts(s, Q, k + 1, Append(rows, <<s[k + 1], 1>>), up)
<1> DEFINE m == Len(rows)
           r2 == Append(rows, <<s[k + 1], 1>>)
           up == [j \in 1 .. k + 1 |-> IF j = k + 1 THEN m + 1 ELSE of[j]]
<1>1. k \in Nat /\ m \in Nat /\ s[k + 1] \in D
  BY DEF Counting
<1>2. <<s[k + 1], 1>> \in D \X (Nat \ {0})
  BY <1>1
<1>3. /\ r2 \in Counting(D) /\ Len(r2) = m + 1 /\ r2[m + 1] = <<s[k + 1], 1>>
      /\ \A a \in 1 .. m : r2[a] = rows[a]
  BY <1>2, AppendProperties DEF Counting
<1> HIDE DEF r2
<1>4. \A j \in 1 .. k : j \in 1 .. k + 1 /\ j # k + 1 /\ up[j] = of[j] /\ of[j] \in 1 .. m
  BY <1>1 DEF Counts
<1>5. up[k + 1] = m + 1 /\ k + 1 \in 1 .. k + 1 /\ \A j \in 1 .. k + 1 : j = k + 1 \/ j \in 1 .. k
  BY <1>1
<1>6. /\ \A a \in 1 .. m : a \in 1 .. m + 1 /\ a # m + 1
      /\ m + 1 \in 1 .. m + 1 /\ \A a \in 1 .. m + 1 : a = m + 1 \/ a \in 1 .. m
  BY <1>1
<1>7. up \in [1 .. k + 1 -> 1 .. m + 1]
  BY <1>4, <1>5, <1>6
<1> HIDE DEF up
<1>8. \A i \in 1 .. k + 1 : i \in 1 .. Len(s)
  OBVIOUS
<1>9. ASSUME NEW i \in 1 .. k, <<i, k + 1>> \in Q PROVE FALSE
  <2>1. k \in 1 .. k + 1 /\ k + 1 > 1
    BY <1>1
  <2>2. i = k \/ (i < k /\ k < k + 1)
    BY <1>1
  <2>3. CASE i < k /\ k < k + 1
    <3>1. <<i, k>> \in Q
      BY <1>4, <1>5, <1>8, <1>9, <2>1, <2>3 DEF Alike
    <3>2. <<k, i>> \in Q
      BY <1>4, <1>8, <2>1, <3>1 DEF Alike
    <3> QED
      BY <1>4, <1>5, <1>8, <1>9, <2>1, <3>2 DEF Alike
  <2> QED
    BY <1>9, <2>1, <2>2, <2>3
<1>10. \A i, j \in 1 .. k + 1 : up[i] = up[j] <=> <<i, j>> \in Q
  <2>1. \A i, j \in 1 .. k : of[i] = of[j] <=> <<i, j>> \in Q
    BY DEF Counts
  <2>2. \A i, j \in 1 .. k + 1 : <<i, j>> \in Q <=> <<j, i>> \in Q
    BY <1>8 DEF Alike
  <2>3. <<k + 1, k + 1>> \in Q
    BY <1>5, <1>8 DEF Alike
  <2> QED
    BY <1>4, <1>5, <1>6, <1>9, <2>1, <2>2, <2>3
<1>11. ASSUME NEW a \in 1 .. m + 1
       PROVE  /\ \E j \in 1 .. k + 1 : up[j] = a /\ r2[a][1] = s[j]
              /\ r2[a][2] = Cardinality({j \in 1 .. k + 1 : up[j] = a})
  <2> DEFINE T == {j \in 1 .. k + 1 : up[j] = a}
  <2>1. CASE a = m + 1
    <3>1. T = {k + 1}
      BY <1>4, <1>5, <1>6, <2>1
    <3>2. Cardinality({k + 1}) = 1
      BY FS_Singleton
    <3>3. r2[a][1] = s[k + 1] /\ r2[a][2] = 1
      BY <1>3, <2>1
    <3> QED
      BY <1>5, <2>1, <3>1, <3>2, <3>3
  <2>2. CASE a # m + 1
    <3>1. a \in 1 .. m
      BY <1>6, <2>2
    <3>2. T = {j \in 1 .. k : of[j] = a}
      BY <1>4, <1>5, <2>2
    <3>3. /\ \E j \in 1 .. k : of[j] = a /\ rows[a][1] = s[j]
          /\ rows[a][2] = Cardinality({j \in 1 .. k : of[j] = a})
      BY <3>1 DEF Counts
    <3> QED
      BY <1>3, <1>4, <3>1, <3>2, <3>3
  <2> QED
    BY <2>1, <2>2
<1>12. Counts(s, Q, k + 1, r2, up)
  BY <1>3, <1>5, <1>7, <1>10, <1>11 DEF Counts
<1> QED
  BY <1>3, <1>12 DEF r2

LEMMA RowsCount ==
  ASSUME NEW D, NEW s \in Seq(D), NEW Q, Alike(Q, Len(s)), NEW it,
         it[1 .. 0] = <<>>,
         \A k \in 0 .. Len(s) - 1 : it[1 .. k + 1] = AddTo(s, Q, it[1 .. k], k + 1)
  PROVE  /\ it[1 .. Len(s)] \in Counting(D)
         /\ \E of : Counts(s, Q, Len(s), it[1 .. Len(s)], of)
<1> DEFINE n == Len(s)
           Done(k) == it[1 .. k] \in Counting(D) /\ \E of : Counts(s, Q, k, it[1 .. k], of)
           Good == {k \in Nat : k <= n => Done(k)}
<1>1. n \in Nat
  OBVIOUS
<1> HIDE DEF Done
<1>2. 0 \in Good
  <2> DEFINE of == [j \in 1 .. 0 |-> 0]
  <2>1. <<>> \in Counting(D) /\ Len(<<>>) = 0
    BY DEF Counting
  <2>2. Counts(s, Q, 0, <<>>, of)
    BY <2>1 DEF Counts
  <2> QED
    BY <2>1, <2>2 DEF Done
<1>3. ASSUME NEW k \in Nat, k \in Good PROVE k + 1 \in Good
  <2> SUFFICES ASSUME k + 1 <= n PROVE Done(k + 1)
    OBVIOUS
  <2>1. Done(k) /\ k \in 0 .. n - 1 /\ (k + 1) - 1 = k
    BY <1>1, <1>3
  <2> DEFINE rows == it[1 .. k]
  <2>2. PICK of : Counts(s, Q, k, rows, of)
    BY <2>1 DEF Done
  <2>3. rows \in Counting(D)
    BY <2>1 DEF Done
  <2>4. it[1 .. k + 1] = AddTo(s, Q, rows, k + 1)
    BY <2>1
  <2> HIDE DEF rows, n
  <2>5. CASE k + 1 > 1 /\ <<k, k + 1>> \in Q
    <3> DEFINE r2 == [rows EXCEPT ![Len(rows)][2] = @ + 1]
    <3>1. it[1 .. k + 1] = r2
      BY <2>1, <2>4, <2>5 DEF AddTo
    <3>2. k \in 0 .. Len(s) - 1
      BY <2>1 DEF n
    <3>3. r2 \in Counting(D) /\ \E up : Counts(s, Q, k + 1, r2, up)
      BY <2>2, <2>3, <2>5, <3>2, RowGrows
    <3> HIDE DEF r2
    <3> QED
      BY <3>1, <3>3 DEF Done
  <2>6. CASE ~ (k + 1 > 1 /\ <<k, k + 1>> \in Q)
    <3>1. it[1 .. k + 1] = Append(rows, <<s[k + 1], 1>>)
      BY <2>1, <2>4, <2>6 DEF AddTo
    <3>2. k \in 0 .. Len(s) - 1
      BY <2>1 DEF n
    <3> QED
      BY <2>2, <2>3, <2>6, <3>1, <3>2, RowOpens DEF Done
  <2> QED
    BY <2>5, <2>6
<1> HIDE DEF Good
<1>4. n \in Good
  BY <1>1, <1>2, <1>3, NatSetInduction
<1>5. Done(n)
  BY <1>1, <1>4 DEF Good
<1> QED
  BY <1>5 DEF Done

-----------------------------------------------------------------------------
(***************************************************************************)
(* Growing a set until nothing is new, within finitely many elements: what  *)
(* comes out is the least set that flow leaves as it is.                    *)
(***************************************************************************)
Enlarges(O, flow) ==
  /\ flow \in [SUBSET O -> SUBSET O]
  /\ \A S \in SUBSET O : S \subseteq flow[S]
  /\ \A S, T \in SUBSET O : S \subseteq T => flow[S] \subseteq flow[T]

LeastClosed(O, flow, S) ==
  {i \in O : \A T \in SUBSET O : S \subseteq T /\ flow[T] = T => i \in T}

Growing(O, flow, g) == g = [S \in SUBSET O |-> IF flow[S] = S THEN S ELSE g[flow[S]]]

LEMMA ClosedGrowth ==
  ASSUME NEW O, NEW flow, Enlarges(O, flow), NEW S \in SUBSET O
  PROVE  /\ flow[S] \in SUBSET O /\ S \subseteq flow[S]
         /\ LeastClosed(O, flow, flow[S]) = LeastClosed(O, flow, S)
         /\ flow[S] = S => LeastClosed(O, flow, S) = S
<1>1. flow[S] \in SUBSET O /\ S \subseteq flow[S]
  BY DEF Enlarges
<1>2. \A T \in SUBSET O : flow[T] = T => (S \subseteq T <=> flow[S] \subseteq T)
  BY DEF Enlarges
<1>3. LeastClosed(O, flow, flow[S]) = LeastClosed(O, flow, S)
  BY <1>2 DEF LeastClosed
<1>4. flow[S] = S => LeastClosed(O, flow, S) = S
  BY DEF LeastClosed
<1> QED
  BY <1>1, <1>3, <1>4

LEMMA GrowingExists ==
  ASSUME NEW O, NEW flow, Enlarges(O, flow)
  PROVE  \E g : Growing(O, flow, g)
<1> DEFINE G == [S \in SUBSET O |-> LeastClosed(O, flow, S)]
<1>1. ASSUME NEW S \in SUBSET O
      PROVE  LeastClosed(O, flow, S) = IF flow[S] = S THEN S ELSE G[flow[S]]
  BY ClosedGrowth
<1>2. Growing(O, flow, G)
  <2>1. G = [S \in SUBSET O |-> IF flow[S] = S THEN S ELSE G[flow[S]]]
    BY <1>1
  <2> HIDE DEF G
  <2> QED
    BY <2>1 DEF Growing
<1> QED
  BY <1>2

LEMMA GrowingIsLeast ==
  ASSUME NEW O, IsFiniteSet(O), NEW flow, Enlarges(O, flow), NEW g, Growing(O, flow, g),
         NEW E \in SUBSET O
  PROVE  g[E] = LeastClosed(O, flow, E)
<1> DEFINE Left(S) == Cardinality(O \ S)
           Wrong == {S \in SUBSET O : g[S] # LeastClosed(O, flow, S)}
           Bad == {n \in Nat : \E S \in Wrong : Left(S) = n}
<1>1. \A S \in SUBSET O : g[S] = IF flow[S] = S THEN S ELSE g[flow[S]]
  BY DEF Growing
<1>2. ASSUME NEW S \in SUBSET O PROVE Left(S) \in Nat /\ IsFiniteSet(O \ S)
  <2>1. (O \ S) \in SUBSET O
    OBVIOUS
  <2> QED
    BY <2>1, FS_Subset, FS_CardinalityType
<1>3. ASSUME NEW S \in SUBSET O, NEW T \in SUBSET O, S \subseteq T, S # T
      PROVE  Left(T) < Left(S)
  <2> DEFINE A == O \ T
             B == O \ S
  <2>1. A \in SUBSET B /\ A # B
    BY <1>3
  <2>2. IsFiniteSet(B) /\ Cardinality(A) \in Nat /\ Cardinality(B) \in Nat
    BY <1>2
  <2> HIDE DEF A, B
  <2>3. Cardinality(A) <= Cardinality(B) /\ (Cardinality(B) = Cardinality(A) => B = A)
    BY <2>1, <2>2, FS_Subset
  <2>4. Cardinality(A) < Cardinality(B)
    BY <2>1, <2>2, <2>3
  <2> QED
    BY <2>4 DEF A, B
<1> SUFFICES ASSUME g[E] # LeastClosed(O, flow, E) PROVE FALSE
  OBVIOUS
<1> HIDE DEF Left
<1>4. E \in Wrong /\ Left(E) \in Nat
  BY <1>2
<1>5. Bad \in SUBSET Nat /\ Bad # {}
  BY <1>4
<1>6. PICK n \in Bad : \A m \in Bad : n <= m
  BY <1>5, LeastNatural
<1>7. PICK S \in Wrong : Left(S) = n
  BY <1>6
<1>8. S \in SUBSET O /\ g[S] # LeastClosed(O, flow, S)
  BY <1>7
<1>9. flow[S] # S
  BY <1>1, <1>8, ClosedGrowth
<1>10. /\ flow[S] \in SUBSET O /\ S \subseteq flow[S]
       /\ LeastClosed(O, flow, flow[S]) = LeastClosed(O, flow, S)
  BY <1>8, ClosedGrowth
<1>11. g[S] = g[flow[S]]
  BY <1>1, <1>8, <1>9
<1>12. flow[S] \in Wrong
  BY <1>8, <1>10, <1>11
<1>13. Left(flow[S]) < Left(S)
  BY <1>3, <1>8, <1>9, <1>10
<1>14. Left(flow[S]) \in Bad /\ Left(flow[S]) \in Nat /\ Left(S) \in Nat
  BY <1>2, <1>8, <1>10, <1>12
<1> QED
  BY <1>6, <1>7, <1>13, <1>14
=============================================================================
