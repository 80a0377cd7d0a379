----------------------------- MODULE OrderProofs -----------------------------
(***************************************************************************)
(* Numbers: induction, and the order of a set of them (Order).  The        *)
(* library's own induction theorem takes an operator; Counting takes a set.*)
(***************************************************************************)
EXTENDS Sequences, Order, TLAPS, NaturalsInduction, WellFoundedInduction, FiniteSetTheorems

\* A set of numbers has a least one: induction over the numbers rests on it.
LEMMA LeastOf ==
    ASSUME NEW S \in SUBSET Nat, S # {}
    PROVE  \E x \in S : \A y \in S : x <= y
<1> DEFINE R == {p \in Nat \X Nat : p[1] < p[2]}
<1>1. IsWellFoundedOn(R, Nat)
  BY NatLessThanWellFounded DEF OpToRel
<1>2. \E x \in S : \A y \in S : ~ (<<y, x>> \in R)
  BY <1>1, WFMin
<1>3. \A x, y \in Nat : y < x => <<y, x>> \in R
  OBVIOUS
<1> HIDE DEF R
<1>4. PICK x \in S : \A y \in S : ~ (<<y, x>> \in R)
  BY <1>2
<1>5. ASSUME NEW y \in S PROVE x <= y
  <2>1. ~ (y < x)
    BY <1>4, <1>3
  <2>2. QED
    BY <2>1
<1>6. QED
  BY <1>5

\* Induction over the numbers, for a set of them.
LEMMA Counting ==
    ASSUME NEW S, 0 \in S, \A n \in Nat : n \in S => n + 1 \in S
    PROVE  \A n \in Nat : n \in S
<1>1. CASE Nat \ S # {}
  <2>1. PICK x \in Nat \ S : \A y \in Nat \ S : x <= y
    BY <1>1, LeastOf
  <2>2. x - 1 \in Nat /\ x - 1 \notin Nat \ S
    BY <2>1
  <2>3. QED
    BY <2>1, <2>2
<1>2. QED
  BY <1>1

\* The places in a set of numbers are the numbers up to its size.
LEMMA RankIs ==
    ASSUME NEW m \in Nat, NEW S \in SUBSET (1 .. m)
    PROVE  /\ IsFiniteSet(S) /\ Cardinality(S) \in Nat
           /\ \A i \in S : Rank(S, i) \in 1 .. Cardinality(S)
           /\ \A i, j \in S : i < j => Rank(S, i) < Rank(S, j)
           /\ \A k \in 1 .. Cardinality(S) : \E i \in S : Rank(S, i) = k
<1> DEFINE Upto(i) == {j \in S : j <= i}
           n == Cardinality(S)
<1>1. IsFiniteSet(S) /\ n \in Nat
  <2>1. IsFiniteSet(1 .. m)
    BY FS_Interval
  <2>2. QED
    BY <2>1, FS_Subset, FS_CardinalityType
<1>2. \A i : Upto(i) \in SUBSET S
  OBVIOUS
<1>3. \A i : IsFiniteSet(Upto(i)) /\ Cardinality(Upto(i)) \in Nat /\ Cardinality(Upto(i)) <= n
  BY <1>1, <1>2, FS_Subset, FS_CardinalityType
<1>4. \A i : Rank(S, i) = Cardinality(Upto(i))
  BY DEF Rank
<1>5. \A i \in S : i \in Upto(i)
  OBVIOUS
<1>6. ASSUME NEW i \in S, NEW j \in S, i < j
      PROVE  Upto(i) \in SUBSET Upto(j) /\ j \notin Upto(i)
  <2>1. i \in Int /\ j \in Int /\ \A k \in S : k \in Int
    OBVIOUS
  <2>2. \A k \in S : k <= i => k <= j
    BY <1>6, <2>1
  <2>3. ~ (j <= i)
    BY <1>6, <2>1
  <2>4. QED
    BY <2>2, <2>3
<1> HIDE DEF Upto, n
<1>7. ASSUME NEW i \in S PROVE Rank(S, i) \in 1 .. n
  <2>1. Cardinality(Upto(i)) # 0
    BY <1>3, <1>5, FS_EmptySet
  <2>2. QED
    BY <2>1, <1>1, <1>3, <1>4
<1>8. ASSUME NEW i \in S, NEW j \in S, i < j PROVE Rank(S, i) < Rank(S, j)
  <2>1. Upto(i) \in SUBSET Upto(j) /\ Upto(i) # Upto(j)
    BY <1>5, <1>6, <1>8
  <2>2. Cardinality(Upto(i)) <= Cardinality(Upto(j)) /\ Cardinality(Upto(i)) # Cardinality(Upto(j))
    BY <2>1, <1>3, FS_Subset
  <2>3. QED
    BY <2>2, <1>3, <1>4
<1>9. \A k \in 1 .. n : \E i \in S : Rank(S, i) = k
  <2> DEFINE f == [i \in S |-> Rank(S, i)]
  <2>1. f \in [S -> 1 .. n]
    BY <1>7
  <2>2. ASSUME NEW i \in S, NEW j \in S, f[i] = f[j] PROVE i = j
    <3>1. Rank(S, i) = Rank(S, j) /\ i \in Nat /\ j \in Nat
      BY <2>2
    <3>2. ~ (i < j) /\ ~ (j < i)
      BY <3>1, <1>7, <1>8
    <3>3. QED
      BY <3>1, <3>2
  <2>3. f \in Injection(S, 1 .. n)
    BY <2>1, <2>2 DEF Injection, IsInjective
  <2>4. IsFiniteSet(1 .. n) /\ Cardinality(1 .. n) = n
    BY <1>1, FS_Interval
  <2> HIDE DEF f
  <2>5. f \in Surjection(S, 1 .. n)
    BY <2>3, <2>4, FS_Injection DEF n
  <2> USE DEF f
  <2>6. QED
    BY <2>5 DEF Surjection
<1>10. QED
  BY <1>1, <1>7, <1>8, <1>9 DEF n

\* The numbers of a set have an order; each is at its rank.
LEMMA AscendingIs ==
    ASSUME NEW m \in Nat, NEW S \in SUBSET (1 .. m)
    PROVE  /\ IsFiniteSet(S) /\ Cardinality(S) \in Nat
           /\ Ascending(S) \in [1 .. Cardinality(S) -> S]
           /\ Range(Ascending(S)) = S
           /\ \A i, j \in 1 .. Cardinality(S) : i < j => Ascending(S)[i] < Ascending(S)[j]
           /\ \A i \in S : Rank(S, i) \in 1 .. Cardinality(S) /\ Ascending(S)[Rank(S, i)] = i
<1> DEFINE n == Cardinality(S)
           a == Ascending(S)
<1>1. /\ IsFiniteSet(S) /\ n \in Nat
      /\ \A i \in S : Rank(S, i) \in 1 .. n
      /\ \A i, j \in S : i < j => Rank(S, i) < Rank(S, j)
      /\ \A k \in 1 .. n : \E i \in S : Rank(S, i) = k
  BY RankIs
<1>2. ASSUME NEW k \in 1 .. n PROVE a[k] \in S /\ Rank(S, a[k]) = k
  BY <1>1 DEF Ascending
<1>3. a = [k \in 1 .. n |-> a[k]]
  BY DEF Ascending
<1> HIDE DEF a, n
<1>4. ASSUME NEW i \in S, NEW j \in S, Rank(S, i) = Rank(S, j) PROVE i = j
  <2>1. ~ (i < j) /\ ~ (j < i) /\ i \in Nat /\ j \in Nat
    BY <1>1, <1>4
  <2>2. QED
    BY <2>1
<1>5. ASSUME NEW i \in S PROVE a[Rank(S, i)] = i
  BY <1>1, <1>2, <1>4
<1>6. ASSUME NEW i \in 1 .. n, NEW j \in 1 .. n, i < j PROVE a[i] < a[j]
  <2>1. a[i] \in S /\ a[j] \in S /\ Rank(S, a[i]) = i /\ Rank(S, a[j]) = j
    BY <1>2
  <2>2. ~ (a[j] < a[i])
    <3>1. a[j] < a[i] => j < i
      BY <2>1, <1>1
    <3>2. QED
      BY <3>1, <1>1, <1>6
  <2>3. a[i] # a[j]
    BY <2>1, <1>1, <1>6
  <2>4. a[i] \in Int /\ a[j] \in Int
    <3>1. \A x \in S : x \in Int
      OBVIOUS
    <3>2. QED
      BY <3>1, <2>1
  <2>5. QED
    BY <2>2, <2>3, <2>4
<1>7. a \in [1 .. n -> S]
  BY <1>2, <1>3
<1>8. Range(a) = S
  BY <1>1, <1>5, <1>7 DEF Range
<1>9. QED
  BY <1>1, <1>5, <1>6, <1>7, <1>8 DEF a, n

ElementsAt(s, S) == {s[i] : i \in S}

\* What is picked are the elements at the places, in their order.
LEMMA PickedIs ==
    ASSUME NEW m \in Nat, NEW s, DOMAIN s = 1 .. m, NEW S \in SUBSET (1 .. m)
    PROVE  /\ Cardinality(S) \in Nat
           /\ DOMAIN Picked(s, S) = 1 .. Cardinality(S)
           /\ Len(Picked(s, S)) = Cardinality(S)
           /\ \A k \in 1 .. Cardinality(S) :
                 Ascending(S)[k] \in S /\ Picked(s, S)[k] = s[Ascending(S)[k]]
           /\ \A i \in S : Rank(S, i) \in 1 .. Cardinality(S) /\ Picked(s, S)[Rank(S, i)] = s[i]
           /\ Picked(s, S) \in Seq(ElementsAt(s, S))
           /\ Range(Picked(s, S)) = ElementsAt(s, S)
           /\ Picked(s, S) = <<>> <=> S = {}
<1> DEFINE n == Cardinality(S)
           a == Ascending(S)
           p == Picked(s, S)
<1>1. /\ n \in Nat
      /\ \A k \in 1 .. n : a[k] \in S
      /\ \A i \in S : Rank(S, i) \in 1 .. n /\ a[Rank(S, i)] = i
  BY AscendingIs
<1>2. p = [k \in 1 .. n |-> s[a[k]]]
  BY DEF Picked
<1>3. S = {} => n = 0
  <2>1. Cardinality({}) = 0
    BY FS_EmptySet
  <2>2. QED
    BY <2>1
<1> HIDE DEF a, n, p
<1>4. \A i \in S : p[Rank(S, i)] = s[i]
  BY <1>1, <1>2
<1>5. DOMAIN p = 1 .. n /\ \A k \in 1 .. n : p[k] = s[a[k]]
  BY <1>2
<1>6. p \in Seq({s[i] : i \in S}) /\ Len(p) = n
  BY <1>1, <1>2
<1>7. Range(p) = {s[i] : i \in S}
  <2>1. Range(p) = {p[k] : k \in 1 .. n}
    BY <1>5 DEF Range
  <2>2. ASSUME NEW i \in S PROVE s[i] \in {p[k] : k \in 1 .. n}
    BY <1>1, <1>4
  <2>3. ASSUME NEW k \in 1 .. n PROVE p[k] \in {s[i] : i \in S}
    BY <1>1, <1>5
  <2>4. QED
    BY <2>1, <2>2, <2>3
<1>8. p = <<>> <=> S = {}
  <2>1. ASSUME S # {} PROVE n # 0
    <3>1. PICK i \in S : TRUE
      BY <2>1
    <3>2. Rank(S, i) \in 1 .. n
      BY <1>1
    <3>3. QED
      BY <3>2, <1>1
  <2>2. p = <<>> <=> n = 0
    BY <1>1, <1>6
  <2>3. QED
    BY <2>1, <2>2, <1>3
<1>9. QED
  BY <1>1, <1>4, <1>5, <1>6, <1>7, <1>8 DEF a, n, p, ElementsAt

\* Each element is there, once.
LEMMA DistinctIs ==
    ASSUME NEW m \in Nat, NEW s, DOMAIN s = 1 .. m
    PROVE  /\ Len(Distinct(s)) \in Nat /\ DOMAIN Distinct(s) = 1 .. Len(Distinct(s))
           /\ Distinct(s) \in Seq(Range(s))
           /\ Range(Distinct(s)) = Range(s)
           /\ \A j, k \in DOMAIN Distinct(s) : Distinct(s)[j] = Distinct(s)[k] => j = k
<1> DEFINE S == {i \in DOMAIN s : \A j \in 1 .. i - 1 : s[j] # s[i]}
<1>1. S \in SUBSET (1 .. m)
  OBVIOUS
<1>2. Distinct(s) = Picked(s, S)
  BY DEF Distinct
<1>3. ASSUME NEW i \in 1 .. m PROVE \E k \in S : s[k] = s[i]
  <2> DEFINE T == {k \in 1 .. m : s[k] = s[i]}
  <2>1. T \in SUBSET Nat /\ i \in T
    OBVIOUS
  <2> HIDE DEF T
  <2>2. PICK k \in T : \A l \in T : k <= l
    BY <2>1, LeastOf
  <2>3. k \in 1 .. m /\ s[k] = s[i]
    BY DEF T
  <2>4. ASSUME NEW j \in 1 .. k - 1 PROVE s[j] # s[i]
    <3>1. j \in 1 .. m /\ ~ (k <= j)
      BY <2>3
    <3>2. QED
      BY <3>1, <2>2 DEF T
  <2>5. QED
    BY <2>3, <2>4
<1>4. ASSUME NEW i \in S, NEW j \in S, s[i] = s[j] PROVE i = j
  <2>1. i \in 1 .. m /\ j \in 1 .. m
    OBVIOUS
  <2>2. ~ (i < j) /\ ~ (j < i)
    BY <2>1, <1>4
  <2>3. QED
    BY <2>1, <2>2
<1> HIDE DEF S
<1>4a. \A j, k \in 1 .. Cardinality(S) : j < k => Ascending(S)[j] < Ascending(S)[k]
  BY <1>1, AscendingIs
<1>5. /\ Cardinality(S) \in Nat
      /\ DOMAIN Picked(s, S) = 1 .. Cardinality(S)
      /\ Len(Picked(s, S)) = Cardinality(S)
      /\ \A k \in 1 .. Cardinality(S) : Ascending(S)[k] \in S /\ Picked(s, S)[k] = s[Ascending(S)[k]]
  BY <1>1, PickedIs
<1>5a. /\ Picked(s, S) \in Seq(ElementsAt(s, S))
       /\ Range(Picked(s, S)) = ElementsAt(s, S)
  BY <1>1, PickedIs
<1>6. ElementsAt(s, S) = Range(s)
  BY <1>1, <1>3 DEF Range, ElementsAt
<1>7. ASSUME NEW j \in 1 .. Cardinality(S), NEW k \in 1 .. Cardinality(S),
             Picked(s, S)[j] = Picked(s, S)[k]
      PROVE  j = k
  <2>1. Ascending(S)[j] = Ascending(S)[k]
    BY <1>4, <1>5, <1>7
  <2>2. Ascending(S)[j] \in Int
    <3>1. \A i \in S : i \in Int
      BY <1>1
    <3>2. QED
      BY <3>1, <1>5
  <2>3. ~ (j < k) /\ ~ (k < j)
    BY <2>1, <2>2, <1>4a
  <2>4. QED
    BY <2>3
<1>8. QED
  BY <1>2, <1>5, <1>5a, <1>6, <1>7

\* Counting the places up to n.
Counted(S, m) ==
    /\ Rank(S, 0) = 0
    /\ Rank(S, m) = Cardinality(S)
    /\ \A n \in Nat : /\ Rank(S, n) \in Nat
                      /\ n + 1 \in S => Rank(S, n + 1) = Rank(S, n) + 1
                      /\ n + 1 \notin S => Rank(S, n + 1) = Rank(S, n)

\* A number is counted where it is in the set, and only there.
LEMMA RankNext ==
    ASSUME NEW m \in Nat, NEW S \in SUBSET (1 .. m)
    PROVE  Counted(S, m)
<1> DEFINE Upto(n) == {j \in S : j <= n}
<1>0. \A j \in S : j \in Int /\ 1 <= j /\ j <= m
  OBVIOUS
<1>1. \A n \in Nat : IsFiniteSet(Upto(n)) /\ Cardinality(Upto(n)) \in Nat
  <2>1. IsFiniteSet(S)
    BY RankIs
  <2>2. \A n \in Nat : Upto(n) \in SUBSET S
    OBVIOUS
  <2> HIDE DEF Upto
  <2>3. QED
    BY <2>1, <2>2, FS_Subset, FS_CardinalityType
<1>2. Rank(S, 0) = 0
  <2>1. Upto(0) = {}
    <3>1. \A j \in S : ~ (j <= 0)
      BY <1>0
    <3>2. QED
      BY <3>1
  <2>2. Cardinality({}) = 0
    BY FS_EmptySet
  <2>3. QED
    BY <2>1, <2>2 DEF Rank
<1>3. Rank(S, m) = Cardinality(S)
  <2>1. Upto(m) = S
    BY <1>0
  <2>2. QED
    BY <2>1 DEF Rank
<1>4. ASSUME NEW n \in Nat
      PROVE  Rank(S, n + 1) = IF n + 1 \in S THEN Rank(S, n) + 1 ELSE Rank(S, n)
  <2>1. CASE n + 1 \in S
    <3>1. Upto(n + 1) = Upto(n) \cup {n + 1} /\ n + 1 \notin Upto(n)
      <4>1. \A j \in S : j <= n + 1 <=> j <= n \/ j = n + 1
        BY <1>0
      <4>2. ~ (n + 1 <= n)
        OBVIOUS
      <4>3. QED
        BY <2>1, <4>1, <4>2
    <3>2. Cardinality(Upto(n) \cup {n + 1}) = Cardinality(Upto(n)) + 1
      <4> HIDE DEF Upto
      <4>1. QED
        BY <1>1, <3>1, FS_AddElement
    <3>3. QED
      BY <2>1, <3>1, <3>2 DEF Rank
  <2>2. CASE n + 1 \notin S
    <3>1. Upto(n + 1) = Upto(n)
      <4>1. \A j \in S : j <= n + 1 <=> j <= n
        BY <1>0, <2>2
      <4>2. QED
        BY <4>1
    <3>2. QED
      BY <2>2, <3>1 DEF Rank
  <2>3. QED
    BY <2>1, <2>2
<1>5. \A n \in Nat : Rank(S, n) \in Nat
  BY <1>1 DEF Rank
<1>6. QED
  BY <1>2, <1>3, <1>4, <1>5 DEF Counted

\* A place is picked once.
LEMMA PickedOnce ==
    ASSUME NEW m \in Nat, NEW S \in SUBSET (1 .. m),
           NEW j \in 1 .. Cardinality(S), NEW k \in 1 .. Cardinality(S), Ascending(S)[j] = Ascending(S)[k]
    PROVE  j = k
<1>1. /\ Cardinality(S) \in Nat
      /\ \A i, l \in 1 .. Cardinality(S) : i < l => Ascending(S)[i] < Ascending(S)[l]
      /\ Ascending(S)[j] \in S
  BY AscendingIs
<1>2. Ascending(S)[j] \in Nat
  <2>1. \A i \in S : i \in Nat
    OBVIOUS
  <2>2. QED
    BY <1>1, <2>1
<1>3. ~ (j < k) /\ ~ (k < j)
  BY <1>1, <1>2
<1>4. QED
  BY <1>1, <1>3
=============================================================================
