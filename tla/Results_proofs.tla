--------------------------- MODULE Results_proofs ---------------------------
(***************************************************************************)
(* Proofs about what becomes of lists of events, plans and features, for   *)
(* lists of any length and every plan.                                     *)
(*                                                                         *)
(* First what the loops of the code compute: a fold takes one element      *)
(* after the other, sorted() permutes a list, the merging of duplicates    *)
(* takes each event from it, and the chunks of a plan follow each other.   *)
(* Each is shown by induction, as the absence of a least counterexample.   *)
(***************************************************************************)
EXTENDS Results, FiniteSetTheorems, WellFoundedInduction, TLAPS

(* Induction, and folds                                                    *)

(* Induction over the naturals, stated of a set: what holds at 0 and is handed on holds *)
LEMMA SetInduction ==
    ASSUME NEW S, 0 \in S, \A n \in Nat: n \in S => n + 1 \in S
    PROVE  \A n \in Nat: n \in S
<1> SUFFICES ASSUME NEW k \in Nat, k \notin S PROVE FALSE OBVIOUS
<1> DEFINE T == {n \in Nat: n \notin S}
<1>1. IsWellFoundedOn(OpToRel(<, Nat), Nat) BY NatLessThanWellFounded
<1>2. T \subseteq Nat /\ T # {} OBVIOUS
<1>3. PICK x \in T: \A y \in T: ~(<<y, x>> \in OpToRel(<, Nat))
  <2> HIDE DEF T
  <2> QED BY <1>1, <1>2, WFMin
<1>4. \A y \in T: ~(y < x) BY <1>3 DEF OpToRel
<1>5. x # 0 OBVIOUS
<1>6. x - 1 \in T => FALSE BY <1>4, <1>5
<1> QED BY <1>5, <1>6

\* What is used for every induction: the least number of which something holds.
LEMMA LeastNatural ==
    ASSUME NEW S, S \subseteq Nat, S # {}
    PROVE  \E n \in S: \A m \in S: n <= m
<1>1. IsWellFoundedOn(OpToRel(<, Nat), Nat) BY NatLessThanWellFounded
<1>2. PICK x \in S: \A y \in S: ~(<<y, x>> \in OpToRel(<, Nat)) BY <1>1, WFMin
<1>3. \A y \in S: ~(y < x) BY <1>2 DEF OpToRel
<1> QED BY <1>3

\* The greatest of some numbers up to k + 1, when k + 1 is among them.
LEMMA MaxOfInterval ==
    ASSUME NEW k \in Nat, NEW s \in SUBSET (1..(k + 1)), k + 1 \in s
    PROVE  Max(s) = k + 1 /\ s \ {Max(s)} \in SUBSET (1..k)
<1>1. \E x \in s: \A y \in s: x >= y OBVIOUS
<1>2. Max(s) \in s /\ \A y \in s: Max(s) >= y BY <1>1 DEF Max
<1>3. Max(s) \in 1..(k + 1) /\ Max(s) >= k + 1 BY <1>2
<1>4. Max(s) = k + 1 BY <1>3
<1> QED BY <1>4

\* h is the fold of f over the numbers up to n, from below, and over all their subsets.
Folds(h, A, base, n, f) ==
    /\ h \in [SUBSET (1..n) -> A]
    /\ \A s \in SUBSET (1..n):
          h[s] = IF s = {} THEN base ELSE f[<<h[s \ {Max(s)}], Max(s)>>]

\* The fold that the library chooses exists, whatever is folded over n elements.
LEMMA FoldExists ==
    ASSUME NEW A, NEW base \in A, NEW n \in Nat, NEW f \in [A \X (1..n) -> A]
    PROVE  \E h: Folds(h, A, base, n, f)
<1> DEFINE Good(k, h) == \A s \in SUBSET (1..k):
              h[s] = IF s = {} THEN base ELSE f[<<h[s \ {Max(s)}], Max(s)>>]
           Has(k) == \E h \in [SUBSET (1..k) -> A]: Good(k, h)
           S == {k \in Nat: k <= n => Has(k)}
<1>1. 0 \in S
  <2> DEFINE h == [s \in SUBSET (1..0) |-> base]
  <2>1. h \in [SUBSET (1..0) -> A] OBVIOUS
  <2>2. \A s \in SUBSET (1..0): s = {} OBVIOUS
  <2>3. Good(0, h) BY <2>2
  <2> QED BY <2>1, <2>3
<1>2. ASSUME NEW k \in Nat, k + 1 <= n, Has(k) PROVE Has(k + 1)
  <2>1. PICK g \in [SUBSET (1..k) -> A]: Good(k, g) BY <1>2
  <2> DEFINE h == [s \in SUBSET (1..(k + 1)) |->
                      IF k + 1 \in s THEN f[<<g[s \ {k + 1}], k + 1>>] ELSE g[s]]
  <2>2. ASSUME NEW s \in SUBSET (1..(k + 1)), k + 1 \in s
        PROVE  s \ {k + 1} \in SUBSET (1..k)
    BY <2>2
  <2>3. ASSUME NEW s \in SUBSET (1..(k + 1)), k + 1 \notin s
        PROVE  s \in SUBSET (1..k)
    BY <2>3
  <2>4. h \in [SUBSET (1..(k + 1)) -> A]
    <3> SUFFICES ASSUME NEW s \in SUBSET (1..(k + 1)) PROVE h[s] \in A OBVIOUS
    <3>1. CASE k + 1 \in s
      <4>1. g[s \ {k + 1}] \in A BY <2>1, <2>2, <3>1
      <4>2. k + 1 \in 1..n BY <1>2
      <4>3. f[<<g[s \ {k + 1}], k + 1>>] \in A BY <4>1, <4>2
      <4> QED BY <3>1, <4>3
    <3>2. CASE k + 1 \notin s BY <2>1, <2>3, <3>2
    <3> QED BY <3>1, <3>2
  <2>5. ASSUME NEW s \in SUBSET (1..(k + 1))
        PROVE  h[s] = IF s = {} THEN base ELSE f[<<h[s \ {Max(s)}], Max(s)>>]
    <3>1. CASE k + 1 \in s
      <4>1. Max(s) = k + 1 BY <3>1, MaxOfInterval
      <4>2. s \ {k + 1} \in SUBSET (1..(k + 1)) /\ k + 1 \notin s \ {k + 1} OBVIOUS
      <4>3. h[s \ {k + 1}] = g[s \ {k + 1}] BY <4>2
      <4>4. h[s] = f[<<g[s \ {k + 1}], k + 1>>] BY <3>1
      <4> QED BY <3>1, <4>1, <4>3, <4>4
    <3>2. CASE k + 1 \notin s
      <4>1. s \in SUBSET (1..k) BY <2>3, <3>2
      <4>2. h[s] = g[s] BY <3>2
      <4>3. CASE s = {} BY <2>1, <4>1, <4>2, <4>3
      <4>4. CASE s # {}
        <5>1. s \ {Max(s)} \in SUBSET (1..(k + 1)) /\ k + 1 \notin s \ {Max(s)} BY <3>2
        <5>2. h[s \ {Max(s)}] = g[s \ {Max(s)}] BY <5>1
        <5>3. g[s] = f[<<g[s \ {Max(s)}], Max(s)>>] BY <2>1, <4>1, <4>4
        <5> QED BY <4>2, <4>4, <5>2, <5>3
      <4> QED BY <4>3, <4>4
    <3> QED BY <3>1, <3>2
  <2> HIDE DEF h
  <2>6. Good(k + 1, h) BY <2>5
  <2> QED BY <2>4, <2>6
<1>3. ASSUME NEW k \in Nat, k \in S PROVE k + 1 \in S
  <2> HIDE DEF Has
  <2> QED BY <1>2, <1>3
<1>4. n \in S
  <2> HIDE DEF S
  <2> QED BY <1>1, <1>3, SetInduction
<1>5. Has(n)
  <2> HIDE DEF Has
  <2> QED BY <1>4
<1>6. PICK h \in [SUBSET (1..n) -> A]: Good(n, h) BY <1>5
<1> QED BY <1>6 DEF Folds

\* A greatest number is one of them.
LEMMA MaxIsMember ==
    ASSUME NEW n \in Nat, NEW s \in SUBSET (1..n), s # {}
    PROVE  Max(s) \in s
<1> DEFINE S == {k \in Nat: \A t \in SUBSET (1..k): t # {} => Max(t) \in t}
<1>1. 0 \in S
  <2>1. \A t \in SUBSET (1..0): t = {} OBVIOUS
  <2> QED BY <2>1
<1>2. ASSUME NEW k \in Nat, k \in S PROVE k + 1 \in S
  <2> SUFFICES ASSUME NEW t \in SUBSET (1..(k + 1)), t # {} PROVE Max(t) \in t OBVIOUS
  <2>1. CASE k + 1 \in t BY <2>1, MaxOfInterval
  <2>2. CASE k + 1 \notin t
    <3>1. t \in SUBSET (1..k) BY <2>2
    <3> QED BY <1>2, <3>1
  <2> QED BY <2>1, <2>2
<1>3. n \in S
  <2> HIDE DEF S
  <2> QED BY <1>1, <1>2, SetInduction
<1> QED BY <1>3

-----------------------------------------------------------------------------
(* sorted(): the rank of an element is its place                           *)

\* R puts the numbers up to n in a line.
Orders(R, n) ==
    /\ \A i \in 1..n: <<i, i>> \notin R
    /\ \A i, j \in 1..n: i = j \/ <<i, j>> \in R \/ <<j, i>> \in R
    /\ \A i, j, k \in 1..n: <<i, j>> \in R /\ <<j, k>> \in R => <<i, k>> \in R

\* The elements up to i, whose number is the rank of i.
UpTo(R, n, i) == {j \in 1..n: <<j, i>> \in R \/ j = i}

\* An element that comes before another in the line has the lower rank.
LEMMA EarlierRanksLower ==
    ASSUME NEW n \in Nat, NEW R, Orders(R, n), NEW i \in 1..n, NEW j \in 1..n, <<i, j>> \in R
    PROVE  Cardinality(UpTo(R, n, i)) < Cardinality(UpTo(R, n, j))
<1>1. IsFiniteSet(1..n) BY FS_Interval
<1>2. UpTo(R, n, j) \in SUBSET (1..n) BY DEF UpTo
<1>3. IsFiniteSet(UpTo(R, n, j)) BY <1>1, <1>2, FS_Subset
<1>4. UpTo(R, n, i) \in SUBSET UpTo(R, n, j) BY DEF UpTo, Orders
<1>5. j \in UpTo(R, n, j) /\ j \notin UpTo(R, n, i) BY DEF UpTo, Orders
<1>6. Cardinality(UpTo(R, n, i)) <= Cardinality(UpTo(R, n, j))
      /\ Cardinality(UpTo(R, n, i)) # Cardinality(UpTo(R, n, j))
  BY <1>3, <1>4, <1>5, FS_Subset
<1>7. Cardinality(UpTo(R, n, i)) \in Nat /\ Cardinality(UpTo(R, n, j)) \in Nat
  BY <1>3, <1>4, FS_Subset, FS_CardinalityType
<1> QED BY <1>6, <1>7

\* A rank is a place in a list of n elements.
LEMMA RankIsPosition ==
    ASSUME NEW n \in Nat, NEW R, Orders(R, n), NEW i \in 1..n
    PROVE  Cardinality(UpTo(R, n, i)) \in 1..n
<1>1. IsFiniteSet(1..n) /\ Cardinality(1..n) = n BY FS_Interval
<1>2. UpTo(R, n, i) \in SUBSET (1..n) /\ i \in UpTo(R, n, i) BY DEF UpTo
<1>3. IsFiniteSet(UpTo(R, n, i)) /\ Cardinality(UpTo(R, n, i)) <= n BY <1>1, <1>2, FS_Subset
<1>4. Cardinality(UpTo(R, n, i)) # 0 BY <1>2, <1>3, FS_EmptySet
<1>5. Cardinality(UpTo(R, n, i)) \in Nat BY <1>3, FS_CardinalityType
<1> QED BY <1>3, <1>4, <1>5

\* p puts the elements of list in the order R.
Permutes(p, R, n, list, sorted) ==
    /\ p \in [1..n -> 1..n]
    /\ \A i \in 1..n: \E k \in 1..n: p[k] = i
    /\ \A k, l \in 1..n: k < l => p[k] # p[l] /\ <<p[k], p[l]>> \in R
    /\ sorted = [k \in 1..n |-> list[p[k]]]

\* Two elements have two ranks.
LEMMA RanksDiffer ==
    ASSUME NEW n \in Nat, NEW R, Orders(R, n), NEW i \in 1..n, NEW j \in 1..n,
           Cardinality(UpTo(R, n, i)) = Cardinality(UpTo(R, n, j))
    PROVE  i = j
<1> SUFFICES ASSUME i # j PROVE FALSE OBVIOUS
<1>1. <<i, j>> \in R \/ <<j, i>> \in R BY DEF Orders
<1>2. Cardinality(UpTo(R, n, i)) \in 1..n BY RankIsPosition
<1>3. Cardinality(UpTo(R, n, i)) < Cardinality(UpTo(R, n, j))
      \/ Cardinality(UpTo(R, n, j)) < Cardinality(UpTo(R, n, i))
  BY <1>1, EarlierRanksLower
<1> QED BY <1>2, <1>3

\* Every position is taken by one number, and the positions follow the order.
LEMMA RanksPermute ==
    ASSUME NEW n \in Nat, NEW R, Orders(R, n), NEW list, NEW sorted,
           sorted = [k \in 1..n |-> sorted[k]],
           \A k, i \in 1..n: Cardinality(UpTo(R, n, i)) = k => sorted[k] = list[i]
    PROVE  \E p: Permutes(p, R, n, list, sorted)
<1> DEFINE rank == [i \in 1..n |-> Cardinality(UpTo(R, n, i))]
           p == [k \in 1..n |-> CHOOSE i \in 1..n: rank[i] = k]
<1>1. IsFiniteSet(1..n) BY FS_Interval
<1>2. rank \in [1..n -> 1..n] BY RankIsPosition
<1>3. ASSUME NEW i \in 1..n, NEW j \in 1..n, <<i, j>> \in R PROVE rank[i] < rank[j]
  BY <1>3, EarlierRanksLower
<1>4. \A i, j \in 1..n: rank[i] = rank[j] => i = j BY RanksDiffer
<1>5. \A i \in 1..n: sorted[rank[i]] = list[i] BY <1>2
<1> HIDE DEF rank
<1>6. rank \in Injection(1..n, 1..n) BY <1>2, <1>4 DEF Injection, IsInjective
<1>7. rank \in Surjection(1..n, 1..n) BY <1>1, <1>6, FS_Injection
<1>8. \A k \in 1..n: \E i \in 1..n: rank[i] = k BY <1>7 DEF Surjection
<1>9. \A k \in 1..n: p[k] \in 1..n /\ rank[p[k]] = k BY <1>8
<1>10. p \in [1..n -> 1..n] BY <1>9
<1> HIDE DEF p
<1>11. \A i \in 1..n: \E k \in 1..n: p[k] = i
  <2> SUFFICES ASSUME NEW i \in 1..n PROVE \E k \in 1..n: p[k] = i OBVIOUS
  <2>1. rank[i] \in 1..n BY <1>2
  <2> QED BY <1>4, <1>9, <2>1
<1>12. ASSUME NEW k \in 1..n, NEW l \in 1..n, k < l
       PROVE  p[k] # p[l] /\ <<p[k], p[l]>> \in R
  <2>1. p[k] # p[l] BY <1>9, <1>12
  <2>2. p[k] \in 1..n /\ p[l] \in 1..n BY <1>10
  <2>3. <<p[k], p[l]>> \in R \/ <<p[l], p[k]>> \in R BY <2>1, <2>2 DEF Orders
  <2>4. <<p[l], p[k]>> \in R => l < k BY <1>3, <1>9, <2>2
  <2> QED BY <1>12, <2>1, <2>3, <2>4
<1>13. \A k \in 1..n: sorted[k] = list[p[k]] BY <1>5, <1>9
<1>14. sorted = [k \in 1..n |-> list[p[k]]] BY <1>13
<1> QED BY <1>10, <1>11, <1>12, <1>14 DEF Permutes

\* The order of sorted() in deduplicate_events: by start, the surer one first, then as they came.
EarlierOrSurerOrder(list, n) ==
    {e \in (1..n) \X (1..n): \/ EarlierOrSurer(list[e[1]], list[e[2]])
                             \/ (~EarlierOrSurer(list[e[2]], list[e[1]]) /\ e[1] < e[2])}

\* What sorted() of deduplicate_events returns: the list in another order, for a list of any length.
LEMMA SortedEarlierOrSurer ==
    ASSUME NEW n \in Nat, NEW list, DOMAIN list = 1..n,
           \A i \in 1..n: list[i].start \in Int /\ list[i].confidence \in Int
    PROVE  \E p: Permutes(p, EarlierOrSurerOrder(list, n), n, list, SortedBy(list, EarlierOrSurer))
<1> DEFINE Before(i, j) == \/ EarlierOrSurer(list[i], list[j])
                           \/ (~EarlierOrSurer(list[j], list[i]) /\ i < j)
           R == EarlierOrSurerOrder(list, n)
           Rank(i) == Cardinality({j \in DOMAIN list:
                          \/ EarlierOrSurer(list[j], list[i])
                          \/ (~EarlierOrSurer(list[i], list[j]) /\ j <= i)})
<1>1. \A i, j \in 1..n: <<i, j>> \in R <=> Before(i, j) BY DEF EarlierOrSurerOrder
<1>2. Orders(R, n)
  <2>1. \A i \in 1..n: ~Before(i, i) BY DEF EarlierOrSurer, Earlier
  <2>2. \A i, j \in 1..n: i = j \/ Before(i, j) \/ Before(j, i) BY DEF EarlierOrSurer, Earlier
  <2>3. \A i, j, k \in 1..n: Before(i, j) /\ Before(j, k) => Before(i, k)
    BY DEF EarlierOrSurer, Earlier
  <2> HIDE DEF Before, R
  <2> QED BY <1>1, <2>1, <2>2, <2>3 DEF Orders
<1>3. ASSUME NEW i \in 1..n PROVE Rank(i) = Cardinality(UpTo(R, n, i))
  <2>1. \A j \in 1..n: j \in UpTo(R, n, i) <=> j = i \/ Before(j, i)
    <3> HIDE DEF Before, R
    <3> QED BY <1>1 DEF UpTo
  <2>2. \A j \in 1..n: j = i \/ Before(j, i)
           <=> EarlierOrSurer(list[j], list[i]) \/ (~EarlierOrSurer(list[i], list[j]) /\ j <= i)
    BY DEF EarlierOrSurer, Earlier
  <2>3. UpTo(R, n, i) = {j \in DOMAIN list: \/ EarlierOrSurer(list[j], list[i])
                                           \/ (~EarlierOrSurer(list[i], list[j]) /\ j <= i)}
    <3> HIDE DEF Before, R
    <3> QED BY <2>1, <2>2 DEF UpTo
  <2> QED BY <2>3
<1>4. SortedBy(list, EarlierOrSurer)
         = [k \in DOMAIN list |-> list[CHOOSE i \in DOMAIN list: Rank(i) = k]]
  BY DEF SortedBy, RankOf
<1> HIDE DEF R, Rank
<1> DEFINE sorted == [k \in DOMAIN list |-> list[CHOOSE i \in DOMAIN list: Rank(i) = k]]
<1>5. ASSUME NEW k \in 1..n, NEW i \in 1..n, Cardinality(UpTo(R, n, i)) = k
      PROVE  sorted[k] = list[i]
  <2>1. \A j \in 1..n: Rank(j) = k <=> j = i BY <1>2, <1>3, <1>5, RanksDiffer
  <2>2. (CHOOSE j \in DOMAIN list: Rank(j) = k) = i BY <2>1
  <2> QED BY <2>2
<1>6. sorted = [k \in 1..n |-> sorted[k]] OBVIOUS
<1> HIDE DEF sorted
<1>7. \E p: Permutes(p, R, n, list, sorted) BY <1>2, <1>5, <1>6, RanksPermute
<1> QED BY <1>4, <1>7, Zenon DEF R, sorted

\* The order of sorted() by start alone: equal ones as they came.
EarlierOrder(list, n) ==
    {e \in (1..n) \X (1..n): \/ Earlier(list[e[1]], list[e[2]])
                             \/ (~Earlier(list[e[2]], list[e[1]]) /\ e[1] < e[2])}

\* What sorted() by the start returns, when it finalizes the events of a job.
LEMMA SortedEarlier ==
    ASSUME NEW n \in Nat, NEW list, DOMAIN list = 1..n,
           \A i \in 1..n: list[i].start \in Int
    PROVE  \E p: Permutes(p, EarlierOrder(list, n), n, list, SortedBy(list, Earlier))
<1> DEFINE Before(i, j) == \/ Earlier(list[i], list[j])
                           \/ (~Earlier(list[j], list[i]) /\ i < j)
           R == EarlierOrder(list, n)
           Rank(i) == Cardinality({j \in DOMAIN list:
                          \/ Earlier(list[j], list[i])
                          \/ (~Earlier(list[i], list[j]) /\ j <= i)})
<1>1. \A i, j \in 1..n: <<i, j>> \in R <=> Before(i, j) BY DEF EarlierOrder
<1>2. Orders(R, n)
  <2>1. \A i \in 1..n: ~Before(i, i) BY DEF EarlierOrSurer, Earlier
  <2>2. \A i, j \in 1..n: i = j \/ Before(i, j) \/ Before(j, i) BY DEF EarlierOrSurer, Earlier
  <2>3. \A i, j, k \in 1..n: Before(i, j) /\ Before(j, k) => Before(i, k)
    BY DEF EarlierOrSurer, Earlier
  <2> HIDE DEF Before, R
  <2> QED BY <1>1, <2>1, <2>2, <2>3 DEF Orders
<1>3. ASSUME NEW i \in 1..n PROVE Rank(i) = Cardinality(UpTo(R, n, i))
  <2>1. \A j \in 1..n: j \in UpTo(R, n, i) <=> j = i \/ Before(j, i)
    <3> HIDE DEF Before, R
    <3> QED BY <1>1 DEF UpTo
  <2>2. \A j \in 1..n: j = i \/ Before(j, i)
           <=> Earlier(list[j], list[i]) \/ (~Earlier(list[i], list[j]) /\ j <= i)
    BY DEF EarlierOrSurer, Earlier
  <2>3. UpTo(R, n, i) = {j \in DOMAIN list: \/ Earlier(list[j], list[i])
                                           \/ (~Earlier(list[i], list[j]) /\ j <= i)}
    <3> HIDE DEF Before, R
    <3> QED BY <2>1, <2>2 DEF UpTo
  <2> QED BY <2>3
<1>4. SortedBy(list, Earlier)
         = [k \in DOMAIN list |-> list[CHOOSE i \in DOMAIN list: Rank(i) = k]]
  BY DEF SortedBy, RankOf
<1> HIDE DEF R, Rank
<1> DEFINE sorted == [k \in DOMAIN list |-> list[CHOOSE i \in DOMAIN list: Rank(i) = k]]
<1>5. ASSUME NEW k \in 1..n, NEW i \in 1..n, Cardinality(UpTo(R, n, i)) = k
      PROVE  sorted[k] = list[i]
  <2>1. \A j \in 1..n: Rank(j) = k <=> j = i BY <1>2, <1>3, <1>5, RanksDiffer
  <2>2. (CHOOSE j \in DOMAIN list: Rank(j) = k) = i BY <2>1
  <2> QED BY <2>2
<1>6. sorted = [k \in 1..n |-> sorted[k]] OBVIOUS
<1> HIDE DEF sorted
<1>7. \E p: Permutes(p, R, n, list, sorted) BY <1>2, <1>5, <1>6, RanksPermute
<1> QED BY <1>4, <1>7, Zenon DEF R, sorted

-----------------------------------------------------------------------------
(* deduplicate_events: nothing is made up, nothing told twice              *)

\* A least number is one of them.
LEMMA MinIsMember ==
    ASSUME NEW S, S \subseteq Nat, S # {}
    PROVE  Min(S) \in S /\ \A m \in S: Min(S) <= m
BY LeastNatural DEF Min

\* One turn of the loop of deduplicate_events keeps the list, lengthens it or replaces one event.
LEMMA MergeOne ==
    ASSUME NEW X, NEW rest \in Seq(X), NEW e \in X, NEW w
    PROVE  /\ KeepOrMerge(rest, e, w) \in Seq(X)
           /\ \/ KeepOrMerge(rest, e, w) = rest
              \/ KeepOrMerge(rest, e, w) = Append(rest, e)
              \/ \E n \in DOMAIN rest: KeepOrMerge(rest, e, w) = [rest EXCEPT ![n] = e]
<1> DEFINE T == Twins(rest, e, w)
<1>1. T \subseteq DOMAIN rest BY DEF Twins
<1>2. DOMAIN rest = 1..Len(rest) /\ Len(rest) \in Nat OBVIOUS
<1>3. T # {} => Min(T) \in DOMAIN rest
  <2>1. T \subseteq Nat BY <1>1, <1>2
  <2> HIDE DEF T
  <2> QED BY <1>1, <2>1, MinIsMember
<1>4. \/ KeepOrMerge(rest, e, w) = rest
      \/ KeepOrMerge(rest, e, w) = Append(rest, e)
      \/ T # {} /\ KeepOrMerge(rest, e, w) = [rest EXCEPT ![Min(T)] = e]
  BY DEF KeepOrMerge
<1> HIDE DEF T
<1>5. T # {} => [rest EXCEPT ![Min(T)] = e] \in Seq(X) BY <1>3
<1> QED BY <1>3, <1>4, <1>5

\* The loop of deduplicate_events, turn by turn.
LEMMA MergedSteps ==
    ASSUME NEW X, NEW d \in Seq(X), NEW n \in Nat, n = Len(d), NEW w
    PROVE  \E g: /\ g[0] = <<>> /\ g[n] = Merged(d, w)
                 /\ \A i \in 1..n: g[i] = KeepOrMerge(g[i - 1], d[i], w)
<1> DEFINE A == Seq(X)
           f == [p \in A \X (1..n) |-> KeepOrMerge(p[1], d[p[2]], w)]
           IsFold(h) == h = [s \in SUBSET (1..n) |->
                              IF s = {} THEN <<>> ELSE KeepOrMerge(h[s \ {Max(s)}], d[Max(s)], w)]
           iter == CHOOSE h: IsFold(h)
<1>1. DOMAIN d = 1..n /\ \A i \in 1..n: d[i] \in X OBVIOUS
<1>2. f \in [A \X (1..n) -> A] BY <1>1, MergeOne
<1>3. PICK h: Folds(h, A, <<>>, n, f)
  <2>1. <<>> \in A OBVIOUS
  <2> HIDE DEF f, A
  <2> QED BY <1>2, <2>1, FoldExists
<1>4. IsFold(h)
  <2>1. ASSUME NEW s \in SUBSET (1..n), s # {}
        PROVE  h[s] = KeepOrMerge(h[s \ {Max(s)}], d[Max(s)], w)
    <3>1. Max(s) \in 1..n BY <2>1, MaxIsMember
    <3>2. h[s \ {Max(s)}] \in A BY <1>3 DEF Folds
    <3>3. h[s] = f[<<h[s \ {Max(s)}], Max(s)>>]
      <4> HIDE DEF f
      <4> QED BY <1>3, <2>1 DEF Folds
    <3>4. <<h[s \ {Max(s)}], Max(s)>> \in A \X (1..n) BY <3>1, <3>2
    <3> QED BY <3>3, <3>4
  <2>2. h[{}] = <<>> BY <1>3 DEF Folds
  <2>3. h = [s \in SUBSET (1..n) |-> h[s]] BY <1>3 DEF Folds
  <2> QED BY <2>1, <2>2, <2>3
<1>5. IsFold(iter)
  <2> HIDE DEF IsFold
  <2> QED BY <1>4
<1>6. Merged(d, w) = iter[1..n]
  BY <1>1 DEF Merged, FoldLeft, MapThenFoldSet
<1> HIDE DEF iter
<1>7. iter[{}] = <<>> BY <1>5
<1>8. ASSUME NEW i \in 1..n PROVE iter[1..i] = KeepOrMerge(iter[1..(i - 1)], d[i], w)
  <2>1. 1..i \in SUBSET (1..n) /\ i \in 1..i OBVIOUS
  <2>2. Max(1..i) = i
    <3>1. i - 1 \in Nat /\ i = (i - 1) + 1 OBVIOUS
    <3>2. 1..i \in SUBSET (1..((i - 1) + 1)) /\ (i - 1) + 1 \in 1..i BY <3>1
    <3> QED BY <3>1, <3>2, MaxOfInterval
  <2>3. (1..i) \ {i} = 1..(i - 1) OBVIOUS
  <2> QED BY <1>5, <2>1, <2>2, <2>3
<1> DEFINE g == [i \in 0..n |-> iter[1..i]]
<1>9. g[0] = <<>> /\ g[n] = Merged(d, w) BY <1>6, <1>7
<1>10. \A i \in 1..n: g[i] = KeepOrMerge(g[i - 1], d[i], w) BY <1>8
<1> HIDE DEF g
<1> QED BY <1>9, <1>10

\* every element of s is one of d's first i, and no two of them end together
ComesFrom(s, d, i) ==
    /\ \A k \in DOMAIN s: \E j \in 1..i: s[k] = d[j]
    /\ \A k, l \in DOMAIN s: k # l => s[k].end # s[l].end

\* The loop makes up no event and tells none twice.
LEMMA MergedComesFrom ==
    ASSUME NEW X, NEW d \in Seq(X), NEW w,
           \A k, l \in DOMAIN d: k # l => d[k].end # d[l].end
    PROVE  Merged(d, w) \in Seq(X) /\ ComesFrom(Merged(d, w), d, Len(d))
<1>1. PICK n \in Nat: n = Len(d) OBVIOUS
<1>2. DOMAIN d = 1..n /\ \A i \in 1..n: d[i] \in X BY <1>1
<1>3. PICK g: /\ g[0] = <<>> /\ g[n] = Merged(d, w)
              /\ \A i \in 1..n: g[i] = KeepOrMerge(g[i - 1], d[i], w)
  BY <1>1, MergedSteps
<1> DEFINE Good(i) == i <= n => g[i] \in Seq(X) /\ ComesFrom(g[i], d, i)
           S == {i \in Nat: Good(i)}
<1>4. Good(0) BY <1>3 DEF ComesFrom
<1>5. ASSUME NEW i \in Nat, Good(i), i + 1 <= n PROVE Good(i + 1)
  <2>1. g[i] \in Seq(X) /\ ComesFrom(g[i], d, i) BY <1>5
  <2>2. i + 1 \in 1..n /\ (i + 1) - 1 = i BY <1>5
  <2>3. g[i + 1] = KeepOrMerge(g[i], d[i + 1], w) BY <1>3, <2>2
  <2>4. PICK s: s = g[i] OBVIOUS
  <2>5. PICK e \in X: e = d[i + 1] BY <1>2, <2>2
  <2>6. s \in Seq(X) /\ ComesFrom(s, d, i) BY <2>1, <2>4
  <2>7. \A k \in DOMAIN s: s[k].end # e.end
    <3> SUFFICES ASSUME NEW k \in DOMAIN s PROVE s[k].end # e.end OBVIOUS
    <3>1. PICK j \in 1..i: s[k] = d[j] BY <2>6 DEF ComesFrom
    <3>2. j \in DOMAIN d /\ i + 1 \in DOMAIN d /\ j # i + 1 BY <1>2, <2>2
    <3> QED BY <2>5, <3>1, <3>2
  <2>8. /\ g[i + 1] \in Seq(X)
        /\ \/ g[i + 1] = s
           \/ g[i + 1] = Append(s, e)
           \/ \E m \in DOMAIN s: g[i + 1] = [s EXCEPT ![m] = e]
    <3>1. PICK t: t = KeepOrMerge(s, e, w) OBVIOUS
    <3>2. /\ t \in Seq(X)
          /\ t = s \/ t = Append(s, e) \/ \E m \in DOMAIN s: t = [s EXCEPT ![m] = e]
      BY <2>6, <3>1, MergeOne
    <3>3. g[i + 1] = t BY <2>3, <2>4, <2>5, <3>1
    <3> HIDE DEF Good
    <3> QED BY <3>2, <3>3
  <2>9. CASE g[i + 1] = s
    <3>1. \A j \in 1..i: j \in 1..(i + 1) OBVIOUS
    <3> QED BY <2>6, <2>8, <2>9, <3>1 DEF ComesFrom
  <2>10. CASE g[i + 1] = Append(s, e)
    <3>1. PICK t: t = Append(s, e) OBVIOUS
    <3>2. /\ DOMAIN t = 1..(Len(s) + 1) /\ t[Len(s) + 1] = e
          /\ \A k \in DOMAIN s: t[k] = s[k] /\ DOMAIN s = 1..Len(s) /\ Len(s) \in Nat
      BY <2>6, <3>1
    <3>3. \A k \in DOMAIN t: k \in DOMAIN s \/ k = Len(s) + 1 BY <2>6, <3>2
    <3>4. \A k \in DOMAIN t: \E j \in 1..(i + 1): t[k] = d[j]
      <4> SUFFICES ASSUME NEW k \in DOMAIN t PROVE \E j \in 1..(i + 1): t[k] = d[j] OBVIOUS
      <4>1. CASE k \in DOMAIN s
        <5>1. PICK j \in 1..i: s[k] = d[j] BY <2>6, <4>1 DEF ComesFrom
        <5> QED BY <3>2, <4>1, <5>1
      <4>2. CASE k = Len(s) + 1 BY <2>2, <2>5, <3>2, <4>2
      <4> QED BY <3>3, <4>1, <4>2
    <3>5. \A k, l \in DOMAIN t: k # l => t[k].end # t[l].end
      BY <2>6, <2>7, <3>2, <3>3 DEF ComesFrom
    <3>6. ComesFrom(t, d, i + 1) BY <3>4, <3>5 DEF ComesFrom
    <3>7. g[i + 1] = t BY <2>10, <3>1
    <3>8. g[i + 1] \in Seq(X) /\ ComesFrom(g[i + 1], d, i + 1) BY <2>8, <3>6, <3>7
    <3> QED BY <3>8
  <2>11. CASE \E m \in DOMAIN s: g[i + 1] = [s EXCEPT ![m] = e]
    <3>1. PICK m \in DOMAIN s: g[i + 1] = [s EXCEPT ![m] = e] BY <2>11
    <3>2. PICK t: t = [s EXCEPT ![m] = e] OBVIOUS
    <3>3. DOMAIN t = DOMAIN s /\ t[m] = e /\ \A k \in DOMAIN s: k # m => t[k] = s[k]
      BY <2>6, <3>2
    <3>4. \A k \in DOMAIN t: \E j \in 1..(i + 1): t[k] = d[j]
      <4> SUFFICES ASSUME NEW k \in DOMAIN s PROVE \E j \in 1..(i + 1): t[k] = d[j] BY <3>3
      <4>1. CASE k # m
        <5>1. PICK j \in 1..i: s[k] = d[j] BY <2>6 DEF ComesFrom
        <5> QED BY <3>3, <4>1, <5>1
      <4>2. CASE k = m BY <2>2, <2>5, <3>3, <4>2
      <4> QED BY <4>1, <4>2
    <3>5. \A k, l \in DOMAIN t: k # l => t[k].end # t[l].end
      BY <2>6, <2>7, <3>3 DEF ComesFrom
    <3>6. ComesFrom(t, d, i + 1) BY <3>4, <3>5 DEF ComesFrom
    <3>7. g[i + 1] = t BY <3>1, <3>2
    <3>8. g[i + 1] \in Seq(X) /\ ComesFrom(g[i + 1], d, i + 1) BY <2>8, <3>6, <3>7
    <3> QED BY <3>8
  <2> QED BY <2>8, <2>9, <2>10, <2>11
<1>6. ASSUME NEW i \in Nat, i \in S PROVE i + 1 \in S
  <2>1. Good(i) BY <1>6
  <2>2. i + 1 <= n => Good(i + 1)
    <3> HIDE DEF Good
    <3> QED BY <1>5, <2>1
  <2>3. ~(i + 1 <= n) => Good(i + 1) OBVIOUS
  <2> HIDE DEF Good
  <2> QED BY <2>2, <2>3
<1>7. 0 \in S
  <2> HIDE DEF Good
  <2> QED BY <1>4
<1>8. n \in S
  <2> HIDE DEF S
  <2> QED BY <1>6, <1>7, SetInduction
<1>9. Good(n)
  <2> HIDE DEF Good
  <2> QED BY <1>8
<1> QED BY <1>1, <1>3, <1>9

\* deduplicate_events tells events of the list it is given, none of them twice.
LEMMA DeduplicatedComesFrom ==
    ASSUME NEW X, \A e \in X: e.start \in Int /\ e.confidence \in Int, NEW list \in Seq(X), NEW w,
           \A k, l \in DOMAIN list: k # l => list[k].end # list[l].end
    PROVE  Deduplicated(list, w) \in Seq(X) /\ ComesFrom(Deduplicated(list, w), list, Len(list))
<1>1. PICK n \in Nat: n = Len(list) OBVIOUS
<1>2. DOMAIN list = 1..n /\ \A i \in 1..n: list[i] \in X BY <1>1
<1>3. PICK d: d = SortedBy(list, EarlierOrSurer) OBVIOUS
<1>4. PICK p: Permutes(p, EarlierOrSurerOrder(list, n), n, list, d)
  <2>1. \E p: Permutes(p, EarlierOrSurerOrder(list, n), n, list, SortedBy(list, EarlierOrSurer))
    BY <1>2, SortedEarlierOrSurer
  <2> QED BY <1>3, <2>1, Zenon
<1>5. /\ d \in Seq(X) /\ Len(d) = n /\ DOMAIN d = 1..n
      /\ \A k \in 1..n: p[k] \in 1..n /\ d[k] = list[p[k]]
      /\ \A k, l \in 1..n: k # l => p[k] # p[l]
  <2>1. p \in [1..n -> 1..n] /\ d = [k \in 1..n |-> list[p[k]]] BY <1>4 DEF Permutes
  <2>2. \A k, l \in 1..n: k < l => p[k] # p[l] BY <1>4 DEF Permutes
  <2>3. \A k, l \in 1..n: k # l => k < l \/ l < k OBVIOUS
  <2>4. \A k, l \in 1..n: k # l => p[k] # p[l] BY <2>2, <2>3
  <2>5. d \in [1..n -> X] BY <1>2, <2>1
  <2> QED BY <2>1, <2>4, <2>5
<1>6. \A k, l \in DOMAIN d: k # l => d[k].end # d[l].end BY <1>2, <1>5
<1>7. PICK s: s = Merged(d, w) OBVIOUS
<1>8. s \in Seq(X) /\ ComesFrom(s, d, n) BY <1>5, <1>6, <1>7, MergedComesFrom
<1>9. PICK m \in Nat: m = Len(s) BY <1>8
<1>10. DOMAIN s = 1..m /\ \A i \in 1..m: s[i] \in X BY <1>8, <1>9
<1>11. PICK r: r = SortedBy(s, Earlier) OBVIOUS
<1>12. PICK q: Permutes(q, EarlierOrder(s, m), m, s, r)
  <2>1. \E q: Permutes(q, EarlierOrder(s, m), m, s, SortedBy(s, Earlier))
    BY <1>10, SortedEarlier
  <2> QED BY <1>11, <2>1, Zenon
<1>13. /\ r \in Seq(X) /\ DOMAIN r = 1..m
       /\ \A k \in 1..m: q[k] \in 1..m /\ r[k] = s[q[k]]
       /\ \A k, l \in 1..m: k # l => q[k] # q[l]
  <2>1. q \in [1..m -> 1..m] /\ r = [k \in 1..m |-> s[q[k]]] BY <1>12 DEF Permutes
  <2>2. \A k, l \in 1..m: k < l => q[k] # q[l] BY <1>12 DEF Permutes
  <2>3. \A k, l \in 1..m: k # l => k < l \/ l < k OBVIOUS
  <2>4. \A k, l \in 1..m: k # l => q[k] # q[l] BY <2>2, <2>3
  <2>5. r \in [1..m -> X] BY <1>10, <2>1
  <2> QED BY <2>1, <2>4, <2>5
<1>14. r = Deduplicated(list, w) BY <1>3, <1>7, <1>11, Zenon DEF Deduplicated
<1>15. \A k \in DOMAIN r: \E j \in 1..n: r[k] = list[j]
  <2> SUFFICES ASSUME NEW k \in 1..m PROVE \E j \in 1..n: r[k] = list[j] BY <1>13
  <2>1. q[k] \in 1..m /\ r[k] = s[q[k]] BY <1>13
  <2>2. PICK i \in 1..m: i = q[k] BY <2>1
  <2>3. PICK j \in 1..n: s[i] = d[j] BY <1>8, <1>10 DEF ComesFrom
  <2>4. p[j] \in 1..n /\ d[j] = list[p[j]] BY <1>5
  <2> QED BY <2>1, <2>2, <2>3, <2>4
<1>16. \A k, l \in DOMAIN r: k # l => r[k].end # r[l].end
  <2>1. \A k, l \in 1..m: k # l => s[k].end # s[l].end BY <1>8, <1>10 DEF ComesFrom
  <2> SUFFICES ASSUME NEW k \in 1..m, NEW l \in 1..m, k # l PROVE r[k].end # r[l].end BY <1>13
  <2>2. PICK i \in 1..m: i = q[k] /\ r[k] = s[i] BY <1>13
  <2>3. PICK j \in 1..m: j = q[l] /\ r[l] = s[j] BY <1>13
  <2>4. i # j BY <1>13, <2>2, <2>3
  <2> QED BY <2>1, <2>2, <2>3, <2>4
<1>17. ComesFrom(r, list, n) BY <1>15, <1>16 DEF ComesFrom
<1> QED BY <1>1, <1>13, <1>14, <1>17

-----------------------------------------------------------------------------
(* A loop that moves on                                                    *)

\* What a loop adds from s on: what it adds at s, then what it adds from the next place on,
\* or at the end what is left.
TurnOf(f, s, head, next, left) ==
    <<head[s]>> \o (IF s \in DOMAIN next THEN f[next[s]] ELSE left[s])

\* f is what the loop adds from each place on.
IsLoop(f, d, X, head, next, left) ==
    f \in [0..d -> Seq(X)] /\ \A s \in 0..d: f[s] = TurnOf(f, s, head, next, left)

\* The places a loop moves on to are later ones.
MovesOn(next, d) == DOMAIN next \subseteq 0..d /\ \A s \in DOMAIN next: next[s] \in (s + 1)..d

\* A loop that moves on ends, so that its recursive function has a value.
LEMMA LoopExists ==
    ASSUME NEW d \in Nat, NEW X, NEW head \in [0..d -> X], NEW left \in [0..d -> Seq(X)],
           NEW next, MovesOn(next, d)
    PROVE  \E f: IsLoop(f, d, X, head, next, left)
<1> DEFINE A == Seq(X)
           Good(k, f) == \A s \in (d - k)..d: f[s] = TurnOf(f, s, head, next, left)
           Has(k) == \E f \in [(d - k)..d -> A]: Good(k, f)
           S == {k \in Nat: k <= d => Has(k)}
<1>1. DOMAIN next \subseteq 0..d /\ \A s \in DOMAIN next: next[s] \in (s + 1)..d
  BY DEF MovesOn
<1>2. ASSUME NEW s \in 0..d, NEW f, s \in DOMAIN next => f[next[s]] \in A
      PROVE  TurnOf(f, s, head, next, left) \in A
  <2>1. PICK c \in X: c = head[s] OBVIOUS
  <2>2. <<c>> \in A OBVIOUS
  <2>3. PICK q: q = IF s \in DOMAIN next THEN f[next[s]] ELSE left[s] OBVIOUS
  <2>4. q \in A BY <1>2, <2>3
  <2>5. <<c>> \o q \in A BY <2>2, <2>4
  <2>6. TurnOf(f, s, head, next, left) = <<c>> \o q BY <2>1, <2>3 DEF TurnOf
  <2> QED BY <2>5, <2>6
<1> HIDE DEF A
<1>3. Has(0)
  <2> DEFINE f == [s \in (d - 0)..d |-> TurnOf(<<>>, s, head, next, left)]
  <2>1. \A s \in (d - 0)..d: s = d /\ s \in 0..d /\ s \notin DOMAIN next
    <3> SUFFICES ASSUME NEW s \in (d - 0)..d PROVE s = d /\ s \in 0..d /\ s \notin DOMAIN next
      OBVIOUS
    <3>1. s = d /\ s \in 0..d OBVIOUS
    <3>2. s \in DOMAIN next => next[s] \in (d + 1)..d BY <1>1, <3>1
    <3> QED BY <3>1, <3>2
  <2>2. \A s \in (d - 0)..d: \A g: TurnOf(g, s, head, next, left) = <<head[s]>> \o left[s]
    BY <2>1 DEF TurnOf
  <2>3. f \in [(d - 0)..d -> A] BY <1>2, <2>1
  <2>4. Good(0, f) BY <2>2
  <2> QED BY <2>3, <2>4
<1>4. ASSUME NEW k \in Nat, k + 1 <= d, Has(k) PROVE Has(k + 1)
  <2>1. PICK g \in [(d - k)..d -> A]: Good(k, g) BY <1>4
  <2>2. PICK a: a = d - (k + 1) OBVIOUS
  <2>3. a \in 0..d /\ a + 1 = d - k /\ a \notin (d - k)..d BY <1>4, <2>2
  <2> DEFINE f == [s \in a..d |-> IF s = a THEN TurnOf(g, a, head, next, left) ELSE g[s]]
  <2>4. \A s \in a..d: s = a \/ s \in (d - k)..d BY <2>3
  <2>5. \A s \in (d - k)..d: s \in a..d /\ s \in 0..d /\ f[s] = g[s] BY <2>3
  <2>6. ASSUME NEW s \in a..d, s \in DOMAIN next PROVE next[s] \in (d - k)..d
    <3>1. next[s] \in (s + 1)..d BY <1>1, <2>6
    <3> QED BY <2>3, <3>1
  <2>7. TurnOf(g, a, head, next, left) \in A
    <3>1. a \in a..d BY <2>3
    <3>2. a \in DOMAIN next => g[next[a]] \in A BY <2>1, <2>6, <3>1
    <3> QED BY <1>2, <2>3, <3>2
  <2>8. f \in [a..d -> A] BY <2>1, <2>4, <2>7
  <2>9. ASSUME NEW s \in a..d
        PROVE  TurnOf(f, s, head, next, left) = TurnOf(g, s, head, next, left)
    <3>1. s \in DOMAIN next => f[next[s]] = g[next[s]] BY <2>5, <2>6
    <3> HIDE DEF f
    <3> QED BY <3>1 DEF TurnOf
  <2>10. f[a] = TurnOf(g, a, head, next, left) BY <2>3
  <2>11. \A s \in a..d: f[s] = TurnOf(f, s, head, next, left)
    <3> SUFFICES ASSUME NEW s \in a..d PROVE f[s] = TurnOf(f, s, head, next, left) OBVIOUS
    <3>1. f[s] = TurnOf(g, s, head, next, left)
      <4>1. CASE s = a BY <2>10, <4>1
      <4>2. CASE s \in (d - k)..d BY <2>1, <2>5, <4>2
      <4> QED BY <2>4, <4>1, <4>2
    <3> HIDE DEF f
    <3> QED BY <2>9, <3>1
  <2> HIDE DEF f
  <2> QED BY <2>2, <2>8, <2>11
<1>5. ASSUME NEW k \in Nat, k \in S PROVE k + 1 \in S
  <2> HIDE DEF Has
  <2> QED BY <1>4, <1>5
<1>6. d \in S
  <2>1. 0 \in S
    <3> HIDE DEF Has
    <3> QED BY <1>3
  <2> HIDE DEF S
  <2> QED BY <1>5, <2>1, SetInduction
<1>7. Has(d)
  <2> HIDE DEF Has
  <2> QED BY <1>6
<1>8. d - d = 0 OBVIOUS
<1>9. PICK f \in [0..d -> Seq(X)]: \A s \in 0..d: f[s] = TurnOf(f, s, head, next, left)
  BY <1>7, <1>8 DEF A
<1>10. IsLoop(f, d, X, head, next, left) BY <1>9 DEF IsLoop
<1> QED BY <1>10

-----------------------------------------------------------------------------
(* plan_chunks: what the chunks put out follows each other                 *)

\* Parts of a video of d frames.
Spans(d) == [start: 0..d, end: 0..d]

\* The chunk from s on.
ChunkAt(s, d, size) == [start |-> s, end |-> Earliest(s + size, d)]

\* The chunks from start s on, f being those from later starts on.
PlannedFrom(f, s, d, size, overlap) ==
    <<ChunkAt(s, d, size)>>
      \o (IF ChunkAt(s, d, size).end = d THEN <<>> ELSE f[ChunkAt(s, d, size).end - overlap])

\* A chunk lies inside the video.
LEMMA ChunkTyped ==
    ASSUME NEW d \in Nat, NEW size \in Nat, NEW s \in 0..d
    PROVE  ChunkAt(s, d, size) \in Spans(d)
BY DEF ChunkAt, Spans, Earliest

\* The loop of plan_chunks moves on: the overlap is less than the chunk.
LEMMA LaterStart ==
    ASSUME NEW d \in Nat, NEW size \in Nat, NEW overlap \in Nat, overlap < size, NEW s \in 0..d,
           ChunkAt(s, d, size).end # d
    PROVE  /\ ChunkAt(s, d, size).end = s + size /\ s + size < d
           /\ ChunkAt(s, d, size).end - overlap \in (s + 1)..d
BY DEF ChunkAt, Earliest

\* The plan is what the loop adds, chunk by chunk.
LEMMA PlanEquation ==
    ASSUME NEW d \in Nat, NEW size \in Nat, NEW overlap \in Nat, overlap < size
    PROVE  \E f: /\ PlanChunks(d, size, overlap) = f[0]
                 /\ \A s \in 0..d: f[s] = PlannedFrom(f, s, d, size, overlap)
<1> DEFINE Is(f) == f = [s \in 0..d |->
              LET end == Earliest(s + size, d)
              IN  <<[start |-> s, end |-> end]>>
                    \o (IF end = d THEN <<>> ELSE f[end - overlap])]
           from == CHOOSE f: Is(f)
           head == [s \in 0..d |-> ChunkAt(s, d, size)]
           next == [s \in {s \in 0..d: ChunkAt(s, d, size).end # d}
                      |-> ChunkAt(s, d, size).end - overlap]
           left == [s \in 0..d |-> <<>>]
<1>1. \E g: IsLoop(g, d, Spans(d), head, next, left)
  <2>1. head \in [0..d -> Spans(d)] BY ChunkTyped
  <2>2. left \in [0..d -> Seq(Spans(d))] OBVIOUS
  <2>3. MovesOn(next, d) BY LaterStart DEF MovesOn
  <2> HIDE DEF head, next, left
  <2> QED BY <2>1, <2>2, <2>3, LoopExists
<1>2. PICK g \in [0..d -> Seq(Spans(d))]: \A s \in 0..d: g[s] = TurnOf(g, s, head, next, left)
  <2> HIDE DEF head, next, left
  <2> QED BY <1>1 DEF IsLoop
<1>3. ASSUME NEW s \in 0..d PROVE g[s] = PlannedFrom(g, s, d, size, overlap)
  <2>1. g[s] = TurnOf(g, s, head, next, left) BY <1>2
  <2>2. head[s] = ChunkAt(s, d, size) /\ left[s] = <<>> OBVIOUS
  <2>3. s \in DOMAIN next <=> ChunkAt(s, d, size).end # d OBVIOUS
  <2>4. s \in DOMAIN next => next[s] = ChunkAt(s, d, size).end - overlap OBVIOUS
  <2> HIDE DEF head, next, left
  <2> QED BY <2>1, <2>2, <2>3, <2>4 DEF TurnOf, PlannedFrom
<1>4. Is(g)
  <2>1. g = [s \in 0..d |-> g[s]] BY <1>2
  <2>2. g = [s \in 0..d |-> PlannedFrom(g, s, d, size, overlap)] BY <1>3, <2>1
  <2> QED BY <2>2 DEF PlannedFrom, ChunkAt
<1>5. Is(from)
  <2> HIDE DEF Is
  <2> QED BY <1>4
<1>6. PlanChunks(d, size, overlap) = from[0] BY DEF PlanChunks
<1>7. \A s \in 0..d: from[s] = PlannedFrom(from, s, d, size, overlap)
  <2> HIDE DEF from
  <2> QED BY <1>5 DEF PlannedFrom, ChunkAt
<1> HIDE DEF from
<1> QED BY <1>6, <1>7

\* p cuts what is from s on: it begins there, chunks follow each other by the overlap.
Cuts(p, s, d, size, overlap) ==
    /\ p \in Seq(Spans(d)) /\ Len(p) > 0
    /\ p[1] = ChunkAt(s, d, size)
    /\ p[Len(p)].end = d
    /\ \A n \in 1..(Len(p) - 1): /\ p[n + 1].start = p[n].end - overlap
                                 /\ p[n].end < p[n + 1].end
    /\ \A n \in 1..Len(p): p[n].end - p[n].start <= size

\* A sequence with one element put before it.
LEMMA Prepended ==
    ASSUME NEW X, NEW c \in X, NEW q \in Seq(X), NEW p, p = <<c>> \o q
    PROVE  /\ p \in Seq(X) /\ Len(p) = Len(q) + 1 /\ p[1] = c
           /\ \A n \in 1..Len(q): p[n + 1] = q[n]
OBVIOUS

\* plan_chunks cuts the whole video, from any start on.
LEMMA PlanCuts ==
    ASSUME NEW d \in Nat, NEW size \in Nat, NEW overlap \in Nat, overlap < size
    PROVE  Cuts(PlanChunks(d, size, overlap), 0, d, size, overlap)
<1>1. PICK f: /\ PlanChunks(d, size, overlap) = f[0]
              /\ \A s \in 0..d: f[s] = PlannedFrom(f, s, d, size, overlap)
  BY PlanEquation
<1> DEFINE Good(k) == \A s \in 0..d: s >= d - k => Cuts(f[s], s, d, size, overlap)
           S == {k \in Nat: Good(k)}
<1>2. ASSUME NEW s \in 0..d,
             ChunkAt(s, d, size).end # d =>
                Cuts(f[ChunkAt(s, d, size).end - overlap], ChunkAt(s, d, size).end - overlap,
                     d, size, overlap)
      PROVE  Cuts(f[s], s, d, size, overlap)
  <2>1. PICK c \in Spans(d): c = ChunkAt(s, d, size) BY ChunkTyped
  <2>2. c.end - c.start <= size BY <2>1 DEF ChunkAt, Earliest
  <2>3. CASE c.end = d
    <3>1. f[s] = <<c>> \o <<>> BY <1>1, <2>1, <2>3 DEF PlannedFrom
    <3>2. f[s] = <<c>> BY <3>1
    <3>3. <<c>> \in Seq(Spans(d)) /\ Len(<<c>>) = 1 /\ <<c>>[1] = c OBVIOUS
    <3> QED BY <2>1, <2>3, <2>2, <3>2, <3>3 DEF Cuts
  <2>4. CASE c.end # d
    <3>1. PICK t: t = c.end - overlap OBVIOUS
    <3>2. PICK q: q = f[t] OBVIOUS
    <3>3. f[s] = <<c>> \o q BY <1>1, <2>1, <2>4, <3>1, <3>2 DEF PlannedFrom
    <3>4. Cuts(q, t, d, size, overlap) BY <1>2, <2>1, <2>4, <3>1, <3>2
    <3>5. PICK p: p = f[s] OBVIOUS
    <3>6. q \in Seq(Spans(d)) /\ Len(q) > 0 BY <3>4 DEF Cuts
    <3>7. /\ p \in Seq(Spans(d)) /\ Len(p) = Len(q) + 1 /\ p[1] = c
          /\ \A n \in 1..Len(q): p[n + 1] = q[n]
      BY <3>3, <3>5, <3>6, Prepended
    <3>8. p[Len(p)].end = d
      <4>1. p[Len(q) + 1] = q[Len(q)] BY <3>6, <3>7
      <4> QED BY <3>4, <3>7, <4>1 DEF Cuts
    <3>9. ASSUME NEW n \in 1..(Len(p) - 1)
          PROVE  p[n + 1].start = p[n].end - overlap /\ p[n].end < p[n + 1].end
      <4>1. CASE n = 1
        <5>1. p[2] = q[1] BY <3>6, <3>7
        <5>2. q[1] = ChunkAt(t, d, size) BY <3>4 DEF Cuts
        <5>3. c.end = s + size /\ s + size < d BY <2>1, <2>4, LaterStart
        <5>4. q[1].start = t BY <5>2 DEF ChunkAt
        <5>5. q[1].end = Earliest(t + size, d) BY <5>2 DEF ChunkAt
        <5>6. t + size > c.end BY <3>1, <5>3
        <5>7. q[1].end > c.end BY <3>1, <5>3, <5>5, <5>6 DEF Earliest
        <5> QED BY <3>1, <3>7, <4>1, <5>1, <5>3, <5>4, <5>7
      <4>2. CASE n # 1
        <5>1. PICK i \in Nat: i = n - 1 BY <3>6, <3>7
        <5>2. i \in 1..(Len(q) - 1) /\ n = i + 1 BY <3>6, <3>7, <4>2, <5>1
        <5>3. p[n] = q[i] /\ p[n + 1] = q[i + 1] BY <3>6, <3>7, <5>2
        <5> QED BY <3>4, <5>2, <5>3 DEF Cuts
      <4> QED BY <4>1, <4>2
    <3>10. ASSUME NEW n \in 1..Len(p) PROVE p[n].end - p[n].start <= size
      <4>1. CASE n = 1 BY <2>2, <3>7, <4>1
      <4>2. CASE n # 1
        <5>1. PICK i \in Nat: i = n - 1 BY <3>6, <3>7
        <5>2. i \in 1..Len(q) /\ n = i + 1 BY <3>6, <3>7, <4>2, <5>1
        <5>3. p[n] = q[i] BY <3>7, <5>2
        <5> QED BY <3>4, <5>2, <5>3 DEF Cuts
      <4> QED BY <4>1, <4>2
    <3> QED BY <2>1, <3>5, <3>6, <3>7, <3>8, <3>9, <3>10 DEF Cuts
  <2> QED BY <2>3, <2>4
<1>3. ASSUME NEW k \in Nat, Good(k) PROVE Good(k + 1)
  <2> SUFFICES ASSUME NEW s \in 0..d, s >= d - (k + 1) PROVE Cuts(f[s], s, d, size, overlap)
    OBVIOUS
  <2>1. ChunkAt(s, d, size).end # d =>
           /\ ChunkAt(s, d, size).end - overlap \in 0..d
           /\ ChunkAt(s, d, size).end - overlap >= d - k
    BY LaterStart
  <2> QED BY <1>2, <1>3, <2>1
<1>4. Good(0)
  <2> SUFFICES ASSUME NEW s \in 0..d, s >= d - 0 PROVE Cuts(f[s], s, d, size, overlap)
    OBVIOUS
  <2>1. ChunkAt(s, d, size).end = d BY DEF ChunkAt, Earliest
  <2> QED BY <1>2, <2>1
<1>5. d \in S
  <2> HIDE DEF Good
  <2>1. 0 \in S BY <1>4
  <2>2. \A k \in Nat: k \in S => k + 1 \in S BY <1>3
  <2> HIDE DEF S
  <2> QED BY <2>1, <2>2, SetInduction
<1>6. Good(d)
  <2> HIDE DEF Good
  <2> QED BY <1>5
<1> QED BY <1>1, <1>6

\* What a chunk reads and what it puts out, as parts of a video of d frames.
Parts(d) == [context: 0..d, output: 0..d, end: 0..d]

\* What of the windows the frame loop rests on: they put out every frame, one window
\* after the other.
PutsOutAll(w, d, size) ==
    /\ w \in Seq(Parts(d)) /\ Len(w) > 0
    /\ w[1].context = 0 /\ w[1].output = 0
    /\ w[Len(w)].end = d
    /\ \A n \in 1..(Len(w) - 1): w[n + 1].output = w[n].end
    /\ \A n \in 1..Len(w): /\ w[n].context <= w[n].output /\ w[n].output < w[n].end
                           /\ w[n].end - w[n].context <= size

(***************************************************************************)
(* plan_chunks and what _process_chunk puts out of each chunk, for a video *)
(* of any length, any chunk and any smaller overlap: the windows begin     *)
(* with the video, end with it, follow each other with no moment left out  *)
(* or told twice, and none is empty.                                       *)
(***************************************************************************)
THEOREM WindowsFollow ==
    ASSUME NEW d \in Nat \ {0}, NEW size \in Nat, NEW overlap \in Nat, overlap < size,
           NEW w, w = Windows(d, size, overlap)
    PROVE  PutsOutAll(w, d, size)
<1>1. PICK p: p = PlanChunks(d, size, overlap) OBVIOUS
<1>2. Cuts(p, 0, d, size, overlap) BY <1>1, PlanCuts
<1>3. PICK m \in Nat \ {0}: m = Len(p) BY <1>2 DEF Cuts
<1>4. /\ p \in Seq(Spans(d)) /\ DOMAIN p = 1..m
      /\ \A n \in 1..m: p[n] \in Spans(d)
  BY <1>2, <1>3 DEF Cuts
<1>5. \A n \in 1..m: p[n].start \in 0..d /\ p[n].end \in 0..d BY <1>4 DEF Spans
<1>6. w = [n \in 1..m |-> [context |-> p[n].start,
                            output |-> IF n = 1 THEN 0 ELSE p[n - 1].end,
                            end |-> p[n].end]]
  BY <1>1, <1>4 DEF Windows
<1>7. \A n \in 1..m: /\ w[n].context = p[n].start
                     /\ w[n].output = IF n = 1 THEN 0 ELSE p[n - 1].end
                     /\ w[n].end = p[n].end
  BY <1>6
<1>8. \A n \in 1..m: n # 1 => n - 1 \in 1..m OBVIOUS
<1>9. w \in Seq([context: 0..d, output: 0..d, end: 0..d]) /\ Len(w) = m
  <2>1. PICK X: X = [context: 0..d, output: 0..d, end: 0..d] OBVIOUS
  <2>2. \A n \in 1..m: w[n] \in X
    <3> SUFFICES ASSUME NEW n \in 1..m PROVE w[n] \in X OBVIOUS
    <3>1. (IF n = 1 THEN 0 ELSE p[n - 1].end) \in 0..d BY <1>5, <1>8
    <3> QED BY <1>5, <1>6, <2>1, <3>1
  <2>3. DOMAIN w = 1..m /\ w = [n \in 1..m |-> w[n]] BY <1>6
  <2>4. w \in Seq(X) /\ Len(w) = m BY <2>2, <2>3
  <2> QED BY <2>1, <2>4
<1>10. p[1].start = 0 /\ 0 < p[1].end BY <1>2 DEF Cuts, ChunkAt, Earliest
<1>11. w[1].context = 0 /\ w[1].output = 0 BY <1>7, <1>10
<1>12. w[m].end = d BY <1>2, <1>3, <1>7 DEF Cuts
<1>13. \A n \in 1..(m - 1): w[n + 1].output = w[n].end
  <2> SUFFICES ASSUME NEW n \in 1..(m - 1) PROVE w[n + 1].output = w[n].end OBVIOUS
  <2>1. n \in 1..m /\ n + 1 \in 1..m /\ (n + 1) - 1 = n /\ n + 1 # 1 OBVIOUS
  <2>2. w[n + 1].output = p[(n + 1) - 1].end BY <1>7, <2>1
  <2> QED BY <1>7, <2>1, <2>2
<1>14. \A n \in 1..m: w[n].context <= w[n].output /\ w[n].output < w[n].end
  <2> SUFFICES ASSUME NEW n \in 1..m PROVE w[n].context <= w[n].output /\ w[n].output < w[n].end
    OBVIOUS
  <2>1. CASE n = 1 BY <1>7, <1>10, <2>1
  <2>2. CASE n # 1
    <3>1. PICK i \in 1..(m - 1): n = i + 1 BY <2>2
    <3>2. p[i + 1].start = p[i].end - overlap /\ p[i].end < p[i + 1].end
      BY <1>2, <1>3, <3>1 DEF Cuts
    <3>3. w[n].context = p[i + 1].start /\ w[n].output = p[i].end /\ w[n].end = p[i + 1].end
      BY <1>7, <2>2, <3>1
    <3>4. p[i].end \in Int BY <1>5, <3>1
    <3> QED BY <3>2, <3>3, <3>4
  <2> QED BY <2>1, <2>2
<1>15. \A n \in 1..m: w[n].end - w[n].context <= size BY <1>2, <1>3, <1>7 DEF Cuts
<1> QED BY <1>3, <1>9, <1>11, <1>12, <1>13, <1>14, <1>15 DEF Parts, PutsOutAll

-----------------------------------------------------------------------------
(* The frames of a plan                                                    *)

\* round() is within a half of what it rounds.
LEMMA RoundedIsNear ==
    ASSUME NEW n \in Nat, NEW d \in Nat \ {0}
    PROVE  /\ Rounded(n, d) \in Nat
           /\ 2 * (Rounded(n, d) * d) <= 2 * n + d
           /\ 2 * n <= 2 * (Rounded(n, d) * d) + d
<1>1. PICK q \in Nat, r \in Nat: q = n \div d /\ r = n % d OBVIOUS
<1>2. n = q * d + r /\ r < d BY <1>1
<1>3. (q + 1) * d = q * d + d BY <1>1
<1>4. q * d \in Nat BY <1>1
<1>5. CASE Rounded(n, d) = q /\ 2 * r <= d BY <1>2, <1>4, <1>5
<1>6. CASE Rounded(n, d) = q + 1 /\ d <= 2 * r
  <2>1. 2 * ((q + 1) * d) = 2 * (q * d) + 2 * d BY <1>3, <1>4
  <2> QED BY <1>1, <1>2, <1>4, <1>6, <2>1
<1>7. 2 * r < d \/ (2 * r = d /\ q % 2 = 0) => Rounded(n, d) = q BY <1>1 DEF Rounded
<1>8. ~(2 * r < d \/ (2 * r = d /\ q % 2 = 0)) => Rounded(n, d) = q + 1 BY <1>1 DEF Rounded
<1> QED BY <1>1, <1>5, <1>6, <1>7, <1>8

\* A rate of at most one frame in a unit of time.
IsRate(fps, second) ==
    /\ second \in Nat /\ fps[1] \in Nat \ {0} /\ fps[2] \in Nat \ {0}
    /\ fps[1] <= fps[2] * second

\* The frame at a time is within half a frame of it.
LEMMA FrameIsNear ==
    ASSUME NEW fps, NEW second, IsRate(fps, second), NEW time \in Nat,
           NEW k, k = fps[2] * second
    PROVE  /\ k \in Nat \ {0} /\ FrameAt(time, fps, second) \in Nat
           /\ 2 * (FrameAt(time, fps, second) * k) <= 2 * (time * fps[1]) + k
           /\ 2 * (time * fps[1]) <= 2 * (FrameAt(time, fps, second) * k) + k
<1>1. PICK n \in Nat \ {0}, d \in Nat \ {0}: n = fps[1] /\ d = fps[2] BY DEF IsRate
<1>2. k \in Nat \ {0} BY <1>1 DEF IsRate
<1>3. time * n \in Nat BY <1>1
<1>4. FrameAt(time, fps, second) = Rounded(time * n, k) BY <1>1 DEF FrameAt
<1> QED BY <1>1, <1>2, <1>3, <1>4, RoundedIsNear

\* The time of a frame is within half a unit of it.
LEMMA TimeIsNear ==
    ASSUME NEW fps, NEW second, IsRate(fps, second), NEW frame \in Nat,
           NEW k, k = fps[2] * second
    PROVE  /\ TimeOf(frame, fps, second) \in Nat
           /\ 2 * (TimeOf(frame, fps, second) * fps[1]) <= 2 * (frame * k) + fps[1]
           /\ 2 * (frame * k) <= 2 * (TimeOf(frame, fps, second) * fps[1]) + fps[1]
<1>1. PICK n \in Nat \ {0}, d \in Nat \ {0}: n = fps[1] /\ d = fps[2] BY DEF IsRate
<1>2. second \in Nat /\ frame * second * d = frame * k BY <1>1 DEF IsRate
<1>3. frame * k \in Nat BY <1>1, <1>2
<1>4. TimeOf(frame, fps, second) = Rounded(frame * k, n) BY <1>1, <1>2 DEF TimeOf
<1> QED BY <1>1, <1>3, <1>4, RoundedIsNear

\* Of two times, the later has no earlier frame.
LEMMA LaterFrame ==
    ASSUME NEW fps, NEW second, IsRate(fps, second), NEW x \in Nat, NEW y \in Nat, x <= y
    PROVE  FrameAt(x, fps, second) <= FrameAt(y, fps, second)
<1>1. PICK n \in Nat \ {0}, k \in Nat \ {0}: n = fps[1] /\ k = fps[2] * second
  BY FrameIsNear DEF IsRate
<1>2. PICK f \in Nat: f = FrameAt(x, fps, second) BY <1>1, FrameIsNear
<1>3. PICK g \in Nat: g = FrameAt(y, fps, second) BY <1>1, FrameIsNear
<1>4. 2 * (f * k) <= 2 * (x * n) + k BY <1>1, <1>2, FrameIsNear
<1>5. 2 * (y * n) <= 2 * (g * k) + k BY <1>1, <1>3, FrameIsNear
<1>6. x * n \in Nat /\ y * n \in Nat /\ x * n <= y * n BY <1>1
<1>7. x = y => f = g BY <1>2, <1>3
<1> SUFFICES ASSUME f > g PROVE FALSE BY <1>2, <1>3
<1>8. f * k >= (g + 1) * k BY <1>1, <1>2, <1>3
<1>9. (g + 1) * k = g * k + k /\ g * k \in Nat /\ f * k \in Nat BY <1>1, <1>2, <1>3
<1>10. x * n = y * n
  <2>1. PICK u \in Nat, v \in Nat, p \in Nat, q \in Nat:
           u = f * k /\ v = g * k /\ p = x * n /\ q = y * n
    BY <1>6, <1>9
  <2>2. 2 * u <= 2 * p + k /\ 2 * q <= 2 * v + k /\ p <= q BY <1>4, <1>5, <1>6, <2>1
  <2>3. u >= v + k BY <1>8, <1>9, <2>1
  <2>4. p = q BY <1>1, <2>2, <2>3
  <2> QED BY <2>1, <2>4
<1>11. x = y BY <1>1, <1>10
<1> QED BY <1>7, <1>11

\* A frame before a border is before every frame whose time is at the border or after.
LEMMA BordersPart ==
    ASSUME NEW fps, NEW second, IsRate(fps, second), NEW border \in Nat,
           NEW f \in Nat, f < FrameAt(border, fps, second),
           NEW g \in Nat, TimeOf(g, fps, second) >= border
    PROVE  f < g
<1>1. PICK n \in Nat \ {0}, k \in Nat \ {0}: n = fps[1] /\ k = fps[2] * second
  BY FrameIsNear DEF IsRate
<1>2. PICK b \in Nat: b = FrameAt(border, fps, second) BY <1>1, FrameIsNear
<1>3. PICK t \in Nat: t = TimeOf(g, fps, second) BY <1>1, TimeIsNear
<1>4. 2 * (b * k) <= 2 * (border * n) + k BY <1>1, <1>2, FrameIsNear
<1>5. 2 * (t * n) <= 2 * (g * k) + n BY <1>1, <1>3, TimeIsNear
<1>6. n <= k BY <1>1 DEF IsRate
<1> SUFFICES ASSUME g <= f PROVE FALSE OBVIOUS
<1>7. (g + 1) * k <= b * k BY <1>1, <1>2
<1>8. border * n <= t * n BY <1>1, <1>3
<1>9. /\ (g + 1) * k = g * k + k /\ g * k \in Nat /\ b * k \in Nat
      /\ border * n \in Nat /\ t * n \in Nat
  BY <1>1, <1>2, <1>3
<1>10. n = k /\ 2 * (t * n) = 2 * (g * k) + n BY <1>1, <1>4, <1>5, <1>6, <1>7, <1>8, <1>9
<1>11. (2 * t) * n = (2 * g + 1) * n
  <2>1. (2 * t) * n = 2 * (t * n) /\ (2 * g + 1) * n = 2 * (g * n) + n BY <1>1, <1>3
  <2> QED BY <1>10, <2>1
<1>12. 2 * t = 2 * g + 1 BY <1>1, <1>3, <1>11
<1> QED BY <1>3, <1>12

\* Only one frame is at a border or after it, by its number, and before it by its time.
LEMMA BordersMiss ==
    ASSUME NEW fps, NEW second, IsRate(fps, second), NEW border \in Nat,
           NEW f \in Nat, f >= FrameAt(border, fps, second),
           TimeOf(f, fps, second) < border
    PROVE  f = FrameAt(border, fps, second) /\ f * second * fps[2] < border * fps[1]
<1>1. PICK n \in Nat \ {0}, k \in Nat \ {0}: n = fps[1] /\ k = fps[2] * second
  BY FrameIsNear DEF IsRate
<1>2. PICK b \in Nat: b = FrameAt(border, fps, second) BY <1>1, FrameIsNear
<1>3. PICK t \in Nat: t = TimeOf(f, fps, second) BY <1>1, TimeIsNear
<1>4. 2 * (border * n) <= 2 * (b * k) + k BY <1>1, <1>2, FrameIsNear
<1>5. 2 * (f * k) <= 2 * (t * n) + n BY <1>1, <1>3, TimeIsNear
<1>6. (t + 1) * n <= border * n BY <1>1, <1>3
<1>7. /\ (t + 1) * n = t * n + n /\ f * k \in Nat /\ b * k \in Nat
      /\ border * n \in Nat /\ t * n \in Nat
  BY <1>1, <1>2, <1>3
<1>8. f * k < border * n BY <1>1, <1>5, <1>6, <1>7
<1>9. f = b
  <2> SUFFICES ASSUME f > b PROVE FALSE BY <1>2
  <2>1. (b + 1) * k <= f * k BY <1>1, <1>2
  <2>2. (b + 1) * k = b * k + k BY <1>1, <1>2
  <2> QED BY <1>1, <1>4, <1>7, <1>8, <2>1, <2>2
<1>10. f * second * fps[2] = f * k BY <1>1 DEF IsRate
<1> QED BY <1>1, <1>2, <1>8, <1>9, <1>10

\* What a window puts out is after all that the windows before it put out.
LEMMA WindowsAscend ==
    ASSUME NEW d \in Nat, NEW size, NEW w, PutsOutAll(w, d, size),
           NEW m \in 1..Len(w), NEW n \in 1..Len(w), m < n
    PROVE  w[m].end <= w[n].output
<1>1. PICK l \in Nat \ {0}: l = Len(w) BY DEF PutsOutAll
<1>2. \A i \in 1..l: w[i].output \in Int /\ w[i].end \in Int
  <2>1. \A i \in 1..l: w[i] \in Parts(d) BY <1>1 DEF PutsOutAll
  <2> QED BY <2>1 DEF Parts
<1>3. /\ \A i \in 1..(l - 1): w[i + 1].output = w[i].end
      /\ \A i \in 1..l: w[i].output < w[i].end
  BY <1>1 DEF PutsOutAll
<1> DEFINE Good(k) == \A i \in 1..l: i + 1 + k <= l => w[i].end <= w[i + 1 + k].output
           S == {k \in Nat: Good(k)}
<1>4. Good(0)
  <2> SUFFICES ASSUME NEW i \in 1..l, i + 1 + 0 <= l PROVE w[i].end <= w[i + 1 + 0].output
    OBVIOUS
  <2>1. i \in 1..(l - 1) /\ i + 1 + 0 = i + 1 BY <1>1
  <2>2. w[i + 1].output = w[i].end /\ w[i].end \in Int BY <1>2, <1>3, <2>1
  <2> QED BY <2>1, <2>2
<1>5. ASSUME NEW k \in Nat, Good(k) PROVE Good(k + 1)
  <2> SUFFICES ASSUME NEW i \in 1..l, i + 1 + (k + 1) <= l
               PROVE  w[i].end <= w[i + 1 + (k + 1)].output
    OBVIOUS
  <2>1. PICK j \in Nat: j = i + 1 + k OBVIOUS
  <2>2. j \in 1..l /\ j \in 1..(l - 1) /\ i + 1 + (k + 1) = j + 1 /\ j + 1 \in 1..l
    BY <1>1, <2>1
  <2>3. w[i].end <= w[j].output
    <3>1. i + 1 + k <= l BY <1>1, <2>1, <2>2
    <3>2. w[i].end <= w[i + 1 + k].output BY <1>5, <3>1
    <3> QED BY <2>1, <3>2
  <2>4. w[j].output < w[j].end /\ w[j + 1].output = w[j].end BY <1>3, <2>2
  <2>5. w[i].end \in Int /\ w[j].output \in Int /\ w[j].end \in Int BY <1>2, <2>2
  <2>6. w[i].end <= w[j + 1].output BY <2>3, <2>4, <2>5
  <2> QED BY <2>2, <2>6
<1>6. \A k \in Nat: k \in S
  <2> HIDE DEF Good
  <2>1. 0 \in S BY <1>4
  <2>2. \A k \in Nat: k \in S => k + 1 \in S BY <1>5
  <2> HIDE DEF S
  <2> QED BY <2>1, <2>2, SetInduction
<1>7. PICK k \in Nat: k = n - m - 1 BY <1>1
<1>8. Good(k) BY <1>6
<1>9. m \in 1..l /\ m + 1 + k = n /\ n <= l BY <1>1, <1>7
<1> QED BY <1>8, <1>9

\* Every frame belongs to a first window that ends after it.
LEMMA FirstWindow ==
    ASSUME NEW d \in Nat, NEW size, NEW w, PutsOutAll(w, d, size), NEW fps, NEW second,
           IsRate(fps, second), NEW f \in 0..(FrameAt(d, fps, second) - 1)
    PROVE  \E n \in 1..Len(w): /\ f < FrameAt(w[n].end, fps, second)
                               /\ \A i \in 1..(n - 1): ~(f < FrameAt(w[i].end, fps, second))
<1> DEFINE S == {n \in 1..Len(w): f < FrameAt(w[n].end, fps, second)}
<1>1. PICK l \in Nat \ {0}: l = Len(w) BY DEF PutsOutAll
<1>2. w[l].end = d BY <1>1 DEF PutsOutAll
<1>3. f < FrameAt(w[l].end, fps, second)
  <2>1. PICK e \in Nat: e = FrameAt(d, fps, second) BY FrameIsNear
  <2> QED BY <1>2, <2>1
<1>4. S \subseteq Nat /\ S # {} BY <1>1, <1>3
<1>5. PICK n \in S: \A m \in S: n <= m
  <2> HIDE DEF S
  <2> QED BY <1>4, LeastNatural
<1> QED BY <1>1, <1>5

\* No frame is written twice, and all but the one at a border are written.
Tiles(w, d, fps, second) ==
    /\ \A m, n \in DOMAIN w:
          m < n => \A f \in Written(w[m], fps, second), g \in Written(w[n], fps, second): f < g
    /\ \A f \in 0..(FrameAt(d, fps, second) - 1):
          \/ \E n \in DOMAIN w: f \in Written(w[n], fps, second)
          \/ \E n \in 1..(Len(w) - 1):
                /\ f = FrameAt(w[n].end, fps, second)
                /\ f * second * fps[2] < w[n].end * fps[1]

\* What plan_chunks, FullMatchManifest.create and _process_chunk make of a match, for any
\* length, chunk, overlap and rate: what WindowsTile says of a plan.
LEMMA PlanTiles ==
    ASSUME NEW d \in Nat \ {0}, NEW size \in Nat, NEW overlap \in Nat, overlap < size,
           NEW fps, NEW second, IsRate(fps, second),
           NEW w, w = Windows(d, size, overlap)
    PROVE  Tiles(w, d, fps, second)
<1>1. PutsOutAll(w, d, size) BY WindowsFollow
<1>2. PICK l \in Nat \ {0}: l = Len(w) /\ DOMAIN w = 1..l BY <1>1 DEF PutsOutAll
<1>3. \A n \in 1..l: w[n].context \in Nat /\ w[n].output \in Nat /\ w[n].end \in Nat
  <2>1. \A n \in 1..l: w[n] \in Parts(d) BY <1>1, <1>2 DEF PutsOutAll
  <2> QED BY <2>1 DEF Parts
<1>4. \A n \in 1..l: FrameAt(w[n].context, fps, second) \in Nat BY <1>3, FrameIsNear
<1>5. \A n \in 1..l: FrameAt(w[n].end, fps, second) \in Nat BY <1>3, FrameIsNear
<1>6. ASSUME NEW n \in 1..l, NEW f
      PROVE  f \in Written(w[n], fps, second)
                <=> /\ f \in Nat
                    /\ FrameAt(w[n].context, fps, second) <= f
                    /\ f < FrameAt(w[n].end, fps, second)
                    /\ TimeOf(f, fps, second) >= w[n].output
  <2>1. PICK a \in Nat, b \in Nat: a = FrameAt(w[n].context, fps, second)
                                /\ b = FrameAt(w[n].end, fps, second)
    BY <1>4, <1>5
  <2>2. f \in a..(b - 1) <=> f \in Nat /\ a <= f /\ f < b BY <2>1
  <2> QED BY <2>1, <2>2 DEF Written, Decoded
<1>7. ASSUME NEW m \in 1..l, NEW n \in 1..l, m < n,
             NEW f \in Written(w[m], fps, second), NEW g \in Written(w[n], fps, second)
      PROVE  f < g
  <2>1. PICK border \in Nat: border = w[n].output BY <1>3
  <2>2. w[m].end <= border BY <1>1, <1>2, <1>7, <2>1, WindowsAscend
  <2>3. f \in Nat /\ f < FrameAt(w[m].end, fps, second) BY <1>6, <1>7
  <2>4. g \in Nat /\ TimeOf(g, fps, second) >= border BY <1>6, <1>7, <2>1
  <2>5. FrameAt(w[m].end, fps, second) <= FrameAt(border, fps, second)
    BY <1>3, <2>2, LaterFrame
  <2>6. FrameAt(border, fps, second) \in Nat BY FrameIsNear
  <2>7. f < FrameAt(border, fps, second) BY <1>5, <2>3, <2>5, <2>6
  <2> QED BY <2>3, <2>4, <2>7, BordersPart
<1>8. ASSUME NEW f \in 0..(FrameAt(d, fps, second) - 1)
      PROVE  \/ \E n \in 1..l: f \in Written(w[n], fps, second)
             \/ \E n \in 1..(l - 1): /\ f = FrameAt(w[n].end, fps, second)
                                     /\ f * second * fps[2] < w[n].end * fps[1]
  <2>1. PICK n \in 1..l: /\ f < FrameAt(w[n].end, fps, second)
                         /\ \A i \in 1..(n - 1): ~(f < FrameAt(w[i].end, fps, second))
    BY <1>1, <1>2, <1>8, FirstWindow
  <2>2. f \in Nat
    <3>1. PICK e \in Nat: e = FrameAt(d, fps, second) BY FrameIsNear
    <3> QED BY <1>8, <3>1
  <2>3. CASE n = 1
    <3>1. w[n].context = 0 /\ w[n].output = 0 BY <1>1, <2>3 DEF PutsOutAll
    <3>2. FrameAt(0, fps, second) = 0
      <4>1. PICK k \in Nat \ {0}, b \in Nat: k = fps[2] * second /\ b = FrameAt(0, fps, second)
        BY FrameIsNear
      <4>2. 2 * (b * k) <= 2 * (0 * fps[1]) + k /\ 0 * fps[1] = 0
        BY <4>1, FrameIsNear DEF IsRate
      <4>3. b >= 1 => b * k >= k BY <4>1
      <4>4. b * k \in Nat BY <4>1
      <4> QED BY <4>1, <4>2, <4>3, <4>4
    <3>3. TimeOf(f, fps, second) \in Nat BY <2>2, TimeIsNear
    <3>4. f \in Written(w[n], fps, second) BY <1>6, <2>1, <2>2, <3>1, <3>2, <3>3
    <3> QED BY <3>4
  <2>4. CASE n # 1
    <3>1. PICK i \in 1..(l - 1): n = i + 1 BY <1>2, <2>4
    <3>2. i \in 1..l /\ i \in 1..(n - 1) BY <3>1
    <3>3. PICK border \in Nat: border = w[i].end BY <1>3, <3>2
    <3>4. w[n].output = border /\ w[n].context <= border
      <4>1. w[i + 1].output = w[i].end BY <1>1, <1>2, <3>1 DEF PutsOutAll
      <4>2. w[n].context <= w[n].output BY <1>1, <1>2 DEF PutsOutAll
      <4> QED BY <3>1, <3>3, <4>1, <4>2
    <3>5. PICK b \in Nat: b = FrameAt(border, fps, second) BY FrameIsNear
    <3>6. f >= b BY <2>1, <2>2, <3>2, <3>3, <3>5
    <3>7. FrameAt(w[n].context, fps, second) <= b BY <1>3, <3>4, <3>5, LaterFrame
    <3>8. PICK t \in Nat: t = TimeOf(f, fps, second) BY <2>2, TimeIsNear
    <3>9. CASE t >= border
      <4>1. FrameAt(w[n].context, fps, second) <= f BY <1>4, <2>2, <3>5, <3>6, <3>7
      <4>2. f \in Written(w[n], fps, second) BY <1>6, <2>1, <2>2, <3>4, <3>8, <3>9, <4>1
      <4> QED BY <4>2
    <3>10. CASE t < border
      <4>1. f = FrameAt(border, fps, second) /\ f * second * fps[2] < border * fps[1]
        BY <2>2, <3>5, <3>6, <3>8, <3>10, BordersMiss
      <4> QED BY <3>1, <3>3, <4>1
    <3> QED BY <3>8, <3>9, <3>10
  <2> QED BY <2>3, <2>4
<1> QED BY <1>2, <1>7, <1>8 DEF Tiles

-----------------------------------------------------------------------------
(* CalfActionSpotter.spot: the windows of an array                         *)

\* The greater of two.
LEMMA MaxOfPair ==
    ASSUME NEW a \in Int, NEW b \in Int
    PROVE  Max({a, b}) = IF a < b THEN b ELSE a
<1>1. PICK c \in Int: c = IF a < b THEN b ELSE a OBVIOUS
<1>2. c \in {a, b} /\ \A y \in {a, b}: c >= y BY <1>1
<1>3. \A x \in {a, b}: (\A y \in {a, b}: x >= y) => x = c BY <1>1
<1>4. (CHOOSE x \in {a, b}: \A y \in {a, b}: x >= y) = c BY <1>2, <1>3
<1> QED BY <1>1, <1>4 DEF Max

\* The less of two.
LEMMA MinOfPair ==
    ASSUME NEW a \in Int, NEW b \in Int
    PROVE  Min({a, b}) = IF b < a THEN b ELSE a
<1>1. PICK c \in Int: c = IF b < a THEN b ELSE a OBVIOUS
<1>2. c \in {a, b} /\ \A y \in {a, b}: c <= y BY <1>1
<1>3. \A x \in {a, b}: (\A y \in {a, b}: x <= y) => x = c BY <1>1
<1>4. (CHOOSE x \in {a, b}: \A y \in {a, b}: x <= y) = c BY <1>2, <1>3
<1> QED BY <1>1, <1>4 DEF Min

\* Windows that begin within the array.
Shown(length) == [start: 0..length, last: BOOLEAN]

\* The model writes the place, and was shown it with the margin before it.
Reads(w, f, length, size, margin) ==
    /\ f \in WrittenBy(w, length, size, margin)
    /\ f \in w.start..(w.start + size - 1)
    /\ f - w.start >= margin

\* p are the windows from s on: what the first of them need not leave to one before is read.
Covers(p, s, length, size, margin) ==
    /\ p \in Seq(Shown(length)) /\ Len(p) > 0
    /\ p[1] = [start |-> s, last |-> FALSE]
    /\ \A f \in (s + margin)..(length - 1):
          \E n \in 1..Len(p): Reads(p[n], f, length, size, margin)

\* A window reads what it shows between its margins, and the last one up to its end.
LEMMA ReadsMiddle ==
    ASSUME NEW length \in Nat, NEW size \in Nat, NEW margin \in Nat, 2 * margin < size,
           NEW w \in Shown(length), w.start + size <= length,
           NEW f \in Nat, w.start + margin <= f, f < w.start + size,
           f < w.start + size - margin \/ (w.start # 0 /\ w.last)
    PROVE  Reads(w, f, length, size, margin)
<1>1. PICK s \in 0..length: s = w.start BY DEF Shown
<1>2. PICK b \in Int: b = IF s = 0 THEN 0 ELSE s + margin OBVIOUS
<1>3. PICK e \in Int: e = IF s # 0 /\ w.last THEN s + size ELSE s + size - margin OBVIOUS
<1>4. b <= f /\ 0 <= b /\ b <= length /\ f < e /\ e <= length BY <1>1, <1>2, <1>3
<1>5. Min({b, length}) = b /\ Min({e, length}) = e
  <2>1. length \in Int OBVIOUS
  <2> QED BY <1>4, <2>1, MinOfPair
<1>6. Max({0, b}) = b
  <2>1. 0 \in Int OBVIOUS
  <2> QED BY <1>4, <2>1, MaxOfPair
<1>7. WrittenBy(w, length, size, margin)
         = Max({0, Min({b, length})})..(Min({e, length}) - 1)
  BY <1>1, <1>2, <1>3 DEF WrittenBy
<1>8. WrittenBy(w, length, size, margin) = b..(e - 1) BY <1>5, <1>6, <1>7
<1>9. f \in b..(e - 1) BY <1>4
<1> QED BY <1>1, <1>8, <1>9 DEF Reads

\* The windows of CalfActionSpotter.spot from s on, f being those from later starts on.
ShownFrom(f, s, length, size, margin) ==
    <<[start |-> s, last |-> FALSE]>>
      \o (IF s + size - 2 * margin + size >= length
          THEN <<[start |-> length - size, last |-> TRUE]>>
          ELSE f[s + size - 2 * margin])

\* The windows are what the loop of spot adds, window by window.
LEMMA ShownEquation ==
    ASSUME NEW length \in Nat, NEW size \in Nat, NEW margin \in Nat, 2 * margin < size,
           size < length
    PROVE  \E f: /\ SpotWindows(length, size, margin) = f[0]
                 /\ \A s \in 0..length: f[s] = ShownFrom(f, s, length, size, margin)
<1> DEFINE Is(f) == f = [start \in 0..length |->
              LET next == start + size - 2 * margin
                  last == next + size >= length
                  at == IF last THEN length - size ELSE next
              IN  <<[start |-> start, last |-> FALSE]>>
                    \o (IF last THEN <<[start |-> at, last |-> TRUE]>> ELSE f[at])]
           from == CHOOSE f: Is(f)
           head == [s \in 0..length |-> [start |-> s, last |-> FALSE]]
           next == [s \in {s \in 0..length: s + size - 2 * margin + size < length}
                      |-> s + size - 2 * margin]
           left == [s \in 0..length |-> <<[start |-> length - size, last |-> TRUE]>>]
<1>1. \E g: IsLoop(g, length, Shown(length), head, next, left)
  <2>1. head \in [0..length -> Shown(length)] BY DEF Shown
  <2>2. left \in [0..length -> Seq(Shown(length))]
    <3>1. [start |-> length - size, last |-> TRUE] \in Shown(length) BY DEF Shown
    <3> QED BY <3>1
  <2>3. MovesOn(next, length) BY DEF MovesOn
  <2> HIDE DEF head, next, left
  <2> QED BY <2>1, <2>2, <2>3, LoopExists
<1>2. PICK g \in [0..length -> Seq(Shown(length))]:
         \A s \in 0..length: g[s] = TurnOf(g, s, head, next, left)
  <2> HIDE DEF head, next, left
  <2> QED BY <1>1 DEF IsLoop
<1>3. ASSUME NEW s \in 0..length PROVE g[s] = ShownFrom(g, s, length, size, margin)
  <2>1. g[s] = TurnOf(g, s, head, next, left) BY <1>2
  <2>2. /\ head[s] = [start |-> s, last |-> FALSE]
        /\ left[s] = <<[start |-> length - size, last |-> TRUE]>>
    OBVIOUS
  <2>3. s \in DOMAIN next <=> ~(s + size - 2 * margin + size >= length) OBVIOUS
  <2>4. s \in DOMAIN next => next[s] = s + size - 2 * margin OBVIOUS
  <2> HIDE DEF head, next, left
  <2> QED BY <2>1, <2>2, <2>3, <2>4 DEF TurnOf, ShownFrom
<1>4. Is(g)
  <2>1. g = [s \in 0..length |-> g[s]] BY <1>2
  <2>2. g = [s \in 0..length |-> ShownFrom(g, s, length, size, margin)] BY <1>3, <2>1
  <2> QED BY <2>2 DEF ShownFrom
<1>5. Is(from)
  <2> HIDE DEF Is
  <2> QED BY <1>4
<1>6. SpotWindows(length, size, margin) = from[0] BY DEF SpotWindows
<1>7. \A s \in 0..length: from[s] = ShownFrom(from, s, length, size, margin)
  <2> HIDE DEF from
  <2> QED BY <1>5 DEF ShownFrom
<1> HIDE DEF from
<1> QED BY <1>6, <1>7

\* A window, and the last one after it.
LEMMA TwoInALine ==
    ASSUME NEW X, NEW c \in X, NEW e \in X, NEW q, q = <<e>>, NEW p, p = <<c>> \o q
    PROVE  p \in Seq(X) /\ Len(p) = 2 /\ p[1] = c /\ p[2] = e
<1>1. q \in Seq(X) /\ Len(q) = 1 /\ q[1] = e OBVIOUS
<1>2. /\ p \in Seq(X) /\ Len(p) = Len(q) + 1 /\ p[1] = c
      /\ \A n \in 1..Len(q): p[n + 1] = q[n]
  BY <1>1, Prepended
<1>3. p[1 + 1] = q[1] BY <1>1, <1>2
<1> QED BY <1>1, <1>2, <1>3

\* The windows from any start on read all that is after it.
LEMMA ShownCovers ==
    ASSUME NEW length \in Nat, NEW size \in Nat, NEW margin \in Nat, 2 * margin < size,
           size < length
    PROVE  Covers(SpotWindows(length, size, margin), 0, length, size, margin)
<1>1. PICK f: /\ SpotWindows(length, size, margin) = f[0]
              /\ \A s \in 0..length: f[s] = ShownFrom(f, s, length, size, margin)
  BY ShownEquation
<1> DEFINE Good(k) == \A s \in 0..length:
              s >= length - k /\ s + size < length => Covers(f[s], s, length, size, margin)
           S == {k \in Nat: Good(k)}
<1>2. ASSUME NEW s \in 0..length, s + size < length, NEW t, t = s + size - 2 * margin,
             t + size < length => Covers(f[t], t, length, size, margin)
      PROVE  Covers(f[s], s, length, size, margin)
  <2>1. t \in Nat /\ s < t BY <1>2
  <2>2. PICK c \in Shown(length): c = [start |-> s, last |-> FALSE] BY DEF Shown
  <2>3. \A i \in Nat: s + margin <= i /\ i < t + margin => Reads(c, i, length, size, margin)
    <3>1. c.start = s BY <2>2
    <3>2. c.start + size <= length BY <1>2, <3>1
    <3>3. \A i \in Nat: s + margin <= i /\ i < t + margin
             => c.start + margin <= i /\ i < c.start + size /\ i < c.start + size - margin
      BY <1>2, <3>1
    <3> QED BY <3>2, <3>3, ReadsMiddle
  <2>4. CASE t + size >= length
    <3>1. length - size \in 0..length BY <1>2
    <3>2. PICK e \in Shown(length): e = [start |-> length - size, last |-> TRUE]
      BY <3>1 DEF Shown
    <3>3. PICK q: q = <<e>> OBVIOUS
    <3>4. f[s] = <<c>> \o q BY <1>1, <1>2, <2>2, <2>4, <3>2, <3>3 DEF ShownFrom
    <3>5. PICK p: p = f[s] OBVIOUS
    <3>6. p \in Seq(Shown(length)) /\ Len(p) = 2 /\ p[1] = c /\ p[2] = e
      <4>1. PICK X: X = Shown(length) OBVIOUS
      <4>2. c \in X /\ e \in X BY <4>1
      <4>3. p = <<c>> \o q BY <3>4, <3>5
      <4>4. p \in Seq(X) /\ Len(p) = 2 /\ p[1] = c /\ p[2] = e
        BY <3>3, <4>2, <4>3, TwoInALine
      <4> QED BY <4>1, <4>4
    <3>7. ASSUME NEW i \in (s + margin)..(length - 1)
          PROVE  \E n \in 1..Len(p): Reads(p[n], i, length, size, margin)
      <4>1. i \in Nat /\ s + margin <= i /\ i < length OBVIOUS
      <4>2. CASE i < t + margin BY <2>3, <3>6, <4>1, <4>2
      <4>3. CASE i >= t + margin
        <5>1. e.start = length - size /\ e.last BY <3>2
        <5>2. e.start + size <= length /\ e.start # 0 BY <1>2, <5>1
        <5>3. e.start + margin <= i /\ i < e.start + size BY <1>2, <2>1, <2>4, <4>1, <4>3, <5>1
        <5>4. Reads(e, i, length, size, margin) BY <4>1, <5>1, <5>2, <5>3, ReadsMiddle
        <5> QED BY <3>6, <5>4
      <4> QED BY <2>1, <4>1, <4>2, <4>3
    <3> QED BY <2>2, <3>5, <3>6, <3>7 DEF Covers
  <2>5. CASE t + size < length
    <3>1. PICK q: q = f[t] OBVIOUS
    <3>2. f[s] = <<c>> \o q BY <1>1, <1>2, <2>1, <2>2, <2>5, <3>1 DEF ShownFrom
    <3>3. Covers(q, t, length, size, margin) BY <1>2, <2>5, <3>1
    <3>4. PICK p: p = f[s] OBVIOUS
    <3>5. q \in Seq(Shown(length)) /\ Len(q) > 0 BY <3>3 DEF Covers
    <3>6. /\ p \in Seq(Shown(length)) /\ Len(p) = Len(q) + 1 /\ p[1] = c
          /\ \A n \in 1..Len(q): p[n + 1] = q[n]
      BY <3>2, <3>4, <3>5, Prepended
    <3>7. ASSUME NEW i \in (s + margin)..(length - 1)
          PROVE  \E n \in 1..Len(p): Reads(p[n], i, length, size, margin)
      <4>1. i \in Nat /\ s + margin <= i /\ i < length OBVIOUS
      <4>2. CASE i < t + margin BY <2>3, <3>6, <3>5, <4>1, <4>2
      <4>3. CASE i >= t + margin
        <5>1. i \in (t + margin)..(length - 1) BY <2>1, <4>1, <4>3
        <5>2. PICK n \in 1..Len(q): Reads(q[n], i, length, size, margin)
          BY <3>3, <5>1 DEF Covers
        <5>3. n + 1 \in 1..Len(p) /\ p[n + 1] = q[n] BY <3>5, <3>6
        <5> QED BY <5>2, <5>3
      <4> QED BY <2>1, <4>1, <4>2, <4>3
    <3> QED BY <2>2, <3>4, <3>5, <3>6, <3>7 DEF Covers
  <2> QED BY <1>2, <2>1, <2>4, <2>5
<1>3. ASSUME NEW k \in Nat, Good(k) PROVE Good(k + 1)
  <2> SUFFICES ASSUME NEW s \in 0..length, s >= length - (k + 1), s + size < length
               PROVE  Covers(f[s], s, length, size, margin)
    OBVIOUS
  <2>1. PICK t: t = s + size - 2 * margin OBVIOUS
  <2>2. t + size < length => t \in 0..length /\ t >= length - k BY <2>1
  <2>3. t + size < length => Covers(f[t], t, length, size, margin) BY <1>3, <2>2
  <2> QED BY <1>2, <2>1, <2>3
<1>4. Good(0) OBVIOUS
<1>5. length \in S
  <2> HIDE DEF Good
  <2>1. 0 \in S BY <1>4
  <2>2. \A k \in Nat: k \in S => k + 1 \in S BY <1>3
  <2> HIDE DEF S
  <2> QED BY <2>1, <2>2, SetInduction
<1>6. Good(length)
  <2> HIDE DEF Good
  <2> QED BY <1>5
<1> QED BY <1>1, <1>6

\* The place is written, from a window that shows it with the margin before it.
ReadByOne(windows, f, length, size, margin) ==
    \E n \in DOMAIN windows:
        /\ f \in WrittenBy(windows[n], length, size, margin)
        /\ f \in windows[n].start..(windows[n].start + size - 1)
        /\ f - windows[n].start >= margin \/ n = 1

\* What WindowsTile says of an array of features, for any length, window and margin.
LEMMA FeaturesTile ==
    ASSUME NEW length \in Nat, NEW size \in Nat, NEW margin \in Nat, 2 * margin < size,
           size < length, NEW f \in 0..(length - 1),
           NEW windows, windows = SpotWindows(length, size, margin)
    PROVE  ReadByOne(windows, f, length, size, margin)
<1>1. Covers(windows, 0, length, size, margin) BY ShownCovers
<1>2. DOMAIN windows = 1..Len(windows) /\ 1 \in DOMAIN windows BY <1>1 DEF Covers
<1>3. CASE f >= margin
  <2>1. f \in (0 + margin)..(length - 1) BY <1>3
  <2>2. PICK n \in 1..Len(windows): Reads(windows[n], f, length, size, margin)
    BY <1>1, <2>1 DEF Covers
  <2> QED BY <1>2, <2>2 DEF Reads, ReadByOne
<1>4. CASE f < margin
  <2>1. PICK w: w = windows[1] OBVIOUS
  <2>2. w.start = 0 /\ ~w.last BY <1>1, <2>1 DEF Covers
  <2>3. Min({0, length}) = 0 /\ Min({size - margin, length}) = size - margin
    <3>1. 0 \in Int /\ size - margin \in Int /\ length \in Int OBVIOUS
    <3>2. ~(length < 0) /\ ~(length < size - margin) OBVIOUS
    <3> QED BY <3>1, <3>2, MinOfPair
  <2>4. Max({0, 0}) = 0
    <3>1. 0 \in Int OBVIOUS
    <3> QED BY <3>1, MaxOfPair
  <2>5. WrittenBy(w, length, size, margin)
           = Max({0, Min({0, length})})..(Min({size - margin, length}) - 1)
    BY <2>2 DEF WrittenBy
  <2>6. f \in 0..(size - margin - 1) /\ f \in 0..(0 + size - 1) BY <1>4
  <2>7. f \in WrittenBy(w, length, size, margin) BY <2>3, <2>4, <2>5, <2>6
  <2> QED BY <1>2, <2>1, <2>2, <2>6, <2>7 DEF ReadByOne
<1> QED BY <1>3, <1>4

-----------------------------------------------------------------------------
(* The three loops that thin a list, as one                                *)

\* The events of lists have a time and a confidence.
Timed(X) == \A e \in X: e.start \in Int /\ e.confidence \in Int

\* What is near is a chain.
LEMMA ChainHere ==
    ASSUME NEW list, NEW type, NEW x \in Int, NEW y \in Int, NEW w \in Nat, Apart(x, y) <= w
    PROVE  Chain(list, type, Min({x, y}), Max({x, y}), w)
<1>1. PICK a \in Int, b \in Int: a = Min({x, y}) /\ b = Max({x, y}) /\ b - a <= w
  BY MinOfPair, MaxOfPair DEF Apart
<1>2. a..(b - w - 1) = {} BY <1>1
<1> QED BY <1>1, <1>2 DEF Chain

\* From one event of a chain it leads on to what is near it.
LEMMA ChainOn ==
    ASSUME NEW list, NEW type, NEW w \in Nat, NEW x \in Int, NEW y \in Int, NEW z \in Int,
           Chain(list, type, Min({x, y}), Max({x, y}), w),
           NEW m \in DOMAIN list, list[m].type = type, list[m].start = y,
           Apart(y, z) <= w
    PROVE  Chain(list, type, Min({x, z}), Max({x, z}), w)
<1>1. PICK a \in Int, b \in Int: a = Min({x, y}) /\ b = Max({x, y})
                                /\ a = (IF y < x THEN y ELSE x) /\ b = (IF x < y THEN y ELSE x)
  BY MinOfPair, MaxOfPair
<1>2. PICK f \in Int, g \in Int: f = Min({x, z}) /\ g = Max({x, z})
                                /\ f = (IF z < x THEN z ELSE x) /\ g = (IF x < z THEN z ELSE x)
  BY MinOfPair, MaxOfPair
<1> SUFFICES ASSUME NEW t \in f..(g - w - 1)
             PROVE  \E n \in DOMAIN list: list[n].type = type /\ list[n].start \in (t + 1)..(t + w)
  BY <1>2 DEF Chain
<1>3. CASE t \in a..(b - w - 1) BY <1>1, <1>3 DEF Chain
<1>4. CASE t \notin a..(b - w - 1)
  <2>1. y \in (t + 1)..(t + w) BY <1>1, <1>2, <1>4 DEF Apart
  <2> QED BY <2>1
<1> QED BY <1>3, <1>4

\* A chain of a list is one of every list that has its events.
LEMMA ChainOfSame ==
    ASSUME NEW d, NEW list, \A n \in DOMAIN d: \E m \in DOMAIN list: d[n] = list[m],
           NEW type, NEW x, NEW y, NEW w, Chain(d, type, x, y, w)
    PROVE  Chain(list, type, x, y, w)
<1> SUFFICES ASSUME NEW t \in x..(y - w - 1)
             PROVE  \E n \in DOMAIN list: list[n].type = type /\ list[n].start \in (t + 1)..(t + w)
  BY DEF Chain
<1>1. PICK n \in DOMAIN d: d[n].type = type /\ d[n].start \in (t + 1)..(t + w) BY DEF Chain
<1>2. PICK m \in DOMAIN list: d[n] = list[m] OBVIOUS
<1> QED BY <1>1, <1>2

\* k and e are duplicates.
IsTwin(k, e, w) == k.type = e.type /\ Apart(k.start, e.start) <= w

\* What a list of kept events becomes by one more: it has no twin, a twin is as sure, or it
\* takes the place of a twin and is the latest.
MergeStep(s, e, t, w) ==
    \/ /\ t = Append(s, e)
       /\ \A m \in DOMAIN s: ~IsTwin(s[m], e, w)
    \/ /\ t = s
       /\ \E m \in DOMAIN s: IsTwin(s[m], e, w) /\ s[m].confidence >= e.confidence
    \/ /\ \A k \in DOMAIN s: s[k].start <= e.start
       /\ \E m \in DOMAIN s: /\ t = [s EXCEPT ![m] = e]
                             /\ IsTwin(s[m], e, w) /\ s[m].confidence < e.confidence

\* k may stand for e.
Stands(k, e, list, w) ==
    /\ k.type = e.type /\ k.confidence >= e.confidence
    /\ Chain(list, e.type, Min({e.start, k.start}), Max({e.start, k.start}), w)

\* s is taken from the first i of d.
AllFrom(s, d, i) == \A k \in DOMAIN s: \E j \in 1..i: s[k] = d[j]

\* No two of one type are within the window.
FarApart(s, w) ==
    \A k, l \in DOMAIN s: k # l /\ s[k].type = s[l].type => Apart(s[k].start, s[l].start) > w

\* The kept of the first i of d.
MergeInv(s, d, i, w) ==
    /\ AllFrom(s, d, i)
    /\ FarApart(s, w)
    /\ \A j \in 1..i: \E k \in DOMAIN s: Stands(s[k], d[j], d, w)

\* A twin that is as sure may stand for its twin.
LEMMA StandsAlone ==
    ASSUME NEW X, Timed(X), NEW e \in X, NEW k \in X, NEW d, NEW w \in Nat,
           IsTwin(k, e, w), k.confidence >= e.confidence
    PROVE  Stands(k, e, d, w)
<1>1. e.start \in Int /\ k.start \in Int BY DEF Timed
<1>2. Apart(e.start, k.start) <= w BY <1>1 DEF IsTwin, Apart
<1> QED BY <1>1, <1>2, ChainHere DEF IsTwin, Stands

\* Every event may stand for itself.
LEMMA StandsForItself ==
    ASSUME NEW X, Timed(X), NEW e \in X, NEW d, NEW w \in Nat
    PROVE  Stands(e, e, d, w)
<1>1. e.start \in Int /\ e.confidence \in Int BY DEF Timed
<1>2. IsTwin(e, e, w) BY <1>1 DEF IsTwin, Apart
<1> QED BY <1>1, <1>2, StandsAlone

\* Such a step keeps what is known of the kept: this is the invariant of all three loops.
LEMMA MergeStepKeeps ==
    ASSUME NEW X, Timed(X), NEW d \in Seq(X), NEW i \in Nat, i + 1 <= Len(d), NEW w \in Nat,
           NEW s \in Seq(X), MergeInv(s, d, i, w), NEW t, MergeStep(s, d[i + 1], t, w)
    PROVE  t \in Seq(X) /\ MergeInv(t, d, i + 1, w)
<1>1. PICK e \in X: e = d[i + 1] OBVIOUS
<1>2. PICK n \in Nat: n = Len(s) OBVIOUS
<1>3. DOMAIN s = 1..n /\ \A k \in 1..n: s[k] \in X BY <1>2
<1>4. \A k \in 1..n: s[k].start \in Int /\ s[k].confidence \in Int BY <1>3 DEF Timed
<1>5. e.start \in Int /\ e.confidence \in Int BY DEF Timed
<1>6. \A j \in 1..(i + 1): j \in 1..i \/ j = i + 1 OBVIOUS
<1>7. CASE t = Append(s, e) /\ \A m \in DOMAIN s: ~IsTwin(s[m], e, w)
  <2>1. /\ t \in Seq(X) /\ DOMAIN t = 1..(n + 1) /\ t[n + 1] = e
        /\ \A k \in 1..n: t[k] = s[k]
    BY <1>2, <1>7
  <2>2. \A k \in DOMAIN t: k \in 1..n \/ k = n + 1 BY <2>1
  <2>3. AllFrom(t, d, i + 1)
    <3> SUFFICES ASSUME NEW k \in DOMAIN t PROVE \E j \in 1..(i + 1): t[k] = d[j] BY DEF AllFrom
    <3>1. CASE k \in 1..n
      <4>1. PICK j \in 1..i: s[k] = d[j] BY <1>3, <3>1 DEF MergeInv, AllFrom
      <4> QED BY <2>1, <3>1, <4>1
    <3>2. CASE k = n + 1 BY <1>1, <2>1, <3>2
    <3> QED BY <2>2, <3>1, <3>2
  <2>4. FarApart(t, w)
    <3>1. \A k \in 1..n: s[k].type = e.type => Apart(s[k].start, e.start) > w
      <4> SUFFICES ASSUME NEW k \in 1..n, s[k].type = e.type PROVE Apart(s[k].start, e.start) > w
        OBVIOUS
      <4>1. ~(Apart(s[k].start, e.start) <= w) BY <1>3, <1>7 DEF IsTwin
      <4>2. Apart(s[k].start, e.start) \in Int BY <1>4, <1>5 DEF Apart
      <4> QED BY <4>1, <4>2
    <3>2. \A k \in 1..n: s[k].type = e.type => Apart(e.start, s[k].start) > w
      BY <3>1, <1>4, <1>5 DEF Apart
    <3>3. \A k, l \in 1..n: k # l /\ s[k].type = s[l].type => Apart(s[k].start, s[l].start) > w
      BY <1>3 DEF MergeInv, FarApart
    <3> QED BY <2>1, <2>2, <3>1, <3>2, <3>3 DEF FarApart
  <2>5. \A j \in 1..(i + 1): \E k \in DOMAIN t: Stands(t[k], d[j], d, w)
    <3> SUFFICES ASSUME NEW j \in 1..(i + 1) PROVE \E k \in DOMAIN t: Stands(t[k], d[j], d, w)
      OBVIOUS
    <3>1. CASE j \in 1..i
      <4>1. PICK k \in DOMAIN s: Stands(s[k], d[j], d, w) BY <3>1 DEF MergeInv
      <4> QED BY <1>3, <2>1, <4>1
    <3>2. CASE j = i + 1
      <4>1. Stands(e, e, d, w) BY StandsForItself
      <4> QED BY <1>1, <2>1, <3>2, <4>1
    <3> QED BY <1>6, <3>1, <3>2
  <2> QED BY <2>1, <2>3, <2>4, <2>5 DEF MergeInv
<1>8. CASE t = s /\ \E m \in DOMAIN s: IsTwin(s[m], e, w) /\ s[m].confidence >= e.confidence
  <2>1. PICK m \in 1..n: IsTwin(s[m], e, w) /\ s[m].confidence >= e.confidence BY <1>3, <1>8
  <2>2. AllFrom(t, d, i + 1)
    <3> SUFFICES ASSUME NEW k \in DOMAIN s PROVE \E j \in 1..(i + 1): s[k] = d[j]
      BY <1>8 DEF AllFrom
    <3>1. PICK j \in 1..i: s[k] = d[j] BY DEF MergeInv, AllFrom
    <3> QED BY <3>1
  <2>3. \A j \in 1..(i + 1): \E k \in DOMAIN s: Stands(s[k], d[j], d, w)
    <3> SUFFICES ASSUME NEW j \in 1..(i + 1) PROVE \E k \in DOMAIN s: Stands(s[k], d[j], d, w)
      OBVIOUS
    <3>1. CASE j \in 1..i BY <3>1 DEF MergeInv
    <3>2. CASE j = i + 1
      <4>1. s[m] \in X BY <1>3
      <4>2. Stands(s[m], e, d, w) BY <2>1, <4>1, StandsAlone
      <4> QED BY <1>1, <1>3, <3>2, <4>2
    <3> QED BY <1>6, <3>1, <3>2
  <2> QED BY <1>8, <2>2, <2>3 DEF MergeInv
<1>9. CASE /\ \A k \in DOMAIN s: s[k].start <= e.start
           /\ \E m \in DOMAIN s: /\ t = [s EXCEPT ![m] = e]
                                 /\ IsTwin(s[m], e, w) /\ s[m].confidence < e.confidence
  <2>1. PICK m \in 1..n: /\ t = [s EXCEPT ![m] = e]
                         /\ IsTwin(s[m], e, w) /\ s[m].confidence < e.confidence
    BY <1>3, <1>9
  <2>2. t \in Seq(X) /\ DOMAIN t = 1..n /\ t[m] = e /\ \A k \in 1..n: k # m => t[k] = s[k]
    BY <1>3, <2>1
  <2>3. AllFrom(t, d, i + 1)
    <3> SUFFICES ASSUME NEW k \in 1..n PROVE \E j \in 1..(i + 1): t[k] = d[j]
      BY <2>2 DEF AllFrom
    <3>1. CASE k # m
      <4>1. PICK j \in 1..i: s[k] = d[j] BY <1>3 DEF MergeInv, AllFrom
      <4> QED BY <2>2, <3>1, <4>1
    <3>2. CASE k = m BY <1>1, <2>2, <3>2
    <3> QED BY <3>1, <3>2
  <2>4. FarApart(t, w)
    <3>1. ASSUME NEW k \in 1..n, k # m, s[k].type = e.type
          PROVE  Apart(s[k].start, e.start) > w /\ Apart(e.start, s[k].start) > w
      <4>1. Apart(s[k].start, s[m].start) > w
        BY <1>3, <2>1, <3>1 DEF MergeInv, FarApart, IsTwin
      <4>2. s[k].start <= e.start /\ s[m].start <= e.start BY <1>3, <1>9
      <4>3. Apart(s[m].start, e.start) <= w BY <2>1 DEF IsTwin
      <4>4. PICK x \in Int, y \in Int, z \in Int:
               x = s[k].start /\ y = e.start /\ z = s[m].start
        BY <1>4, <1>5
      <4>5. Apart(x, z) > w /\ x <= y /\ z <= y /\ Apart(z, y) <= w BY <4>1, <4>2, <4>3, <4>4
      <4>6. Apart(x, y) > w /\ Apart(y, x) > w BY <4>5 DEF Apart
      <4> QED BY <4>4, <4>6
    <3>2. \A k, l \in 1..n: k # l /\ s[k].type = s[l].type => Apart(s[k].start, s[l].start) > w
      BY <1>3 DEF MergeInv, FarApart
    <3> QED BY <2>2, <3>1, <3>2 DEF FarApart
  <2>5. \A j \in 1..(i + 1): \E k \in DOMAIN t: Stands(t[k], d[j], d, w)
    <3> SUFFICES ASSUME NEW j \in 1..(i + 1) PROVE \E k \in DOMAIN t: Stands(t[k], d[j], d, w)
      OBVIOUS
    <3>1. CASE j \in 1..i
      <4>1. PICK k \in 1..n: Stands(s[k], d[j], d, w) BY <1>3, <3>1 DEF MergeInv
      <4>2. CASE k # m BY <2>2, <4>1, <4>2
      <4>3. CASE k = m
        <5>1. PICK a \in X: a = d[j] BY <3>1
        <5>2. PICK b \in X: b = s[m] BY <1>3
        <5>3. a.start \in Int /\ b.start \in Int /\ a.confidence \in Int /\ b.confidence \in Int
          BY DEF Timed
        <5>4. /\ b.type = a.type /\ b.confidence >= a.confidence
              /\ Chain(d, a.type, Min({a.start, b.start}), Max({a.start, b.start}), w)
          BY <4>1, <4>3, <5>1, <5>2 DEF Stands
        <5>5. b.type = e.type /\ Apart(b.start, e.start) <= w /\ b.confidence < e.confidence
          BY <2>1, <5>2 DEF IsTwin
        <5>6. PICK p \in DOMAIN d: d[p] = b
          <6>1. PICK p \in 1..i: s[m] = d[p] BY <1>3 DEF MergeInv, AllFrom
          <6> QED BY <5>2, <6>1
        <5>7. Chain(d, a.type, Min({a.start, e.start}), Max({a.start, e.start}), w)
          BY <1>5, <5>3, <5>4, <5>5, <5>6, ChainOn
        <5>8. Stands(e, a, d, w) BY <1>5, <5>3, <5>4, <5>5, <5>7 DEF Stands
        <5> QED BY <2>2, <5>1, <5>8
      <4> QED BY <4>2, <4>3
    <3>2. CASE j = i + 1
      <4>1. Stands(e, e, d, w) BY StandsForItself
      <4> QED BY <1>1, <2>2, <3>2, <4>1
    <3> QED BY <1>6, <3>1, <3>2
  <2> QED BY <2>2, <2>3, <2>4, <2>5 DEF MergeInv
<1> QED BY <1>1, <1>7, <1>8, <1>9 DEF MergeStep

\* Nothing is kept of nothing.
LEMMA MergeStarts == ASSUME NEW d, NEW w PROVE MergeInv(<<>>, d, 0, w)
BY DEF MergeInv, AllFrom, FarApart

\* In the order of time.
Ascends(d) == \A k, l \in DOMAIN d: k < l => d[k].start <= d[l].start

\* KeepOrMerge of a list in the order of time is such a step.
LEMMA MergesByStep ==
    ASSUME NEW X, Timed(X), NEW s \in Seq(X), NEW e \in X, NEW w \in Nat,
           \A k \in DOMAIN s: s[k].start <= e.start
    PROVE  MergeStep(s, e, KeepOrMerge(s, e, w), w)
<1> DEFINE T == Twins(s, e, w)
<1>1. \A m: m \in T <=> m \in DOMAIN s /\ IsTwin(s[m], e, w) BY DEF Twins, IsTwin
<1>2. T \subseteq Nat BY DEF Twins
<1>3. KeepOrMerge(s, e, w) = IF T = {} THEN Append(s, e)
          ELSE IF e.confidence > s[Min(T)].confidence THEN [s EXCEPT ![Min(T)] = e] ELSE s
  BY DEF KeepOrMerge
<1> HIDE DEF T
<1>4. CASE T = {} BY <1>1, <1>3, <1>4 DEF MergeStep
<1>5. CASE T # {}
  <2>1. PICK m: m = Min(T) OBVIOUS
  <2>2. m \in T BY <1>2, <1>5, <2>1, MinIsMember
  <2>3. m \in DOMAIN s /\ IsTwin(s[m], e, w) BY <1>1, <2>2
  <2>4. s[m].confidence \in Int /\ e.confidence \in Int
    <3>1. s[m] \in X BY <2>3
    <3> QED BY <3>1 DEF Timed
  <2>5. KeepOrMerge(s, e, w) = IF e.confidence > s[m].confidence THEN [s EXCEPT ![m] = e] ELSE s
    BY <1>3, <1>5, <2>1
  <2>6. CASE e.confidence > s[m].confidence
    <3>1. KeepOrMerge(s, e, w) = [s EXCEPT ![m] = e] BY <2>5, <2>6
    <3> QED BY <2>3, <2>4, <2>6, <3>1 DEF MergeStep
  <2>7. CASE ~(e.confidence > s[m].confidence)
    <3>1. KeepOrMerge(s, e, w) = s BY <2>5, <2>7
    <3> QED BY <2>3, <2>4, <2>7, <3>1 DEF MergeStep
  <2> QED BY <2>6, <2>7
<1> QED BY <1>4, <1>5

\* deduplicate_events, over a list of any length in the order of time.
LEMMA MergedMerges ==
    ASSUME NEW X, Timed(X), NEW d \in Seq(X), Ascends(d), NEW w \in Nat
    PROVE  Merged(d, w) \in Seq(X) /\ MergeInv(Merged(d, w), d, Len(d), w)
<1>1. PICK n \in Nat: n = Len(d) OBVIOUS
<1>2. DOMAIN d = 1..n /\ \A i \in 1..n: d[i] \in X BY <1>1
<1>3. PICK g: /\ g[0] = <<>> /\ g[n] = Merged(d, w)
              /\ \A i \in 1..n: g[i] = KeepOrMerge(g[i - 1], d[i], w)
  BY <1>1, MergedSteps
<1> DEFINE Good(i) == i <= n => g[i] \in Seq(X) /\ MergeInv(g[i], d, i, w)
           S == {i \in Nat: Good(i)}
<1>4. Good(0) BY <1>3, MergeStarts
<1>5. ASSUME NEW i \in Nat, Good(i), i + 1 <= n PROVE Good(i + 1)
  <2>1. i + 1 \in 1..n /\ (i + 1) - 1 = i BY <1>5
  <2>2. PICK s: s = g[i] OBVIOUS
  <2>3. s \in Seq(X) /\ MergeInv(s, d, i, w) BY <1>5, <2>2
  <2>4. PICK e \in X: e = d[i + 1] BY <1>2, <2>1
  <2>5. \A k \in DOMAIN s: s[k].start <= e.start
    <3> SUFFICES ASSUME NEW k \in DOMAIN s PROVE s[k].start <= e.start OBVIOUS
    <3>1. PICK j \in 1..i: s[k] = d[j] BY <2>3 DEF MergeInv, AllFrom
    <3>2. j \in DOMAIN d /\ i + 1 \in DOMAIN d /\ j < i + 1 BY <1>2, <2>1
    <3> QED BY <2>4, <3>1, <3>2 DEF Ascends
  <2>6. PICK t: t = KeepOrMerge(s, e, w) OBVIOUS
  <2>7. MergeStep(s, e, t, w) BY <2>3, <2>5, <2>6, MergesByStep
  <2>8. t \in Seq(X) /\ MergeInv(t, d, i + 1, w)
    BY <1>1, <1>5, <2>3, <2>4, <2>7, MergeStepKeeps
  <2>9. g[i + 1] = t BY <1>3, <2>1, <2>2, <2>4, <2>6
  <2> QED BY <2>8, <2>9
<1>6. ASSUME NEW i \in Nat, i \in S PROVE i + 1 \in S
  <2>1. Good(i) BY <1>6
  <2>2. i + 1 <= n => Good(i + 1)
    <3> HIDE DEF Good
    <3> QED BY <1>5, <2>1
  <2>3. ~(i + 1 <= n) => Good(i + 1) OBVIOUS
  <2> HIDE DEF Good
  <2> QED BY <2>2, <2>3
<1>7. 0 \in S
  <2> HIDE DEF Good
  <2> QED BY <1>4
<1>8. n \in S
  <2> HIDE DEF S
  <2> QED BY <1>6, <1>7, SetInduction
<1>9. Good(n)
  <2> HIDE DEF Good
  <2> QED BY <1>8
<1> QED BY <1>1, <1>3, <1>9

-----------------------------------------------------------------------------
(* The three orders, and what deduplicate_events keeps                     *)

\* The order of sorted() by confidence: the surer one first, then as they came.
SurerOrder(list, n) ==
    {e \in (1..n) \X (1..n): \/ Surer(list[e[1]], list[e[2]])
                             \/ (~Surer(list[e[2]], list[e[1]]) /\ e[1] < e[2])}

\* What sorted() by confidence returns.
LEMMA SortedSurer ==
    ASSUME NEW n \in Nat, NEW list, DOMAIN list = 1..n,
           \A i \in 1..n: list[i].confidence \in Int
    PROVE  \E p: Permutes(p, SurerOrder(list, n), n, list, SortedBy(list, Surer))
<1> DEFINE Before(i, j) == \/ Surer(list[i], list[j])
                           \/ (~Surer(list[j], list[i]) /\ i < j)
           R == SurerOrder(list, n)
           Rank(i) == Cardinality({j \in DOMAIN list:
                          \/ Surer(list[j], list[i])
                          \/ (~Surer(list[i], list[j]) /\ j <= i)})
<1>1. \A i, j \in 1..n: <<i, j>> \in R <=> Before(i, j) BY DEF SurerOrder
<1>2. Orders(R, n)
  <2>1. \A i \in 1..n: ~Before(i, i) BY DEF Surer
  <2>2. \A i, j \in 1..n: i = j \/ Before(i, j) \/ Before(j, i) BY DEF Surer
  <2>3. \A i, j, k \in 1..n: Before(i, j) /\ Before(j, k) => Before(i, k)
    BY DEF Surer
  <2> HIDE DEF Before, R
  <2> QED BY <1>1, <2>1, <2>2, <2>3 DEF Orders
<1>3. ASSUME NEW i \in 1..n PROVE Rank(i) = Cardinality(UpTo(R, n, i))
  <2>1. \A j \in 1..n: j \in UpTo(R, n, i) <=> j = i \/ Before(j, i)
    <3> HIDE DEF Before, R
    <3> QED BY <1>1 DEF UpTo
  <2>2. \A j \in 1..n: j = i \/ Before(j, i)
           <=> Surer(list[j], list[i]) \/ (~Surer(list[i], list[j]) /\ j <= i)
    BY DEF Surer
  <2>3. UpTo(R, n, i) = {j \in DOMAIN list: \/ Surer(list[j], list[i])
                                           \/ (~Surer(list[i], list[j]) /\ j <= i)}
    <3> HIDE DEF Before, R
    <3> QED BY <2>1, <2>2 DEF UpTo
  <2> QED BY <2>3
<1>4. SortedBy(list, Surer)
         = [k \in DOMAIN list |-> list[CHOOSE i \in DOMAIN list: Rank(i) = k]]
  BY DEF SortedBy, RankOf
<1> HIDE DEF R, Rank
<1> DEFINE sorted == [k \in DOMAIN list |-> list[CHOOSE i \in DOMAIN list: Rank(i) = k]]
<1>5. ASSUME NEW k \in 1..n, NEW i \in 1..n, Cardinality(UpTo(R, n, i)) = k
      PROVE  sorted[k] = list[i]
  <2>1. \A j \in 1..n: Rank(j) = k <=> j = i BY <1>2, <1>3, <1>5, RanksDiffer
  <2>2. (CHOOSE j \in DOMAIN list: Rank(j) = k) = i BY <2>1
  <2> QED BY <2>2
<1>6. sorted = [k \in 1..n |-> sorted[k]] OBVIOUS
<1> HIDE DEF sorted
<1>7. \E p: Permutes(p, R, n, list, sorted) BY <1>2, <1>5, <1>6, RanksPermute
<1> QED BY <1>4, <1>7, Zenon DEF R, sorted

\* r is s in another order.
Rearranges(r, s) ==
    /\ Len(r) = Len(s)
    /\ \E q: /\ q \in [DOMAIN r -> DOMAIN s]
             /\ \A i \in DOMAIN s: \E k \in DOMAIN r: q[k] = i
             /\ \A k, l \in DOMAIN r: k # l => q[k] # q[l]
             /\ \A k \in DOMAIN r: r[k] = s[q[k]]

\* The surest first.
Descends(d) == \A k, l \in DOMAIN d: k < l => d[k].confidence >= d[l].confidence

\* What sorted() returns is the list in another order.
LEMMA PermutedRearranges ==
    ASSUME NEW X, NEW s \in Seq(X), NEW p, NEW R, NEW r, Permutes(p, R, Len(s), s, r)
    PROVE  r \in Seq(X) /\ Rearranges(r, s)
<1>1. PICK n \in Nat: n = Len(s) OBVIOUS
<1>2. DOMAIN s = 1..n /\ \A i \in 1..n: s[i] \in X BY <1>1
<1>3. p \in [1..n -> 1..n] /\ r = [k \in 1..n |-> s[p[k]]] BY <1>1 DEF Permutes
<1>4. r \in [1..n -> X] BY <1>2, <1>3
<1>5. r \in Seq(X) /\ Len(r) = n /\ DOMAIN r = 1..n BY <1>4
<1>6. \A k, l \in 1..n: k < l => p[k] # p[l] BY <1>1 DEF Permutes
<1>7. \A k, l \in 1..n: k # l => k < l \/ l < k OBVIOUS
<1>8. \A k, l \in 1..n: k # l => p[k] # p[l] BY <1>6, <1>7
<1>9. \A i \in 1..n: \E k \in 1..n: p[k] = i BY <1>1 DEF Permutes
<1>10. \A k \in 1..n: r[k] = s[p[k]] BY <1>3
<1>11. Rearranges(r, s) BY <1>1, <1>2, <1>3, <1>5, <1>8, <1>9, <1>10 DEF Rearranges
<1> QED BY <1>5, <1>11

\* The order by time is one.
LEMMA SortsByTimeOrdered ==
    ASSUME NEW n \in Nat, NEW s, \A i \in 1..n: s[i].start \in Int /\ s[i].confidence \in Int,
           NEW p, NEW r, Permutes(p, EarlierOrder(s, n), n, s, r)
    PROVE  Ascends(r)
<1>1. DOMAIN r = 1..n BY DEF Permutes
<1> SUFFICES ASSUME NEW k \in 1..n, NEW l \in 1..n, k < l PROVE r[k].start <= r[l].start
  BY <1>1 DEF Ascends
<1>2. PICK i \in 1..n, j \in 1..n: i = p[k] /\ j = p[l] BY DEF Permutes
<1>3. r[k] = s[i] /\ r[l] = s[j] BY <1>2 DEF Permutes
<1>4. <<i, j>> \in EarlierOrder(s, n) BY <1>2 DEF Permutes
<1>5. Earlier(s[i], s[j]) \/ ~Earlier(s[j], s[i]) BY <1>4 DEF EarlierOrder
<1> QED BY <1>3, <1>5 DEF Earlier

\* sorted() by start, for a list of any length.
LEMMA SortsByTime ==
    ASSUME NEW X, Timed(X), NEW s \in Seq(X), NEW r, r = SortedBy(s, Earlier)
    PROVE  r \in Seq(X) /\ Rearranges(r, s) /\ Ascends(r)
<1>1. PICK n \in Nat: n = Len(s) OBVIOUS
<1>2. DOMAIN s = 1..n /\ \A i \in 1..n: s[i] \in X BY <1>1
<1>3. \A i \in 1..n: s[i].start \in Int /\ s[i].confidence \in Int BY <1>2 DEF Timed
<1>4. PICK p: Permutes(p, EarlierOrder(s, n), n, s, r)
  <2>1. \E p: Permutes(p, EarlierOrder(s, n), n, s, SortedBy(s, Earlier))
    BY <1>2, <1>3, SortedEarlier
  <2> QED BY <2>1, Zenon
<1>5. r \in Seq(X) /\ Rearranges(r, s) BY <1>1, <1>4, PermutedRearranges
<1>6. Ascends(r) BY <1>3, <1>4, SortsByTimeOrdered
<1> QED BY <1>5, <1>6

\* The order by time and confidence is one by time.
LEMMA SortsByTimeOrSurerOrdered ==
    ASSUME NEW n \in Nat, NEW s, \A i \in 1..n: s[i].start \in Int /\ s[i].confidence \in Int,
           NEW p, NEW r, Permutes(p, EarlierOrSurerOrder(s, n), n, s, r)
    PROVE  Ascends(r)
<1>1. DOMAIN r = 1..n BY DEF Permutes
<1> SUFFICES ASSUME NEW k \in 1..n, NEW l \in 1..n, k < l PROVE r[k].start <= r[l].start
  BY <1>1 DEF Ascends
<1>2. PICK i \in 1..n, j \in 1..n: i = p[k] /\ j = p[l] BY DEF Permutes
<1>3. r[k] = s[i] /\ r[l] = s[j] BY <1>2 DEF Permutes
<1>4. <<i, j>> \in EarlierOrSurerOrder(s, n) BY <1>2 DEF Permutes
<1>5. EarlierOrSurer(s[i], s[j]) \/ ~EarlierOrSurer(s[j], s[i]) BY <1>4 DEF EarlierOrSurerOrder
<1> QED BY <1>3, <1>5 DEF EarlierOrSurer, Earlier

\* sorted() by start and confidence, for a list of any length.
LEMMA SortsByTimeOrSurer ==
    ASSUME NEW X, Timed(X), NEW s \in Seq(X), NEW r, r = SortedBy(s, EarlierOrSurer)
    PROVE  r \in Seq(X) /\ Rearranges(r, s) /\ Ascends(r)
<1>1. PICK n \in Nat: n = Len(s) OBVIOUS
<1>2. DOMAIN s = 1..n /\ \A i \in 1..n: s[i] \in X BY <1>1
<1>3. \A i \in 1..n: s[i].start \in Int /\ s[i].confidence \in Int BY <1>2 DEF Timed
<1>4. PICK p: Permutes(p, EarlierOrSurerOrder(s, n), n, s, r)
  <2>1. \E p: Permutes(p, EarlierOrSurerOrder(s, n), n, s, SortedBy(s, EarlierOrSurer))
    BY <1>2, <1>3, SortedEarlierOrSurer
  <2> QED BY <2>1, Zenon
<1>5. r \in Seq(X) /\ Rearranges(r, s) BY <1>1, <1>4, PermutedRearranges
<1>6. Ascends(r) BY <1>3, <1>4, SortsByTimeOrSurerOrdered
<1> QED BY <1>5, <1>6

\* The order by confidence is one.
LEMMA SortsBySurerOrdered ==
    ASSUME NEW n \in Nat, NEW s, \A i \in 1..n: s[i].start \in Int /\ s[i].confidence \in Int,
           NEW p, NEW r, Permutes(p, SurerOrder(s, n), n, s, r)
    PROVE  Descends(r)
<1>1. DOMAIN r = 1..n BY DEF Permutes
<1> SUFFICES ASSUME NEW k \in 1..n, NEW l \in 1..n, k < l PROVE r[k].confidence >= r[l].confidence
  BY <1>1 DEF Descends
<1>2. PICK i \in 1..n, j \in 1..n: i = p[k] /\ j = p[l] BY DEF Permutes
<1>3. r[k] = s[i] /\ r[l] = s[j] BY <1>2 DEF Permutes
<1>4. <<i, j>> \in SurerOrder(s, n) BY <1>2 DEF Permutes
<1>5. Surer(s[i], s[j]) \/ ~Surer(s[j], s[i]) BY <1>4 DEF SurerOrder
<1> QED BY <1>3, <1>5 DEF Surer

\* sorted() by confidence, for a list of any length.
LEMMA SortsBySurer ==
    ASSUME NEW X, Timed(X), NEW s \in Seq(X), NEW r, r = SortedBy(s, Surer)
    PROVE  r \in Seq(X) /\ Rearranges(r, s) /\ Descends(r)
<1>1. PICK n \in Nat: n = Len(s) OBVIOUS
<1>2. DOMAIN s = 1..n /\ \A i \in 1..n: s[i] \in X BY <1>1
<1>3. \A i \in 1..n: s[i].start \in Int /\ s[i].confidence \in Int BY <1>2 DEF Timed
<1>4. PICK p: Permutes(p, SurerOrder(s, n), n, s, r)
  <2>1. \E p: Permutes(p, SurerOrder(s, n), n, s, SortedBy(s, Surer))
    BY <1>2, <1>3, SortedSurer
  <2> QED BY <2>1, Zenon
<1>5. r \in Seq(X) /\ Rearranges(r, s) BY <1>1, <1>4, PermutedRearranges
<1>6. Descends(r) BY <1>3, <1>4, SortsBySurerOrdered
<1> QED BY <1>5, <1>6

\* A list in another order has the same elements.
LEMMA SameElements ==
    ASSUME NEW r, NEW s, Rearranges(r, s)
    PROVE  /\ \A k \in DOMAIN r: \E i \in DOMAIN s: r[k] = s[i]
           /\ \A i \in DOMAIN s: \E k \in DOMAIN r: r[k] = s[i]
BY DEF Rearranges

\* Distances do not depend on the order.
LEMMA FarApartRearranged ==
    ASSUME NEW r, NEW s, Rearranges(r, s), NEW w, FarApart(s, w)
    PROVE  FarApart(r, w)
<1>1. PICK q: /\ q \in [DOMAIN r -> DOMAIN s]
              /\ \A k, l \in DOMAIN r: k # l => q[k] # q[l]
              /\ \A k \in DOMAIN r: r[k] = s[q[k]]
  BY DEF Rearranges
<1> SUFFICES ASSUME NEW k \in DOMAIN r, NEW l \in DOMAIN r, k # l, r[k].type = r[l].type
             PROVE  Apart(r[k].start, r[l].start) > w
  BY DEF FarApart
<1>2. PICK i \in DOMAIN s, j \in DOMAIN s: i = q[k] /\ j = q[l] /\ i # j BY <1>1
<1>3. r[k] = s[i] /\ r[l] = s[j] BY <1>1, <1>2
<1> QED BY <1>2, <1>3 DEF FarApart

\* A list is one order of itself.
LEMMA RearrangesItself ==
    ASSUME NEW s
    PROVE  Rearranges(s, s)
<1>1. PICK q: q = [k \in DOMAIN s |-> k] OBVIOUS
<1>2. /\ q \in [DOMAIN s -> DOMAIN s]
      /\ \A i \in DOMAIN s: \E k \in DOMAIN s: q[k] = i
      /\ \A k, l \in DOMAIN s: k # l => q[k] # q[l]
      /\ \A k \in DOMAIN s: s[k] = s[q[k]]
  BY <1>1
<1> QED BY <1>2 DEF Rearranges

\* What is kept of a list thins it.
LEMMA KeptThins ==
    ASSUME NEW X, Timed(X), NEW list \in Seq(X), NEW d \in Seq(X), Rearranges(d, list),
           NEW w \in Nat, NEW s \in Seq(X), MergeInv(s, d, Len(d), w),
           NEW kept \in Seq(X), Rearranges(kept, s), Ascends(kept)
    PROVE  Thins(list, kept, w)
<1>1. PICK n \in Nat, m \in Nat: /\ n = Len(d) /\ m = Len(list) /\ DOMAIN d = 1..n
                                 /\ DOMAIN list = 1..m
  OBVIOUS
<1>2. /\ \A k \in DOMAIN d: \E i \in DOMAIN list: d[k] = list[i]
      /\ \A i \in DOMAIN list: \E k \in DOMAIN d: d[k] = list[i]
  BY SameElements
<1>3. \A k \in DOMAIN kept: kept[k] \in X /\ kept[k].start \in Int
  <2>1. \A k \in DOMAIN kept: kept[k] \in X OBVIOUS
  <2> QED BY <2>1 DEF Timed
<1>4. ToSet(kept) \subseteq ToSet(list)
  <2> SUFFICES ASSUME NEW k \in DOMAIN kept PROVE \E i \in DOMAIN list: kept[k] = list[i]
    BY DEF ToSet
  <2>1. PICK l \in DOMAIN s: kept[k] = s[l] BY SameElements
  <2>2. PICK j \in 1..n: s[l] = d[j] BY <1>1 DEF MergeInv, AllFrom
  <2>3. PICK i \in DOMAIN list: d[j] = list[i] BY <1>2, <1>1
  <2> QED BY <2>1, <2>2, <2>3
<1>5. ASSUME NEW i \in DOMAIN kept, NEW j \in DOMAIN kept, i < j
      PROVE  /\ kept[i].start <= kept[j].start
             /\ kept[i].type = kept[j].type => kept[j].start - kept[i].start > w
  <2>1. kept[i].start <= kept[j].start BY <1>5 DEF Ascends
  <2>2. FarApart(kept, w) BY FarApartRearranged DEF MergeInv
  <2>3. kept[i].type = kept[j].type => Apart(kept[i].start, kept[j].start) > w
    BY <1>5, <2>2 DEF FarApart
  <2> QED BY <1>3, <2>1, <2>3 DEF Apart
<1>6. ASSUME NEW e \in ToSet(list)
      PROVE  \E k \in ToSet(kept):
                /\ k.type = e.type
                /\ k.confidence >= e.confidence
                /\ Chain(list, e.type, Min({e.start, k.start}), Max({e.start, k.start}), w)
  <2>1. PICK i \in DOMAIN list: e = list[i] BY DEF ToSet
  <2>2. PICK j \in 1..n: e = d[j] BY <1>2, <1>1, <2>1
  <2>3. PICK l \in DOMAIN s: Stands(s[l], e, d, w) BY <1>1, <2>2 DEF MergeInv
  <2>4. PICK k \in DOMAIN kept: kept[k] = s[l] BY SameElements
  <2>5. kept[k] \in ToSet(kept) BY DEF ToSet
  <2>6. \A x \in DOMAIN d: \E y \in DOMAIN list: d[x] = list[y] BY SameElements
  <2>7. PICK b: b = kept[k] OBVIOUS
  <2>8. /\ b.type = e.type /\ b.confidence >= e.confidence
        /\ Chain(d, e.type, Min({e.start, b.start}), Max({e.start, b.start}), w)
    BY <2>3, <2>4, <2>7 DEF Stands
  <2>9. Chain(list, e.type, Min({e.start, b.start}), Max({e.start, b.start}), w)
    BY <2>6, <2>8, ChainOfSame
  <2> QED BY <2>5, <2>7, <2>8, <2>9
<1> QED BY <1>4, <1>5, <1>6 DEF Thins

\* deduplicate_events thins every list.
LEMMA DeduplicatedThins ==
    ASSUME NEW X, Timed(X), NEW list \in Seq(X), NEW w \in Nat
    PROVE  Deduplicated(list, w) \in Seq(X) /\ Thins(list, Deduplicated(list, w), w)
<1>1. PICK d: d = SortedBy(list, EarlierOrSurer) OBVIOUS
<1>2. d \in Seq(X) /\ Rearranges(d, list) /\ Ascends(d) BY <1>1, SortsByTimeOrSurer
<1>3. PICK s: s = Merged(d, w) OBVIOUS
<1>4. s \in Seq(X) /\ MergeInv(s, d, Len(d), w) BY <1>2, <1>3, MergedMerges
<1>5. PICK r: r = SortedBy(s, Earlier) OBVIOUS
<1>6. r \in Seq(X) /\ Rearranges(r, s) /\ Ascends(r) BY <1>4, <1>5, SortsByTime
<1>7. Thins(list, r, w) BY <1>2, <1>4, <1>6, KeptThins
<1>8. r = Deduplicated(list, w) BY <1>1, <1>3, <1>5, Zenon DEF Deduplicated
<1> QED BY <1>6, <1>7, <1>8

\* A list with no twins has nothing to thin.
LEMMA NothingToThin ==
    ASSUME NEW X, Timed(X), NEW list \in Seq(X), NEW w \in Nat,
           NEW kept \in Seq(X), Thins(list, kept, w), NEW again, Thins(kept, again, w)
    PROVE  ToSet(again) = ToSet(kept)
<1>1. ToSet(again) \subseteq ToSet(kept) BY DEF Thins
<1> SUFFICES ASSUME NEW e \in ToSet(kept) \ ToSet(again) PROVE FALSE BY <1>1
<1>2. \A x \in ToSet(kept): x \in X /\ x.start \in Int
  <2>1. \A x \in ToSet(kept): x \in X BY DEF ToSet
  <2> QED BY <2>1 DEF Timed
<1>3. PICK k \in ToSet(again):
         /\ k.type = e.type
         /\ Chain(kept, e.type, Min({e.start, k.start}), Max({e.start, k.start}), w)
  BY DEF Thins
<1>4. ASSUME NEW a \in ToSet(kept), NEW b \in ToSet(kept), a # b, a.type = b.type
      PROVE  Apart(a.start, b.start) > w
  <2>1. PICK i \in DOMAIN kept, j \in DOMAIN kept: a = kept[i] /\ b = kept[j] /\ i # j
    BY <1>4 DEF ToSet
  <2>2. i < j \/ j < i
    <3>1. i \in Nat /\ j \in Nat OBVIOUS
    <3> QED BY <2>1, <3>1
  <2>3. i < j => b.start - a.start > w BY <1>4, <2>1 DEF Thins
  <2>4. j < i => a.start - b.start > w BY <1>4, <2>1 DEF Thins
  <2> QED BY <1>2, <2>2, <2>3, <2>4 DEF Apart
<1>5. k \in ToSet(kept) /\ k # e BY <1>1
<1>6. PICK x \in Int, y \in Int: x = e.start /\ y = k.start BY <1>2, <1>5
<1>7. Apart(x, y) > w BY <1>3, <1>4, <1>5, <1>6
<1>8. PICK a \in Int, b \in Int: /\ a = Min({x, y}) /\ b = Max({x, y})
                                 /\ a \in a..(b - w - 1) /\ a = (IF y < x THEN y ELSE x)
  BY <1>6, <1>7, MinOfPair, MaxOfPair DEF Apart
<1>9. PICK n \in DOMAIN kept: kept[n].type = e.type /\ kept[n].start \in (a + 1)..(a + w)
  BY <1>3, <1>6, <1>8 DEF Chain
<1>10. PICK c: c = kept[n] OBVIOUS
<1>11. c \in ToSet(kept) /\ c.start \in Int /\ c.type = e.type /\ c.start \in (a + 1)..(a + w)
  BY <1>2, <1>9, <1>10 DEF ToSet
<1>12. CASE a = x
  <2>1. c # e BY <1>6, <1>11, <1>12
  <2>2. Apart(c.start, x) > w BY <1>4, <1>6, <1>11, <2>1
  <2> QED BY <1>6, <1>11, <1>12, <2>2 DEF Apart
<1>13. CASE a = y
  <2>1. c # k BY <1>6, <1>11, <1>13
  <2>2. Apart(c.start, y) > w BY <1>3, <1>4, <1>5, <1>6, <1>11, <2>1
  <2> QED BY <1>6, <1>11, <1>13, <2>2 DEF Apart
<1> QED BY <1>8, <1>12, <1>13

-----------------------------------------------------------------------------
(* The other loops, turn by turn                                           *)

\* The numbers up to i, and the last of them.
LEMMA TopOfInterval ==
    ASSUME NEW n \in Nat, NEW i \in 1..n
    PROVE  1..i \in SUBSET (1..n) /\ 1..i # {} /\ Max(1..i) = i /\ (1..i) \ {Max(1..i)} = 1..(i - 1)
<1>1. PICK k \in Nat: i = k + 1 OBVIOUS
<1>2. 1..i \in SUBSET (1..(k + 1)) /\ k + 1 \in 1..i BY <1>1
<1>3. Max(1..i) = i BY <1>1, <1>2, MaxOfInterval
<1> QED BY <1>3

\* One turn of _nms_spots makes a list of spots of one.
LEMMA ReplaceOne ==
    ASSUME NEW X, NEW rest \in Seq(X), NEW e \in X, NEW w
    PROVE  KeepOrReplace(rest, e, w) \in Seq(X)
<1>1. PICK n \in Nat: n = Len(rest) OBVIOUS
<1>2. DOMAIN rest = 1..n /\ \A k \in 1..n: rest[k] \in X BY <1>1
<1>3. [rest EXCEPT ![n] = e] \in [1..n -> X] BY <1>2
<1>4. [rest EXCEPT ![n] = e] \in Seq(X) BY <1>3
<1>5. Append(rest, e) \in Seq(X) OBVIOUS
<1> QED BY <1>1, <1>4, <1>5 DEF KeepOrReplace

\* One turn of action_spots_from_features does too.
LEMMA AloneOne ==
    ASSUME NEW X, NEW rest \in Seq(X), NEW e \in X, NEW w
    PROVE  KeepAlone(rest, e, w) \in Seq(X)
<1>1. Append(rest, e) \in Seq(X) OBVIOUS
<1> QED BY <1>1 DEF KeepAlone

\* One turn of a comprehension with a condition.
OnlyStep(found, e, chosen) == IF e \in chosen THEN Append(found, e) ELSE found

\* Such a turn makes a list of a list.
LEMMA OnlyOne ==
    ASSUME NEW X, NEW rest \in Seq(X), NEW e \in X, NEW c
    PROVE  OnlyStep(rest, e, c) \in Seq(X)
<1>1. Append(rest, e) \in Seq(X) OBVIOUS
<1> QED BY <1>1 DEF OnlyStep

\* One turn of the loop over the sources of a group does too.
LEMMA IndependentOne ==
    ASSUME NEW X, NEW rest \in Seq(X), NEW e \in X
    PROVE  AddIndependent(rest, e) \in Seq(X)
<1>1. Append(rest, e) \in Seq(X) OBVIOUS
<1> QED BY <1>1 DEF AddIndependent

\* One turn of fuse_events makes groups of groups.
LEMMA JoinOne ==
    ASSUME NEW X, NEW groups \in Seq(Seq(X)), NEW e \in X, NEW w
    PROVE  JoinOrOpen(groups, e, w) \in Seq(Seq(X))
<1>1. PICK Y: Y = Seq(X) OBVIOUS
<1>2. <<e>> \in Y BY <1>1
<1>3. Append(groups, <<e>>) \in Seq(Y) BY <1>1, <1>2
<1>4. groups # <<>> => groups[Len(groups)] \in Y BY <1>1
<1>5. groups # <<>> => Append(groups[Len(groups)], e) \in Y BY <1>1, <1>4
<1>6. groups # <<>> => [groups EXCEPT ![Len(groups)] = Append(groups[Len(groups)], e)] \in Seq(Y)
  BY <1>1, <1>5
<1> QED BY <1>1, <1>3, <1>6 DEF JoinOrOpen

\* The confidences of a list are hundredths.
Sure(X) == \A e \in X: e.confidence \in 0..100

\* 1 - (1 - c) * (1 - d), cut to hundredths, is no less sure than either, and at most certain.
LEMMA NoisyOrBounds ==
    ASSUME NEW c \in 0..100, NEW d \in 0..100
    PROVE  NoisyOr(c, d) \in 0..100 /\ NoisyOr(c, d) >= c /\ NoisyOr(c, d) >= d
<1>1. PICK p \in Nat: p = c * d OBVIOUS
<1>2. p <= 100 * d /\ p <= 100 * c BY <1>1
<1>3. (100 - c) * (100 - d) = 10000 - 100 * c - 100 * d + p BY <1>1
<1>4. (100 - c) * (100 - d) \in Nat
  <2>1. 100 - c \in Nat /\ 100 - d \in Nat OBVIOUS
  <2> QED BY <2>1
<1>5. PICK q \in Nat, r \in Nat: q = p \div 100 /\ r = p % 100 OBVIOUS
<1>6. p = q * 100 + r /\ r < 100 BY <1>5
<1>7. NoisyOr(c, d) = c + d - q BY <1>1, <1>5 DEF NoisyOr
<1> QED BY <1>2, <1>3, <1>4, <1>6, <1>7

\* The loop of _nms_spots, turn by turn.
LEMMA ReplacedSteps ==
    ASSUME NEW X, NEW d \in Seq(X), NEW n \in Nat, n = Len(d), NEW w
    PROVE  \E g: /\ g[0] = <<>> /\ g[n] = Replaced(d, w)
                 /\ \A i \in 1..n: g[i] = KeepOrReplace(g[i - 1], d[i], w)
<1> DEFINE A == Seq(X)
           f == [p \in A \X (1..n) |-> KeepOrReplace(p[1], d[p[2]], w)]
           IsFold(h) == h = [s \in SUBSET (1..n) |->
                         IF s = {} THEN <<>> ELSE KeepOrReplace(h[s \ {Max(s)}], d[Max(s)], w)]
           iter == CHOOSE h: IsFold(h)
<1>1. DOMAIN d = 1..n /\ \A i \in 1..n: d[i] \in X OBVIOUS
<1>2. f \in [A \X (1..n) -> A]
  <2> SUFFICES ASSUME NEW rest \in A, NEW i \in 1..n PROVE KeepOrReplace(rest, d[i], w) \in A
    OBVIOUS
  <2>1. PICK e \in X: e = d[i] BY <1>1
  <2>2. KeepOrReplace(rest, e, w) \in A BY <2>1, ReplaceOne
  <2> QED BY <2>1, <2>2
<1>3. PICK h: Folds(h, A, <<>>, n, f)
  <2>1. <<>> \in A OBVIOUS
  <2> HIDE DEF f, A
  <2> QED BY <1>2, <2>1, FoldExists
<1>4. IsFold(h)
  <2>1. ASSUME NEW s \in SUBSET (1..n), s # {}
        PROVE  h[s] = KeepOrReplace(h[s \ {Max(s)}], d[Max(s)], w)
    <3>1. Max(s) \in 1..n BY <2>1, MaxIsMember
    <3>2. h[s \ {Max(s)}] \in A BY <1>3 DEF Folds
    <3>3. h[s] = f[<<h[s \ {Max(s)}], Max(s)>>]
      <4> HIDE DEF f
      <4> QED BY <1>3, <2>1 DEF Folds
    <3>4. <<h[s \ {Max(s)}], Max(s)>> \in A \X (1..n) BY <3>1, <3>2
    <3> QED BY <3>3, <3>4
  <2>2. h[{}] = <<>> BY <1>3 DEF Folds
  <2>3. h = [s \in SUBSET (1..n) |-> h[s]] BY <1>3 DEF Folds
  <2> QED BY <2>1, <2>2, <2>3
<1>5. IsFold(iter)
  <2> HIDE DEF IsFold
  <2> QED BY <1>4
<1>6. Replaced(d, w) = iter[1..n]
  BY <1>1 DEF Replaced, FoldLeft, MapThenFoldSet
<1> HIDE DEF iter
<1>7. iter[{}] = <<>> BY <1>5
<1>8. ASSUME NEW i \in 1..n PROVE iter[1..i] = KeepOrReplace(iter[1..(i - 1)], d[i], w)
  BY <1>5, TopOfInterval
<1> DEFINE g == [i \in 0..n |-> iter[1..i]]
<1>9. g[0] = <<>> /\ g[n] = Replaced(d, w) BY <1>6, <1>7
<1>10. \A i \in 1..n: g[i] = KeepOrReplace(g[i - 1], d[i], w) BY <1>8
<1> HIDE DEF g
<1> QED BY <1>9, <1>10

\* The loop of action_spots_from_features, turn by turn.
LEMMA KeptAloneSteps ==
    ASSUME NEW X, NEW d \in Seq(X), NEW n \in Nat, n = Len(d), NEW w
    PROVE  \E g: /\ g[0] = <<>> /\ g[n] = KeptAlone(d, w)
                 /\ \A i \in 1..n: g[i] = KeepAlone(g[i - 1], d[i], w)
<1> DEFINE A == Seq(X)
           f == [p \in A \X (1..n) |-> KeepAlone(p[1], d[p[2]], w)]
           IsFold(h) == h = [s \in SUBSET (1..n) |->
                         IF s = {} THEN <<>> ELSE KeepAlone(h[s \ {Max(s)}], d[Max(s)], w)]
           iter == CHOOSE h: IsFold(h)
<1>1. DOMAIN d = 1..n /\ \A i \in 1..n: d[i] \in X OBVIOUS
<1>2. f \in [A \X (1..n) -> A]
  <2> SUFFICES ASSUME NEW rest \in A, NEW i \in 1..n PROVE KeepAlone(rest, d[i], w) \in A OBVIOUS
  <2>1. PICK e \in X: e = d[i] BY <1>1
  <2>2. KeepAlone(rest, e, w) \in A BY <2>1, AloneOne
  <2> QED BY <2>1, <2>2
<1>3. PICK h: Folds(h, A, <<>>, n, f)
  <2>1. <<>> \in A OBVIOUS
  <2> HIDE DEF f, A
  <2> QED BY <1>2, <2>1, FoldExists
<1>4. IsFold(h)
  <2>1. ASSUME NEW s \in SUBSET (1..n), s # {}
        PROVE  h[s] = KeepAlone(h[s \ {Max(s)}], d[Max(s)], w)
    <3>1. Max(s) \in 1..n BY <2>1, MaxIsMember
    <3>2. h[s \ {Max(s)}] \in A BY <1>3 DEF Folds
    <3>3. h[s] = f[<<h[s \ {Max(s)}], Max(s)>>]
      <4> HIDE DEF f
      <4> QED BY <1>3, <2>1 DEF Folds
    <3>4. <<h[s \ {Max(s)}], Max(s)>> \in A \X (1..n) BY <3>1, <3>2
    <3> QED BY <3>3, <3>4
  <2>2. h[{}] = <<>> BY <1>3 DEF Folds
  <2>3. h = [s \in SUBSET (1..n) |-> h[s]] BY <1>3 DEF Folds
  <2> QED BY <2>1, <2>2, <2>3
<1>5. IsFold(iter)
  <2> HIDE DEF IsFold
  <2> QED BY <1>4
<1>6. KeptAlone(d, w) = iter[1..n]
  BY <1>1 DEF KeptAlone, FoldLeft, MapThenFoldSet
<1> HIDE DEF iter
<1>7. iter[{}] = <<>> BY <1>5
<1>8. ASSUME NEW i \in 1..n PROVE iter[1..i] = KeepAlone(iter[1..(i - 1)], d[i], w)
  BY <1>5, TopOfInterval
<1> DEFINE g == [i \in 0..n |-> iter[1..i]]
<1>9. g[0] = <<>> /\ g[n] = KeptAlone(d, w) BY <1>6, <1>7
<1>10. \A i \in 1..n: g[i] = KeepAlone(g[i - 1], d[i], w) BY <1>8
<1> HIDE DEF g
<1> QED BY <1>9, <1>10

\* A comprehension with a condition, turn by turn.
LEMMA OnlySteps ==
    ASSUME NEW X, NEW d \in Seq(X), NEW n \in Nat, n = Len(d), NEW c
    PROVE  \E g: /\ g[0] = <<>> /\ g[n] = Only(d, c)
                 /\ \A i \in 1..n: g[i] = OnlyStep(g[i - 1], d[i], c)
<1> DEFINE A == Seq(X)
           f == [p \in A \X (1..n) |-> OnlyStep(p[1], d[p[2]], c)]
           IsFold(h) == h = [s \in SUBSET (1..n) |->
                         IF s = {} THEN <<>> ELSE OnlyStep(h[s \ {Max(s)}], d[Max(s)], c)]
           iter == CHOOSE h: IsFold(h)
<1>1. DOMAIN d = 1..n /\ \A i \in 1..n: d[i] \in X OBVIOUS
<1>2. f \in [A \X (1..n) -> A]
  <2> SUFFICES ASSUME NEW rest \in A, NEW i \in 1..n PROVE OnlyStep(rest, d[i], c) \in A OBVIOUS
  <2>1. PICK e \in X: e = d[i] BY <1>1
  <2>2. OnlyStep(rest, e, c) \in A BY <2>1, OnlyOne
  <2> QED BY <2>1, <2>2
<1>3. PICK h: Folds(h, A, <<>>, n, f)
  <2>1. <<>> \in A OBVIOUS
  <2> HIDE DEF f, A
  <2> QED BY <1>2, <2>1, FoldExists
<1>4. IsFold(h)
  <2>1. ASSUME NEW s \in SUBSET (1..n), s # {}
        PROVE  h[s] = OnlyStep(h[s \ {Max(s)}], d[Max(s)], c)
    <3>1. Max(s) \in 1..n BY <2>1, MaxIsMember
    <3>2. h[s \ {Max(s)}] \in A BY <1>3 DEF Folds
    <3>3. h[s] = f[<<h[s \ {Max(s)}], Max(s)>>]
      <4> HIDE DEF f
      <4> QED BY <1>3, <2>1 DEF Folds
    <3>4. <<h[s \ {Max(s)}], Max(s)>> \in A \X (1..n) BY <3>1, <3>2
    <3> QED BY <3>3, <3>4
  <2>2. h[{}] = <<>> BY <1>3 DEF Folds
  <2>3. h = [s \in SUBSET (1..n) |-> h[s]] BY <1>3 DEF Folds
  <2> QED BY <2>1, <2>2, <2>3
<1>5. IsFold(iter)
  <2> HIDE DEF IsFold
  <2> QED BY <1>4
<1>6. Only(d, c) = iter[1..n]
  BY <1>1 DEF Only, FoldLeft, MapThenFoldSet, OnlyStep
<1> HIDE DEF iter
<1>7. iter[{}] = <<>> BY <1>5
<1>8. ASSUME NEW i \in 1..n PROVE iter[1..i] = OnlyStep(iter[1..(i - 1)], d[i], c)
  BY <1>5, TopOfInterval
<1> DEFINE g == [i \in 0..n |-> iter[1..i]]
<1>9. g[0] = <<>> /\ g[n] = Only(d, c) BY <1>6, <1>7
<1>10. \A i \in 1..n: g[i] = OnlyStep(g[i - 1], d[i], c) BY <1>8
<1> HIDE DEF g
<1> QED BY <1>9, <1>10

\* The loop over the sources of a group, turn by turn.
LEMMA IndependentSteps ==
    ASSUME NEW X, NEW d \in Seq(X), NEW n \in Nat, n = Len(d)
    PROVE  \E g: /\ g[0] = <<>> /\ g[n] = Independent(d)
                 /\ \A i \in 1..n: g[i] = AddIndependent(g[i - 1], d[i])
<1> DEFINE A == Seq(X)
           f == [p \in A \X (1..n) |-> AddIndependent(p[1], d[p[2]])]
           IsFold(h) == h = [s \in SUBSET (1..n) |->
                         IF s = {} THEN <<>> ELSE AddIndependent(h[s \ {Max(s)}], d[Max(s)])]
           iter == CHOOSE h: IsFold(h)
<1>1. DOMAIN d = 1..n /\ \A i \in 1..n: d[i] \in X OBVIOUS
<1>2. f \in [A \X (1..n) -> A]
  <2> SUFFICES ASSUME NEW rest \in A, NEW i \in 1..n PROVE AddIndependent(rest, d[i]) \in A OBVIOUS
  <2>1. PICK e \in X: e = d[i] BY <1>1
  <2>2. AddIndependent(rest, e) \in A BY <2>1, IndependentOne
  <2> QED BY <2>1, <2>2
<1>3. PICK h: Folds(h, A, <<>>, n, f)
  <2>1. <<>> \in A OBVIOUS
  <2> HIDE DEF f, A
  <2> QED BY <1>2, <2>1, FoldExists
<1>4. IsFold(h)
  <2>1. ASSUME NEW s \in SUBSET (1..n), s # {}
        PROVE  h[s] = AddIndependent(h[s \ {Max(s)}], d[Max(s)])
    <3>1. Max(s) \in 1..n BY <2>1, MaxIsMember
    <3>2. h[s \ {Max(s)}] \in A BY <1>3 DEF Folds
    <3>3. h[s] = f[<<h[s \ {Max(s)}], Max(s)>>]
      <4> HIDE DEF f
      <4> QED BY <1>3, <2>1 DEF Folds
    <3>4. <<h[s \ {Max(s)}], Max(s)>> \in A \X (1..n) BY <3>1, <3>2
    <3> QED BY <3>3, <3>4
  <2>2. h[{}] = <<>> BY <1>3 DEF Folds
  <2>3. h = [s \in SUBSET (1..n) |-> h[s]] BY <1>3 DEF Folds
  <2> QED BY <2>1, <2>2, <2>3
<1>5. IsFold(iter)
  <2> HIDE DEF IsFold
  <2> QED BY <1>4
<1>6. Independent(d) = iter[1..n]
  BY <1>1 DEF Independent, FoldLeft, MapThenFoldSet
<1> HIDE DEF iter
<1>7. iter[{}] = <<>> BY <1>5
<1>8. ASSUME NEW i \in 1..n PROVE iter[1..i] = AddIndependent(iter[1..(i - 1)], d[i])
  BY <1>5, TopOfInterval
<1> DEFINE g == [i \in 0..n |-> iter[1..i]]
<1>9. g[0] = <<>> /\ g[n] = Independent(d) BY <1>6, <1>7
<1>10. \A i \in 1..n: g[i] = AddIndependent(g[i - 1], d[i]) BY <1>8
<1> HIDE DEF g
<1> QED BY <1>9, <1>10

\* The loop of fuse_events, turn by turn.
LEMMA GroupsSteps ==
    ASSUME NEW X, NEW d \in Seq(X), NEW n \in Nat, n = Len(d), NEW w
    PROVE  \E g: /\ g[0] = <<>> /\ g[n] = Groups(d, w)
                 /\ \A i \in 1..n: g[i] = JoinOrOpen(g[i - 1], d[i], w)
<1> DEFINE A == Seq(Seq(X))
           f == [p \in A \X (1..n) |-> JoinOrOpen(p[1], d[p[2]], w)]
           IsFold(h) == h = [s \in SUBSET (1..n) |->
                         IF s = {} THEN <<>> ELSE JoinOrOpen(h[s \ {Max(s)}], d[Max(s)], w)]
           iter == CHOOSE h: IsFold(h)
<1>1. DOMAIN d = 1..n /\ \A i \in 1..n: d[i] \in X OBVIOUS
<1>2. f \in [A \X (1..n) -> A]
  <2> SUFFICES ASSUME NEW rest \in A, NEW i \in 1..n PROVE JoinOrOpen(rest, d[i], w) \in A OBVIOUS
  <2>1. PICK e \in X: e = d[i] BY <1>1
  <2>2. JoinOrOpen(rest, e, w) \in A BY <2>1, JoinOne
  <2> QED BY <2>1, <2>2
<1>3. PICK h: Folds(h, A, <<>>, n, f)
  <2>1. <<>> \in A OBVIOUS
  <2> HIDE DEF f, A
  <2> QED BY <1>2, <2>1, FoldExists
<1>4. IsFold(h)
  <2>1. ASSUME NEW s \in SUBSET (1..n), s # {}
        PROVE  h[s] = JoinOrOpen(h[s \ {Max(s)}], d[Max(s)], w)
    <3>1. Max(s) \in 1..n BY <2>1, MaxIsMember
    <3>2. h[s \ {Max(s)}] \in A BY <1>3 DEF Folds
    <3>3. h[s] = f[<<h[s \ {Max(s)}], Max(s)>>]
      <4> HIDE DEF f
      <4> QED BY <1>3, <2>1 DEF Folds
    <3>4. <<h[s \ {Max(s)}], Max(s)>> \in A \X (1..n) BY <3>1, <3>2
    <3> QED BY <3>3, <3>4
  <2>2. h[{}] = <<>> BY <1>3 DEF Folds
  <2>3. h = [s \in SUBSET (1..n) |-> h[s]] BY <1>3 DEF Folds
  <2> QED BY <2>1, <2>2, <2>3
<1>5. IsFold(iter)
  <2> HIDE DEF IsFold
  <2> QED BY <1>4
<1>6. Groups(d, w) = iter[1..n]
  BY <1>1 DEF Groups, FoldLeft, MapThenFoldSet
<1> HIDE DEF iter
<1>7. iter[{}] = <<>> BY <1>5
<1>8. ASSUME NEW i \in 1..n PROVE iter[1..i] = JoinOrOpen(iter[1..(i - 1)], d[i], w)
  BY <1>5, TopOfInterval
<1> DEFINE g == [i \in 0..n |-> iter[1..i]]
<1>9. g[0] = <<>> /\ g[n] = Groups(d, w) BY <1>6, <1>7
<1>10. \A i \in 1..n: g[i] = JoinOrOpen(g[i - 1], d[i], w) BY <1>8
<1> HIDE DEF g
<1> QED BY <1>9, <1>10

\* The product of the doubts of a group, factor by factor.
LEMMA ConfidenceSteps ==
    ASSUME NEW X, Sure(X), NEW d \in Seq(X), NEW n \in Nat, n = Len(d)
    PROVE  \E g: /\ g[0] = 0 /\ g[n] = ConfidenceOf(d)
                 /\ \A i \in 1..n: g[i] = NoisyOr(g[i - 1], d[i].confidence)
<1> DEFINE A == 0..100
           f == [p \in A \X (1..n) |-> NoisyOr(p[1], d[p[2]].confidence)]
           IsFold(h) == h = [s \in SUBSET (1..n) |->
                         IF s = {} THEN 0 ELSE NoisyOr(h[s \ {Max(s)}], d[Max(s)].confidence)]
           iter == CHOOSE h: IsFold(h)
<1>1. DOMAIN d = 1..n /\ \A i \in 1..n: d[i] \in X OBVIOUS
<1>2. f \in [A \X (1..n) -> A]
  <2> SUFFICES ASSUME NEW rest \in A, NEW i \in 1..n PROVE NoisyOr(rest, d[i].confidence) \in A
    OBVIOUS
  <2>1. PICK e \in X: e = d[i] BY <1>1
  <2>2. NoisyOr(rest, e.confidence) \in A BY <2>1, NoisyOrBounds DEF Sure
  <2> QED BY <2>1, <2>2
<1>3. PICK h: Folds(h, A, 0, n, f)
  <2>1. 0 \in A OBVIOUS
  <2> HIDE DEF f, A
  <2> QED BY <1>2, <2>1, FoldExists
<1>4. IsFold(h)
  <2>1. ASSUME NEW s \in SUBSET (1..n), s # {}
        PROVE  h[s] = NoisyOr(h[s \ {Max(s)}], d[Max(s)].confidence)
    <3>1. Max(s) \in 1..n BY <2>1, MaxIsMember
    <3>2. h[s \ {Max(s)}] \in A BY <1>3 DEF Folds
    <3>3. h[s] = f[<<h[s \ {Max(s)}], Max(s)>>]
      <4> HIDE DEF f
      <4> QED BY <1>3, <2>1 DEF Folds
    <3>4. <<h[s \ {Max(s)}], Max(s)>> \in A \X (1..n) BY <3>1, <3>2
    <3> QED BY <3>3, <3>4
  <2>2. h[{}] = 0 BY <1>3 DEF Folds
  <2>3. h = [s \in SUBSET (1..n) |-> h[s]] BY <1>3 DEF Folds
  <2> QED BY <2>1, <2>2, <2>3
<1>5. IsFold(iter)
  <2> HIDE DEF IsFold
  <2> QED BY <1>4
<1>6. ConfidenceOf(d) = iter[1..n]
  BY <1>1 DEF ConfidenceOf, FoldLeft, MapThenFoldSet
<1> HIDE DEF iter
<1>7. iter[{}] = 0 BY <1>5
<1>8. ASSUME NEW i \in 1..n PROVE iter[1..i] = NoisyOr(iter[1..(i - 1)], d[i].confidence)
  BY <1>5, TopOfInterval
<1> DEFINE g == [i \in 0..n |-> iter[1..i]]
<1>9. g[0] = 0 /\ g[n] = ConfidenceOf(d) BY <1>6, <1>7
<1>10. \A i \in 1..n: g[i] = NoisyOr(g[i - 1], d[i].confidence) BY <1>8
<1> HIDE DEF g
<1> QED BY <1>9, <1>10

-----------------------------------------------------------------------------
(* What _nms_spots and action_spots_from_features keep                     *)

\* Of a list, those that are chosen.
LEMMA OnlyChosen ==
    ASSUME NEW X, NEW d \in Seq(X), NEW c, NEW r, r = Only(d, c)
    PROVE  /\ r \in Seq(X)
           /\ \A k \in DOMAIN r: r[k] \in c /\ \E j \in DOMAIN d: r[k] = d[j]
           /\ \A j \in DOMAIN d: d[j] \in c => \E k \in DOMAIN r: r[k] = d[j]
<1>1. PICK n \in Nat: n = Len(d) OBVIOUS
<1>2. DOMAIN d = 1..n /\ \A i \in 1..n: d[i] \in X BY <1>1
<1>3. PICK g: /\ g[0] = <<>> /\ g[n] = Only(d, c)
              /\ \A i \in 1..n: g[i] = OnlyStep(g[i - 1], d[i], c)
  BY <1>1, OnlySteps
<1> DEFINE Good(i) == i <= n =>
              /\ g[i] \in Seq(X)
              /\ \A k \in DOMAIN g[i]: g[i][k] \in c /\ \E j \in 1..i: g[i][k] = d[j]
              /\ \A j \in 1..i: d[j] \in c => \E k \in DOMAIN g[i]: g[i][k] = d[j]
           S == {i \in Nat: Good(i)}
<1>4. Good(0) BY <1>3
<1>5. ASSUME NEW i \in Nat, Good(i), i + 1 <= n PROVE Good(i + 1)
  <2>1. i + 1 \in 1..n /\ (i + 1) - 1 = i BY <1>5
  <2>2. PICK s: s = g[i] OBVIOUS
  <2>3. /\ s \in Seq(X)
        /\ \A k \in DOMAIN s: s[k] \in c /\ \E j \in 1..i: s[k] = d[j]
        /\ \A j \in 1..i: d[j] \in c => \E k \in DOMAIN s: s[k] = d[j]
    BY <1>5, <2>2
  <2>4. PICK e \in X: e = d[i + 1] BY <1>2, <2>1
  <2>5. PICK t: t = g[i + 1] OBVIOUS
  <2>6. t = IF e \in c THEN Append(s, e) ELSE s BY <1>3, <2>1, <2>2, <2>4, <2>5 DEF OnlyStep
  <2>7. \A j \in 1..(i + 1): j \in 1..i \/ j = i + 1 OBVIOUS
  <2>8. \A j \in 1..i: j \in 1..(i + 1) OBVIOUS
  <2>9. /\ t \in Seq(X)
        /\ \A k \in DOMAIN t: t[k] \in c /\ \E j \in 1..(i + 1): t[k] = d[j]
        /\ \A j \in 1..(i + 1): d[j] \in c => \E k \in DOMAIN t: t[k] = d[j]
    <3>1. CASE e \notin c
      <4>1. t = s BY <2>6, <3>1
      <4>2. \A k \in DOMAIN t: t[k] \in c /\ \E j \in 1..(i + 1): t[k] = d[j]
        BY <2>3, <2>8, <4>1
      <4>3. \A j \in 1..(i + 1): d[j] \in c => \E k \in DOMAIN t: t[k] = d[j]
        BY <2>3, <2>4, <2>7, <3>1, <4>1
      <4> QED BY <2>3, <4>1, <4>2, <4>3
    <3>2. CASE e \in c
      <4>1. PICK m \in Nat: m = Len(s) BY <2>3
      <4>2. /\ t \in Seq(X) /\ DOMAIN t = 1..(m + 1) /\ t[m + 1] = e /\ DOMAIN s = 1..m
            /\ \A k \in 1..m: t[k] = s[k]
        BY <2>3, <2>6, <3>2, <4>1
      <4>3. \A k \in DOMAIN t: k \in 1..m \/ k = m + 1 BY <4>2
      <4>4. \A k \in DOMAIN t: t[k] \in c /\ \E j \in 1..(i + 1): t[k] = d[j]
        <5> SUFFICES ASSUME NEW k \in DOMAIN t
                     PROVE  t[k] \in c /\ \E j \in 1..(i + 1): t[k] = d[j]
          OBVIOUS
        <5>1. CASE k \in 1..m BY <2>3, <2>8, <4>2, <5>1
        <5>2. CASE k = m + 1 BY <2>4, <3>2, <4>2, <5>2
        <5> QED BY <4>3, <5>1, <5>2
      <4>5. \A j \in 1..(i + 1): d[j] \in c => \E k \in DOMAIN t: t[k] = d[j]
        <5> SUFFICES ASSUME NEW j \in 1..(i + 1), d[j] \in c
                     PROVE  \E k \in DOMAIN t: t[k] = d[j]
          OBVIOUS
        <5>1. CASE j \in 1..i
          <6>1. PICK k \in DOMAIN s: s[k] = d[j] BY <2>3, <5>1
          <6> QED BY <4>2, <6>1
        <5>2. CASE j = i + 1 BY <2>4, <4>2, <5>2
        <5> QED BY <2>7, <5>1, <5>2
      <4> QED BY <4>2, <4>4, <4>5
    <3> QED BY <3>1, <3>2
  <2> QED BY <2>5, <2>9
<1>6. ASSUME NEW i \in Nat, i \in S PROVE i + 1 \in S
  <2>1. Good(i) BY <1>6
  <2>2. i + 1 <= n => Good(i + 1)
    <3> HIDE DEF Good
    <3> QED BY <1>5, <2>1
  <2>3. ~(i + 1 <= n) => Good(i + 1) OBVIOUS
  <2> HIDE DEF Good
  <2> QED BY <2>2, <2>3
<1>7. 0 \in S
  <2> HIDE DEF Good
  <2> QED BY <1>4
<1>8. n \in S
  <2> HIDE DEF S
  <2> QED BY <1>6, <1>7, SetInduction
<1>9. Good(n)
  <2> HIDE DEF Good
  <2> QED BY <1>8
<1>10. r = g[n] /\ n <= n BY <1>3
<1>11. /\ g[n] \in Seq(X)
       /\ \A k \in DOMAIN g[n]: g[n][k] \in c /\ \E j \in 1..n: g[n][k] = d[j]
       /\ \A j \in 1..n: d[j] \in c => \E k \in DOMAIN g[n]: g[n][k] = d[j]
  BY <1>9, <1>10, Zenon
<1> QED BY <1>2, <1>10, <1>11, Zenon

\* All of one type.
OneType(d) == \A i, j \in DOMAIN d: d[i].type = d[j].type

\* _nms_spots replaces only the last spot, and only by a later one.
LEMMA ReplacesByStep ==
    ASSUME NEW X, Timed(X), NEW s \in Seq(X), Ascends(s), NEW e \in X, NEW w \in Nat,
           \A k \in DOMAIN s: s[k].start <= e.start /\ s[k].type = e.type,
           NEW t, t = KeepOrReplace(s, e, w)
    PROVE  MergeStep(s, e, t, w) /\ Ascends(t)
<1>1. PICK n \in Nat: n = Len(s) /\ DOMAIN s = 1..n OBVIOUS
<1>2. \A k \in 1..n: s[k].start \in Int /\ s[k].confidence \in Int
  <2>1. \A k \in 1..n: s[k] \in X BY <1>1
  <2> QED BY <2>1 DEF Timed
<1>3. e.start \in Int /\ e.confidence \in Int BY DEF Timed
<1>4. CASE \A k \in DOMAIN s: Apart(s[k].start, e.start) > w
  <2>1. t = Append(s, e) BY <1>4 DEF KeepOrReplace
  <2>2. \A k \in DOMAIN s: ~IsTwin(s[k], e, w)
    <3> SUFFICES ASSUME NEW k \in DOMAIN s PROVE ~(Apart(s[k].start, e.start) <= w) BY DEF IsTwin
    <3>1. Apart(s[k].start, e.start) \in Int BY <1>1, <1>2, <1>3 DEF Apart
    <3> QED BY <1>4, <3>1
  <2>3. MergeStep(s, e, t, w) BY <2>1, <2>2 DEF MergeStep
  <2>4. /\ DOMAIN t = 1..(n + 1) /\ t[n + 1] = e
        /\ \A k \in 1..n: t[k] = s[k]
    BY <1>1, <2>1
  <2>5. Ascends(t)
    <3> SUFFICES ASSUME NEW k \in 1..(n + 1), NEW l \in 1..(n + 1), k < l
                 PROVE  t[k].start <= t[l].start
      BY <2>4 DEF Ascends
    <3>1. CASE l \in 1..n
      <4>1. k \in 1..n BY <3>1
      <4>2. s[k].start <= s[l].start BY <1>1, <3>1, <4>1 DEF Ascends
      <4> QED BY <2>4, <3>1, <4>1, <4>2
    <3>2. CASE l = n + 1
      <4>1. k \in 1..n BY <3>2
      <4> QED BY <1>1, <2>4, <3>2, <4>1
    <3> QED BY <3>1, <3>2
  <2> QED BY <2>3, <2>5
<1>5. CASE ~(\A k \in DOMAIN s: Apart(s[k].start, e.start) > w)
  <2>1. PICK k \in 1..n: ~(Apart(s[k].start, e.start) > w) BY <1>1, <1>5
  <2>2. n \in 1..n /\ (k = n \/ k < n) BY <2>1
  <2>3. s[k].start <= s[n].start BY <1>1, <1>2, <2>2 DEF Ascends
  <2>4. s[n].start <= e.start /\ s[n].type = e.type BY <1>1, <2>2
  <2>5. IsTwin(s[n], e, w)
    <3>1. s[k].start \in Int /\ s[n].start \in Int BY <1>2, <2>2
    <3> QED BY <1>3, <2>1, <2>3, <2>4, <3>1 DEF IsTwin, Apart
  <2>6. t = IF e.confidence > s[n].confidence THEN [s EXCEPT ![n] = e] ELSE s
    BY <1>1, <1>5 DEF KeepOrReplace
  <2>7. CASE e.confidence > s[n].confidence
    <3>1. t = [s EXCEPT ![n] = e] BY <2>6, <2>7
    <3>2. s[n].confidence < e.confidence BY <1>2, <1>3, <2>2, <2>7
    <3>3. MergeStep(s, e, t, w) BY <1>1, <2>2, <2>5, <3>1, <3>2 DEF MergeStep
    <3>4. DOMAIN t = 1..n /\ t[n] = e /\ \A i \in 1..n: i # n => t[i] = s[i] BY <1>1, <3>1
    <3>5. Ascends(t)
      <4> SUFFICES ASSUME NEW i \in 1..n, NEW l \in 1..n, i < l PROVE t[i].start <= t[l].start
        BY <3>4 DEF Ascends
      <4>1. i # n BY <2>1
      <4>2. CASE l = n BY <1>1, <3>4, <4>1, <4>2
      <4>3. CASE l # n
        <5>1. s[i].start <= s[l].start BY <1>1 DEF Ascends
        <5> QED BY <3>4, <4>1, <4>3, <5>1
      <4> QED BY <4>2, <4>3
    <3> QED BY <3>3, <3>5
  <2>8. CASE ~(e.confidence > s[n].confidence)
    <3>1. t = s BY <2>6, <2>8
    <3>2. s[n].confidence >= e.confidence BY <1>2, <1>3, <2>2, <2>8
    <3> QED BY <1>1, <2>2, <2>5, <3>1, <3>2 DEF MergeStep
  <2> QED BY <2>7, <2>8
<1> QED BY <1>4, <1>5

\* _nms_spots, over spots of one class in the order of time.
LEMMA ReplacedMerges ==
    ASSUME NEW X, Timed(X), NEW d \in Seq(X), Ascends(d), OneType(d), NEW w \in Nat
    PROVE  Replaced(d, w) \in Seq(X) /\ MergeInv(Replaced(d, w), d, Len(d), w)
              /\ Ascends(Replaced(d, w))
<1>1. PICK n \in Nat: n = Len(d) OBVIOUS
<1>2. DOMAIN d = 1..n /\ \A i \in 1..n: d[i] \in X BY <1>1
<1>3. PICK g: /\ g[0] = <<>> /\ g[n] = Replaced(d, w)
              /\ \A i \in 1..n: g[i] = KeepOrReplace(g[i - 1], d[i], w)
  BY <1>1, ReplacedSteps
<1> DEFINE Good(i) == i <= n => g[i] \in Seq(X) /\ MergeInv(g[i], d, i, w) /\ Ascends(g[i])
           S == {i \in Nat: Good(i)}
<1>4. Good(0)
  <2>1. Ascends(<<>>) BY DEF Ascends
  <2> QED BY <1>3, <2>1, MergeStarts
<1>5. ASSUME NEW i \in Nat, Good(i), i + 1 <= n PROVE Good(i + 1)
  <2>1. i + 1 \in 1..n /\ (i + 1) - 1 = i BY <1>5
  <2>2. PICK s: s = g[i] OBVIOUS
  <2>3. s \in Seq(X) /\ MergeInv(s, d, i, w) /\ Ascends(s) BY <1>5, <2>2
  <2>4. PICK e \in X: e = d[i + 1] BY <1>2, <2>1
  <2>5. \A k \in DOMAIN s: s[k].start <= e.start /\ s[k].type = e.type
    <3> SUFFICES ASSUME NEW k \in DOMAIN s PROVE s[k].start <= e.start /\ s[k].type = e.type
      OBVIOUS
    <3>1. PICK j \in 1..i: s[k] = d[j] BY <2>3 DEF MergeInv, AllFrom
    <3>2. j \in DOMAIN d /\ i + 1 \in DOMAIN d /\ j < i + 1 BY <1>2, <2>1
    <3> QED BY <2>4, <3>1, <3>2 DEF Ascends, OneType
  <2>6. PICK t: t = KeepOrReplace(s, e, w) OBVIOUS
  <2>7. MergeStep(s, e, t, w) /\ Ascends(t) BY <2>3, <2>5, <2>6, ReplacesByStep
  <2>8. t \in Seq(X) /\ MergeInv(t, d, i + 1, w)
    BY <1>1, <1>5, <2>3, <2>4, <2>7, MergeStepKeeps
  <2>9. g[i + 1] = t BY <1>3, <2>1, <2>2, <2>4, <2>6
  <2> QED BY <2>7, <2>8, <2>9
<1>6. ASSUME NEW i \in Nat, i \in S PROVE i + 1 \in S
  <2>1. Good(i) BY <1>6
  <2>2. i + 1 <= n => Good(i + 1)
    <3> HIDE DEF Good
    <3> QED BY <1>5, <2>1
  <2>3. ~(i + 1 <= n) => Good(i + 1) OBVIOUS
  <2> HIDE DEF Good
  <2> QED BY <2>2, <2>3
<1>7. 0 \in S
  <2> HIDE DEF Good
  <2> QED BY <1>4
<1>8. n \in S
  <2> HIDE DEF S
  <2> QED BY <1>6, <1>7, SetInduction
<1>9. Good(n)
  <2> HIDE DEF Good
  <2> QED BY <1>8
<1> QED BY <1>1, <1>3, <1>9

\* Every spot has one as sure in its window.
NearSurer(s, d, i, w) ==
    \A j \in 1..i: \E k \in DOMAIN s:
        s[k].confidence >= d[j].confidence /\ Apart(s[k].start, d[j].start) <= w

\* A turn of action_spots_from_features is such a step: what was kept is surer.
LEMMA AloneByStep ==
    ASSUME NEW X, Timed(X), NEW d \in Seq(X), NEW i \in Nat, i + 1 <= Len(d), NEW w \in Nat,
           Descends(d), OneType(d),
           NEW s \in Seq(X), AllFrom(s, d, i), NearSurer(s, d, i, w),
           NEW t, t = KeepAlone(s, d[i + 1], w)
    PROVE  MergeStep(s, d[i + 1], t, w) /\ NearSurer(t, d, i + 1, w)
<1>1. PICK n \in Nat: n = Len(s) /\ DOMAIN s = 1..n OBVIOUS
<1>2. PICK e \in X: e = d[i + 1] OBVIOUS
<1>3. \A k \in 1..n: s[k].start \in Int /\ s[k].confidence \in Int
  <2>1. \A k \in 1..n: s[k] \in X BY <1>1
  <2> QED BY <2>1 DEF Timed
<1>4. e.start \in Int /\ e.confidence \in Int BY DEF Timed
<1>5. \A k \in 1..n: s[k].type = e.type /\ s[k].confidence >= e.confidence
  <2> SUFFICES ASSUME NEW k \in 1..n PROVE s[k].type = e.type /\ s[k].confidence >= e.confidence
    OBVIOUS
  <2>1. PICK j \in 1..i: s[k] = d[j] BY <1>1 DEF AllFrom
  <2>2. j \in DOMAIN d /\ i + 1 \in DOMAIN d /\ j < i + 1 OBVIOUS
  <2> QED BY <1>2, <2>1, <2>2 DEF Descends, OneType
<1>6. \A j \in 1..(i + 1): j \in 1..i \/ j = i + 1 OBVIOUS
<1>7. CASE \E k \in DOMAIN s: Apart(s[k].start, e.start) <= w
  <2>1. PICK k \in 1..n: Apart(s[k].start, e.start) <= w BY <1>1, <1>7
  <2>2. t = s BY <1>2, <1>7 DEF KeepAlone
  <2>3. MergeStep(s, e, t, w) BY <1>1, <1>5, <2>1, <2>2 DEF MergeStep, IsTwin
  <2>4. NearSurer(t, d, i + 1, w)
    <3> SUFFICES ASSUME NEW j \in 1..(i + 1)
                 PROVE  \E l \in DOMAIN s: /\ s[l].confidence >= d[j].confidence
                                           /\ Apart(s[l].start, d[j].start) <= w
      BY <2>2 DEF NearSurer
    <3>1. CASE j \in 1..i BY <3>1 DEF NearSurer
    <3>2. CASE j = i + 1 BY <1>1, <1>2, <1>5, <2>1, <3>2
    <3> QED BY <1>6, <3>1, <3>2
  <2> QED BY <1>2, <2>3, <2>4
<1>8. CASE ~ \E k \in DOMAIN s: Apart(s[k].start, e.start) <= w
  <2>1. t = Append(s, e) BY <1>2, <1>8 DEF KeepAlone
  <2>2. MergeStep(s, e, t, w) BY <1>8, <2>1 DEF MergeStep, IsTwin
  <2>3. DOMAIN t = 1..(n + 1) /\ t[n + 1] = e /\ \A k \in 1..n: t[k] = s[k] BY <1>1, <2>1
  <2>4. NearSurer(t, d, i + 1, w)
    <3> SUFFICES ASSUME NEW j \in 1..(i + 1)
                 PROVE  \E l \in DOMAIN t: /\ t[l].confidence >= d[j].confidence
                                           /\ Apart(t[l].start, d[j].start) <= w
      BY DEF NearSurer
    <3>1. CASE j \in 1..i
      <4>1. PICK l \in 1..n: /\ s[l].confidence >= d[j].confidence
                             /\ Apart(s[l].start, d[j].start) <= w
        BY <1>1, <3>1 DEF NearSurer
      <4>2. l \in DOMAIN t /\ t[l] = s[l] BY <1>1, <2>3
      <4> QED BY <4>1, <4>2
    <3>2. CASE j = i + 1
      <4>1. Apart(e.start, e.start) = 0 BY <1>4 DEF Apart
      <4>2. e.confidence >= e.confidence /\ Apart(e.start, e.start) <= w BY <1>4, <4>1
      <4>3. n + 1 \in DOMAIN t /\ t[n + 1] = d[j] BY <1>2, <2>3, <3>2
      <4>4. t[n + 1].confidence >= d[j].confidence /\ Apart(t[n + 1].start, d[j].start) <= w
        BY <1>2, <3>2, <4>2, <4>3
      <4> QED BY <4>3, <4>4
    <3> QED BY <1>6, <3>1, <3>2
  <2> QED BY <1>2, <2>2, <2>4
<1> QED BY <1>7, <1>8

\* action_spots_from_features, over spots of one class, the surest first.
LEMMA KeptAloneMerges ==
    ASSUME NEW X, Timed(X), NEW d \in Seq(X), Descends(d), OneType(d), NEW w \in Nat
    PROVE  /\ KeptAlone(d, w) \in Seq(X) /\ MergeInv(KeptAlone(d, w), d, Len(d), w)
           /\ NearSurer(KeptAlone(d, w), d, Len(d), w)
<1>1. PICK n \in Nat: n = Len(d) OBVIOUS
<1>2. DOMAIN d = 1..n /\ \A i \in 1..n: d[i] \in X BY <1>1
<1>3. PICK g: /\ g[0] = <<>> /\ g[n] = KeptAlone(d, w)
              /\ \A i \in 1..n: g[i] = KeepAlone(g[i - 1], d[i], w)
  BY <1>1, KeptAloneSteps
<1> DEFINE Good(i) == i <= n => /\ g[i] \in Seq(X) /\ MergeInv(g[i], d, i, w)
                                /\ NearSurer(g[i], d, i, w)
           S == {i \in Nat: Good(i)}
<1>4. Good(0)
  <2>1. NearSurer(<<>>, d, 0, w) BY DEF NearSurer
  <2> QED BY <1>3, <2>1, MergeStarts
<1>5. ASSUME NEW i \in Nat, Good(i), i + 1 <= n PROVE Good(i + 1)
  <2>1. i + 1 \in 1..n /\ (i + 1) - 1 = i BY <1>5
  <2>2. PICK s: s = g[i] OBVIOUS
  <2>3. s \in Seq(X) /\ MergeInv(s, d, i, w) /\ NearSurer(s, d, i, w) BY <1>5, <2>2
  <2>4. PICK t: t = KeepAlone(s, d[i + 1], w) OBVIOUS
  <2>5. AllFrom(s, d, i) BY <2>3 DEF MergeInv
  <2>6. MergeStep(s, d[i + 1], t, w) /\ NearSurer(t, d, i + 1, w)
    BY <1>1, <1>5, <2>3, <2>4, <2>5, AloneByStep
  <2>7. t \in Seq(X) /\ MergeInv(t, d, i + 1, w)
    BY <1>1, <1>5, <2>3, <2>6, MergeStepKeeps
  <2>8. g[i + 1] = t BY <1>3, <2>1, <2>2, <2>4
  <2> QED BY <2>6, <2>7, <2>8
<1>6. ASSUME NEW i \in Nat, i \in S PROVE i + 1 \in S
  <2>1. Good(i) BY <1>6
  <2>2. i + 1 <= n => Good(i + 1)
    <3> HIDE DEF Good
    <3> QED BY <1>5, <2>1
  <2>3. ~(i + 1 <= n) => Good(i + 1) OBVIOUS
  <2> HIDE DEF Good
  <2> QED BY <2>2, <2>3
<1>7. 0 \in S
  <2> HIDE DEF Good
  <2> QED BY <1>4
<1>8. n \in S
  <2> HIDE DEF S
  <2> QED BY <1>6, <1>7, SetInduction
<1>9. Good(n)
  <2> HIDE DEF Good
  <2> QED BY <1>8
<1> QED BY <1>1, <1>3, <1>9

\* The order does not change the types.
LEMMA OneTypeRearranged ==
    ASSUME NEW d, NEW s, Rearranges(d, s), OneType(s)
    PROVE  OneType(d)
<1>1. \A k \in DOMAIN d: \E i \in DOMAIN s: d[k] = s[i] BY SameElements
<1> QED BY <1>1 DEF OneType

\* What _nms_spots leaves of the spots of one class thins them.
LEMMA ThinnedThins ==
    ASSUME NEW X, Timed(X), NEW spots \in Seq(X), OneType(spots), NEW w \in Nat
    PROVE  Thins(spots, Thinned(spots, w), w)
<1>1. PICK d: d = SortedBy(spots, Earlier) OBVIOUS
<1>2. d \in Seq(X) /\ Rearranges(d, spots) /\ Ascends(d) BY <1>1, SortsByTime
<1>3. OneType(d) BY <1>2, OneTypeRearranged
<1>4. PICK s: s = Replaced(d, w) OBVIOUS
<1>5. s \in Seq(X) /\ MergeInv(s, d, Len(d), w) /\ Ascends(s)
  BY <1>2, <1>3, <1>4, ReplacedMerges
<1>6. Rearranges(s, s) BY RearrangesItself
<1>7. Thins(spots, s, w) BY <1>2, <1>5, <1>6, KeptThins
<1>8. s = Thinned(spots, w) BY <1>1, <1>4, Zenon DEF Thinned
<1> QED BY <1>7, <1>8

\* What action_spots_from_features leaves thins them, and keeps a surer one in every window.
LEMMA SuppressedThins ==
    ASSUME NEW X, Timed(X), NEW spots \in Seq(X), OneType(spots), NEW w \in Nat,
           NEW kept, kept = Suppressed(spots, w)
    PROVE  /\ Thins(spots, kept, w)
           /\ \A s \in ToSet(spots): \E k \in ToSet(kept):
                 k.confidence >= s.confidence /\ Apart(k.start, s.start) <= w
<1>1. PICK d: d = SortedBy(spots, Surer) OBVIOUS
<1>2. d \in Seq(X) /\ Rearranges(d, spots) /\ Descends(d) BY <1>1, SortsBySurer
<1>3. OneType(d) BY <1>2, OneTypeRearranged
<1>4. PICK s: s = KeptAlone(d, w) OBVIOUS
<1>5. s \in Seq(X) /\ MergeInv(s, d, Len(d), w) /\ NearSurer(s, d, Len(d), w)
  BY <1>2, <1>3, <1>4, KeptAloneMerges
<1>6. PICK r: r = SortedBy(s, Earlier) OBVIOUS
<1>7. r \in Seq(X) /\ Rearranges(r, s) /\ Ascends(r) BY <1>5, <1>6, SortsByTime
<1>8. Thins(spots, r, w) BY <1>2, <1>5, <1>7, KeptThins
<1>9. r = kept BY <1>1, <1>4, <1>6, Zenon DEF Suppressed
<1>10. ASSUME NEW x \in ToSet(spots)
       PROVE  \E k \in ToSet(r): k.confidence >= x.confidence /\ Apart(k.start, x.start) <= w
  <2>1. PICK i \in DOMAIN spots: x = spots[i] BY DEF ToSet
  <2>2. \A y \in DOMAIN spots: \E z \in DOMAIN d: d[z] = spots[y] BY <1>2, SameElements
  <2>3. PICK j \in 1..Len(d): x = d[j] BY <1>2, <2>1, <2>2
  <2>4. PICK l \in DOMAIN s: s[l].confidence >= x.confidence /\ Apart(s[l].start, x.start) <= w
    BY <1>5, <2>3 DEF NearSurer
  <2>5. \A y \in DOMAIN s: \E z \in DOMAIN r: r[z] = s[y] BY <1>7, SameElements
  <2>6. PICK k \in DOMAIN r: r[k] = s[l] BY <2>5
  <2>7. r[k] \in ToSet(r) BY DEF ToSet
  <2> QED BY <2>4, <2>6, <2>7
<1> QED BY <1>8, <1>9, <1>10

-----------------------------------------------------------------------------
(* The invariant                                                           *)

\* Events of a list, whatever their number.
Events == [type: STRING, start: Nat, end: Nat, confidence: 0..100, source: SUBSET STRING,
           review: BOOLEAN, evidence: SUBSET Nat]

\* What is collected is typed, and an event is known by its evidence.
EventsFit ==
    /\ events \in Seq(Events)
    /\ \A n \in DOMAIN events: events[n].evidence = {n} /\ events[n].review

\* A plan passed the checks of FullMatchManifest.create.
PlansFit == plan # NoPlan => plan \in Plans /\ 0 < plan.duration /\ plan.overlap < plan.size

\* An array is one of those that the action model reads.
FeaturesFit == features # NoFeatures => features \in Features

\* The inductive invariant: what a run may have collected, planned and read.
ResultsInv == EventsFit /\ PlansFit /\ FeaturesFit

\* A run begins with nothing.
LEMMA ResultsStart == ResultsInit => ResultsInv
BY DEF ResultsInit, ResultsInv, EventsFit, PlansFit, FeaturesFit

\* An event more, with evidence of its own.
LEMMA Collected ==
    ASSUME ResultsInv, NEW e \in Found, Collect(e)
    PROVE  ResultsInv'
<1>1. e \in [type: STRING, source: SUBSET STRING, start: Nat, end: Nat, confidence: 0..100]
  BY ResultsAssumption
<1>2. PICK X: X = Events OBVIOUS
<1>3. PICK m \in Nat: m = Len(events) /\ events \in Seq(X) BY <1>2 DEF ResultsInv, EventsFit
<1>4. PICK a: a = [type |-> e.type, start |-> e.start, end |-> e.end, confidence |-> e.confidence,
                   source |-> e.source, review |-> TRUE, evidence |-> {Len(events) + 1}]
  OBVIOUS
<1>5. a \in X /\ a.evidence = {m + 1} /\ a.review BY <1>1, <1>2, <1>3, <1>4 DEF Events
<1>6. events' = Append(events, a) /\ plan' = plan /\ features' = features BY <1>4 DEF Collect
<1>7. /\ events' \in Seq(X) /\ DOMAIN events' = 1..(m + 1) /\ events'[m + 1] = a
      /\ \A n \in 1..m: events'[n] = events[n] /\ n \in DOMAIN events
  BY <1>3, <1>5, <1>6
<1>8. \A n \in DOMAIN events': n \in 1..m \/ n = m + 1 BY <1>7
<1>9. \A n \in DOMAIN events': events'[n].evidence = {n} /\ events'[n].review
  BY <1>5, <1>7, <1>8 DEF ResultsInv, EventsFit
<1>10. EventsFit' BY <1>2, <1>7, <1>9 DEF EventsFit, Events
<1> QED BY <1>6, <1>10 DEF ResultsInv, PlansFit, FeaturesFit, NoPlan, NoFeatures

\* Every step keeps the invariant.
LEMMA ResultsSteps == ResultsInv /\ [ResultsNext]_results => ResultsInv'
<1> SUFFICES ASSUME ResultsInv, [ResultsNext]_results PROVE ResultsInv' OBVIOUS
<1>1. ASSUME NEW e \in Found, Collect(e) PROVE ResultsInv' BY <1>1, Collected
<1>2. ASSUME NEW p \in Plans, Create(p) PROVE ResultsInv'
  BY <1>2 DEF Create, ResultsInv, EventsFit, PlansFit, FeaturesFit, NoPlan, NoFeatures, Events
<1>3. ASSUME NEW f \in Features, Spot(f) PROVE ResultsInv'
  BY <1>3 DEF Spot, ResultsInv, EventsFit, PlansFit, FeaturesFit, NoPlan, NoFeatures, Events
<1>4. CASE UNCHANGED results
  BY <1>4 DEF results, ResultsInv, EventsFit, PlansFit, FeaturesFit, NoPlan, NoFeatures, Events
<1> QED BY <1>1, <1>2, <1>3, <1>4 DEF ResultsNext

\* The invariant holds in every state.
LEMMA ResultsKept == ResultsSpec => []ResultsInv
BY ResultsStart, ResultsSteps, PTL DEF ResultsSpec

-----------------------------------------------------------------------------
(* WindowsTile                                                             *)

\* What is planned and read, by the lemmas about plan_chunks and spot.
LEMMA PlansTile == ResultsInv => WindowsTile
<1> SUFFICES ASSUME ResultsInv PROVE WindowsTile OBVIOUS
<1>1. ASSUME plan # NoPlan
      PROVE  /\ Planned[1].output = 0 /\ Planned[Len(Planned)].end = plan.duration
             /\ \A n \in DOMAIN Planned:
                   /\ Planned[n].context <= Planned[n].output /\ Planned[n].output < Planned[n].end
                   /\ Planned[n].end - Planned[n].context <= plan.size
                   /\ n > 1 => Planned[n].output = Planned[n - 1].end
             /\ \A m, n \in DOMAIN Planned:
                   m < n => \A f \in WrittenIn(m), g \in WrittenIn(n): f < g
             /\ \A f \in 0..(FirstFrame(plan.duration) - 1):
                   \/ \E n \in DOMAIN Planned: f \in WrittenIn(n)
                   \/ \E n \in 1..(Len(Planned) - 1):
                         /\ f = FirstFrame(Planned[n].end)
                         /\ f * Second * plan.fps[2] < Planned[n].end * plan.fps[1]
  <2>1. PICK d \in Nat \ {0}, size \in Nat, overlap \in Nat, fps \in (Nat \ {0}) \X (Nat \ {0}):
           /\ d = plan.duration /\ size = plan.size /\ overlap = plan.overlap /\ fps = plan.fps
           /\ overlap < size /\ fps[1] <= fps[2] * Second
    BY <1>1, ResultsAssumption DEF ResultsInv, PlansFit
  <2>2. IsRate(fps, Second) BY <2>1, ResultsAssumption DEF IsRate
  <2>3. PICK w: w = Windows(d, size, overlap) OBVIOUS
  <2>4. w = Planned BY <2>1, <2>3 DEF Planned
  <2>5. PutsOutAll(w, d, size) BY <2>1, <2>3, WindowsFollow
  <2>6. PICK l \in Nat \ {0}: l = Len(w) /\ DOMAIN w = 1..l BY <2>5 DEF PutsOutAll
  <2>7. w[1].output = 0 /\ w[l].end = d BY <2>5, <2>6 DEF PutsOutAll
  <2>8. ASSUME NEW n \in 1..l
        PROVE  /\ w[n].context <= w[n].output /\ w[n].output < w[n].end
               /\ w[n].end - w[n].context <= size
               /\ n > 1 => w[n].output = w[n - 1].end
    <3>1. /\ w[n].context <= w[n].output /\ w[n].output < w[n].end
          /\ w[n].end - w[n].context <= size
      BY <2>5, <2>6 DEF PutsOutAll
    <3>2. ASSUME n > 1 PROVE w[n].output = w[n - 1].end
      <4>1. PICK i \in 1..(l - 1): n = i + 1 BY <3>2
      <4>2. w[i + 1].output = w[i].end BY <2>5, <2>6 DEF PutsOutAll
      <4> QED BY <4>1, <4>2
    <3> QED BY <3>1, <3>2
  <2>9. Tiles(w, d, fps, Second)
    BY <2>1, <2>2, <2>3, PlanTiles
  <2> HIDE DEF NoPlan
  <2> QED BY <2>1, <2>4, <2>6, <2>7, <2>8, <2>9 DEF WrittenIn, FirstFrame, Tiles
<1>2. ASSUME features.length > features.size, NEW f \in 0..(features.length - 1),
             NEW windows,
             windows = SpotWindows(features.length, features.size, features.margin)
      PROVE  \E n \in DOMAIN windows:
                /\ f \in WrittenBy(windows[n], features.length, features.size, features.margin)
                /\ f \in windows[n].start..(windows[n].start + features.size - 1)
                /\ f - windows[n].start >= features.margin \/ n = 1
  <2>1. features # NoFeatures BY <1>2 DEF NoFeatures
  <2>2. PICK length \in Nat, size \in Nat, margin \in Nat:
           /\ length = features.length /\ size = features.size /\ margin = features.margin
           /\ 2 * margin < size
    BY <2>1, ResultsAssumption DEF ResultsInv, FeaturesFit
  <2>3. size < length /\ f \in 0..(length - 1) BY <1>2, <2>2
  <2>4. windows = SpotWindows(length, size, margin) BY <1>2, <2>2
  <2>5. ReadByOne(windows, f, length, size, margin) BY <2>2, <2>3, <2>4, FeaturesTile
  <2> QED BY <2>2, <2>5 DEF ReadByOne
<1> QED BY <1>1, <1>2, Zenon DEF WindowsTile

(***************************************************************************)
(* plan_chunks and CalfActionSpotter.spot, for every match, every chunk,   *)
(* overlap and frame rate, and every array of features: the chunks put out *)
(* every moment once and every frame at most once, in order, all but the   *)
(* one frame that is rounded onto a border; the windows of features write  *)
(* every feature from a window that shows it with its margin.              *)
(***************************************************************************)
THEOREM WindowsCover == ResultsSpec => []WindowsTile
BY ResultsKept, PlansTile, PTL

-----------------------------------------------------------------------------
(* DuplicatesMerge                                                         *)

\* Events have a time and a confidence.
LEMMA EventsTimed == Timed(Events) BY DEF Timed, Events

\* What is merged of the events collected, and of the spots of each class.
LEMMA DuplicatesThin == ResultsInv => DuplicatesMerge
<1> SUFFICES ASSUME ResultsInv PROVE DuplicatesMerge OBVIOUS
<1>1. events \in Seq(Events) BY DEF ResultsInv, EventsFit
<1>2. MergeWindow \in Nat /\ SpotWindow \in Nat BY ResultsAssumption
<1>3. ASSUME NEW kept, kept = Deduplicated(events, MergeWindow)
      PROVE  /\ Thins(events, kept, MergeWindow)
             /\ ToSet(Deduplicated(kept, MergeWindow)) = ToSet(kept)
  <2>1. kept \in Seq(Events) /\ Thins(events, kept, MergeWindow)
    BY <1>1, <1>2, <1>3, EventsTimed, DeduplicatedThins
  <2>2. PICK again: again = Deduplicated(kept, MergeWindow) OBVIOUS
  <2>3. Thins(kept, again, MergeWindow) BY <1>2, <2>1, <2>2, EventsTimed, DeduplicatedThins
  <2>4. ToSet(again) = ToSet(kept) BY <1>1, <1>2, <2>1, <2>3, EventsTimed, NothingToThin
  <2> QED BY <2>1, <2>2, <2>4
<1>4. ASSUME NEW type, NEW spots, spots = OfOneType(type)
      PROVE  spots \in Seq(Events) /\ OneType(spots)
  <2>1. PICK c: c = {e \in ToSet(events): e.type = type} OBVIOUS
  <2>2. spots = Only(events, c) BY <1>4, <2>1 DEF OfOneType
  <2>3. spots \in Seq(Events) /\ \A k \in DOMAIN spots: spots[k] \in c
    BY <1>1, <2>2, OnlyChosen
  <2> QED BY <2>1, <2>3 DEF OneType
<1>5. ASSUME NEW type, NEW spots, spots = OfOneType(type),
             NEW kept, kept = Suppressed(spots, SpotWindow)
      PROVE  /\ Thins(spots, Thinned(spots, SpotWindow), SpotWindow)
             /\ Thins(spots, kept, SpotWindow)
             /\ \A s \in ToSet(spots): \E k \in ToSet(kept):
                   k.confidence >= s.confidence /\ Apart(k.start, s.start) <= SpotWindow
  <2>1. spots \in Seq(Events) /\ OneType(spots) BY <1>4, <1>5
  <2> QED BY <1>2, <1>5, <2>1, EventsTimed, ThinnedThins, SuppressedThins
<1> QED BY <1>3, <1>5, Zenon DEF DuplicatesMerge

(***************************************************************************)
(* deduplicate_events, _nms_spots and action_spots_from_features, for any  *)
(* number of events: no duplicates are left, nothing is made up, what is   *)
(* left out is represented by one as sure, and merging again changes       *)
(* nothing.                                                                *)
(***************************************************************************)
THEOREM DuplicatesAreMerged == ResultsSpec => []DuplicatesMerge
BY ResultsKept, DuplicatesThin, PTL

-----------------------------------------------------------------------------
(* fuse_events: the groups                                                 *)

\* The latest end of a group.
LEMMA EndOfGroup ==
    ASSUME NEW g \in Seq(Events), Len(g) > 0
    PROVE  /\ \E p \in DOMAIN g: EndOf(g) = g[p].end
           /\ \A p \in DOMAIN g: g[p].end <= EndOf(g)
           /\ EndOf(g) \in Nat
<1>1. PICK n \in Nat \ {0}: n = Len(g) /\ DOMAIN g = 1..n OBVIOUS
<1>2. \A p \in 1..n: g[p].end \in Nat
  <2>1. \A p \in 1..n: g[p] \in Events BY <1>1
  <2> QED BY <2>1 DEF Events
<1> DEFINE Good(k) == k + 1 <= n => \E p \in 1..(k + 1): \A q \in 1..(k + 1): g[q].end <= g[p].end
           S == {k \in Nat: Good(k)}
<1>3. Good(0)
  <2>1. 1 \in 1..(0 + 1) /\ \A q \in 1..(0 + 1): q = 1 OBVIOUS
  <2>2. g[1].end <= g[1].end BY <1>1, <1>2
  <2> QED BY <2>1, <2>2
<1>4. ASSUME NEW k \in Nat, Good(k), (k + 1) + 1 <= n
      PROVE  \E p \in 1..((k + 1) + 1): \A q \in 1..((k + 1) + 1): g[q].end <= g[p].end
  <2>1. PICK p \in 1..(k + 1): \A q \in 1..(k + 1): g[q].end <= g[p].end BY <1>1, <1>4
  <2>2. PICK j \in 1..n: j = (k + 1) + 1 BY <1>4
  <2>3. \A q \in 1..j: q \in 1..(k + 1) \/ q = j BY <2>2
  <2>4. p \in 1..n /\ p \in 1..j /\ \A q \in 1..(k + 1): q \in 1..n BY <2>2
  <2>5. g[p].end \in Nat /\ g[j].end \in Nat /\ \A q \in 1..(k + 1): g[q].end \in Nat
    BY <1>2, <2>4
  <2>6. CASE g[j].end <= g[p].end
    <3>1. \A q \in 1..j: g[q].end <= g[p].end BY <2>1, <2>3, <2>6
    <3> QED BY <2>2, <2>4, <3>1
  <2>7. CASE g[p].end <= g[j].end
    <3>1. \A q \in 1..j: g[q].end <= g[j].end
      <4> SUFFICES ASSUME NEW q \in 1..j PROVE g[q].end <= g[j].end OBVIOUS
      <4>1. CASE q = j BY <2>5, <4>1
      <4>2. CASE q \in 1..(k + 1)
        <5>1. g[q].end <= g[p].end /\ g[q].end \in Nat BY <2>1, <2>5, <4>2
        <5> QED BY <2>5, <2>7, <5>1
      <4> QED BY <2>3, <4>1, <4>2
    <3> QED BY <2>2, <3>1
  <2>8. g[j].end <= g[p].end \/ g[p].end <= g[j].end BY <2>5
  <2> QED BY <2>6, <2>7, <2>8
<1>5. \A k \in Nat: k \in S
  <2>1. 0 \in S BY <1>3
  <2>2. \A k \in Nat: k \in S => k + 1 \in S
    <3> SUFFICES ASSUME NEW k \in Nat, k \in S PROVE k + 1 \in S OBVIOUS
    <3>1. Good(k) OBVIOUS
    <3>2. (k + 1) + 1 <= n =>
             \E p \in 1..((k + 1) + 1): \A q \in 1..((k + 1) + 1): g[q].end <= g[p].end
      <4> HIDE DEF Good
      <4> QED BY <1>4, <3>1
    <3> QED BY <3>2
  <2> HIDE DEF S
  <2> QED BY <2>1, <2>2, SetInduction
<1>6. PICK k \in Nat: n = k + 1 BY <1>1
<1>7. Good(k) BY <1>5
<1>8. PICK p \in 1..n: \A q \in 1..n: g[q].end <= g[p].end BY <1>6, <1>7
<1>9. PICK s: s = {g[q].end: q \in DOMAIN g} OBVIOUS
<1>10. g[p].end \in s /\ \A y \in s: g[p].end >= y BY <1>1, <1>2, <1>8, <1>9
<1>11. Max(s) \in s /\ \A y \in s: Max(s) >= y BY <1>10 DEF Max
<1>12. EndOf(g) = Max(s) BY <1>9 DEF EndOf
<1> QED BY <1>1, <1>2, <1>9, <1>11, <1>12


\* Between the first start of a group and the last, its events follow by the window.
GroupLinked(g, w) ==
    \A t \in g[1].start..(g[Len(g)].start - 1): \E p \in DOMAIN g:
        g[p].start <= t /\ t < g[p].end + w

\* g is a group of some of the first i of d.
GroupFits(g, d, i, w) ==
    /\ g \in Seq(Events) /\ Len(g) > 0
    /\ AllFrom(g, d, i) /\ OneType(g) /\ Ascends(g) /\ GroupLinked(g, w)

\* All of g is before h, or at the same time.
NotAfter(g, h) == \A p \in DOMAIN g, q \in DOMAIN h: g[p].start <= h[q].start

\* g and h have no evidence in common.
Strange(g, h) == \A p \in DOMAIN g, q \in DOMAIN h: g[p].evidence \intersect h[q].evidence = {}

\* Why h is not a part of g.
Closed(g, h, w) ==
    h[1].type # g[1].type \/ \A p \in DOMAIN g: h[1].start - g[p].end > w

\* What the first i of d are grouped into.
GroupsInv(gs, d, i, w) ==
    /\ \A a \in DOMAIN gs: GroupFits(gs[a], d, i, w)
    /\ \A a, b \in DOMAIN gs: a < b => NotAfter(gs[a], gs[b]) /\ Strange(gs[a], gs[b])
    /\ \A a, b \in DOMAIN gs: b = a + 1 => Closed(gs[a], gs[b], w)
    /\ \A j \in 1..i: \E a \in DOMAIN gs: \E p \in DOMAIN gs[a]: gs[a][p] = d[j]

\* Every event has evidence of its own.
Known(d) == \A k, l \in DOMAIN d: k # l => d[k].evidence \intersect d[l].evidence = {}

\* The numbers of an event.
LEMMA EventFields ==
    ASSUME NEW e \in Events
    PROVE  e.start \in Nat /\ e.end \in Nat /\ e.confidence \in 0..100
BY DEF Events

\* e may join g.
Reaches(g, e, w) == g[1].type = e.type /\ e.start - EndOf(g) <= w

\* The next event, when it joins a group.
LEMMA GroupJoined ==
    ASSUME NEW d \in Seq(Events), Ascends(d), NEW i \in Nat, i + 1 <= Len(d), NEW w \in Nat,
           NEW e \in Events, e = d[i + 1], NEW g, GroupFits(g, d, i, w), Reaches(g, e, w)
    PROVE  GroupFits(Append(g, e), d, i + 1, w) /\ Append(g, e)[1] = g[1]
<1>1. PICK h: h = Append(g, e) OBVIOUS
<1>2. g[1].type = e.type /\ e.start - EndOf(g) <= w BY DEF Reaches
<1>3. PICK n \in Nat \ {0}: n = Len(g) /\ DOMAIN g = 1..n /\ g \in Seq(Events) BY DEF GroupFits
<1>4. /\ h \in Seq(Events) /\ Len(h) = n + 1 /\ DOMAIN h = 1..(n + 1) /\ h[n + 1] = e
      /\ \A p \in 1..n: h[p] = g[p] /\ p \in DOMAIN h
  BY <1>1, <1>2, <1>3
<1>5. \A p \in DOMAIN h: p \in 1..n \/ p = n + 1 BY <1>4
<1>6. ASSUME NEW p \in 1..n
      PROVE  /\ g[p].start \in Nat /\ g[p].start <= e.start /\ g[p].type = e.type
             /\ \E j \in 1..(i + 1): g[p] = d[j]
  <2>1. PICK j \in 1..i: g[p] = d[j] BY <1>3 DEF GroupFits, AllFrom
  <2>2. j \in DOMAIN d /\ i + 1 \in DOMAIN d /\ j < i + 1 /\ j \in 1..(i + 1) OBVIOUS
  <2>3. g[p].start <= e.start BY <1>2, <2>1, <2>2 DEF Ascends
  <2>4. g[p].type = e.type
    <3>1. 1 \in DOMAIN g /\ p \in DOMAIN g BY <1>3
    <3>2. g[p].type = g[1].type BY <3>1 DEF GroupFits, OneType
    <3> QED BY <1>2, <3>2
  <2>5. g[p] \in Events BY <1>3
  <2> QED BY <2>1, <2>2, <2>3, <2>4, <2>5, EventFields
<1>7. e.start \in Nat /\ e.end \in Nat BY EventFields
<1>8. AllFrom(h, d, i + 1)
  <2> SUFFICES ASSUME NEW p \in DOMAIN h PROVE \E j \in 1..(i + 1): h[p] = d[j] BY DEF AllFrom
  <2>1. CASE p \in 1..n BY <1>4, <1>6, <2>1
  <2>2. CASE p = n + 1
    <3>1. h[p] = d[i + 1] /\ i + 1 \in 1..(i + 1) BY <1>2, <1>4, <2>2
    <3> QED BY <3>1
  <2> QED BY <1>5, <2>1, <2>2
<1>9. OneType(h)
  <2>1. \A p \in DOMAIN h: h[p].type = e.type BY <1>4, <1>5, <1>6
  <2> QED BY <2>1 DEF OneType
<1>10. Ascends(h)
  <2> SUFFICES ASSUME NEW p \in DOMAIN h, NEW q \in DOMAIN h, p < q PROVE h[p].start <= h[q].start
    BY DEF Ascends
  <2>1. p \in 1..n BY <1>4, <1>5
  <2>2. CASE q \in 1..n
    <3>1. g[p].start <= g[q].start BY <1>3, <2>1, <2>2 DEF GroupFits, Ascends
    <3> QED BY <1>4, <2>1, <2>2, <3>1
  <2>3. CASE q = n + 1 BY <1>4, <1>6, <2>1, <2>3
  <2> QED BY <1>5, <2>2, <2>3
<1>11. GroupLinked(h, w)
  <2>1. 1 \in 1..n /\ n \in 1..n /\ h[1] = g[1] BY <1>4
  <2> SUFFICES ASSUME NEW t \in g[1].start..(e.start - 1)
               PROVE  \E p \in DOMAIN h: h[p].start <= t /\ t < h[p].end + w
    BY <1>4, <2>1 DEF GroupLinked
  <2>2. g[1].start \in Nat /\ g[n].start \in Nat BY <1>6, <2>1
  <2>3. t \in Nat /\ g[1].start <= t /\ t < e.start BY <1>7, <2>2
  <2>4. CASE t < g[n].start
    <3>1. t \in g[1].start..(g[n].start - 1) BY <2>2, <2>3, <2>4
    <3>2. PICK p \in 1..n: g[p].start <= t /\ t < g[p].end + w
      BY <1>3, <3>1 DEF GroupFits, GroupLinked
    <3> QED BY <1>4, <3>2
  <2>5. CASE g[n].start <= t
    <3>1. PICK p \in 1..n: EndOf(g) = g[p].end BY <1>3, EndOfGroup, SMTT(30)
    <3>2. g[p].end \in Nat
      <4>1. g[p] \in Events BY <1>3
      <4> QED BY <4>1, EventFields
    <3>3. t < g[p].end + w BY <1>2, <1>7, <2>3, <3>1, <3>2
    <3>4. g[p].start <= g[n].start
      <4>1. p = n \/ p < n OBVIOUS
      <4>2. p < n => g[p].start <= g[n].start BY <1>3, <2>1 DEF GroupFits, Ascends
      <4> QED BY <2>2, <4>1, <4>2
    <3>5. g[p].start <= t
      <4>1. g[p].start \in Nat BY <1>6
      <4> QED BY <2>2, <2>3, <2>5, <3>4, <4>1
    <3>6. p \in DOMAIN h /\ h[p] = g[p] BY <1>4
    <3> QED BY <3>3, <3>5, <3>6
  <2> QED BY <2>2, <2>3, <2>4, <2>5
<1>12. GroupFits(h, d, i + 1, w) /\ h[1] = g[1]
  BY <1>4, <1>8, <1>9, <1>10, <1>11 DEF GroupFits
<1> QED BY <1>1, <1>12

\* The next event, when it opens a group.
LEMMA GroupOpened ==
    ASSUME NEW d \in Seq(Events), NEW i \in Nat, i + 1 <= Len(d), NEW w \in Nat
    PROVE  GroupFits(<<d[i + 1]>>, d, i + 1, w)
<1>1. PICK e \in Events: e = d[i + 1] OBVIOUS
<1>2. PICK h: h = <<e>> OBVIOUS
<1>3. h \in Seq(Events) /\ Len(h) = 1 /\ DOMAIN h = 1..1 /\ h[1] = e BY <1>2
<1>4. \A p \in DOMAIN h: p = 1 BY <1>3
<1>5. AllFrom(h, d, i + 1)
  <2>1. i + 1 \in 1..(i + 1) OBVIOUS
  <2> QED BY <1>1, <1>3, <1>4, <2>1 DEF AllFrom
<1>6. OneType(h) BY <1>3, <1>4 DEF OneType
<1>7. Ascends(h)
  <2>1. \A p, q \in DOMAIN h: ~(p < q) BY <1>3
  <2> QED BY <2>1 DEF Ascends
<1>8. GroupLinked(h, w)
  <2>1. e.start..(e.start - 1) = {} BY EventFields
  <2> QED BY <1>3, <2>1 DEF GroupLinked
<1>9. GroupFits(h, d, i + 1, w) BY <1>3, <1>5, <1>6, <1>7, <1>8 DEF GroupFits
<1> QED BY <1>1, <1>2, <1>9

\* A group of the first i is one of the first i + 1.
LEMMA GroupLater ==
    ASSUME NEW d, NEW i \in Nat, NEW w, NEW g, GroupFits(g, d, i, w)
    PROVE  GroupFits(g, d, i + 1, w)
<1>1. \A j \in 1..i: j \in 1..(i + 1) OBVIOUS
<1>2. AllFrom(g, d, i + 1) BY <1>1 DEF GroupFits, AllFrom
<1> QED BY <1>2 DEF GroupFits

\* What comes next is later than all before, and rests on other evidence.
LEMMA GroupBefore ==
    ASSUME NEW d \in Seq(Events), Ascends(d), Known(d), NEW i \in Nat, i + 1 <= Len(d), NEW w,
           NEW g, GroupFits(g, d, i, w), NEW p \in DOMAIN g
    PROVE  g[p].start <= d[i + 1].start /\ g[p].evidence \intersect d[i + 1].evidence = {}
<1>1. PICK j \in 1..i: g[p] = d[j] BY DEF GroupFits, AllFrom
<1>2. j \in DOMAIN d /\ i + 1 \in DOMAIN d /\ j < i + 1 OBVIOUS
<1> QED BY <1>1, <1>2 DEF Ascends, Known

\* No groups of nothing.
LEMMA GroupsStart == ASSUME NEW d, NEW w PROVE GroupsInv(<<>>, d, 0, w)
BY DEF GroupsInv

\* The next event opens a group: the last one is of another type, or ended too long ago.
LEMMA GroupsOpen ==
    ASSUME NEW d \in Seq(Events), Ascends(d), Known(d), NEW i \in Nat, i + 1 <= Len(d),
           NEW w \in Nat, NEW gs \in Seq(Seq(Events)), GroupsInv(gs, d, i, w),
           gs # <<>> => \/ gs[Len(gs)][1].type # d[i + 1].type
                        \/ d[i + 1].start - EndOf(gs[Len(gs)]) > w
    PROVE  GroupsInv(Append(gs, <<d[i + 1]>>), d, i + 1, w)
<1>1. PICK e \in Events: e = d[i + 1] OBVIOUS
<1>2. PICK n \in Nat: n = Len(gs) /\ DOMAIN gs = 1..n OBVIOUS
<1>3. PICK h: h = <<e>> OBVIOUS
<1>4. h \in Seq(Events) /\ Len(h) = 1 /\ DOMAIN h = 1..1 /\ h[1] = e BY <1>3
<1>5. PICK Y: Y = Seq(Events) OBVIOUS
<1>6. PICK t: t = Append(gs, h) OBVIOUS
<1>7. /\ t \in Seq(Y) /\ DOMAIN t = 1..(n + 1) /\ t[n + 1] = h
      /\ \A a \in 1..n: t[a] = gs[a] /\ a \in DOMAIN t
  BY <1>2, <1>4, <1>5, <1>6
<1>8. \A a \in DOMAIN t: a \in 1..n \/ a = n + 1 BY <1>7
<1>9. \A a \in 1..n: GroupFits(gs[a], d, i, w) BY <1>2 DEF GroupsInv
<1>10. ASSUME NEW a \in DOMAIN t PROVE GroupFits(t[a], d, i + 1, w)
  <2>1. CASE a \in 1..n BY <1>7, <1>9, <2>1, GroupLater
  <2>2. CASE a = n + 1
    <3>1. GroupFits(<<d[i + 1]>>, d, i + 1, w) BY GroupOpened
    <3> QED BY <1>1, <1>3, <1>7, <2>2, <3>1
  <2> QED BY <1>8, <2>1, <2>2
<1>11. ASSUME NEW a \in DOMAIN t, NEW b \in DOMAIN t, a < b
       PROVE  NotAfter(t[a], t[b]) /\ Strange(t[a], t[b])
  <2>1. a \in 1..n BY <1>7, <1>8, <1>11
  <2>2. CASE b \in 1..n
    <3>1. NotAfter(gs[a], gs[b]) /\ Strange(gs[a], gs[b]) BY <1>2, <1>11, <2>1, <2>2 DEF GroupsInv
    <3> QED BY <1>7, <2>1, <2>2, <3>1
  <2>3. CASE b = n + 1
    <3>1. PICK g: g = gs[a] OBVIOUS
    <3>2. GroupFits(g, d, i, w) BY <1>9, <2>1, <3>1
    <3>3. \A p \in DOMAIN g: g[p].start <= e.start /\ g[p].evidence \intersect e.evidence = {}
      BY <1>1, <3>2, GroupBefore
    <3>4. \A q \in DOMAIN h: h[q] = e BY <1>4
    <3>5. NotAfter(g, h) /\ Strange(g, h) BY <3>3, <3>4 DEF NotAfter, Strange
    <3> QED BY <1>7, <2>1, <2>3, <3>1, <3>5
  <2> QED BY <1>8, <2>2, <2>3
<1>12. ASSUME NEW a \in DOMAIN t, NEW b \in DOMAIN t, b = a + 1 PROVE Closed(t[a], t[b], w)
  <2>1. a \in 1..n BY <1>7, <1>8, <1>12
  <2>2. CASE b \in 1..n
    <3>1. Closed(gs[a], gs[b], w) BY <1>2, <1>12, <2>1, <2>2 DEF GroupsInv
    <3> QED BY <1>7, <2>1, <2>2, <3>1
  <2>3. CASE b = n + 1
    <3>1. PICK g: g = gs[n] OBVIOUS
    <3>2. a = n /\ n \in 1..n /\ gs # <<>> BY <1>2, <1>12, <2>1, <2>3
    <3>3. g \in Seq(Events) /\ Len(g) > 0 BY <1>9, <3>1, <3>2 DEF GroupFits
    <3>4. g[1].type # e.type \/ e.start - EndOf(g) > w BY <1>1, <1>2, <3>1, <3>2
    <3>5. ASSUME e.start - EndOf(g) > w, NEW p \in DOMAIN g PROVE e.start - g[p].end > w
      <4>1. g[p].end <= EndOf(g) /\ EndOf(g) \in Nat BY <3>3, EndOfGroup
      <4>2. g[p] \in Events BY <3>3
      <4>3. g[p].end \in Nat /\ e.start \in Nat BY <4>2, EventFields
      <4> QED BY <3>5, <4>1, <4>3
    <3>6. Closed(g, h, w) BY <1>4, <3>4, <3>5 DEF Closed
    <3> QED BY <1>7, <2>3, <3>1, <3>2, <3>6
  <2> QED BY <1>8, <2>2, <2>3
<1>13. ASSUME NEW j \in 1..(i + 1)
       PROVE  \E a \in DOMAIN t: \E p \in DOMAIN t[a]: t[a][p] = d[j]
  <2>1. CASE j \in 1..i
    <3>1. PICK a \in 1..n: \E p \in DOMAIN gs[a]: gs[a][p] = d[j] BY <1>2, <2>1 DEF GroupsInv
    <3>2. t[a] = gs[a] /\ a \in DOMAIN t BY <1>7
    <3> QED BY <3>1, <3>2
  <2>2. CASE j = i + 1
    <3>1. n + 1 \in DOMAIN t /\ 1 \in DOMAIN h /\ h[1] = d[j] /\ t[n + 1] = h
      BY <1>1, <1>4, <1>7, <2>2
    <3> QED BY <3>1
  <2> QED BY <2>1, <2>2
<1>14. GroupsInv(t, d, i + 1, w) BY <1>10, <1>11, <1>12, <1>13 DEF GroupsInv
<1> QED BY <1>1, <1>3, <1>6, <1>14

\* The next event joins the last group.
LEMMA GroupsJoin ==
    ASSUME NEW d \in Seq(Events), Ascends(d), Known(d), NEW i \in Nat, i + 1 <= Len(d),
           NEW w \in Nat, NEW gs \in Seq(Seq(Events)), GroupsInv(gs, d, i, w),
           gs # <<>>, Reaches(gs[Len(gs)], d[i + 1], w)
    PROVE  GroupsInv([gs EXCEPT ![Len(gs)] = Append(gs[Len(gs)], d[i + 1])], d, i + 1, w)
<1>1. PICK e \in Events: e = d[i + 1] OBVIOUS
<1>2. PICK n \in Nat \ {0}: n = Len(gs) /\ DOMAIN gs = 1..n /\ n \in 1..n OBVIOUS
<1>3. PICK g: g = gs[n] OBVIOUS
<1>4. GroupFits(g, d, i, w) BY <1>2, <1>3 DEF GroupsInv
<1>5. PICK h: h = Append(g, e) OBVIOUS
<1>6. GroupFits(h, d, i + 1, w) /\ h[1] = g[1]
  <2>1. Reaches(g, e, w) BY <1>1, <1>2, <1>3
  <2>2. GroupFits(Append(g, e), d, i + 1, w) /\ Append(g, e)[1] = g[1]
    BY <1>1, <1>4, <2>1, GroupJoined
  <2> QED BY <1>5, <2>2
<1>7. PICK m \in Nat \ {0}: m = Len(g) /\ DOMAIN g = 1..m BY <1>4 DEF GroupFits
<1>8. /\ DOMAIN h = 1..(m + 1) /\ h[m + 1] = e
      /\ \A p \in 1..m: h[p] = g[p] /\ p \in DOMAIN h
  BY <1>4, <1>5, <1>7 DEF GroupFits
<1>9. \A p \in DOMAIN h: p \in 1..m \/ p = m + 1 BY <1>8
<1>10. PICK t: t = [gs EXCEPT ![n] = h] OBVIOUS
<1>11. DOMAIN t = 1..n /\ t[n] = h /\ \A a \in 1..n: a # n => t[a] = gs[a] BY <1>2, <1>10
<1>12. \A a \in 1..n: GroupFits(gs[a], d, i, w) BY <1>2 DEF GroupsInv
<1>13. ASSUME NEW a \in DOMAIN t PROVE GroupFits(t[a], d, i + 1, w)
  <2>1. CASE a # n BY <1>11, <1>12, <2>1, GroupLater
  <2>2. CASE a = n BY <1>6, <1>11, <2>2
  <2> QED BY <2>1, <2>2
<1>14. ASSUME NEW a \in DOMAIN t, NEW b \in DOMAIN t, a < b
       PROVE  NotAfter(t[a], t[b]) /\ Strange(t[a], t[b])
  <2>1. a \in 1..n /\ a # n /\ t[a] = gs[a] BY <1>11, <1>14
  <2>2. NotAfter(gs[a], gs[b]) /\ Strange(gs[a], gs[b]) BY <1>2, <1>11, <1>14 DEF GroupsInv
  <2>3. CASE b # n BY <1>11, <2>1, <2>2, <2>3
  <2>4. CASE b = n
    <3>1. PICK k: k = gs[a] OBVIOUS
    <3>2. GroupFits(k, d, i, w) BY <1>12, <2>1, <3>1
    <3>3. \A p \in DOMAIN k: k[p].start <= e.start /\ k[p].evidence \intersect e.evidence = {}
      BY <1>1, <3>2, GroupBefore
    <3>4. NotAfter(k, g) /\ Strange(k, g) BY <1>3, <2>2, <2>4, <3>1
    <3>5. ASSUME NEW p \in DOMAIN k, NEW q \in DOMAIN h
          PROVE  k[p].start <= h[q].start /\ k[p].evidence \intersect h[q].evidence = {}
      <4>1. CASE q \in 1..m
        <5>1. q \in DOMAIN g /\ h[q] = g[q] BY <1>7, <1>8, <4>1
        <5> QED BY <3>4, <5>1 DEF NotAfter, Strange
      <4>2. CASE q = m + 1 BY <1>8, <3>3, <4>2
      <4> QED BY <1>9, <4>1, <4>2
    <3>6. NotAfter(k, h) /\ Strange(k, h) BY <3>5 DEF NotAfter, Strange
    <3> QED BY <1>11, <2>1, <2>4, <3>1, <3>6
  <2> QED BY <2>3, <2>4
<1>15. ASSUME NEW a \in DOMAIN t, NEW b \in DOMAIN t, b = a + 1 PROVE Closed(t[a], t[b], w)
  <2>1. a \in 1..n /\ a # n /\ t[a] = gs[a] BY <1>11, <1>15
  <2>2. Closed(gs[a], gs[b], w) BY <1>2, <1>11, <1>15 DEF GroupsInv
  <2>3. t[b][1] = gs[b][1] BY <1>3, <1>6, <1>11
  <2> QED BY <2>1, <2>2, <2>3 DEF Closed
<1>16. ASSUME NEW j \in 1..(i + 1)
       PROVE  \E a \in DOMAIN t: \E p \in DOMAIN t[a]: t[a][p] = d[j]
  <2>1. CASE j \in 1..i
    <3>1. PICK a \in 1..n: \E p \in DOMAIN gs[a]: gs[a][p] = d[j] BY <1>2, <2>1 DEF GroupsInv
    <3>2. PICK p \in DOMAIN gs[a]: gs[a][p] = d[j] BY <3>1
    <3>3. CASE a # n BY <1>11, <3>2, <3>3
    <3>4. CASE a = n
      <4>1. p \in DOMAIN h /\ h[p] = d[j] BY <1>3, <1>7, <1>8, <3>2, <3>4
      <4> QED BY <1>2, <1>11, <4>1
    <3> QED BY <3>3, <3>4
  <2>2. CASE j = i + 1
    <3>1. m + 1 \in DOMAIN h /\ h[m + 1] = d[j] BY <1>1, <1>8, <2>2
    <3> QED BY <1>2, <1>11, <3>1
  <2> QED BY <2>1, <2>2
<1>17. GroupsInv(t, d, i + 1, w) BY <1>13, <1>14, <1>15, <1>16 DEF GroupsInv
<1> QED BY <1>1, <1>2, <1>3, <1>5, <1>10, <1>17

\* A turn of fuse_events keeps what is known of the groups.
LEMMA GroupsStep ==
    ASSUME NEW d \in Seq(Events), Ascends(d), Known(d), NEW i \in Nat, i + 1 <= Len(d),
           NEW w \in Nat, NEW gs \in Seq(Seq(Events)), GroupsInv(gs, d, i, w),
           NEW e \in Events, e = d[i + 1], NEW t, t = JoinOrOpen(gs, e, w)
    PROVE  t \in Seq(Seq(Events)) /\ GroupsInv(t, d, i + 1, w)
<1>1. t \in Seq(Seq(Events)) BY JoinOne
<1>2. PICK n \in Nat: n = Len(gs) /\ DOMAIN gs = 1..n OBVIOUS
<1>3. CASE /\ gs # <<>> /\ gs[Len(gs)][1].type = e.type
           /\ e.start - EndOf(gs[Len(gs)]) <= w
  <2>1. t = [gs EXCEPT ![Len(gs)] = Append(gs[Len(gs)], e)] BY <1>3 DEF JoinOrOpen
  <2>2. Reaches(gs[Len(gs)], d[i + 1], w) BY <1>3 DEF Reaches
  <2>3. GroupsInv([gs EXCEPT ![Len(gs)] = Append(gs[Len(gs)], d[i + 1])], d, i + 1, w)
    BY <1>3, <2>2, GroupsJoin, Zenon
  <2> QED BY <1>1, <2>1, <2>3
<1>4. CASE ~(/\ gs # <<>> /\ gs[Len(gs)][1].type = e.type
             /\ e.start - EndOf(gs[Len(gs)]) <= w)
  <2>1. t = Append(gs, <<e>>) BY <1>4 DEF JoinOrOpen
  <2>2. ASSUME gs # <<>>, gs[Len(gs)][1].type = e.type
        PROVE  e.start - EndOf(gs[Len(gs)]) > w
    <3>1. n \in 1..n /\ n = Len(gs) BY <1>2, <2>2
    <3>2. gs[n] \in Seq(Events) /\ Len(gs[n]) > 0 BY <1>2, <3>1 DEF GroupsInv, GroupFits
    <3>3. EndOf(gs[n]) \in Nat BY <3>2, EndOfGroup
    <3>4. e.start \in Nat BY EventFields
    <3> QED BY <1>4, <2>2, <3>1, <3>3, <3>4
  <2>3. gs # <<>> => \/ gs[Len(gs)][1].type # d[i + 1].type
                     \/ d[i + 1].start - EndOf(gs[Len(gs)]) > w
    BY <2>2
  <2>4. GroupsInv(Append(gs, <<d[i + 1]>>), d, i + 1, w) BY <2>3, GroupsOpen
  <2> QED BY <1>1, <2>1, <2>4
<1> QED BY <1>3, <1>4

\* fuse_events parts a list of any length into groups.
LEMMA GroupsPart ==
    ASSUME NEW d \in Seq(Events), Ascends(d), Known(d), NEW w \in Nat
    PROVE  Groups(d, w) \in Seq(Seq(Events)) /\ GroupsInv(Groups(d, w), d, Len(d), w)
<1>1. PICK n \in Nat: n = Len(d) OBVIOUS
<1>2. DOMAIN d = 1..n /\ \A i \in 1..n: d[i] \in Events BY <1>1
<1>3. PICK g: /\ g[0] = <<>> /\ g[n] = Groups(d, w)
              /\ \A i \in 1..n: g[i] = JoinOrOpen(g[i - 1], d[i], w)
  BY <1>1, GroupsSteps
<1> DEFINE Good(i) == i <= n => g[i] \in Seq(Seq(Events)) /\ GroupsInv(g[i], d, i, w)
           S == {i \in Nat: Good(i)}
<1>4. Good(0) BY <1>3, GroupsStart
<1>5. ASSUME NEW i \in Nat, Good(i), i + 1 <= n PROVE Good(i + 1)
  <2>1. i + 1 \in 1..n /\ (i + 1) - 1 = i BY <1>5
  <2>2. PICK s: s = g[i] OBVIOUS
  <2>3. s \in Seq(Seq(Events)) /\ GroupsInv(s, d, i, w) BY <1>5, <2>2
  <2>4. PICK e \in Events: e = d[i + 1] BY <1>2, <2>1
  <2>5. PICK t: t = JoinOrOpen(s, e, w) OBVIOUS
  <2>6. t \in Seq(Seq(Events)) /\ GroupsInv(t, d, i + 1, w)
    BY <1>1, <1>5, <2>3, <2>4, <2>5, GroupsStep
  <2>7. g[i + 1] = t BY <1>3, <2>1, <2>2, <2>4, <2>5
  <2> QED BY <2>6, <2>7
<1>6. ASSUME NEW i \in Nat, i \in S PROVE i + 1 \in S
  <2>1. Good(i) BY <1>6
  <2>2. i + 1 <= n => Good(i + 1)
    <3> HIDE DEF Good
    <3> QED BY <1>5, <2>1
  <2>3. ~(i + 1 <= n) => Good(i + 1) OBVIOUS
  <2> HIDE DEF Good
  <2> QED BY <2>2, <2>3
<1>7. 0 \in S
  <2> HIDE DEF Good
  <2> QED BY <1>4
<1>8. n \in S
  <2> HIDE DEF S
  <2> QED BY <1>6, <1>7, SetInduction
<1>9. Good(n)
  <2> HIDE DEF Good
  <2> QED BY <1>8
<1> QED BY <1>1, <1>3, <1>9

-----------------------------------------------------------------------------
(* fuse_events: the surest of every source                                 *)

\* What is kept of the first i of d: one event for every source, and for each that is
\* left out one from a source of it that is as sure.
Picks(s, d, i) ==
    /\ s \in Seq(Events) /\ AllFrom(s, d, i)
    /\ \A k, l \in DOMAIN s: k # l => s[k].source \intersect s[l].source = {}
    /\ \A j \in 1..i: \E k \in DOMAIN s:
          /\ s[k] = d[j] \/ s[k].source \intersect d[j].source # {}
          /\ s[k].confidence >= d[j].confidence

\* A turn of the loop over the sources: an event is left out only for one that is as sure.
LEMMA PicksStep ==
    ASSUME NEW d \in Seq(Events), Descends(d), NEW i \in Nat, i + 1 <= Len(d),
           NEW s, Picks(s, d, i), NEW e \in Events, e = d[i + 1]
    PROVE  Picks(AddIndependent(s, e), d, i + 1)
<1>1. PICK n \in Nat: n = Len(s) /\ DOMAIN s = 1..n /\ s \in Seq(Events) BY DEF Picks
<1>2. \A j \in 1..(i + 1): j \in 1..i \/ j = i + 1 OBVIOUS
<1>3. i + 1 \in 1..(i + 1) /\ \A j \in 1..i: j \in 1..(i + 1) /\ j < i + 1 /\ j \in DOMAIN d
  OBVIOUS
<1>4. i + 1 \in DOMAIN d OBVIOUS
<1>5. CASE e.source \intersect SourcesOf(s) # {}
  <2>1. PICK k \in DOMAIN s: s[k].source \intersect e.source # {} BY <1>5 DEF SourcesOf
  <2>2. PICK j \in 1..i: s[k] = d[j] BY <2>1 DEF Picks, AllFrom
  <2>3. s[k].confidence >= e.confidence BY <1>3, <1>4, <2>2 DEF Descends
  <2>4. AllFrom(s, d, i + 1) BY <1>3 DEF Picks, AllFrom
  <2>5. \A j2 \in 1..(i + 1): \E k2 \in DOMAIN s:
          /\ s[k2] = d[j2] \/ s[k2].source \intersect d[j2].source # {}
          /\ s[k2].confidence >= d[j2].confidence
    BY <1>2, <2>1, <2>3 DEF Picks
  <2>6. AddIndependent(s, e) = s BY <1>5 DEF AddIndependent
  <2> QED BY <2>4, <2>5, <2>6 DEF Picks
<1>6. CASE e.source \intersect SourcesOf(s) = {}
  <2>1. PICK t: t = Append(s, e) OBVIOUS
  <2>2. /\ t \in Seq(Events) /\ DOMAIN t = 1..(n + 1) /\ t[n + 1] = e
        /\ \A k \in 1..n: t[k] = s[k] /\ k \in DOMAIN t
    BY <1>1, <2>1
  <2>3. \A k \in DOMAIN t: k \in 1..n \/ k = n + 1 BY <2>2
  <2>4. \A k \in 1..n: s[k].source \intersect e.source = {} BY <1>1, <1>6 DEF SourcesOf
  <2>5. AllFrom(t, d, i + 1)
    <3> SUFFICES ASSUME NEW k \in DOMAIN t PROVE \E j \in 1..(i + 1): t[k] = d[j] BY DEF AllFrom
    <3>1. CASE k \in 1..n
      <4>1. PICK j \in 1..i: s[k] = d[j] BY <1>1, <3>1 DEF Picks, AllFrom
      <4> QED BY <1>3, <2>2, <3>1, <4>1
    <3>2. CASE k = n + 1 BY <1>3, <2>2, <3>2
    <3> QED BY <2>3, <3>1, <3>2
  <2>6. ASSUME NEW k \in DOMAIN t, NEW l \in DOMAIN t, k # l
        PROVE  t[k].source \intersect t[l].source = {}
    <3>1. CASE k \in 1..n /\ l \in 1..n
      <4>1. s[k].source \intersect s[l].source = {} BY <1>1, <2>6, <3>1 DEF Picks
      <4> QED BY <2>2, <3>1, <4>1
    <3>2. CASE k = n + 1 /\ l \in 1..n BY <2>2, <2>4, <3>2
    <3>3. CASE k \in 1..n /\ l = n + 1 BY <2>2, <2>4, <3>3
    <3> QED BY <2>3, <2>6, <3>1, <3>2, <3>3
  <2>7. ASSUME NEW j \in 1..(i + 1)
        PROVE  \E k \in DOMAIN t: /\ t[k] = d[j] \/ t[k].source \intersect d[j].source # {}
                                  /\ t[k].confidence >= d[j].confidence
    <3>1. CASE j \in 1..i
      <4>1. PICK k \in 1..n: /\ s[k] = d[j] \/ s[k].source \intersect d[j].source # {}
                             /\ s[k].confidence >= d[j].confidence
        BY <1>1, <3>1 DEF Picks
      <4>2. k \in DOMAIN t /\ t[k] = s[k] BY <2>2
      <4> QED BY <4>1, <4>2
    <3>2. CASE j = i + 1
      <4>1. n + 1 \in DOMAIN t /\ t[n + 1] = d[j] BY <2>2, <3>2
      <4>2. PICK c \in 0..100: c = e.confidence BY EventFields
      <4>3. e.confidence >= e.confidence BY <4>2
      <4> QED BY <2>2, <3>2, <4>1, <4>3
    <3> QED BY <1>2, <3>1, <3>2
  <2>8. Picks(t, d, i + 1) BY <2>2, <2>5, <2>6, <2>7 DEF Picks
  <2>9. AddIndependent(s, e) = t BY <1>6, <2>1 DEF AddIndependent
  <2> QED BY <2>8, <2>9
<1> QED BY <1>5, <1>6

\* The surest event of every source, of a group of any size.
LEMMA IndependentPicks ==
    ASSUME NEW d \in Seq(Events), Descends(d)
    PROVE  Picks(Independent(d), d, Len(d))
<1>1. PICK n \in Nat: n = Len(d) OBVIOUS
<1>2. DOMAIN d = 1..n /\ \A i \in 1..n: d[i] \in Events BY <1>1
<1>3. PICK g: /\ g[0] = <<>> /\ g[n] = Independent(d)
              /\ \A i \in 1..n: g[i] = AddIndependent(g[i - 1], d[i])
  BY <1>1, IndependentSteps
<1> DEFINE Good(i) == i <= n => Picks(g[i], d, i)
           S == {i \in Nat: Good(i)}
<1>4. Good(0) BY <1>3 DEF Picks, AllFrom
<1>5. ASSUME NEW i \in Nat, Good(i), i + 1 <= n PROVE Good(i + 1)
  <2>1. i + 1 \in 1..n /\ (i + 1) - 1 = i BY <1>5
  <2>2. PICK s: s = g[i] OBVIOUS
  <2>3. Picks(s, d, i) BY <1>5, <2>2
  <2>4. PICK e \in Events: e = d[i + 1] BY <1>2, <2>1
  <2>5. Picks(AddIndependent(s, e), d, i + 1) BY <1>1, <1>5, <2>3, <2>4, PicksStep
  <2>6. g[i + 1] = AddIndependent(s, e) BY <1>3, <2>1, <2>2, <2>4
  <2> QED BY <2>5, <2>6
<1>6. ASSUME NEW i \in Nat, i \in S PROVE i + 1 \in S
  <2>1. Good(i) BY <1>6
  <2>2. i + 1 <= n => Good(i + 1)
    <3> HIDE DEF Good
    <3> QED BY <1>5, <2>1
  <2>3. ~(i + 1 <= n) => Good(i + 1) OBVIOUS
  <2> HIDE DEF Good
  <2> QED BY <2>2, <2>3
<1>7. 0 \in S
  <2> HIDE DEF Good
  <2> QED BY <1>4
<1>8. n \in S
  <2> HIDE DEF S
  <2> QED BY <1>6, <1>7, SetInduction
<1>9. Good(n)
  <2> HIDE DEF Good
  <2> QED BY <1>8
<1> QED BY <1>1, <1>3, <1>9


\* What is confirmed is at least as sure as the surest that confirms it.
LEMMA SureOfAll ==
    ASSUME NEW d \in Seq(Events)
    PROVE  ConfidenceOf(d) \in 0..100 /\ \A j \in DOMAIN d: d[j].confidence <= ConfidenceOf(d)
<1>1. PICK n \in Nat: n = Len(d) /\ DOMAIN d = 1..n OBVIOUS
<1>2. \A i \in 1..n: d[i] \in Events BY <1>1
<1>3. Sure(Events) BY DEF Sure, Events
<1>4. PICK g: /\ g[0] = 0 /\ g[n] = ConfidenceOf(d)
              /\ \A i \in 1..n: g[i] = NoisyOr(g[i - 1], d[i].confidence)
  BY <1>1, <1>3, ConfidenceSteps
<1> DEFINE Good(i) == i <= n => g[i] \in 0..100 /\ \A j \in 1..i: d[j].confidence <= g[i]
           S == {i \in Nat: Good(i)}
<1>5. Good(0) BY <1>4
<1>6. ASSUME NEW i \in Nat, Good(i), i + 1 <= n PROVE Good(i + 1)
  <2>1. i + 1 \in 1..n /\ (i + 1) - 1 = i BY <1>6
  <2>2. i <= n BY <1>6
  <2>3. g[i] \in 0..100 /\ \A j \in 1..i: d[j].confidence <= g[i] BY <1>6, <2>2
  <2>4. PICK c \in 0..100: c = g[i] /\ \A j \in 1..i: d[j].confidence <= c BY <2>3
  <2>5. PICK b \in 0..100: b = d[i + 1].confidence BY <1>2, <2>1, EventFields
  <2>6. PICK a \in 0..100: a = NoisyOr(c, b) /\ a >= c /\ a >= b BY NoisyOrBounds
  <2>7. g[i + 1] = a BY <1>4, <2>1, <2>4, <2>5, <2>6
  <2>8. ASSUME NEW j \in 1..(i + 1) PROVE d[j].confidence <= a
    <3>1. CASE j \in 1..i
      <4>1. j \in 1..n BY <1>6, <3>1
      <4>2. d[j] \in Events BY <1>2, <4>1
      <4>3. PICK x \in 0..100: x = d[j].confidence BY <4>2, EventFields
      <4>4. x <= c BY <2>4, <3>1, <4>3
      <4> QED BY <2>6, <4>3, <4>4
    <3>2. CASE j = i + 1 BY <2>5, <2>6, <3>2
    <3>3. j \in 1..i \/ j = i + 1 OBVIOUS
    <3> QED BY <3>1, <3>2, <3>3
  <2> QED BY <2>7, <2>8
<1>7. ASSUME NEW i \in Nat, i \in S PROVE i + 1 \in S
  <2>1. Good(i) BY <1>7
  <2>2. i + 1 <= n => Good(i + 1)
    <3> HIDE DEF Good
    <3> QED BY <1>6, <2>1
  <2>3. ~(i + 1 <= n) => Good(i + 1) OBVIOUS
  <2> HIDE DEF Good
  <2> QED BY <2>2, <2>3
<1>8. 0 \in S
  <2> HIDE DEF Good
  <2> QED BY <1>5
<1>9. n \in S
  <2> HIDE DEF S
  <2> QED BY <1>7, <1>8, SetInduction
<1>10. Good(n)
  <2> HIDE DEF Good
  <2> QED BY <1>9
<1> QED BY <1>1, <1>4, <1>10

\* What f makes of a group, where one are the events it counts.
Combines(f, group, one) ==
    /\ one \in Seq(Events) /\ one # <<>>
    /\ \A k \in DOMAIN one: \E p \in DOMAIN group: one[k] = group[p]
    /\ \A k, l \in DOMAIN one: k # l => one[k].source \intersect one[l].source = {}
    /\ \A p \in DOMAIN group: \E k \in DOMAIN one:
          /\ one[k] = group[p] \/ one[k].source \intersect group[p].source # {}
          /\ one[k].confidence >= group[p].confidence
    /\ f.type = group[1].type
    /\ \E k \in DOMAIN one: f.start = one[k].start
    /\ \E k \in DOMAIN one: f.end = one[k].end
    /\ \A k \in DOMAIN one: one[k].confidence <= f.confidence
    /\ f.evidence = UNION {one[k].evidence: k \in DOMAIN one}

\* A fused event, field by field.
LEMMA FuseCounts ==
    ASSUME NEW group \in Seq(Events), Len(group) > 0, OneType(group),
           NEW d \in Seq(Events), Rearranges(d, group), Descends(d),
           NEW one, one = Independent(d),
           NEW f, f = [type |-> one[1].type,
                       start |-> Min({one[n].start: n \in DOMAIN one}),
                       end |-> EndOf(one),
                       confidence |-> ConfidenceOf(one),
                       source |-> SourcesOf(one),
                       evidence |-> UNION {one[n].evidence: n \in DOMAIN one},
                       review |-> \E n \in DOMAIN one: one[n].review]
    PROVE  Combines(f, group, one)
<1>1. PICK m \in Nat \ {0}: m = Len(group) /\ DOMAIN group = 1..m OBVIOUS
<1>2. Len(d) = m /\ DOMAIN d = 1..m BY <1>1 DEF Rearranges
<1>3. Picks(one, d, m) BY <1>2, IndependentPicks
<1>4. one \in Seq(Events) BY <1>3 DEF Picks
<1>5. ASSUME NEW p \in DOMAIN group
      PROVE  \E k \in DOMAIN one:
                /\ one[k] = group[p] \/ one[k].source \intersect group[p].source # {}
                /\ one[k].confidence >= group[p].confidence
  <2>1. PICK j \in 1..m: d[j] = group[p] BY <1>2, SameElements
  <2>2. PICK k \in DOMAIN one: /\ one[k] = d[j] \/ one[k].source \intersect d[j].source # {}
                               /\ one[k].confidence >= d[j].confidence
    BY <1>3 DEF Picks
  <2> QED BY <2>1, <2>2
<1>6. ASSUME NEW k \in DOMAIN one PROVE \E p \in DOMAIN group: one[k] = group[p]
  <2>1. PICK j \in 1..m: one[k] = d[j] BY <1>3 DEF Picks, AllFrom
  <2>2. \A i \in DOMAIN d: \E p \in DOMAIN group: d[i] = group[p] BY SameElements
  <2> QED BY <1>2, <2>1, <2>2
<1>7. PICK n \in Nat \ {0}: n = Len(one) /\ DOMAIN one = 1..n
  <2>1. 1 \in DOMAIN group BY <1>1
  <2>2. DOMAIN one # {} BY <1>5, <2>1
  <2>3. PICK n \in Nat: n = Len(one) /\ DOMAIN one = 1..n BY <1>4
  <2> QED BY <2>2, <2>3
<1>8. 1 \in DOMAIN one /\ 1 \in DOMAIN group BY <1>1, <1>7
<1>9. f.type = group[1].type
  <2>1. PICK p \in DOMAIN group: one[1] = group[p] BY <1>6, <1>8
  <2>2. group[p].type = group[1].type BY <1>8 DEF OneType
  <2> QED BY <2>1, <2>2
<1>10. \E k \in DOMAIN one: f.start = one[k].start
  <2>1. PICK S: S = {one[k].start: k \in DOMAIN one} OBVIOUS
  <2>2. \A k \in DOMAIN one: one[k] \in Events BY <1>4
  <2>3. \A k \in DOMAIN one: one[k].start \in Nat BY <2>2, EventFields
  <2>4. S \subseteq Nat /\ S # {} BY <1>8, <2>1, <2>3
  <2>5. Min(S) \in S BY <2>4, MinIsMember
  <2>6. f.start = Min(S) BY <2>1
  <2> QED BY <2>1, <2>5, <2>6
<1>11. \E k \in DOMAIN one: f.end = one[k].end
  <2>1. Len(one) > 0 BY <1>7
  <2>2. \E k \in DOMAIN one: EndOf(one) = one[k].end BY <1>4, <2>1, EndOfGroup
  <2>3. f.end = EndOf(one) OBVIOUS
  <2> QED BY <2>2, <2>3
<1>12. \A k \in DOMAIN one: one[k].confidence <= f.confidence
  <2>1. f.confidence = ConfidenceOf(one) OBVIOUS
  <2> QED BY <1>4, <2>1, SureOfAll
<1>13. f.evidence = UNION {one[k].evidence: k \in DOMAIN one} OBVIOUS
<1>14. \A k, l \in DOMAIN one: k # l => one[k].source \intersect one[l].source = {}
  BY <1>3 DEF Picks
<1>15. one # <<>> BY <1>7
<1> QED BY <1>4, <1>5, <1>6, <1>9, <1>10, <1>11, <1>12, <1>13, <1>14, <1>15 DEF Combines

\* The same when fuse_events sorts the group first.
LEMMA FuseCombines ==
    ASSUME NEW group \in Seq(Events), Len(group) > 0, OneType(group)
    PROVE  \E one: Combines(Fuse(group), group, one)
<1>1. PICK d: d = SortedBy(group, Surer) OBVIOUS
<1>2. d \in Seq(Events) /\ Rearranges(d, group) /\ Descends(d)
  BY <1>1, EventsTimed, SortsBySurer
<1>3. PICK one: one = Independent(d) OBVIOUS
<1>4. PICK f: f = [type |-> one[1].type,
                   start |-> Min({one[n].start: n \in DOMAIN one}),
                   end |-> EndOf(one),
                   confidence |-> ConfidenceOf(one),
                   source |-> SourcesOf(one),
                   evidence |-> UNION {one[n].evidence: n \in DOMAIN one},
                   review |-> \E n \in DOMAIN one: one[n].review]
  OBVIOUS
<1>5. Combines(f, group, one) BY <1>2, <1>3, <1>4, FuseCounts
<1>6. f = Fuse(group) BY <1>1, <1>3, <1>4 DEF Fuse
<1> QED BY <1>5, <1>6

-----------------------------------------------------------------------------
(* FusionIsSound, of fuse_events                                           *)

\* A group of what was collected.
Collects(group) == \A p \in DOMAIN group: \E m \in DOMAIN events: group[p] = events[m]

\* The members of a fused event, known by their evidence, are the events it counts.
LEMMA MembersAreCounted ==
    ASSUME EventsFit, NEW group, Collects(group), NEW f, NEW one, Combines(f, group, one)
    PROVE  Members(f) = {one[k]: k \in DOMAIN one}
<1>1. ASSUME NEW k \in DOMAIN one
      PROVE  \E m \in DOMAIN events: one[k] = events[m] /\ one[k].evidence = {m}
  <2>1. PICK p \in DOMAIN group: one[k] = group[p] BY DEF Combines
  <2>2. PICK m \in DOMAIN events: group[p] = events[m] BY DEF Collects
  <2>3. events[m].evidence = {m} BY DEF EventsFit
  <2> QED BY <2>1, <2>2, <2>3
<1>2. f.evidence = UNION {one[k].evidence: k \in DOMAIN one} BY DEF Combines
<1>3. ASSUME NEW k \in DOMAIN one PROVE one[k] \in Members(f)
  <2>1. one[k] \in ToSet(events) BY <1>1 DEF ToSet
  <2>2. one[k].evidence \subseteq f.evidence BY <1>2
  <2> QED BY <2>1, <2>2 DEF Members
<1>4. ASSUME NEW e \in Members(f) PROVE \E k \in DOMAIN one: e = one[k]
  <2>1. e \in ToSet(events) /\ e.evidence \subseteq f.evidence BY <1>4 DEF Members
  <2>2. PICK m \in DOMAIN events: e = events[m] BY <2>1 DEF ToSet
  <2>3. m \in e.evidence BY <2>2 DEF EventsFit
  <2>4. PICK k \in DOMAIN one: m \in one[k].evidence BY <1>2, <2>1, <2>3
  <2>5. PICK l \in DOMAIN events: one[k] = events[l] /\ one[k].evidence = {l} BY <1>1
  <2>6. m = l BY <2>4, <2>5
  <2> QED BY <2>2, <2>5, <2>6
<1> QED BY <1>3, <1>4

\* What a fused event claims.
ClaimsOwn(f) ==
    LET in == Members(f) IN
    /\ in # {}
    /\ f.evidence = UNION {e.evidence: e \in in}
    /\ \A e \in in: e.type = f.type /\ e.confidence <= f.confidence
    /\ \A d, e \in in: d # e => d.source \intersect e.source = {}

\* A fused event rests on independent events of its own type.
LEMMA FusedClaimsOwn ==
    ASSUME EventsFit, NEW group \in Seq(Events), Len(group) > 0, OneType(group), Collects(group),
           NEW f, NEW one, Combines(f, group, one)
    PROVE  ClaimsOwn(f)
<1>1. PICK in: in = {one[k]: k \in DOMAIN one} OBVIOUS
<1>2. in = Members(f) BY <1>1, MembersAreCounted
<1>3. in # {}
  <2>1. one \in Seq(Events) /\ one # <<>> BY DEF Combines
  <2>2. PICK n \in Nat: n = Len(one) /\ DOMAIN one = 1..n BY <2>1
  <2>3. n # 0 BY <2>1, <2>2
  <2>4. 1 \in DOMAIN one BY <2>2, <2>3
  <2> QED BY <1>1, <2>4
<1>4. f.evidence = UNION {e.evidence: e \in in}
  <2>1. f.evidence = UNION {one[k].evidence: k \in DOMAIN one} BY DEF Combines
  <2>2. {e.evidence: e \in in} = {one[k].evidence: k \in DOMAIN one} BY <1>1
  <2> QED BY <2>1, <2>2
<1>5. ASSUME NEW e \in in PROVE e.type = f.type /\ e.confidence <= f.confidence
  <2>1. PICK k \in DOMAIN one: e = one[k] BY <1>1
  <2>2. PICK p \in DOMAIN group: one[k] = group[p] BY DEF Combines
  <2>3. 1 \in DOMAIN group OBVIOUS
  <2>4. group[p].type = group[1].type BY <2>3 DEF OneType
  <2>5. f.type = group[1].type /\ one[k].confidence <= f.confidence BY DEF Combines
  <2> QED BY <2>1, <2>2, <2>4, <2>5
<1>6. ASSUME NEW d \in in, NEW e \in in, d # e PROVE d.source \intersect e.source = {}
  <2>1. PICK k \in DOMAIN one: d = one[k] BY <1>1
  <2>2. PICK l \in DOMAIN one: e = one[l] BY <1>1
  <2>3. k # l BY <1>6, <2>1, <2>2
  <2> QED BY <2>1, <2>2, <2>3 DEF Combines
<1> QED BY <1>2, <1>3, <1>4, <1>5, <1>6 DEF ClaimsOwn


\* What e is left out for.
ReachedBy(d, e, w) ==
    /\ d = e \/ (d.source \intersect e.source # {} /\ d.confidence >= e.confidence)
    /\ d.type = e.type
    /\ Linked(e.type, Min({d.start, e.start}), Max({d.start, e.start}), w)

\* Within a group no moment is far from an event.
LEMMA GroupIsLinked ==
    ASSUME EventsFit, NEW g \in Seq(Events), Collects(g), OneType(g), Ascends(g), NEW w \in Nat,
           GroupLinked(g, w), NEW p \in DOMAIN g, NEW q \in DOMAIN g, g[p].start <= g[q].start
    PROVE  Linked(g[p].type, g[p].start, g[q].start, w)
<1>1. PICK n \in Nat \ {0}: n = Len(g) /\ DOMAIN g = 1..n OBVIOUS
<1>2. 1 \in DOMAIN g /\ n \in DOMAIN g BY <1>1
<1>3. \A k \in DOMAIN g: g[k] \in Events OBVIOUS
<1>4. \A k \in DOMAIN g: g[k].start \in Nat BY <1>3, EventFields
<1>5. g[1].start <= g[p].start
  <2>1. p = 1 \/ 1 < p BY <1>1
  <2>2. 1 < p => g[1].start <= g[p].start BY <1>2 DEF Ascends
  <2> QED BY <1>2, <1>4, <2>1, <2>2
<1>6. g[q].start <= g[n].start
  <2>1. q = n \/ q < n BY <1>1
  <2>2. q < n => g[q].start <= g[n].start BY <1>2 DEF Ascends
  <2> QED BY <1>2, <1>4, <2>1, <2>2
<1>7. ASSUME NEW t \in g[p].start..(g[q].start - 1)
      PROVE  \E m \in DOMAIN events: /\ events[m].type = g[p].type
                                     /\ events[m].start <= t /\ t < events[m].end + w
  <2>1. PICK a \in Nat, b \in Nat, x \in Nat, y \in Nat:
           a = g[1].start /\ b = g[n].start /\ x = g[p].start /\ y = g[q].start
    BY <1>2, <1>4
  <2>2. t \in x..(y - 1) /\ a <= x /\ y <= b BY <1>5, <1>6, <2>1
  <2>3. t \in a..(b - 1)
    <3>1. t \in Nat /\ x <= t /\ t < y BY <2>2
    <3> QED BY <2>2, <3>1
  <2>4. t \in g[1].start..(g[Len(g)].start - 1) BY <1>1, <2>1, <2>3
  <2>5. PICK k \in DOMAIN g: g[k].start <= t /\ t < g[k].end + w BY <2>4 DEF GroupLinked
  <2>6. g[k].type = g[p].type BY DEF OneType
  <2>7. PICK m \in DOMAIN events: g[k] = events[m] BY DEF Collects
  <2> QED BY <2>5, <2>6, <2>7
<1> QED BY <1>7 DEF Linked

\* An event that is left out is near one that is in, of one source with it.
LEMMA FusedReaches ==
    ASSUME EventsFit, NEW g \in Seq(Events), Collects(g), OneType(g), Ascends(g), NEW w \in Nat,
           GroupLinked(g, w), NEW f, NEW one, Combines(f, g, one), NEW p \in DOMAIN g
    PROVE  \E d \in Members(f): ReachedBy(d, g[p], w)
<1>1. PICK k \in DOMAIN one: /\ one[k] = g[p] \/ one[k].source \intersect g[p].source # {}
                             /\ one[k].confidence >= g[p].confidence
  BY DEF Combines
<1>2. PICK q \in DOMAIN g: one[k] = g[q] BY DEF Combines
<1>3. g[q] \in Members(f) BY <1>2, MembersAreCounted
<1>4. g[q].type = g[p].type BY DEF OneType
<1>5. g[p] \in Events /\ g[q] \in Events OBVIOUS
<1>6. PICK x \in Nat, y \in Nat: x = g[q].start /\ y = g[p].start BY <1>5, EventFields
<1>7. Linked(g[p].type, Min({x, y}), Max({x, y}), w)
  <2>1. CASE x <= y
    <3>1. Min({x, y}) = x /\ Max({x, y}) = y BY <2>1, MinOfPair, MaxOfPair
    <3>2. Linked(g[q].type, x, y, w) BY <1>6, <2>1, GroupIsLinked
    <3> QED BY <1>4, <3>1, <3>2
  <2>2. CASE y <= x
    <3>1. Min({x, y}) = y /\ Max({x, y}) = x BY <2>2, MinOfPair, MaxOfPair
    <3>2. Linked(g[p].type, y, x, w) BY <1>6, <2>2, GroupIsLinked
    <3> QED BY <3>1, <3>2
  <2> QED BY <2>1, <2>2
<1>8. ReachedBy(g[q], g[p], w) BY <1>1, <1>2, <1>4, <1>6, <1>7 DEF ReachedBy
<1> QED BY <1>3, <1>8


\* Why two fused events stay two.
StayApart(f, h, w) ==
    /\ f.evidence \intersect h.evidence = {}
    /\ f.type = h.type =>
          \/ h.start - f.end > w
          \/ \E e \in ToSet(events): e.type # f.type /\ f.start <= e.start /\ e.start <= h.start

\* Start, end and evidence of a fused event are those of events of its group.
LEMMA CombinedStart ==
    ASSUME NEW f, NEW group, NEW one, Combines(f, group, one)
    PROVE  /\ \E p \in DOMAIN group: f.start = group[p].start
           /\ \E p \in DOMAIN group: f.end = group[p].end
           /\ \A x \in f.evidence: \E p \in DOMAIN group: x \in group[p].evidence
           /\ f.type = group[1].type
<1>1. \A k \in DOMAIN one: \E p \in DOMAIN group: one[k] = group[p] BY DEF Combines
<1>2. \E p \in DOMAIN group: f.start = group[p].start
  <2>1. PICK k \in DOMAIN one: f.start = one[k].start BY DEF Combines
  <2> QED BY <1>1, <2>1
<1>3. \E p \in DOMAIN group: f.end = group[p].end
  <2>1. PICK k \in DOMAIN one: f.end = one[k].end BY DEF Combines
  <2> QED BY <1>1, <2>1
<1>4. ASSUME NEW x \in f.evidence PROVE \E p \in DOMAIN group: x \in group[p].evidence
  <2>1. PICK k \in DOMAIN one: x \in one[k].evidence BY DEF Combines
  <2> QED BY <1>1, <2>1
<1>5. f.type = group[1].type BY DEF Combines
<1> QED BY <1>2, <1>3, <1>4, <1>5

\* Two groups stay two: the one after the first was closed against it.
LEMMA FusedStayApart ==
    ASSUME EventsFit, NEW d \in Seq(Events), NEW w \in Nat, NEW gs \in Seq(Seq(Events)),
           GroupsInv(gs, d, Len(d), w),
           NEW i \in DOMAIN gs, NEW j \in DOMAIN gs, i < j, \A a \in DOMAIN gs: Collects(gs[a]),
           NEW f, NEW one, Combines(f, gs[i], one),
           NEW h, NEW two, Combines(h, gs[j], two)
    PROVE  StayApart(f, h, w)
<1>1. PICK n \in Nat: n = Len(gs) /\ DOMAIN gs = 1..n OBVIOUS
<1>2. PICK m: m = i + 1 /\ m \in DOMAIN gs /\ i < m /\ (m = j \/ m < j) BY <1>1
<1>3. \A a \in DOMAIN gs: GroupFits(gs[a], d, Len(d), w) BY DEF GroupsInv
<1>4. PICK G: G = gs[i] OBVIOUS
<1>5. PICK H: H = gs[j] OBVIOUS
<1>6. PICK M: M = gs[m] OBVIOUS
<1>7. /\ G \in Seq(Events) /\ H \in Seq(Events) /\ M \in Seq(Events)
      /\ Len(M) > 0 /\ Ascends(M) /\ Collects(M)
  BY <1>2, <1>3, <1>4, <1>5, <1>6 DEF GroupFits
<1>8. NotAfter(G, M) /\ Strange(G, H) /\ Closed(G, M, w) /\ (m < j => NotAfter(M, H))
  BY <1>2, <1>4, <1>5, <1>6 DEF GroupsInv
<1>9. PICK p \in DOMAIN G: f.start = G[p].start BY <1>4, CombinedStart
<1>10. PICK z \in DOMAIN G: f.end = G[z].end
  <2>1. Combines(f, G, one) BY <1>4
  <2>2. PICK k \in DOMAIN one: f.end = one[k].end BY <2>1 DEF Combines
  <2>3. PICK z \in DOMAIN G: one[k] = G[z] BY <2>1 DEF Combines
  <2> QED BY <2>2, <2>3
<1>11. PICK q \in DOMAIN H: h.start = H[q].start BY <1>5, CombinedStart
<1>12. f.type = G[1].type /\ h.type = H[1].type BY <1>4, <1>5, CombinedStart
<1>13. f.evidence \intersect h.evidence = {}
  <2>1. \A x \in f.evidence: \E a \in DOMAIN G: x \in G[a].evidence BY <1>4, CombinedStart
  <2>2. \A x \in h.evidence: \E a \in DOMAIN H: x \in H[a].evidence BY <1>5, CombinedStart
  <2> QED BY <1>8, <2>1, <2>2 DEF Strange
<1>14. 1 \in DOMAIN M /\ M[1] \in Events BY <1>7
<1>15. G[p] \in Events /\ G[z] \in Events /\ H[q] \in Events BY <1>7
<1>16. PICK x \in Nat: x = M[1].start BY <1>14, EventFields
<1>17. PICK a \in Nat, b \in Nat, c \in Nat: a = G[p].start /\ b = G[z].end /\ c = H[q].start
  BY <1>15, EventFields
<1>18. a <= x /\ x <= c
  <2>1. a <= x BY <1>8, <1>14, <1>16, <1>17 DEF NotAfter
  <2>2. CASE m = j
    <3>1. H = M BY <1>5, <1>6, <2>2
    <3>2. q = 1 \/ 1 < q BY <1>7
    <3>3. 1 < q => M[1].start <= M[q].start BY <1>7, <1>14, <3>1 DEF Ascends
    <3>4. x <= c BY <1>16, <1>17, <3>1, <3>2, <3>3
    <3> QED BY <2>1, <3>4
  <2>3. CASE m < j
    <3>1. x <= c BY <1>8, <1>14, <1>16, <1>17, <2>3 DEF NotAfter
    <3> QED BY <2>1, <3>1
  <2> QED BY <1>2, <2>2, <2>3
<1>19. ASSUME f.type = h.type
       PROVE  \/ h.start - f.end > w
              \/ \E e \in ToSet(events): e.type # f.type /\ f.start <= e.start /\ e.start <= h.start
  <2>1. CASE M[1].type # G[1].type
    <3>1. M[1] \in ToSet(events) BY <1>7, <1>14 DEF Collects, ToSet
    <3> QED BY <1>9, <1>11, <1>12, <1>16, <1>17, <1>18, <2>1, <3>1
  <2>2. CASE \A k \in DOMAIN G: M[1].start - G[k].end > w
    <3>1. x - b > w BY <1>16, <1>17, <2>2
    <3>2. c - b > w BY <1>18, <3>1
    <3> QED BY <1>10, <1>11, <1>17, <3>2
  <2> QED BY <1>8, <2>1, <2>2 DEF Closed
<1> QED BY <1>13, <1>19 DEF StayApart

\* The events collected are known by their evidence, in any order.
LEMMA EventsAreKnown ==
    ASSUME EventsFit, NEW d, Rearranges(d, events)
    PROVE  Known(d)
<1>1. PICK q: /\ q \in [DOMAIN d -> DOMAIN events]
              /\ \A k, l \in DOMAIN d: k # l => q[k] # q[l]
              /\ \A k \in DOMAIN d: d[k] = events[q[k]]
  BY DEF Rearranges
<1>2. ASSUME NEW k \in DOMAIN d, NEW l \in DOMAIN d, k # l
      PROVE  d[k].evidence \intersect d[l].evidence = {}
  <2>1. q[k] \in DOMAIN events /\ q[l] \in DOMAIN events /\ q[k] # q[l] BY <1>1, <1>2
  <2>2. events[q[k]].evidence = {q[k]} /\ events[q[l]].evidence = {q[l]} BY <2>1 DEF EventsFit
  <2>3. d[k] = events[q[k]] /\ d[l] = events[q[l]] BY <1>1
  <2> QED BY <2>1, <2>2, <2>3
<1> QED BY <1>2 DEF Known

\* What fuse_events makes of the groups it finds.
FusesGroups(fused, gs) ==
    /\ DOMAIN fused = DOMAIN gs
    /\ \A n \in DOMAIN gs: \E one: Combines(fused[n], gs[n], one)

\* fuse_events sorts, groups and fuses.
LEMMA GroupsAreFused ==
    ASSUME EventsFit, NEW w \in Nat
    PROVE  \E d, gs: /\ d \in Seq(Events) /\ gs \in Seq(Seq(Events)) /\ Rearranges(d, events)
                     /\ GroupsInv(gs, d, Len(d), w)
                     /\ FusesGroups(Fused(events, w), gs)
<1>1. events \in Seq(Events) BY DEF EventsFit
<1>2. PICK d: d = SortedBy(events, Earlier) OBVIOUS
<1>3. d \in Seq(Events) /\ Rearranges(d, events) /\ Ascends(d)
  BY <1>1, <1>2, EventsTimed, SortsByTime
<1>4. Known(d) BY <1>3, EventsAreKnown
<1>5. PICK gs: gs = Groups(d, w) OBVIOUS
<1>6. gs \in Seq(Seq(Events)) /\ GroupsInv(gs, d, Len(d), w) BY <1>3, <1>4, <1>5, GroupsPart
<1>7. PICK fused: fused = [n \in DOMAIN gs |-> Fuse(gs[n])] OBVIOUS
<1>8. Fused(events, w) = fused BY <1>2, <1>5, <1>7 DEF Fused
<1>9. ASSUME NEW n \in DOMAIN gs PROVE \E one: Combines(fused[n], gs[n], one)
  <2>1. PICK g: g = gs[n] OBVIOUS
  <2>2. GroupFits(g, d, Len(d), w) BY <1>6, <2>1 DEF GroupsInv
  <2>3. g \in Seq(Events) /\ Len(g) > 0 /\ OneType(g) BY <2>2 DEF GroupFits
  <2>4. \E one: Combines(Fuse(g), g, one) BY <2>3, FuseCombines
  <2> QED BY <1>7, <2>1, <2>4
<1>10. FusesGroups(fused, gs) BY <1>7, <1>9 DEF FusesGroups
<1> QED BY <1>3, <1>6, <1>8, <1>10

\* All that FusionIsSound says of fuse_events.
LEMMA FusionSeparates == EventsFit => FusionIsIndependent
<1> SUFFICES ASSUME EventsFit PROVE FusionIsIndependent OBVIOUS
<1>1. FuseWindow \in Nat BY ResultsAssumption
<1> DEFINE fused == Fused(events, FuseWindow)
<1>2. PICK d, gs: /\ d \in Seq(Events) /\ gs \in Seq(Seq(Events)) /\ Rearranges(d, events)
                  /\ GroupsInv(gs, d, Len(d), FuseWindow)
                  /\ FusesGroups(fused, gs)
  BY <1>1, GroupsAreFused
<1> HIDE DEF fused
<1>3. DOMAIN fused = DOMAIN gs BY <1>2 DEF FusesGroups
<1>4. ASSUME NEW n \in DOMAIN gs
      PROVE  /\ gs[n] \in Seq(Events) /\ Len(gs[n]) > 0 /\ OneType(gs[n]) /\ Ascends(gs[n])
             /\ GroupLinked(gs[n], FuseWindow) /\ Collects(gs[n])
  <2>1. GroupFits(gs[n], d, Len(d), FuseWindow) BY <1>2 DEF GroupsInv
  <2>2. ASSUME NEW p \in DOMAIN gs[n] PROVE \E m \in DOMAIN events: gs[n][p] = events[m]
    <3>1. PICK j \in 1..Len(d): gs[n][p] = d[j] BY <2>1 DEF GroupFits, AllFrom
    <3>2. \A k \in DOMAIN d: \E m \in DOMAIN events: d[k] = events[m] BY <1>2, SameElements
    <3>3. j \in DOMAIN d BY <1>2
    <3> QED BY <3>1, <3>2, <3>3
  <2> QED BY <2>1, <2>2 DEF GroupFits, Collects
<1>5. ASSUME NEW n \in DOMAIN fused PROVE ClaimsOwn(fused[n])
  <2>1. n \in DOMAIN gs BY <1>3
  <2>2. PICK one: Combines(fused[n], gs[n], one) BY <1>2, <2>1 DEF FusesGroups
  <2> QED BY <1>4, <2>1, <2>2, FusedClaimsOwn
<1>6. ASSUME NEW e \in ToSet(events)
      PROVE  \E n \in DOMAIN fused: \E r \in Members(fused[n]): ReachedBy(r, e, FuseWindow)
  <2>1. PICK m \in DOMAIN events: e = events[m] BY DEF ToSet
  <2>2. PICK j \in DOMAIN d: d[j] = e BY <1>2, <2>1, SameElements
  <2>3. j \in 1..Len(d) BY <1>2
  <2>4. PICK n \in DOMAIN gs: \E p \in DOMAIN gs[n]: gs[n][p] = d[j]
    BY <1>2, <2>3 DEF GroupsInv
  <2>5. PICK p \in DOMAIN gs[n]: gs[n][p] = e BY <2>2, <2>4
  <2>6. PICK one: Combines(fused[n], gs[n], one) BY <1>2 DEF FusesGroups
  <2>7. \E r \in Members(fused[n]): ReachedBy(r, gs[n][p], FuseWindow)
    BY <1>1, <1>4, <2>6, FusedReaches
  <2> QED BY <1>3, <2>5, <2>7
<1>7. ASSUME NEW i \in DOMAIN fused, NEW j \in DOMAIN fused, i < j
      PROVE  StayApart(fused[i], fused[j], FuseWindow)
  <2>1. i \in DOMAIN gs /\ j \in DOMAIN gs BY <1>3
  <2>2. PICK one: Combines(fused[i], gs[i], one) BY <1>2, <2>1 DEF FusesGroups
  <2>3. PICK two: Combines(fused[j], gs[j], two) BY <1>2, <2>1 DEF FusesGroups
  <2>4. \A a \in DOMAIN gs: Collects(gs[a]) BY <1>4
  <2> QED BY <1>1, <1>2, <1>7, <2>1, <2>2, <2>3, <2>4, FusedStayApart
<1>8. \A n \in DOMAIN fused: LET in == Members(fused[n]) IN
          /\ in # {}
          /\ fused[n].evidence = UNION {e.evidence: e \in in}
          /\ \A e \in in: e.type = fused[n].type /\ e.confidence <= fused[n].confidence
          /\ \A x, e \in in: x # e => x.source \intersect e.source = {}
  BY <1>5, Zenon DEF ClaimsOwn
<1>9. \A e \in ToSet(events): \E n \in DOMAIN fused: \E r \in Members(fused[n]):
          /\ r = e \/ (r.source \intersect e.source # {} /\ r.confidence >= e.confidence)
          /\ r.type = e.type
          /\ Linked(e.type, Min({r.start, e.start}), Max({r.start, e.start}), FuseWindow)
  BY <1>6, Zenon DEF ReachedBy
<1>10. \A i, j \in DOMAIN fused:
          i < j => /\ fused[i].evidence \intersect fused[j].evidence = {}
                   /\ fused[i].type = fused[j].type =>
                         \/ fused[j].start - fused[i].end > FuseWindow
                         \/ \E e \in ToSet(events): /\ e.type # fused[i].type
                                                    /\ fused[i].start <= e.start
                                                    /\ e.start <= fused[j].start
  BY <1>7, Zenon DEF StayApart
<1> QED BY <1>8, <1>9, <1>10, Zenon DEF FusionIsIndependent, fused

-----------------------------------------------------------------------------
(* FusionIsSound, of fuse_semantic_events                                  *)

\* Two comprehensions whose conditions exclude each other split a list.
LEMMA OnlySplits ==
    ASSUME NEW d \in Seq(Events), NEW b, NEW c,
           \A j \in DOMAIN d: (d[j] \in b /\ d[j] \notin c) \/ (d[j] \in c /\ d[j] \notin b)
    PROVE  Len(Only(d, b)) + Len(Only(d, c)) = Len(d)
<1>1. PICK n \in Nat: n = Len(d) /\ DOMAIN d = 1..n OBVIOUS
<1>2. PICK g: /\ g[0] = <<>> /\ g[n] = Only(d, b)
              /\ \A i \in 1..n: g[i] = OnlyStep(g[i - 1], d[i], b)
  BY <1>1, OnlySteps
<1>3. PICK h: /\ h[0] = <<>> /\ h[n] = Only(d, c)
              /\ \A i \in 1..n: h[i] = OnlyStep(h[i - 1], d[i], c)
  BY <1>1, OnlySteps
<1> DEFINE Good(i) == i <= n => /\ g[i] \in Seq(Events) /\ h[i] \in Seq(Events)
                                /\ Len(g[i]) + Len(h[i]) = i
           S == {i \in Nat: Good(i)}
<1>4. Good(0) BY <1>2, <1>3
<1>5. ASSUME NEW i \in Nat, Good(i), i + 1 <= n PROVE Good(i + 1)
  <2>1. i + 1 \in 1..n /\ (i + 1) - 1 = i /\ i <= n BY <1>5
  <2>2. g[i] \in Seq(Events) /\ h[i] \in Seq(Events) /\ Len(g[i]) + Len(h[i]) = i
    BY <1>5, <2>1
  <2>3. PICK s \in Seq(Events): s = g[i] BY <2>2
  <2>4. PICK t \in Seq(Events): t = h[i] BY <2>2
  <2>5. PICK e \in Events: e = d[i + 1] BY <1>1, <2>1
  <2>6. g[i + 1] = OnlyStep(s, e, b) BY <1>2, <2>1, <2>3, <2>5
  <2>7. h[i + 1] = OnlyStep(t, e, c) BY <1>3, <2>1, <2>4, <2>5
  <2>8. PICK k \in Nat: k = Len(s) OBVIOUS
  <2>9. PICK l \in Nat: l = Len(t) OBVIOUS
  <2>10. k + l = i BY <2>2, <2>3, <2>4, <2>8, <2>9
  <2>11. Append(s, e) \in Seq(Events) /\ Len(Append(s, e)) = k + 1 BY <2>8
  <2>12. Append(t, e) \in Seq(Events) /\ Len(Append(t, e)) = l + 1 BY <2>9
  <2>13. CASE e \in b /\ e \notin c
    <3>1. g[i + 1] = Append(s, e) /\ h[i + 1] = t BY <2>6, <2>7, <2>13 DEF OnlyStep
    <3>2. g[i + 1] \in Seq(Events) /\ Len(g[i + 1]) = k + 1 BY <2>11, <3>1
    <3>3. h[i + 1] \in Seq(Events) /\ Len(h[i + 1]) = l BY <2>4, <2>9, <3>1
    <3>4. (k + 1) + l = i + 1 BY <2>10, <2>8, <2>9
    <3> QED BY <3>2, <3>3, <3>4
  <2>14. CASE e \in c /\ e \notin b
    <3>1. g[i + 1] = s /\ h[i + 1] = Append(t, e) BY <2>6, <2>7, <2>14 DEF OnlyStep
    <3>2. g[i + 1] \in Seq(Events) /\ Len(g[i + 1]) = k BY <2>3, <2>8, <3>1
    <3>3. h[i + 1] \in Seq(Events) /\ Len(h[i + 1]) = l + 1 BY <2>12, <3>1
    <3>4. k + (l + 1) = i + 1 BY <2>10, <2>8, <2>9
    <3> QED BY <3>2, <3>3, <3>4
  <2>15. i + 1 \in DOMAIN d BY <1>1, <2>1
  <2> QED BY <2>5, <2>13, <2>14, <2>15
<1>6. ASSUME NEW i \in Nat, i \in S PROVE i + 1 \in S
  <2>1. Good(i) BY <1>6
  <2>2. i + 1 <= n => Good(i + 1)
    <3> HIDE DEF Good
    <3> QED BY <1>5, <2>1
  <2>3. ~(i + 1 <= n) => Good(i + 1) OBVIOUS
  <2> HIDE DEF Good
  <2> QED BY <2>2, <2>3
<1>7. 0 \in S
  <2> HIDE DEF Good
  <2> QED BY <1>4
<1>8. n \in S
  <2> HIDE DEF S
  <2> QED BY <1>6, <1>7, SetInduction
<1>9. Good(n)
  <2> HIDE DEF Good
  <2> QED BY <1>8
<1>10. Len(g[n]) + Len(h[n]) = n
  <2>1. n <= n BY <1>1
  <2> QED BY <1>9, <2>1
<1> QED BY <1>1, <1>2, <1>3, <1>10


\* What is said of a goal once the score changes were looked at.
Told(goal, r, near) ==
    /\ r \in Events /\ r.type = goal.type /\ r.confidence >= goal.confidence
    /\ r.review <=> near = {}
    /\ \/ r.review /\ r = goal
       \/ \E d \in near: r.evidence = goal.evidence \union d.evidence

\* A goal that a score change confirms.
LEMMA ConfirmTells ==
    ASSUME NEW goal \in Events, NEW near, NEW d \in Events, d \in near
    PROVE  Told(goal, Confirm(goal, d), near)
<1>1. PICK S: S = {goal.start, d.start} OBVIOUS
<1>2. PICK E: E = {goal.end, d.end} OBVIOUS
<1>3. /\ goal.start \in Nat /\ d.start \in Nat /\ goal.end \in Nat /\ d.end \in Nat
      /\ goal.confidence \in 0..100 /\ d.confidence \in 0..100
  BY EventFields
<1>4. Min(S) \in Nat
  <2>1. S \subseteq Nat /\ S # {} BY <1>1, <1>3
  <2> QED BY <2>1, MinIsMember
<1>5. Max(E) \in Nat
  <2>1. PICK x \in Nat, y \in Nat: x = goal.end /\ y = d.end BY <1>3
  <2>2. Max({x, y}) \in Nat
    <3>1. CASE x <= y
      <4>1. Max({x, y}) = y BY <3>1, MaxOfPair
      <4> QED BY <4>1
    <3>2. CASE y <= x
      <4>1. Max({y, x}) = x BY <3>2, MaxOfPair
      <4>2. {y, x} = {x, y} OBVIOUS
      <4> QED BY <4>1, <4>2
    <3> QED BY <3>1, <3>2
  <2> QED BY <1>2, <2>1, <2>2
<1>6. PICK c \in 0..100: c = NoisyOr(goal.confidence, d.confidence) /\ c >= goal.confidence
  BY <1>3, NoisyOrBounds
<1>7. PICK r: r = [goal EXCEPT !.start = Min(S), !.end = Max(E), !.confidence = c,
                               !.source = goal.source \union d.source,
                               !.evidence = goal.evidence \union d.evidence,
                               !.review = FALSE]
  OBVIOUS
<1>8. Confirm(goal, d) = r BY <1>1, <1>2, <1>6, <1>7 DEF Confirm
<1>9. r \in Events BY <1>4, <1>5, <1>7 DEF Events
<1>10. /\ r.type = goal.type /\ r.confidence = c /\ ~r.review
       /\ r.evidence = goal.evidence \union d.evidence
  BY <1>7 DEF Events
<1>11. Told(goal, r, near) BY <1>6, <1>9, <1>10 DEF Told
<1> QED BY <1>8, <1>11

\* A score change is found if there is one near.
LEMMA SupportIsNear ==
    ASSUME NEW list \in Seq(Events), NEW goal, NEW w,
           NEW near, near = ScoreChangesNear(list, goal, w),
           NEW found, found = Supports(list, goal, w)
    PROVE  /\ found = <<>> <=> near = {}
           /\ found # <<>> => found[1] \in Events /\ found[1] \in near
<1>1. PICK d: d = SortedBy(list, Earlier) OBVIOUS
<1>2. d \in Seq(Events) /\ Rearranges(d, list) BY <1>1, EventsTimed, SortsByTime
<1>3. found = Only(d, near) BY <1>1 DEF Supports
<1>4. /\ found \in Seq(Events) /\ \A k \in DOMAIN found: found[k] \in near
      /\ \A j \in DOMAIN d: d[j] \in near => \E k \in DOMAIN found: found[k] = d[j]
  BY <1>2, <1>3, OnlyChosen
<1>5. PICK n \in Nat: n = Len(found) /\ DOMAIN found = 1..n BY <1>4
<1>6. ASSUME found # <<>> PROVE found[1] \in Events /\ found[1] \in near
  <2>1. n # 0 BY <1>4, <1>5, <1>6
  <2>2. 1 \in DOMAIN found BY <1>5, <2>1
  <2> QED BY <1>4, <2>2
<1>7. ASSUME NEW e \in near PROVE found # <<>>
  <2>1. e \in ToSet(list) BY DEF ScoreChangesNear
  <2>2. PICK i \in DOMAIN list: e = list[i] BY <2>1 DEF ToSet
  <2>3. PICK j \in DOMAIN d: d[j] = e BY <1>2, <2>2, SameElements
  <2>4. PICK k \in DOMAIN found: found[k] = e BY <1>4, <1>7, <2>3
  <2> QED BY <1>5, <2>4
<1> QED BY <1>6, <1>7

\* A goal, confirmed or not.
LEMMA GoalIsTold ==
    ASSUME NEW list \in Seq(Events), NEW goal \in Events, goal.review, NEW w,
           NEW found, found = Supports(list, goal, w)
    PROVE  Told(goal, IF found = <<>> THEN goal ELSE Confirm(goal, found[1]),
                ScoreChangesNear(list, goal, w))
<1>1. PICK near: near = ScoreChangesNear(list, goal, w) OBVIOUS
<1>2. /\ found = <<>> <=> near = {}
      /\ found # <<>> => found[1] \in Events /\ found[1] \in near
  BY <1>1, SupportIsNear
<1>3. CASE found = <<>>
  <2>1. PICK c \in 0..100: c = goal.confidence BY EventFields
  <2>2. goal.confidence >= goal.confidence BY <2>1
  <2>3. Told(goal, goal, near) BY <1>2, <1>3, <2>2 DEF Told
  <2> QED BY <1>1, <1>3, <2>3
<1>4. CASE found # <<>>
  <2>1. Told(goal, Confirm(goal, found[1]), near) BY <1>2, <1>4, ConfirmTells
  <2> QED BY <1>1, <1>4, <2>1
<1> QED BY <1>3, <1>4

\* What becomes of an event when goals are confirmed.
Answered(e, r, near) ==
    IF IsGoal(e)
    THEN /\ r.type = e.type /\ r.confidence >= e.confidence
         /\ r.review <=> near = {}
         /\ \/ r.review /\ r = e
            \/ \E d \in near: r.evidence = e.evidence \union d.evidence
    ELSE r = e

\* u is s, and then t.
IsTogether(u, s, t, X) ==
    /\ u \in Seq(X) /\ Len(u) = Len(s) + Len(t)
    /\ \A k \in 1..Len(s): u[k] = s[k]
    /\ \A k \in 1..Len(t): u[Len(s) + k] = t[k]

\* Two lists, one after the other.
LEMMA PutTogether ==
    ASSUME NEW X, NEW s \in Seq(X), NEW t \in Seq(X), NEW u, u = s \o t
    PROVE  IsTogether(u, s, t, X)
<1>1. s \o t \in Seq(X) /\ Len(s \o t) = Len(s) + Len(t) OBVIOUS
<1>2. \A k \in 1..Len(s): (s \o t)[k] = s[k] OBVIOUS
<1>3. \A k \in 1..Len(t): (s \o t)[Len(s) + k] = t[k] OBVIOUS
<1> QED BY <1>1, <1>2, <1>3 DEF IsTogether

\* fuse_semantic_events, over a list of any length.
LEMMA GoalsConfirmed ==
    ASSUME NEW list \in Seq(Events), \A n \in DOMAIN list: list[n].review, NEW w,
           NEW result, result = FusedSemantic(list, w)
    PROVE  /\ Len(result) = Len(list)
           /\ \A e \in ToSet(list): \E r \in ToSet(result):
                 Answered(e, r, ScoreChangesNear(list, e, w))
<1>1. PICK n \in Nat: n = Len(list) /\ DOMAIN list = 1..n OBVIOUS
<1>2. PICK b: b = {e \in ToSet(list): IsGoal(e)} OBVIOUS
<1>3. PICK c: c = ToSet(list) \ b OBVIOUS
<1>4. \A j \in DOMAIN list: \/ list[j] \in b /\ list[j] \notin c
                            \/ list[j] \in c /\ list[j] \notin b
  BY <1>2, <1>3 DEF ToSet
<1>5. PICK wanted: wanted = Only(list, b) OBVIOUS
<1>6. PICK others: others = Only(list, c) OBVIOUS
<1>7. /\ wanted \in Seq(Events)
      /\ \A j \in DOMAIN list: list[j] \in b => \E k \in DOMAIN wanted: wanted[k] = list[j]
      /\ \A k \in DOMAIN wanted: \E j \in DOMAIN list: wanted[k] = list[j]
  BY <1>5, OnlyChosen
<1>8. /\ others \in Seq(Events)
      /\ \A j \in DOMAIN list: list[j] \in c => \E k \in DOMAIN others: others[k] = list[j]
  BY <1>6, OnlyChosen
<1>9. Len(wanted) + Len(others) = n BY <1>1, <1>4, <1>5, <1>6, OnlySplits
<1>10. PICK goals: goals = SortedBy(wanted, Earlier) OBVIOUS
<1>11. goals \in Seq(Events) /\ Rearranges(goals, wanted)
  BY <1>7, <1>10, EventsTimed, SortsByTime
<1>12. PICK g \in Nat: g = Len(goals) /\ DOMAIN goals = 1..g BY <1>11
<1>13. PICK o \in Nat: o = Len(others) /\ DOMAIN others = 1..o BY <1>8
<1>14. g + o = n BY <1>9, <1>11, <1>12, <1>13 DEF Rearranges
<1>15. \A k \in 1..g: goals[k] \in Events /\ goals[k].review
  <2> SUFFICES ASSUME NEW k \in 1..g PROVE goals[k] \in Events /\ goals[k].review OBVIOUS
  <2>1. goals[k] \in Events BY <1>11, <1>12
  <2>2. \A a \in DOMAIN goals: \E i \in DOMAIN wanted: goals[a] = wanted[i] BY <1>11, SameElements
  <2>3. PICK i \in DOMAIN wanted: goals[k] = wanted[i] BY <1>12, <2>2
  <2>4. PICK j \in DOMAIN list: wanted[i] = list[j] BY <1>7
  <2> QED BY <2>1, <2>3, <2>4
<1>16. PICK fused: fused = [k \in DOMAIN goals |->
                               LET found == Supports(list, goals[k], w)
                               IN  IF found = <<>> THEN goals[k] ELSE Confirm(goals[k], found[1])]
  OBVIOUS
<1>17. ASSUME NEW k \in 1..g PROVE Told(goals[k], fused[k], ScoreChangesNear(list, goals[k], w))
  <2>1. PICK goal \in Events: goal = goals[k] /\ goal.review BY <1>15
  <2>2. PICK found: found = Supports(list, goal, w) OBVIOUS
  <2>3. fused[k] = IF found = <<>> THEN goal ELSE Confirm(goal, found[1])
    BY <1>12, <1>16, <2>1, <2>2
  <2>4. Told(goal, IF found = <<>> THEN goal ELSE Confirm(goal, found[1]),
             ScoreChangesNear(list, goal, w))
    BY <2>1, <2>2, GoalIsTold
  <2> QED BY <2>1, <2>3, <2>4
<1>18. \A k \in 1..g: fused[k] \in Events BY <1>17 DEF Told
<1>19. fused \in Seq(Events) /\ Len(fused) = g /\ DOMAIN fused = 1..g
  <2>1. DOMAIN fused = 1..g /\ fused = [k \in 1..g |-> fused[k]] BY <1>12, <1>16
  <2>2. fused \in [1..g -> Events] BY <1>18, <2>1
  <2>3. fused \in Seq(Events) BY <2>2
  <2> QED BY <2>1, <2>3
<1>20. PICK all: all = fused \o others OBVIOUS
<1>21. /\ all \in Seq(Events) /\ Len(all) = n /\ DOMAIN all = 1..n
       /\ \A k \in 1..g: all[k] = fused[k] /\ k \in DOMAIN all
       /\ \A k \in 1..o: all[g + k] = others[k] /\ g + k \in DOMAIN all
  <2>1. PICK X: X = Events OBVIOUS
  <2>2. fused \in Seq(X) /\ others \in Seq(X) BY <1>8, <1>19, <2>1
  <2>3. IsTogether(all, fused, others, X) BY <1>20, <2>2, PutTogether
  <2>4. /\ all \in Seq(Events) /\ Len(all) = Len(fused) + Len(others)
        /\ \A k \in 1..Len(fused): all[k] = fused[k]
        /\ \A k \in 1..Len(others): all[Len(fused) + k] = others[k]
    BY <2>1, <2>3 DEF IsTogether
  <2>5. Len(all) = n /\ DOMAIN all = 1..n BY <1>13, <1>14, <1>19, <2>4
  <2>6. \A k \in 1..g: k \in 1..n /\ all[k] = fused[k] BY <1>13, <1>14, <1>19, <2>4
  <2>7. ASSUME NEW k \in 1..o PROVE g + k \in 1..n /\ all[g + k] = others[k]
    <3>1. g + k \in 1..n BY <1>14
    <3> QED BY <1>13, <1>19, <2>4, <3>1
  <2> QED BY <2>4, <2>5, <2>6, <2>7
<1>22. result = SortedBy(all, Earlier)
  BY <1>2, <1>3, <1>5, <1>6, <1>10, <1>16, <1>20 DEF FusedSemantic
<1>23. result \in Seq(Events) /\ Rearranges(result, all)
  BY <1>21, <1>22, EventsTimed, SortsByTime
<1>24. Len(result) = n BY <1>21, <1>23 DEF Rearranges
<1>25. ASSUME NEW k \in DOMAIN all PROVE all[k] \in ToSet(result)
  <2>1. PICK i \in DOMAIN result: result[i] = all[k] BY <1>23, SameElements
  <2> QED BY <2>1 DEF ToSet
<1>26. ASSUME NEW e \in ToSet(list)
       PROVE  \E r \in ToSet(result): Answered(e, r, ScoreChangesNear(list, e, w))
  <2>1. PICK j \in DOMAIN list: list[j] = e BY DEF ToSet
  <2>2. CASE IsGoal(e)
    <3>1. e \in b BY <1>2, <2>2
    <3>2. PICK i \in DOMAIN wanted: wanted[i] = e BY <1>7, <2>1, <3>1
    <3>3. PICK k \in DOMAIN goals: goals[k] = e BY <1>11, <3>2, SameElements
    <3>4. Told(e, fused[k], ScoreChangesNear(list, e, w)) BY <1>12, <1>17, <3>3
    <3>5. fused[k] \in ToSet(result) BY <1>12, <1>21, <1>25
    <3>6. Answered(e, fused[k], ScoreChangesNear(list, e, w)) BY <2>2, <3>4 DEF Told, Answered
    <3> QED BY <3>5, <3>6
  <2>3. CASE ~IsGoal(e)
    <3>1. e \in c BY <1>2, <1>3, <2>3
    <3>2. PICK k \in 1..o: others[k] = e BY <1>8, <1>13, <2>1, <3>1
    <3>3. e \in ToSet(result) BY <1>21, <1>25, <3>2
    <3>4. Answered(e, e, ScoreChangesNear(list, e, w)) BY <2>3 DEF Answered
    <3> QED BY <3>3, <3>4
  <2> QED BY <2>2, <2>3
<1> QED BY <1>1, <1>24, <1>26

\* All that FusionIsSound says of fuse_semantic_events.
LEMMA GoalsAnswered == EventsFit => GoalsAreConfirmed
<1> SUFFICES ASSUME EventsFit PROVE GoalsAreConfirmed OBVIOUS
<1>1. events \in Seq(Events) /\ \A n \in DOMAIN events: events[n].review BY DEF EventsFit
<1> DEFINE result == FusedSemantic(events, SemanticWindow)
<1>2. /\ Len(result) = Len(events)
      /\ \A e \in ToSet(events): \E r \in ToSet(result):
            Answered(e, r, ScoreChangesNear(events, e, SemanticWindow))
  BY <1>1, GoalsConfirmed
<1> HIDE DEF result
<1> QED BY <1>2, Zenon DEF GoalsAreConfirmed, result, Answered, ScoreChangesNear

\* Both together.
LEMMA FusionIsRight == ResultsInv => FusionIsSound
BY FusionSeparates, GoalsAnswered DEF ResultsInv, FusionIsSound

(***************************************************************************)
(* fuse_events and fuse_semantic_events, for any number of events from any *)
(* sources: a fused event counts no source twice and is as sure as each of *)
(* its members, every event is near one that is counted, two of one type   *)
(* stay two only for a reason, and a goal needs no review only when a      *)
(* score change near it was read.                                          *)
(***************************************************************************)
THEOREM FusionHolds == ResultsSpec => []FusionIsSound
BY ResultsKept, FusionIsRight, PTL
=============================================================================
