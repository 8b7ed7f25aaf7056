----------------------------- MODULE TextProofs -----------------------------
(* Lemmas about the operators of Texts.                                    *)
(* Induction is by least counterexample: what holds of 0, and of each      *)
(* number after one it holds of, holds of 0..n (lemma Upward).             *)
EXTENDS Texts, FiniteSetTheorems, SequenceTheorems, TLAPS

\* g begins with a, and each step leads from one of its values to the next.
Climbs(g, n, a, step) == g[0] = a /\ \A i \in 1..n : g[i] = step[i][g[i-1]]

-----------------------------------------------------------------------------
\* Induction.

\* A set of natural numbers has a least element.
LEMMA Least ==
  ASSUME NEW T \in SUBSET Nat, T # {}
  PROVE  \E m \in T : \A k \in T : m <= k
<1> DEFINE R == OpToRel(<, Nat)
<1>1. \A x, y \in Nat : y < x => <<y, x>> \in R
  BY DEF OpToRel
<1>2. IsWellFoundedOn(R, Nat)
  BY NatLessThanWellFounded
<1> HIDE DEF R
<1>3. \E x \in T : \A y \in T : ~(<<y, x>> \in R)
  BY <1>2, WFMin
<1>4. PICK x \in T : \A y \in T : ~(<<y, x>> \in R)
  BY <1>3
<1>5. \A y \in T : ~(y < x)
  BY <1>1, <1>4
<1>6. \A y \in T : x <= y
  BY <1>5
<1> QED
  BY <1>6

\* A bounded set of natural numbers has a greatest element.
LEMMA Greatest ==
  ASSUME NEW n \in Nat, NEW T \in SUBSET (0..n), T # {}
  PROVE  \E m \in T : \A k \in T : k <= m
<1> DEFINE B == {b \in 0..n : \A k \in T : k <= b}
<1>1. n \in B /\ B \in SUBSET Nat
  OBVIOUS
<1>2. PICK m \in B : \A b \in B : m <= b
  BY <1>1, Least
<1>3. m \in T
  <2>1. SUFFICES ASSUME m \notin T
                 PROVE  FALSE
    OBVIOUS
  <2>2. PICK k \in T : TRUE
    OBVIOUS
  <2>3. k <= m /\ k # m
    BY <1>2, <2>1
  <2>4. m - 1 \in 0..n /\ \A j \in T : j <= m - 1
    BY <1>2, <2>1, <2>3
  <2>5. m <= m - 1
    BY <1>2, <2>4
  <2> QED
    BY <1>2, <2>5
<1> QED
  BY <1>2, <1>3

\* What holds of 0, and of each number after one it holds of, holds of all up to n.
LEMMA Upward ==
  ASSUME NEW n \in Nat, NEW T \in SUBSET (0..n), 0 \in T,
         \A i \in 1..n : i - 1 \in T => i \in T
  PROVE  T = 0..n
<1>1. SUFFICES ASSUME (0..n) \ T # {}
               PROVE  FALSE
  OBVIOUS
<1>2. (0..n) \ T \in SUBSET Nat
  OBVIOUS
<1>3. PICK m \in (0..n) \ T : \A k \in (0..n) \ T : m <= k
  BY <1>1, <1>2, Least
<1>4. m \in 1..n
  BY <1>3
<1>5. m - 1 \in 0..n /\ ~(m <= m - 1)
  BY <1>4
<1>6. m - 1 \in T
  BY <1>3, <1>5
<1> QED
  BY <1>3, <1>4, <1>6

\* What recursion along 0..n defines there is.
LEMMA Recursion ==
  ASSUME NEW n \in Nat, NEW V, NEW a \in V, NEW step \in [1..n -> [V -> V]]
  PROVE  \E g \in [0..n -> V] : Climbs(g, n, a, step)
<1> DEFINE T == {m \in 0..n : \E g \in [0..m -> V] : Climbs(g, m, a, step)}
<1>1. 0 \in T
  <2> DEFINE g == [i \in 0..0 |-> a]
  <2>1. g \in [0..0 -> V] /\ g[0] = a
    OBVIOUS
  <2>2. Climbs(g, 0, a, step)
    BY <2>1 DEF Climbs
  <2> HIDE DEF g
  <2> QED
    BY <2>1, <2>2
<1>2. ASSUME NEW m \in 1..n, m - 1 \in T
      PROVE  m \in T
  <2>1. PICK g \in [0..(m-1) -> V] : Climbs(g, m - 1, a, step)
    BY <1>2
  <2> DEFINE h == [i \in 0..m |-> IF i = m THEN step[m][g[m-1]] ELSE g[i]]
  <2>2. m - 1 \in 0..(m-1) /\ step[m] \in [V -> V] /\ g[m-1] \in V
    BY <2>1
  <2>3. step[m][g[m-1]] \in V
    BY <2>2
  <2>4. \A i \in 0..m : i # m => i \in 0..(m-1)
    OBVIOUS
  <2>5. \A i \in 0..m : h[i] = IF i = m THEN step[m][g[m-1]] ELSE g[i]
    OBVIOUS
  <2>6. h \in [0..m -> V]
    BY <2>1, <2>3, <2>4
  <2> HIDE DEF h
  <2>7. h[0] = a
    BY <2>1, <2>5 DEF Climbs
  <2>8. ASSUME NEW i \in 1..m
        PROVE  h[i] = step[i][h[i-1]]
    <3>1. i - 1 \in 0..m /\ i - 1 # m /\ i \in 0..m
      OBVIOUS
    <3>2. h[i-1] = g[i-1]
      BY <2>5, <3>1
    <3>3. CASE i = m
      BY <2>5, <3>1, <3>2, <3>3
    <3>4. CASE i # m
      <4>1. i \in 1..(m-1)
        BY <3>4
      <4>2. g[i] = step[i][g[i-1]]
        BY <2>1, <4>1 DEF Climbs
      <4> QED
        BY <2>5, <3>1, <3>2, <3>4, <4>2
    <3> QED
      BY <3>3, <3>4
  <2>9. Climbs(h, m, a, step)
    BY <2>7, <2>8 DEF Climbs
  <2> QED
    BY <2>6, <2>9
<1>3. T \in SUBSET (0..n) /\ n \in 0..n
  OBVIOUS
<1> HIDE DEF T
<1>4. T = 0..n
  BY <1>1, <1>2, <1>3, Upward
<1> QED
  BY <1>3, <1>4 DEF T

\* A function on 1..n is a sequence of that length.
LEMMA SeqOfLength ==
  ASSUME NEW S, NEW n \in Nat, NEW t \in [1..n -> S]
  PROVE  t \in Seq(S) /\ Len(t) = n
<1>1. t \in Seq(S)
  BY SeqDef
<1> DEFINE d == Len(t)
<1>2. DOMAIN t = 1..d /\ d \in Nat
  BY <1>1, LenProperties
<1> HIDE DEF d
<1>3. \A k \in Int : k \in 1..d <=> k \in 1..n
  BY <1>2
<1>4. (n \in 1..d \/ n = 0) /\ (d \in 1..n \/ d = 0)
  BY <1>2, <1>3
<1>5. d = n
  BY <1>2, <1>3, <1>4
<1> QED
  BY <1>1, <1>5 DEF d

-----------------------------------------------------------------------------
\* The rank of a number in a set of numbers counts from 0 to all of them.
LEMMA Ranks ==
  ASSUME NEW n \in Nat, NEW K \in SUBSET (1..n)
  PROVE  /\ IsFiniteSet(K) /\ Cardinality(K) \in 0..n
         /\ \A i \in 0..n : Rank(K, i) \in 0..Cardinality(K)
         /\ Rank(K, 0) = 0
         /\ Rank(K, n) = Cardinality(K)
         /\ \A i \in 1..n : Rank(K, i) = IF i \in K THEN Rank(K, i-1) + 1
                                         ELSE Rank(K, i-1)
<1>0. \A j \in K : j \in Int /\ 1 <= j /\ j <= n
  OBVIOUS
<1>1. IsFiniteSet(1..n) /\ Cardinality(1..n) = n
  <2>1. Cardinality(1..n) = IF 1 > n THEN 0 ELSE n - 1 + 1
    BY FS_Interval
  <2> QED
    BY <2>1, FS_Interval
<1>2. IsFiniteSet(K) /\ Cardinality(K) <= n
  BY <1>1, FS_Subset
<1>3. Cardinality(K) \in Nat
  BY <1>2, FS_CardinalityType
<1>4. ASSUME NEW i \in 0..n
      PROVE  /\ IsFiniteSet({j \in K : j <= i})
             /\ Rank(K, i) \in 0..Cardinality(K)
  <2>1. {j \in K : j <= i} \in SUBSET K
    OBVIOUS
  <2>2. /\ IsFiniteSet({j \in K : j <= i})
        /\ Cardinality({j \in K : j <= i}) <= Cardinality(K)
    BY <1>2, <2>1, FS_Subset
  <2>3. Cardinality({j \in K : j <= i}) \in Nat
    BY <2>2, FS_CardinalityType
  <2> QED
    BY <1>3, <2>2, <2>3 DEF Rank
<1>5. Rank(K, 0) = 0
  <2>1. \A j \in K : ~(j <= 0)
    BY <1>0
  <2>2. {j \in K : j <= 0} = {}
    BY <2>1
  <2> QED
    BY <2>2, FS_EmptySet DEF Rank
<1>6. Rank(K, n) = Cardinality(K)
  <2>1. {j \in K : j <= n} = K
    BY <1>0, Zenon
  <2> QED
    BY <2>1 DEF Rank
<1>7. ASSUME NEW i \in 1..n
      PROVE  Rank(K, i) = IF i \in K THEN Rank(K, i-1) + 1 ELSE Rank(K, i-1)
  <2>1. i - 1 \in 0..n
    OBVIOUS
  <2>2. CASE i \in K
    <3>0. \A j \in K : j <= i <=> j <= i - 1 \/ j = i
      BY <1>0
    <3>1. {j \in K : j <= i} = {j \in K : j <= i - 1} \cup {i}
      BY <2>2, <3>0, Zenon
    <3>2. i \notin {j \in K : j <= i - 1}
      BY <1>0
    <3>3. IsFiniteSet({j \in K : j <= i - 1})
      BY <1>4, <2>1
    <3>4. Cardinality({j \in K : j <= i - 1} \cup {i})
            = Cardinality({j \in K : j <= i - 1}) + 1
      BY <3>2, <3>3, FS_AddElement
    <3> QED
      BY <2>2, <3>1, <3>4 DEF Rank
  <2>3. CASE i \notin K
    <3>0. \A j \in K : j <= i <=> j <= i - 1
      BY <1>0, <2>3
    <3>1. {j \in K : j <= i} = {j \in K : j <= i - 1}
      BY <3>0, Zenon
    <3> QED
      BY <2>3, <3>1 DEF Rank
  <2> QED
    BY <2>2, <2>3
<1>8. Cardinality(K) \in 0..n
  BY <1>2, <1>3
<1>9. \A i \in 0..n : Rank(K, i) \in 0..Cardinality(K)
  BY <1>4
<1> QED
  BY <1>2, <1>5, <1>6, <1>7, <1>8, <1>9

\* A rank grows, and with every member of the set.
LEMMA RankGrows ==
  ASSUME NEW n \in Nat, NEW K \in SUBSET (1..n),
         NEW i \in 0..n, NEW j \in 0..n, i < j
  PROVE  Rank(K, i) <= Rank(K, j) /\ (j \in K => Rank(K, i) < Rank(K, j))
<1> DEFINE U(m) == {k \in K : k <= m}
<1>1. /\ IsFiniteSet(K) /\ Cardinality(K) \in 0..n
      /\ \A m \in 0..n : Rank(K, m) \in 0..Cardinality(K)
  BY Ranks
<1>0. Rank(K, i) \in Nat /\ Rank(K, j) \in Nat
  BY <1>1
<1>2. U(j) \in SUBSET K /\ U(i) \in SUBSET U(j) /\ (j \in K => U(i) # U(j))
  <2>1. \A k \in K : k <= i => k <= j
    OBVIOUS
  <2>2. j <= j /\ ~(j <= i)
    OBVIOUS
  <2>3. j \in K => j \in U(j) /\ j \notin U(i)
    BY <2>2
  <2> QED
    BY <2>1, <2>3
<1>3. IsFiniteSet(U(j))
  BY <1>1, <1>2, FS_Subset
<1>4. /\ Cardinality(U(i)) <= Cardinality(U(j))
      /\ Cardinality(U(j)) = Cardinality(U(i)) => U(j) = U(i)
  <2> HIDE DEF U
  <2> QED
    BY <1>2, <1>3, FS_Subset
<1>5. Rank(K, i) = Cardinality(U(i)) /\ Rank(K, j) = Cardinality(U(j))
  BY DEF Rank
<1>6. Cardinality(U(i)) \in Nat /\ Cardinality(U(j)) \in Nat
  BY <1>0, <1>5
<1> HIDE DEF U
<1> QED
  BY <1>2, <1>4, <1>5, <1>6

\* There is a k-th member, for every k up to the number of members.
LEMMA KthIs ==
  ASSUME NEW n \in Nat, NEW K \in SUBSET (1..n), NEW k \in 1..Cardinality(K)
  PROVE  Kth(K, k) \in K /\ Rank(K, Kth(K, k)) = k
<1> DEFINE T == {i \in 0..n : Rank(K, i) >= k}
<1>1. /\ Cardinality(K) \in 0..n
      /\ \A i \in 0..n : Rank(K, i) \in 0..Cardinality(K)
      /\ Rank(K, 0) = 0
      /\ Rank(K, n) = Cardinality(K)
      /\ \A i \in 1..n : Rank(K, i) = IF i \in K THEN Rank(K, i-1) + 1
                                      ELSE Rank(K, i-1)
  BY Ranks
<1>2. n \in T /\ T \in SUBSET Nat /\ 0 \notin T
  BY <1>1
<1>3. PICK i \in T : \A j \in T : i <= j
  BY <1>2, Least
<1>4. i \in 1..n /\ i - 1 \in 0..n
  BY <1>2, <1>3
<1>5. i - 1 \notin T
  BY <1>3, <1>4
<1>6. Rank(K, i) >= k /\ ~(Rank(K, i-1) >= k)
  BY <1>3, <1>4, <1>5
<1>7. Rank(K, i) \in Nat /\ Rank(K, i-1) \in Nat
  BY <1>1, <1>4
<1>8. Rank(K, i) = IF i \in K THEN Rank(K, i-1) + 1 ELSE Rank(K, i-1)
  BY <1>1, <1>4
<1>9. i \in K /\ Rank(K, i) = k
  BY <1>6, <1>7, <1>8
<1> QED
  BY <1>9 DEF Kth

\* Between a member and the next one there is no member.
LEMMA KthNext ==
  ASSUME NEW n \in Nat, NEW K \in SUBSET (1..n), NEW k \in Int,
         k \in 1..Cardinality(K), k + 1 \in 1..Cardinality(K)
  PROVE  /\ Kth(K, k) < Kth(K, k+1)
         /\ \A m \in K : ~(Kth(K, k) < m /\ m < Kth(K, k+1))
<1> DEFINE i == Kth(K, k)
           j == Kth(K, k+1)
<1>1. i \in K /\ Rank(K, i) = k
  BY KthIs
<1>2. j \in K /\ Rank(K, j) = k + 1
  BY KthIs
<1> HIDE DEF i, j
<1>3. \A m \in K : m \in 0..n
  OBVIOUS
<1>4. i < j
  <2>1. ASSUME j < i
        PROVE  FALSE
    <3>1. Rank(K, j) <= Rank(K, i)
      BY <1>1, <1>2, <1>3, <2>1, RankGrows
    <3> QED
      BY <1>1, <1>2, <3>1
  <2>2. i # j
    BY <1>1, <1>2
  <2> QED
    BY <1>1, <1>2, <1>3, <2>1, <2>2
<1>5. ASSUME NEW m \in K, i < m, m < j
      PROVE  FALSE
  <2>1. Rank(K, i) < Rank(K, m)
    BY <1>1, <1>3, <1>5, RankGrows
  <2>2. Rank(K, m) < Rank(K, j)
    BY <1>2, <1>3, <1>5, RankGrows
  <2>3. Rank(K, m) \in Int
    <3>1. /\ Cardinality(K) \in 0..n
          /\ \A a \in 0..n : Rank(K, a) \in 0..Cardinality(K)
      BY Ranks
    <3> QED
      BY <1>3, <3>1
  <2> QED
    BY <1>1, <1>2, <2>1, <2>2, <2>3
<1> QED
  BY <1>4, <1>5 DEF i, j

\* What is picked is a sequence of members of s, in their order.
LEMMA PickedIs ==
  ASSUME NEW S, NEW s \in Seq(S), NEW K \in SUBSET (1..Len(s))
  PROVE  /\ Cardinality(K) \in 0..Len(s)
         /\ Picked(s, K) \in Seq(S)
         /\ Len(Picked(s, K)) = Cardinality(K)
         /\ \A k \in 1..Cardinality(K) : /\ Kth(K, k) \in K
                                         /\ Picked(s, K)[k] = s[Kth(K, k)]
<1> DEFINE c == Cardinality(K)
           t == [k \in 1..c |-> s[Kth(K, k)]]
<1>1. Len(s) \in Nat /\ \A i \in 1..Len(s) : s[i] \in S
  BY LenProperties, ElementOfSeq
<1>2. c \in 0..Len(s) /\ c \in Nat
  BY <1>1, Ranks
<1>3. \A k \in 1..c : Kth(K, k) \in K
  BY <1>1, KthIs
<1>4. \A k \in 1..c : s[Kth(K, k)] \in S
  BY <1>1, <1>3
<1>5. Picked(s, K) = t
  BY DEF Picked
<1> HIDE DEF c
<1>6. t \in [1..c -> S] /\ \A k \in 1..c : t[k] = s[Kth(K, k)]
  BY <1>4
<1> HIDE DEF t
<1>7. t \in Seq(S) /\ Len(t) = c
  BY <1>2, <1>6, SeqOfLength
<1> QED
  BY <1>2, <1>3, <1>5, <1>6, <1>7 DEF c

ValuesOf(q, c) == {q[i] : i \in 1..c}

\* A set of numbers that is counted up in order is sorted in that order.
LEMMA SortedIs ==
  ASSUME NEW n \in Nat, NEW c \in Nat, NEW q \in [1..c -> 1..n],
         \A i, j \in 1..c : i < j => q[i] < q[j],
         NEW K, K = ValuesOf(q, c)
  PROVE  Sorted(K) = q
<1> DEFINE Q(k) == {q[i] : i \in 1..k}
           T == {k \in 0..c : IsFiniteSet(Q(k)) /\ Cardinality(Q(k)) = k}
<1>1. K = Q(c) /\ K \in SUBSET (1..n) /\ \A i \in 1..c : q[i] \in Int
  BY DEF ValuesOf
<1>2. 0 \in T
  <2>1. Q(0) = {}
    OBVIOUS
  <2> HIDE DEF Q
  <2>2. IsFiniteSet(Q(0)) /\ Cardinality(Q(0)) = 0
    BY <2>1, FS_EmptySet
  <2>3. 0 \in 0..c
    OBVIOUS
  <2> QED
    BY <2>2, <2>3
<1>3. ASSUME NEW k \in 1..c, k - 1 \in T
      PROVE  k \in T
  <2>1. \A i \in Int : i \in 1..k <=> i \in 1..(k-1) \/ i = k
    OBVIOUS
  <2>2. Q(k) = Q(k-1) \cup {q[k]}
    BY <2>1
  <2>3. \A i \in 1..(k-1) : i \in 1..c /\ i < k
    OBVIOUS
  <2>4. q[k] \notin Q(k-1)
    BY <1>1, <2>3
  <2> DEFINE A == Q(k-1)
             B == Q(k)
  <2>5. IsFiniteSet(A) /\ Cardinality(A) = k - 1
    BY <1>3
  <2>6. B = A \cup {q[k]} /\ q[k] \notin A
    BY <2>2, <2>4
  <2> HIDE DEF A, B
  <2>7. IsFiniteSet(B) /\ Cardinality(B) = Cardinality(A) + 1
    BY <2>5, <2>6, FS_AddElement
  <2>8. Cardinality(B) = k
    BY <2>5, <2>7
  <2> QED
    BY <2>7, <2>8 DEF B
<1>4. T \in SUBSET (0..c)
  OBVIOUS
<1> HIDE DEF T
<1>5. T = 0..c
  BY <1>2, <1>3, <1>4, Upward
<1>6. \A k \in 0..c : Cardinality(Q(k)) = k
  BY <1>5 DEF T
<1>7. Cardinality(K) = c
  <2>1. c \in 0..c
    OBVIOUS
  <2> HIDE DEF Q
  <2> QED
    BY <1>1, <1>6, <2>1
<1>8. ASSUME NEW k \in 1..c
      PROVE  Rank(K, q[k]) = k
  <2>1. \A i \in 1..c : q[i] <= q[k] <=> i \in 1..k
    <3> SUFFICES ASSUME NEW i \in 1..c
                 PROVE  q[i] <= q[k] <=> i \in 1..k
      OBVIOUS
    <3>1. CASE i < k
      BY <1>1, <3>1
    <3>2. CASE i = k
      BY <1>1, <3>2
    <3>3. CASE k < i
      BY <1>1, <3>3
    <3> QED
      BY <3>1, <3>2, <3>3
  <2>2. \A i \in 1..k : i \in 1..c
    OBVIOUS
  <2>3. {j \in K : j <= q[k]} = Q(k)
    BY <2>1, <2>2 DEF ValuesOf
  <2> HIDE DEF Q
  <2>4. k \in 0..c
    OBVIOUS
  <2>5. Cardinality(Q(k)) = k
    BY <1>6, <2>4, Zenon
  <2> QED
    BY <2>3, <2>5 DEF Rank
<1>9. ASSUME NEW k \in 1..c
      PROVE  Kth(K, k) = q[k]
  <2>1. Kth(K, k) \in K /\ Rank(K, Kth(K, k)) = k
    BY <1>1, <1>7, KthIs
  <2>2. PICK i \in 1..c : Kth(K, k) = q[i]
    BY <2>1 DEF ValuesOf
  <2>3. i = k
    BY <1>8, <2>1, <2>2
  <2> QED
    BY <2>2, <2>3
<1> QED
  BY <1>7, <1>9 DEF Sorted

-----------------------------------------------------------------------------
\* Sequences.

\* str.join and str.split.

\* A text is joined part by part.
LEMMA JoinedIs ==
  ASSUME NEW V, NEW parts, Len(parts) \in Nat \ {0},
         \A i \in 1..Len(parts) : parts[i] \in V,
         \A v, w \in V : v \o Separator \o w \in V
  PROVE  \E f \in [0..(Len(parts) - 1) -> V] :
           /\ f[0] = parts[1]
           /\ \A i \in 1..(Len(parts) - 1) :
                f[i] = f[i-1] \o Separator \o parts[i+1]
           /\ Joined(parts) = f[Len(parts) - 1]
<1> DEFINE n == Len(parts) - 1
           upto[i \in 0..n] ==
             IF i = 0 THEN parts[1] ELSE upto[i-1] \o Separator \o parts[i+1]
           step == [i \in 1..n |-> [v \in V |-> v \o Separator \o parts[i+1]]]
<1>2. n \in Nat
  OBVIOUS
<1>3. Joined(parts) = upto[n]
  BY DEF Joined
<1>4. parts[1] \in V
  OBVIOUS
<1>8. \A i \in 1..n : parts[i+1] \in V
  OBVIOUS
<1> HIDE DEF n
<1>9. \A i \in 1..n, v \in V : v \o Separator \o parts[i+1] \in V
  BY <1>8
<1>10. step \in [1..n -> [V -> V]]
  BY <1>9
<1>11. \A i \in 1..n, v \in V : step[i][v] = v \o Separator \o parts[i+1]
  OBVIOUS
<1> HIDE DEF step, upto
<1>12. PICK g \in [0..n -> V] : Climbs(g, n, parts[1], step)
  BY <1>2, <1>4, <1>10, Recursion
<1>13. g = [i \in 0..n |-> IF i = 0 THEN parts[1]
                           ELSE g[i-1] \o Separator \o parts[i+1]]
  <2>1. ASSUME NEW i \in 0..n, i # 0
        PROVE  g[i] = g[i-1] \o Separator \o parts[i+1]
    <3>1. i \in 1..n /\ i - 1 \in 0..n
      BY <1>2, <2>1
    <3>2. g[i-1] \in V
      BY <3>1
    <3> QED
      BY <1>11, <1>12, <3>1, <3>2 DEF Climbs
  <2>2. \A i \in 0..n : g[i] = IF i = 0 THEN parts[1]
                               ELSE g[i-1] \o Separator \o parts[i+1]
    BY <1>12, <2>1 DEF Climbs
  <2> QED
    BY <2>2
<1>14. upto = [i \in 0..n |-> IF i = 0 THEN parts[1]
                              ELSE upto[i-1] \o Separator \o parts[i+1]]
  BY <1>13 DEF upto
<1>15. \A i \in 0..n : upto[i] = IF i = 0 THEN parts[1]
                                 ELSE upto[i-1] \o Separator \o parts[i+1]
  BY <1>14, Zenon
<1>16. upto[0] = parts[1]
  BY <1>2, <1>15
<1>17. \A i \in 1..n : upto[i] = upto[i-1] \o Separator \o parts[i+1]
  <2>1. \A i \in 1..n : i \in 0..n /\ i # 0
    BY <1>2
  <2> QED
    BY <1>15, <2>1
<1>18. upto \in [0..n -> V]
  <2> DEFINE T == {i \in 0..n : upto[i] \in V}
  <2>1. 0 \in T
    <3>1. 0 \in 0..n
      BY <1>2
    <3> QED
      BY <1>4, <1>16, <3>1
  <2>2. ASSUME NEW i \in 1..n, i - 1 \in T
        PROVE  i \in T
    <3>1. i \in 0..n
      BY <1>2
    <3>2. upto[i-1] \in V
      BY <2>2
    <3>3. upto[i] \in V
      BY <1>9, <1>17, <3>2
    <3> QED
      BY <3>1, <3>3
  <2>3. T \in SUBSET (0..n)
    OBVIOUS
  <2> HIDE DEF T
  <2>4. T = 0..n
    BY <1>2, <2>1, <2>2, <2>3, Upward
  <2>5. \A i \in 0..n : upto[i] \in V
    BY <2>4 DEF T
  <2> QED
    BY <1>14, <2>5
<1> QED
  BY <1>3, <1>16, <1>17, <1>18 DEF n

\* A separator begins wherever there are two underscores and the first of them
\* is not the second of another separator.
LEMMA CutsAre ==
  ASSUME NEW S, NEW text \in Seq(S)
  PROVE  /\ Cuts(text) \in SUBSET (1..Len(text))
         /\ \A i \in 1..Len(text) :
              i \in Cuts(text) <=> Double(text, i) /\ i - 1 \notin Cuts(text)
<1> DEFINE n == Len(text)
           V == SUBSET (1..n)
           New(i, v) == IF Double(text, i) /\ i - 1 \notin v THEN {i} ELSE {}
           upto[i \in 0..n] ==
             IF i = 0 THEN {} ELSE upto[i-1] \cup New(i, upto[i-1])
           step == [i \in 1..n |-> [v \in V |-> v \cup New(i, v)]]
<1>1. n \in Nat
  BY LenProperties
<1>2. Cuts(text) = upto[n]
  BY DEF Cuts
<1>3. {} \in V
  OBVIOUS
<1>4. \A i \in 1..n, v \in V : v \cup New(i, v) \in V
  OBVIOUS
<1>5. \A i, v : New(i, v) \subseteq {i}
             /\ (i \in New(i, v) <=> Double(text, i) /\ i - 1 \notin v)
  OBVIOUS
<1> HIDE DEF n, V, New
<1>6. step \in [1..n -> [V -> V]]
  BY <1>4
<1>7. \A i \in 1..n, v \in V : step[i][v] = v \cup New(i, v)
  OBVIOUS
<1> HIDE DEF step, upto
<1>8. PICK g \in [0..n -> V] : Climbs(g, n, {}, step)
  BY <1>1, <1>3, <1>6, Recursion
<1>9. g = [i \in 0..n |-> IF i = 0 THEN {} ELSE g[i-1] \cup New(i, g[i-1])]
  <2>1. ASSUME NEW i \in 0..n, i # 0
        PROVE  g[i] = g[i-1] \cup New(i, g[i-1])
    <3>1. i \in 1..n /\ i - 1 \in 0..n
      BY <1>1, <2>1
    <3>2. g[i-1] \in V
      BY <3>1
    <3> QED
      BY <1>7, <1>8, <3>1, <3>2 DEF Climbs
  <2>2. \A i \in 0..n : g[i] = IF i = 0 THEN {} ELSE g[i-1] \cup New(i, g[i-1])
    BY <1>8, <2>1 DEF Climbs
  <2> QED
    BY <2>2
<1>10. upto = [i \in 0..n |-> IF i = 0 THEN {}
                              ELSE upto[i-1] \cup New(i, upto[i-1])]
  BY <1>9 DEF upto
<1>11. \A i \in 0..n : upto[i] = IF i = 0 THEN {}
                                 ELSE upto[i-1] \cup New(i, upto[i-1])
  BY <1>10, Zenon
<1> DEFINE Right(i, v) ==
             /\ v \subseteq 1..i
             /\ \A j \in 1..i : j \in v <=> Double(text, j) /\ j - 1 \notin v
           T == {i \in 0..n : Right(i, upto[i])}
<1>12. 0 \in T
  <2>1. 0 \in 0..n
    BY <1>1
  <2>2. upto[0] = {}
    BY <1>11, <2>1
  <2>3. Right(0, {})
    OBVIOUS
  <2> QED
    BY <2>1, <2>2, <2>3
<1>13. ASSUME NEW i \in 1..n, i - 1 \in T
       PROVE  i \in T
  <2> DEFINE v == upto[i-1]
             w == upto[i]
  <2>1. i \in 0..n /\ i # 0 /\ i \in Int
    BY <1>1
  <2>2. w = v \cup New(i, v)
    BY <1>11, <2>1
  <2>3. v \subseteq 1..(i-1)
        /\ \A j \in 1..(i-1) : j \in v <=> Double(text, j) /\ j - 1 \notin v
    BY <1>13
  <2> HIDE DEF v, w
  <2>4. i \notin v /\ w \subseteq v \cup {i}
    BY <1>5, <2>1, <2>2, <2>3
  <2>5. w \subseteq 1..i
    BY <2>1, <2>3, <2>4
  <2>6. \A j \in 1..(i-1) : (j \in w <=> j \in v) /\ (j - 1 \in w <=> j - 1 \in v)
    <3>1. \A j \in 1..(i-1) : j # i /\ j - 1 # i
      BY <2>1
    <3> QED
      BY <2>2, <2>4, <3>1
  <2>7. i \in w <=> Double(text, i) /\ i - 1 \notin w
    <3>1. i - 1 # i
      BY <2>1
    <3>2. i - 1 \in w <=> i - 1 \in v
      BY <2>2, <2>4, <3>1
    <3> QED
      BY <1>5, <2>2, <2>4, <3>2
  <2>8. \A j \in 1..i : j \in 1..(i-1) \/ j = i
    BY <2>1
  <2>9. \A j \in 1..i : j \in w <=> Double(text, j) /\ j - 1 \notin w
    BY <2>3, <2>6, <2>7, <2>8
  <2>10. Right(i, w)
    BY <2>5, <2>9
  <2> QED
    BY <2>1, <2>10 DEF w
<1>14. T \in SUBSET (0..n)
  OBVIOUS
<1> HIDE DEF T
<1>15. T = 0..n
  BY <1>1, <1>12, <1>13, <1>14, Upward
<1>16. n \in T
  BY <1>1, <1>15
<1>17. Right(n, upto[n])
  BY <1>16 DEF T
<1> QED
  BY <1>2, <1>17 DEF n

\* Two parts of a text with the separator that is between them.
LEMMA Rejoined ==
  ASSUME NEW S, Separator \in Seq(S), NEW text \in Seq(S),
         NEW p \in 1..(Len(text) - 1), Double(text, p), NEW m \in (p + 1)..Len(text)
  PROVE  SubSeq(text, 1, p - 1) \o Separator \o SubSeq(text, p + 2, m)
           = SubSeq(text, 1, m)
<1> DEFINE a == SubSeq(text, 1, p - 1)
           b == SubSeq(text, p + 2, m)
           u == SubSeq(text, 1, m)
           s == Separator
<1>1. Len(text) \in Nat /\ \A i \in 1..Len(text) : text[i] \in S
  BY LenProperties, ElementOfSeq
<1>2. p \in Int /\ p - 1 \in Int /\ p + 2 \in Int /\ m \in Int /\ p + 1 <= m
      /\ m <= Len(text) /\ 1 <= p /\ 1 \in Int
  BY <1>1
<1>3. /\ a \in Seq(S) /\ Len(a) = p - 1
      /\ \A i \in 1..(p - 1) : a[i] = text[i]
  <2>1. \A i \in 1..(p - 1) : text[i] \in S
    BY <1>1, <1>2
  <2>2. /\ a \in Seq(S)
        /\ Len(a) = IF 1 <= p - 1 THEN p - 1 - 1 + 1 ELSE 0
        /\ \A i \in 1..(p - 1 - 1 + 1) : a[i] = text[1 + i - 1]
    BY <1>2, <2>1, SubSeqProperties
  <2> HIDE DEF a
  <2> QED
    BY <1>2, <2>2
<1>4. /\ b \in Seq(S) /\ Len(b) = m - p - 1
      /\ \A i \in 1..(m - p - 1) : b[i] = text[p + 1 + i]
  <2>1. \A i \in (p + 2)..m : text[i] \in S
    BY <1>1, <1>2
  <2>2. /\ b \in Seq(S)
        /\ Len(b) = IF p + 2 <= m THEN m - (p + 2) + 1 ELSE 0
        /\ \A i \in 1..(m - (p + 2) + 1) : b[i] = text[p + 2 + i - 1]
    BY <1>2, <2>1, SubSeqProperties
  <2> HIDE DEF b
  <2> QED
    BY <1>2, <2>2
<1>5. /\ u \in Seq(S) /\ Len(u) = m
      /\ \A i \in 1..m : u[i] = text[i]
  <2>1. \A i \in 1..m : text[i] \in S
    BY <1>1, <1>2
  <2>2. /\ u \in Seq(S)
        /\ Len(u) = IF 1 <= m THEN m - 1 + 1 ELSE 0
        /\ \A i \in 1..(m - 1 + 1) : u[i] = text[1 + i - 1]
    BY <1>2, <2>1, SubSeqProperties
  <2> HIDE DEF u
  <2> QED
    BY <1>2, <2>2
<1>6. text[p] = "_" /\ text[p+1] = "_"
  BY Zenon DEF Double
<1>7. s \in Seq(S) /\ Len(s) = 2 /\ s[1] = text[p] /\ s[2] = text[p+1]
  <2>1. Len(Separator) = 2 /\ Separator[1] = "_" /\ Separator[2] = "_"
    BY DEF Separator
  <2> QED
    BY <1>6, <2>1, Zenon
<1> HIDE DEF a, b, u, s
<1> DEFINE as == a \o s
           w  == as \o b
<1>8. /\ as \in Seq(S) /\ Len(as) = p + 1
      /\ \A i \in 1..(p + 1) : as[i] = IF i <= p - 1 THEN a[i] ELSE s[i - (p - 1)]
  <2>1. /\ as \in Seq(S) /\ Len(as) = Len(a) + Len(s)
        /\ \A i \in 1..(Len(a) + Len(s)) : as[i] = IF i <= Len(a) THEN a[i] ELSE s[i - Len(a)]
    BY <1>3, <1>7, ConcatProperties
  <2> HIDE DEF as
  <2>2. QED
    <3>1. Len(a) = p - 1 /\ Len(a) + Len(s) = p + 1
      BY <1>2, <1>3, <1>7
    <3> QED
      BY <2>1, <3>1, Zenon
<1> HIDE DEF as
<1>9. /\ w \in Seq(S) /\ Len(w) = m
      /\ \A i \in 1..m : w[i] = IF i <= p + 1 THEN as[i] ELSE b[i - (p + 1)]
  <2>1. /\ w \in Seq(S) /\ Len(w) = Len(as) + Len(b)
        /\ \A i \in 1..(Len(as) + Len(b)) : w[i] = IF i <= Len(as) THEN as[i] ELSE b[i - Len(as)]
    BY <1>4, <1>8, ConcatProperties
  <2> HIDE DEF w
  <2>2. QED
    <3>1. Len(as) = p + 1 /\ Len(as) + Len(b) = m
      BY <1>2, <1>4, <1>8
    <3> QED
      BY <2>1, <3>1, Zenon
<1> HIDE DEF w
<1>10. ASSUME NEW i \in 1..m
       PROVE  w[i] = u[i]
  <2>1. i \in Int /\ 1 <= i /\ i <= m
    BY <1>2
  <2>2. w[i] = (IF i <= p + 1 THEN as[i] ELSE b[i - (p + 1)]) /\ u[i] = text[i]
    BY <1>5, <1>9
  <2>3. CASE i <= p - 1
    <3>1. i \in 1..(p + 1) /\ i \in 1..(p - 1) /\ i <= p + 1
      BY <1>2, <2>1, <2>3
    <3> QED
      BY <1>3, <1>8, <2>2, <2>3, <3>1
  <2>4. CASE i = p
    <3>1. i \in 1..(p + 1) /\ i <= p + 1 /\ ~(i <= p - 1) /\ i - (p - 1) = 1
      BY <1>2, <2>4
    <3> QED
      BY <1>7, <1>8, <2>2, <2>4, <3>1
  <2>5. CASE i = p + 1
    <3>1. i \in 1..(p + 1) /\ i <= p + 1 /\ ~(i <= p - 1) /\ i - (p - 1) = 2
      BY <1>2, <2>5
    <3> QED
      BY <1>7, <1>8, <2>2, <2>5, <3>1
  <2>6. CASE i > p + 1
    <3>1. ~(i <= p + 1) /\ i - (p + 1) \in 1..(m - p - 1) /\ p + 1 + (i - (p + 1)) = i
      BY <1>2, <2>1, <2>6
    <3> QED
      BY <1>4, <2>2, <3>1
  <2> QED
    BY <1>2, <2>1, <2>3, <2>4, <2>5, <2>6
<1>11. w = u
  BY <1>5, <1>9, <1>10, SeqEqual
<1> QED
  BY <1>11 DEF w, as, s, a, b, u

\* What str.split takes apart str.join puts together again.
LEMMA JoinSplit ==
  ASSUME NEW S, Separator \in Seq(S), NEW text \in Seq(S)
  PROVE  Joined(Split(text)) = text
<1> DEFINE n == Len(text)
           K == Cuts(text)
           c == Cardinality(K)
           q == Sorted(K)
           parts == Split(text)
           stop(k) == IF k = c + 1 THEN n ELSE q[k] - 1
           V == Seq(S)
<1>1. n \in Nat /\ \A i \in 1..n : text[i] \in S
  BY LenProperties, ElementOfSeq
<1>2. /\ K \in SUBSET (1..n)
      /\ \A i \in 1..n : i \in K <=> Double(text, i) /\ i - 1 \notin K
  BY CutsAre
<1>3. c \in Nat
  <2>1. IsFiniteSet(1..n)
    BY <1>1, FS_Interval
  <2> HIDE DEF K, n
  <2>2. IsFiniteSet(K)
    BY <1>2, <2>1, FS_Subset
  <2> QED
    BY <2>2, FS_CardinalityType
<1>4. \A k \in 1..c : q[k] = Kth(K, k)
  BY DEF Sorted
<1>5. DOMAIN q = 1..c /\ Len(q) = c
  <2>1. q = [k \in 1..c |-> Kth(K, k)]
    BY DEF Sorted
  <2> DEFINE r == [k \in 1..c |-> Kth(K, k)]
  <2>2. r \in [1..c -> {r[k] : k \in 1..c}]
    OBVIOUS
  <2> HIDE DEF r, c, q
  <2>3. Len(r) = c
    BY <1>3, <2>2, SeqOfLength
  <2> QED
    BY <2>1, <2>2, <2>3 DEF r
<1>6. Len(Split(text)) = c + 1 /\ \A k \in 1..(c + 1) : parts[k] = Between(text, q, k)
  <2> DEFINE r == [k \in 1..(c + 1) |-> Between(text, q, k)]
  <2>1. Split(text) = r
    BY <1>5 DEF Split
  <2>2. r \in [1..(c + 1) -> {r[k] : k \in 1..(c + 1)}]
    OBVIOUS
  <2>3. \A k \in 1..(c + 1) : r[k] = Between(text, q, k)
    OBVIOUS
  <2>4. c + 1 \in Nat
    BY <1>3
  <2> HIDE DEF r, c, q
  <2>5. Len(r) = c + 1
    BY <2>2, <2>4, SeqOfLength
  <2> QED
    BY <2>1, <2>3, <2>5
<1> HIDE DEF c, q, parts, K, n
<1>7. \A k \in 1..c : q[k] \in K
  BY <1>1, <1>2, <1>4, KthIs DEF c
<1>8. \A k \in 1..c : Double(text, q[k]) /\ q[k] \in 1..(n - 1)
  <2>1. \A i \in K : i \in 1..n /\ Double(text, i)
    BY <1>2
  <2>2. \A i : Double(text, i) => i < n
    BY Zenon DEF Double, n
  <2> QED
    BY <1>1, <1>7, <2>1, <2>2
<1>9. \A k \in 2..c : q[k-1] + 2 <= q[k]
  <2> SUFFICES ASSUME NEW k \in 2..c
               PROVE  q[k-1] + 2 <= q[k]
    OBVIOUS
  <2> DEFINE j == k - 1
  <2>1. j \in Int /\ j \in 1..c /\ j + 1 \in 1..c /\ j + 1 = k
    BY <1>3
  <2> HIDE DEF j
  <2>2. Kth(K, j) < Kth(K, j + 1)
    BY <1>1, <1>2, <2>1, KthNext DEF c
  <2>3. q[j] < q[k]
    BY <1>4, <2>1, <2>2
  <2>4. q[j] \in K /\ q[k] \in K /\ q[k] \in 1..n /\ q[j] \in 1..n
    BY <1>2, <1>7, <2>1
  <2>5. q[k] - 1 \notin K
    BY <1>2, <2>4
  <2>6. q[j] # q[k] - 1
    BY <2>4, <2>5
  <2>7. q[j] + 2 <= q[k]
    BY <1>1, <2>3, <2>4, <2>6
  <2> QED
    BY <2>7 DEF j
<1>10. /\ \A k \in 1..(c + 1) : stop(k) \in 0..n
       /\ \A k \in 1..c : stop(k) = q[k] - 1 /\ q[k] + 1 <= stop(k + 1)
  <2>1. \A k \in 1..(c + 1) : stop(k) \in 0..n
    BY <1>1, <1>3, <1>8
  <2>2. ASSUME NEW k \in 1..c
        PROVE  stop(k) = q[k] - 1 /\ q[k] + 1 <= stop(k + 1)
    <3>1. k # c + 1 /\ k \in Int
      BY <1>3
    <3>2. q[k] \in 1..(n - 1)
      BY <1>8
    <3>3. CASE k = c
      BY <1>1, <3>1, <3>2, <3>3
    <3>4. CASE k # c
      <4>1. k + 1 \in 2..c /\ k + 1 # c + 1 /\ k + 1 - 1 = k /\ k + 1 \in 1..c
        BY <1>3, <3>4
      <4>2. q[k] + 2 <= q[k+1] /\ q[k+1] \in 1..(n - 1)
        BY <1>8, <1>9, <4>1
      <4> QED
        BY <1>1, <3>1, <3>2, <4>1, <4>2
    <3> QED
      BY <3>3, <3>4
  <2> QED
    BY <2>1, <2>2
<1>11. parts[1] = SubSeq(text, 1, stop(1))
  <2>1. 1 \in 1..(c + 1) /\ (1 > c <=> 1 = c + 1)
    BY <1>3
  <2> QED
    BY <1>5, <1>6, <2>1 DEF Between, n
<1>12. \A k \in 1..c : parts[k+1] = SubSeq(text, q[k] + 2, stop(k + 1))
  <2> SUFFICES ASSUME NEW k \in 1..c
               PROVE  parts[k+1] = SubSeq(text, q[k] + 2, stop(k + 1))
    OBVIOUS
  <2>1. k + 1 \in 1..(c + 1) /\ k + 1 # 1 /\ k + 1 - 1 = k /\ (k + 1 > c <=> k + 1 = c + 1)
    BY <1>3
  <2> QED
    BY <1>5, <1>6, <2>1 DEF Between, n
<1> HIDE DEF stop
<1>13. \A k \in 1..(c + 1) : parts[k] \in V
  <2>1. \A a, b \in Int : 1 <= a /\ b <= n => SubSeq(text, a, b) \in Seq(S)
    <3> SUFFICES ASSUME NEW a \in Int, NEW b \in Int, 1 <= a, b <= n
                 PROVE  SubSeq(text, a, b) \in Seq(S)
      OBVIOUS
    <3>1. \A i \in a..b : text[i] \in S
      BY <1>1
    <3> QED
      BY <3>1, SubSeqProperties
  <2>2. \A k \in 1..(c + 1) : stop(k) \in Int /\ stop(k) <= n
    BY <1>1, <1>10
  <2>3. parts[1] \in Seq(S)
    <3>1. stop(1) \in Int /\ stop(1) <= n /\ 1 \in Int /\ 1 <= 1
      BY <1>3, <2>2
    <3> QED
      BY <1>11, <2>1, <3>1, Zenon
  <2>4. ASSUME NEW k \in 1..c
        PROVE  parts[k+1] \in Seq(S)
    <3>1. q[k] + 2 \in Int /\ 1 <= q[k] + 2 /\ k + 1 \in 1..(c + 1)
      BY <1>1, <1>3, <1>8
    <3> QED
      BY <1>12, <2>1, <2>2, <3>1
  <2>5. ASSUME NEW k \in 1..(c + 1), k # 1
        PROVE  parts[k] \in Seq(S)
    <3>1. k - 1 \in 1..c /\ k - 1 + 1 = k
      BY <1>3, <2>5
    <3> QED
      BY <2>4, <3>1
  <2> QED
    BY <2>3, <2>5
<1>14. \A v, w \in V : v \o Separator \o w \in V
  <2> QED
    OBVIOUS
<1> HIDE DEF V
<1>15. Len(parts) = c + 1 /\ Len(parts) \in Nat \ {0} /\ Len(parts) - 1 = c
  BY <1>3, <1>6 DEF parts
<1>16. PICK f \in [0..c -> V] :
         /\ f[0] = parts[1]
         /\ \A i \in 1..c : f[i] = f[i-1] \o Separator \o parts[i+1]
         /\ Joined(parts) = f[c]
  <2>1. \A i \in 1..Len(parts) : parts[i] \in V
    BY <1>13, <1>15
  <2>2. \E f \in [0..(Len(parts) - 1) -> V] :
           /\ f[0] = parts[1]
           /\ \A i \in 1..(Len(parts) - 1) :
                f[i] = f[i-1] \o Separator \o parts[i+1]
           /\ Joined(parts) = f[Len(parts) - 1]
    BY <1>14, <1>15, <2>1, JoinedIs
  <2> QED
    BY <1>15, <2>2
<1> DEFINE T == {i \in 0..c : f[i] = SubSeq(text, 1, stop(i + 1))}
<1>17. 0 \in T
  BY <1>3, <1>11, <1>16
<1>18. ASSUME NEW i \in 1..c, i - 1 \in T
       PROVE  i \in T
  <2>1. i \in Int /\ i - 1 + 1 = i /\ i \in 0..c
    BY <1>3
  <2>2. f[i-1] = SubSeq(text, 1, q[i] - 1)
    BY <1>10, <1>18, <2>1
  <2>3. f[i] = SubSeq(text, 1, q[i] - 1) \o Separator
                 \o SubSeq(text, q[i] + 2, stop(i + 1))
    BY <1>12, <1>16, <2>2
  <2>4. q[i] \in 1..(n - 1) /\ Double(text, q[i])
    BY <1>8
  <2>5. i + 1 \in 1..(c + 1)
    BY <1>3
  <2>6. stop(i + 1) \in (q[i] + 1)..n
    BY <1>1, <1>10, <2>4, <2>5
  <2>7. f[i] = SubSeq(text, 1, stop(i + 1))
    BY <2>3, <2>4, <2>6, Rejoined DEF n
  <2> QED
    BY <2>1, <2>7
<1>19. T \in SUBSET (0..c)
  OBVIOUS
<1> HIDE DEF T
<1>20. T = 0..c
  BY <1>3, <1>17, <1>18, <1>19, Upward
<1>21. f[c] = SubSeq(text, 1, n)
  BY <1>3, <1>20 DEF T, stop
<1>22. SubSeq(text, 1, n) = text
  BY <1>1 DEF n
<1> QED
  BY <1>16, <1>21, <1>22 DEF parts

\* The letters before part k + 1, when part k + 1 ends at g[k].
Before(g, k) == IF k = 0 THEN 0 ELSE g[k-1] + 2

\* text has the parts one after the other, with a separator between them.
Lays(text, parts, g) ==
  /\ \A k \in 0..(Len(parts) - 1) :
       /\ Len(parts[k+1]) \in Nat
       /\ g[k] = Before(g, k) + Len(parts[k+1])
       /\ \A t \in 1..Len(parts[k+1]) : text[Before(g, k) + t] = parts[k+1][t]
  /\ \A k \in 1..(Len(parts) - 1) :
       text[g[k-1] + 1] = "_" /\ text[g[k-1] + 2] = "_"

\* t begins with s.
Begins(s, t) == Len(s) <= Len(t) /\ \A k \in 1..Len(s) : t[k] = s[k]

\* When each begins with the one before it, the last begins with all of them.
LEMMA Beginnings ==
  ASSUME NEW n \in Nat, NEW f, \A i \in 0..n : Len(f[i]) \in Nat,
         \A i \in 1..n : Begins(f[i-1], f[i])
  PROVE  \A i \in 0..n : Begins(f[i], f[n])
<1> DEFINE T == {d \in 0..n : Begins(f[n-d], f[n])}
<1>1. 0 \in T
  <2>1. n - 0 = n /\ n \in 0..n /\ 0 \in 0..n
    OBVIOUS
  <2>2. Begins(f[n], f[n])
    BY <2>1 DEF Begins
  <2> QED
    BY <2>1, <2>2
<1>2. ASSUME NEW d \in 1..n, d - 1 \in T
      PROVE  d \in T
  <2> DEFINE i == n - (d - 1)
             a == f[i-1]
             b == f[i]
             c == f[n]
  <2>1. i \in 1..n /\ i \in 0..n /\ i - 1 \in 0..n /\ i - 1 = n - d /\ d \in 0..n
        /\ n \in 0..n
    OBVIOUS
  <2> HIDE DEF i
  <2>2. Begins(a, b) /\ Len(a) \in Nat /\ Len(b) \in Nat /\ Len(c) \in Nat
    BY <2>1
  <2>3. Begins(b, c)
    BY <1>2 DEF i
  <2> HIDE DEF a, b, c
  <2>4. Begins(a, c)
    BY <2>2, <2>3 DEF Begins
  <2>5. Begins(f[n-d], f[n])
    BY <2>1, <2>4 DEF a, c
  <2> QED
    BY <2>1, <2>5
<1>3. T \in SUBSET (0..n)
  OBVIOUS
<1> HIDE DEF T
<1>4. T = 0..n
  BY <1>1, <1>2, <1>3, Upward
<1>5. ASSUME NEW i \in 0..n
      PROVE  Begins(f[i], f[n])
  <2>1. n - i \in 0..n /\ n - (n - i) = i
    OBVIOUS
  <2>2. n - i \in T
    BY <1>4, <2>1
  <2> QED
    BY <2>1, <2>2 DEF T
<1> QED
  BY <1>5

\* In a joined text the parts lie one after the other.
LEMMA LaidOut ==
  ASSUME NEW S, Separator \in Seq(S), NEW parts, Len(parts) \in Nat \ {0},
         \A i \in 1..Len(parts) : parts[i] \in Seq(S)
  PROVE  /\ Joined(parts) \in Seq(S)
         /\ \E g \in [0..(Len(parts) - 1) -> Nat] :
              /\ Lays(Joined(parts), parts, g)
              /\ g[Len(parts) - 1] = Len(Joined(parts))
<1> DEFINE n == Len(parts) - 1
           V == Seq(S)
           text == Joined(parts)
<1>1. n \in Nat /\ \A k \in 0..n : k + 1 \in 1..Len(parts)
  OBVIOUS
<1>2. \A v, w \in V : v \o Separator \o w \in V
  OBVIOUS
<1>3. \A i \in 1..Len(parts) : parts[i] \in V
  OBVIOUS
<1> HIDE DEF V
<1>4. PICK f \in [0..n -> V] :
        /\ f[0] = parts[1]
        /\ \A i \in 1..n : f[i] = f[i-1] \o Separator \o parts[i+1]
        /\ text = f[n]
  BY <1>2, <1>3, JoinedIs
<1> HIDE DEF n, text
<1>5. \A i \in 0..n : f[i] \in Seq(S) /\ Len(f[i]) \in Nat
  BY <1>4, LenProperties DEF V
<1>6. \A i \in 0..n : parts[i+1] \in Seq(S) /\ Len(parts[i+1]) \in Nat
  BY <1>1, <1>3, LenProperties DEF V
<1>7. Len(Separator) = 2 /\ Separator[1] = "_" /\ Separator[2] = "_"
  BY DEF Separator
<1> DEFINE g == [i \in 0..n |-> Len(f[i])]
<1>9. g \in [0..n -> Nat] /\ \A i \in 0..n : g[i] = Len(f[i])
  BY <1>5
<1> HIDE DEF g
<1>10. ASSUME NEW i \in 1..n
       PROVE  /\ g[i] = g[i-1] + 2 + Len(parts[i+1])
              /\ \A t \in 1..Len(parts[i+1]) : f[i][g[i-1] + 2 + t] = parts[i+1][t]
              /\ f[i][g[i-1] + 1] = "_" /\ f[i][g[i-1] + 2] = "_"
              /\ Begins(f[i-1], f[i])
  <2> DEFINE a == f[i-1]
             b == parts[i+1]
             la == Len(a)
             lb == Len(b)
             as == a \o Separator
             w == as \o b
  <2>1. i \in 0..n /\ i - 1 \in 0..n
    BY <1>1
  <2>2. a \in Seq(S) /\ b \in Seq(S) /\ f[i] = w /\ la \in Nat /\ lb \in Nat
        /\ g[i-1] = la /\ g[i] = Len(w)
    BY <1>4, <1>5, <1>6, <1>9, <2>1
  <2> HIDE DEF a, b, w, as
  <2>3. /\ as \in Seq(S) /\ Len(as) = Len(a) + Len(Separator)
        /\ \A k \in 1..(Len(a) + Len(Separator)) :
             as[k] = IF k <= Len(a) THEN a[k] ELSE Separator[k - Len(a)]
    BY <2>2, ConcatProperties DEF as
  <2>4. /\ Len(w) = Len(as) + Len(b)
        /\ \A k \in 1..(Len(as) + Len(b)) :
             w[k] = IF k <= Len(as) THEN as[k] ELSE b[k - Len(as)]
    BY <2>2, <2>3, ConcatProperties DEF w
  <2> HIDE DEF la, lb
  <2>5. Len(a) = la /\ Len(b) = lb /\ Len(Separator) = 2
    BY <1>7 DEF la, lb
  <2>6. Len(as) = la + 2
    BY <2>3, <2>5, Zenon
  <2>7. \A k \in 1..(la + 2) : as[k] = IF k <= la THEN a[k] ELSE Separator[k - la]
    BY <2>3, <2>5, Zenon
  <2>8. \A k \in 1..(la + 2 + lb) : w[k] = IF k <= la + 2 THEN as[k] ELSE b[k - (la + 2)]
    BY <2>4, <2>5, <2>6, Zenon
  <2>9. Len(w) = la + 2 + lb
    BY <2>4, <2>5, <2>6, Zenon
  <2>10. ASSUME NEW t \in 1..lb
         PROVE  w[la + 2 + t] = b[t]
    <3>1. PICK j \in Int : j = la + 2 + t
      BY <2>2
    <3>2. j \in 1..(la + 2 + lb) /\ ~(j <= la + 2) /\ j - (la + 2) = t
      BY <2>2, <3>1
    <3>3. w[j] = b[t]
      BY <2>8, <3>2
    <3> QED
      BY <3>1, <3>3
  <2>11. w[la + 1] = Separator[1] /\ w[la + 2] = Separator[2]
    <3>1. ASSUME NEW e \in 1..2
          PROVE  w[la + e] = Separator[e]
      <4>1. PICK j \in Int : j = la + e
        BY <2>2
      <4>2. j \in 1..(la + 2 + lb) /\ j <= la + 2 /\ j \in 1..(la + 2)
            /\ ~(j <= la) /\ j - la = e
        BY <2>2, <4>1
      <4>3. w[j] = as[j] /\ as[j] = Separator[e]
        BY <2>7, <2>8, <4>2
      <4> QED
        BY <4>1, <4>3
    <3> QED
      BY <3>1
  <2>12. Len(parts[i+1]) = lb /\ \A t : parts[i+1][t] = b[t]
    BY DEF b, lb
  <2>13. w[la + 1] = "_" /\ w[la + 2] = "_"
    BY <1>7, <2>11, Zenon
  <2>14. g[i] = g[i-1] + 2 + Len(parts[i+1])
    BY <2>2, <2>9, <2>12, Zenon
  <2>15. \A t \in 1..Len(parts[i+1]) : f[i][g[i-1] + 2 + t] = parts[i+1][t]
    BY <2>2, <2>10, <2>12, Zenon
  <2>16. f[i][g[i-1] + 1] = "_" /\ f[i][g[i-1] + 2] = "_"
    BY <2>2, <2>13, Zenon
  <2>17. ASSUME NEW k \in 1..la
         PROVE  w[k] = a[k]
    <3>1. k \in 1..(la + 2 + lb) /\ k <= la + 2 /\ k \in 1..(la + 2) /\ k <= la
      BY <2>2
    <3>2. w[k] = as[k] /\ as[k] = a[k]
      BY <2>7, <2>8, <3>1
    <3> QED
      BY <3>2
  <2>18. la <= la + 2 + lb
    BY <2>2
  <2>19. Begins(f[i-1], f[i])
    BY <2>2, <2>5, <2>9, <2>17, <2>18, Zenon DEF Begins, a
  <2> QED
    BY <2>14, <2>15, <2>16, <2>19
<1>8. \A i \in 0..n : /\ Len(f[i]) <= Len(text)
                      /\ \A k \in 1..Len(f[i]) : f[i][k] = text[k]
  <2>1. \A i \in 0..n : Begins(f[i], f[n])
    BY <1>1, <1>5, <1>10, Beginnings
  <2> QED
    BY <1>4, <2>1, Zenon DEF Begins
<1>11. ASSUME NEW k \in 0..n
       PROVE  /\ Len(parts[k+1]) \in Nat
              /\ g[k] = Before(g, k) + Len(parts[k+1])
              /\ \A t \in 1..Len(parts[k+1]) : text[Before(g, k) + t] = parts[k+1][t]
  <2>1. CASE k = 0
    <3>1. k + 1 = 1 /\ Before(g, k) = 0 /\ f[k] = parts[k+1] /\ g[k] = Len(parts[k+1])
      BY <1>4, <1>9, <2>1 DEF Before
    <3>2. \A t \in 1..Len(parts[k+1]) : text[t] = parts[k+1][t] /\ 0 + t = t
      BY <1>6, <1>8, <3>1
    <3>3. 0 + Len(parts[k+1]) = Len(parts[k+1]) /\ Len(parts[k+1]) \in Nat
      BY <1>6
    <3> QED
      BY <3>1, <3>2, <3>3, Zenon
  <2>2. CASE k # 0
    <3>1. k \in 1..n /\ k - 1 \in 0..n
      BY <1>1, <2>2
    <3>2. Before(g, k) = g[k-1] + 2
      BY <2>2 DEF Before
    <3>3. g[k] = g[k-1] + 2 + Len(parts[k+1]) /\ g[k] = Len(f[k]) /\ g[k-1] \in Nat
          /\ Len(parts[k+1]) \in Nat
      BY <1>6, <1>9, <1>10, <3>1
    <3>4. \A t \in 1..Len(parts[k+1]) : g[k-1] + 2 + t \in 1..Len(f[k])
      <4> DEFINE x == g[k-1]
                 y == Len(f[k])
                 l == Len(parts[k+1])
      <4>1. x \in Nat /\ l \in Nat /\ y = x + 2 + l
        BY <3>3, Zenon
      <4> HIDE DEF x, y, l
      <4>2. \A t \in 1..l : x + 2 + t \in 1..y
        BY <4>1
      <4> QED
        BY <4>2 DEF x, y, l
    <3>5. \A t \in 1..Len(parts[k+1]) : f[k][g[k-1] + 2 + t] = parts[k+1][t]
      BY <1>10, <3>1
    <3>6. \A t \in 1..Len(parts[k+1]) : text[g[k-1] + 2 + t] = parts[k+1][t]
      BY <1>8, <3>4, <3>5
    <3> QED
      BY <3>2, <3>3, <3>6, Zenon
  <2> QED
    BY <2>1, <2>2
<1>12. ASSUME NEW k \in 1..n
       PROVE  text[g[k-1] + 1] = "_" /\ text[g[k-1] + 2] = "_"
  <2>1. k \in 0..n /\ k - 1 \in 0..n
    BY <1>1
  <2>2. g[k] = g[k-1] + 2 + Len(parts[k+1]) /\ g[k] = Len(f[k]) /\ g[k-1] \in Nat
        /\ Len(parts[k+1]) \in Nat
    BY <1>6, <1>9, <1>10, <2>1
  <2>3. g[k-1] + 1 \in 1..Len(f[k]) /\ g[k-1] + 2 \in 1..Len(f[k])
    <3> DEFINE x == g[k-1]
               y == Len(f[k])
               l == Len(parts[k+1])
    <3>1. x \in Nat /\ l \in Nat /\ y = x + 2 + l
      BY <2>2, Zenon
    <3> HIDE DEF x, y, l
    <3>2. x + 1 \in 1..y /\ x + 2 \in 1..y
      BY <3>1
    <3> QED
      BY <3>2 DEF x, y
  <2>4. text[g[k-1] + 1] = f[k][g[k-1] + 1] /\ text[g[k-1] + 2] = f[k][g[k-1] + 2]
    BY <1>8, <2>1, <2>3
  <2>5. f[k][g[k-1] + 1] = "_" /\ f[k][g[k-1] + 2] = "_"
    BY <1>10
  <2> QED
    BY <2>4, <2>5, Zenon
<1>13. Lays(text, parts, g)
  BY <1>11, <1>12 DEF Lays, n
<1>14. text \in Seq(S) /\ g[n] = Len(text)
  BY <1>1, <1>4, <1>5, <1>9
<1> QED
  BY <1>9, <1>13, <1>14 DEF n, text

\* There is one set of places that begin separators.
LEMMA CutsAlone ==
  ASSUME NEW S, NEW text \in Seq(S), NEW P \in SUBSET (1..Len(text)),
         \A i \in 1..Len(text) : i \in P <=> Double(text, i) /\ i - 1 \notin P
  PROVE  Cuts(text) = P
<1> DEFINE n == Len(text)
           K == Cuts(text)
           T == {i \in 0..n : i \in K <=> i \in P}
<1>1. n \in Nat
  BY LenProperties
<1>2. /\ K \in SUBSET (1..n)
      /\ \A i \in 1..n : i \in K <=> Double(text, i) /\ i - 1 \notin K
  BY CutsAre
<1> HIDE DEF K
<1>3. \A i \in 1..n : i \in P <=> Double(text, i) /\ i - 1 \notin P
  OBVIOUS
<1>4. P \in SUBSET (1..n)
  OBVIOUS
<1> HIDE DEF n
<1>5. 0 \in T
  <2>1. 0 \notin 1..n /\ 0 \in 0..n
    BY <1>1
  <2> QED
    BY <1>2, <1>4, <2>1
<1>6. ASSUME NEW i \in 1..n, i - 1 \in T
      PROVE  i \in T
  <2>1. i \in 0..n
    BY <1>1
  <2>2. i - 1 \in K <=> i - 1 \in P
    BY <1>6
  <2> QED
    BY <1>2, <1>3, <2>1, <2>2
<1>7. T \in SUBSET (0..n)
  OBVIOUS
<1> HIDE DEF T
<1>8. T = 0..n
  BY <1>1, <1>5, <1>6, <1>7, Upward
<1>9. \A i \in 1..n : i \in K <=> i \in P
  <2>1. \A i \in 1..n : i \in 0..n
    BY <1>1
  <2> QED
    BY <1>8, <2>1 DEF T
<1>10. K = P
  BY <1>2, <1>4, <1>9
<1> QED
  BY <1>10 DEF K

\* The parts end one after the other.
LEMMA Apart ==
  ASSUME NEW parts, NEW n \in Nat, Len(parts) = n + 1,
         NEW text, NEW g \in [0..n -> Nat], Lays(text, parts, g)
  PROVE  \A a, b \in 0..n : a < b => g[a] + 2 <= g[b]
<1> DEFINE T == {b \in 0..n : \A a \in 0..n : a < b => g[a] + 2 <= g[b]}
<1>1. ASSUME NEW k \in 1..n
      PROVE  g[k-1] + 2 <= g[k]
  <2>1. k \in 0..n /\ k \in 0..(Len(parts) - 1) /\ k # 0 /\ k - 1 \in 0..n
    OBVIOUS
  <2>2. g[k] = g[k-1] + 2 + Len(parts[k+1]) /\ Len(parts[k+1]) \in Nat
    BY <2>1 DEF Lays, Before
  <2>3. g[k] \in Nat /\ g[k-1] \in Nat
    BY <2>1
  <2> QED
    BY <2>2, <2>3
<1>2. 0 \in T
  OBVIOUS
<1>3. ASSUME NEW b \in 1..n, b - 1 \in T
      PROVE  b \in T
  <2>1. b \in 0..n /\ b - 1 \in 0..n
    OBVIOUS
  <2>2. \A a \in 0..n : a < b - 1 => g[a] + 2 <= g[b-1]
    BY <1>3
  <2>3. g[b-1] + 2 <= g[b] /\ g[b] \in Nat /\ g[b-1] \in Nat
    BY <1>1, <2>1
  <2>4. ASSUME NEW a \in 0..n, a < b
        PROVE  g[a] + 2 <= g[b]
    <3>1. CASE a = b - 1
      BY <2>3, <3>1
    <3>2. CASE a # b - 1
      <4>1. a < b - 1
        BY <2>4, <3>2
      <4>2. g[a] + 2 <= g[b-1] /\ g[a] \in Nat
        BY <2>2, <4>1
      <4> QED
        BY <2>3, <4>2
    <3> QED
      BY <3>1, <3>2
  <2> QED
    BY <2>1, <2>4
<1>4. T \in SUBSET (0..n)
  OBVIOUS
<1> HIDE DEF T
<1>5. T = 0..n
  BY <1>2, <1>3, <1>4, Upward
<1> QED
  BY <1>5 DEF T

\* Where separators begin, when the parts end at g[0], ..., g[n].
EndsOf(g, n) == {g[k-1] + 1 : k \in 1..n}

\* The separators of tidy parts that lie in a text begin where the parts end.
LEMMA Ends ==
  ASSUME NEW S, NEW text \in Seq(S), NEW parts, NEW n \in Nat, Len(parts) = n + 1,
         NEW g \in [0..n -> Nat], Lays(text, parts, g), g[n] = Len(text), Tidy(parts)
  PROVE  Cuts(text) = EndsOf(g, n)
<1> DEFINE l == Len(text)
           P == {g[k-1] + 1 : k \in 1..n}
<1>1. l \in Nat /\ g[n] = l
  BY LenProperties
<1>2. \A a, b \in 0..n : a < b => g[a] + 2 <= g[b]
  BY Apart
<1>3. \A k \in 1..n : k - 1 \in 0..n /\ k \in 0..n /\ k - 1 < k
  OBVIOUS
<1>4. \A k \in 0..n : g[k] \in Nat /\ g[k] <= l
  <2> SUFFICES ASSUME NEW k \in 0..n
               PROVE  g[k] \in Nat /\ g[k] <= l
    OBVIOUS
  <2>1. CASE k = n
    BY <1>1, <2>1
  <2>2. CASE k # n
    <3>1. k < n /\ n \in 0..n
      BY <2>2
    <3>2. g[k] + 2 <= g[n] /\ g[k] \in Nat
      BY <1>2, <3>1
    <3> QED
      BY <1>1, <3>2
  <2> QED
    BY <2>1, <2>2
<1>5. P \in SUBSET (1..l)
  <2> SUFFICES ASSUME NEW k \in 1..n
               PROVE  g[k-1] + 1 \in 1..l
    OBVIOUS
  <2>1. g[k-1] + 2 <= g[k] /\ g[k-1] \in Nat /\ g[k] \in Nat /\ g[k] <= l
    BY <1>2, <1>3, <1>4
  <2> QED
    BY <1>1, <2>1
<1>6. ASSUME NEW k \in 1..n
      PROVE  Double(text, g[k-1] + 1) /\ g[k-1] + 1 - 1 \notin P
  <2>1. g[k-1] + 2 <= g[k] /\ g[k-1] \in Nat /\ g[k] \in Nat /\ g[k] <= l
    BY <1>2, <1>3, <1>4
  <2>2. g[k-1] + 1 < l /\ g[k-1] + 1 + 1 = g[k-1] + 2 /\ g[k-1] + 1 - 1 = g[k-1]
    BY <1>1, <2>1
  <2>3. k \in 1..(Len(parts) - 1)
    OBVIOUS
  <2>4. text[g[k-1] + 1] = "_" /\ text[g[k-1] + 2] = "_"
    BY <2>3, Zenon DEF Lays
  <2>5. Double(text, g[k-1] + 1)
    BY <2>2, <2>4, Zenon DEF Double
  <2>6. ASSUME NEW j \in 1..n, g[j-1] + 1 = g[k-1]
        PROVE  FALSE
    <3>1. j - 1 \in 0..n /\ k - 1 \in 0..n /\ j \in Int /\ k \in Int
      OBVIOUS
    <3>2. g[j-1] \in Nat /\ g[k-1] \in Nat
      BY <3>1
    <3>3. CASE j < k
      <4>1. j - 1 < k - 1
        BY <3>1, <3>3
      <4>2. g[j-1] + 2 <= g[k-1]
        BY <1>2, <3>1, <4>1
      <4> QED
        BY <2>6, <3>2, <4>2
    <3>4. CASE j = k
      BY <2>6, <3>2, <3>4
    <3>5. CASE k < j
      <4>1. k - 1 < j - 1
        BY <3>1, <3>5
      <4>2. g[k-1] + 2 <= g[j-1]
        BY <1>2, <3>1, <4>1
      <4> QED
        BY <2>6, <3>2, <4>2
    <3> QED
      BY <3>1, <3>3, <3>4, <3>5
  <2>7. g[k-1] \notin P
    BY <2>6
  <2> QED
    BY <2>2, <2>5, <2>7
<1>7. ASSUME NEW i \in 1..l, Double(text, i), i - 1 \notin P
      PROVE  i \in P
  <2>0. i \in Nat /\ 1 <= i /\ i <= l
    BY <1>1
  <2> DEFINE T == {k \in 0..n : i <= g[k]}
  <2>1. T \in SUBSET Nat /\ n \in T
    BY <1>1, <2>0
  <2>2. PICK k \in T : \A j \in T : k <= j
    BY <2>1, Least
  <2> DEFINE b == Before(g, k)
             d == Len(parts[k+1])
             p == parts[k+1]
  <2>3. k \in 0..n /\ i <= g[k] /\ k \in 0..(Len(parts) - 1) /\ k + 1 \in 1..Len(parts)
    BY <2>2
  <2>4. /\ d \in Nat /\ g[k] = b + d
        /\ \A t \in 1..d : text[b + t] = p[t]
    BY <2>3, Zenon DEF Lays
  <2>5. k # 0 => k - 1 \in 0..n /\ g[k-1] \in Nat /\ g[k-1] < i
    <3> SUFFICES ASSUME k # 0
                 PROVE  k - 1 \in 0..n /\ g[k-1] \in Nat /\ g[k-1] < i
      OBVIOUS
    <3>1. k - 1 \in 0..n /\ ~(k <= k - 1)
      BY <2>3
    <3>2. ~(i <= g[k-1])
      BY <2>2, <3>1
    <3> QED
      BY <2>0, <3>1, <3>2
  <2>6. CASE k # 0 /\ i = g[k-1] + 1
    BY <2>3, <2>6
  <2>7. CASE k # 0 /\ i = g[k-1] + 2
    <3>1. i - 1 = g[k-1] + 1 /\ k \in 1..n
      BY <2>3, <2>5, <2>7
    <3>2. i - 1 \in P
      BY <3>1
    <3> QED
      BY <1>7, <3>2
  <2>8. CASE ~(k # 0 /\ i = g[k-1] + 1) /\ ~(k # 0 /\ i = g[k-1] + 2)
    <3>1. b \in Nat /\ b < i
      <4>1. CASE k = 0
        <5>1. b = 0
          BY <4>1 DEF Before
        <5> QED
          BY <2>0, <5>1
      <4>2. CASE k # 0
        <5>1. b = g[k-1] + 2
          BY <4>2 DEF Before
        <5>2. g[k-1] \in Nat /\ g[k-1] < i /\ i # g[k-1] + 1 /\ i # g[k-1] + 2
          BY <2>5, <2>8, <4>2
        <5> DEFINE x == g[k-1]
        <5>3. x \in Nat /\ x < i /\ i # x + 1 /\ i # x + 2 /\ b = x + 2
          BY <5>1, <5>2, Zenon
        <5> HIDE DEF x, b
        <5> QED
          BY <2>0, <5>3
      <4> QED
        BY <4>1, <4>2
    <3> HIDE DEF b, d, p
    <3>2. PICK t \in Int : t = i - b
      BY <2>0, <3>1
    <3>3. t \in 1..d /\ b + t = i /\ b + (t + 1) = i + 1
      BY <2>0, <2>3, <2>4, <3>1, <3>2
    <3>4. text[i] = "_" /\ text[i+1] = "_" /\ i < l
      BY <1>7, Zenon DEF Double
    <3>5. text[b + t] = p[t]
      BY <2>4, <3>3
    <3>6. p[t] = "_"
      BY <3>3, <3>4, <3>5, Zenon
    <3>7. CASE t < d
      <4>1. t + 1 \in 1..d
        BY <2>4, <3>3, <3>7
      <4>2. text[b + (t + 1)] = p[t + 1]
        BY <2>4, <4>1
      <4>3. p[t + 1] = "_"
        BY <3>3, <3>4, <4>2, Zenon
      <4>4. Double(p, t)
        BY <3>6, <3>7, <4>3, Zenon DEF Double, d, p
      <4>5. ~Double(p, t)
        BY <2>3, <3>3, Zenon DEF Tidy, d, p
      <4> QED
        BY <4>4, <4>5
    <3>8. CASE t = d
      <4>1. i = g[k]
        BY <2>0, <2>4, <3>1, <3>3, <3>8
      <4>2. k # n
        <5>1. k = n => i = l
          BY <1>1, <4>1, Zenon
        <5>2. i < l
          BY <3>4, Zenon
        <5> HIDE DEF l
        <5> QED
          BY <1>1, <5>1, <5>2
      <4>3. k + 1 \in 1..(Len(parts) - 1)
        BY <2>3, <4>2
      <4>4. d # 0
        BY <2>4, <3>3
      <4>5. p[d] # "_"
        BY <4>3, <4>4, Zenon DEF Tidy, d, p
      <4> QED
        BY <3>6, <3>8, <4>5, Zenon
    <3> QED
      BY <2>4, <3>3, <3>7, <3>8
  <2> QED
    BY <2>6, <2>7, <2>8
<1>8. \A i \in 1..l : i \in P <=> Double(text, i) /\ i - 1 \notin P
  <2>1. ASSUME NEW i \in P
        PROVE  Double(text, i) /\ i - 1 \notin P
    <3>1. PICK k \in 1..n : i = g[k-1] + 1
      OBVIOUS
    <3> HIDE DEF P
    <3>2. Double(text, g[k-1] + 1) /\ g[k-1] + 1 - 1 \notin P
      BY <1>6
    <3> QED
      BY <3>1, <3>2
  <2> QED
    BY <1>7, <2>1
<1> HIDE DEF P
<1>9. Cuts(text) = P
  BY <1>5, <1>8, CutsAlone
<1> QED
  BY <1>9 DEF P, EndsOf

\* What str.join puts together str.split takes apart again, if it is tidy.
LEMMA SplitJoined ==
  ASSUME NEW S, Separator \in Seq(S), NEW parts \in Seq(Seq(S)),
         Len(parts) \in Nat \ {0}, Tidy(parts)
  PROVE  Split(Joined(parts)) = parts
<1> DEFINE n == Len(parts) - 1
           text == Joined(parts)
           l == Len(text)
           K == Cuts(text)
<1>1. n \in Nat /\ Len(parts) = n + 1
  OBVIOUS
<1>2. \A i \in 1..Len(parts) : parts[i] \in Seq(S)
  BY ElementOfSeq
<1>3. /\ text \in Seq(S)
      /\ \E g \in [0..n -> Nat] : Lays(text, parts, g) /\ g[n] = l
  BY <1>2, LaidOut
<1>4. PICK g \in [0..n -> Nat] : Lays(text, parts, g) /\ g[n] = l
  BY <1>3
<1> HIDE DEF n, text
<1>5. K = EndsOf(g, n)
  <2>1. g[n] = Len(text)
    BY <1>4
  <2> QED
    BY <1>1, <1>3, <1>4, <2>1, Ends, Zenon
<1>6. \A a, b \in 0..n : a < b => g[a] + 2 <= g[b]
  BY <1>1, <1>4, Apart
<1>7. K \in SUBSET (1..l) /\ l \in Nat /\ \A i \in 1..l : text[i] \in S
  BY <1>3, CutsAre, LenProperties, ElementOfSeq
<1> DEFINE q == [k \in 1..n |-> g[k-1] + 1]
<1>8. \A k \in 1..n : q[k] = g[k-1] + 1 /\ k - 1 \in 0..n /\ g[k-1] \in Nat
  BY <1>1
<1>9. q \in [1..n -> 1..l]
  <2>1. \A k \in 1..n : g[k-1] + 1 \in 1..l
    BY <1>5, <1>7 DEF EndsOf
  <2> QED
    BY <2>1
<1>10. K = ValuesOf(q, n)
  BY <1>5, <1>8 DEF EndsOf, ValuesOf
<1> HIDE DEF q
<1>11. \A i, j \in 1..n : i < j => q[i] < q[j]
  <2> SUFFICES ASSUME NEW i \in 1..n, NEW j \in 1..n, i < j
               PROVE  q[i] < q[j]
    OBVIOUS
  <2>1. i - 1 < j - 1
    BY <1>1
  <2>2. g[i-1] + 2 <= g[j-1] /\ g[i-1] \in Nat /\ g[j-1] \in Nat
    BY <1>6, <1>8, <2>1
  <2> QED
    BY <1>8, <2>2
<1>12. Sorted(K) = q
  <2> HIDE DEF K, l
  <2> QED
    BY <1>1, <1>7, <1>9, <1>10, <1>11, SortedIs, Zenon
<1>13. Len(q) = n
  BY <1>1, <1>9, SeqOfLength
<1> DEFINE r == [k \in 1..(n + 1) |-> Between(text, q, k)]
<1>14. Split(text) = r
  BY <1>12, <1>13 DEF Split
<1>15. ASSUME NEW k \in 1..(n + 1)
       PROVE  Between(text, q, k) = parts[k]
  <2> DEFINE j == k - 1
             b == Before(g, j)
             p == parts[k]
             d == Len(p)
             u == SubSeq(text, b + 1, b + d)
  <2>1. /\ j \in 0..n /\ j + 1 = k /\ j \in 0..(Len(parts) - 1)
        /\ k \in 1..Len(parts)
    BY <1>1
  <2>2. /\ d \in Nat /\ g[j] = b + d
        /\ \A t \in 1..d : text[b + t] = p[t]
    <3>1. /\ Len(parts[j+1]) \in Nat
          /\ g[j] = Before(g, j) + Len(parts[j+1])
          /\ \A t \in 1..Len(parts[j+1]) : text[Before(g, j) + t] = parts[j+1][t]
      <4> HIDE DEF j
      <4> QED
        BY <1>4, <2>1, Zenon DEF Lays
    <3> HIDE DEF j
    <3> QED
      BY <2>1, <3>1, Zenon
  <2>3. g[j] <= l /\ g[j] \in Nat
    <3>1. CASE j = n
      BY <1>4, <1>7, <3>1
    <3>2. CASE j # n
      <4>1. j < n /\ n \in 0..n
        BY <1>1, <2>1, <3>2
      <4>2. g[j] + 2 <= g[n] /\ g[j] \in Nat
        BY <1>6, <2>1, <4>1
      <4> QED
        BY <1>4, <1>7, <4>2
    <3> QED
      BY <3>1, <3>2
  <2>4. b \in Nat
    <3>1. j # 0 => j - 1 \in 0..n /\ g[j-1] \in Nat
      BY <1>1, <2>1
    <3> QED
      BY <3>1 DEF Before
  <2>5. (IF k = 1 THEN 1 ELSE q[k-1] + 2) = b + 1
    <3>1. CASE k = 1
      <4>1. j = 0
        BY <3>1
      <4>2. b = 0
        BY <4>1, Zenon DEF Before
      <4> HIDE DEF b
      <4> QED
        BY <3>1, <4>2
    <3>2. CASE k # 1
      <4>1. j # 0 /\ j \in 1..n /\ j - 1 \in 0..n
        BY <1>1, <3>2
      <4>2. b = g[j-1] + 2 /\ q[j] = g[j-1] + 1 /\ g[j-1] \in Nat
        BY <1>8, <4>1 DEF Before
      <4> HIDE DEF b
      <4>3. q[j] + 2 = b + 1
        BY <4>2
      <4> QED
        BY <3>2, <4>3
    <3> QED
      BY <3>1, <3>2
  <2>6. (IF k > n THEN l ELSE q[k] - 1) = b + d
    <3>1. CASE k > n
      <4>1. j = n
        BY <1>1, <3>1
      <4> QED
        BY <1>4, <2>2, <3>1, <4>1, Zenon
    <3>2. CASE ~(k > n)
      <4>1. k \in 1..n
        BY <1>1, <3>2
      <4>2. q[k] = g[j] + 1 /\ g[j] \in Nat
        BY <1>8, <4>1
      <4>3. q[k] - 1 = g[j]
        BY <4>2
      <4> QED
        BY <2>2, <3>2, <4>3, Zenon
    <3> QED
      BY <3>1, <3>2
  <2>7. Between(text, q, k) = u
    <3> HIDE DEF b, d, j
    <3>1. Between(text, q, k)
            = SubSeq(text, IF k = 1 THEN 1 ELSE q[k-1] + 2,
                           IF k > n THEN l ELSE q[k] - 1)
      BY <1>13, Zenon DEF Between
    <3> QED
      BY <2>5, <2>6, <3>1, Zenon
  <2> HIDE DEF b, j
  <2>8. p \in Seq(S)
    BY <1>2, <2>1
  <2> HIDE DEF p, d
  <2>9. b + 1 \in Int /\ b + d \in Int /\ b + d <= l
    BY <1>7, <2>2, <2>3, <2>4
  <2>10. \A i \in (b + 1)..(b + d) : text[i] \in S
    BY <1>7, <2>2, <2>4, <2>9
  <2> DEFINE x == b + 1
             y == b + d
  <2>11. /\ u \in Seq(S)
         /\ Len(u) = IF x <= y THEN y - x + 1 ELSE 0
         /\ \A i \in 1..(y - x + 1) : u[i] = text[x + i - 1]
    <3>1. x \in Int /\ y \in Int /\ \A i \in x..y : text[i] \in S
      BY <2>9, <2>10
    <3>2. u = SubSeq(text, x, y)
      OBVIOUS
    <3> HIDE DEF x, y, u
    <3> QED
      BY <3>1, <3>2, SubSeqProperties
  <2> HIDE DEF u
  <2>12. Len(u) = d
    BY <2>2, <2>4, <2>11
  <2>13. ASSUME NEW i \in 1..d
         PROVE  u[i] = p[i]
    <3>1. i \in 1..(y - x + 1) /\ x + i - 1 = b + i
      BY <2>2, <2>4
    <3> HIDE DEF x, y
    <3>2. u[i] = text[b + i]
      BY <2>11, <3>1
    <3> QED
      BY <2>2, <3>2
  <2>14. Len(p) = d
    BY DEF d
  <2>15. u = p
    BY <2>8, <2>11, <2>12, <2>13, <2>14, SeqEqual
  <2> QED
    BY <2>7, <2>15 DEF p
<1>16. parts = [k \in 1..(n + 1) |-> parts[k]]
  BY <1>1
<1>17. r = [k \in 1..(n + 1) |-> parts[k]]
  BY <1>15
<1> QED
  BY <1>14, <1>16, <1>17, Zenon DEF text

=============================================================================
