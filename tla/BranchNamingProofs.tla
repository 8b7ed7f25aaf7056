------------------------- MODULE BranchNamingProofs -------------------------
(* What holds of BranchNaming for any patterns, identities and names.      *)
EXTENDS BranchNaming, TextProofs

\* x stands right before y somewhere in s.
Pair(s, x, y) == \E i \in 1..(Len(s) - 1) : s[i] = x /\ s[i+1] = y

\* What a reference may not have in it.
Clean(s) == ~(Pair(s, ".", ".") \/ Pair(s, "/", "/") \/ Pair(s, "/", "."))

-----------------------------------------------------------------------------
\* The rewrites of sanitize_user_for_branch.

\* Thin is a sequence of members of s, in their order.
LEMMA ThinIs ==
  ASSUME NEW S, NEW s \in Seq(S), NEW x, NEW y
  PROVE  /\ Len(s) \in Nat /\ Kept(s, x, y) \in SUBSET (1..Len(s))
         /\ Cardinality(Kept(s, x, y)) \in 0..Len(s)
         /\ Thin(s, x, y) \in Seq(S)
         /\ Len(Thin(s, x, y)) = Cardinality(Kept(s, x, y))
         /\ \A k \in 1..Cardinality(Kept(s, x, y)) :
              /\ Kth(Kept(s, x, y), k) \in Kept(s, x, y)
              /\ Thin(s, x, y)[k] = s[Kth(Kept(s, x, y), k)]
<1>1. Len(s) \in Nat /\ Kept(s, x, y) \in SUBSET (1..Len(s))
  BY LenProperties DEF Kept
<1> QED
  BY <1>1, PickedIs DEF Thin

\* Thin keeps the last of s, unless that is a y.
LEMMA ThinLast ==
  ASSUME NEW S, NEW s \in Seq(S), NEW x, NEW y, s # <<>>, Last(s) # y
  PROVE  Thin(s, x, y) # <<>> /\ Last(Thin(s, x, y)) = Last(s)
<1> DEFINE K == Kept(s, x, y)
           t == Thin(s, x, y)
           n == Len(s)
           c == Cardinality(K)
<1>1. /\ n \in Nat /\ K \in SUBSET (1..n) /\ c \in 0..n /\ Len(t) = c
      /\ \A k \in 1..c : t[k] = s[Kth(K, k)]
  BY ThinIs
<1>2. n \in 1..n /\ n > 0
  BY <1>1, EmptySeq
<1>3. n \in K
  BY <1>2, LenProperties DEF Kept, Last
<1> HIDE DEF K
<1>4. /\ Rank(K, n) = c /\ Rank(K, n-1) \in 0..c /\ Rank(K, n) = Rank(K, n-1) + 1
  BY <1>1, <1>2, <1>3, Ranks
<1>5. c \in 1..c
  BY <1>1, <1>4
<1>6. Kth(K, c) = n
  <2>1. Kth(K, c) \in K /\ Rank(K, Kth(K, c)) = c
    BY <1>1, <1>5, KthIs
  <2> DEFINE i == Kth(K, c)
  <2>2. i \in 1..n
    BY <1>1, <2>1
  <2> HIDE DEF i
  <2>3. SUFFICES ASSUME i < n
                 PROVE  FALSE
    BY <1>1, <2>2 DEF i
  <2>4. Rank(K, i) < Rank(K, n)
    BY <1>1, <1>3, <2>2, <2>3, RankGrows
  <2> QED
    BY <1>1, <1>4, <2>1, <2>4 DEF i
<1>7. t[Len(t)] = s[n] /\ Len(t) # 0
  BY <1>1, <1>5, <1>6
<1> QED
  BY <1>7 DEF Last

\* The word "lock" is in s once at most, and once at most in Thin then.
Once(s) == \A i, j \in 1..Len(s) : s[i] = "lock" /\ s[j] = "lock" => i = j

LEMMA ThinOnce ==
  ASSUME NEW S, NEW s \in Seq(S), NEW x, NEW y, Once(s)
  PROVE  Once(Thin(s, x, y))
<1> DEFINE K == Kept(s, x, y)
           t == Thin(s, x, y)
<1>1. /\ Len(s) \in Nat /\ K \in SUBSET (1..Len(s)) /\ Len(t) = Cardinality(K)
      /\ \A k \in 1..Cardinality(K) : Kth(K, k) \in K /\ t[k] = s[Kth(K, k)]
  BY ThinIs
<1> HIDE DEF K, t
<1>2. SUFFICES ASSUME NEW i \in 1..Cardinality(K), NEW j \in 1..Cardinality(K),
                      t[i] = "lock", t[j] = "lock"
               PROVE  i = j
  BY <1>1 DEF Once, t
<1>3. Kth(K, i) = Kth(K, j)
  BY <1>1, <1>2 DEF Once
<1> QED
  BY <1>1, <1>3, KthIs

\* What stands side by side in Thin stood so in s, or lost between it a y that
\* followed an x.
LEMMA ThinPairs ==
  ASSUME NEW S, NEW s \in Seq(S), NEW x, NEW y, NEW a, NEW b,
         Pair(Thin(s, x, y), a, b)
  PROVE  \/ Pair(s, a, b) /\ ~(a = x /\ b = y)
         \/ a = x /\ Pair(s, x, y) /\ Pair(s, y, b) /\ ~(x = y /\ b = y)
<1> DEFINE K == Kept(s, x, y)
           t == Thin(s, x, y)
           n == Len(s)
<1>1. /\ n \in Nat /\ K \in SUBSET (1..n)
      /\ Cardinality(K) \in 0..n /\ Len(t) = Cardinality(K)
      /\ \A k \in 1..Cardinality(K) : Kth(K, k) \in K /\ t[k] = s[Kth(K, k)]
  BY ThinIs
<1>2. DOMAIN s = 1..n
  BY LenProperties
<1>3. \A m \in 1..n : m \in K <=> ~(m > 1 /\ s[m] = y /\ s[m-1] = x)
  BY <1>2 DEF Kept
<1>4. PICK k \in 1..(Len(t) - 1) : t[k] = a /\ t[k+1] = b
  BY DEF Pair
<1> HIDE DEF K, t, n
<1>5. k \in Int /\ k \in 1..Cardinality(K) /\ k + 1 \in 1..Cardinality(K)
  BY <1>1, <1>4
<1> DEFINE i == Kth(K, k)
           j == Kth(K, k+1)
<1>6. i \in K /\ j \in K /\ s[i] = a /\ s[j] = b
  BY <1>1, <1>4, <1>5
<1>7. i < j /\ \A m \in K : ~(i < m /\ m < j)
  BY <1>1, <1>5, KthNext
<1> HIDE DEF i, j
<1>8. /\ n \in Nat /\ i \in Int /\ j \in Int
      /\ i \in 1..n /\ j \in 1..n /\ i < j
      /\ ~(s[j] = y /\ s[j-1] = x)
  <2>1. n \in Nat /\ i \in 1..n /\ j \in 1..n
    BY <1>1, <1>6
  <2>2. j > 1 /\ i \in Int /\ j \in Int
    BY <1>7, <2>1
  <2> QED
    BY <1>3, <1>6, <1>7, <2>1, <2>2
<1>9. CASE j = i + 1
  <2>1. i \in 1..(n - 1) /\ j - 1 = i
    BY <1>8, <1>9
  <2>2. s[i] = a /\ s[i+1] = b
    BY <1>6, <1>9
  <2>3. Pair(s, a, b)
    BY <2>1, <2>2 DEF Pair, n
  <2> QED
    BY <1>6, <1>8, <2>1, <2>3
<1>10. CASE j # i + 1
  <2>1. i + 1 \in 1..n /\ i < i + 1 /\ i + 1 < j /\ (i + 1) - 1 = i
    BY <1>8, <1>10
  <2>2. j - 1 \in 1..n /\ i < j - 1 /\ j - 1 < j
    BY <1>8, <1>10
  <2>3. s[i+1] = y /\ s[i] = x
    BY <1>3, <1>7, <2>1
  <2>4. s[j-1] = y
    BY <1>3, <1>7, <2>2
  <2>5. i \in 1..(n - 1)
    BY <1>8, <2>1
  <2>6. Pair(s, x, y)
    BY <2>3, <2>5 DEF Pair, n
  <2>7. j - 1 \in 1..(n - 1) /\ (j - 1) + 1 = j
    BY <1>8, <2>2
  <2>8. s[(j - 1) + 1] = b
    BY <1>6, <2>7
  <2>9. Pair(s, y, b)
    BY <2>4, <2>7, <2>8 DEF Pair, n
  <2> QED
    BY <1>6, <1>8, <2>3, <2>4, <2>6, <2>9
<1> QED
  BY <1>9, <1>10

\* What stands side by side in a part of s stands so in s.
LEMMA PartPairs ==
  ASSUME NEW S, NEW s \in Seq(S), NEW i \in Int, NEW j \in Int, 1 <= i, j <= Len(s)
  PROVE  /\ SubSeq(s, i, j) \in Seq(S)
         /\ \A a, b : Pair(SubSeq(s, i, j), a, b) => Pair(s, a, b)
<1> DEFINE t == SubSeq(s, i, j)
           n == Len(s)
<1>1. n \in Nat /\ \A k \in 1..n : s[k] \in S
  BY LenProperties, ElementOfSeq
<1>2. \A k \in i..j : s[k] \in S
  BY <1>1
<1>3. /\ t \in Seq(S)
      /\ Len(t) = IF i <= j THEN j - i + 1 ELSE 0
      /\ \A k \in 1..(j - i + 1) : t[k] = s[i + k - 1]
  BY <1>2, SubSeqProperties
<1> HIDE DEF t, n
<1>4. ASSUME NEW a, NEW b, Pair(t, a, b)
      PROVE  Pair(s, a, b)
  <2>1. PICK k \in 1..(Len(t) - 1) : t[k] = a /\ t[k+1] = b
    BY <1>4 DEF Pair
  <2>2. k \in 1..(j - i + 1) /\ k + 1 \in 1..(j - i + 1)
    BY <1>3, <2>1
  <2> DEFINE m == i + k - 1
  <2>3. m \in 1..(n - 1) /\ i + (k + 1) - 1 = m + 1
    BY <2>2 DEF n
  <2>4. t[k] = s[m]
    BY <1>3, <2>2
  <2>5. t[k+1] = s[i + (k + 1) - 1]
    BY <1>3, <2>2
  <2> HIDE DEF m
  <2>6. s[m] = a /\ s[m+1] = b
    BY <2>1, <2>3, <2>4, <2>5
  <2> QED
    BY <2>3, <2>6 DEF Pair, n
<1> QED
  BY <1>3, <1>4 DEF t

\* Strip leaves a part of s that neither begins nor ends with a separator.
LEMMA StripIs ==
  ASSUME NEW S, NEW s \in Seq(S)
  PROVE  /\ Strip(s) \in Seq(S)
         /\ \A a, b : Pair(Strip(s), a, b) => Pair(s, a, b)
         /\ Strip(s) # <<>> =>
              /\ Head(Strip(s)) \notin {"-", ".", "/"}
              /\ Last(Strip(s)) \notin {"-", ".", "/"}
         /\ s # <<>> /\ Last(s) \notin {"-", ".", "/"} =>
              Strip(s) # <<>> /\ Last(Strip(s)) = Last(s)
<1> DEFINE inner == {i \in DOMAIN s : s[i] \notin {"-", ".", "/"}}
           n == Len(s)
<1>1. n \in Nat /\ DOMAIN s = 1..n
  BY LenProperties
<1>0. s # <<>> /\ Last(s) \notin {"-", ".", "/"} => n \in inner
  <2> SUFFICES ASSUME s # <<>>, Last(s) \notin {"-", ".", "/"}
               PROVE  n \in inner
    OBVIOUS
  <2>1. n \in DOMAIN s
    BY <1>1, EmptySeq
  <2> QED
    BY <2>1 DEF Last
<1>2. CASE inner = {}
  <2>1. Strip(s) = <<>>
    BY <1>2 DEF Strip
  <2>2. \A a, b : ~Pair(<<>>, a, b)
    BY DEF Pair
  <2> QED
    BY <1>0, <1>2, <2>1, <2>2, EmptySeq
<1>3. CASE inner # {}
  <2>1. inner \in SUBSET Nat /\ inner \in SUBSET (0..n)
    BY <1>1
  <2> DEFINE i == Min(inner)
             j == Max(inner)
  <2>2. i \in inner
    <3>1. \E m \in inner : \A k \in inner : m <= k
      <4> HIDE DEF inner
      <4> QED
        BY <1>3, <2>1, Least
    <3> HIDE DEF inner
    <3> QED
      BY <3>1 DEF Min
  <2>3. j \in inner /\ \A k \in inner : j >= k
    <3>1. \E m \in inner : \A k \in inner : k <= m
      <4> HIDE DEF inner
      <4> QED
        BY <1>1, <1>3, <2>1, Greatest
    <3>2. \A k \in inner : k \in Int
      BY <2>1
    <3> HIDE DEF inner
    <3>3. \E m \in inner : \A k \in inner : m >= k
      BY <3>1, <3>2
    <3> QED
      BY <3>3 DEF Max
  <2>4. Strip(s) = SubSeq(s, i, j)
    BY <1>3 DEF Strip
  <2>5. i \in 1..n /\ j \in 1..n /\ i <= j
    BY <1>1, <2>1, <2>2, <2>3
  <2>6. s[i] \notin {"-", ".", "/"} /\ s[j] \notin {"-", ".", "/"}
    BY <2>2, <2>3
  <2>16. s # <<>> /\ Last(s) \notin {"-", ".", "/"} => j = n
    <3>1. n \in inner => j >= n
      BY <2>3
    <3> HIDE DEF i, j, n, inner
    <3>2. n \in inner => j = n
      BY <1>1, <2>5, <3>1
    <3> QED
      BY <1>0, <3>2
  <2> HIDE DEF i, j, n, inner
  <2>7. i \in Int /\ j \in Int /\ 1 <= i /\ j <= Len(s)
    BY <1>1, <2>5 DEF n
  <2>8. /\ SubSeq(s, i, j) \in Seq(S)
        /\ \A a, b : Pair(SubSeq(s, i, j), a, b) => Pair(s, a, b)
    BY <2>7, PartPairs
  <2>9. \A k \in i..j : s[k] \in S
    BY <2>7, LenProperties, ElementOfSeq
  <2> DEFINE t == SubSeq(s, i, j)
  <2>10. /\ Len(t) = IF i <= j THEN j - i + 1 ELSE 0
         /\ \A k \in 1..(j - i + 1) : t[k] = s[i + k - 1]
    BY <2>7, <2>9, SubSeqProperties
  <2> HIDE DEF t
  <2>11. 1 \in 1..(j - i + 1) /\ i + 1 - 1 = i
    BY <2>5, <2>7
  <2>12. t[1] = s[i]
    BY <2>10, <2>11
  <2>13. j - i + 1 \in 1..(j - i + 1) /\ i + (j - i + 1) - 1 = j
    BY <2>5, <2>7
  <2>14. t[j - i + 1] = s[j] /\ Len(t) = j - i + 1
    BY <2>5, <2>10, <2>13
  <2>15. Head(t) = s[i] /\ Last(t) = s[j]
    BY <2>12, <2>14 DEF Last
  <2>17. t # <<>>
    <3>1. Len(t) # 0
      BY <2>5, <2>7, <2>14
    <3> QED
      BY <3>1, EmptySeq
  <2>18. s # <<>> /\ Last(s) \notin {"-", ".", "/"} => s[j] = Last(s)
    BY <2>16 DEF Last, n
  <2> QED
    BY <2>4, <2>6, <2>8, <2>15, <2>17, <2>18 DEF t
<1> QED
  BY <1>2, <1>3

\* To end in ".lock" is to have those two pieces last.
LEMMA SuffixIs ==
  ASSUME NEW S, NEW s \in Seq(S)
  PROVE  IsSuffix(<<".", "lock">>, s) <=>
           Len(s) > 1 /\ s[Len(s) - 1] = "." /\ s[Len(s)] = "lock"
<1> DEFINE w == <<".", "lock">>
           v == Reverse(w)
           r == Reverse(s)
           n == Len(s)
           T == S \cup {".", "lock"}
<1>1. n \in Nat /\ \A i \in 1..n : s[i] \in T
  BY LenProperties, ElementOfSeq
<1>2. v \in Seq(T) /\ Len(v) = 2 /\ v[1] = "lock" /\ v[2] = "."
  <2>1. Len(w) = 2 /\ w[1] = "." /\ w[2] = "lock"
    OBVIOUS
  <2> HIDE DEF w
  <2>2. v = [i \in 1..2 |-> w[(2 - i) + 1]]
    BY <2>1 DEF Reverse
  <2>3. v[1] = "lock" /\ v[2] = "."
    BY <2>1, <2>2
  <2>4. v \in [1..2 -> T]
    <3>1. \A i \in 1..2 : i = 1 \/ i = 2
      OBVIOUS
    <3>2. "." \in T /\ "lock" \in T
      OBVIOUS
    <3> HIDE DEF T
    <3> QED
      BY <2>1, <2>2, <3>1, <3>2
  <2> HIDE DEF T, v
  <2> QED
    BY <2>3, <2>4, SeqOfLength
<1>3. r \in Seq(T) /\ Len(r) = n /\ \A i \in 1..n : r[i] = s[(n - i) + 1]
  <2>1. r = [i \in 1..n |-> s[(n - i) + 1]]
    BY DEF Reverse
  <2>2. \A i \in 1..n : (n - i) + 1 \in 1..n
    BY <1>1
  <2> HIDE DEF r, n, T
  <2>3. r \in [1..n -> T]
    BY <1>1, <2>1, <2>2
  <2> QED
    BY <1>1, <2>1, <2>3, SeqOfLength
<1> HIDE DEF v, r, n
<1>4. IsSuffix(w, s) <=> 2 <= n /\ SubSeq(v, 1, 2) = SubSeq(r, 1, 2)
  BY <1>2, <1>3 DEF IsSuffix, IsPrefix, v, r
<1>5. ASSUME NEW q \in Seq(T), Len(q) \in Nat, Len(q) >= 2
      PROVE  /\ SubSeq(q, 1, 2) \in Seq(T) /\ Len(SubSeq(q, 1, 2)) = 2
             /\ SubSeq(q, 1, 2)[1] = q[1] /\ SubSeq(q, 1, 2)[2] = q[2]
  <2> HIDE DEF T
  <2>1. \A i \in 1..2 : q[i] \in T
    BY <1>5, ElementOfSeq
  <2>2. /\ SubSeq(q, 1, 2) \in Seq(T)
        /\ Len(SubSeq(q, 1, 2)) = IF 1 <= 2 THEN 2 - 1 + 1 ELSE 0
        /\ \A i \in 1..(2 - 1 + 1) : SubSeq(q, 1, 2)[i] = q[1 + i - 1]
    BY <2>1, SubSeqProperties
  <2> QED
    BY <2>2
<1> HIDE DEF T
<1>6. ASSUME 2 <= n
      PROVE  SubSeq(v, 1, 2) = SubSeq(r, 1, 2) <=> s[n-1] = "." /\ s[n] = "lock"
  <2> DEFINE a == SubSeq(v, 1, 2)
             b == SubSeq(r, 1, 2)
  <2>1. /\ a \in Seq(T) /\ Len(a) = 2
        /\ a[1] = "lock" /\ a[2] = "."
    <3>1. Len(v) \in Nat /\ Len(v) >= 2
      BY <1>2
    <3> QED
      BY <1>2, <1>5, <3>1
  <2>2. /\ b \in Seq(T) /\ Len(b) = 2
        /\ b[1] = r[1] /\ b[2] = r[2]
    BY <1>1, <1>3, <1>5, <1>6
  <2>3. r[1] = s[n] /\ r[2] = s[n-1]
    <3>1. 1 \in 1..n /\ 2 \in 1..n /\ (n - 1) + 1 = n /\ (n - 2) + 1 = n - 1
      BY <1>1, <1>6
    <3> QED
      BY <1>3, <3>1
  <2> HIDE DEF a, b
  <2>4. ASSUME s[n-1] = ".", s[n] = "lock"
        PROVE  a = b
    <3>1. \A i \in 1..Len(a) : a[i] = b[i]
      BY <2>1, <2>2, <2>3, <2>4
    <3> QED
      BY <2>1, <2>2, <3>1, SeqEqual
  <2> QED
    BY <2>1, <2>2, <2>3, <2>4 DEF a, b
<1> QED
  BY <1>1, <1>4, <1>6 DEF n, w

\* What is replaced in a text is what is not safe in it.
LEMMA Replaced ==
  ASSUME NEW T, NEW s \in Seq(T)
  PROVE  ReplaceUnsafe(s) \in Seq(Safe)
<1>1. Len(s) \in Nat /\ DOMAIN s = 1..Len(s)
  BY LenProperties
<1>2. "-" \in Safe
  BY DEF Safe
<1>3. ReplaceUnsafe(s) \in [1..Len(s) -> Safe]
  BY <1>1, <1>2 DEF ReplaceUnsafe
<1> QED
  BY <1>1, <1>3, SeqDef

\* What sanitize_user_for_branch returns.
LEMMA SanitizeIs ==
  ASSUME NEW T, NEW raw \in Seq(T)
  PROVE  LET user == Sanitize(raw)
         IN  /\ user \in Seq(Safe) /\ user # <<>>
             /\ Clean(user) /\ ~Pair(user, "-", "-")
             /\ Head(user) \notin {"-", ".", "/"}
             /\ Last(user) \notin {"-", ".", "/"}
<1> DEFINE D == Collapse(ReplaceUnsafe(raw), ".")
           H == Thin(D, "/", ".")
           C == Collapse(H, "/")
           L == DropLock(C)
           Y == Collapse(L, "-")
           U == Strip(Y)
<1>1. D \in Seq(Safe) /\ ~Pair(D, ".", ".")
  BY Replaced, ThinIs, ThinPairs DEF Collapse
<1> HIDE DEF D
<1>2. H \in Seq(Safe) /\ ~Pair(H, ".", ".") /\ ~Pair(H, "/", ".")
  BY <1>1, ThinIs, ThinPairs
<1> HIDE DEF H
<1>3. C \in Seq(Safe) /\ Clean(C)
  BY <1>2, ThinIs, ThinPairs DEF Collapse, Clean
<1> HIDE DEF C
<1>4. L \in Seq(Safe) /\ Clean(L)
  <2>1. Len(C) \in Nat
    BY <1>3, LenProperties
  <2>2. Len(C) - 2 \in Int /\ Len(C) - 2 <= Len(C)
    BY <2>1
  <2>3. /\ SubSeq(C, 1, Len(C) - 2) \in Seq(Safe)
        /\ \A a, b : Pair(SubSeq(C, 1, Len(C) - 2), a, b) => Pair(C, a, b)
    BY <1>3, <2>2, PartPairs
  <2>4. Clean(SubSeq(C, 1, Len(C) - 2))
    BY <1>3, <2>3 DEF Clean
  <2> QED
    BY <1>3, <2>3, <2>4 DEF DropLock
<1> HIDE DEF L
<1>5. Y \in Seq(Safe) /\ Clean(Y) /\ ~Pair(Y, "-", "-")
  BY <1>4, ThinIs, ThinPairs DEF Collapse, Clean
<1> HIDE DEF Y
<1>6. /\ U \in Seq(Safe) /\ Clean(U) /\ ~Pair(U, "-", "-")
      /\ U # <<>> => /\ Head(U) \notin {"-", ".", "/"}
                     /\ Last(U) \notin {"-", ".", "/"}
  BY <1>5, StripIs DEF Clean
<1> HIDE DEF U
<1>7. Sanitize(raw) = Named(U)
  BY DEF Sanitize, U, Y, L, C, H, D
<1>8. /\ <<"a">> \in Seq(Safe) /\ <<"a">> # <<>>
      /\ \A a, b : ~Pair(<<"a">>, a, b)
      /\ Head(<<"a">>) = "a" /\ Last(<<"a">>) = "a"
  BY DEF Safe, Pair, Last
<1>9. Clean(<<"a">>) /\ ~Pair(<<"a">>, "-", "-")
  BY <1>8 DEF Clean
<1> QED
  BY <1>6, <1>7, <1>8, <1>9 DEF Named

\* What is left of a trailing ".lock" is left in the cases that LockLeft names.
LEMMA LockIsDropped ==
  ASSUME NEW raw \in Seq({"a", "lock", ".", "/", "-", "@"}), ~LockLeft(raw)
  PROVE  ~IsSuffix(<<".", "lock">>, Sanitize(raw))
<1> DEFINE W == Safe \ {"lock"}
           R == ReplaceUnsafe(raw)
           D == Collapse(R, ".")
           H == Thin(D, "/", ".")
           C == Collapse(H, "/")
           L == DropLock(C)
           Y == Collapse(L, "-")
           U == Strip(Y)
           last == Last(raw)
<1>1. SUFFICES ASSUME IsSuffix(<<".", "lock">>, Sanitize(raw))
               PROVE  FALSE
  OBVIOUS
<1>2. Sanitize(raw) = Named(U)
  BY DEF Sanitize
<1>3. R \in Seq(Safe)
  BY Replaced
<1>4. /\ raw # <<>> => R # <<>> /\ (last \in {"a", "lock"} => Last(R) = last)
      /\ raw = <<>> => R = <<>>
      /\ Once(R)
  <2>1. Len(raw) \in Nat /\ DOMAIN raw = 1..Len(raw)
    BY LenProperties
  <2>2. R = [i \in 1..Len(raw) |-> IF raw[i] \in Safe THEN raw[i] ELSE "-"]
    BY <2>1 DEF ReplaceUnsafe
  <2>3. DOMAIN R = 1..Len(raw)
    BY <2>2
  <2> HIDE DEF R
  <2>4. Len(R) = Len(raw)
    BY <1>3, <2>1, <2>3, LenProperties
  <2>5. raw # <<>> => R # <<>> /\ Len(raw) \in 1..Len(raw)
    BY <1>3, <2>1, <2>4, EmptySeq
  <2>6. raw = <<>> => R = <<>>
    BY <1>3, <2>4, EmptySeq
  <2>7. "a" \in Safe /\ "lock" \in Safe
    BY DEF Safe
  <2>8. raw # <<>> /\ last \in {"a", "lock"} => Last(R) = last
    BY <2>2, <2>4, <2>5, <2>7 DEF Last
  <2>9. \A i \in 1..Len(raw) : R[i] = "lock" => raw[i] = "lock"
    BY <2>2
  <2>10. \A i, j \in 1..Len(raw) : raw[i] = "lock" /\ raw[j] = "lock" => i = j
    <3>1. SUFFICES ASSUME NEW i \in 1..Len(raw), NEW j \in 1..Len(raw),
                          raw[i] = "lock", raw[j] = "lock", i # j
                   PROVE  LockLeft(raw)
      OBVIOUS
    <3>2. i < j \/ j < i
      BY <2>1, <3>1
    <3> QED
      BY <2>1, <3>1, <3>2 DEF LockLeft
  <2>11. Once(R)
    BY <2>4, <2>9, <2>10 DEF Once
  <2> QED
    BY <2>5, <2>6, <2>8, <2>11
<1> HIDE DEF R
<1>5. raw # <<>> => last \in {"a", "lock"}
  <2>1. raw # <<>> => raw[Len(raw)] \in {"a", "lock", ".", "/", "-", "@"}
    BY LenProperties, EmptySeq, ElementOfSeq
  <2> QED
    BY <2>1 DEF LockLeft, Last
<1> HIDE DEF last
\* The rewrites before the suffix is looked for keep the last piece.
<1>6. ASSUME NEW s \in Seq(Safe), Once(s), NEW x, NEW y \in {".", "/"}
      PROVE  /\ Thin(s, x, y) \in Seq(Safe) /\ Once(Thin(s, x, y))
             /\ s # <<>> /\ Last(s) \in {"a", "lock"} =>
                  Thin(s, x, y) # <<>> /\ Last(Thin(s, x, y)) = Last(s)
             /\ \A V : s \in Seq(V) => Thin(s, x, y) \in Seq(V)
  <2>1. Last(s) \in {"a", "lock"} => Last(s) # y
    BY <1>6
  <2> QED
    BY <1>6, <2>1, ThinIs, ThinOnce, ThinLast
<1>7. /\ D \in Seq(Safe) /\ Once(D)
      /\ raw # <<>> => D # <<>> /\ Last(D) = last
      /\ R \in Seq(W) => D \in Seq(W)
  BY <1>3, <1>4, <1>5, <1>6 DEF Collapse
<1> HIDE DEF D
<1>8. /\ H \in Seq(Safe) /\ Once(H)
      /\ raw # <<>> => H # <<>> /\ Last(H) = last
      /\ R \in Seq(W) => H \in Seq(W)
  BY <1>5, <1>6, <1>7
<1> HIDE DEF H
<1>9. /\ C \in Seq(Safe) /\ Once(C)
      /\ raw # <<>> => C # <<>> /\ Last(C) = last
      /\ R \in Seq(W) => C \in Seq(W)
  BY <1>5, <1>6, <1>8 DEF Collapse
<1> HIDE DEF C
<1>10. Len(C) \in Nat
  BY <1>9, LenProperties
<1>11. L \in Seq(Safe) /\ (C \in Seq(W) => L \in Seq(W))
  <2>1. Len(C) - 2 \in Int /\ Len(C) - 2 <= Len(C)
    BY <1>10
  <2> QED
    BY <1>9, <2>1, PartPairs DEF DropLock
<1>12. Y \in Seq(Safe) /\ (L \in Seq(W) => Y \in Seq(W))
  <2> HIDE DEF L
  <2> QED
    BY <1>11, ThinIs DEF Collapse
<1>13. U \in Seq(Safe) /\ (L \in Seq(W) => U \in Seq(W))
  <2> HIDE DEF Y, L
  <2> QED
    BY <1>12, StripIs
\* The name ends in ".lock".
<1>14. Len(U) \in Nat /\ Len(U) > 1 /\ U[Len(U) - 1] = "." /\ U[Len(U)] = "lock"
  <2> HIDE DEF U
  <2>1. U # <<>>
    <3>1. <<"a">> \in Seq({"a"}) /\ ~(Len(<<"a">>) > 1)
      OBVIOUS
    <3>2. ~IsSuffix(<<".", "lock">>, <<"a">>)
      BY <3>1, SuffixIs
    <3> QED
      BY <1>1, <1>2, <3>2 DEF Named
  <2>2. IsSuffix(<<".", "lock">>, U)
    BY <1>1, <1>2, <2>1 DEF Named
  <2> QED
    BY <1>13, <2>2, SuffixIs, LenProperties
<1>15. L \notin Seq(W) /\ C \notin Seq(W) /\ raw # <<>>
  <2> HIDE DEF U, L
  <2>1. U \in Seq(W) => U[Len(U)] \in W
    <3>1. Len(U) \in 1..Len(U)
      BY <1>14
    <3> QED
      BY <3>1, ElementOfSeq
  <2>2. U \notin Seq(W)
    BY <1>14, <2>1
  <2>3. <<>> \in Seq(W)
    OBVIOUS
  <2> HIDE DEF W
  <2> QED
    BY <1>4, <1>9, <1>11, <1>13, <2>2, <2>3
<1>16. IsSuffix(<<".", "lock">>, C) <=>
         Len(C) > 1 /\ C[Len(C) - 1] = "." /\ C[Len(C)] = "lock"
  BY <1>9, SuffixIs
<1>17. CASE last = "a"
  <2>1. C[Len(C)] = "a" /\ C # <<>>
    BY <1>9, <1>15, <1>17 DEF Last
  <2>2. L = C
    BY <1>16, <2>1 DEF DropLock
  <2>3. Y # <<>> /\ Last(Y) = "a"
    <3>1. C # <<>> /\ Last(C) = "a" /\ Last(C) # "-"
      BY <2>1 DEF Last
    <3> HIDE DEF L
    <3> QED
      BY <1>9, <2>2, <3>1, ThinLast DEF Collapse
  <2>4. Last(U) = "a"
    <3> HIDE DEF Y
    <3> QED
      BY <1>12, <2>3, StripIs
  <2> QED
    BY <1>14, <2>4 DEF Last
<1>18. CASE last = "lock"
  <2>1. C[Len(C)] = "lock" /\ Len(C) \in 1..Len(C)
    BY <1>9, <1>10, <1>15, <1>18, EmptySeq DEF Last
  <2>2. CASE IsSuffix(<<".", "lock">>, C)
    <3>1. L = SubSeq(C, 1, Len(C) - 2)
      BY <2>2 DEF DropLock
    <3>2. \A k \in 1..(Len(C) - 2) : k \in 1..Len(C) /\ k # Len(C)
      BY <1>10
    <3>3. \A k \in 1..(Len(C) - 2) : C[k] \in Safe /\ C[k] # "lock"
      BY <1>9, <2>1, <3>2, ElementOfSeq DEF Once
    <3>4. \A k \in 1..(Len(C) - 2) : C[k] \in W
      BY <3>3
    <3>5. Len(C) - 2 \in Int
      BY <1>10
    <3> HIDE DEF W
    <3>6. SubSeq(C, 1, Len(C) - 2) \in Seq(W)
      BY <3>4, <3>5, SubSeqProperties
    <3> QED
      BY <1>15, <3>1, <3>6
  <2>3. CASE ~IsSuffix(<<".", "lock">>, C)
    <3>1. L = C
      BY <2>3 DEF DropLock
    <3>2. Pair(U, ".", "lock")
      <4> HIDE DEF U
      <4>1. Len(U) - 1 \in 1..(Len(U) - 1) /\ (Len(U) - 1) + 1 = Len(U)
        BY <1>14
      <4> QED
        BY <1>14, <4>1 DEF Pair
    <3>3. Pair(Y, ".", "lock")
      <4> HIDE DEF Y
      <4> QED
        BY <1>12, <3>2, StripIs
    <3>4. Pair(C, ".", "lock")
      <4> HIDE DEF L
      <4>1. Pair(Thin(C, "-", "-"), ".", "lock")
        BY <3>1, <3>3 DEF Collapse
      <4> QED
        BY <1>9, <4>1, ThinPairs
    <3>5. PICK i \in 1..(Len(C) - 1) : C[i] = "." /\ C[i+1] = "lock"
      BY <3>4 DEF Pair
    <3>6. i + 1 \in 1..Len(C)
      BY <1>10, <3>5
    <3>7. i + 1 = Len(C)
      BY <1>9, <2>1, <3>5, <3>6 DEF Once
    <3>8. Len(C) > 1 /\ Len(C) - 1 = i
      BY <1>10, <3>5, <3>7
    <3> QED
      BY <1>16, <2>1, <2>3, <3>5, <3>8
  <2> QED
    BY <2>2, <2>3
<1> QED
  BY <1>5, <1>15, <1>17, <1>18

-----------------------------------------------------------------------------
\* Claims are texts of six letters.
LEMMA ClaimIsSeq == Claim \subseteq Seq({"a", "lock", ".", "/", "-", "@"})
<1> SUFFICES ASSUME NEW s \in Claim
             PROVE  s \in Seq({"a", "lock", ".", "/", "-", "@"})
  OBVIOUS
<1>1. PICK m \in 0..MaxClaim : s \in [1..m -> {"a", "lock", ".", "/", "-", "@"}]
  BY DEF Claim, BoundedSeq, SeqOf
<1>2. m \in Nat
  BY <1>1
<1> QED
  BY <1>1, <1>2, SeqDef

\* f[i] is what the first i parts expand to.
ExpandsTo(f, p, user, hex) ==
  /\ f[0] = <<>>
  /\ \A i \in 1..Len(p) : f[i] = f[i-1] \o Value(p[i], user, hex)
  /\ Expansion(p, user, hex) = f[Len(p)]

\* expand_branch_pattern, part by part.  T is what texts are made of.
Wide(T) == Safe \subseteq T

LEMMA ExpansionIs ==
  ASSUME NEW T, Wide(T), NEW p \in Seq(T \cup Placeholder),
         NEW user \in Seq(T), NEW hex \in {"digits", "hex"}
  PROVE  /\ \A i \in 1..Len(p) : Value(p[i], user, hex) \in Seq(T)
         /\ \E f \in [0..Len(p) -> Seq(T)] : ExpandsTo(f, p, user, hex)
<1> DEFINE n == Len(p)
           V == Seq(T)
           Part(i) == Value(p[i], user, hex)
           upto[i \in 0..n] == IF i = 0 THEN <<>> ELSE upto[i-1] \o Part(i)
           step == [i \in 1..n |-> [v \in V |-> v \o Part(i)]]
<1>1. n \in Nat /\ \A i \in 1..n : p[i] \in T \cup Placeholder
  BY LenProperties, ElementOfSeq
<1>2. Expansion(p, user, hex) = upto[n]
  BY DEF Expansion
<1>3. \A i \in 1..n : Part(i) \in V
  <2> SUFFICES ASSUME NEW i \in 1..n
               PROVE  Part(i) \in V
    OBVIOUS
  <2>1. <<"digits">> \in Seq(T) /\ <<hex>> \in Seq(T)
    BY DEF Safe, Wide
  <2>2. p[i] \notin Placeholder => <<p[i]>> \in Seq(T)
    BY <1>1
  <2> QED
    BY <1>1, <2>1, <2>2 DEF Value, Placeholder
<1>4. <<>> \in V
  OBVIOUS
<1> HIDE DEF n, Part
<1>5. \A i \in 1..n, v \in V : v \o Part(i) \in V
  BY <1>3
<1> HIDE DEF V
<1>6. step \in [1..n -> [V -> V]]
  BY <1>5
<1>7. \A i \in 1..n, v \in V : step[i][v] = v \o Part(i)
  OBVIOUS
<1> HIDE DEF step, upto
<1>8. PICK g \in [0..n -> V] : Climbs(g, n, <<>>, step)
  <2>1. n \in Nat
    BY <1>1
  <2> QED
    BY <1>4, <1>6, <2>1, Recursion
<1>9. g = [i \in 0..n |-> IF i = 0 THEN <<>> ELSE g[i-1] \o Part(i)]
  <2>1. ASSUME NEW i \in 0..n, i # 0
        PROVE  g[i] = g[i-1] \o Part(i)
    <3>1. i \in 1..n /\ i - 1 \in 0..n
      BY <1>1, <2>1
    <3>2. g[i-1] \in V
      BY <3>1
    <3> QED
      BY <1>7, <1>8, <3>1, <3>2 DEF Climbs
  <2>2. \A i \in 0..n : g[i] = IF i = 0 THEN <<>> ELSE g[i-1] \o Part(i)
    BY <1>8, <2>1 DEF Climbs
  <2> QED
    BY <2>2
<1>10. upto = [i \in 0..n |-> IF i = 0 THEN <<>> ELSE upto[i-1] \o Part(i)]
  BY <1>9 DEF upto
<1>11. upto[0] = <<>>
  BY <1>1, <1>10
<1>12. \A i \in 1..n : upto[i] = upto[i-1] \o Part(i)
  <2>1. \A i \in 1..n : i \in 0..n /\ i # 0
    BY <1>1
  <2>2. \A i \in 0..n : upto[i] = IF i = 0 THEN <<>> ELSE upto[i-1] \o Part(i)
    BY <1>10, Zenon
  <2> QED
    BY <2>1, <2>2
<1>13. upto \in [0..n -> V]
  <2> DEFINE W == {i \in 0..n : upto[i] \in V}
  <2>1. 0 \in W
    BY <1>1, <1>4, <1>11
  <2>2. \A i \in 1..n : i - 1 \in W => i \in W
    <3>1. \A i \in 1..n : i \in 0..n
      BY <1>1
    <3>2. ASSUME NEW i \in 1..n, upto[i-1] \in V
          PROVE  upto[i] \in V
      BY <1>5, <1>12, <3>2
    <3> QED
      BY <3>1, <3>2
  <2>3. W \in SUBSET (0..n)
    OBVIOUS
  <2> HIDE DEF W
  <2>4. W = 0..n
    BY <1>1, <2>1, <2>2, <2>3, Upward
  <2>5. \A i \in 0..n : upto[i] \in V
    BY <2>4 DEF W
  <2> QED
    BY <1>10, <2>5
<1>14. ExpandsTo(upto, p, user, hex)
  BY <1>2, <1>11, <1>12 DEF ExpandsTo, n, Part
<1> QED
  BY <1>3, <1>13, <1>14 DEF n, V, Part

\* branch_name_conforms, part by part.
LEMMA LengthsAre ==
  ASSUME NEW P, NEW p \in Seq(P), NEW s \in Seq(Safe), s # <<>>
  PROVE  \E f \in [0..Len(p) -> SUBSET (0..Len(s))] :
           /\ f[0] = {0}
           /\ \A i \in 1..Len(p) : f[i] = Extended(s, f[i-1], p[i])
           /\ Conforms(s, p) <=> Len(s) \in f[Len(p)]
<1> DEFINE n == Len(p)
           V == SUBSET (0..Len(s))
           lengths[i \in 0..n] ==
             IF i = 0 THEN {0} ELSE Extended(s, lengths[i-1], p[i])
           step == [i \in 1..n |-> [v \in V |-> Extended(s, v, p[i])]]
<1>1. n \in Nat /\ Len(s) \in Nat
  BY LenProperties
<1>2. Conforms(s, p) <=> Len(s) \in lengths[n]
  BY DEF Conforms
<1>3. {0} \in V
  BY <1>1
<1> HIDE DEF n
<1>4. \A i \in 1..n, v \in V : Extended(s, v, p[i]) \in V
  BY <1>1 DEF Extended
<1> HIDE DEF V
<1>5. step \in [1..n -> [V -> V]]
  BY <1>4
<1>6. \A i \in 1..n, v \in V : step[i][v] = Extended(s, v, p[i])
  OBVIOUS
<1> HIDE DEF step, lengths
<1>7. PICK g \in [0..n -> V] : Climbs(g, n, {0}, step)
  <2>1. n \in Nat
    BY <1>1
  <2> QED
    BY <1>3, <1>5, <2>1, Recursion
<1>8. g = [i \in 0..n |-> IF i = 0 THEN {0} ELSE Extended(s, g[i-1], p[i])]
  <2>1. ASSUME NEW i \in 0..n, i # 0
        PROVE  g[i] = Extended(s, g[i-1], p[i])
    <3>1. i \in 1..n /\ i - 1 \in 0..n
      BY <1>1, <2>1
    <3>2. g[i-1] \in V
      BY <3>1
    <3> QED
      BY <1>6, <1>7, <3>1, <3>2 DEF Climbs
  <2>2. \A i \in 0..n : g[i] = IF i = 0 THEN {0} ELSE Extended(s, g[i-1], p[i])
    BY <1>7, <2>1 DEF Climbs
  <2> QED
    BY <2>2
<1>9. lengths = [i \in 0..n |-> IF i = 0 THEN {0}
                                ELSE Extended(s, lengths[i-1], p[i])]
  BY <1>8 DEF lengths
<1>10. lengths[0] = {0}
  BY <1>1, <1>9
<1>11. \A i \in 1..n : lengths[i] = Extended(s, lengths[i-1], p[i])
  <2>1. \A i \in 1..n : i \in 0..n /\ i # 0
    BY <1>1
  <2>2. \A i \in 0..n : lengths[i] = IF i = 0 THEN {0}
                                     ELSE Extended(s, lengths[i-1], p[i])
    BY <1>9, Zenon
  <2> QED
    BY <2>1, <2>2
<1>12. lengths \in [0..n -> V]
  <2> DEFINE T == {i \in 0..n : lengths[i] \in V}
  <2>1. 0 \in T
    <3>1. 0 \in 0..n
      BY <1>1
    <3>2. lengths[0] \in V
      BY <1>3, <1>10
    <3> QED
      BY <3>1, <3>2
  <2>2. \A i \in 1..n : i - 1 \in T => i \in T
    <3>1. \A i \in 1..n : i \in 0..n
      BY <1>1
    <3>2. ASSUME NEW i \in 1..n, lengths[i-1] \in V
          PROVE  lengths[i] \in V
      BY <1>4, <1>11, <3>2
    <3> QED
      BY <3>1, <3>2
  <2>3. T \in SUBSET (0..n)
    OBVIOUS
  <2> HIDE DEF T
  <2>4. T = 0..n
    BY <1>1, <2>1, <2>2, <2>3, Upward
  <2>5. \A i \in 0..n : lengths[i] \in V
    BY <2>4 DEF T
  <2> QED
    BY <1>9, <2>5
<1> QED
  BY <1>2, <1>10, <1>11, <1>12 DEF n, V

\* Nothing expands to nothing.
LEMMA ValueLen ==
  ASSUME NEW T, NEW user \in Seq(T), user # <<>>, NEW hex, NEW x
  PROVE  Len(Value(x, user, hex)) \in Nat \ {0}
<1> DEFINE v == Value(x, user, hex)
           d == Len(v)
           l == Len(user)
<1>1. l \in Nat \ {0}
  BY EmptySeq, LenProperties
<1>2. v \in {user, <<"digits">>, <<hex>>, <<x>>}
  BY DEF Value
<1>3. Len(<<"digits">>) = 1 /\ Len(<<hex>>) = 1 /\ Len(<<x>>) = 1
  OBVIOUS
<1>4. d = l \/ d = 1
  BY <1>2, <1>3
<1> HIDE DEF d, l
<1>5. d \in Nat \ {0}
  BY <1>1, <1>4
<1> QED
  BY <1>5 DEF d

\* The place for an identity takes one without a slash.
FitsPart(user, x) == ~(x = "{user}" /\ Occurs("/", user))
Fits(user, p)     == ~(Occurs("{user}", p) /\ Occurs("/", user))

\* A part of a pattern matches what it expands to.
LEMMA PartMatches ==
  ASSUME NEW x \in Safe \cup Placeholder, NEW user \in Seq(Safe), user # <<>>,
         FitsPart(user, x), NEW hex \in {"digits", "hex"}
  PROVE  Matches(Value(x, user, hex), x)
<1>1. ASSUME ~Occurs("/", user)
      PROVE  \A i \in DOMAIN user : user[i] \in Safe \ {"/"}
  BY <1>1, LenProperties, ElementOfSeq DEF Occurs
<1>2. CASE x = "{user}"
  <2>1. Value(x, user, hex) = user
    BY <1>2 DEF Value
  <2>2. Matches(user, x)
    BY <1>1, <1>2 DEF Matches, FitsPart
  <2> QED
    BY <2>1, <2>2
<1>3. CASE x # "{user}"
  <2>1. CASE x = "{date}"
    BY <2>1 DEF Matches, Value
  <2>2. CASE x = "{hex}"
    BY <2>2 DEF Matches, Value
  <2>3. CASE x \notin {"{date}", "{hex}"}
    BY <1>3, <2>3 DEF Matches, Value
  <2> QED
    BY <2>1, <2>2, <2>3
<1> QED
  BY <1>2, <1>3

\* The parts stand one after the other in s, the i-th up to place e[i].
LaidUpTo(e, s, p, user, hex) ==
  /\ e[0] = 0 /\ e[Len(p)] = Len(s)
  /\ \A i \in 1..Len(p) :
       /\ i - 1 \in 0..Len(p) /\ i \in 0..Len(p)
       /\ e[i] = e[i-1] + Len(Value(p[i], user, hex))
       /\ e[i-1] < e[i] /\ e[i] <= Len(s)
       /\ \A k \in 1..Len(Value(p[i], user, hex)) :
            s[e[i-1] + k] = Value(p[i], user, hex)[k]

\* In an expanded pattern they do.
LEMMA ExpansionParts ==
  ASSUME NEW T, Wide(T), NEW p \in Seq(T \cup Placeholder),
         NEW user \in Seq(T), user # <<>>, NEW hex \in {"digits", "hex"}
  PROVE  /\ Expansion(p, user, hex) \in Seq(T)
         /\ \A i \in 1..Len(p) : /\ Value(p[i], user, hex) \in Seq(T)
                                 /\ Len(Value(p[i], user, hex)) \in Nat \ {0}
         /\ \E e \in [0..Len(p) -> Nat] :
              LaidUpTo(e, Expansion(p, user, hex), p, user, hex)
<1> DEFINE n == Len(p)
           Part(i) == Value(p[i], user, hex)
<1>1. n \in Nat /\ \A i \in 1..n : p[i] \in T \cup Placeholder
  BY LenProperties, ElementOfSeq
<1>2. PICK f \in [0..n -> Seq(T)] :
        /\ f[0] = <<>>
        /\ \A i \in 1..n : Part(i) \in Seq(T) /\ f[i] = f[i-1] \o Part(i)
        /\ Expansion(p, user, hex) = f[n]
  <2>1. /\ \A i \in 1..n : Part(i) \in Seq(T)
        /\ \E f \in [0..n -> Seq(T)] : ExpandsTo(f, p, user, hex)
    BY ExpansionIs
  <2> QED
    BY <2>1 DEF ExpandsTo
<1> DEFINE s == f[n]
           g(i) == Len(f[i])
<1>3. s \in Seq(T)
  BY <1>1, <1>2
<1>5. \A i \in 1..n : Len(Part(i)) \in Nat \ {0}
  BY ValueLen
<1> HIDE DEF n, Part
<1>6. ASSUME NEW i \in 1..n
      PROVE  /\ i - 1 \in 0..n /\ i \in 0..n
             /\ g(i-1) \in Nat /\ g(i) = g(i-1) + Len(Part(i)) /\ g(i-1) < g(i)
             /\ \A k \in 1..g(i-1) : f[i][k] = f[i-1][k]
             /\ \A k \in 1..Len(Part(i)) : f[i][g(i-1) + k] = Part(i)[k]
  <2>1. i - 1 \in 0..n /\ i \in 0..n
    BY <1>1
  <2> DEFINE a == f[i-1]
             b == Part(i)
  <2>2. a \in Seq(T) /\ b \in Seq(T) /\ f[i] = a \o b
    BY <1>2, <2>1
  <2>3. Len(b) \in Nat \ {0}
    BY <1>5
  <2> HIDE DEF a, b
  <2>4. Len(a) \in Nat
    BY <2>2, LenProperties
  <2>5. /\ Len(a \o b) = Len(a) + Len(b)
        /\ \A k \in 1..(Len(a) + Len(b)) :
             (a \o b)[k] = IF k <= Len(a) THEN a[k] ELSE b[k - Len(a)]
    BY <2>2, ConcatProperties
  <2>6. \A k \in 1..Len(a) : f[i][k] = a[k]
    BY <2>2, <2>3, <2>4, <2>5
  <2>7. ASSUME NEW k \in 1..Len(b)
        PROVE  f[i][Len(a) + k] = b[k]
    <3>1. /\ Len(a) + k \in 1..(Len(a) + Len(b)) /\ ~(Len(a) + k <= Len(a))
          /\ (Len(a) + k) - Len(a) = k
      BY <2>3, <2>4
    <3> QED
      BY <2>2, <2>5, <3>1
  <2>8. Len(f[i]) = Len(a) + Len(b) /\ Len(a) < Len(a) + Len(b)
    BY <2>2, <2>3, <2>4, <2>5
  <2> QED
    BY <2>1, <2>4, <2>6, <2>7, <2>8 DEF a, b
<1>7. \A i \in 0..n : /\ g(i) <= g(n)
                      /\ \A k \in 1..g(i) : f[i][k] = s[k]
  <2> DEFINE W == {d \in 0..n : /\ g(n - d) <= g(n)
                                /\ \A k \in 1..g(n - d) : f[n - d][k] = s[k]}
  <2>1. 0 \in W
    <3>1. n - 0 = n /\ g(n) \in Nat
      BY <1>1, <1>3, LenProperties
    <3> QED
      BY <1>1, <3>1
  <2>2. ASSUME NEW d \in 1..n, d - 1 \in W
        PROVE  d \in W
    <3> DEFINE i == n - (d - 1)
    <3>1. i \in 1..n /\ i - 1 = n - d /\ d \in 0..n
      BY <1>1
    <3>2. g(i) <= g(n) /\ \A k \in 1..g(i) : f[i][k] = s[k]
      BY <2>2
    <3>3. g(n) \in Nat
      BY <1>3, LenProperties
    <3> HIDE DEF i
    <3>4. /\ g(i-1) \in Nat /\ g(i) = g(i-1) + Len(Part(i)) /\ g(i-1) < g(i)
          /\ \A k \in 1..g(i-1) : f[i][k] = f[i-1][k]
      BY <1>6, <3>1
    <3>5. Len(Part(i)) \in Nat
      BY <1>5, <3>1
    <3> HIDE DEF g, s
    <3>6. g(i-1) <= g(n) /\ \A k \in 1..g(i-1) : k \in 1..g(i)
      BY <3>2, <3>3, <3>4, <3>5
    <3>7. \A k \in 1..g(i-1) : f[i-1][k] = s[k]
      BY <3>2, <3>4, <3>6
    <3> QED
      BY <3>1, <3>6, <3>7
  <2>3. W \in SUBSET (0..n)
    OBVIOUS
  <2> HIDE DEF W
  <2>4. W = 0..n
    BY <1>1, <2>1, <2>2, <2>3, Upward
  <2>5. SUFFICES ASSUME NEW i \in 0..n
                 PROVE  g(i) <= g(n) /\ \A k \in 1..g(i) : f[i][k] = s[k]
    OBVIOUS
  <2>6. n - i \in W /\ n - (n - i) = i
    BY <1>1, <2>4
  <2> QED
    BY <2>6 DEF W
<1> DEFINE e == [i \in 0..n |-> g(i)]
<1>8. e \in [0..n -> Nat] /\ \A i \in 0..n : e[i] = g(i)
  <2>1. \A i \in 0..n : g(i) \in Nat
    BY <1>2, LenProperties
  <2> QED
    BY <2>1
<1>9. e[0] = 0 /\ e[n] = Len(s)
  <2>1. g(0) = 0 /\ 0 \in 0..n /\ n \in 0..n
    BY <1>1, <1>2
  <2> QED
    BY <1>8, <2>1
<1>10. ASSUME NEW i \in 1..n
       PROVE  /\ i - 1 \in 0..n /\ i \in 0..n
              /\ e[i] = e[i-1] + Len(Part(i))
              /\ e[i-1] < e[i] /\ e[i] <= Len(s)
              /\ \A k \in 1..Len(Part(i)) : s[e[i-1] + k] = Part(i)[k]
  <2>1. /\ i - 1 \in 0..n /\ i \in 0..n
        /\ g(i-1) \in Nat /\ g(i) = g(i-1) + Len(Part(i)) /\ g(i-1) < g(i)
        /\ \A k \in 1..Len(Part(i)) : f[i][g(i-1) + k] = Part(i)[k]
    BY <1>6
  <2>2. g(i) <= g(n) /\ \A k \in 1..g(i) : f[i][k] = s[k]
    BY <1>7, <2>1
  <2>3. e[i] = g(i) /\ e[i-1] = g(i-1) /\ g(n) = Len(s)
    BY <1>8, <2>1
  <2>4. Len(Part(i)) \in Nat
    BY <1>5
  <2> HIDE DEF g, s, e
  <2>5. \A k \in 1..Len(Part(i)) : g(i-1) + k \in 1..g(i)
    BY <2>1, <2>4
  <2> QED
    BY <2>1, <2>2, <2>3, <2>5
<1> HIDE DEF e, s, g
<1>11. s = Expansion(p, user, hex)
  BY <1>2 DEF s
<1>12. LaidUpTo(e, s, p, user, hex)
  BY <1>9, <1>10 DEF LaidUpTo, n, Part
<1> QED
  BY <1>2, <1>3, <1>5, <1>8, <1>11, <1>12 DEF n, Part

\* An expanded pattern conforms to the pattern.
LEMMA ExpansionConforms ==
  ASSUME NEW p \in Seq(Safe \cup Placeholder), p # <<>>,
         NEW user \in Seq(Safe), user # <<>>,
         Fits(user, p), NEW hex \in {"digits", "hex"}
  PROVE  Conforms(Expansion(p, user, hex), p)
<1> DEFINE n == Len(p)
           Part(i) == Value(p[i], user, hex)
           s == Expansion(p, user, hex)
<1>1. /\ n \in Nat \ {0} /\ DOMAIN p = 1..n
      /\ \A i \in 1..n : p[i] \in Safe \cup Placeholder
  BY LenProperties, ElementOfSeq, EmptySeq
<1>2. /\ s \in Seq(Safe)
      /\ \A i \in 1..n : Part(i) \in Seq(Safe) /\ Len(Part(i)) \in Nat \ {0}
      /\ \E e \in [0..n -> Nat] : LaidUpTo(e, s, p, user, hex)
  <2>1. Wide(Safe)
    BY DEF Wide
  <2> QED
    BY <2>1, ExpansionParts
<1>3. PICK e \in [0..n -> Nat] :
           /\ e[0] = 0 /\ e[n] = Len(s)
           /\ \A i \in 1..n :
                /\ i - 1 \in 0..n /\ i \in 0..n
                /\ e[i] = e[i-1] + Len(Part(i))
                /\ e[i-1] < e[i] /\ e[i] <= Len(s)
                /\ \A k \in 1..Len(Part(i)) : s[e[i-1] + k] = Part(i)[k]
  BY <1>2 DEF LaidUpTo
<1>4. \A i \in 1..n : Matches(Part(i), p[i])
  <2> SUFFICES ASSUME NEW i \in 1..n
               PROVE  Matches(Part(i), p[i])
    OBVIOUS
  <2>1. FitsPart(user, p[i])
    BY <1>1 DEF Occurs, Fits, FitsPart
  <2> QED
    BY <1>1, <2>1, PartMatches
<1> HIDE DEF n, Part, s
<1>5. s # <<>>
  <2>1. 1 \in 1..n
    BY <1>1
  <2>2. e[0] < e[1] /\ e[1] <= Len(s) /\ e[1] \in Nat
    BY <1>3, <2>1
  <2>3. Len(s) # 0
    BY <1>3, <2>2
  <2> QED
    BY <2>3, EmptySeq
<1>6. PICK l \in [0..n -> SUBSET (0..Len(s))] :
        /\ l[0] = {0}
        /\ \A i \in 1..n : l[i] = Extended(s, l[i-1], p[i])
        /\ Conforms(s, p) <=> Len(s) \in l[n]
  BY <1>2, <1>5, LengthsAre DEF n
<1>8. ASSUME NEW i \in 1..n, e[i-1] \in l[i-1]
      PROVE  e[i] \in l[i]
  <2> DEFINE a == e[i-1]
             z == e[i]
             b == Part(i)
             t == SubSeq(s, a + 1, z)
  <2>1. /\ a \in Nat /\ z \in Nat /\ z = a + Len(b) /\ a < z /\ z <= Len(s)
        /\ \A k \in 1..Len(b) : s[a + k] = b[k]
    BY <1>3
  <2>2. b \in Seq(Safe) /\ Len(b) \in Nat /\ Len(s) \in Nat
    BY <1>2, LenProperties
  <2>3. \A k \in 1..Len(s) : s[k] \in Safe
    BY <1>2, ElementOfSeq
  <2> HIDE DEF a, b, z
  <2>4. \A k \in (a + 1)..z : s[k] \in Safe
    BY <2>1, <2>2, <2>3
  <2>5. /\ t \in Seq(Safe)
        /\ Len(t) = IF a + 1 <= z THEN z - (a + 1) + 1 ELSE 0
        /\ \A k \in 1..(z - (a + 1) + 1) : t[k] = s[a + 1 + k - 1]
    BY <2>1, <2>4, SubSeqProperties
  <2> HIDE DEF t
  <2>6. z - (a + 1) + 1 = Len(b) /\ Len(t) = Len(b)
    BY <2>1, <2>2, <2>5
  <2>7. ASSUME NEW k \in 1..Len(t)
        PROVE  t[k] = b[k]
    <3>1. a + 1 + k - 1 = a + k /\ k \in 1..Len(b)
      BY <2>1, <2>2, <2>6
    <3> QED
      BY <2>1, <2>5, <2>6, <3>1
  <2>8. t = b
    BY <2>2, <2>5, <2>6, <2>7, SeqEqual
  <2>9. Matches(t, p[i])
    BY <1>4, <2>8 DEF b
  <2>10. z \in 1..Len(s)
    BY <2>1, <2>2
  <2>11. a \in l[i-1] /\ l[i] = Extended(s, l[i-1], p[i])
    BY <1>6, <1>8 DEF a
  <2>12. z \in l[i]
    BY <2>1, <2>9, <2>10, <2>11 DEF Extended, t
  <2> QED
    BY <2>12 DEF z
<1>9. e[n] \in l[n]
  <2> DEFINE T == {i \in 0..n : e[i] \in l[i]}
  <2>1. 0 \in T
    BY <1>1, <1>3, <1>6
  <2>2. \A i \in 1..n : i - 1 \in T => i \in T
    BY <1>3, <1>8
  <2>3. T \in SUBSET (0..n)
    OBVIOUS
  <2> HIDE DEF T
  <2>4. T = 0..n
    BY <1>1, <2>1, <2>2, <2>3, Upward
  <2>5. n \in T
    BY <1>1, <2>4
  <2> QED
    BY <2>5 DEF T
<1> QED
  BY <1>3, <1>6, <1>9 DEF s

\* The slashes in the first i places of q.
At(q, i) == {k \in 1..i : q[k] = "/"}

LEMMA SlashesCounted ==
  ASSUME NEW q, NEW i \in Nat
  PROVE  IsFiniteSet(At(q, i)) /\ Cardinality(At(q, i)) \in Nat
<1>1. IsFiniteSet(1..i)
  BY FS_Interval
<1>2. At(q, i) \in SUBSET (1..i)
  BY DEF At
<1> QED
  BY <1>1, <1>2, FS_Subset, FS_CardinalityType

\* There are no more of them past places without one,
LEMMA SlashesSame ==
  ASSUME NEW q, NEW i \in Nat, NEW j \in Nat, i <= j,
         \A k \in (i + 1)..j : q[k] # "/"
  PROVE  At(q, j) = At(q, i)
<1>1. \A k \in 1..j : k \in 1..i \/ k \in (i + 1)..j
  OBVIOUS
<1>2. \A k \in 1..i : k \in 1..j
  OBVIOUS
<1> QED
  BY <1>1, <1>2, Zenon DEF At

\* one more past a place with one,
LEMMA SlashesNext ==
  ASSUME NEW q, NEW i \in Nat, q[i+1] = "/"
  PROVE  Cardinality(At(q, i + 1)) = Cardinality(At(q, i)) + 1
<1>1. \A k : k \in 1..(i + 1) <=> k \in 1..i \/ k = i + 1
  OBVIOUS
<1>2. At(q, i + 1) = At(q, i) \cup {i + 1}
  BY <1>1, Zenon DEF At
<1>3. i + 1 \notin At(q, i)
  BY DEF At
<1> QED
  BY <1>2, <1>3, SlashesCounted, FS_AddElement

\* and never fewer further on.
LEMMA SlashesGrow ==
  ASSUME NEW q, NEW i \in Nat, NEW j \in Nat, i <= j
  PROVE  Cardinality(At(q, i)) <= Cardinality(At(q, j))
<1>1. At(q, i) \in SUBSET At(q, j)
  BY DEF At
<1> QED
  BY <1>1, SlashesCounted, FS_Subset

\* A name that conforms has as many slashes as the pattern: up to each length
\* that the parts so far match, as many as those parts have.
LEMMA SlashesKept ==
  ASSUME NEW P, NEW p \in Seq(P), NEW s \in Seq(Safe), Conforms(s, p)
  PROVE  Slashes(s) = Slashes(p)
<1> DEFINE n == Len(p)
           m == Len(s)
<1>1. n \in Nat /\ DOMAIN p = 1..n /\ m \in Nat /\ DOMAIN s = 1..m
  BY LenProperties
<1>2. PICK l \in [0..n -> SUBSET (0..m)] :
        /\ l[0] = {0}
        /\ \A i \in 1..n : l[i] = Extended(s, l[i-1], p[i])
        /\ m \in l[n]
  <2>1. s # <<>>
    BY DEF Conforms
  <2> QED
    BY <2>1, LengthsAre
<1>3. Slashes(s) = Cardinality(At(s, m)) /\ Slashes(p) = Cardinality(At(p, n))
  BY <1>1 DEF Slashes, At
<1> HIDE DEF n
<1> DEFINE T == {i \in 0..n : \A j \in l[i] :
                    Cardinality(At(s, j)) = Cardinality(At(p, i))}
<1>4. 0 \in T
  <2>1. 0 \in 0..n /\ \A j \in l[0] : j = 0
    BY <1>1, <1>2
  <2>2. At(s, 0) = At(p, 0)
    <3>1. \A k : k \notin 1..0
      OBVIOUS
    <3> QED
      BY <3>1, Zenon DEF At
  <2> QED
    BY <2>1, <2>2
<1>5. ASSUME NEW i \in 1..n, i - 1 \in T
      PROVE  i \in T
  <2>1. i \in 0..n /\ i - 1 \in 0..n /\ i - 1 \in Nat /\ i \in Nat /\ (i - 1) + 1 = i
    BY <1>1
  <2>2. SUFFICES ASSUME NEW j \in l[i]
                 PROVE  Cardinality(At(s, j)) = Cardinality(At(p, i))
    BY <2>1
  <2> DEFINE x == p[i]
  <2>3. /\ j \in 1..m
        /\ \E k \in l[i-1] : k < j /\ Matches(SubSeq(s, k+1, j), x)
    BY <1>2, <2>2 DEF Extended
  <2>4. PICK k \in l[i-1] : k < j /\ Matches(SubSeq(s, k+1, j), x)
    BY <2>3
  <2>5. k \in 0..m
    BY <1>2, <2>1
  <2>6. Cardinality(At(s, k)) = Cardinality(At(p, i - 1))
    BY <1>5, <2>4
  <2> DEFINE t == SubSeq(s, k + 1, j)
  <2>7. k \in Nat /\ j \in Nat /\ k < j
    BY <1>1, <2>3, <2>4, <2>5
  <2>8. /\ t \in Seq(Safe) /\ Len(t) = j - k
        /\ \A h \in 1..(j - k) : t[h] = s[k + h]
    <3>1. \A h \in (k + 1)..j : s[h] \in Safe
      BY <1>1, <2>3, <2>7, ElementOfSeq
    <3>2. /\ t \in Seq(Safe)
          /\ Len(t) = IF k + 1 <= j THEN j - (k + 1) + 1 ELSE 0
          /\ \A h \in 1..(j - (k + 1) + 1) : t[h] = s[k + 1 + h - 1]
      BY <2>7, <3>1, SubSeqProperties
    <3> HIDE DEF t
    <3>3. j - (k + 1) + 1 = j - k /\ \A h \in Int : k + 1 + h - 1 = k + h
      BY <2>7
    <3> QED
      BY <2>7, <3>2, <3>3
  <2>9. Matches(t, x)
    BY <2>4
  <2> HIDE DEF t
  <2>10. CASE x = "/"
    <3>1. t = <<"/">>
      BY <2>9, <2>10 DEF Matches
    <3>2. Len(t) = 1 /\ t[1] = "/"
      BY <3>1
    <3> DEFINE d == Len(t)
    <3>0. d = j - k /\ d = 1
      BY <2>8, <3>2
    <3> HIDE DEF d
    <3>3. j = k + 1 /\ 1 \in 1..(j - k)
      BY <2>7, <3>0
    <3>4. s[k + 1] = "/"
      BY <2>8, <3>2, <3>3
    <3>5. Cardinality(At(s, j)) = Cardinality(At(s, k)) + 1
      BY SlashesNext, <2>7, <3>3, <3>4
    <3>6. Cardinality(At(p, i)) = Cardinality(At(p, i - 1)) + 1
      BY SlashesNext, <2>1, <2>10
    <3> QED
      BY <2>6, <3>5, <3>6
  <2>11. CASE x # "/"
    <3>1. \A h \in DOMAIN t : t[h] # "/"
      <4>1. x = "{user}" => \A h \in DOMAIN t : t[h] \in Safe \ {"/"}
        BY <2>9 DEF Matches
      <4>2. x # "{user}" => t \in {<<"digits">>, <<"hex">>, <<x>>}
        BY <2>9 DEF Matches
      <4>3. ASSUME NEW y, y # "/", t = <<y>>
            PROVE  \A h \in DOMAIN t : t[h] # "/"
        BY <4>3
      <4>4. "digits" # "/" /\ "hex" # "/"
        OBVIOUS
      <4>5. CASE x = "{user}"
        BY <4>1, <4>5
      <4>6. CASE x # "{user}"
        BY <2>11, <4>2, <4>3, <4>4, <4>6
      <4> QED
        BY <4>5, <4>6
    <3>2. DOMAIN t = 1..(j - k)
      BY <2>8, LenProperties
    <3>3. \A h \in (k + 1)..j : s[h] # "/"
      <4> SUFFICES ASSUME NEW h \in (k + 1)..j
                   PROVE  s[h] # "/"
        OBVIOUS
      <4>1. h - k \in 1..(j - k) /\ k + (h - k) = h
        BY <2>7
      <4> QED
        BY <2>8, <3>1, <3>2, <4>1
    <3>4. At(s, j) = At(s, k)
      BY SlashesSame, <2>7, <3>3
    <3>5. \A h \in ((i - 1) + 1)..i : p[h] # "/"
      BY <2>1, <2>11
    <3>6. i - 1 <= i
      BY <2>1
    <3>7. At(p, i) = At(p, i - 1)
      BY SlashesSame, <2>1, <3>5, <3>6
    <3> QED
      BY <2>6, <3>4, <3>7
  <2> QED
    BY <2>10, <2>11
<1>6. T \in SUBSET (0..n)
  OBVIOUS
<1> HIDE DEF T
<1>7. T = 0..n
  BY <1>1, <1>4, <1>5, <1>6, Upward
<1>8. n \in T
  BY <1>1, <1>7
<1>9. Cardinality(At(s, m)) = Cardinality(At(p, n))
  BY <1>2, <1>8 DEF T
<1> QED
  BY <1>3, <1>9

\* An unsafe character in the text of a pattern is in what it expands to.
LEMMA UnsafeLeft ==
  ASSUME NEW T, Wide(T), NEW p \in Seq(T \cup Placeholder), Occurs("@", p),
         NEW user \in Seq(T), user # <<>>, NEW hex \in {"digits", "hex"}
  PROVE  Expansion(p, user, hex) \notin Seq(Safe)
<1> DEFINE n == Len(p)
           s == Expansion(p, user, hex)
           Part(i) == Value(p[i], user, hex)
<1>1. PICK i \in 1..n : p[i] = "@"
  BY LenProperties DEF Occurs
<1>2. /\ s \in Seq(T)
      /\ \E e \in [0..n -> Nat] : LaidUpTo(e, s, p, user, hex)
  BY ExpansionParts
<1>3. Part(i) = <<"@">>
  BY <1>1 DEF Value
<1>4. Len(Part(i)) = 1 /\ Part(i)[1] = "@"
  BY <1>3
<1> HIDE DEF n, s, Part
<1>5. PICK e \in [0..n -> Nat] : LaidUpTo(e, s, p, user, hex)
  BY <1>2
<1>6. /\ i - 1 \in 0..n /\ i \in 0..n /\ e[i] = e[i-1] + Len(Part(i)) /\ e[i] <= Len(s)
      /\ \A k \in 1..Len(Part(i)) : s[e[i-1] + k] = Part(i)[k]
  BY <1>5 DEF LaidUpTo, n, Part
<1>7. Len(s) \in Nat /\ e[i-1] \in Nat /\ e[i] \in Nat
  BY <1>2, <1>5, <1>6, LenProperties
<1>8. e[i] = e[i-1] + 1 /\ s[e[i-1] + 1] = "@"
  BY <1>4, <1>6
<1>9. e[i] \in 1..Len(s) /\ s[e[i]] = "@"
  BY <1>6, <1>7, <1>8
<1>10. "@" \notin Safe
  BY DEF Safe
<1>11. s \in Seq(Safe) => s[e[i]] \in Safe
  BY <1>9, ElementOfSeq
<1> QED
  BY <1>9, <1>10, <1>11 DEF s

\* An identity with a slash gives a name more slashes than its pattern has.
LEMMA SlashGained ==
  ASSUME NEW T, Wide(T), NEW p \in Seq(T \cup Placeholder),
         NEW user \in Seq(T), user # <<>>, NEW hex \in {"digits", "hex"}, ~Fits(user, p)
  PROVE  Slashes(Expansion(p, user, hex)) # Slashes(p)
<1> DEFINE n == Len(p)
           s == Expansion(p, user, hex)
           Part(i) == Value(p[i], user, hex)
<1>1. n \in Nat /\ DOMAIN p = 1..n
  BY LenProperties
<1>2. /\ s \in Seq(T)
      /\ \E e \in [0..n -> Nat] : LaidUpTo(e, s, p, user, hex)
  BY ExpansionParts
<1>3. PICK u \in 1..n : p[u] = "{user}"
  BY <1>1 DEF Fits, Occurs
<1>4. PICK h \in 1..Len(user) : user[h] = "/"
  BY LenProperties DEF Fits, Occurs
<1>5. /\ \A i \in 1..n : p[i] = "{user}" => Part(i) = user
      /\ \A i \in 1..n : p[i] = "/" => Part(i) = <<"/">>
  BY DEF Value, Placeholder
<1>6. Slashes(s) = Cardinality(At(s, Len(s))) /\ Slashes(p) = Cardinality(At(p, n))
  BY <1>1, <1>2, LenProperties DEF Slashes, At
<1> HIDE DEF n, s, Part
<1>7. PICK e \in [0..n -> Nat] : LaidUpTo(e, s, p, user, hex)
  BY <1>2
<1>8. e[0] = 0 /\ e[n] = Len(s)
  BY <1>7 DEF LaidUpTo, n
<1>9. \A i \in 1..n :
        /\ i - 1 \in 0..n /\ i \in 0..n /\ e[i] = e[i-1] + Len(Part(i)) /\ e[i-1] < e[i]
        /\ \A k \in 1..Len(Part(i)) : s[e[i-1] + k] = Part(i)[k]
  BY <1>7 DEF LaidUpTo, n, Part
<1> DEFINE c(i) == Cardinality(At(s, e[i]))
           d(i) == Cardinality(At(p, i))
<1>10. \A i \in 0..n : i \in Nat /\ e[i] \in Nat /\ c(i) \in Nat /\ d(i) \in Nat
  <2> SUFFICES ASSUME NEW i \in 0..n
               PROVE  i \in Nat /\ e[i] \in Nat /\ c(i) \in Nat /\ d(i) \in Nat
    OBVIOUS
  <2>1. i \in Nat /\ e[i] \in Nat
    BY <1>1
  <2> QED
    BY <2>1, SlashesCounted
\* Past one part the name gains what the pattern does, past the identity more.
<1>11. ASSUME NEW i \in 1..n, d(i-1) <= c(i-1)
       PROVE  /\ d(i) <= c(i)
              /\ p[i] = "{user}" \/ d(i-1) < c(i-1) => d(i) < c(i)
  <2>1. /\ i - 1 \in 0..n /\ i \in 0..n /\ e[i] = e[i-1] + Len(Part(i)) /\ e[i-1] < e[i]
        /\ \A k \in 1..Len(Part(i)) : s[e[i-1] + k] = Part(i)[k]
    BY <1>9
  <2> DEFINE a == e[i-1]
             z == e[i]
  <2>2. /\ a \in Nat /\ z \in Nat /\ c(i) \in Nat /\ c(i-1) \in Nat
        /\ d(i) \in Nat /\ d(i-1) \in Nat /\ i - 1 \in Nat /\ i \in Nat /\ (i - 1) + 1 = i
    BY <1>1, <1>10, <2>1
  <2>3. CASE p[i] = "/"
    <3>1. Part(i) = <<"/">>
      BY <1>5, <2>3
    <3>2. Len(Part(i)) = 1 /\ Part(i)[1] = "/"
      BY <3>1
    <3>3. z = a + 1 /\ s[a + 1] = "/"
      BY <2>1, <3>2
    <3> HIDE DEF a, z
    <3>4. Cardinality(At(s, z)) = Cardinality(At(s, a)) + 1
      BY <2>2, <3>3, SlashesNext
    <3>5. d(i) = d(i-1) + 1
      BY <2>2, <2>3, SlashesNext
    <3>6. c(i) = c(i-1) + 1
      BY <3>4 DEF a, z
    <3>7. p[i] # "{user}"
      BY <2>3
    <3>8. d(i-1) <= c(i-1)
      BY <1>11
    <3> HIDE DEF c, d
    <3>9. d(i) <= c(i) /\ (d(i-1) < c(i-1) => d(i) < c(i))
      BY <2>2, <3>5, <3>6, <3>8
    <3> QED
      BY <3>7, <3>9
  <2>4. CASE p[i] # "/"
    <3>1. \A k \in ((i - 1) + 1)..i : p[k] # "/"
      BY <2>2, <2>4
    <3>2. i - 1 <= i
      BY <2>2
    <3>3. d(i) = d(i-1)
      BY <2>2, <3>1, <3>2, SlashesSame
    <3>4. a <= z
      BY <2>1, <2>2
    <3>5. c(i-1) <= c(i)
      BY <2>2, <3>4, SlashesGrow
    <3>6. ASSUME p[i] = "{user}"
          PROVE  c(i-1) < c(i)
      <4>1. Part(i) = user
        BY <1>5, <3>6
      <4> DEFINE l == Len(user)
                 y == a + h - 1
      <4>2. l \in Nat /\ h \in 1..l
        BY LenProperties
      <4>3. z = a + l /\ s[a + h] = "/"
        BY <1>4, <2>1, <4>1
      <4> HIDE DEF l, a, z
      <4>4. y \in Nat /\ y + 1 \in Nat /\ a <= y /\ y + 1 <= z /\ y + 1 = a + h
        BY <2>2, <4>2, <4>3
      <4> HIDE DEF y
      <4>5. Cardinality(At(s, y + 1)) = Cardinality(At(s, y)) + 1
        BY <4>3, <4>4, SlashesNext
      <4>6. Cardinality(At(s, a)) <= Cardinality(At(s, y))
        BY <2>2, <4>4, SlashesGrow
      <4>7. Cardinality(At(s, y + 1)) <= Cardinality(At(s, z))
        BY <2>2, <4>4, SlashesGrow
      <4>8. Cardinality(At(s, y)) \in Nat /\ Cardinality(At(s, y + 1)) \in Nat
        BY <4>4, SlashesCounted
      <4>9. c(i-1) = Cardinality(At(s, a)) /\ c(i) = Cardinality(At(s, z))
        BY DEF a, z
      <4> HIDE DEF c, d
      <4> QED
        BY <2>2, <4>5, <4>6, <4>7, <4>8, <4>9
    <3>7. d(i-1) <= c(i-1)
      BY <1>11
    <3> HIDE DEF c, d
    <3>8. /\ d(i) <= c(i) /\ (d(i-1) < c(i-1) => d(i) < c(i))
          /\ c(i-1) < c(i) => d(i) < c(i)
      BY <2>2, <3>3, <3>5, <3>7
    <3> QED
      BY <3>6, <3>8
  <2> QED
    BY <2>3, <2>4
<1>12. d(n) < c(n)
  <2> DEFINE W == {i \in 0..n : d(i) <= c(i) /\ (u <= i => d(i) < c(i))}
  <2>1. 0 \in W
    <3>1. At(p, 0) = {} /\ At(s, 0) = {}
      BY DEF At
    <3>2. d(0) = 0 /\ c(0) = 0
      BY <1>8, <3>1, FS_EmptySet
    <3>3. ~(u <= 0)
      BY <1>1
    <3> HIDE DEF c, d
    <3> QED
      BY <1>1, <3>2, <3>3
  <2> HIDE DEF c, d
  <2>2. ASSUME NEW i \in 1..n, i - 1 \in W
        PROVE  i \in W
    <3>1. /\ d(i) <= c(i)
          /\ p[i] = "{user}" \/ d(i-1) < c(i-1) => d(i) < c(i)
      BY <1>11, <2>2
    <3>2. u <= i => u = i \/ u <= i - 1
      BY <1>1
    <3>3. u <= i => d(i) < c(i)
      BY <1>3, <2>2, <3>1, <3>2
    <3> QED
      BY <1>9, <3>1, <3>3
  <2>3. W \in SUBSET (0..n)
    OBVIOUS
  <2> HIDE DEF W
  <2>4. W = 0..n
    BY <1>1, <2>1, <2>2, <2>3, Upward
  <2>5. n \in W /\ u <= n
    BY <1>1, <2>4
  <2> QED
    BY <2>5 DEF W
<1>13. Slashes(s) = c(n) /\ Slashes(p) = d(n) /\ c(n) \in Nat /\ d(n) \in Nat
  BY <1>1, <1>6, <1>8, <1>10
<1> HIDE DEF c, d
<1> QED
  BY <1>12, <1>13 DEF s

-----------------------------------------------------------------------------
\* What the names come from.
NameInv ==
  /\ pattern \in Pattern /\ claim \in Claim
  /\ origin = "expansion" =>
       \E hex \in {"digits", "hex"} :
         name = Expansion(pattern, Sanitize(claim), hex)

\* Every step keeps NameInv.
LEMMA NameInvariance == Spec => []NameInv
<1>1. Init => NameInv
  BY DEF Init, NameInv
<1>2. NameInv /\ [Next]_vars => NameInv'
  <2> SUFFICES ASSUME NameInv, [Next]_vars
               PROVE  NameInv'
    OBVIOUS
  <2>1. CASE Provision
    BY <2>1 DEF NameInv, Provision
  <2>2. CASE Ask
    BY <2>2 DEF NameInv, Ask
  <2>3. CASE UNCHANGED vars
    BY <2>3 DEF NameInv, vars
  <2> QED
    BY <2>1, <2>2, <2>3 DEF Next
<1> QED
  BY <1>1, <1>2, PTL DEF Spec

\* What sanitize_user_for_branch returns is safe in a reference, whatever the
\* identity: no rewrite brings back the doubled characters, the leading dots or the
\* separators at the ends that an earlier one removed.  A trailing ".lock" is left
\* at its end only if the identity ended in a separator or in a character that is
\* replaced by one, or had the word twice.
THEOREM ReferencesAreSafe == Spec => []RefSafe
<1>1. NameInv => RefSafe
  <2> SUFFICES ASSUME NameInv
               PROVE  RefSafe
    OBVIOUS
  <2> DEFINE user == Sanitize(claim)
  <2>1. /\ user \in Seq(Safe) /\ user # <<>>
        /\ Clean(user) /\ ~Pair(user, "-", "-")
        /\ Head(user) \notin {"-", ".", "/"}
        /\ Last(user) \notin {"-", ".", "/"}
    BY ClaimIsSeq, SanitizeIs DEF NameInv
  <2>2. IsSuffix(<<".", "lock">>, user) => LockLeft(claim)
    BY ClaimIsSeq, LockIsDropped DEF NameInv
  <2> HIDE DEF user
  <2>3. {Head(user), Last(user)} \cap {".", "/", "-"} = {}
    BY <2>1
  <2> QED
    BY <2>1, <2>2, <2>3 DEF RefSafe, Clean, Pair, user
<1> QED
  BY <1>1, NameInvariance, PTL

\* When a name that expand_branch_pattern drew passes branch_name_conforms, for
\* every pattern, identity and digits drawn: unless the pattern is empty or has an
\* unsafe character in its text, or it takes the identity, which has a slash.  Then
\* the session cannot switch back to a branch the server named.
THEOREM DrawnNamesConform == Spec => []DrawnConforms
<1>1. NameInv => DrawnConforms
  <2> DEFINE user == Sanitize(claim)
             T == Safe \cup {"@"}
  <2>1. SUFFICES ASSUME NameInv, NEW hex \in {"digits", "hex"},
                        name = Expansion(pattern, user, hex)
                 PROVE  Conforms(name, pattern) <=>
                          pattern # <<>> /\ ~Occurs("@", pattern) /\ Fits(user, pattern)
    BY DEF NameInv, DrawnConforms, Fits
  <2>2. pattern \in Seq(T \cup Placeholder)
    BY <2>1, PatternAssumption DEF NameInv
  <2>3. user \in Seq(Safe) /\ user # <<>>
    BY <2>1, ClaimIsSeq, SanitizeIs DEF NameInv
  <2>4. Wide(T) /\ user \in Seq(T)
    BY <2>3 DEF Wide
  <2> HIDE DEF T, user
  <2>5. ASSUME pattern # <<>>, ~Occurs("@", pattern), Fits(user, pattern)
        PROVE  Conforms(name, pattern)
    <3>1. \A i \in 1..Len(pattern) : pattern[i] \in Safe \cup Placeholder
      BY <2>2, <2>5, LenProperties, ElementOfSeq DEF Occurs, T
    <3>2. Len(pattern) \in Nat /\ pattern \in [1..Len(pattern) -> T \cup Placeholder]
      BY <2>2, LenProperties
    <3>3. pattern \in [1..Len(pattern) -> Safe \cup Placeholder]
      BY <3>1, <3>2
    <3>4. pattern \in Seq(Safe \cup Placeholder)
      BY <3>2, <3>3, SeqDef
    <3> QED
      BY <2>1, <2>3, <2>5, <3>4, ExpansionConforms
  <2>6. ASSUME Conforms(name, pattern)
        PROVE  pattern # <<>> /\ ~Occurs("@", pattern) /\ Fits(user, pattern)
    <3>1. name # <<>> /\ name \in Seq(Safe)
      BY <2>6 DEF Conforms
    <3>2. pattern # <<>>
      <4>1. SUFFICES ASSUME pattern = <<>>
                     PROVE  name = <<>>
        BY <3>1
      <4>2. Len(pattern) = 0
        BY <4>1
      <4>3. PICK e \in [0..Len(pattern) -> Nat] : LaidUpTo(e, name, pattern, user, hex)
        BY <2>1, <2>2, <2>3, <2>4, ExpansionParts
      <4>4. Len(name) = 0
        BY <4>2, <4>3 DEF LaidUpTo
      <4> QED
        BY <3>1, <4>4, EmptySeq
    <3>3. ~Occurs("@", pattern)
      BY <2>1, <2>2, <2>3, <2>4, <3>1, UnsafeLeft
    <3>4. Fits(user, pattern)
      BY <2>1, <2>2, <2>3, <2>4, <2>6, <3>1, SlashesKept, SlashGained
    <3> QED
      BY <3>2, <3>3, <3>4
  <2> QED
    BY <2>5, <2>6
<1> QED
  BY <1>1, NameInvariance, PTL

\* A name that passes branch_name_conforms, the server's or a caller's, has the
\* directories of the pattern: no placeholder spans a slash.
THEOREM DirectoriesAreKept == Spec => []DirectoriesKept
<1>1. NameInv => DirectoriesKept
  <2> SUFFICES ASSUME NameInv, Conforms(name, pattern)
               PROVE  Slashes(name) = Slashes(pattern)
    BY DEF DirectoriesKept
  <2>1. pattern \in Seq(Safe \cup {"@"} \cup Placeholder)
    BY PatternAssumption DEF NameInv
  <2>2. name \in Seq(Safe)
    BY DEF Conforms
  <2> QED
    BY <2>1, <2>2, SlashesKept
<1> QED
  BY <1>1, NameInvariance, PTL

=============================================================================
