--------------------------- MODULE ReadToolsProofs --------------------------
(* What holds of ReadTools for all schemas, nodes and bounds: of get_nodes *)
(* by itself, of the schema and its filters, of get_nodes among the other  *)
(* tools, and of find_paths.                                               *)
EXTENDS ReadTools, TextProofs

\* The client has what lies before its offset and, between an answer and the
\* next call, the page.
Counted ==
  /\ pc = "idle" => got = <<>> /\ page = <<>>
  /\ pc \in {"idle", "count", "fetch", "answer"} => Len(got) = offset
  /\ pc \in {"next", "done"} => Len(got) = offset + Len(page)

\* In s, which begins after the place first, the lasting nodes have the places
\* they have in Infrahub.
InPlace(s, first) ==
  \A j \in DOMAIN store : store[j] \in lasting =>
    \A k \in DOMAIN s : s[k] = store[j] <=> first + k = j

Aligned == ~moved => /\ InPlace(got, 0)
                     /\ pc = "answer" => InPlace(page, offset)

\* A count, and has_more after it, reach to the last of the lasting nodes.
Told ==
  ~moved => \A j \in DOMAIN store : store[j] \in lasting =>
    /\ pc \in {"fetch", "answer"} /\ total >= 0 => j <= total
    /\ pc \in {"next", "done"} /\ more = FALSE => j <= Len(got)

PageInv == /\ TypeOK /\ lasting \subseteq ToSet(store)
           /\ Counted /\ Aligned /\ Told

-----------------------------------------------------------------------------
\* What is inserted leaves a sequence without repetition.
LEMMA Inserted ==
  ASSUME NEW s \in Seq(Node), IsInjective(s),
         NEW i \in 1..(Len(s) + 1), NEW n \in Node, n \notin ToSet(s)
  PROVE  InsertAt(s, i, n) \in Seq(Node) /\ IsInjective(InsertAt(s, i, n))
<1> DEFINE a == SubSeq(s, 1, i - 1)
           b == SubSeq(s, i, Len(s))
           c == a \o <<n>>
           t == c \o b
<1>1. Len(s) \in Nat /\ DOMAIN s = 1..Len(s) /\ \A k \in 1..Len(s) : s[k] \in Node
  BY LenProperties, ElementOfSeq
<1>2. /\ a \in Seq(Node) /\ Len(a) = i - 1
      /\ \A k \in 1..(i - 1) : a[k] = s[k]
  <2>1. \A k \in 1..(i - 1) : s[k] \in Node
    BY <1>1
  <2>2. /\ a \in Seq(Node)
        /\ Len(a) = IF 1 <= i - 1 THEN (i - 1) - 1 + 1 ELSE 0
        /\ \A k \in 1..((i - 1) - 1 + 1) : a[k] = s[1 + k - 1]
    BY <1>1, <2>1, SubSeqProperties
  <2> HIDE DEF a
  <2> QED
    BY <1>1, <2>2
<1>3. /\ b \in Seq(Node) /\ Len(b) = Len(s) - i + 1
      /\ \A k \in 1..(Len(s) - i + 1) : b[k] = s[i + k - 1]
  <2>1. \A k \in i..Len(s) : s[k] \in Node
    BY <1>1
  <2>2. /\ b \in Seq(Node)
        /\ Len(b) = IF i <= Len(s) THEN Len(s) - i + 1 ELSE 0
        /\ \A k \in 1..(Len(s) - i + 1) : b[k] = s[i + k - 1]
    BY <1>1, <2>1, SubSeqProperties
  <2> QED
    BY <1>1, <2>2
<1>4. /\ c \in Seq(Node) /\ Len(c) = i
      /\ \A k \in 1..i : c[k] = IF k < i THEN s[k] ELSE n
  <2>1. <<n>> \in Seq(Node) /\ Len(<<n>>) = 1 /\ <<n>>[1] = n
    OBVIOUS
  <2> HIDE DEF a
  <2>2. /\ c \in Seq(Node)
        /\ Len(c) = Len(a) + Len(<<n>>)
        /\ \A k \in 1..(Len(a) + Len(<<n>>)) :
             c[k] = IF k <= Len(a) THEN a[k] ELSE <<n>>[k - Len(a)]
    BY <1>2, <2>1, ConcatProperties
  <2> HIDE DEF c
  <2>3. Len(a) = i - 1 /\ Len(a) + Len(<<n>>) = i
    BY <1>1, <1>2, <2>1
  <2>4. /\ Len(c) = i
        /\ \A k \in 1..i :
             c[k] = IF k <= i - 1 THEN a[k] ELSE <<n>>[k - (i - 1)]
    BY <2>2, <2>3, Zenon
  <2>5. ASSUME NEW k \in 1..i
        PROVE  c[k] = IF k < i THEN s[k] ELSE n
    <3>1. CASE k < i
      <4>1. k <= i - 1 /\ k \in 1..(i - 1)
        BY <1>1, <3>1
      <4> QED
        BY <1>2, <2>4, <3>1, <4>1
    <3>2. CASE ~(k < i)
      <4>1. ~(k <= i - 1) /\ k - (i - 1) = 1
        BY <1>1, <3>2
      <4>2. c[k] = <<n>>[k - (i - 1)]
        BY <2>4, <4>1
      <4> QED
        BY <2>1, <3>2, <4>1, <4>2
    <3> QED
      BY <3>1, <3>2
  <2> QED
    BY <2>2, <2>4, <2>5
<1>5. /\ t \in Seq(Node) /\ Len(t) = Len(s) + 1
      /\ \A k \in 1..(Len(s) + 1) :
           t[k] = IF k < i THEN s[k] ELSE IF k = i THEN n ELSE s[k - 1]
  <2> HIDE DEF b, c
  <2>1. /\ t \in Seq(Node)
        /\ Len(t) = Len(c) + Len(b)
        /\ \A k \in 1..(Len(c) + Len(b)) :
             t[k] = IF k <= Len(c) THEN c[k] ELSE b[k - Len(c)]
    BY <1>3, <1>4, ConcatProperties
  <2> HIDE DEF t
  <2>2. Len(t) = Len(s) + 1
    BY <1>1, <1>3, <1>4, <2>1
  <2>3. \A k \in 1..(Len(s) + 1) :
          t[k] = IF k < i THEN s[k] ELSE IF k = i THEN n ELSE s[k - 1]
    <3> SUFFICES ASSUME NEW k \in 1..(Len(s) + 1)
                 PROVE  t[k] = IF k < i THEN s[k] ELSE IF k = i THEN n ELSE s[k - 1]
      OBVIOUS
    <3>1. CASE k <= i
      <4>1. t[k] = c[k] /\ k \in 1..i
        BY <1>1, <1>3, <1>4, <2>1, <3>1
      <4> QED
        BY <1>1, <1>4, <3>1, <4>1
    <3>2. CASE k > i
      <4>1. t[k] = b[k - i] /\ k - i \in 1..(Len(s) - i + 1)
        BY <1>1, <1>3, <1>4, <2>1, <3>2
      <4>2. b[k - i] = s[i + (k - i) - 1] /\ i + (k - i) - 1 = k - 1
        BY <1>1, <1>3, <3>2, <4>1
      <4> QED
        BY <3>2, <4>1, <4>2
    <3> QED
      BY <1>1, <3>1, <3>2
  <2> QED
    BY <2>1, <2>2, <2>3
<1>6. InsertAt(s, i, n) = t
  BY DEF InsertAt
<1>7. IsInjective(t)
  <2> HIDE DEF t
  <2>1. DOMAIN t = 1..(Len(s) + 1)
    BY <1>5, LenProperties
  <2>2. \A k \in 1..Len(s) : s[k] # n
    BY <1>1 DEF ToSet
  <2>3. \A p, q \in 1..Len(s) : s[p] = s[q] => p = q
    BY <1>1 DEF IsInjective
  <2>4. ASSUME NEW p \in 1..(Len(s) + 1), NEW q \in 1..(Len(s) + 1), t[p] = t[q]
        PROVE  p = q
    <3> DEFINE old(k) == IF k < i THEN k ELSE k - 1
    <3>1. ASSUME NEW k \in 1..(Len(s) + 1), k # i
          PROVE  old(k) \in 1..Len(s) /\ t[k] = s[old(k)]
      BY <1>1, <1>5, <3>1
    <3>2. t[i] = n
      BY <1>1, <1>5
    <3>3. CASE p = i \/ q = i
      BY <2>2, <2>4, <3>1, <3>2, <3>3
    <3>4. CASE p # i /\ q # i
      <4>1. old(p) = old(q)
        BY <2>3, <2>4, <3>1, <3>4
      <4> QED
        BY <1>1, <3>4, <4>1
    <3> QED
      BY <3>3, <3>4
  <2> QED
    BY <2>1, <2>4 DEF IsInjective
<1> QED
  BY <1>5, <1>6, <1>7

\* What is left of such a sequence when a place is taken out of it.
LEMMA Removed ==
  ASSUME NEW s \in Seq(Node), IsInjective(s), NEW i \in DOMAIN s
  PROVE  RemoveAt(s, i) \in Seq(Node) /\ IsInjective(RemoveAt(s, i))
<1> DEFINE a == SubSeq(s, 1, i - 1)
           b == SubSeq(s, i + 1, Len(s))
           t == a \o b
<1>1. /\ Len(s) \in Nat /\ DOMAIN s = 1..Len(s) /\ i \in 1..Len(s)
      /\ \A k \in 1..Len(s) : s[k] \in Node
  BY LenProperties, ElementOfSeq
<1>2. /\ a \in Seq(Node) /\ Len(a) = i - 1
      /\ \A k \in 1..(i - 1) : a[k] = s[k]
  <2>1. \A k \in 1..(i - 1) : s[k] \in Node
    BY <1>1
  <2>2. /\ a \in Seq(Node)
        /\ Len(a) = IF 1 <= i - 1 THEN (i - 1) - 1 + 1 ELSE 0
        /\ \A k \in 1..((i - 1) - 1 + 1) : a[k] = s[1 + k - 1]
    BY <1>1, <2>1, SubSeqProperties
  <2> QED
    BY <1>1, <2>2
<1>3. /\ b \in Seq(Node) /\ Len(b) = Len(s) - i
      /\ \A k \in 1..(Len(s) - i) : b[k] = s[i + k]
  <2>1. \A k \in (i + 1)..Len(s) : s[k] \in Node
    BY <1>1
  <2>2. /\ b \in Seq(Node)
        /\ Len(b) = IF i + 1 <= Len(s) THEN Len(s) - (i + 1) + 1 ELSE 0
        /\ \A k \in 1..(Len(s) - (i + 1) + 1) : b[k] = s[(i + 1) + k - 1]
    BY <1>1, <2>1, SubSeqProperties
  <2> HIDE DEF b
  <2>3. Len(b) = Len(s) - i
    BY <1>1, <2>2
  <2>4. ASSUME NEW k \in 1..(Len(s) - i) PROVE b[k] = s[i + k]
    <3>1. (i + 1) + k - 1 = i + k /\ k \in 1..(Len(s) - (i + 1) + 1)
      BY <1>1
    <3> QED
      BY <2>2, <3>1
  <2> QED
    BY <2>2, <2>3, <2>4
<1>4. /\ t \in Seq(Node) /\ Len(t) = Len(s) - 1
      /\ \A k \in 1..(Len(s) - 1) : t[k] = IF k < i THEN s[k] ELSE s[k + 1]
  <2> HIDE DEF a, b
  <2>1. /\ t \in Seq(Node)
        /\ Len(t) = Len(a) + Len(b)
        /\ \A k \in 1..(Len(a) + Len(b)) :
             t[k] = IF k <= Len(a) THEN a[k] ELSE b[k - Len(a)]
    BY <1>2, <1>3, ConcatProperties
  <2> HIDE DEF t
  <2>2. Len(t) = Len(s) - 1
    BY <1>1, <1>2, <1>3, <2>1
  <2>3. ASSUME NEW k \in 1..(Len(s) - 1)
        PROVE  t[k] = IF k < i THEN s[k] ELSE s[k + 1]
    <3>1. CASE k < i
      BY <1>1, <1>2, <1>3, <2>1, <3>1
    <3>2. CASE k >= i
      <4>1. t[k] = b[k - (i - 1)] /\ k - (i - 1) \in 1..(Len(s) - i)
        BY <1>1, <1>2, <1>3, <2>1, <3>2
      <4>2. b[k - (i - 1)] = s[i + (k - (i - 1))] /\ i + (k - (i - 1)) = k + 1
        BY <1>1, <1>3, <3>2, <4>1
      <4> QED
        BY <1>1, <3>2, <4>1, <4>2
    <3> QED
      BY <1>1, <3>1, <3>2
  <2> QED
    BY <2>1, <2>2, <2>3
<1>5. IsInjective(t)
  <2> HIDE DEF t
  <2>1. DOMAIN t = 1..(Len(s) - 1)
    BY <1>4, LenProperties
  <2>2. \A p, q \in 1..Len(s) : s[p] = s[q] => p = q
    BY <1>1 DEF IsInjective
  <2>3. ASSUME NEW p \in 1..(Len(s) - 1), NEW q \in 1..(Len(s) - 1), t[p] = t[q]
        PROVE  p = q
    <3> DEFINE old(k) == IF k < i THEN k ELSE k + 1
    <3>1. ASSUME NEW k \in 1..(Len(s) - 1)
          PROVE  old(k) \in 1..Len(s) /\ t[k] = s[old(k)]
      BY <1>1, <1>4
    <3>2. old(p) = old(q)
      BY <2>2, <2>3, <3>1
    <3> QED
      BY <1>1, <3>2
  <2> QED
    BY <2>1, <2>3 DEF IsInjective
<1> QED
  BY <1>4, <1>5 DEF RemoveAt

LimitOf(l) == l = -1 \/ l \in Nat \ {0}

\* A page is a piece of the nodes, from the offset on and within the limit.
LEMMA PageOf ==
  ASSUME NEW s \in Seq(Node), NEW l \in Limit, NEW o \in Nat
  PROVE  /\ Upto(l, After(o, s)) \in Seq(Node)
         /\ l # -1 => Len(Upto(l, After(o, s))) <= l
         /\ \A k \in DOMAIN Upto(l, After(o, s)) :
              o + k \in DOMAIN s /\ Upto(l, After(o, s))[k] = s[o + k]
<1> DEFINE b == After(o, s)
           p == Upto(l, b)
<1>1. Len(s) \in Nat /\ DOMAIN s = 1..Len(s) /\ \A k \in 1..Len(s) : s[k] \in Node
  BY LenProperties, ElementOfSeq
<1>2. /\ b \in Seq(Node) /\ Len(b) = IF o + 1 <= Len(s) THEN Len(s) - o ELSE 0
      /\ \A k \in 1..(Len(s) - o) : b[k] = s[o + k]
  <2>1. \A k \in (o + 1)..Len(s) : s[k] \in Node
    BY <1>1
  <2>2. /\ SubSeq(s, o + 1, Len(s)) \in Seq(Node)
        /\ Len(SubSeq(s, o + 1, Len(s))) =
             IF o + 1 <= Len(s) THEN Len(s) - (o + 1) + 1 ELSE 0
        /\ \A k \in 1..(Len(s) - (o + 1) + 1) :
             SubSeq(s, o + 1, Len(s))[k] = s[(o + 1) + k - 1]
    BY <1>1, <2>1, SubSeqProperties
  <2> QED
    BY <1>1, <2>2 DEF After
<1>3. Len(b) \in Nat /\ DOMAIN b = 1..Len(b) /\ \A k \in 1..Len(b) : b[k] \in Node
  BY <1>2, LenProperties, ElementOfSeq
<1> HIDE DEF b
<1>4. LimitOf(l)
  BY LimitAssumption DEF LimitOf
<1>5. /\ p \in Seq(Node)
      /\ l # -1 => Len(p) <= l
      /\ Len(p) <= Len(b) /\ \A k \in 1..Len(p) : p[k] = b[k]
  <2>1. CASE l = -1 \/ Len(b) < l
    <3>1. p = b
      BY <2>1 DEF Upto
    <3> HIDE DEF p
    <3> QED
      BY <1>2, <1>3, <1>4, <2>1, <3>1 DEF LimitOf
  <2>2. CASE l # -1 /\ ~(Len(b) < l)
    <3>1. l \in Nat /\ p = SubSeq(b, 1, l)
      BY <1>4, <2>2 DEF Upto, LimitOf
    <3>2. \A k \in 1..l : b[k] \in Node
      BY <1>3, <2>2, <3>1
    <3>3. /\ p \in Seq(Node)
          /\ Len(p) = IF 1 <= l THEN l - 1 + 1 ELSE 0
          /\ \A k \in 1..(l - 1 + 1) : p[k] = b[1 + k - 1]
      BY <3>1, <3>2, SubSeqProperties
    <3> HIDE DEF p
    <3> QED
      BY <1>3, <2>2, <3>1, <3>3
  <2> QED
    BY <2>1, <2>2
<1> HIDE DEF p
<1>6. DOMAIN p = 1..Len(p) /\ Len(p) \in Nat
  BY <1>5, LenProperties
<1>7. ASSUME NEW k \in DOMAIN p
      PROVE  o + k \in DOMAIN s /\ p[k] = s[o + k]
  <2>1. k \in 1..Len(p) /\ k \in 1..Len(b) /\ p[k] = b[k]
    BY <1>3, <1>5, <1>6
  <2>2. k \in 1..(Len(s) - o)
    <3>1. k \in Nat /\ Len(b) \in Nat /\ 1 <= k /\ k <= Len(b)
      BY <1>3, <2>1
    <3>2. o + 1 <= Len(s) /\ Len(b) = Len(s) - o
      BY <1>2, <3>1
    <3> QED
      BY <1>1, <3>1, <3>2
  <2>3. p[k] = s[o + k]
    BY <1>2, <2>1, <2>2
  <2>4. o + k \in 1..Len(s)
    BY <1>1, <2>2
  <2> QED
    BY <1>1, <2>3, <2>4
<1>8. p = Upto(l, After(o, s))
  BY DEF p, b
<1>9. /\ p \in Seq(Node)
      /\ l # -1 => Len(p) <= l
      /\ \A k \in DOMAIN p : o + k \in DOMAIN s /\ p[k] = s[o + k]
  BY <1>5, <1>7
<1> QED
  BY <1>8, <1>9, Zenon

-----------------------------------------------------------------------------
\* A client that has not begun has nothing, and nothing to be told.
LEMMA InitPage == Init => PageInv
<1> SUFFICES ASSUME Init PROVE PageInv
  OBVIOUS
<1>1. store \in Seq(Node) /\ IsInjective(store)
  <2>1. PICK m \in 0..Cardinality(Node) : store \in [1..m -> Node]
    BY DEF Init, SeqOf
  <2>2. m \in Nat
    OBVIOUS
  <2> QED
    BY <2>1, <2>2, SeqDef DEF Init
<1>2. AnyLimit \in Limit
  BY LimitAssumption DEF AnyLimit
<1>3. /\ <<>> \in Seq(Node) /\ Len(<<>>) = 0
      /\ DOMAIN <<>> = {}
  OBVIOUS
<1>4. limit # -1 => Len(page) <= limit
  BY <1>2, <1>3, LimitAssumption DEF Init
<1>5. TypeOK
  <2>1. changes \in 0..MaxChanges
    BY BoundAssumption DEF Init
  <2>2. pc \in Place
    BY DEF Init, Place
  <2>3. offset \in Nat /\ total \in Nat \cup {-1}
    BY DEF Init
  <2>4. more \in BOOLEAN \cup {Unknown} /\ lasting \subseteq Node /\ moved \in BOOLEAN
    BY DEF Init
  <2>5. page \in Seq(Node) /\ got \in Seq(Node) /\ limit \in Limit
    BY <1>2, <1>3 DEF Init
  <2> QED
    BY <1>1, <1>4, <2>1, <2>2, <2>3, <2>4, <2>5 DEF TypeOK
<1>6. Counted /\ Aligned /\ Told
  BY <1>3 DEF Init, Counted, Aligned, Told, InPlace
<1> QED
  BY <1>5, <1>6 DEF Init, PageInv

\* Nodes come and go: while no lasting node moves, those of them that stay have
\* the places they had.
LEMMA ChangeKeeps ==
  ASSUME PageInv, NEW s \in Seq(Node), IsInjective(s), Change(s)
  PROVE  PageInv'
<1>1. TypeOK'
  BY BoundAssumption DEF PageInv, TypeOK, Change, call
<1>2. lasting' \subseteq ToSet(store') /\ lasting' \subseteq lasting
  BY DEF Change
<1>3. Counted'
  BY DEF PageInv, Counted, Change, call
<1>4. ASSUME ~moved', NEW j \in DOMAIN s, s[j] \in lasting'
      PROVE  j \in DOMAIN store /\ store[j] = s[j] /\ store[j] \in lasting
  <2>1. PICK i \in DOMAIN store : store[i] = s[j]
    BY <1>2, <1>4 DEF PageInv, ToSet
  <2>2. i \in DOMAIN s /\ s[i] = store[i]
    BY <1>4, <2>1 DEF Change
  <2>3. i = j
    BY <2>1, <2>2 DEF IsInjective
  <2> QED
    BY <1>2, <1>4, <2>1, <2>3
<1>5. Aligned'
  BY <1>4 DEF PageInv, Aligned, InPlace, Change, call
<1>6. Told'
  BY <1>4 DEF PageInv, Told, Change, call
<1> QED
  BY <1>1, <1>2, <1>3, <1>5, <1>6 DEF PageInv

\* A page of the nodes after the offset is in its place.
LEMMA FetchKeeps ==
  ASSUME PageInv, Fetch
  PROVE  PageInv'
<1> DEFINE p == Upto(limit, After(offset, store))
<1>1. /\ store \in Seq(Node) /\ limit \in Limit /\ offset \in Nat
      /\ IsInjective(store)
  BY DEF PageInv, TypeOK
<1>2. /\ p \in Seq(Node)
      /\ limit # -1 => Len(p) <= limit
      /\ \A k \in DOMAIN p : offset + k \in DOMAIN store /\ p[k] = store[offset + k]
  BY <1>1, PageOf
<1>3. page' = p
  BY DEF Fetch
<1> HIDE DEF p
<1>4. TypeOK'
  BY <1>2, <1>3 DEF PageInv, TypeOK, Fetch, history, Place, Reading
<1>5. Counted' /\ lasting' \subseteq ToSet(store')
  BY DEF PageInv, Counted, Fetch, history
<1>6. InPlace(p, offset)
  BY <1>1, <1>2 DEF InPlace, IsInjective
<1>7. Aligned'
  BY <1>3, <1>6 DEF PageInv, Aligned, InPlace, Fetch, history
<1>8. Told'
  BY DEF PageInv, Told, Fetch, history
<1> QED
  BY <1>4, <1>5, <1>7, <1>8 DEF PageInv

\* What the client has is in its place with the page after it.
LEMMA AnswerKeeps ==
  ASSUME PageInv, Answer
  PROVE  PageInv'
<1>1. /\ got \in Seq(Node) /\ page \in Seq(Node) /\ store \in Seq(Node)
      /\ Len(got) \in Nat /\ Len(page) \in Nat
      /\ Len(got) = offset
      /\ DOMAIN got = 1..Len(got) /\ DOMAIN page = 1..Len(page)
      /\ DOMAIN store \subseteq Nat
  BY LenProperties DEF PageInv, TypeOK, Counted, Answer
<1>2. /\ got' \in Seq(Node)
      /\ Len(got') = Len(got) + Len(page)
      /\ \A k \in 1..(Len(got) + Len(page)) :
           got'[k] = IF k <= Len(got) THEN got[k] ELSE page[k - Len(got)]
  <2>1. /\ got \o page \in Seq(Node)
        /\ Len(got \o page) = Len(got) + Len(page)
        /\ \A k \in 1..(Len(got) + Len(page)) :
             (got \o page)[k] = IF k <= Len(got) THEN got[k] ELSE page[k - Len(got)]
    BY <1>1, ConcatProperties
  <2>2. got' = got \o page
    BY DEF Answer
  <2> QED
    BY <2>1, <2>2
<1>3. DOMAIN got' = 1..(Len(got) + Len(page))
  BY <1>2, LenProperties
<1>4. /\ UNCHANGED <<store, changes, limit, offset, total, page, lasting, moved>>
      /\ pc = "answer" /\ pc' = "next" /\ more' = HasMore
  BY DEF Answer, history
<1>5. TypeOK'
  BY <1>2, <1>4 DEF PageInv, TypeOK, Place, Reading, HasMore
<1>6. Counted'
  BY <1>1, <1>2, <1>4 DEF Counted
<1>7. ASSUME ~moved, NEW j \in DOMAIN store, store[j] \in lasting,
             NEW k \in DOMAIN got'
      PROVE  got'[k] = store[j] <=> 0 + k = j
  <2>1. CASE k <= Len(got)
    <3>1. k \in DOMAIN got /\ got'[k] = got[k]
      BY <1>1, <1>2, <1>3, <2>1
    <3> QED
      BY <1>7, <3>1 DEF PageInv, Aligned, InPlace
  <2>2. CASE k > Len(got)
    <3>1. k - Len(got) \in DOMAIN page /\ got'[k] = page[k - Len(got)]
      BY <1>1, <1>2, <1>3, <2>2
    <3>2. page[k - Len(got)] = store[j] <=> offset + (k - Len(got)) = j
      BY <1>4, <1>7, <3>1 DEF PageInv, Aligned, InPlace
    <3>3. offset + (k - Len(got)) = 0 + k
      BY <1>1, <1>3
    <3> QED
      BY <3>1, <3>2, <3>3
  <2> QED
    BY <1>1, <1>3, <2>1, <2>2
<1>8. Aligned'
  BY <1>4, <1>7 DEF Aligned, InPlace
<1>9. Told'
  <2> SUFFICES ASSUME ~moved, NEW j \in DOMAIN store, store[j] \in lasting,
                      more' = FALSE
               PROVE  j <= Len(got')
    BY <1>4 DEF Told
  <2>1. total >= 0 /\ ~(total > offset + Len(page))
    BY <1>4, BoundAssumption DEF HasMore
  <2>2. j <= total /\ total \in Int
    BY <1>4, <2>1 DEF PageInv, TypeOK, Told
  <2> QED
    BY <1>1, <1>2, <2>1, <2>2
<1> QED
  BY <1>4, <1>5, <1>6, <1>8, <1>9 DEF PageInv

\* Every step of get_nodes, its client and Infrahub keeps PageInv.
LEMMA StepPage == PageInv /\ [Next]_vars => PageInv'
<1> SUFFICES ASSUME PageInv, [Next]_vars
             PROVE  PageInv'
  OBVIOUS
<1> USE DEF history, call
<1>1. /\ store \in Seq(Node) /\ IsInjective(store)
      /\ DOMAIN store = 1..Len(store) /\ Len(store) \in Nat
      /\ got \in Seq(Node) /\ page \in Seq(Node)
      /\ Len(got) \in Nat /\ Len(page) \in Nat
      /\ lasting \subseteq ToSet(store)
  BY LenProperties DEF PageInv, TypeOK
<1>2. /\ <<>> \in Seq(Node) /\ Len(<<>>) = 0
      /\ DOMAIN <<>> = {}
  OBVIOUS
<1>3. ASSUME NEW n \in Node, NEW i \in 1..(Len(store) + 1), Add(n, i)
      PROVE  PageInv'
  BY <1>1, <1>3, Inserted, ChangeKeeps DEF Add
<1>4. ASSUME NEW i \in DOMAIN store, Delete(i)
      PROVE  PageInv'
  BY <1>1, <1>4, Removed, ChangeKeeps DEF Delete
<1>5. CASE Begin
  <2>1. TypeOK' /\ lasting' \subseteq ToSet(store')
    <3>1. page = <<>>
      BY <1>5 DEF Begin, PageInv, Counted
    <3>2. ToSet(store) \subseteq Node
      BY <1>1, ElementOfSeq DEF ToSet
    <3>3. limit' # -1 => Len(page') <= limit'
      BY <1>2, <1>5, <3>1, LimitAssumption DEF Begin
    <3> QED
      BY <1>5, <3>2, <3>3 DEF Begin, PageInv, TypeOK, Place, Reading
  <2>2. Counted' /\ Aligned' /\ Told'
    BY <1>2, <1>5 DEF Begin, PageInv, Counted, Aligned, Told, InPlace
  <2> QED
    BY <2>1, <2>2 DEF PageInv
<1>6. CASE Raise
  BY <1>6 DEF Raise, PageInv, TypeOK, Place, Counted, Aligned, Told, InPlace
<1>7. CASE Count
  <2>1. TypeOK' /\ Counted' /\ Aligned' /\ lasting' \subseteq ToSet(store')
    BY <1>1, <1>7 DEF Count, PageInv, TypeOK, Place, Reading, Counted, Aligned, InPlace
  <2>2. Told'
    BY <1>1, <1>7 DEF Count, Told
  <2> QED
    BY <2>1, <2>2 DEF PageInv
<1>8. CASE Fetch
  BY <1>8, FetchKeeps
<1>9. CASE Answer
  BY <1>9, AnswerKeeps
<1>10. CASE NextPage
  <2>1. TypeOK' /\ lasting' \subseteq ToSet(store')
    BY <1>1, <1>10 DEF NextPage, PageInv, TypeOK, Place, Reading
  <2>2. Counted' /\ Aligned' /\ Told'
    BY <1>10 DEF NextPage, PageInv, Counted, Aligned, Told, InPlace
  <2> QED
    BY <2>1, <2>2 DEF PageInv
<1>11. CASE Stop
  BY <1>11 DEF Stop, PageInv, TypeOK, Place, Counted, Aligned, Told, InPlace
<1>12. CASE Forget
  <2>1. AnyLimit \in Limit
    BY LimitAssumption DEF AnyLimit
  <2>2. AnyLimit # -1 => Len(<<>>) <= AnyLimit
    BY <1>2, <2>1, LimitAssumption
  <2>3. TypeOK' /\ lasting' \subseteq ToSet(store')
    <3>1. changes' \in 0..MaxChanges
      BY <1>12, BoundAssumption DEF Forget
    <3>2. pc' \in Place
      BY <1>12 DEF Forget, Place
    <3>3. offset' \in Nat /\ total' \in Nat \cup {-1}
      BY <1>12 DEF Forget
    <3>4. /\ more' \in BOOLEAN \cup {Unknown}
          /\ lasting' = {} /\ moved' \in BOOLEAN
      BY <1>12 DEF Forget
    <3>5. /\ page' \in Seq(Node) /\ got' \in Seq(Node) /\ limit' \in Limit
          /\ limit' # -1 => Len(page') <= limit'
      BY <1>2, <1>12, <2>1, <2>2 DEF Forget
    <3>6. store' \in Seq(Node) /\ IsInjective(store')
      BY <1>1, <1>12 DEF Forget
    <3> QED
      BY <3>1, <3>2, <3>3, <3>4, <3>5, <3>6 DEF TypeOK
  <2>4. Counted' /\ Aligned' /\ Told'
    BY <1>2, <1>12 DEF Forget, Counted, Aligned, Told, InPlace
  <2> QED
    BY <2>3, <2>4 DEF PageInv
<1>13. CASE UNCHANGED vars
  BY <1>13 DEF vars, PageInv, TypeOK, Counted, Aligned, Told, InPlace
<1> QED
  BY <1>3, <1>4, <1>5, <1>6, <1>7, <1>8, <1>9, <1>10, <1>11, <1>12, <1>13
  DEF Next, Read

\* A client told that there is no more has all that stayed.
LEMMA ToldAll == PageInv => ReadCompletely
<1> SUFFICES ASSUME PageInv, pc = "done", more = FALSE, ~moved, NEW n \in lasting
             PROVE  \E k \in DOMAIN got :
                      got[k] = n /\ \A m \in DOMAIN got : got[m] = n => m = k
  BY DEF ReadCompletely
<1>1. PICK j \in DOMAIN store : store[j] = n
  BY DEF PageInv, ToSet
<1>2. /\ DOMAIN store = 1..Len(store) /\ Len(store) \in Nat
      /\ DOMAIN got = 1..Len(got) /\ Len(got) \in Nat
  BY LenProperties DEF PageInv, TypeOK
<1>3. j \in DOMAIN got
  BY <1>1, <1>2 DEF PageInv, Told
<1>4. \A m \in DOMAIN got : got[m] = n <=> 0 + m = j
  BY <1>1 DEF PageInv, Aligned, InPlace
<1>5. \A m \in DOMAIN got : 0 + m = m
  BY <1>2
<1> QED
  BY <1>3, <1>4, <1>5

\* Every variable of get_nodes and its client has its type, whatever nodes come
\* and go, and no page is over the limit it was asked with.
THEOREM TypeCorrect == Spec => []TypeOK
<1>1. PageInv => TypeOK
  BY DEF PageInv
<1> QED
  BY <1>1, InitPage, StepPage, PTL DEF Spec

\* ReadCompletely, for any number of nodes, any limit and any number of changes:
\* a client that follows has_more until it is false has every node that stayed
\* exactly once, unless one of those changed its place while it read.
THEOREM ReadingIsComplete == Spec => []ReadCompletely
BY InitPage, StepPage, ToldAll, PTL DEF Spec

-----------------------------------------------------------------------------
Asking == {"nothing", "map", "check", "accepted", "refused"}

AllFilters(s) == OwnFilters(s) \cup FiltersOfAll(Relationships, s)

\* What the two walks have found so far.
Mapped == OwnFilters(schema) \cup
             FiltersOfAll({rel \in Relationships : rel.peer \notin peersLeft}, schema)
Walked == OwnFilters(schema) \cup
             UNION {FiltersOf(Relationship[i], schema) :
                      i \in {j \in DOMAIN Relationship : j < next}}

\* While the schema is as it was, each walk is right about what it has seen, the
\* map is complete, and so is the check that has ended.
SchemaInv ==
  /\ schema \in Schema
  /\ asking \in Asking
  /\ next \in Nat \ {0}
  /\ ~changed =>
       /\ asking = "map" => filters = Mapped
       /\ asking = "check" => filters = Walked
       /\ asking = "accepted" => key \in AllFilters(schema)
       /\ asking = "refused" => key \notin AllFilters(schema)
       /\ filterMap # NoMap /\ asking # "map" => filterMap = AllFilters(schema)

\* The calls of the client do not overlap.
MapAlone == asking = "map" => pc = "idle"

-----------------------------------------------------------------------------
\* The walk of get_schema has seen all when no peer is left.
LEMMA MapComplete ==
  ASSUME peersLeft = {}
  PROVE  Mapped = AllFilters(schema)
<1>1. {rel \in Relationships : rel.peer \notin peersLeft} = Relationships
  OBVIOUS
<1> QED
  BY <1>1 DEF Mapped, AllFilters

\* The walk of get_nodes has when it is past the last relationship.
LEMMA CheckComplete ==
  ASSUME next \in Nat, next > Len(Relationship)
  PROVE  Walked = AllFilters(schema)
<1>1. DOMAIN Relationship = 1..Len(Relationship) /\ Len(Relationship) \in Nat
  BY RelationshipAssumption
<1>2. {j \in DOMAIN Relationship : j < next} = DOMAIN Relationship
  BY <1>1
<1>3. UNION {FiltersOf(Relationship[i], schema) : i \in DOMAIN Relationship}
        = FiltersOfAll(Relationships, schema)
  BY DEF FiltersOfAll, Relationships
<1> QED
  BY <1>2, <1>3 DEF Walked, AllFilters

\* get_nodes and get_schema are not under way together.
LEMMA MapAloneHolds ==
  MapAlone /\ [NextRead]_readVars => MapAlone'
BY DEF MapAlone, NextRead, NodesChange, Add, Delete, Change, SchemaChange,
       ChangeSchema, GetSchema, AskMap, MapAnswered, FetchPeer, Quiet,
       BeginNodes, Begin, ForgetCheck, ReadNodes, CheckFilter, Check, CheckKind,
       CheckPeer, Checked, CountNodes, Count, FetchNodes, Fetch, AnswerNodes,
       Answer, Client, NextPage, Stop, ForgetMap, NodesFail, Raise, GetPaths,
       Rest, Forget, readVars, vars, schemaVars, schemaCall

\* Every step of the client or of Infrahub keeps SchemaInv.
LEMMA SchemaInvHolds ==
  MapAlone /\ SchemaInv /\ [NextRead]_readVars => SchemaInv'
<1> SUFFICES ASSUME MapAlone, SchemaInv, [NextRead]_readVars
             PROVE  SchemaInv'
  OBVIOUS
<1> USE DEF Asking
<1>0. CASE UNCHANGED schemaVars
  BY <1>0 DEF SchemaInv, schemaVars, schemaCall, Mapped, Walked
<1>1. CASE ChangeSchema
  BY <1>1 DEF ChangeSchema, schemaCall, SchemaInv
<1>2. CASE AskMap
  <2>1. {rel \in Relationships : rel.peer \notin {q.peer : q \in Relationships}} = {}
    OBVIOUS
  <2>2. OwnFilters(schema) = Mapped'
    BY <1>2, <2>1 DEF AskMap, Mapped, FiltersOfAll
  <2> QED
    BY <1>2, <2>2 DEF AskMap, SchemaInv
<1>3. ASSUME NEW rel \in Relationships, FetchPeer(rel.peer)
      PROVE  SchemaInv'
  <2> DEFINE p == rel.peer
             before == {r \in Relationships : r.peer \notin peersLeft}
             after  == {r \in Relationships : r.peer \notin peersLeft \ {p}}
             mine   == {r \in Relationships : r.peer = p}
  <2>1. after = before \cup mine
    BY <1>3 DEF FetchPeer
  <2>2. FiltersOfAll(after, schema)
          = FiltersOfAll(before, schema) \cup FiltersOfAll(mine, schema)
    BY <2>1 DEF FiltersOfAll
  <2>3. filters = Mapped => filters' = Mapped'
    BY <1>3, <2>2 DEF FetchPeer, Mapped
  <2> QED
    BY <1>3, <2>3 DEF FetchPeer, SchemaInv
<1>4. CASE MapAnswered
  BY <1>4, MapComplete DEF MapAnswered, SchemaInv, AllFilters
<1>5. CASE CheckKind
  <2>1. key \in Reserved => key \notin AllFilters(schema)
    BY ReservedAssumption DEF SchemaInv, AllFilters
  <2>2. {j \in DOMAIN Relationship : j < 1} = {}
    BY RelationshipAssumption
  <2>3. OwnFilters(schema) = Walked'
    BY <1>5, <2>2 DEF CheckKind, Walked
  <2> QED
    BY <1>5, <2>1, <2>3 DEF CheckKind, SchemaInv
<1>6. CASE CheckPeer
  <2> DEFINE before == {j \in DOMAIN Relationship : j < next}
  <2>1. next \in DOMAIN Relationship
    BY <1>6, RelationshipAssumption DEF CheckPeer, SchemaInv
  <2>2. {j \in DOMAIN Relationship : j < next + 1} = before \cup {next}
    BY <2>1, RelationshipAssumption DEF SchemaInv
  <2>3. filters = Walked => filters' = Walked'
    BY <1>6, <2>2 DEF CheckPeer, Walked
  <2> QED
    BY <1>6, <2>3 DEF CheckPeer, SchemaInv
<1>7. CASE Checked
  BY <1>7, CheckComplete DEF Checked, SchemaInv
<1>8. ASSUME NEW k, ForgetCheck(k), asking # "map"
      PROVE  SchemaInv'
  BY <1>8 DEF ForgetCheck, SchemaInv
<1>9. CASE ForgetMap
  BY <1>9 DEF ForgetMap, SchemaInv
<1> QED
  BY <1>0, <1>1, <1>2, <1>3, <1>4, <1>5, <1>6, <1>7, <1>8, <1>9
  DEF NextRead, NodesChange, SchemaChange, GetSchema, BeginNodes, ReadNodes,
      NodesFail, GetPaths, Rest, CheckFilter, Check, CountNodes, FetchNodes,
      AnswerNodes, Client, readVars, Raise, Answer, MapAlone

\* FilterMapExact, for every kind, whatever its relationships and whichever of
\* its peers are missing: the walk of get_schema_detail over unique peers and
\* that of _validate_filters over relationships find the same filters.
THEOREM MapIsExact == FairReads => []FilterMapExact
<1>1. InitReads => MapAlone /\ SchemaInv
  BY DEF InitReads, InitSchema, MapAlone, SchemaInv, Asking
<1>2. SchemaInv => FilterMapExact
  BY DEF SchemaInv, FilterMapExact
<1> QED
  BY <1>1, <1>2, MapAloneHolds, SchemaInvHolds, PTL DEF FairReads

-----------------------------------------------------------------------------
\* To get_nodes a step of the other tools is no step, but that the next one
\* may be under way while as many changes are made again.
LEMMA StepReads == PageInv /\ [NextRead]_readVars => PageInv'
<1> SUFFICES ASSUME PageInv, [NextRead]_readVars
             PROVE  PageInv'
  OBVIOUS
<1>1. CASE [Next]_vars
  BY <1>1, StepPage
<1>2. ASSUME changes' = 0, UNCHANGED <<store, pc, call, history>>
      PROVE  PageInv'
  BY <1>2, BoundAssumption
  DEF PageInv, TypeOK, Counted, Aligned, Told, InPlace, call, history
<1>3. CASE GetPaths
  BY <1>1, <1>2, <1>3 DEF GetPaths, Conclude, vars
<1>4. CASE NodesChange
  BY <1>1, <1>4 DEF NodesChange, Next
<1>5. CASE SchemaChange \/ GetSchema \/ BeginNodes \/ ReadNodes \/ NodesFail \/ Rest
  BY <1>1, <1>5
  DEF SchemaChange, GetSchema, BeginNodes, ReadNodes, CheckFilter, CountNodes,
      FetchNodes, AnswerNodes, Client, NodesFail, Rest, Next, Read
<1> QED
  BY <1>1, <1>3, <1>4, <1>5 DEF NextRead, readVars

\* ReadCompletely among the other tools: neither a filter nor the searches for
\* paths between two readings cost a client a node that stayed.
THEOREM ReadingAmongTools == FairReads => []ReadCompletely
BY InitPage, StepReads, ToldAll, PTL DEF FairReads, InitReads

-----------------------------------------------------------------------------
\* The end is the node the client named.
AsNamed(e) ==
  LET ref == reference[e]
  IN  /\ ref.form = "none" => end[e] = NoNode
      /\ ref.form = "id" => end[e] = ref.node
      /\ ref.form = "hfid" => Written(end[e]) = Written(ref.node)

\* What the tool has resolved by now is as the client named it; what was settled
\* is; and a node is not found only for a reason.
Placed ==
  /\ place \in {"idle", "source", "destination", "traverse", "answered", "refused"}
  /\ reference \in [End -> Names \cup {Unnamed}]
  /\ end \in [End -> Node \cup {NoNode}]
  /\ place # "idle" => reference["source"] \in Names
  /\ place = "source" => end["source"] = NoNode /\ end["destination"] = NoNode
  /\ place = "destination" => /\ end["source"] \in Node /\ end["destination"] = NoNode
                              /\ reference["destination"] \in Names
                              /\ AsNamed("source")
  /\ place \in {"traverse", "answered"} => \A e \in End : AsNamed(e)

StillSettled ==
  settled \subseteq End /\ \A e \in settled : Settled(reference[e].node, store)

PathsInv == Placed /\ StillSettled /\ NamedIsFound

-----------------------------------------------------------------------------
\* The kind, and after it the parts of the human-friendly ID of n.
LEMMA PartsOf ==
  ASSUME NEW n \in Node
  PROVE  LET parts == <<Kind>> \o Hfid[n]
         IN  /\ parts \in Seq(Seq(Letter))
             /\ Len(parts) = Len(Hfid[n]) + 1 /\ Len(Hfid[n]) \in Nat \ {0}
             /\ parts[1] = Kind
             /\ \A i \in 1..Len(Hfid[n]) : parts[i+1] = Hfid[n][i]
             /\ \A i \in 1..Len(parts) : parts[i] \in Seq(Letter)
<1> DEFINE V == Seq(Letter)
           k == <<Kind>>
           h == Hfid[n]
           parts == k \o h
<1>1. h \in Seq(V) /\ Len(h) \in Nat \ {0}
  BY HfidAssumption, EmptySeq
<1>2. k \in Seq(V) /\ Len(k) = 1 /\ k[1] = Kind
  <2>1. Kind \in V
    BY HfidAssumption, Zenon
  <2> HIDE DEF V
  <2> QED
    BY <2>1
<1> HIDE DEF V, k, h
<1>3. /\ parts \in Seq(V) /\ Len(parts) = Len(k) + Len(h)
      /\ \A i \in 1..(Len(k) + Len(h)) :
           parts[i] = IF i <= Len(k) THEN k[i] ELSE h[i - Len(k)]
  BY <1>1, <1>2, ConcatProperties
<1> HIDE DEF parts
<1>4. Len(parts) = Len(h) + 1
  BY <1>1, <1>2, <1>3
<1>5. parts[1] = Kind
  BY <1>1, <1>2, <1>3
<1>6. ASSUME NEW i \in 1..Len(h)
      PROVE  parts[i+1] = h[i]
  <2>1. PICK j \in Int : j = i + 1
    BY <1>1
  <2>2. j \in 1..(Len(k) + Len(h)) /\ ~(j <= Len(k)) /\ j - Len(k) = i
    BY <1>1, <1>2, <2>1
  <2>3. parts[j] = h[i]
    BY <1>3, <2>2
  <2> QED
    BY <2>1, <2>3
<1>7. \A i \in 1..Len(parts) : parts[i] \in V
  BY <1>3, ElementOfSeq
<1> QED
  BY <1>1, <1>3, <1>4, <1>5, <1>6, <1>7 DEF V, k, h, parts

\* IDs with the same parts after the kind are the same.
LEMMA SameId ==
  ASSUME NEW m \in Node, NEW n \in Node, <<Kind>> \o Hfid[m] = <<Kind>> \o Hfid[n]
  PROVE  Hfid[m] = Hfid[n]
<1> DEFINE p == <<Kind>> \o Hfid[m]
           q == <<Kind>> \o Hfid[n]
           g == Hfid[m]
           h == Hfid[n]
<1>1. /\ Len(p) = Len(g) + 1 /\ Len(g) \in Nat
      /\ \A i \in 1..Len(g) : p[i+1] = g[i]
  BY PartsOf
<1>2. /\ Len(q) = Len(h) + 1 /\ Len(h) \in Nat
      /\ \A i \in 1..Len(h) : q[i+1] = h[i]
  BY PartsOf
<1>3. p = q
  OBVIOUS
<1>4. g \in Seq(Seq(Letter)) /\ h \in Seq(Seq(Letter))
  BY HfidAssumption
<1> HIDE DEF p, q, g, h
<1>5. Len(g) = Len(h)
  BY <1>1, <1>2, <1>3
<1>6. \A i \in 1..Len(g) : g[i] = h[i]
  BY <1>1, <1>2, <1>3, <1>5
<1>7. g = h
  BY <1>4, <1>5, <1>6, SeqEqual
<1> QED
  BY <1>7 DEF g, h

\* What is written is a text.
LEMMA WrittenIs ==
  ASSUME NEW n \in Node
  PROVE  Written(n) \in Seq(Letter)
<1> DEFINE parts == <<Kind>> \o Hfid[n]
<1>1. /\ Len(parts) \in Nat \ {0}
      /\ \A i \in 1..Len(parts) : parts[i] \in Seq(Letter)
  <2>1. /\ Len(parts) = Len(Hfid[n]) + 1 /\ Len(Hfid[n]) \in Nat
        /\ \A i \in 1..Len(parts) : parts[i] \in Seq(Letter)
    BY PartsOf
  <2> QED
    BY <2>1
<1> HIDE DEF parts
<1>2. Joined(parts) \in Seq(Letter)
  BY <1>1, HfidAssumption, LaidOut
<1> QED
  BY <1>2 DEF parts, Written

\* An unambiguous ID is read from what is written as it was.
LEMMA ReadsBack ==
  ASSUME NEW n \in Node, Unambiguous(n)
  PROVE  Split(Written(n)) = <<Kind>> \o Hfid[n]
<1> DEFINE h == Hfid[n]
           parts == <<Kind>> \o Hfid[n]
           l == Len(h)
<1>1. /\ parts \in Seq(Seq(Letter))
      /\ Len(parts) = l + 1 /\ l \in Nat \ {0}
      /\ parts[1] = Kind
      /\ \A i \in 1..l : parts[i+1] = h[i]
  BY PartsOf
<1>2. /\ \A i \in 1..l : \A j \in 1..Len(h[i]) : ~Double(h[i], j)
      /\ \A i \in 1..(l - 1) : Len(h[i]) # 0 => h[i][Len(h[i])] # "_"
  BY DEF Unambiguous, Tidy
<1>3. /\ \A j \in 1..Len(Kind) : Kind[j] # "_"
      /\ Len(Kind) \in Nat
  <2>1. Kind \in Seq(Letter)
    BY HfidAssumption, Zenon
  <2>2. DOMAIN Kind = 1..Len(Kind) /\ Len(Kind) \in Nat
    BY <2>1, LenProperties
  <2> QED
    BY <2>2, HfidAssumption, Zenon
<1>4. \A j \in 1..Len(Kind) : ~Double(Kind, j)
  BY <1>3, Zenon DEF Double
<1>5. Len(Kind) # 0 => Kind[Len(Kind)] # "_"
  <2> DEFINE k == Len(Kind)
  <2>1. k # 0 => k \in 1..k
    <3>1. k \in Nat
      BY <1>3, Zenon
    <3> HIDE DEF k
    <3> QED
      BY <3>1
  <2> QED
    BY <1>3, <2>1, Zenon
<1> HIDE DEF h, parts, l
<1>6. ASSUME NEW k \in 1..Len(parts)
      PROVE  \A j \in 1..Len(parts[k]) : ~Double(parts[k], j)
  <2>1. CASE k = 1
    BY <1>1, <1>4, <2>1
  <2>2. CASE k # 1
    <3>1. k - 1 \in 1..l /\ (k - 1) + 1 = k
      BY <1>1, <2>2
    <3>2. parts[k] = h[k-1]
      BY <1>1, <3>1
    <3> QED
      BY <1>2, <3>1, <3>2
  <2> QED
    BY <2>1, <2>2
<1>7. ASSUME NEW k \in 1..(Len(parts) - 1)
      PROVE  Len(parts[k]) # 0 => parts[k][Len(parts[k])] # "_"
  <2>1. CASE k = 1
    BY <1>1, <1>5, <2>1, Zenon
  <2>2. CASE k # 1
    <3>1. k - 1 \in 1..(l - 1) /\ k - 1 \in 1..l /\ (k - 1) + 1 = k
      BY <1>1, <2>2
    <3>2. parts[k] = h[k-1]
      BY <1>1, <3>1
    <3> QED
      BY <1>2, <3>1, <3>2, Zenon
  <2> QED
    BY <2>1, <2>2
<1>8. Tidy(parts)
  BY <1>6, <1>7 DEF Tidy
<1>9. Len(parts) \in Nat \ {0}
  BY <1>1
<1>10. Split(Joined(parts)) = parts
  BY <1>1, <1>8, <1>9, HfidAssumption, SplitJoined
<1> QED
  BY <1>10 DEF parts, Written

\* A text that is taken for a node reads as the node is written.
LEMMA FoundAsWritten ==
  ASSUME NEW text \in Seq(Letter), NEW n \in Node, Matches(Split(text)) = {n}
  PROVE  Written(n) = text
<1>1. Split(text) = <<Kind>> \o Hfid[n]
  BY DEF Matches
<1>2. Joined(Split(text)) = text
  BY HfidAssumption, JoinSplit
<1> QED
  BY <1>1, <1>2 DEF Written

\* What is unambiguous and there, with no other of the same ID, resolves.
LEMMA SettledResolves ==
  ASSUME NEW n \in Node, Unambiguous(n), Settled(n, store), ToSet(store) \subseteq Node
  PROVE  Len(Split(Written(n))) >= 2 /\ Matches(Split(Written(n))) = {n}
<1>1. Split(Written(n)) = <<Kind>> \o Hfid[n]
  BY ReadsBack
<1>2. Len(<<Kind>> \o Hfid[n]) = Len(Hfid[n]) + 1 /\ Len(Hfid[n]) \in Nat \ {0}
  BY PartsOf
<1>3. Len(Split(Written(n))) >= 2
  BY <1>1, <1>2
<1>4. \A m \in ToSet(store) : <<Kind>> \o Hfid[n] = <<Kind>> \o Hfid[m] <=> Hfid[m] = Hfid[n]
  BY SameId
<1>5. n # NoNode
  BY HfidAssumption
<1>6. Matches(<<Kind>> \o Hfid[n]) = {n}
  BY <1>4, <1>5, Zenon DEF Matches, Settled
<1> QED
  BY <1>1, <1>3, <1>6

-----------------------------------------------------------------------------
\* No tool is under way.
LEMMA InitPaths == InitReads => PathsInv
BY DEF InitReads, InitTraversal, PathsInv, Placed, StillSettled, NamedIsFound

\* A step that resolves an end.
LEMMA ResolveKeeps ==
  ASSUME PathsInv, PageInv, NEW e \in End, Resolve(e), UNCHANGED store
  PROVE  PathsInv'
<1>1. PICK n \in Node : Resolves(reference[e], n) /\ end' = [end EXCEPT ![e] = n]
  BY DEF Resolve
<1>2. place = e /\ place' = Following(e) /\ UNCHANGED <<reference, reason, settled>>
  BY DEF Resolve
<1>3. reference[e] \in Names
  BY <1>2 DEF PathsInv, Placed, StillSettled, End
<1>4. reference[e].form \in {"id", "hfid", "label"} /\ reference[e].node \in Node
  BY <1>3, HfidAssumption
<1>5. end'[e] = n /\ end' \in [End -> Node \cup {NoNode}]
      /\ \A d \in End \ {e} : end'[d] = end[d]
  BY <1>1 DEF PathsInv, Placed, StillSettled
<1>6. AsNamed(e)'
  <2>1. CASE reference[e].form = "id"
    BY <1>1, <1>2, <1>5, <2>1 DEF AsNamed, Resolves
  <2>2. CASE reference[e].form = "hfid"
    <3>1. Matches(Split(Written(reference[e].node))) = {n}
      BY <1>1, <2>2 DEF Resolves, Asks, Text
    <3>2. Written(n) = Written(reference[e].node)
      BY <1>4, <3>1, WrittenIs, FoundAsWritten
    <3> QED
      BY <1>2, <1>5, <2>2, <3>2 DEF AsNamed
  <2>3. CASE reference[e].form = "label"
    BY <1>2, <2>3 DEF AsNamed
  <2> QED
    BY <1>4, <2>1, <2>2, <2>3
<1>7. \A d \in End \ {e} : AsNamed(d)' <=> AsNamed(d)
  BY <1>2, <1>5 DEF AsNamed
<1>8. /\ place' = "destination" => e = "source" /\ reference["destination"] \in Names
      /\ place' \in {"destination", "traverse"}
  BY <1>2 DEF Following, PathsInv, Placed, Unnamed, End
<1>9. place' = "destination" => end'["source"] \in Node /\ end'["destination"] = NoNode
                                /\ AsNamed("source")'
  BY <1>2, <1>5, <1>6, <1>8 DEF PathsInv, Placed, StillSettled, End
<1>10. place' = "traverse" => \A d \in End : AsNamed(d)'
  <2>1. CASE e = "source"
    <3>1. place' = "traverse" => reference["destination"].form = "none"
      BY <1>2, <2>1 DEF Following
    <3>2. end["destination"] = NoNode
      BY <1>2, <2>1 DEF PathsInv, Placed, StillSettled
    <3>3. place' = "traverse" => AsNamed("destination")
      BY <3>1, <3>2 DEF AsNamed
    <3> QED
      BY <1>6, <1>7, <2>1, <3>3 DEF End
  <2>2. CASE e = "destination"
    BY <1>2, <1>6, <1>7, <2>2 DEF PathsInv, Placed, StillSettled, End
  <2> QED
    BY <2>1, <2>2 DEF End
<1>11. NamedIsFound'
  BY <1>8 DEF NamedIsFound
<1>12. StillSettled'
  BY <1>2 DEF PathsInv, StillSettled, Settled
<1>13. Placed'
  <2>1. reference' \in [End -> Names \cup {Unnamed}] /\ reference'["source"] \in Names
    BY <1>2 DEF PathsInv, Placed, End
  <2>2. place' \in {"destination", "traverse"}
    BY <1>8
  <2>3. place' = "destination" =>
          /\ end'["source"] \in Node /\ end'["destination"] = NoNode
          /\ reference'["destination"] \in Names /\ AsNamed("source")'
    BY <1>2, <1>8, <1>9
  <2>4. place' \in {"traverse", "answered"} => \A d \in End : AsNamed(d)'
    BY <1>10, <2>2
  <2> QED
    BY <1>5, <2>1, <2>2, <2>3, <2>4 DEF Placed
<1> QED
  BY <1>11, <1>12, <1>13 DEF PathsInv

\* A step that refuses one.
LEMMA UnresolvedKeeps ==
  ASSUME PathsInv, PageInv, NEW e \in End, Unresolved(e), UNCHANGED store
  PROVE  PathsInv'
<1>1. /\ place = e /\ \A n \in Node : ~Resolves(reference[e], n)
      /\ place' = "refused" /\ reason' = "resolution"
      /\ UNCHANGED <<reference, end, settled>>
  BY DEF Unresolved, Refuse
<1>2. e = IF end["source"] = NoNode THEN "source" ELSE "destination"
  BY <1>1, HfidAssumption DEF PathsInv, Placed, StillSettled, End
<1>3. reference[e] \in Names
  BY <1>1 DEF PathsInv, Placed, StillSettled, End
<1>4. reference[e].node \in Node
  BY <1>3, HfidAssumption
<1>5. ToSet(store) \subseteq Node
  BY ElementOfSeq, LenProperties DEF PageInv, TypeOK, ToSet
<1>6. ASSUME reference[e].form = "hfid", Unambiguous(reference[e].node), e \in settled
      PROVE  FALSE
  <2> DEFINE n == reference[e].node
  <2>1. Settled(n, store)
    BY <1>6 DEF PathsInv, Placed, StillSettled
  <2>2. Len(Split(Written(n))) >= 2 /\ Matches(Split(Written(n))) = {n}
    BY <1>4, <1>5, <1>6, <2>1, SettledResolves
  <2>3. Resolves(reference[e], n)
    BY <1>6, <2>2 DEF Resolves, Asks, Text
  <2> QED
    BY <1>1, <1>4, <2>3
<1>7. NamedIsFound'
  BY <1>1, <1>2, <1>6 DEF NamedIsFound, Unambiguous
<1>8. StillSettled'
  BY <1>1 DEF PathsInv, StillSettled, Settled
<1>9. Placed'
  <2>1. /\ reference' \in [End -> Names \cup {Unnamed}]
        /\ end' \in [End -> Node \cup {NoNode}]
        /\ reference'["source"] \in Names
    BY <1>1 DEF PathsInv, Placed, End
  <2> QED
    BY <1>1, <2>1 DEF Placed
<1> QED
  BY <1>7, <1>8, <1>9 DEF PathsInv

\* What the steps of the other tools leave alone.
LEMMA OthersKeep ==
  ASSUME PathsInv, UNCHANGED traversal,
         settled' \subseteq settled, \A e \in settled' : Settled(reference[e].node, store)'
  PROVE  PathsInv'
BY DEF PathsInv, Placed, StillSettled, traversal, NamedIsFound, AsNamed

\* Every step of the read tools, of their client and of Infrahub keeps PathsInv.
LEMMA PathsStep ==
  ASSUME PathsInv, PageInv, [NextRead]_readVars
  PROVE  PathsInv'
<1>1. CASE UNCHANGED <<traversalVars, store>>
  <2>1. \A e \in settled' : Settled(reference[e].node, store)'
    BY <1>1 DEF PathsInv, Placed, StillSettled, traversalVars, traversal, Settled
  <2> QED
    BY <1>1, <2>1, OthersKeep DEF traversalVars
<1>2. CASE Observe
  BY <1>2, OthersKeep DEF Observe, traversal
<1>3. CASE UNCHANGED store /\ AskPaths
  <2>1. PICK a \in Names, b \in Names \cup {Unnamed} :
          reference' = [source |-> a, destination |-> b]
    BY <1>3 DEF AskPaths
  <2>2. reference' \in [End -> Names \cup {Unnamed}] /\ reference'["source"] \in Names
    BY <2>1 DEF End
  <2>3. /\ end' \in [End -> Node \cup {NoNode}]
        /\ end'["source"] = NoNode /\ end'["destination"] = NoNode
        /\ place' = "source" /\ settled' \subseteq End
        /\ \A e \in settled' : Settled(reference[e].node, store)'
    BY <1>3 DEF AskPaths, End, Settled
  <2> QED
    BY <2>2, <2>3 DEF PathsInv, Placed, StillSettled, NamedIsFound
<1>4. ASSUME NEW e \in End, UNCHANGED store, Resolve(e) \/ Unresolved(e)
      PROVE  PathsInv'
  BY <1>4, ResolveKeeps, UnresolvedKeeps
<1>5. CASE UNCHANGED store /\ (Traverse \/ TraverseFails)
  <2>1. /\ place # "idle" /\ UNCHANGED <<reference, end, settled>>
        /\ \/ place = "traverse" /\ place' = "answered"
           \/ place' = "refused" /\ reason' # "resolution"
    BY <1>5 DEF Traverse, TraverseFails, Refuse, End
  <2>2. \A d \in settled' : Settled(reference[d].node, store)'
    BY <1>5, <2>1 DEF PathsInv, Placed, StillSettled, Settled
  <2>3. place = "traverse" => \A e \in End : AsNamed(e)'
    BY <2>1 DEF PathsInv, Placed, StillSettled, AsNamed
  <2> QED
    BY <2>1, <2>2, <2>3 DEF PathsInv, Placed, StillSettled, NamedIsFound
<1>6. CASE Conclude
  BY <1>6 DEF Conclude, PathsInv, Placed, StillSettled, NamedIsFound
<1>7. CASE NodesChange
  BY <1>2, <1>7 DEF NodesChange
<1>8. CASE GetPaths
  BY <1>3, <1>4, <1>5, <1>6, <1>8 DEF GetPaths, TraversalStep
<1>9. CASE SchemaChange \/ GetSchema \/ BeginNodes \/ ReadNodes \/ NodesFail \/ Rest
  BY <1>1, <1>9
  DEF SchemaChange, GetSchema, BeginNodes, Begin, ReadNodes, CheckFilter, CountNodes,
      Count, FetchNodes, Fetch, AnswerNodes, Answer, Client, NextPage, Stop, NodesFail,
      Raise, Rest, Forget, vars
<1> QED
  BY <1>1, <1>7, <1>8, <1>9 DEF NextRead, readVars, vars

\* PathsAsNamed, for all nodes, human-friendly IDs and names a client may use:
\* what a text is taken for is written as the text, because splitting and
\* joining again gives the text back.
THEOREM EndsAreAsNamed == FairReads => []PathsAsNamed
<1>1. PathsInv => PathsAsNamed
  BY DEF PathsInv, Placed, PathsAsNamed, AsNamed
<1>2. PageInv /\ PathsInv /\ [NextRead]_readVars => PathsInv'
  BY PathsStep
<1>3. InitReads => PageInv /\ PathsInv
  BY InitPage, InitPaths DEF InitReads
<1> QED
  BY <1>1, <1>2, <1>3, StepReads, PTL DEF FairReads

\* NamedIsFound, for the same: an unambiguous ID is split into the parts it was
\* joined from, which no other node has.
THEOREM UnambiguousIsFound == FairReads => []NamedIsFound
<1>1. PathsInv => NamedIsFound
  BY DEF PathsInv
<1>2. PageInv /\ PathsInv /\ [NextRead]_readVars => PathsInv'
  BY PathsStep
<1>3. InitReads => PageInv /\ PathsInv
  BY InitPage, InitPaths DEF InitReads
<1> QED
  BY <1>1, <1>2, <1>3, StepReads, PTL DEF FairReads

=============================================================================
