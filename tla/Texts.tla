-------------------------------- MODULE Texts -------------------------------
(***************************************************************************)
(* What the server and its libraries do to texts, which are sequences of   *)
(* letters or of larger pieces: str.join and str.split with a separator of *)
(* two underscores, and what is left of a text when some places are taken  *)
(* out of it.                                                              *)
(***************************************************************************)
EXTENDS Integers, SequencesExt

\* The k-th of the numbers in K, and all of them in their order.
Rank(K, i) == Cardinality({j \in K : j <= i})
Kth(K, k)  == CHOOSE i \in K : Rank(K, i) = k
Sorted(K)  == [k \in 1..Cardinality(K) |-> Kth(K, k)]

\* The places of s that are in K.
Picked(s, K) == [k \in 1..Cardinality(K) |-> s[Kth(K, k)]]

-----------------------------------------------------------------------------
Separator == <<"_", "_">>

\* str.join, of one part or more.
Joined(parts) ==
  LET upto[i \in 0..(Len(parts) - 1)] ==
        IF i = 0 THEN parts[1] ELSE upto[i-1] \o Separator \o parts[i+1]
  IN  upto[Len(parts) - 1]

\* Where the separators begin, found from left to right.  They do not overlap.
Double(text, i) == i < Len(text) /\ text[i] = "_" /\ text[i+1] = "_"
Cuts(text) ==
  LET upto[i \in 0..Len(text)] ==
        IF i = 0 THEN {}
        ELSE upto[i-1] \cup (IF Double(text, i) /\ i - 1 \notin upto[i-1]
                             THEN {i} ELSE {})
  IN  upto[Len(text)]

\* Parts that are joined so that nothing else reads the same: none contains a
\* separator, and none but the last ends in an underscore, which would become
\* part of the separator after it.
Tidy(parts) ==
  /\ \A k \in 1..Len(parts) : \A i \in 1..Len(parts[k]) : ~Double(parts[k], i)
  /\ \A k \in 1..(Len(parts) - 1) :
       Len(parts[k]) # 0 => parts[k][Len(parts[k])] # "_"

\* The part of a text between one cut and the next.
Between(text, cuts, k) ==
  SubSeq(text, IF k = 1 THEN 1 ELSE cuts[k-1] + 2,
               IF k > Len(cuts) THEN Len(text) ELSE cuts[k] - 1)

\* Mutant of Split: of several separators only the first counts.
SplitOnce(text) ==
  LET cuts == Sorted({i \in Cuts(text) : \A j \in Cuts(text) : i <= j})
  IN  [k \in 1..(Len(cuts) + 1) |-> Between(text, cuts, k)]
\* str.split
Split(text) ==
  LET cuts == Sorted(Cuts(text))
  IN  [k \in 1..(Len(cuts) + 1) |-> Between(text, cuts, k)]

=============================================================================
