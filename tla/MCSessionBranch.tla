-------------------------- MODULE MCSessionBranch --------------------------
(* Small instances of SessionBranch for TLC.                               *)
EXTENDS SessionBranchRegister, TLC

CONSTANTS c1, c2, c3, s1, s2, main, Main, b1, b2

\* Two concurrent calls of one session, one call of each of two, or two calls
\* of one beside one of the other.
OneSession  == c1 :> s1 @@ c2 :> s1
TwoSessions == c1 :> s1 @@ c2 :> s2
Contended   == c1 :> s1 @@ c2 :> s1 @@ c3 :> s2

\* "Main" is another spelling of the default branch.
Aliases == [n \in Name |-> IF n = Main THEN main ELSE n]

\* The names the pattern yields: with {hex} several, without placeholders
\* always the same one.
HexPattern   == [d \in 1..MaxDay |-> {b1, b2}]
FixedPattern == [d \in 1..MaxDay |-> {b1}]

\* A pattern that yields the default branch's alias on the second day.
RiskyPattern == [d \in 1..MaxDay |-> IF d = 1 THEN {b1} ELSE {Main}]

\* Calls of one session, and the names of a {hex} pattern, are alike.
Alike == {p @@ q : p \in Permutations({c1, c2}), q \in Permutations({b1, b2})}
=============================================================================
