---------------------------- MODULE BranchNaming ----------------------------
(***************************************************************************)
(* Names of session branches: how a pattern such as                        *)
(* mcp/session-{date}-{hex} is expanded, how the caller's identity is made *)
(* safe for the placeholder {user}, and how a name that a caller asks for  *)
(* is held against the pattern.                                            *)
(*                                                                         *)
(* A name is a sequence of pieces.  "a" is a run of letters, "@" stands for *)
(* what a branch name may not contain, "lock" is that word, "digits" is    *)
(* eight decimal digits and "hex" eight hexadecimal digits that are not    *)
(* all decimal.                                                            *)
(***************************************************************************)
EXTENDS Texts

CONSTANTS
  Pattern,    \* branch patterns: pieces and placeholders
  MaxClaim,   \* bound on the length of an identity
  MaxName     \* bound on the length of a name asked for

Placeholder == {"{date}", "{hex}", "{user}"}
Safe        == {"a", "lock", "digits", "hex", ".", "/", "-"}
Claim       == BoundedSeq({"a", "lock", ".", "/", "-", "@"}, MaxClaim)

\* The validator of a pattern looks at its placeholders only: the text between
\* them may be anything, and there may be none.
ASSUME PatternAssumption ==
  \A p \in Pattern : p \in Seq(Safe \cup {"@"} \cup Placeholder)

VARIABLES
  pattern,  \* branch_pattern
  claim,    \* the caller's identity, as its token has it
  name,     \* a name, or <<>>
  origin    \* where it comes from: nowhere yet, expansion, the caller

vars == <<pattern, claim, name, origin>>

-----------------------------------------------------------------------------
\* sanitize_user_for_branch.

Occurs(x, s) == \E i \in DOMAIN s : s[i] = x

\* s without the y's that stand right after an x.
Kept(s, x, y) == {i \in DOMAIN s : ~(i > 1 /\ s[i] = y /\ s[i-1] = x)}
Thin(s, x, y) == Picked(s, Kept(s, x, y))

Collapse(s, x) == Thin(s, x, x)

ReplaceUnsafe(s) == [i \in DOMAIN s |-> IF s[i] \in Safe THEN s[i] ELSE "-"]

\* Mutant of DropLock: the expression has to match the whole text.
DropLockWhole(s) == IF s = <<".", "lock">> THEN <<>> ELSE s
DropLock(s) ==
  IF IsSuffix(<<".", "lock">>, s) THEN SubSeq(s, 1, Len(s) - 2) ELSE s

\* str.strip("-./")
Strip(s) ==
  LET inner == {i \in DOMAIN s : s[i] \notin {"-", ".", "/"}}
  IN  IF inner = {} THEN <<>> ELSE SubSeq(s, Min(inner), Max(inner))

Named(s) == IF s = <<>> THEN <<"a">> ELSE s  \* "anonymous"

\* Mutant of Sanitize: double slashes are collapsed before "/." is.
SanitizeSlashesFirst(raw) ==
  LET dots    == Collapse(ReplaceUnsafe(raw), ".")
      slashes == Thin(Collapse(dots, "/"), "/", ".")
  IN  Named(Strip(Collapse(DropLock(slashes), "-")))
Sanitize(raw) ==
  LET dots    == Collapse(ReplaceUnsafe(raw), ".")
      slashes == Collapse(Thin(dots, "/", "."), "/")
  IN  Named(Strip(Collapse(DropLock(slashes), "-")))

-----------------------------------------------------------------------------
\* expand_branch_pattern; eight random hexadecimal digits may all be decimal.
Value(x, user, hex) == CASE x = "{date}" -> <<"digits">>
                         [] x = "{hex}"  -> <<hex>>
                         [] x = "{user}" -> user
                         [] OTHER        -> <<x>>
Expansion(p, user, hex) ==
  LET upto[i \in 0..Len(p)] ==
        IF i = 0 THEN <<>> ELSE upto[i-1] \o Value(p[i], user, hex)
  IN  upto[Len(p)]

\* Mutants of Matches: the class of {user} admits the separator; the class of
\* {hex} wants a letter.
MatchesAcross(text, x) ==
  CASE x = "{date}" -> text = <<"digits">>
    [] x = "{hex}"  -> text \in {<<"digits">>, <<"hex">>}
    [] x = "{user}" -> \A i \in DOMAIN text : text[i] \in Safe
    [] OTHER        -> text = <<x>>
MatchesLetter(text, x) ==
  CASE x = "{date}" -> text = <<"digits">>
    [] x = "{hex}"  -> text = <<"hex">>
    [] x = "{user}" -> \A i \in DOMAIN text : text[i] \in Safe \ {"/"}
    [] OTHER        -> text = <<x>>
\* The regular expression for one part of a pattern.
Matches(text, x) ==
  CASE x = "{date}" -> text = <<"digits">>
    [] x = "{hex}"  -> text \in {<<"digits">>, <<"hex">>}
    [] x = "{user}" -> \A i \in DOMAIN text : text[i] \in Safe \ {"/"}
    [] OTHER        -> text = <<x>>

\* branch_name_conforms: part by part, the lengths of the prefixes of n that the
\* parts so far match in full.
Extended(n, lengths, x) ==
  {j \in 1..Len(n) : \E k \in lengths : k < j /\ Matches(SubSeq(n, k+1, j), x)}
Conforms(n, p) ==
  LET lengths[i \in 0..Len(p)] ==
        IF i = 0 THEN {0} ELSE Extended(n, lengths[i-1], p[i])
  IN  n # <<>> /\ n \in Seq(Safe) /\ Len(n) \in lengths[Len(p)]

-----------------------------------------------------------------------------
Init ==
  /\ pattern \in Pattern
  /\ claim \in Claim
  /\ name = <<>>
  /\ origin = "none"

\* A session provisions a branch.  No claim is an anonymous caller.
Provision ==
  /\ origin = "none"
  /\ \E hex \in {"digits", "hex"} :
       name' = Expansion(pattern, Sanitize(claim), hex)
  /\ origin' = "expansion"
  /\ UNCHANGED <<pattern, claim>>

\* A caller, whose identity plays no part in it, asks to switch to a branch.
Ask ==
  /\ origin = "none" /\ claim = <<>>
  /\ name' \in BoundedSeq(Safe \cup {"@"}, MaxName) \ {<<>>}
  /\ origin' = "caller"
  /\ UNCHANGED <<pattern, claim>>

Next == Provision \/ Ask

Spec == Init /\ [][Next]_vars

-----------------------------------------------------------------------------
\* What remains of an identity that keeps a ".lock": it ended in a separator,
\* or in a character replaced by one, which is stripped only after ".lock" is
\* looked for; or it has the word twice, and the suffix is dropped once.
LockLeft(raw) ==
  \/ Last(raw) \in {".", "/", "-", "@"}
  \/ \E i, j \in DOMAIN raw : i < j /\ raw[i] = "lock" /\ raw[j] = "lock"

\* sanitize_user_for_branch "applies the rules from git check-ref-format".  Of
\* all but one of those it names, no rewrite undoes an earlier one: the result
\* has no double dot, slash or hyphen, no component that starts with a dot,
\* nothing unsafe, and no separator at its ends.  The one is a trailing
\* ".lock", which is left at the end of the result in two cases and no other.
RefSafe ==
  LET user == Sanitize(claim)
      pair(x, y) == \E i \in 1..(Len(user) - 1) : user[i] = x /\ user[i+1] = y
  IN  /\ user # <<>> /\ user \in Seq(Safe)
      /\ ~(pair(".", ".") \/ pair("/", "/") \/ pair("-", "-") \/ pair("/", "."))
      /\ {Head(user), Last(user)} \cap {".", "/", "-"} = {}
      /\ IsSuffix(<<".", "lock">>, user) => LockLeft(claim)

\* A name the server drew, and may have to create again on a switch, conforms
\* to the convention it was drawn from unless the pattern is empty or has an
\* unsafe character in its text, or it has {user} and the identity a slash.
\* Then no name that is drawn conforms.
DrawnConforms ==
  origin = "expansion" =>
    (Conforms(name, pattern) <=>
       /\ pattern # <<>>
       /\ ~Occurs("@", pattern)
       /\ ~(Occurs("{user}", pattern) /\ Occurs("/", Sanitize(claim))))

\* A name that conforms has the directories of the pattern: no placeholder
\* reaches across a literal separator.
Slashes(s) == Cardinality({i \in DOMAIN s : s[i] = "/"})
DirectoriesKept ==
  Conforms(name, pattern) => Slashes(name) = Slashes(pattern)

=============================================================================
