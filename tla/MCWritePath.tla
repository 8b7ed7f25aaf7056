----------------------------- MODULE MCWritePath ----------------------------
(* Small instances of WritePath for TLC.                                   *)
EXTENDS WritePath

CONSTANTS r1, r2, b1, queryGraphql, mutateGraphql, schemaResource

Plain == [mode |-> "none", readOnly |-> FALSE, retries |-> 0, rate |-> 0,
          burst |-> 0, cache |-> FALSE]

\* Each mode of authentication, with retries, cache and limiter in turn.
Configs ==
  { [Plain EXCEPT !.retries = 1],
    [Plain EXCEPT !.mode = "oidc", !.rate = 10, !.retries = 1],
    [Plain EXCEPT !.mode = "token-passthrough", !.cache = TRUE, !.retries = 1],
    [Plain EXCEPT !.mode = "basic-passthrough", !.readOnly = TRUE,
                  !.burst = 1, !.rate = 10, !.cache = TRUE] }

-----------------------------------------------------------------------------
\* Documents of an operation and of up to two fragments or a second operation,
\* with fields that are nested up to two deep.
Within(kind, sel) == {[s EXCEPT !.within = <<kind>> \o @] : s \in sel}
Selection(kind, n) == [kind |-> kind, name |-> n, within |-> <<>>]
Field(n, sel) == {Selection("field", n)} \cup Within("field", sel)
Inline(sel)   == Within("inline", sel)

Leaves == {Selection("field", "NodeUpsert"), Selection("field", "BranchMerge"),
           Selection("spread", "A"), Selection("spread", "B")}
Nested == UNION {{Inline({s}), Inline(Inline({s})), Field("NodeUpsert", {s}),
                  Inline(Field("NodeUpsert", {s}))} : s \in Leaves}
Single == {{s} : s \in Leaves}
Pairs  == {{s, t} : s, t \in Leaves}

Definition(kinds, names, sels) == [kind : kinds, name : names, sel : sels]
Main == Definition(Operations, {""}, Pairs \cup Nested)
More == Definition({"fragment"}, {"A"}, Single \cup Nested)
          \cup Definition({"mutation"}, {"M"}, Single)
Last == Definition({"fragment"}, {"B"}, Single)

Documents ==
  {{m} : m \in Main} \cup {{m, a} : m \in Main, a \in More}
    \cup {{m, a, b} : m \in Main, a \in More, b \in Last}
=============================================================================
