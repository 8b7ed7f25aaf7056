--------------------------- MODULE MCBranchNaming ---------------------------
(* Small instances of BranchNaming for TLC.                                *)
EXTENDS BranchNaming

\* mcp/session-{date}-{hex}, the default; mcp/{user}; mcp/{user}/work;
\* work-{user}-{hex}; a name without placeholders; mcp+{hex}, which the
\* validator accepts although no branch may be called so; and the empty one.
Patterns ==
  { <<"a", "/", "a", "-", "{date}", "-", "{hex}">>,
    <<"a", "/", "{user}">>,
    <<"a", "/", "{user}", "/", "a">>,
    <<"a", "-", "{user}", "-", "{hex}">>,
    <<"a", "/", "lock">>,
    <<"a", "@", "{hex}">>,
    <<>> }
=============================================================================
