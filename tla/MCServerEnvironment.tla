------------------------ MODULE MCServerEnvironment ------------------------
(* Small instances of ServerEnvironment for TLC.                           *)
EXTENDS ServerEnvironment

CONSTANTS real1, file1, file2, caller

V == {Blank, real1, file1, file2, caller}

\* A caller may send a blank user name and a blank password.
Sent == {caller, Blank}

Exact(v) == [exact |-> TRUE, value |-> v]
Other(v) == [exact |-> FALSE, value |-> v]

\* What the variables may be in the environment the process is launched with:
\* missing, blank, spelled in another way, or spelled in two.
Environments ==
  [address : {<<>>, <<Exact(real1)>>},
   token : {<<>>, <<Exact(real1)>>, <<Other(real1)>>, <<Exact(Blank)>>,
            <<Exact(Blank), Other(real1)>>},
   username : {<<>>, <<Exact(real1)>>, <<Exact(Blank)>>},
   password : {<<>>, <<Other(real1)>>},
   other : {<<>>, <<Exact(real1)>>}]

\* What they may be in the file: missing, without a value, or given twice.
Files ==
  [address : {<<>>, <<file1>>},
   token : {<<>>, <<file1>>, <<Blank>>, <<Unset, file1, file2>>},
   username : {<<>>, <<file1>>},
   password : {<<>>, <<file1>>},
   other : {<<file1>>}]

Plain == [mode |-> "none", urls |-> FALSE, secret |-> "empty",
          signing |-> "empty", http |-> TRUE]

Modality ==
  {Plain, [Plain EXCEPT !.http = FALSE],
   [Plain EXCEPT !.mode = "token-passthrough"],
   [Plain EXCEPT !.mode = "token-passthrough", !.http = FALSE],
   [Plain EXCEPT !.mode = "basic-passthrough"],
   [Plain EXCEPT !.mode = "oidc", !.urls = TRUE, !.secret = "text"],
   [Plain EXCEPT !.mode = "oidc", !.urls = TRUE, !.secret = "space"],
   [Plain EXCEPT !.mode = "oidc", !.urls = TRUE, !.secret = "space",
                 !.signing = "text"],
   [Plain EXCEPT !.mode = "oidc", !.secret = "text"]}

\* Basic passthrough, with the address and a token in the file.
BasicMode == {[Plain EXCEPT !.mode = "basic-passthrough"]}
Nothing   == {[k \in Key |-> <<>>]}
TokenFile == {[k \in Key |-> IF k \in {"address", "token"} THEN <<file1>> ELSE <<>>]}
=============================================================================
