-------------------------- MODULE ServerEnvironment -------------------------
(***************************************************************************)
(* From the launch of the server process to the client library's settings  *)
(* that its requests and health probes use.                                *)
(*                                                                         *)
(* Three readers look at the same variables: load_config when the package  *)
(* is imported, env_get in the guards and client factories, and the        *)
(* settings model of the client library whenever an InfrahubClient is      *)
(* made.  In between, the lifespan copies four variables from a .env file  *)
(* into the process environment.                                           *)
(***************************************************************************)
EXTENDS Naturals, Sequences

CONSTANTS
  Value,     \* the values of a variable, the blank one among them
  Blank,     \* ""
  Unset,     \* Python's None: a variable, or a key of .env, without a value
  RealEnv,   \* the environments the process may be launched with
  DotEnv,    \* the .env files it may find; all empty, too, if disabled
  Settings,  \* the server settings and the transport to consider
  Caller,    \* the values that callers send as tokens, user names, passwords
  NoClient,  \* no client
  NoProvider \* no OIDC proxy

\* The client library's connection variables, and one that stands for all
\* others, INFRAHUB_MCP_* and INFRAHUB_PROXY among them.
Allowed == {"address", "token", "username", "password"}
Key     == Allowed \cup {"other"}

Modes == {"none", "oidc", "token-passthrough", "basic-passthrough"}

\* A setting of the OIDC proxy as it is spelled, "space" being only blanks.
Text == {"empty", "space", "text"}

\* An entry of os.environ under one spelling of a name: the exact, uppercase
\* one or another.  Entries are in the order of os.environ.
Entry == [exact : BOOLEAN, value : Value]

ASSUME ValueAssumption ==
  /\ Blank \in Value /\ Unset \notin Value
  /\ Caller \subseteq Value
ASSUME EnvAssumption ==
  /\ RealEnv \subseteq [Key -> Seq(Entry)]
  /\ DotEnv \subseteq [Key -> Seq(Value \cup {Unset})]
ASSUME SettingsAssumption ==
  Settings \subseteq [mode : Modes, urls : BOOLEAN, secret : Text,
                      signing : Text, http : BOOLEAN]
ASSUME NoneAssumption ==
  /\ NoClient \notin [Allowed -> Value \cup {Unset}]
  /\ NoProvider \notin [secret : BOOLEAN, signing : BOOLEAN]

VARIABLES
  pc,        \* where the process is
  config,    \* ServerConfig, read once
  provider,  \* what create_auth_provider returned
  environ,   \* os.environ
  client,    \* AppContext.client: the settings of the shared client
  answer,    \* the client the last request got
  health     \* the answer to the last probe

\* History, for the properties only.
VARIABLES
  real,      \* the environment the process was launched with
  sent       \* the credential that came with the last request

vars == <<pc, config, provider, environ, client, answer, health, real, sent>>

\* What the ASGI layer takes from a request's header: nothing, a token, which
\* is never blank, or a user name and a password, which both may be.
Nobody == <<>>
Bearer == [{"token"} -> Caller \ {Blank}]
Basic  == [{"username", "password"} -> Caller]
Header == {Nobody} \cup Bearer \cup Basic

Connection == [Allowed -> Value \cup {Unset}]
NoAnswer   == [outcome |-> "none", used |-> NoClient]
Place   == {"down", "loaded", "serving", "refused", "crashed"}

Init ==
  /\ pc = "down"
  /\ config \in Settings
  /\ provider = NoProvider
  /\ environ \in RealEnv /\ real = environ
  /\ client = NoClient
  /\ answer = NoAnswer
  /\ health = "unknown"
  /\ sent = Nobody

-----------------------------------------------------------------------------
(* The readers.                                                            *)

\* Mutant of EnvGet: the lookup os.environ.get alone.
EnvGetExactly(env, k) ==
  IF \E i \in DOMAIN env[k] : env[k][i].exact
  THEN env[k][CHOOSE i \in DOMAIN env[k] : env[k][i].exact].value
  ELSE Unset
\* env_get: the exact spelling, else the first one.
EnvGet(env, k) ==
  IF \E i \in DOMAIN env[k] : env[k][i].exact
  THEN env[k][CHOOSE i \in DOMAIN env[k] : env[k][i].exact].value
  ELSE IF env[k] = <<>> THEN Unset ELSE env[k][1].value

\* The client library's settings model lowers all names: the last entry wins.
SdkGet(env, k) ==
  IF env[k] = <<>> THEN Unset ELSE env[k][Len(env[k])].value

\* Arguments of Config are laid over what the environment says.
SdkConfig(env, given) ==
  [k \in Allowed |-> IF k \in DOMAIN given THEN given[k] ELSE SdkGet(env, k)]

Given(v) == v \notin {Unset, Blank}

\* Its validators: a user name and a password come together, and a password
\* does not come with a token.
SdkAccepts(c) ==
  /\ c["username"] = Unset <=> c["password"] = Unset
  /\ ~(Given(c["token"]) /\ Given(c["password"]))

Passthrough == config.mode \in {"token-passthrough", "basic-passthrough"}

\* Mutant of Validated: without the last check.
ValidatedLoosely(env) ==
  LET Env(k) == EnvGet(env, k) IN
  \/ Passthrough
  \/ /\ Given(Env("address"))
     /\ Given(Env("token")) \/ (Given(Env("username")) /\ Given(Env("password")))
     /\ ~(Given(Env("token")) /\ Given(Env("password")))
\* _validate_env
Validated(env) ==
  LET Env(k) == EnvGet(env, k) IN
  \/ Passthrough
  \/ /\ Given(Env("address"))
     /\ Given(Env("token")) \/ (Given(Env("username")) /\ Given(Env("password")))
     /\ ~(Given(Env("token")) /\ Given(Env("password")))
     /\ Env("username") = Unset <=> Env("password") = Unset

\* The value of the first line that has one, of those of a variable.
First(lines) ==
  {lines[i] : i \in {i \in DOMAIN lines :
     lines[i] # Unset /\ \A j \in 1..(i - 1) : lines[j] = Unset}}

NewEntry(values) == [exact |-> TRUE, value |-> CHOOSE v \in values : TRUE]

\* Mutants of Primed: names are compared as they are spelled; a key without
\* "=" is taken to have a value.
PrimedExactly(env, file) ==
  [k \in Key |->
     IF /\ k \in Allowed /\ First(file[k]) # {}
        /\ \A i \in DOMAIN env[k] : ~env[k][i].exact
     THEN Append(env[k], NewEntry(First(file[k])))
     ELSE env[k]]
PrimedValueless(env, file) ==
  [k \in Key |-> IF k \in Allowed /\ file[k] # <<>> /\ env[k] = <<>>
                 THEN <<NewEntry({file[k][1]})>>
                 ELSE env[k]]
\* _prime_env_from_dotenv: an allowed variable that has no entry under any
\* spelling gets the first value that the file has under one of its spellings.
Primed(env, file) ==
  [k \in Key |-> IF k \in Allowed /\ First(file[k]) # {} /\ env[k] = <<>>
                 THEN <<NewEntry(First(file[k]))>>
                 ELSE env[k]]

-----------------------------------------------------------------------------
(* The process.                                                            *)

Present(t) == t = "text"

\* Mutant of Complete: blanks are not stripped.
CompleteUnstripped(s) ==
  s.mode = "oidc" => s.urls /\ (s.secret # "empty" \/ s.signing # "empty")
\* _validate_auth_requirements
Complete(s) ==
  s.mode = "oidc" => s.urls /\ (Present(s.secret) \/ Present(s.signing))

\* create_auth_provider.  Without a secret the proxy is a public client.
Provider(s) ==
  IF s.mode = "oidc"
  THEN [secret |-> Present(s.secret), signing |-> Present(s.signing)]
  ELSE NoProvider

\* The package is imported and main looks at the transport.
Launch ==
  /\ pc = "down"
  /\ config' \in Settings
  /\ environ' \in RealEnv /\ real' = environ'
  /\ IF Complete(config') /\ (config'.mode # "none" => config'.http)
     THEN pc' = "loaded" /\ provider' = Provider(config')
     ELSE pc' = "refused" /\ provider' = NoProvider
  /\ UNCHANGED <<client, answer, health, sent>>

\* The client is made from env, or none is in the passthrough modes.
MakeClient(env) ==
  CASE Passthrough -> pc' = "serving" /\ client' = NoClient
    [] ~Passthrough /\ SdkAccepts(SdkConfig(env, <<>>)) ->
         pc' = "serving" /\ client' = SdkConfig(env, <<>>)
    [] OTHER -> pc' = "crashed" /\ client' = NoClient

\* Mutant of Start: the client is made before the file is read.
StartUnprimed ==
  /\ pc = "loaded"
  /\ \E file \in DotEnv : environ' = Primed(environ, file)
  /\ IF Validated(environ') THEN MakeClient(environ)
                            ELSE pc' = "refused" /\ client' = NoClient
  /\ UNCHANGED <<config, provider, answer, health, real, sent>>
\* app_lifespan
Start ==
  /\ pc = "loaded"
  /\ \E file \in DotEnv : environ' = Primed(environ, file)
  /\ IF Validated(environ') THEN MakeClient(environ')
                            ELSE pc' = "refused" /\ client' = NoClient
  /\ UNCHANGED <<config, provider, answer, health, real, sent>>

\* Does a request carry what the mode asks for?
Proper(h) == \/ config.mode = "token-passthrough" /\ h \in Bearer
             \/ config.mode = "basic-passthrough" /\ h \in Basic

\* The arguments of Config, from the environment and from the header.
Arguments(env, h) ==
  [k \in DOMAIN h \cup {"address"} |->
     IF k = "address" THEN EnvGet(env, k) ELSE h[k]]

Refusal == [outcome |-> "refused", used |-> NoClient]
Answer(c) == IF SdkAccepts(c) THEN [outcome |-> "client", used |-> c]
                              ELSE [outcome |-> "broken", used |-> NoClient]

\* Mutant of Fresh: the client is kept for the requests to come.
FreshCached(env, h) ==
  CASE answer.outcome = "client" -> answer
    [] /\ answer.outcome # "client"
       /\ Given(EnvGet(env, "address")) /\ Proper(h) ->
         Answer(SdkConfig(env, Arguments(env, h)))
    [] OTHER -> Refusal
\* get_client in the passthrough modes: a client of its own for each request.
Fresh(env, h) ==
  IF Given(EnvGet(env, "address")) /\ Proper(h)
  THEN Answer(SdkConfig(env, Arguments(env, h)))
  ELSE Refusal

\* get_client
Serve(h) ==
  /\ pc = "serving"
  /\ sent' = h
  /\ answer' = IF Passthrough THEN Fresh(environ, h)
                              ELSE [outcome |-> "client", used |-> client]
  /\ UNCHANGED <<pc, config, provider, environ, client, health, real>>

\* health_check: Infrahub answers the fresh client, or it does not.
Probe ==
  /\ pc = "serving"
  /\ \/ Passthrough
        /\ health' = IF Given(EnvGet(environ, "address")) THEN "healthy"
                                                          ELSE "unhealthy"
     \/ ~Passthrough /\ SdkAccepts(SdkConfig(environ, <<>>))
        /\ health' \in {"healthy", "unhealthy"}
     \/ ~Passthrough /\ ~SdkAccepts(SdkConfig(environ, <<>>))
        /\ health' = "unhealthy"
  /\ UNCHANGED <<pc, config, provider, environ, client, answer, real, sent>>

\* The process ends, whatever it was doing.
Stop ==
  /\ pc # "down"
  /\ pc' = "down"
  /\ provider' = NoProvider
  /\ client' = NoClient /\ answer' = NoAnswer /\ health' = "unknown"
  /\ sent' = Nobody
  /\ UNCHANGED <<config, environ, real>>

Next == Launch \/ Start \/ (\E h \in Header : Serve(h)) \/ Probe \/ Stop

Spec == Init /\ [][Next]_vars

-----------------------------------------------------------------------------
\* Every variable has its type.
TypeOK ==
  /\ pc \in Place
  /\ config \in Settings
  /\ provider \in [secret : BOOLEAN, signing : BOOLEAN] \cup {NoProvider}
  /\ environ \in [Key -> Seq(Entry)] /\ real \in [Key -> Seq(Entry)]
  /\ client \in Connection \cup {NoClient}
  /\ answer \in [outcome : {"none", "refused", "broken", "client"},
                 used : Connection \cup {NoClient}]
  /\ health \in {"unknown", "healthy", "unhealthy"}
  /\ sent \in Header

\* "Real environment variables always win over the file", under any spelling,
\* and the file supplies four variables and nothing else.
RealWins ==
  \A k \in Key : real[k] # <<>> \/ k \notin Allowed => environ[k] = real[k]

\* Each variable was spelled in one way only.
OneSpelling == \A k \in Allowed : Len(real[k]) <= 1

\* env_get: "Every guard and client factory in this package must see the same
\* credentials the SDK will".  They do if each variable is spelled in one way;
\* the file never adds another.
SameView ==
  OneSpelling =>
    \A k \in Allowed : EnvGet(environ, k) = SdkGet(environ, k)

\* _validate_env mirrors the validators of the client library: what it lets
\* pass does not fail with an error of the library at startup.
ValidatedStarts == OneSpelling => pc # "crashed"

\* In the modes with shared credentials a probe tells of the very client that
\* requests get: its fresh client has the settings of the shared one, the
\* values of the file included.
ProbedAsServed ==
  pc = "serving" /\ ~Passthrough => client = SdkConfig(environ, <<>>)

\* get_client: "each request's token is used exactly once so that different
\* callers never share credentials".  In the passthrough modes a client has the
\* credential of the request it was made for, which did send one, and none of
\* the other kind beside it.  One case is left out, that of a blank password:
\* the library does not count it, and a token of the environment then stays
\* in the settings (see EnvTokenIgnored).
OwnCredential ==
  Passthrough /\ answer.outcome = "client" =>
    /\ sent # Nobody
    /\ \A k \in DOMAIN sent : answer.used[k] = sent[k]
    /\ "token" \in DOMAIN sent => ~Given(answer.used["password"])
    /\ "password" \in DOMAIN sent /\ Given(sent["password"]) =>
         ~Given(answer.used["token"])

\* The OIDC proxy has a key to sign its tokens with: the check when settings
\* are loaded and the factory agree on what counts as unset.
ProviderSigns ==
  provider # NoProvider => provider.secret \/ provider.signing

-----------------------------------------------------------------------------
(* What the repository says of the program and the program does not do.    *)

\* claude-code.mdx: "In the HTTP token-passthrough and basic-passthrough modes
\* the Infrahub credential comes from the request Authorization header, so a
\* token in .env is ignored."  If it were, a request would be answered as it is
\* in an environment without a token.
EnvTokenIgnored ==
  Passthrough /\ answer # NoAnswer =>
    answer = Fresh([environ EXCEPT !["token"] = <<>>], sent)

=============================================================================
