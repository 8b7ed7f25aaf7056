# Infrahub MCP server: TLA+ models and proofs

The repository is an MCP server (Python, asyncio, FastMCP) that lets an agent
read and change an Infrahub instance. Reads go straight to Infrahub. Writes
never touch the default branch: every client session gets a branch of its own,
and a person merges it through a proposed change. This directory models the
parts of the server that keep state or decide something, checks them with TLC
and proves the central safety properties with TLAPS.

Paths without a directory are under `src/src/infrahub_mcp/`.

## 1. The system

### Components

| component | state | operations | what makes it correct |
|---|---|---|---|
| **session branch register** (`utils.py:35-60, 112-133, 198-460`, `tools/write.py`, `tools/session.py`) | `AppContext`: branch per session, lock per session, cached default branch and its lock | provisioning on the first write, validation before each write, replacement of a stale branch, recovery when a write fails, reset, switch, `propose_changes` | no write reaches the default branch or another session's branch; concurrent writes provision one branch; a good branch is never dropped; a lost branch is left and the client is told; locks are released on every path |
| **branch naming** (`utils.py:136-195`, `auth.py:113-189`, `config.py:152-179`) | none | expand a pattern, sanitize an identity, hold a name against the pattern | names are valid refs; what the server draws conforms to the pattern it was drawn from |
| **middleware pipeline** (`middleware.py`) | counters, token bucket, response cache, `ContextVar` of the request id | a stack of interceptors around each request | no write is replayed by the retry layer; gates hold on every path, the cache's included; the counters balance; every request ends |
| **credentials passthrough** (`server.py:300-360`, `auth.py:71-110`, `utils.py:55-110`) | two `ContextVar`s | take the credential from the HTTP header, build a client for the request, reset | a request is served with its own credential or refused |
| **mutation guard, GraphQL tools** (`tools/write.py:65-127`, `tools/gql.py`) | none | scan of the parsed document before anything else | a privileged field is found wherever it is nested; a refused document leaves no branch behind |
| **OIDC provider** (`auth.py:20-64`) | inside FastMCP | assembly | it has a key to sign with whenever the settings were accepted |
| **server assembly and health** (`server.py`) | configuration, the lifespan's `AppContext` | startup, mounting, health and metrics routes | what is validated starts; a probe tells of the client that serves |
| **configuration, command line** (`config.py`, `constants.py`, `_cli.py`) | frozen settings, process environment | validation, priming from `.env` | real variables win over the file, whatever their case; guards and SDK see the same values |
| **node tools** (`tools/nodes.py`) | none | filters, counting, one page | `has_more` and `offset` let a client read all pages and stop |
| **traversal tools** (`traversal.py`, `tools/traversal.py`) | none | resolve node references, path queries | paths are between the nodes the client named, or the call is refused |
| **schema tools and resources** (`schema.py`, `tools/schema.py`, `resources/`) | none | catalog, kind with its filters | the filters they list are those `get_nodes` accepts |
| **serialisation, prompts** | none | formatting | text |

### How they interact

A request enters through the ASGI layer (credentials), passes the middleware
stack in the order of `configure_middleware` and reaches a tool. A write tool
resolves its branch through the session branch register, under the session's
lock; the lock is released; the mutation is sent; if it fails with a message
about a read-only branch, the tool enters the register again to recover. The
register asks branch naming for new names and checks names asked for against
the pattern. All of them await Infrahub through the SDK's client, and at every
await other requests, and people working in Infrahub, get their turn.

### What is hard

* **Stale reads across awaits.** The branch is found writable, the lock is
  released, and only then is the mutation sent (`utils.py:331-343`).
* **Two failing writes, one register.** Recovery looks at the register of now,
  not at the branch its write was sent to (`utils.py:355-369`).
* **A step of several fails.** The stale branch is popped before the new one
  exists (`utils.py:334-336`).
* **Two levels of locks**: a switch holds the session's lock while it takes the
  process-wide lock of the default branch (`utils.py:396`).
* **One branch, several names.** Infrahub may resolve another spelling to the
  default branch (`utils.py:426-433`).
* **Retries under failures that may hide a success** (`middleware.py:533`).
* **An order of rewrites** in which a later one may undo an earlier one
  (`auth.py:157-163`).
* **One environment, three readers** with three ideas of what a variable's name
  is (`config.py:213-282`, and the SDK's settings).
* **One answer worked out twice**, by different walks with awaits in them: the
  filters of a kind (`schema.py:78-109`, `tools/nodes.py:117-123`).
* **Names that are resolved and used later**, of nodes that come and go
  (`traversal.py:143-153`).

`PROJECT.json` lists every hazard at its line with the properties that cover
it, or the reason why none does.

## 2. Modules

| module | models | kind |
|---|---|---|
| `SessionBranch` | the session branch register with its locks and awaits | detailed specification |
| `BranchRegister` | what that component promises, with one-step operations | abstract specification |
| `SessionBranchRegister` | the refinement mapping between them | composition |
| `SessionBranchProofs` | the safety theorems | proofs |
| `SessionBranchRegisterProofs` | the refinement theorem | proofs |
| `RequestPipeline` | middleware stack, credentials layer included | specification |
| `RequestPipelineProofs` | its safety theorems | proofs |
| `Texts` | what is done to texts: joining, splitting at a separator, taking places out | algorithms |
| `TextProofs` | lemmas about `Texts`, recursion and induction | proofs |
| `BranchNaming` | the three naming algorithms | algorithms |
| `BranchNamingProofs` | their theorems | proofs |
| `MutationGuard` | the scans of the GraphQL tools against what Infrahub executes | algorithms |
| `WritePath` | requests through `RequestPipeline` and the tools to the register of `BranchRegister` | composition |
| `WritePathProofs` | both refinements, the guard | proofs |
| `ServerEnvironment` | launch, `.env`, validation, the clients of requests and probes | specification |
| `ServerEnvironmentProofs` | its safety theorems | proofs |
| `Pagination` | `get_nodes` and a client that reads page by page | specification |
| `SchemaFilters` | the filters of a kind, as listed and as checked | specification |
| `Traversal` | node references and path queries, on the nodes of `Pagination` | specification |
| `ReadTools` | one client that uses all three | composition |
| `ReadToolsProofs` | the safety theorems of all four | proofs |
| `MCSessionBranch`, `MCRequestPipeline`, `MCBranchNaming`, `MCWritePath`, `MCServerEnvironment`, `MCReadTools` | values of the constants | model checking |

### SessionBranch

The server is one asyncio process: a tool call runs undisturbed between two
awaits. Each await on Infrahub is two steps. In the first Infrahub handles the
request and leaves its answer in the call's frame (`AnswerGet`, `CreateBranch`,
`RefuseBranch`, `AnswerWrite`). In the second the call resumes with it (`Reuse`,
`Replace`, `Bind`, ...). Taking a lock is a step of its own (`Enter...`), enabled
while the lock is free.

| variable | code |
|---|---|
| `entry` | `AppContext._session_branches` |
| `lock`, `defaultLock` | holders of `_session_locks[s]` and of `_default_branch_lock` |
| `defaultBranch` | `AppContext.default_branch` |
| `pc`, `target`, `old`, `attempt` | where a call is suspended and its local variables |
| `seen`, `result` | an answer of Infrahub the call has not resumed with |
| `status`, `day` | Infrahub's branches, and the date |
| `granted`, `owed`, `spoiled` | history, for the properties only |

`Resolve` maps a name to the branch Infrahub means by it, so that a name may be
another spelling of the default branch. A pattern is the set of names it yields
on a day (`Expand`), and the convention the set it accepts (`Conforming`);
`BranchNaming` has the algorithms behind both. Environment actions are people
who merge, delete and create branches, and the calendar. With `Faults` any
request may fail or be cancelled at any await (`Fail`: the exception leaves
through the `async with` blocks), a creation may reach Infrahub though its reply
does not, and the process may restart (`Restart`: nothing is persisted).

Abstractions. `need_rebase` and other statuses that `_UNWRITABLE_STATUSES` does
not list are "open". The fallback of `get_default_branch` to "main" when no
branch is marked as default is left out: Infrahub always has one. Schema lookups
before a mutation belong to the answer "refused". A mutation whose caller was
cancelled is not executed later, with one exception: a late creation is the
same as somebody else's (`ForeignCreate`). `get_session_info` only reads.
`propose_changes` without a branch fails at once and has no step.

### BranchRegister and the refinement

`BranchRegister` has one register per session. A write is sent to the branch in
the register. The component itself drops a branch only when the branch has not
been writable ever since it was entered. Everything else in the register was
asked for. `SessionBranchRegister` maps `entry` to the register and derives
`sound`, `asked` and `sending` from `spoiled` and from the calls in flight.
`ImplementsRegister` says that the locked and suspended code takes effect as if
each operation were one step between its call and its return.

### RequestPipeline

A request moves `admit` (rate limiter), `gate` (scopes, passthrough gate,
read-only gate, cache), `running` (tool, size limit) and from there to
`succeeded` or `failed`. From `failed` the retry layer sends it to `admit`
again, or it leaves. The order is that of `configure_middleware`; ADR 0002 lists
authorization after caching, and the code has it before (`middleware.py:721-763`).
A configuration is a record drawn in `Init`, as `ServerConfig` is frozen. A
slot of `Request` is the asyncio context that requests run in one after the
other, which is what makes a credential that outlives its request visible.

What comes from FastMCP (token bucket, cache, the retry loop) is modelled from
how the code uses it. In particular the loop of `RetryMiddleware` is taken to
sit in `on_call_tool`, which `SafeRetryMiddleware` overrides and delegates to
(`middleware.py:538`; the unit tests patch the same method). If the library had
its loop in a hook that wraps every request, the override would not keep a write
from being replayed, and `WritesNotReplayed` would say nothing about it.

Request id, tracing, audit, logging, timing, dereferencing and ping record or
announce; they change nothing that another layer reads and have no step.

### BranchNaming

A name is a sequence of pieces: a run of letters, a separator, the word `lock`,
an unsafe character, eight digits. The pieces of a pattern may be any of these,
as the validator of `branch_pattern` looks at its placeholders only. `Sanitize` is `sanitize_user_for_branch`,
rewrite by rewrite; `Expansion` is `expand_branch_pattern`; `Conforms` is the
regular expression of `branch_name_conforms`, as the set of prefix lengths that
the parts of the pattern match. Format specifiers do not occur: the validator of
`branch_pattern` refuses them (`config.py:164-170`).

### MutationGuard and WritePath

A document is a set of definitions, operations and named fragments. A definition
has all selections in it, at any depth: fields, inline fragments, and spreads,
which name a fragment. Each selection has the kinds of the selections around it,
so that the tree is a set and the scan is no recursion. `FieldNames` is
`_collect_field_names`, which goes into whatever has a `selection_set`
(`Entered`); `MutationRefused` and `QueryRefused` are the loops over the
definitions in `write.py:115-127` and `gql.py:57-60`. `Executed` is what GraphQL
makes of an operation and is external: the fields that are in no other field, of
the operation and of the least set of fragments that its spreads reach
(`Fragments`). The guard looks at nested fields too, which are no mutations: it
refuses more than it must, never less.

`WritePath` puts a session's requests through the whole server. It `EXTENDS`
`RequestPipeline` and replaces the single step "the tool runs" by what a tool
does (`Tool`): refuse the document, take the session's branch from the register
(`Reuse`, `DropStale`, `Provision`), send, and recover from a branch that was
merged under the write (`WriteLost`, `DropStale`, `Recovered`). It is shown to
implement both sides: `ImplementsPipeline` (no behaviour the middleware's
specification has not) and `ImplementsRegister` (`BranchRegister` under the
mapping written there). Since `SessionBranch` implements `BranchRegister` as
well, the locks and awaits of that module do not reappear here. `mutate_graphql`
stands for the write tools; the tools that do not take a document skip the
guard, and `propose_changes` and `reset_session_branch` are in `SessionBranch`
only.

Abstractions. What the accepted documents can do is computed once and kept in the
variable `passes`. A mutation that fails halfway counts as done or as not done.

### ServerEnvironment

| variable | code |
|---|---|
| `pc` | the process: `down`, `loaded` (package imported), `serving`, `refused` (a message), `crashed` (an error of the SDK at startup) |
| `config`, `provider` | `_config`, `_auth_provider` |
| `environ` | `os.environ`, for each variable its entries under all spellings, in order |
| `client` | settings of `AppContext.client` |
| `answer`, `health` | the client the last request got, the last probe's status |
| `real`, `sent` | history: the environment at launch, the credential of the last request |

`Launch` is the import (`load_config`, `create_auth_provider`) and the check of
the transport in `main`; `Start` is `app_lifespan`: priming, `_validate_env`, the
shared client. `Serve` is `get_client`, `Probe` the health route. Three readers
differ in what they make of two spellings of a variable: `env_get` takes the
exact one, else the first; the settings model of the SDK takes the last; priming
only asks whether there is one. `OneSpelling` is therefore a condition of
`SameView` and `ValidatedStarts`: with a variable spelled in two ways the
readers disagree, and nothing in the repository says which should win.

Assumed of the SDK (external): explicit arguments are laid over the environment,
names are case-insensitive, and its validators are those that `_validate_env`
says it mirrors. A caller's token is never blank (`server.py:333`); a user name
and a password may be (`_decode_basic`, `server.py:344-360`), and the code takes
them as sent. That makes one exception in `OwnCredential`, which asks that a client
has what its request sent and nothing of the other kind beside it: the SDK does
not count a blank password, and an `INFRAHUB_API_TOKEN` of the process then stays
in the settings (section 5). Of the settings only those that decide something
here are kept; the ranges pydantic checks are not.

### Pagination, SchemaFilters, Traversal and ReadTools

`get_nodes` counts the nodes, then asks for a page, then reports `has_more`
(`tools/nodes.py`). The client does what the tool's description says: it moves
the offset by what it got and stops when `has_more` is not true. Nodes are added
and deleted at every await. A count that fails leaves `total` at -1 and
`has_more` unknown, at which the client stops without having been promised
anything.

Two things are assumed. Infrahub lists nodes in the same order in every query,
although the code asks for none (`Order(disable=True)`); if it did not, no
offset would mean anything. And a query without a limit is one step, although the
SDK may split it into pages of its own. A limit of 0 is excluded: the SDK
makes no page of it. `ReadCompletely` says nothing of a reading under which
one of the nodes that stayed changed its place: an offset cannot do better.
Nodes that come and go behind all of those do not excuse it.

`SchemaFilters` has both walks: `get_schema_detail` reads the kind and then all
peer kinds at once (`FetchPeer`, in any order), `_validate_filters` the peer of
one relationship after the other (`CheckPeer`). A peer kind may be missing. Each
read gets the schema of the moment; the cache that the SDK keeps of schemas is
left out, which allows more.

`Traversal` resolves the source and then the destination, each with an await,
and then asks for paths. A human-friendly ID is a sequence of texts, one or more, that is
written as `Kind__part__part` (`Joined`) and split again at `__` (`Split`, which
finds separators from left to right, as `str.split` does). A text is a sequence
of letters, of which only the underscore matters. `Tidy` are the parts that can
be read back. `Traverse` needs both
nodes to exist at that moment, by their UUIDs. Infrahub may answer with a
`GraphQLError` there, and already while a human-friendly ID is looked for
(`TraverseFails`). Depth, kinds and relationships to
follow are Infrahub's business.

`ReadTools` is one client that makes one call at a time: `get_schema`, then
`get_nodes` with a filter it was told of or another, page by page, or
`find_paths` and `find_reachable` between nodes it heard of at some time.

## 3. Runs

| run | question | bounds |
|---|---|---|
| `one_session` | locks, one branch per recovery, no good branch given up, refinement | 2 calls of 1 session, all tools, faults, 2 names, 2 attempts, 217 000 states |
| `two_sessions` | isolation from the default branch and between sessions | 2 sessions with a call each, an alias of the default branch, a pattern that yields it on day 2 |
| `termination` | every call ends though locks of both levels are contended | 2 calls of a session beside one of another, all switching, faults, fixed pattern, 18 000 states |
| `recovery` | a session leaves a merged branch; every write ends | 2 writes of 1 session, 2 names, 2 attempts, 120 000 states |
| `write_path` | replay, gates, counters, termination, guard, no branch for a refused request, refinement of pipeline and register | 2 requests of a session, 4 configurations, 3 targets, 1 retry, documents of an operation and up to 2 fragments (or a second operation) nested 2 deep, 256 000 states |
| `naming` | three algorithms | identities of up to 5 pieces, names asked for of up to 4, 7 patterns, 191 000 states |
| `reads` | a reading is complete and ends; filters as listed are as accepted; paths between the nodes named | 3 nodes, limits none and 2, 2 changes of nodes and 1 of the schema per reading or call, 3 relationships to 2 peer kinds, 3 filters and none, 5 references, 1.1 million states |
| `startup` | priming, validation, clients and probes | 120 environments, 32 files, 9 settings over all modes and both transports, headers with blank and other credentials, 25 000 states |
| `merged_write`, `reroute`, `slow_limiter`, `env_token` | statements of the repository that the code does not keep (section 5) | the smallest instance that shows it |

Why these bounds. Calls of one session meet only in the register and at its
lock, so two of them give every pair of interleaved steps; a third adds only
another writer of the same register (which the proofs cover, for any number).
For termination it takes three calls: one that holds its session's lock and waits
for the lock of the default branch, one that waits for that session's lock, and
one of another session that holds the lock of the default branch. All three
switch, as nothing else takes both locks. `EnterSwitchGathered`, a switch that
asks for both locks together and gets them in either order, deadlocks here. With writes
in it as well there are two million states, too many for a liveness property
in five minutes; `recovery` has the writes, and `LocksCorrect` says for any calls
that a lock is held only by a call inside the code it guards.
Two names suffice to tell the lost branch from the new one, and two attempts to
have a first, a last and a conflict in between. Two sessions meet at the lock of
the default branch and at the names in Infrahub. Two requests share the bucket,
the cache and, one after the other, a context. Five pieces are enough for every
pair of rewrites in `sanitize_user_for_branch` to meet: each looks at two
neighbours and the ends. Three nodes under a limit of 2 make a reading of two
pages, and two changes can undo each other's effect on the count. Of those nodes
two have the same human-friendly ID, in turn, and two different IDs that are
written alike. The relationships lead to a peer that is there, one that may be
missing and the first again, so that a walk that stops early is seen. The two
fragments are what it takes for a fragment to spread another. A request that
was cancelled or has ended frees its slot for the next. `MaxDay`, `MaxRequests`,
`MaxChanges`, `MaxSchemaChanges`, `MaxClaim` and `MaxName` are the only bounds on
what would otherwise grow; `granted` and `attempt` are bounded by the code. Changes
are counted per reading or call: what changes between two unrelated calls is
another initial state.

`one_session` uses symmetry of the calls and of the branch names: the constants
treat both alike (both calls belong to the one session, the pattern yields both
names), and the run has no liveness property. Deadlock is checked in the
runs of `SessionBranch`, `ReadTools` and `ServerEnvironment`. In `write_path` the arrivals are bounded and in `naming` a
behaviour is one operation, so both do stop, and their configurations say so.

Fairness. `SessionBranch`: weak fairness of `Answer(c) \/ Resume(c)`, since the
SDK answers or times out and the event loop runs what is ready; strong fairness
of taking a lock, since `asyncio.Lock` wakes its waiters first come, first
served, so a waiter cannot be overtaken for ever. People are never obliged to do
anything. `WritePath`: weak fairness of a request's own steps, in the middleware
(`Around`) and in the tool (`Tool`), which await nothing but a timer or Infrahub.
`ReadTools`: weak fairness of reading, and of the refusal of a filter.
`ReadingStops` holds because the changes come to an end (`MaxChanges`); a reader
of a kind that grows faster than it reads does not stop, in the code either.

## 4. Theorems

For any number of sessions, calls and names, any pattern, any aliases and any
number of retries that the settings allow:

* `SessionBranchProofs`: `TypeCorrect`, `LocksCorrect`, `CallsExcludeEachOther`,
  `ProvisionsOnce`, `DefaultProtected`, `SessionsIsolated`, `WritableKept`, all
  from `Invariance == Spec => []IInv`.
* `SessionBranchRegisterProofs`: `RegisterImplemented == Spec => ImplementsRegister`.
* `RequestPipelineProofs`: `TypeCorrect`, `NeverReplayed` and `GatesHold`, from an
  `Invariance` of its own, and `CountersBalance`.
* `ServerEnvironmentProofs`, for any values, environments, files and settings:
  `TypeCorrect`, `FileNeverOverrides`, `ReadersAgree`, `NoCrashAtStartup`,
  `CallersKeepApart`, `ProbesTellOfTheClient` and `ProxyHasAKey`.
* `WritePathProofs`, for any requests, tools and documents: `PipelineImplemented`
  and `WritesKeepRegister`, the two refinements; `PipelineHolds`, which carries the
  theorems of `RequestPipelineProofs` over to the way of a write; `GuardIsTight` and
  `NoBranchWithoutWrite`.
* `BranchNamingProofs`, for any identity, pattern and name, of any length:
  `ReferencesAreSafe`, `DrawnNamesConform` and `DirectoriesAreKept`.
* `ReadToolsProofs`, for any nodes, limits and number of changes: `TypeCorrect`
  and `ReadingIsComplete`; for any schemas and any relationships: `MapIsExact`, and
  `ReadingAmongTools`, which is `ReadingIsComplete` with the other tools around it;
  for any human-friendly IDs and any references: `EndsAreAsNamed` and
  `UnambiguousIsFound`.

So each safety and action property that a passing run checks is also a theorem,
and each refinement.

None of the properties is inductive alone. In `SessionBranchProofs`, `IInv` adds what a suspended call
relies on:

* `Frames`: its frame has a name where one is needed, and an answer only where
  one was asked for.
* `Held`: the register does not move while another call holds the session's
  lock. It needs `LockDiscipline` and gives `ProvisionOnlyWhenUnbound`.
* `DefaultSafe`: nobody merges or deletes the default branch and Infrahub does
  not create a branch that exists, so what a creation returned is not the
  default branch, whatever its name. It gives `DefaultIsolated`.
* `Granted`: the register holds what the session was granted, so what is sent
  is too.
* `SpoiledSeen`: a stale answer about the session's branch stays true for as
  long as the call acts on it. It gives `NoAbandonWritable` and the step `Drop`
  of the refinement.

In `RequestPipelineProofs`, `IInv` adds two conjuncts. `Contexts`: a context variable
is set only by the request that sent such a header, and nothing is left in an
empty slot. `Unrun`: a write that may still run has not run, which is where
`SafeRetryMiddleware` matters. `CountersBalance` counts `Busy`, the requests in
flight, with the cardinality lemmas of `FiniteSetTheorems`.

In `ServerEnvironmentProofs`, `IInv` adds `Grown`: each variable of the
environment is as it was at launch, or had no entry then and has one now, which
the file gave it; so the file never adds a second spelling and all readers see
that one. `Idle` says that a process that is not serving has answered nobody,
which `OwnCredential` needs across a restart in another mode: what was answered and
what was sent belong to one request. `ReadToolsProofs`
has `SchemaInv`: each walk has found exactly the filters of the relationships, or
of the peer kinds, it has passed, as long as the schema has not changed. Both
walks end with the filters of all relationships, so they agree.

For `get_nodes`, `PageInv` in `ReadToolsProofs` says how the client's list lies on the nodes of
Infrahub. `Counted`: it is as long as the offset, and after an answer as the
offset and the page. `Aligned`: in it and in the page, the nodes that stayed have
the places they have in Infrahub, which a change keeps as long as none of them
moves (`ChangeKeeps`). `Told`: a count reaches to the last of them, since their
places are still what they were when it was made, and so does a list after which
`has_more` is false. `Inserted` and `Removed` show that Infrahub lists no node twice, `PageOf`
what a page is. In `ReadTools` a step of another tool leaves all of that alone.

In `WritePathProofs`, `WriteInv` adds two conjuncts. `Underway`: a tool that is past
its start is a write tool whose request is `running`, so the middleware's own steps
do not disturb it, and what it does in the end is a run of `RequestPipeline`.
`Scanned`: no tool holds the effects of a privileged document. It rests on
`ScanIsTight`: whatever fragment an operation reaches is a definition of the
document, and the loop scans every definition, so a field that is executed is a
field that was seen. Which fragments spread which does not matter.

`TextProofs` has what the other proofs need of recursive functions and of texts.
The library's induction theorems cannot be instantiated here, so induction is by
least counterexample: `Least` gets one from the well-foundedness of the natural
numbers, `Upward` makes the induction step of it, and `Recursion` shows that a
function defined along `0..n` exists and follows its definition. `SortedIs`,
`PickedIs`, `JoinedIs` and `CutsAre` say what the operators of `Texts` return.

In `BranchNaming` every behaviour is one operation, so `NameInv` only says where
the name comes from; the work is in the operators. `ThinPairs` says what a rewrite can bring
together: two pieces that stand side by side afterwards stood so before, or what
was between them was taken out. From it each rewrite of `Sanitize` keeps what
those before it established, dots before slashes and both before hyphens.
`LockIsDropped` follows the last two pieces backwards through the rewrites: a
result that ends in `.lock` had another piece behind it, which was stripped later,
or the word again. `DrawnNamesConform` is an equivalence. One way,
`ExpansionConforms` follows the regular expression part by part with the text that
each part was expanded to (`ExpansionParts`). The other way, an unsafe literal
is in every name that is drawn (`UnsafeLeft`), and an identity with a slash gives the
name more slashes than the pattern has (`SlashGained`), while a name that conforms
has as many (`SlashesKept`): a match of a literal has the slash of the pattern, a
match of a placeholder has none.

For the traversal tools, `PathsInv` says that an end that was resolved is a node
written as the client wrote it (`Placed`), and that a node which counts as settled
is still there, the only one with its ID (`StillSettled`). `JoinSplit`, which says that splitting a text and joining
the parts gives the text, makes `PathsAsNamed` true of every ID, tidy or not.
`SplitJoined`, which says that joining tidy parts and splitting the text gives the
parts, makes `NamedIsFound` true. Its proof lays the parts out in the text
(`LaidOut`), shows that the separators begin where parts end and nowhere else
(`Ends`), and that no other set of places is found from left to right
(`CutsAlone`).

The proofs go action by action, and under each action by the conjuncts it can
disturb. They assume what the modules `ASSUME`: every call has a session, the
default branch's name resolves to itself, `None` is no name and no call, the
retry limit is in the validated range, requests are finitely many, settings
have the types that `ServerConfig` validates, what a tool's annotations call
read-only is no write, a spread has no selections of its own
(`DocumentAssumption`), a pattern is a sequence of pieces, safe or not
(`PatternAssumption`), a blank value is a value and `None` is none
(`ValueAssumption`), a human-friendly ID has at least one part and the name
of a kind no underscore (`HfidAssumption`), the environment and the file have the
types written in `EnvAssumption`, and reserved filter keys are words that no
filter, ending in `__value`, can be. TLC evaluates those assumptions in
every run.

Only model-checked: the liveness properties (`CallTerminates`,
`MergedBranchLeft`, `RequestEnds`, `ReadingStops`), which need fairness and
ENABLED, out of the prover's reach. The refinements are of safety: neither
`RequestPipeline!Spec` nor the abstract register states fairness.

## 5. What the code does and its documents do not say

1. `merged_write` (`utils.py:363`). Two writes fail on the same merged branch.
   The first to recover clears the register; for the second the register is empty,
   so it gets the plain GraphQL error, not the request to retry that the
   specification of the feature promises.
2. `reroute` (`utils.py:334`). The stale branch is dropped, the new one
   cannot be created, and the next write binds a branch as if it were the
   session's first. Nobody is told of both branches.
3. `slow_limiter` (`middleware.py:690`). Below half a request per second the
   automatic burst truncates to 0 and every request is throttled.
4. `env_token` (`utils.py:95`, `utils.py:85`). In the passthrough modes a
   credential of the other kind in the environment or in `.env` is not ignored:
   `Config` merges it with the caller's, its validators refuse the mix, and every
   request fails with an error of the SDK. Startup lets it pass
   (`server.py:55-56`) and probes report healthy. With a blank Basic password, which
   the server accepts (`server.py:344-360`,
   `tests/unit/test_token_passthrough.py:562-566`) and those validators do not count,
   the request does get a client, with the `INFRAHUB_API_TOKEN` of the process still
   in its settings. `OwnCredential` leaves that case out and says so.

Lesser ones have no run.

* With a pattern whose only placeholder is `{date}`, every name drawn on the day
  of the merge is the merged branch's, so recovery fails that day; the message at
  `utils.py:254-255` recommends `{hex}` or `{date}`.
* `a.lock.` is sanitized to `a.lock`: the suffix is looked for (`auth.py:161`)
  before the trailing dot is stripped (`auth.py:163`). So is `a.lock.lock`, of which
  one suffix is dropped. The docstring says "Strip a trailing ``.lock`` suffix."
  (`auth.py:150`), and so does `docs/docs/references/authentication.mdx:150`.
  `RefSafe` states when the suffix is left (`LockLeft`), and that it is left in no
  other case.
* The text of a pattern between its placeholders is not validated
  (`config.py:152-180`): `mcp+{hex}` is accepted, and so is the empty pattern, but
  every name drawn from them is refused when a switch asks for it (`utils.py:145,164`).
* An identity with a slash yields a name that its own pattern refuses
  (`utils.py:151`), though placeholders are said to "match the shape they generate"
  (`utils.py:159`). `DrawnConforms` states exactly which names pass: all that are
  drawn, but for this case and the one before.
* The page on branch isolation recommends merging a branch to free a fixed name
  (`docs/docs/use-cases/safe-changes-branch-isolation.mdx:92`), but a merged
  branch keeps its name. The same page says (line 62) that startup fails on a taken
  fixed name; it is the first write that does.
* With a variable spelled in two ways, `env_get` takes the exact or the first
  spelling and the SDK the last, against `env_get`'s promise that all see the same
  (`config.py:217-219`); `SameView` states the case of one spelling.
* A human-friendly ID cannot be read back if a part other than the last ends in an
  underscore, as the separator is then found one place early; the docstring
  (`traversal.py:62-64`) speaks only of parts that contain `__`. `NamedIsFound`
  states the case of neither.
* The remediation at `tools/traversal.py:18` and the docstring at
  `traversal.py:59-60` say that `get_nodes` emits references that can be resolved;
  it lists display labels (`tools/nodes.py:279`), which in general cannot.

## 6. Not modelled

Rendering of schemas and nodes, prompts, the list of branches and `search_nodes`
have no state and no property beyond their text or their one query. Of the
middleware, request id, tracing, audit, logging, timing and ping record or
announce; listing tools, and hiding those that write, is the read-only gate's
decision once more, taken on a list. The metrics route renders counters, the OAuth
discovery intercept answers 404 for fixed paths. The settings' types and ranges
are declarations to pydantic. The authorization flow of the OIDC proxy, the token
bucket, the cache and the retry loop belong to FastMCP. Release scripts and
`tasks.py` are developer tooling.

## 7. Plan

What could follow, the most useful first:

1. The cache that the SDK keeps of schemas, and what a client may rely on when
   the schema changes under it.
2. Listing of tools in read-only mode, against what a call of each would be
   refused.
