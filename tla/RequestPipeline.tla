--------------------------- MODULE RequestPipeline --------------------------
(***************************************************************************)
(* The middleware stack around every tool call and resource read, and the  *)
(* ASGI layer below it that takes the caller's credentials from the HTTP   *)
(* header.  configure_middleware fixes the order, outermost first:         *)
(*                                                                         *)
(*   credentials > request id > metrics > tracing > error mapping >        *)
(*   Infrahub connection errors > retry > rate limit > scopes >            *)
(*   passthrough gate > read-only gate > audit > cache > size limit > tool *)
(*                                                                         *)
(* A request stays in the outer layers while the inner ones are run again  *)
(* by the retry layer.  Requests interleave wherever the stack awaits.     *)
(***************************************************************************)
EXTENDS Naturals, FiniteSets

CONSTANTS
  Request,       \* slots for requests: the asyncio contexts they run in
  Target,        \* the tools and resources a request may name
  Resource,      \* those of them that are resources
  WriteTool,     \* tools with the tag "write"
  SafeTool,      \* tools annotated read_only_hint or idempotent_hint
  KnownReadOnly, \* ReadOnlyMiddleware._KNOWN_READ_ONLY_TOOLS
  CachedTool,    \* included_tools of the response cache
  Config,        \* the server configurations to consider
  MaxRequests,   \* bound on the requests that arrive
  NoTarget       \* the target of no request

Modes == {"none", "oidc", "token-passthrough", "basic-passthrough"}

\* rate is in tenths of a request per second.
ASSUME ConfigAssumption ==
  Config \subseteq [mode : Modes, readOnly : BOOLEAN, retries : Nat,
                    rate : Nat, burst : Nat, cache : BOOLEAN]

\* The annotations in tools/: what writes is neither read-only nor idempotent.
ASSUME TargetAssumption ==
  /\ Resource \subseteq Target
  /\ WriteTool \subseteq Target /\ WriteTool \cap Resource = {}
  /\ SafeTool \subseteq Target /\ SafeTool \cap WriteTool = {}
  /\ KnownReadOnly \cap WriteTool = {}
  /\ CachedTool \subseteq Target /\ CachedTool \cap WriteTool = {}

ASSUME RequestAssumption == IsFiniteSet(Request)
ASSUME BoundAssumption == MaxRequests \in Nat /\ NoTarget \notin Target

VARIABLES
  config,     \* ServerConfig, frozen at startup
  pc,         \* where each request is in the stack
  target,     \* the tool or resource it names
  header,     \* what the caller sent: nothing, a credential, a scope
  resolved,   \* fastmcp_context is there, so tools resolve by name
  tokenVar,   \* is _passthrough_token set in the request's context?
  basicVar,   \* is _passthrough_basic?
  attempt,    \* retries made by SafeRetryMiddleware
  error,      \* the exception on its way out
  bucket,     \* tokens of the rate limiter
  cached,     \* targets with a response in the cache
  requests,   \* MetricsMiddleware._requests, all methods together
  errors      \* MetricsMiddleware._errors

\* History, for the properties only.
VARIABLES
  executed,   \* times Infrahub executed the tool for the request
  returned,   \* requests that returned a result
  cancelled,  \* requests that were cancelled
  admitted    \* has the rate limiter let anything pass?

contextVars == <<tokenVar, basicVar>>
request     == <<target, header, resolved, attempt, error, executed>>
shared      == <<bucket, cached, admitted>>
metrics     == <<requests, errors, returned, cancelled>>
vars == <<config, pc, contextVars, request, shared, metrics>>

\* "scoped" is an OIDC token with the write scopes.
Header == {"absent", "bearer", "basic", "scoped"}

\* The headers worth telling apart in each mode.
Sent == CASE config.mode = "none" -> {"absent"}
          [] config.mode = "oidc" -> {"absent", "scoped"}
          [] OTHER                -> {"absent", "bearer", "basic"}

\* Exceptions, as the retry layer tells them apart: ConnectionError and the
\* other OSErrors are transient, those of the SDK and of the tools are not.
Failure == {"transient", "permanent"}
Error   == Failure \cup {"none", "throttled", "denied"}

Place == {"idle", "admit", "gate", "running", "succeeded", "failed"}

\* configure_middleware: a rate of 0 is no limiter; a burst of 0 is twice the
\* rate, int(rate_limit_rps * 2).
Limited  == config.rate > 0
Capacity == IF config.burst > 0 THEN config.burst ELSE (2 * config.rate) \div 10

Init ==
  /\ config \in Config
  /\ pc = [r \in Request |-> "idle"]
  /\ target = [r \in Request |-> NoTarget]
  /\ header = [r \in Request |-> "absent"]
  /\ resolved = [r \in Request |-> TRUE]
  /\ tokenVar = [r \in Request |-> FALSE]
  /\ basicVar = [r \in Request |-> FALSE]
  /\ attempt = [r \in Request |-> 0]
  /\ error = [r \in Request |-> "none"]
  /\ bucket = Capacity
  /\ cached = {}
  /\ requests = 0 /\ errors = 0
  /\ executed = [r \in Request |-> 0]
  /\ returned = 0 /\ cancelled = 0
  /\ admitted = FALSE

-----------------------------------------------------------------------------

Passthrough == config.mode \in {"token-passthrough", "basic-passthrough"}

Goto(r, p) == pc' = [pc EXCEPT ![r] = p]

\* The layers between the caller and the retry layer.  Credentials are taken
\* from the header in the passthrough modes only, and one that is absent
\* leaves the ContextVar as it was.
Arrive(r, t, h) ==
  /\ pc[r] = "idle"
  /\ requests < MaxRequests
  /\ h \in Sent
  /\ target' = [target EXCEPT ![r] = t]
  /\ header' = [header EXCEPT ![r] = h]
  /\ \E b \in BOOLEAN : resolved' = [resolved EXCEPT ![r] = b]
  /\ tokenVar' = [tokenVar EXCEPT ![r] =
                    @ \/ (Passthrough /\ h = "bearer")]
  /\ basicVar' = [basicVar EXCEPT ![r] =
                    @ \/ (Passthrough /\ h = "basic")]
  /\ requests' = requests + 1
  /\ Goto(r, "admit")
  /\ UNCHANGED <<config, attempt, error, executed, shared, errors, returned,
                 cancelled>>

\* RateLimitingMiddleware.
Admit(r) ==
  /\ pc[r] = "admit"
  /\ Limited => bucket > 0
  /\ bucket' = IF Limited THEN bucket - 1 ELSE bucket
  /\ admitted' = TRUE
  /\ Goto(r, "gate")
  /\ UNCHANGED <<config, contextVars, request, cached, metrics>>

Fail(r, e) ==
  /\ error' = [error EXCEPT ![r] = e]
  /\ Goto(r, "failed")

Throttle(r) ==
  /\ pc[r] = "admit"
  /\ Limited /\ bucket = 0
  /\ Fail(r, "throttled")
  /\ UNCHANGED <<config, contextVars, target, header, resolved, attempt,
                 executed, shared, metrics>>

\* AuthMiddleware, with restrict_tag on the write tag.
Scoped(r) ==
  config.mode = "oidc" /\ target[r] \in WriteTool => header[r] = "scoped"

\* TokenPassthroughMiddleware.
HasCredential(r) ==
  /\ config.mode = "token-passthrough" => tokenVar[r]
  /\ config.mode = "basic-passthrough" => basicVar[r]

\* ReadOnlyMiddleware: by tag, or, when the name does not resolve, by the list
\* of known read-only tools.  Resources are not its business.
ReadOnlyBlocks(r) ==
  /\ config.readOnly
  /\ target[r] \notin Resource
  /\ IF resolved[r] THEN target[r] \in WriteTool
                    ELSE target[r] \notin KnownReadOnly

Open(r) == Scoped(r) /\ HasCredential(r) /\ ~ReadOnlyBlocks(r)

Deny(r) ==
  /\ pc[r] = "gate" /\ ~Open(r)
  /\ Fail(r, "denied")
  /\ UNCHANGED <<config, contextVars, target, header, resolved, attempt,
                 executed, shared, metrics>>

\* ResponseCachingMiddleware is inside the gates.
Cacheable(r) == config.cache /\ target[r] \in CachedTool \cup Resource

\* Mutant of CacheHit: the cache outside the gates, as ADR 0002 lists it.
CacheHitBeforeGates(r) ==
  /\ pc[r] = "gate"
  /\ Cacheable(r) /\ target[r] \in cached
  /\ Goto(r, "succeeded")
  /\ UNCHANGED <<config, contextVars, request, shared, metrics>>
CacheHit(r) ==
  /\ pc[r] = "gate" /\ Open(r)
  /\ Cacheable(r) /\ target[r] \in cached
  /\ Goto(r, "succeeded")
  /\ UNCHANGED <<config, contextVars, request, shared, metrics>>

CacheMiss(r) ==
  /\ pc[r] = "gate" /\ Open(r)
  /\ ~(Cacheable(r) /\ target[r] \in cached)
  /\ Goto(r, "running")
  /\ UNCHANGED <<config, contextVars, request, shared, metrics>>

\* The tool returns.  Its response is cached unless it is over the size limit,
\* which is inside the cache and raises a ToolError.
Reply(r) ==
  /\ pc[r] = "running"
  /\ executed' = [executed EXCEPT ![r] = @ + 1]
  /\ cached' = IF Cacheable(r) THEN cached \cup {target[r]} ELSE cached
  /\ Goto(r, "succeeded")
  /\ UNCHANGED <<config, contextVars, target, header, resolved, attempt,
                 error, bucket, admitted, metrics>>

Oversize(r) ==
  /\ pc[r] = "running" /\ target[r] \notin Resource
  /\ executed' = [executed EXCEPT ![r] = @ + 1]
  /\ Fail(r, "permanent")
  /\ UNCHANGED <<config, contextVars, target, header, resolved, attempt,
                 shared, metrics>>

\* The tool raises, before or after Infrahub has done what it was asked to.
Break(r) ==
  /\ pc[r] = "running"
  /\ \E n \in {0, 1} : executed' = [executed EXCEPT ![r] = @ + n]
  /\ \E e \in Failure : Fail(r, e)
  /\ UNCHANGED <<config, contextVars, target, header, resolved, attempt,
                 shared, metrics>>

\* Mutant of Safe: every call is retried, as RetryMiddleware would.
SafeOrNot(r) == TRUE
\* SafeRetryMiddleware leaves a tool alone unless its annotations say it is
\* safe; a name that does not resolve has none.  Resource reads are safe.
Safe(r) == target[r] \in Resource \/ (resolved[r] /\ target[r] \in SafeTool)

\* Mutant of MayRetry: one retry too many.
MayRetryOnceMore(r) ==
  Safe(r) /\ error[r] = "transient" /\ attempt[r] <= config.retries
MayRetry(r) ==
  Safe(r) /\ error[r] = "transient" /\ attempt[r] < config.retries

\* Mutants of Retry: it counts the request again, as if the metrics were inside
\* the retry layer; it does not count its attempts.
RetryCounted(r) ==
  /\ pc[r] = "failed" /\ MayRetry(r)
  /\ attempt' = [attempt EXCEPT ![r] = @ + 1]
  /\ error' = [error EXCEPT ![r] = "none"]
  /\ requests' = requests + 1
  /\ Goto(r, "admit")
  /\ UNCHANGED <<config, contextVars, target, header, resolved, executed,
                 shared, errors, returned, cancelled>>
RetryUncounted(r) ==
  /\ pc[r] = "failed" /\ MayRetry(r)
  /\ error' = [error EXCEPT ![r] = "none"]
  /\ Goto(r, "admit")
  /\ UNCHANGED <<config, contextVars, target, header, resolved, attempt,
                 executed, shared, metrics>>
\* After a delay the layers below the retry layer run again.
Retry(r) ==
  /\ pc[r] = "failed" /\ MayRetry(r)
  /\ attempt' = [attempt EXCEPT ![r] = @ + 1]
  /\ error' = [error EXCEPT ![r] = "none"]
  /\ Goto(r, "admit")
  /\ UNCHANGED <<config, contextVars, target, header, resolved, executed,
                 shared, metrics>>

\* The request leaves the stack, and its finally blocks reset what was set.
End(r) ==
  /\ Goto(r, "idle")
  /\ target' = [target EXCEPT ![r] = NoTarget]
  /\ header' = [header EXCEPT ![r] = "absent"]
  /\ resolved' = [resolved EXCEPT ![r] = TRUE]
  /\ tokenVar' = [tokenVar EXCEPT ![r] = FALSE]
  /\ basicVar' = [basicVar EXCEPT ![r] = FALSE]
  /\ attempt' = [attempt EXCEPT ![r] = 0]
  /\ error' = [error EXCEPT ![r] = "none"]
  /\ executed' = [executed EXCEPT ![r] = 0]
  /\ UNCHANGED <<config, shared, requests>>

Return(r) ==
  /\ pc[r] = "succeeded"
  /\ returned' = returned + 1
  /\ End(r)
  /\ UNCHANGED <<errors, cancelled>>

\* The error leaves as an MCPError: InfrahubConnectionMiddleware and
\* ErrorHandlingMiddleware are outside the retry layer.
Raise(r) ==
  /\ pc[r] = "failed" /\ ~MayRetry(r)
  /\ errors' = errors + 1
  /\ End(r)
  /\ UNCHANGED <<returned, cancelled>>

\* CancelledError is no Exception: it passes the handlers but not the finally
\* blocks.
Cancel(r) ==
  /\ pc[r] # "idle"
  /\ cancelled' = cancelled + 1
  /\ End(r)
  /\ UNCHANGED <<errors, returned>>

\* Time passes: the bucket is refilled, cached responses expire.
Refill ==
  /\ bucket < Capacity
  /\ bucket' = bucket + 1
  /\ UNCHANGED <<config, pc, contextVars, request, cached, admitted, metrics>>

Expire(t) ==
  /\ t \in cached
  /\ cached' = cached \ {t}
  /\ UNCHANGED <<config, pc, contextVars, request, bucket, admitted, metrics>>

-----------------------------------------------------------------------------
Step(r) ==
  \/ Admit(r) \/ Throttle(r) \/ Deny(r) \/ CacheHit(r) \/ CacheMiss(r)
  \/ Reply(r) \/ Oversize(r) \/ Break(r) \/ Retry(r) \/ Return(r) \/ Raise(r)

Next ==
  \/ \E r \in Request : \/ \E t \in Target, h \in Header : Arrive(r, t, h)
                        \/ Step(r) \/ Cancel(r)
  \/ Refill
  \/ \E t \in Target : Expire(t)

Spec == Init /\ [][Next]_vars

\* Tools return or raise: every await on Infrahub has the SDK's timeout.
Fairness == \A r \in Request : WF_vars(Step(r))

FairSpec == Spec /\ Fairness

-----------------------------------------------------------------------------
\* Every variable has its type; no request is retried more often than
\* retry_max_attempts and the bucket holds no more than its capacity.
TypeOK ==
  /\ config \in Config
  /\ pc \in [Request -> Place]
  /\ target \in [Request -> Target \cup {NoTarget}]
  /\ header \in [Request -> Header]
  /\ resolved \in [Request -> BOOLEAN]
  /\ tokenVar \in [Request -> BOOLEAN]
  /\ basicVar \in [Request -> BOOLEAN]
  /\ attempt \in [Request -> 0..config.retries]
  /\ error \in [Request -> Error]
  /\ bucket \in 0..Capacity
  /\ cached \subseteq Target
  /\ requests \in 0..MaxRequests
  /\ errors \in Nat /\ returned \in Nat /\ cancelled \in Nat
  /\ executed \in [Request -> Nat]
  /\ admitted \in BOOLEAN

\* SafeRetryMiddleware: whatever breaks and is retried, Infrahub executes a
\* write at most once for a request.
WritesNotReplayed ==
  \A r \in Request : target[r] \in WriteTool => executed[r] <= 1

\* What the caller of a request may do, by what that caller sent.
Entitled(r) ==
  /\ config.mode = "token-passthrough" => header[r] = "bearer"
  /\ config.mode = "basic-passthrough" => header[r] = "basic"
  /\ target[r] \in WriteTool =>
       ~config.readOnly /\ (config.mode = "oidc" => header[r] = "scoped")

\* The gates are closed to whoever is not entitled: no tool runs and nothing is
\* answered, from the cache or on a retry or on credentials that an earlier
\* request left in the context.
Gated ==
  \A r \in Request : pc[r] \in {"running", "succeeded"} => Entitled(r)

Busy == {r \in Request : pc[r] # "idle"}

\* The counters of /metrics add up: each request is counted once, however often
\* it is retried, and as an error only if it raised.
MetricsBalance ==
  requests = errors + returned + cancelled + Cardinality(Busy)

\* Retries are bounded and every request ends.
RequestEnds == \A r \in Request : pc[r] # "idle" ~> pc[r] = "idle"

\* "Max sustained requests per second (0 disables)": the limiter throttles only
\* when there has been traffic.
ThrottledByTraffic ==
  \A r \in Request : error[r] = "throttled" => admitted

=============================================================================
