----------------------- MODULE RequestPipelineProofs -----------------------
(***************************************************************************)
(* The safety properties of RequestPipeline, for any number of requests,   *)
(* any tools and any configurations.                                       *)
(*                                                                         *)
(* Gated and WritesNotReplayed are not inductive.  Contexts adds that a    *)
(* ContextVar is set only by the request that is in its context, and that  *)
(* an empty context has nothing in it; Unrun adds that a write that may    *)
(* still run has not run, which is so because no write is retried.         *)
(***************************************************************************)
EXTENDS RequestPipeline, FiniteSetTheorems, TLAPS

Contexts ==
  \A r \in Request :
    /\ tokenVar[r] => header[r] = "bearer"
    /\ basicVar[r] => header[r] = "basic"
    /\ pc[r] = "idle" => /\ ~tokenVar[r] /\ ~basicVar[r]
                         /\ attempt[r] = 0 /\ executed[r] = 0

Unrun ==
  \A r \in Request :
    pc[r] \in {"admit", "gate", "running"} /\ target[r] \in WriteTool =>
      executed[r] = 0

IInv == TypeOK /\ Contexts /\ Unrun /\ WritesNotReplayed /\ Gated

-----------------------------------------------------------------------------

LEMMA CapacityNat ==
  ASSUME TypeOK
  PROVE  Capacity \in Nat
<1>1. config.burst \in Nat /\ config.rate \in Nat
  BY ConfigAssumption DEF TypeOK
<1> QED
  BY <1>1 DEF Capacity

\* Every step preserves the types.
LEMMA Typing ==
  ASSUME TypeOK, Contexts, [Next]_vars
  PROVE  TypeOK'
<1> USE TargetAssumption, BoundAssumption DEF TypeOK, Place, Header, Error,
  Failure, Goto, Fail, contextVars, request, shared, metrics
<1>1. Capacity \in Nat
  BY CapacityNat
<1>2. config' = config => Capacity' = Capacity
  BY DEF Capacity
<1>3. config.retries \in Nat
  BY ConfigAssumption
<1>4. ASSUME NEW r \in Request, NEW t \in Target, NEW h \in Header,
             Arrive(r, t, h)
      PROVE  TypeOK'
  <2>1. tokenVar' \in [Request -> BOOLEAN] /\ basicVar' \in [Request -> BOOLEAN]
    BY <1>4, Zenon DEF Arrive
  <2> QED
    BY <1>4, <1>1, <1>2, <2>1 DEF Arrive
<1>5. ASSUME NEW r \in Request, Admit(r)
      PROVE  TypeOK'
  BY <1>5, <1>1, <1>2 DEF Admit
<1>6. ASSUME NEW r \in Request, Throttle(r) \/ Deny(r)
      PROVE  TypeOK'
  BY <1>6, <1>1, <1>2 DEF Throttle, Deny
<1>7. ASSUME NEW r \in Request, CacheHit(r) \/ CacheMiss(r)
      PROVE  TypeOK'
  BY <1>7, <1>1, <1>2 DEF CacheHit, CacheMiss
<1>8. ASSUME NEW r \in Request, Reply(r)
      PROVE  TypeOK'
  <2>1. Cacheable(r) => target[r] \in Target
    BY DEF Cacheable
  <2> QED
    BY <1>8, <1>1, <1>2, <2>1 DEF Reply
<1>9. ASSUME NEW r \in Request, Oversize(r) \/ Break(r)
      PROVE  TypeOK'
  BY <1>9, <1>1, <1>2 DEF Oversize, Break
<1>10. ASSUME NEW r \in Request, Retry(r)
       PROVE  TypeOK'
  BY <1>10, <1>1, <1>2, <1>3 DEF Retry, MayRetry
<1>11. ASSUME NEW r \in Request, Return(r) \/ Raise(r) \/ Cancel(r)
       PROVE  TypeOK'
  <2>1. End(r)
    BY <1>11 DEF Return, Raise, Cancel
  <2>2. errors' \in Nat /\ returned' \in Nat /\ cancelled' \in Nat
    BY <1>11 DEF Return, Raise, Cancel
  <2>3. tokenVar' \in [Request -> BOOLEAN] /\ basicVar' \in [Request -> BOOLEAN]
    BY <2>1, Zenon DEF End
  <2>4. resolved' \in [Request -> BOOLEAN]
    BY <2>1, Zenon DEF End
  <2> QED
    BY <2>1, <2>2, <2>3, <2>4, <1>1, <1>2, <1>3 DEF End
<1>12. ASSUME Refill
       PROVE  TypeOK'
  BY <1>12, <1>1, <1>2 DEF Refill
<1>13. ASSUME NEW t \in Target, Expire(t)
       PROVE  TypeOK'
  BY <1>13, <1>1, <1>2 DEF Expire
<1>14. CASE UNCHANGED vars
  BY <1>14, <1>1, <1>2 DEF vars
<1> QED
  BY <1>4, <1>5, <1>6, <1>7, <1>8, <1>9, <1>10, <1>11, <1>12, <1>13, <1>14
     DEF Next, Step

\* The steps of a request leave the frames of the others alone.
Other(r) ==
  \A q \in Request \ {r} :
    /\ pc'[q] = pc[q] /\ target'[q] = target[q] /\ header'[q] = header[q]
    /\ (tokenVar'[q] <=> tokenVar[q]) /\ (basicVar'[q] <=> basicVar[q])
    /\ attempt'[q] = attempt[q] /\ executed'[q] = executed[q]

LEMMA OthersUntouched ==
  ASSUME TypeOK, NEW r \in Request,
         \/ \E t \in Target, h \in Header : Arrive(r, t, h)
         \/ Step(r) \/ Cancel(r)
  PROVE  Other(r)
<1> USE DEF TypeOK, Other, Goto, Fail, contextVars, request, shared, metrics
<1>1. ASSUME NEW t \in Target, NEW h \in Header, Arrive(r, t, h)
      PROVE  Other(r)
  BY <1>1, Zenon DEF Arrive
<1>2. CASE Admit(r) \/ Throttle(r) \/ Deny(r) \/ CacheHit(r) \/ CacheMiss(r)
  BY <1>2, Zenon DEF Admit, Throttle, Deny, CacheHit, CacheMiss
<1>3. CASE Reply(r) \/ Oversize(r) \/ Break(r) \/ Retry(r)
  BY <1>3, Zenon DEF Reply, Oversize, Break, Retry
<1>4. CASE Return(r) \/ Raise(r) \/ Cancel(r)
  <2>1. End(r)
    BY <1>4 DEF Return, Raise, Cancel
  <2> QED
    BY <2>1, Zenon DEF End
<1> QED
  BY <1>1, <1>2, <1>3, <1>4 DEF Step

\* Time passes, and the requests stay as they are.
Still ==
  /\ \A q \in Request :
       /\ pc'[q] = pc[q] /\ target'[q] = target[q] /\ header'[q] = header[q]
       /\ (tokenVar'[q] <=> tokenVar[q]) /\ (basicVar'[q] <=> basicVar[q])
       /\ attempt'[q] = attempt[q] /\ executed'[q] = executed[q]
  /\ config' = config

LEMMA StillSteps ==
  ASSUME Refill \/ (\E t \in Target : Expire(t)) \/ UNCHANGED vars
  PROVE  Still
BY DEF Refill, Expire, vars, Still, contextVars, request, metrics, shared

\* A ContextVar is set by the request in its context and reset when it leaves.
LEMMA ContextsKept ==
  ASSUME TypeOK, Contexts, [Next]_vars
  PROVE  Contexts'
<1>1. CASE Refill \/ (\E t \in Target : Expire(t)) \/ UNCHANGED vars
  BY <1>1, StillSteps DEF Still, Contexts
<1>2. ASSUME NEW r \in Request,
             \/ \E t \in Target, h \in Header : Arrive(r, t, h)
             \/ Step(r) \/ Cancel(r)
      PROVE  Contexts'
  <2> DEFINE Context == /\ tokenVar'[r] => header'[r] = "bearer"
                        /\ basicVar'[r] => header'[r] = "basic"
                        /\ pc'[r] = "idle" =>
                             /\ ~tokenVar'[r] /\ ~basicVar'[r]
                             /\ attempt'[r] = 0 /\ executed'[r] = 0
  <2>1. Other(r)
    BY <1>2, OthersUntouched
  <2>2. ASSUME NEW t \in Target, NEW h \in Header, Arrive(r, t, h)
        PROVE  Context
    <3>1. /\ tokenVar'[r] <=> tokenVar[r] \/ (Passthrough /\ h = "bearer")
          /\ basicVar'[r] <=> basicVar[r] \/ (Passthrough /\ h = "basic")
      BY <2>2, Zenon DEF Arrive, TypeOK
    <3>2. header'[r] = h /\ pc'[r] = "admit"
      BY <2>2 DEF Arrive, Goto, TypeOK
    <3>3. ~tokenVar[r] /\ ~basicVar[r]
      BY <2>2 DEF Arrive, Contexts
    <3> QED
      BY <3>1, <3>2, <3>3
  <2>3. ASSUME \/ Admit(r) \/ Throttle(r) \/ Deny(r) \/ CacheHit(r) \/ CacheMiss(r)
               \/ Reply(r) \/ Oversize(r) \/ Break(r) \/ Retry(r)
        PROVE  Context
    <3>1. UNCHANGED <<contextVars, header>> /\ pc'[r] # "idle"
      BY <2>3 DEF Admit, Throttle, Deny, CacheHit, CacheMiss, Reply, Oversize,
        Break, Retry, Fail, Goto, TypeOK, request
    <3> QED
      BY <3>1 DEF Contexts, contextVars
  <2>4. ASSUME Return(r) \/ Raise(r) \/ Cancel(r)
        PROVE  Context
    <3>1. End(r)
      BY <2>4 DEF Return, Raise, Cancel
    <3>2. ~tokenVar'[r] /\ ~basicVar'[r]
      BY <3>1, Zenon DEF End, TypeOK
    <3>3. attempt'[r] = 0 /\ executed'[r] = 0
      BY <3>1 DEF End, TypeOK
    <3> QED
      BY <3>2, <3>3
  <2>5. Context
    BY <1>2, <2>2, <2>3, <2>4 DEF Step
  <2> QED
    BY <2>1, <2>5 DEF Contexts, Other
<1> QED
  BY <1>1, <1>2 DEF Next

\* A retried request is no write, so a write that may run has not run.
LEMMA RunsKept ==
  ASSUME TypeOK, Contexts, Unrun, WritesNotReplayed, [Next]_vars
  PROVE  Unrun' /\ WritesNotReplayed'
<1>1. CASE Refill \/ (\E t \in Target : Expire(t)) \/ UNCHANGED vars
  BY <1>1, StillSteps DEF Still, Unrun, WritesNotReplayed
<1>2. ASSUME NEW r \in Request,
             \/ \E t \in Target, h \in Header : Arrive(r, t, h)
             \/ Step(r) \/ Cancel(r)
      PROVE  Unrun' /\ WritesNotReplayed'
  <2> DEFINE Once == target'[r] \in WriteTool =>
                       /\ pc'[r] \in {"admit", "gate", "running"} => executed'[r] = 0
                       /\ executed'[r] <= 1
  <2> USE DEF TypeOK, Goto, Fail
  <2>1. Other(r)
    BY <1>2, OthersUntouched
  <2>2. ASSUME NEW t \in Target, NEW h \in Header, Arrive(r, t, h)
        PROVE  Once
    BY <2>2 DEF Arrive, Contexts
  <2>3. ASSUME Admit(r) \/ Throttle(r) \/ Deny(r) \/ CacheHit(r) \/ CacheMiss(r)
        PROVE  Once
    BY <2>3 DEF Admit, Throttle, Deny, CacheHit, CacheMiss, request, Unrun,
      WritesNotReplayed
  <2>4. ASSUME Reply(r) \/ Oversize(r) \/ Break(r)
        PROVE  Once
    <3>1. target'[r] = target[r] /\ pc[r] = "running"
          /\ pc'[r] \in {"succeeded", "failed"}
          /\ executed'[r] \in {executed[r], executed[r] + 1}
      BY <2>4 DEF Reply, Oversize, Break
    <3> QED
      BY <3>1 DEF Unrun
  <2>5. ASSUME Retry(r)
        PROVE  Once
    <3>1. target'[r] = target[r] /\ Safe(r)
      BY <2>5 DEF Retry, MayRetry
    <3> QED
      BY <3>1, TargetAssumption DEF Safe
  <2>6. ASSUME Return(r) \/ Raise(r) \/ Cancel(r)
        PROVE  Once
    <3>1. End(r)
      BY <2>6 DEF Return, Raise, Cancel
    <3> QED
      BY <3>1 DEF End
  <2>7. Once
    BY <1>2, <2>2, <2>3, <2>4, <2>5, <2>6 DEF Step
  <2> QED
    BY <2>1, <2>7 DEF Unrun, WritesNotReplayed, Other
<1> QED
  BY <1>1, <1>2 DEF Next

\* Whoever passes the gates is entitled, and what passed once stays so.
LEMMA OpenEntitles ==
  ASSUME TypeOK, Contexts, NEW r \in Request, Open(r)
  PROVE  Entitled(r)
<1>1. config.mode = "token-passthrough" => header[r] = "bearer"
  BY DEF Open, HasCredential, Contexts
<1>2. config.mode = "basic-passthrough" => header[r] = "basic"
  BY DEF Open, HasCredential, Contexts
<1>3. target[r] \in WriteTool => ~config.readOnly
  BY TargetAssumption DEF Open, ReadOnlyBlocks, TypeOK
<1>4. target[r] \in WriteTool => (config.mode = "oidc" => header[r] = "scoped")
  BY DEF Open, Scoped
<1> QED
  BY <1>1, <1>2, <1>3, <1>4 DEF Entitled

LEMMA GatesKept ==
  ASSUME TypeOK, Contexts, Gated, [Next]_vars
  PROVE  Gated'
<1>1. CASE Refill \/ (\E t \in Target : Expire(t)) \/ UNCHANGED vars
  BY <1>1, StillSteps DEF Still, Gated, Entitled
<1>2. ASSUME NEW r \in Request,
             \/ \E t \in Target, h \in Header : Arrive(r, t, h)
             \/ Step(r) \/ Cancel(r)
      PROVE  Gated'
  <2> DEFINE Passed == pc'[r] \in {"running", "succeeded"} => Entitled(r)'
  <2> USE DEF TypeOK, Goto, Fail
  <2>1. Other(r)
    BY <1>2, OthersUntouched
  <2>2. config' = config
    BY <1>2 DEF Step, Arrive, Admit, Throttle, Deny, CacheHit, CacheMiss, Reply,
      Oversize, Break, Retry, Return, Raise, Cancel, End
  <2>3. ASSUME \/ \E t \in Target, h \in Header : Arrive(r, t, h)
               \/ Admit(r) \/ Throttle(r) \/ Deny(r) \/ Oversize(r) \/ Break(r)
               \/ Retry(r) \/ Return(r) \/ Raise(r) \/ Cancel(r)
        PROVE  Passed
    <3>1. pc'[r] \notin {"running", "succeeded"}
      BY <2>3 DEF Arrive, Admit, Throttle, Deny, Oversize, Break, Retry, Return,
        Raise, Cancel, End
    <3> QED
      BY <3>1
  <2>4. ASSUME CacheHit(r) \/ CacheMiss(r) \/ Reply(r)
        PROVE  Passed
    <3>1. Entitled(r)
      BY <2>4, OpenEntitles DEF CacheHit, CacheMiss, Reply, Gated
    <3>2. UNCHANGED <<target, header>>
      BY <2>4 DEF CacheHit, CacheMiss, Reply, request
    <3> QED
      BY <2>2, <3>1, <3>2 DEF Entitled
  <2>5. Passed
    BY <1>2, <2>3, <2>4 DEF Step
  <2> QED
    BY <2>1, <2>2, <2>5 DEF Gated, Entitled, Other
<1> QED
  BY <1>1, <1>2 DEF Next

\* Each request is counted when it arrives and again when it leaves.
LEMMA BalanceKept ==
  ASSUME TypeOK, MetricsBalance, [Next]_vars
  PROVE  MetricsBalance'
<1> USE DEF TypeOK
<1>1. IsFiniteSet(Busy) /\ Cardinality(Busy) \in Nat
  <2>1. Busy \subseteq Request
    BY DEF Busy
  <2> QED
    BY <2>1, RequestAssumption, FS_Subset, FS_CardinalityType
<1>2. ASSUME NEW r \in Request, NEW t \in Target, NEW h \in Header,
             Arrive(r, t, h)
      PROVE  MetricsBalance'
  <2>1. Busy' = Busy \cup {r} /\ r \notin Busy
    BY <1>2 DEF Arrive, Busy, Goto
  <2>2. Cardinality(Busy') = Cardinality(Busy) + 1
    BY <2>1, <1>1, FS_AddElement
  <2>3. requests' = requests + 1 /\ UNCHANGED <<errors, returned, cancelled>>
    BY <1>2 DEF Arrive
  <2> QED
    BY <2>2, <2>3, <1>1 DEF MetricsBalance
<1>3. ASSUME NEW r \in Request, Return(r) \/ Raise(r) \/ Cancel(r)
      PROVE  MetricsBalance'
  <2>1. End(r) /\ pc[r] # "idle"
    BY <1>3 DEF Return, Raise, Cancel
  <2>2. Busy' = Busy \ {r} /\ r \in Busy
    BY <2>1 DEF End, Busy, Goto
  <2>3. Cardinality(Busy') = Cardinality(Busy) - 1
    BY <2>2, <1>1, FS_RemoveElement
  <2>4. requests' = requests
    BY <2>1 DEF End
  <2>5. errors' + returned' + cancelled' = errors + returned + cancelled + 1
    BY <1>3 DEF Return, Raise, Cancel
  <2> QED
    BY <2>3, <2>4, <2>5, <1>1 DEF MetricsBalance
<1>4. ASSUME NEW r \in Request,
             \/ Admit(r) \/ Throttle(r) \/ Deny(r) \/ CacheHit(r) \/ CacheMiss(r)
             \/ Reply(r) \/ Oversize(r) \/ Break(r) \/ Retry(r)
      PROVE  MetricsBalance'
  <2>1. UNCHANGED metrics
    BY <1>4 DEF Admit, Throttle, Deny, CacheHit, CacheMiss, Reply, Oversize,
      Break, Retry
  <2>2. pc[r] # "idle" /\ pc'[r] # "idle"
    BY <1>4 DEF Admit, Throttle, Deny, CacheHit, CacheMiss, Reply, Oversize,
      Break, Retry, Fail, Goto
  <2>3. Other(r)
    BY <1>4, OthersUntouched DEF Step
  <2>4. Busy' = Busy
    BY <2>2, <2>3 DEF Busy, Other
  <2> QED
    BY <2>1, <2>4 DEF MetricsBalance, metrics
<1>5. CASE Refill \/ (\E t \in Target : Expire(t)) \/ UNCHANGED vars
  <2>1. UNCHANGED metrics /\ pc' = pc
    BY <1>5 DEF Refill, Expire, vars
  <2> QED
    BY <2>1 DEF MetricsBalance, metrics, Busy
<1> QED
  BY <1>2, <1>3, <1>4, <1>5 DEF Next, Step

-----------------------------------------------------------------------------

THEOREM Invariance == Spec => []IInv
<1>1. Init => IInv
  <2> SUFFICES ASSUME Init PROVE IInv
    OBVIOUS
  <2>1. Capacity \in Nat
    <3>1. config.burst \in Nat /\ config.rate \in Nat
      BY ConfigAssumption DEF Init
    <3> QED
      BY <3>1 DEF Capacity
  <2>2. config.retries \in Nat
    BY ConfigAssumption DEF Init
  <2>3. TypeOK
    <3>1. attempt \in [Request -> 0..config.retries]
      BY <2>2 DEF Init
    <3>2. bucket \in 0..Capacity
      BY <2>1 DEF Init
    <3>3. requests \in 0..MaxRequests
      BY BoundAssumption DEF Init
    <3>4. /\ pc \in [Request -> Place]
          /\ target \in [Request -> Target \cup {NoTarget}]
          /\ header \in [Request -> Header]
          /\ error \in [Request -> Error]
      BY DEF Init, Place, Header, Error
    <3>5. /\ resolved \in [Request -> BOOLEAN]
          /\ tokenVar \in [Request -> BOOLEAN]
          /\ basicVar \in [Request -> BOOLEAN]
          /\ executed \in [Request -> Nat]
      BY DEF Init
    <3> QED
      BY <3>1, <3>2, <3>3, <3>4, <3>5 DEF Init, TypeOK
  <2>4. Contexts /\ Unrun /\ WritesNotReplayed /\ Gated
    BY DEF Init, Contexts, Unrun, WritesNotReplayed, Gated
  <2> QED
    BY <2>3, <2>4 DEF IInv
<1>2. IInv /\ [Next]_vars => IInv'
  BY Typing, ContextsKept, RunsKept, GatesKept DEF IInv
<1> QED
  BY <1>1, <1>2, PTL DEF Spec

\* All variables keep their types; no request is retried more often than
\* retry_max_attempts (SafeRetryMiddleware), the bucket stays in its bounds.
THEOREM TypeCorrect == Spec => []TypeOK
<1>1. IInv => TypeOK
  BY DEF IInv
<1> QED
  BY <1>1, Invariance, PTL

\* SafeRetryMiddleware: no write is executed twice for one request.
THEOREM NeverReplayed == Spec => []WritesNotReplayed
<1>1. IInv => WritesNotReplayed
  BY DEF IInv
<1> QED
  BY <1>1, Invariance, PTL

\* AuthMiddleware, TokenPassthroughMiddleware, ReadOnlyMiddleware: what runs or
\* is answered, from the cache too, is for a caller who is entitled to it.
THEOREM GatesHold == Spec => []Gated
<1>1. IInv => Gated
  BY DEF IInv
<1> QED
  BY <1>1, Invariance, PTL

\* MetricsMiddleware: requests in flight and finished add up to those counted.
THEOREM CountersBalance == Spec => []MetricsBalance
<1>1. Init => MetricsBalance
  <2> SUFFICES ASSUME Init PROVE MetricsBalance
    OBVIOUS
  <2>1. Busy = {}
    BY DEF Init, Busy
  <2> QED
    BY <2>1, FS_EmptySet DEF Init, MetricsBalance
<1>2. TypeOK /\ MetricsBalance /\ [Next]_vars => MetricsBalance'
  BY BalanceKept
<1> QED
  BY <1>1, <1>2, TypeCorrect, PTL DEF Spec

=============================================================================
