------------------------------ MODULE WritePath -----------------------------
(***************************************************************************)
(* The way of a write from the middleware to Infrahub: the requests of one *)
(* session go through RequestPipeline, and what it takes for a step, the   *)
(* run of a tool, is here what the GraphQL and node tools do: check the    *)
(* document, get the session branch from the register of BranchRegister,   *)
(* send the mutation, recover.                                             *)
(*                                                                         *)
(* For those who look at the middleware alone this is RequestPipeline, and *)
(* for those who look at the register it is BranchRegister.                *)
(***************************************************************************)
EXTENDS RequestPipeline, MutationGuard

CONSTANTS
  GuardedTool,  \* write tools that take a document: mutate_graphql
  QueryTool,    \* read tools that take one: query_graphql
  Name,         \* branches
  NoName        \* no branch

ASSUME ToolAssumption ==
  GuardedTool \subseteq WriteTool /\ QueryTool \subseteq Target \ WriteTool

VARIABLES
  passes,   \* what the documents can do that the tools do not refuse
  bound,    \* the session's branch
  sound,    \* has it been writable ever since it was bound?
  phase,    \* how far the tool of each request is
  branch,   \* the branch its mutation is sent to
  effects   \* what its document does

\* History, for the properties only.
VARIABLES done  \* what has been done to Infrahub, by the class of the tool

pipelineVars == vars
toolVars     == <<passes, phase, branch, effects, done>>
allVars      == <<pipelineVars, bound, sound, toolVars>>

Phase  == {"begin", "accepted", "sent", "lost"}
Effect == {"management", "data"}

InitWrite ==
  /\ Init
  /\ passes = [mutation |-> MutationEffects, query |-> QueryEffects]
  /\ bound = NoName /\ sound = TRUE
  /\ phase = [r \in Request |-> "begin"]
  /\ branch = [r \in Request |-> NoName]
  /\ effects = [r \in Request |-> {}]
  /\ done = [query |-> {}, write |-> {}]

-----------------------------------------------------------------------------
Running(r, tools) == pc[r] = "running" /\ target[r] \in tools

\* The tool ends, and with it what was known of the request.
Forget(r) ==
  /\ phase' = [phase EXCEPT ![r] = "begin"]
  /\ branch' = [branch EXCEPT ![r] = NoName]
  /\ effects' = [effects EXCEPT ![r] = {}]

ToolEnds(r) == Reply(r) \/ Oversize(r) \/ Break(r)

\* The tool raises a ToolError and Infrahub has done nothing.
ToolError(r) ==
  /\ Break(r)
  /\ error'[r] = "permanent"
  /\ executed' = executed

\* Tools that take no document and write nothing, and resources.
ReadEnds(r) ==
  /\ Running(r, Target \ (WriteTool \cup QueryTool))
  /\ ToolEnds(r)
  /\ UNCHANGED <<bound, sound, toolVars>>

\* query_graphql refuses mutations and what it cannot parse.
RefuseQuery(r) ==
  /\ Running(r, QueryTool)
  /\ ToolError(r)
  /\ UNCHANGED <<bound, sound, toolVars>>

QueryEnds(r) ==
  /\ Running(r, QueryTool)
  /\ ToolEnds(r)
  /\ \E e \in passes.query :
       done' = IF executed' # executed THEN [done EXCEPT !.query = @ \cup e]
                                       ELSE done
  /\ UNCHANGED <<passes, bound, sound, phase, branch, effects>>

\* mutate_graphql looks at the document, and node_delete for an identifier,
\* before there is a branch.
RefuseWrite(r) ==
  /\ Running(r, WriteTool)
  /\ phase[r] = "begin"
  /\ ToolError(r)
  /\ UNCHANGED <<bound, sound, toolVars>>

\* The other write tools build the mutation themselves.
Accept(r) ==
  /\ Running(r, WriteTool)
  /\ phase[r] = "begin"
  /\ \E e \in (IF target[r] \in GuardedTool THEN passes.mutation ELSE {{"data"}}) :
       effects' = [effects EXCEPT ![r] = e]
  /\ phase' = [phase EXCEPT ![r] = "accepted"]
  /\ UNCHANGED <<pipelineVars, passes, bound, sound, branch, done>>

Send(r, n) ==
  /\ phase' = [phase EXCEPT ![r] = "sent"]
  /\ branch' = [branch EXCEPT ![r] = n]
  /\ UNCHANGED <<pipelineVars, passes, effects, done>>

\* get_or_create_session_branch: the branch is reused, found stale and dropped,
\* or the session gets a new one.
Reuse(r) ==
  /\ Running(r, WriteTool) /\ phase[r] = "accepted"
  /\ bound # NoName
  /\ Send(r, bound)
  /\ UNCHANGED <<bound, sound>>

\* Mutant of DropStale: the error alone is reason enough.
DropAny(r) ==
  /\ Running(r, WriteTool) /\ phase[r] \in {"accepted", "lost"}
  /\ bound # NoName
  /\ bound' = NoName /\ sound' = TRUE
  /\ UNCHANGED <<pipelineVars, toolVars>>
DropStale(r) ==
  /\ Running(r, WriteTool) /\ phase[r] \in {"accepted", "lost"}
  /\ bound # NoName /\ ~sound
  /\ bound' = NoName /\ sound' = TRUE
  /\ UNCHANGED <<pipelineVars, toolVars>>

\* Mutant of Provision: the branch comes before the look at the document.
ProvisionFirst(r) ==
  /\ Running(r, WriteTool) /\ phase[r] \in {"begin", "accepted"}
  /\ bound = NoName
  /\ \E n \in Name, b \in BOOLEAN : bound' = n /\ sound' = b
  /\ IF phase[r] = "begin" THEN UNCHANGED <<pipelineVars, toolVars>>
                           ELSE Send(r, bound')
Provision(r) ==
  /\ Running(r, WriteTool) /\ phase[r] = "accepted"
  /\ bound = NoName
  /\ \E n \in Name, b \in BOOLEAN : bound' = n /\ sound' = b
  /\ Send(r, bound')

\* There is no branch, or no such kind, or Infrahub cannot be reached.
WriteFails(r) ==
  /\ Running(r, WriteTool) /\ phase[r] = "accepted"
  /\ Break(r) /\ executed' = executed
  /\ Forget(r)
  /\ UNCHANGED <<passes, bound, sound, done>>

\* Infrahub's answer, or none.
WriteEnds(r) ==
  /\ Running(r, WriteTool) /\ phase[r] = "sent"
  /\ ToolEnds(r)
  /\ done' = IF executed' # executed
             THEN [done EXCEPT !.write = @ \cup effects[r]] ELSE done
  /\ Forget(r)
  /\ UNCHANGED <<passes, bound, sound>>

\* Mutant of WriteLost: the mutation is replayed.
WriteReplayed(r) ==
  /\ Running(r, WriteTool) /\ phase[r] = "sent"
  /\ executed' = [executed EXCEPT ![r] = @ + 1]
  /\ executed[r] < 2
  /\ UNCHANGED <<config, pc, contextVars, target, header, resolved, attempt,
                 error, shared, metrics, bound, sound, toolVars>>
\* The answer says that the branch is read-only: _maybe_recover_read_only, and
\* DropStale if it is.  The mutation is not replayed.
WriteLost(r) ==
  /\ Running(r, WriteTool) /\ phase[r] = "sent"
  /\ phase' = [phase EXCEPT ![r] = "lost"]
  /\ branch' = [branch EXCEPT ![r] = NoName]
  /\ UNCHANGED <<pipelineVars, passes, bound, sound, effects, done>>

Recovered(r) ==
  /\ Running(r, WriteTool) /\ phase[r] = "lost"
  /\ ToolError(r)
  /\ Forget(r)
  /\ UNCHANGED <<passes, bound, sound, done>>

-----------------------------------------------------------------------------
\* The layers around the tools.
Around(r) ==
  /\ \/ Admit(r) \/ Throttle(r) \/ Deny(r) \/ CacheHit(r) \/ CacheMiss(r)
     \/ Retry(r) \/ Return(r) \/ Raise(r)
  /\ UNCHANGED <<bound, sound, toolVars>>

Tool(r) ==
  \/ ReadEnds(r) \/ RefuseQuery(r) \/ QueryEnds(r)
  \/ RefuseWrite(r) \/ Accept(r) \/ Reuse(r) \/ DropStale(r) \/ Provision(r)
  \/ WriteFails(r) \/ WriteEnds(r) \/ WriteLost(r) \/ Recovered(r)

Call(r) ==
  /\ \E t \in Target, h \in Header : Arrive(r, t, h)
  /\ UNCHANGED <<bound, sound, toolVars>>

CallCancelled(r) ==
  /\ Cancel(r)
  /\ Forget(r)
  /\ UNCHANGED <<passes, bound, sound, done>>

Pass ==
  /\ Refill \/ \E t \in Target : Expire(t)
  /\ UNCHANGED <<bound, sound, toolVars>>

\* People merge or delete the branch.
Lose ==
  /\ bound # NoName /\ sound
  /\ sound' = FALSE
  /\ UNCHANGED <<pipelineVars, bound, toolVars>>

\* The session ends when no request of it is left.
EndSession ==
  /\ bound # NoName /\ Busy = {}
  /\ bound' = NoName /\ sound' = TRUE
  /\ UNCHANGED <<pipelineVars, toolVars>>

NextWrite ==
  \/ \E r \in Request : Call(r) \/ Around(r) \/ Tool(r) \/ CallCancelled(r)
  \/ Pass \/ Lose \/ EndSession

SpecWrite == InitWrite /\ [][NextWrite]_allVars

FairSpecWrite ==
  SpecWrite /\ \A r \in Request : WF_allVars(Around(r) \/ Tool(r))

-----------------------------------------------------------------------------
\* The composition has no behaviour that RequestPipeline has not, so what is
\* proved of that module holds here.
ImplementsPipeline == Spec

\* Seen from the register, the requests provision, drop and send as its
\* specification says.
OneSession == {"session"}
Register == INSTANCE BranchRegister
  WITH Session   <- OneSession,
       Protected <- {},
       register  <- [s \in OneSession |-> bound],
       sound     <- [s \in OneSession |-> sound],
       asked     <- [s \in OneSession |-> {}],
       sending   <- [s \in OneSession |->
                       {branch[r] : r \in {q \in Request : phase[q] = "sent"}}]
ImplementsRegister == Register!Spec

\* "Branch and schema management bypass session-branch isolation and the review
\* gate": whatever a document hides its fields in, mutate_graphql changes data
\* only and query_graphql changes nothing.
GuardHolds == "management" \notin done.write /\ done.query = {}

\* The session gets a branch only from a write that may write and whose
\* document has been looked at: a refused request leaves no branch behind, in
\* read-only mode there is never one.
BranchOnlyForWrites ==
  [][bound = NoName /\ bound' # NoName =>
       \E r \in Request : Running(r, WriteTool) /\ Entitled(r)
                            /\ phase[r] = "accepted" /\ phase'[r] = "sent"]_allVars

=============================================================================
