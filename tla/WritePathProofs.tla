--------------------------- MODULE WritePathProofs --------------------------
(***************************************************************************)
(* What holds of WritePath for any requests, tools, configurations and     *)
(* documents: it implements RequestPipeline and BranchRegister, and the    *)
(* scans of the documents let nothing pass that they should not.           *)
(***************************************************************************)
EXTENDS WritePath, RequestPipelineProofs

ToolTypeOK ==
  /\ bound \in Name \cup {NoName} /\ sound \in BOOLEAN
  /\ phase \in [Request -> Phase]
  /\ branch \in [Request -> Name \cup {NoName}]
  /\ effects \in [Request -> SUBSET Effect]
  /\ done \in [query : SUBSET Effect, write : SUBSET Effect]

\* A tool that is under way is a write tool that runs.
Underway ==
  \A r \in Request : phase[r] # "begin" => Running(r, WriteTool)

\* What the tools know documents to do is what those documents do that they do
\* not refuse, and no tool is about to manage branches or the schema.
Scanned ==
  /\ passes = [mutation |-> MutationEffects, query |-> QueryEffects]
  /\ \A r \in Request : "management" \notin effects[r]

WriteInv == ToolTypeOK /\ Underway /\ Scanned /\ GuardHolds

-----------------------------------------------------------------------------
\* The scan finds a field wherever it is: in the operation, in a fragment that
\* it spreads through others, in an inline fragment or in a field.
LEMMA ScanIsTight ==
  ASSUME NEW doc \in Document, ~MutationRefused(doc)
  PROVE  "management" \notin Effects(doc)
<1> SUFFICES ASSUME NEW op \in doc, NEW name \in Executed(doc, op), name \in Blocked
             PROVE  FALSE
  BY DEF Effects
<1>1. PICK d \in Fragments(doc, op) \cup {op} :
        \E s \in Roots(d, "field") : name = s.name
  BY DEF Executed
<1> PICK s \in Roots(d, "field") : name = s.name
  BY <1>1
<1>2. d \in doc
  BY <1>1 DEF Fragments
<1>3. s \in d.sel /\ s.kind = "field"
  BY DEF Roots
<1>4. s.within \in Seq(Entered)
  BY <1>2, <1>3, DocumentAssumption DEF Entered
<1>5. name \in FieldNames(d.sel)
  BY <1>3, <1>4 DEF FieldNames
<1> QED
  BY <1>2, <1>5 DEF MutationRefused

\* Without a mutation in it a document does nothing.
LEMMA QueriesDoNothing ==
  ASSUME NEW doc, ~QueryRefused(doc)
  PROVE  Effects(doc) = {}
BY DEF Effects, QueryRefused

LEMMA Passed ==
  /\ \A e \in MutationEffects : e \subseteq Effect /\ "management" \notin e
  /\ \A e \in QueryEffects : e = {}
<1>1. \A doc : Effects(doc) \subseteq Effect
  BY DEF Effects, Effect
<1> QED
  BY <1>1, ScanIsTight, QueriesDoNothing DEF MutationEffects, QueryEffects

-----------------------------------------------------------------------------
\* To the middleware a step of a tool is a run of it, or nothing.
LEMMA StepsOfPipeline == [NextWrite]_allVars => [Next]_pipelineVars
<1> SUFFICES ASSUME [NextWrite]_allVars
             PROVE  Next \/ UNCHANGED vars
  BY DEF pipelineVars
<1> USE DEF pipelineVars
<1>1. ASSUME NEW r \in Request, Call(r) \/ CallCancelled(r)
      PROVE  Next
  BY <1>1 DEF Call, CallCancelled, Next
<1>2. ASSUME NEW r \in Request, Around(r)
      PROVE  Next
  BY <1>2 DEF Around, Next, Step
<1>3. ASSUME NEW r \in Request, Tool(r)
      PROVE  Step(r) \/ UNCHANGED vars
  BY <1>3
  DEF Tool, ReadEnds, RefuseQuery, QueryEnds, RefuseWrite, Accept, Reuse,
      DropStale, Provision, Send, WriteFails, WriteEnds, WriteLost, Recovered,
      ToolEnds, ToolError, Step
<1>4. CASE Pass
  BY <1>4 DEF Pass, Next
<1>5. CASE Lose \/ EndSession \/ UNCHANGED allVars
  BY <1>5 DEF Lose, EndSession, allVars
<1> QED
  BY <1>1, <1>2, <1>3, <1>4, <1>5 DEF NextWrite, Next

\* The composition has only behaviours that RequestPipeline has.
THEOREM PipelineImplemented == SpecWrite => ImplementsPipeline
<1>1. InitWrite => Init
  BY DEF InitWrite
<1> QED
  BY <1>1, StepsOfPipeline, PTL DEF SpecWrite, ImplementsPipeline, Spec, pipelineVars

\* What is proved of RequestPipeline holds on the way of a write: with all that
\* the tools do, no write is executed twice for a request, nothing runs or is
\* answered for a caller who may not, and the counters add up.
THEOREM PipelineHolds ==
  SpecWrite => [](TypeOK /\ WritesNotReplayed /\ Gated /\ MetricsBalance)
BY PipelineImplemented, TypeCorrect, NeverReplayed, GatesHold, CountersBalance,
   PTL DEF ImplementsPipeline

-----------------------------------------------------------------------------
\* A layer around the tool, or the arrival of a request, leaves alone those that
\* run.
LEMMA LayersKeep ==
  ASSUME TypeOK, WriteInv, NEW r \in Request,
         Call(r) \/ Around(r)
  PROVE  WriteInv'
<1>1. pc[r] # "running"
  BY DEF Call, Arrive, Around, Admit, Throttle, Deny, CacheHit, CacheMiss, Retry,
         Return, Raise
<1>2. Other(r)
  BY OthersUntouched DEF Call, Around, Step
<1>3. UNCHANGED <<bound, sound, toolVars>>
  BY DEF Call, Around
<1>4. Underway'
  BY <1>1, <1>2, <1>3 DEF WriteInv, Underway, Running, Other, toolVars
<1> QED
  BY <1>3, <1>4 DEF WriteInv, ToolTypeOK, Scanned, GuardHolds, toolVars

\* A tool that ends knows of nothing any more.
LEMMA EndsKeep ==
  ASSUME TypeOK, WriteInv, NEW r \in Request,
         Step(r) \/ Cancel(r),
         Forget(r), UNCHANGED <<passes, bound, sound>>,
         GuardHolds', done' \in [query : SUBSET Effect, write : SUBSET Effect]
  PROVE  WriteInv'
<1>1. Other(r)
  BY OthersUntouched
<1>2. ToolTypeOK' /\ Scanned'
  BY DEF WriteInv, ToolTypeOK, Scanned, Forget, Phase
<1>3. Underway'
  BY <1>1 DEF WriteInv, ToolTypeOK, Underway, Running, Other, Forget
<1> QED
  BY <1>2, <1>3 DEF WriteInv

\* A tool that fails before it is under way changes nothing here, and the tools
\* that do not write are never under way.
LEMMA BystandersKeep ==
  ASSUME TypeOK, WriteInv, NEW r \in Request,
         ReadEnds(r) \/ RefuseQuery(r) \/ QueryEnds(r) \/ RefuseWrite(r)
  PROVE  WriteInv'
<1>1. phase[r] = "begin"
  BY ToolAssumption
  DEF WriteInv, Underway, Running, ReadEnds, RefuseQuery, QueryEnds, RefuseWrite
<1>2. Other(r)
  BY OthersUntouched
  DEF ReadEnds, RefuseQuery, QueryEnds, RefuseWrite, ToolEnds, ToolError, Step
<1>3. UNCHANGED <<passes, bound, sound, phase, branch, effects>>
  BY DEF ReadEnds, RefuseQuery, QueryEnds, RefuseWrite, toolVars
<1>4. done' = done
  <2>1. CASE QueryEnds(r)
    <3>1. PICK e \in passes.query :
            done' = IF executed' # executed THEN [done EXCEPT !.query = @ \cup e]
                                            ELSE done
      BY <2>1 DEF QueryEnds
    <3>2. e = {}
      BY Passed DEF WriteInv, Scanned
    <3> QED
      BY <3>1, <3>2 DEF WriteInv, ToolTypeOK
  <2> QED
    BY <2>1 DEF ReadEnds, RefuseQuery, RefuseWrite, toolVars
<1>5. Underway'
  BY <1>1, <1>2, <1>3 DEF WriteInv, Underway, Running, Other
<1> QED
  BY <1>3, <1>4, <1>5 DEF WriteInv, ToolTypeOK, Scanned, GuardHolds

LEMMA WriteStep ==
  ASSUME TypeOK, WriteInv, [NextWrite]_allVars
  PROVE  WriteInv'
<1> USE DEF pipelineVars, toolVars
<1>1. ASSUME NEW r \in Request, Accept(r)
      PROVE  WriteInv'
  <2>1. PICK e : /\ e \in IF target[r] \in GuardedTool THEN passes.mutation ELSE {{"data"}}
                 /\ effects' = [effects EXCEPT ![r] = e]
    BY <1>1 DEF Accept
  <2>2. e \subseteq Effect /\ "management" \notin e
    BY <2>1, Passed DEF WriteInv, Scanned, Effect
  <2>3. ToolTypeOK' /\ Scanned'
    BY <1>1, <2>1, <2>2 DEF Accept, WriteInv, ToolTypeOK, Scanned, Phase
  <2>4. Underway' /\ GuardHolds'
    BY <1>1 DEF Accept, WriteInv, ToolTypeOK, Underway, Running, GuardHolds, vars, request
  <2> QED
    BY <2>3, <2>4 DEF WriteInv
<1>2. ASSUME NEW r \in Request, Reuse(r) \/ Provision(r)
      PROVE  WriteInv'
  <2>1. /\ bound' \in Name \cup {NoName} /\ sound' \in BOOLEAN
        /\ Send(r, bound')
    BY <1>2 DEF Reuse, Provision, WriteInv, ToolTypeOK
  <2>2. Running(r, WriteTool)
    BY <1>2 DEF Reuse, Provision
  <2>3. ToolTypeOK' /\ Scanned' /\ GuardHolds'
    BY <2>1 DEF Send, WriteInv, ToolTypeOK, Scanned, GuardHolds, Phase
  <2>4. Underway'
    BY <2>1, <2>2 DEF Send, WriteInv, ToolTypeOK, Underway, Running, vars, request
  <2> QED
    BY <2>3, <2>4 DEF WriteInv
<1>3. ASSUME NEW r \in Request, WriteLost(r)
      PROVE  WriteInv'
  <2>1. ToolTypeOK' /\ Scanned' /\ GuardHolds'
    BY <1>3 DEF WriteLost, WriteInv, ToolTypeOK, Scanned, GuardHolds, Phase
  <2>2. Underway'
    BY <1>3 DEF WriteLost, WriteInv, ToolTypeOK, Underway, Running, vars, request
  <2> QED
    BY <2>1, <2>2 DEF WriteInv
<1>4. CASE (\E r \in Request : DropStale(r)) \/ Lose \/ EndSession \/ UNCHANGED allVars
  BY <1>4
  DEF DropStale, Lose, EndSession, allVars, WriteInv, ToolTypeOK, Underway, Running,
      Scanned, GuardHolds, vars, request
<1>5. ASSUME NEW r \in Request,
             WriteFails(r) \/ Recovered(r) \/ CallCancelled(r)
      PROVE  WriteInv'
  <2>1. Step(r) \/ Cancel(r)
    BY <1>5 DEF WriteFails, Recovered, CallCancelled, ToolError, Step
  <2>2. Forget(r) /\ UNCHANGED <<passes, bound, sound, done>>
    BY <1>5 DEF WriteFails, Recovered, CallCancelled
  <2> QED
    BY <2>1, <2>2, EndsKeep DEF WriteInv, ToolTypeOK, GuardHolds
<1>6. ASSUME NEW r \in Request, WriteEnds(r)
      PROVE  WriteInv'
  <2>1. Step(r)
    BY <1>6 DEF WriteEnds, ToolEnds, Step
  <2>2. Forget(r) /\ UNCHANGED <<passes, bound, sound>>
    BY <1>6 DEF WriteEnds
  <2>3. effects[r] \subseteq Effect /\ "management" \notin effects[r]
    BY DEF WriteInv, ToolTypeOK, Scanned
  <2>4. GuardHolds' /\ done' \in [query : SUBSET Effect, write : SUBSET Effect]
    BY <1>6, <2>3 DEF WriteEnds, WriteInv, ToolTypeOK, GuardHolds
  <2> QED
    BY <2>1, <2>2, <2>4, EndsKeep
<1>7. CASE Pass
  <2>1. Still
    BY <1>7, StillSteps DEF Pass
  <2> QED
    BY <1>7, <2>1
    DEF Pass, Still, WriteInv, ToolTypeOK, Underway, Running, Scanned, GuardHolds
<1> QED
  BY <1>1, <1>2, <1>3, <1>4, <1>5, <1>6, <1>7, LayersKeep, BystandersKeep
  DEF NextWrite, Tool

LEMMA WriteInvariance == SpecWrite => []WriteInv
<1>1. InitWrite => WriteInv
  BY DEF InitWrite, Init, WriteInv, ToolTypeOK, Phase, Underway, Scanned, GuardHolds
<1>2. TypeOK /\ WriteInv /\ [NextWrite]_allVars => WriteInv'
  BY WriteStep
<1>3. SpecWrite => []TypeOK
  BY PipelineHolds, PTL
<1> QED
  BY <1>1, <1>2, <1>3, PTL DEF SpecWrite

\* _assert_no_privileged_mutations and query_graphql, for any documents: however
\* deep and behind whatever fragments a field is, mutate_graphql manages neither
\* branches nor the schema, and query_graphql changes nothing.
THEOREM GuardIsTight == SpecWrite => []GuardHolds
<1>1. WriteInv => GuardHolds
  BY DEF WriteInv
<1> QED
  BY <1>1, WriteInvariance, PTL

\* get_or_create_session_branch is reached only by a write whose document was
\* looked at, for a caller who may write: no refused request leaves a branch.
THEOREM NoBranchWithoutWrite == SpecWrite => BranchOnlyForWrites
<1> DEFINE A == bound = NoName /\ bound' # NoName =>
                  \E r \in Request : Running(r, WriteTool) /\ Entitled(r)
                                       /\ phase[r] = "accepted" /\ phase'[r] = "sent"
<1>1. WriteInv /\ Gated /\ [NextWrite]_allVars => [A]_allVars
  <2> SUFFICES ASSUME WriteInv, Gated, NextWrite, bound = NoName, bound' # NoName
               PROVE  \E r \in Request : Running(r, WriteTool) /\ Entitled(r)
                                       /\ phase[r] = "accepted" /\ phase'[r] = "sent"
    OBVIOUS
  <2>1. PICK r \in Request : Provision(r)
    BY DEF NextWrite, Call, Around, Tool, CallCancelled, Pass, Lose, EndSession,
           ReadEnds, RefuseQuery, QueryEnds, RefuseWrite, Accept, Reuse, DropStale,
           WriteFails, WriteEnds, WriteLost, Recovered
  <2>2. Entitled(r)
    BY <2>1 DEF Provision, Running, Gated
  <2>3. phase'[r] = "sent"
    BY <2>1 DEF Provision, Send, WriteInv, ToolTypeOK
  <2> QED
    BY <2>1, <2>2, <2>3 DEF Provision
<1>2. SpecWrite => []Gated
  BY PipelineHolds, PTL
<1> QED
  BY <1>1, <1>2, WriteInvariance, PTL DEF SpecWrite, BranchOnlyForWrites

-----------------------------------------------------------------------------
\* The branches of the mutations under way.
Afloat == {branch[r] : r \in {q \in Request : phase[q] = "sent"}}

\* The requests that have nothing sent after a step had nothing sent before it.
LEMMA Settles ==
  ASSUME UNCHANGED <<bound, sound>>, Afloat' \subseteq Afloat
  PROVE  Register!Next
<1> DEFINE fleet == [s \in OneSession |-> Afloat]
<1>1. fleet' = [fleet EXCEPT !["session"] = Afloat'] /\ Afloat' \in SUBSET fleet["session"]
  BY DEF OneSession
<1>2. Register!Settle("session")
  BY <1>1 DEF Register!Settle, Afloat
<1> QED
  BY <1>2 DEF Register!Next, OneSession

LEMMA SendAdds ==
  ASSUME WriteInv, NEW r \in Request, NEW n, Send(r, n), phase[r] # "sent"
  PROVE  Afloat' = Afloat \cup {n}
BY DEF Send, Afloat, WriteInv, ToolTypeOK

LEMMA StepsOfRegister ==
  ASSUME WriteInv, [NextWrite]_allVars
  PROVE  Register!Next \/ UNCHANGED Register!vars
<1> USE DEF pipelineVars, toolVars
<1>1. ASSUME UNCHANGED <<bound, sound, phase, branch>>
      PROVE  UNCHANGED Register!vars
  BY <1>1 DEF Register!vars
<1>2. ASSUME NEW r \in Request, Call(r) \/ Around(r)
      PROVE  UNCHANGED Register!vars
  BY <1>1, <1>2 DEF Call, Around
<1>3. ASSUME NEW r \in Request,
             ReadEnds(r) \/ RefuseQuery(r) \/ QueryEnds(r) \/ RefuseWrite(r)
      PROVE  UNCHANGED Register!vars
  BY <1>1, <1>3 DEF ReadEnds, RefuseQuery, QueryEnds, RefuseWrite
<1>4. ASSUME NEW r \in Request,
             \/ Accept(r) \/ WriteFails(r) \/ WriteEnds(r) \/ WriteLost(r)
             \/ Recovered(r) \/ CallCancelled(r)
      PROVE  Register!Next
  <2>1. UNCHANGED <<bound, sound>>
    BY <1>4 DEF Accept, WriteFails, WriteEnds, WriteLost, Recovered, CallCancelled
  <2>2. /\ phase'[r] # "sent"
        /\ \A q \in Request \ {r} : phase'[q] = phase[q] /\ branch'[q] = branch[q]
    BY <1>4
    DEF Accept, WriteFails, WriteEnds, WriteLost, Recovered, CallCancelled, Forget,
        WriteInv, ToolTypeOK
  <2>3. Afloat' \subseteq Afloat
    BY <2>2 DEF Afloat
  <2> QED
    BY <2>1, <2>3, Settles
<1>5. ASSUME NEW r \in Request, Reuse(r)
      PROVE  Register!Next
  <2>1. Afloat' = Afloat \cup {bound}
    BY <1>5, SendAdds DEF Reuse
  <2>2. Register!Send("session")
    BY <1>5, <2>1 DEF Reuse, Register!Send, OneSession, Afloat
  <2> QED
    BY <2>2 DEF Register!Next, OneSession
<1>6. ASSUME NEW r \in Request, Provision(r)
      PROVE  Register!Next
  <2>1. PICK n \in Name, b \in BOOLEAN : bound' = n /\ sound' = b
    BY <1>6 DEF Provision
  <2>2. Afloat' = Afloat \cup {n}
    BY <1>6, <2>1, SendAdds DEF Provision
  <2>3. Register!Provision("session", n)
    BY <1>6, <2>1, <2>2 DEF Provision, Register!Provision, OneSession, Afloat
  <2> QED
    BY <2>3 DEF Register!Next, OneSession
<1>7. ASSUME NEW r \in Request, DropStale(r)
      PROVE  Register!Next
  <2>1. Register!Drop("session")
    BY <1>7 DEF DropStale, Register!Drop, OneSession
  <2> QED
    BY <2>1 DEF Register!Next, OneSession
<1>8. CASE Pass \/ UNCHANGED allVars
  BY <1>1, <1>8 DEF Pass, allVars
<1>9. CASE Lose
  <2>1. [s \in OneSession |-> sound'] =
          [s \in OneSession |-> [t \in OneSession |-> sound][s] /\ s \notin OneSession]
    BY <1>9 DEF Lose
  <2>2. Register!Lose
    BY <1>9, <2>1 DEF Lose, Register!Lose
  <2> QED
    BY <2>2 DEF Register!Next
<1>10. CASE EndSession
  <2>1. Afloat = {}
    BY <1>10 DEF EndSession, Busy, Afloat, WriteInv, Underway, Running
  <2>2. Register!End("session")
    BY <1>10, <2>1 DEF EndSession, Register!End, OneSession, Afloat
  <2> QED
    BY <2>2 DEF Register!Next, OneSession
<1> QED
  BY <1>2, <1>3, <1>4, <1>5, <1>6, <1>7, <1>8, <1>9, <1>10 DEF NextWrite, Tool

\* The requests of a session, through middleware and tools and however they
\* interleave, treat the session's branch as the register promises.
THEOREM WritesKeepRegister == SpecWrite => ImplementsRegister
<1>1. InitWrite => Register!Init
  BY DEF InitWrite, Register!Init
<1>2. WriteInv /\ [NextWrite]_allVars => [Register!Next]_(Register!vars)
  BY StepsOfRegister
<1> QED
  BY <1>1, <1>2, WriteInvariance, PTL
  DEF SpecWrite, ImplementsRegister, Register!Spec

=============================================================================
