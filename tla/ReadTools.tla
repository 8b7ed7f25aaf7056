------------------------------ MODULE ReadTools -----------------------------
(***************************************************************************)
(* A client that finds its way from the schema to paths between nodes, as  *)
(* the descriptions of the tools tell it: get_schema for the filters of a  *)
(* kind, get_nodes with one of them page by page, find_paths between nodes *)
(* it got.  It makes one call at a time; nodes and the schema change       *)
(* meanwhile.                                                              *)
(***************************************************************************)
EXTENDS Traversal, SchemaFilters

readVars == <<vars, traversalVars, schemaVars>>

InitReads == Init /\ InitTraversal /\ InitSchema

Quiet == pc = "idle" /\ place = "idle"

-----------------------------------------------------------------------------
\* What changes between two calls that have nothing to do with each other makes
\* no difference: the next call may begin with any nodes and any schema.
NodesChange ==
  /\ ~Quiet /\ pc # "failed"
  /\ \/ \E n \in Node, i \in 1..(Len(store) + 1) : Add(n, i)
     \/ \E i \in DOMAIN store : Delete(i)
  /\ Observe
  /\ UNCHANGED schemaVars

SchemaChange ==
  /\ asking # "nothing" \/ filterMap # NoMap
  /\ ChangeSchema
  /\ UNCHANGED <<vars, traversalVars>>

GetSchema ==
  /\ Quiet
  /\ AskMap \/ MapAnswered \/ \E rel \in Relationships : FetchPeer(rel.peer)
  /\ UNCHANGED <<vars, traversalVars>>

\* get_nodes, with a filter or without.
BeginNodes ==
  /\ Quiet /\ asking = "nothing"
  /\ Begin
  /\ \E k \in Key \cup {NoKey} : ForgetCheck(k)
  /\ UNCHANGED traversalVars

CheckFilter ==
  /\ pc = "count"
  /\ Check
  /\ UNCHANGED <<vars, traversalVars>>

CountNodes ==
  /\ asking = "accepted" \/ key = NoKey
  /\ Count
  /\ UNCHANGED <<traversalVars, schemaVars>>

FetchNodes == Fetch /\ UNCHANGED <<traversalVars, schemaVars>>

\* The filter is refused, the kind is unknown, or a query fails.
NodesFail ==
  /\ Raise
  /\ ForgetCheck(key)
  /\ UNCHANGED traversalVars

AnswerNodes ==
  /\ Answer
  /\ ForgetCheck(key)
  /\ UNCHANGED traversalVars

\* The next page is a call of its own, with the same filter.
Client ==
  /\ \/ NextPage /\ UNCHANGED schemaVars
     \/ Stop /\ ForgetMap
  /\ UNCHANGED traversalVars

GetPaths ==
  /\ pc = "idle" /\ asking = "nothing"
  /\ \/ (AskPaths \/ TraversalStep) /\ UNCHANGED changes
     \/ Conclude
  /\ UNCHANGED <<store, pc, call, history, schemaVars>>

Rest ==
  /\ Forget
  /\ UNCHANGED <<traversalVars, schemaVars>>

ReadNodes == CheckFilter \/ CountNodes \/ FetchNodes \/ AnswerNodes \/ Client

NextRead ==
  \/ NodesChange \/ SchemaChange
  \/ GetSchema \/ BeginNodes \/ ReadNodes \/ NodesFail \/ GetPaths \/ Rest

\* Infrahub answers, and the client reads on; a filter that is refused ends
\* the call as surely as an answer.
FairReads ==
  InitReads /\ [][NextRead]_readVars
    /\ WF_readVars(ReadNodes \/ (asking = "refused" /\ NodesFail))

=============================================================================
