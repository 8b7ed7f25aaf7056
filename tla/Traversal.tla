------------------------------ MODULE Traversal -----------------------------
(***************************************************************************)
(* find_paths and find_reachable.  A client names nodes by UUID or by      *)
(* human-friendly ID, written Kind__part__part; a tool resolves the source *)
(* and then the destination to nodes and asks Infrahub for paths between   *)
(* them.  There is an await at each step, where nodes come and go as       *)
(* Pagination has them do.                                                 *)
(*                                                                         *)
(* Text is a sequence of letters, of which "_" is the one that matters.    *)
(***************************************************************************)
EXTENDS Pagination, Texts

CONSTANTS
  Letter,  \* the letters of which texts are made
  Names,   \* what a client may name a node by: [form, node]
  Hfid,    \* the human-friendly ID of each node: a sequence of texts
  Kind,    \* the kind of the nodes, a text
  NoNode   \* no node

\* A human-friendly ID has a part or more, and names of kinds no underscore.
ASSUME HfidAssumption ==
  /\ DOMAIN Hfid = Node /\ NoNode \notin Node
  /\ Separator \in Seq(Letter) /\ Kind \in Seq(Letter)
  /\ \A n \in Node : Hfid[n] \in Seq(Seq(Letter)) /\ Hfid[n] # <<>>
  /\ \A i \in DOMAIN Kind : Kind[i] # "_"
  /\ Names \subseteq [form : {"id", "hfid", "label"}, node : Node]

VARIABLES
  place,      \* how far the tool is
  reference,  \* the source and the destination as the client names them
  end,        \* the nodes they were resolved to
  reason      \* why the tool raised

\* History, for the properties only.
VARIABLES
  settled  \* the ends whose nodes were there, and no other with their HFID,
           \* ever since the call began

traversal     == <<place, reference, end, reason>>
traversalVars == <<traversal, settled>>

\* find_reachable has no destination.
End == {"source", "destination"}

Unnamed == [form |-> "none", node |-> NoNode]

InitTraversal ==
  /\ place = "idle"
  /\ reference = [e \in End |-> Unnamed]
  /\ end = [e \in End |-> NoNode]
  /\ reason = "none"
  /\ settled = {}

-----------------------------------------------------------------------------
\* get_human_friendly_id_as_string(include_kind=True)
Written(n) == Joined(<<Kind>> \o Hfid[n])

\* get_nodes lists nodes by display label, here the first part of the HFID.
Text(ref) == IF ref.form = "hfid" THEN Written(ref.node) ELSE Hfid[ref.node][1]

\* The nodes client.get finds.
Matches(parts) == {n \in ToSet(store) : parts = <<Kind>> \o Hfid[n]}

-----------------------------------------------------------------------------
Settled(n, nodes) == {m \in ToSet(nodes) : n # NoNode /\ Hfid[m] = Hfid[n]} = {n}

\* The client names two nodes, or one.  It got them earlier, and they may be gone.
AskPaths ==
  /\ place = "idle"
  /\ \E a \in Names, b \in Names \cup {Unnamed} :
       reference' = [source |-> a, destination |-> b]
  /\ end' = [e \in End |-> NoNode]
  /\ reason' = "none"
  /\ settled' = {e \in End : Settled(reference'[e].node, store)}
  /\ place' = "source"

\* resolve_node_ref: a UUID is taken as it is; for anything else that has a kind
\* and at least one part Infrahub is asked, and must find exactly one node.
Asks(ref) == ref.form # "id" /\ Len(Split(Text(ref))) >= 2
Resolves(ref, n) ==
  IF ref.form = "id" THEN n = ref.node
  ELSE Asks(ref) /\ Matches(Split(Text(ref))) = {n}

Following(e) == IF e = "source" /\ reference["destination"].form # "none"
                THEN "destination" ELSE "traverse"

Refuse(why) ==
  /\ place' = "refused"
  /\ reason' = why
  /\ UNCHANGED <<reference, end, settled>>

\* Mutant of Resolve: the destination is resolved from the source's reference.
ResolveSource(e) ==
  /\ place = e
  /\ \E n \in Node : Resolves(reference["source"], n) /\ end' = [end EXCEPT ![e] = n]
  /\ place' = Following(e)
  /\ UNCHANGED <<reference, reason, settled>>
Resolve(e) ==
  /\ place = e
  /\ \E n \in Node : Resolves(reference[e], n) /\ end' = [end EXCEPT ![e] = n]
  /\ place' = Following(e)
  /\ UNCHANGED <<reference, reason, settled>>

\* NodeResolutionError
Unresolved(e) ==
  /\ place = e
  /\ \A n \in Node : ~Resolves(reference[e], n)
  /\ Refuse("resolution")

\* traverse_paths, reachable_nodes: Infrahub knows the nodes by their UUIDs.
Traverse ==
  /\ place = "traverse"
  /\ \A e \in End : end[e] \in ToSet(store) \cup {NoNode}
  /\ place' = "answered"
  /\ UNCHANGED <<reference, end, reason, settled>>

\* GraphQLError for an unknown node, or for anything else, whether a reference is
\* looked for or paths are; an Infrahub that is too old for paths.
TraverseFails ==
  \/ /\ place = "traverse"
     /\ \E why \in {"traversal", "version"} : Refuse(why)
  \/ /\ place \in End /\ Asks(reference[place])
     /\ Refuse("traversal")

Conclude ==
  /\ place \in {"answered", "refused"}
  /\ place' = "idle"
  /\ reference' = [e \in End |-> Unnamed] /\ end' = [e \in End |-> NoNode]
  /\ reason' = "none"
  /\ settled' = {}
  /\ changes' = 0

TraversalStep ==
  \/ \E e \in End : Resolve(e) \/ Unresolved(e)
  \/ Traverse \/ TraverseFails

\* What is there now, after a node was added or deleted.
Observe ==
  /\ settled' = {e \in settled : Settled(reference[e].node, store')}
  /\ UNCHANGED traversal

-----------------------------------------------------------------------------
\* Paths are between the nodes the client named: the one with that UUID, or one
\* whose human-friendly ID is written as the client wrote it, whatever was
\* deleted and created anew during the call.
PathsAsNamed ==
  place = "answered" =>
    \A e \in End :
      LET ref == reference[e]
      IN  /\ ref.form = "none" => end[e] = NoNode
          /\ ref.form = "id" => end[e] = ref.node
          /\ ref.form = "hfid" => Written(end[e]) = Written(ref.node)

\* IDs whose written form can be read in one way only.
Unambiguous(n) == Tidy(Hfid[n])

\* A human-friendly ID that is unambiguous finds its node, if that was there
\* all the time and no other had the same ID.
NamedIsFound ==
  place = "refused" /\ reason = "resolution" =>
    LET e == IF end["source"] = NoNode THEN "source" ELSE "destination"
    IN  reference[e].form = "hfid" =>
          ~(Unambiguous(reference[e].node) /\ e \in settled)

=============================================================================
