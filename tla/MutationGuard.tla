---------------------------- MODULE MutationGuard ---------------------------
(***************************************************************************)
(* What the GraphQL tools let pass.  Before it does anything else a tool   *)
(* parses the document and looks at its definitions: mutate_graphql        *)
(* refuses operations that are no mutations, and fields that manage        *)
(* branches or the schema; query_graphql refuses mutations.                *)
(*                                                                         *)
(* A definition is an operation or a named fragment, with all selections   *)
(* in it, however deep: fields, inline fragments and spreads, which name a *)
(* fragment.  A selection has the kinds of those around it, outermost      *)
(* first.                                                                  *)
(***************************************************************************)
EXTENDS FiniteSets, Sequences

CONSTANTS
  Blocked,   \* _BLOCKED_MUTATIONS
  Document   \* the documents to consider: sets of definitions

\* Operations by their type; a fragment has the kind "fragment".
Operations == {"query", "mutation", "subscription"}

\* Spreads are leaves: only these two have selections of their own.
ASSUME DocumentAssumption ==
  \A doc \in Document : \A d \in doc : \A s \in d.sel :
    s.within \in Seq({"field", "inline"})

IsOperation(d) == d.kind \in Operations

\* Mutant of Entered: fields inside an inline fragment are not looked at.
EnteredFields == {"field"}
\* _collect_field_names goes into whatever has a selection_set.
Entered == {"field", "inline"}

\* _collect_field_names
FieldNames(selections) ==
  {s.name : s \in {t \in selections :
                     /\ t.kind = "field"
                     /\ \A i \in DOMAIN t.within : t.within[i] \in Entered}}

\* _assert_no_privileged_mutations
MutationRefused(doc) ==
  \E d \in doc : \/ IsOperation(d) /\ d.kind # "mutation"
                 \/ FieldNames(d.sel) \cap Blocked # {}

\* Mutant of QueryRefused: only the first operation counts, as it would if
\* the document could have one.
QueryRefusedAlone(doc) == \A d \in doc : d.kind = "mutation"
\* query_graphql
QueryRefused(doc) == \E d \in doc : d.kind = "mutation"

-----------------------------------------------------------------------------
(* What Infrahub does with a document (external).                          *)

\* The selections of a definition that belong to its type, by their kind: those
\* that are in no field.
Roots(d, kind) ==
  {s \in d.sel : s.kind = kind /\ \A i \in DOMAIN s.within : s.within[i] # "field"}

Spreads(d) == {s.name : s \in Roots(d, "spread")}

\* The fragments that an operation spreads, directly or through another one, are
\* the least set of fragments that has those spread in the operation and in the
\* set.
Fragments(doc, op) ==
  LET all == {d \in doc : d.kind = "fragment"}
  IN  {f \in all : \A F \in SUBSET all :
         (\A d \in all : (\E e \in F \cup {op} : d.name \in Spreads(e)) => d \in F)
           => f \in F}

\* The fields an operation executes.
Executed(doc, op) ==
  {s.name : s \in UNION {Roots(d, "field") : d \in Fragments(doc, op) \cup {op}}}

\* What an operation of the document does to Infrahub: management of branches
\* or of the schema, or changes to data.
Effects(doc) ==
  LET fields == UNION {Executed(doc, d) : d \in {e \in doc : e.kind = "mutation"}}
  IN  {IF name \in Blocked THEN "management" ELSE "data" : name \in fields}

\* All that the documents can do that a tool does not refuse.
MutationEffects == {Effects(doc) : doc \in {d \in Document : ~MutationRefused(d)}}
QueryEffects    == {Effects(doc) : doc \in {d \in Document : ~QueryRefused(d)}}

=============================================================================
