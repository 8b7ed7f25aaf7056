---------------------------- MODULE SchemaFilters ---------------------------
(***************************************************************************)
(* The filters of a kind, worked out twice.  get_schema and the resource   *)
(* infrahub://schema/{kind} tell a client which there are: they read the   *)
(* kind and then all the peers of its relationships at once.  get_nodes    *)
(* checks those it is given: it reads the kind and then the peer of each   *)
(* relationship in turn.  Peers may be missing, and the schema may change  *)
(* at each await.                                                          *)
(*                                                                         *)
(* A filter <<a>> stands for "a__value" and <<r, a>> for "r__a__value".    *)
(* One client makes one call after the other.                              *)
(***************************************************************************)
EXTENDS Naturals, Sequences

CONSTANTS
  Schema,           \* [own, peer]: the attributes of the kind and, for each
                    \* peer kind, the set of its attributes; in "missing" are
                    \* the peer kinds that do not exist
  Relationship,     \* the relationships of the kind: a sequence of [name, peer]
  Reserved,         \* _RESERVED_FILTER_KEYS
  Key,              \* the filters the client may use
  MaxSchemaChanges, \* bound on its changes since the client asked
  NoKey, NoMap      \* a call without filters; a client that has not asked

Relationships == {Relationship[i] : i \in DOMAIN Relationship}

ASSUME RelationshipAssumption == Relationship \in Seq(Relationships)

OwnFilters(s) == {<<a>> : a \in s.own}

\* The filters of one relationship; none if its peer kind is missing.
FiltersOf(rel, s) ==
  IF rel.peer \in s.missing THEN {} ELSE {<<rel.name, a>> : a \in s.peer[rel.peer]}

FiltersOfAll(rels, s) == UNION {FiltersOf(rel, s) : rel \in rels}

\* Reserved keys are words, and filters end in "__value".
ASSUME ReservedAssumption ==
  \A s \in Schema : Reserved \cap (OwnFilters(s) \cup FiltersOfAll(Relationships, s)) = {}

VARIABLES
  schema,         \* Infrahub's
  schemaChanges,  \* how often it was changed
  asking,         \* what the call under way asks the schema for
  filters,        \* the filters it has found so far
  peersLeft,      \* get_schema: peer kinds whose schema is still to come
  next,           \* get_nodes: the relationship it is at
  filterMap,      \* the filters the client was told
  key             \* the filter it uses

\* History, for the properties only.
VARIABLES changed  \* has the schema changed since the client asked?

schemaCall == <<asking, filters, peersLeft, next>>
schemaVars == <<schema, schemaChanges, schemaCall, filterMap, key, changed>>

InitSchema ==
  /\ schema \in Schema
  /\ schemaChanges = 0
  /\ asking = "nothing"
  /\ filters = {} /\ peersLeft = {} /\ next = 1
  /\ filterMap = NoMap
  /\ key = NoKey
  /\ changed = FALSE

ChangeSchema ==
  /\ schemaChanges < MaxSchemaChanges
  /\ schema' \in Schema \ {schema}
  /\ schemaChanges' = schemaChanges + 1
  /\ changed' = TRUE
  /\ UNCHANGED <<schemaCall, filterMap, key>>

-----------------------------------------------------------------------------
\* get_schema_detail
AskMap ==
  /\ asking = "nothing"
  /\ asking' = "map"
  /\ filters' = OwnFilters(schema)
  /\ peersLeft' = {rel.peer : rel \in Relationships}
  /\ changed' = FALSE /\ schemaChanges' = 0
  /\ UNCHANGED <<schema, next, filterMap, key>>

\* _fetch_peer: each peer kind once, in any order.
FetchPeer(p) ==
  /\ asking = "map" /\ p \in peersLeft
  /\ peersLeft' = peersLeft \ {p}
  /\ filters' = filters \cup
                  FiltersOfAll({rel \in Relationships : rel.peer = p}, schema)
  /\ UNCHANGED <<schema, schemaChanges, asking, next, filterMap, key, changed>>

MapAnswered ==
  /\ asking = "map" /\ peersLeft = {}
  /\ filterMap' = filters
  /\ asking' = "nothing" /\ filters' = {}
  /\ UNCHANGED <<schema, schemaChanges, peersLeft, next, key, changed>>

-----------------------------------------------------------------------------
\* _validate_filters
CheckKind ==
  /\ asking = "nothing" /\ key # NoKey
  /\ asking' = IF key \in Reserved THEN "refused" ELSE "check"
  /\ filters' = OwnFilters(schema)
  /\ next' = 1
  /\ UNCHANGED <<schema, schemaChanges, peersLeft, filterMap, key, changed>>

\* Mutant of CheckPeer: the first peer that is missing ends the search.
CheckPeerUntilMissing ==
  /\ asking = "check" /\ next <= Len(Relationship)
  /\ filters' = filters \cup FiltersOf(Relationship[next], schema)
  /\ next' = IF Relationship[next].peer \in schema.missing
             THEN Len(Relationship) + 1 ELSE next + 1
  /\ UNCHANGED <<schema, schemaChanges, asking, peersLeft, filterMap, key, changed>>
CheckPeer ==
  /\ asking = "check" /\ next <= Len(Relationship)
  /\ filters' = filters \cup FiltersOf(Relationship[next], schema)
  /\ next' = next + 1
  /\ UNCHANGED <<schema, schemaChanges, asking, peersLeft, filterMap, key, changed>>

Checked ==
  /\ asking = "check" /\ next > Len(Relationship)
  /\ asking' = IF key \in filters THEN "accepted" ELSE "refused"
  /\ UNCHANGED <<schema, schemaChanges, filters, peersLeft, next, filterMap, key, changed>>

Check == CheckKind \/ CheckPeer \/ Checked

\* A call begins with the filter k, or one is over and the next will have it.
ForgetCheck(k) ==
  /\ asking' = "nothing" /\ filters' = {} /\ next' = 1
  /\ key' = k
  /\ UNCHANGED <<schema, schemaChanges, peersLeft, filterMap, changed>>

\* The client turns to another kind.
ForgetMap ==
  /\ asking' = "nothing" /\ filters' = {} /\ next' = 1
  /\ key' = NoKey /\ filterMap' = NoMap
  /\ changed' = FALSE /\ schemaChanges' = 0
  /\ UNCHANGED <<schema, peersLeft>>

-----------------------------------------------------------------------------
\* "The complete set of filters accepted by get_nodes": as long as the schema
\* is the one the client was told of, get_nodes accepts the filters of the map
\* and no others, though it works them out by another walk.
FilterMapExact ==
  filterMap # NoMap /\ ~changed =>
    /\ asking = "accepted" => key \in filterMap
    /\ asking = "refused"  => key \notin filterMap

=============================================================================
