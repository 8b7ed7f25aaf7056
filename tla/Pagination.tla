----------------------------- MODULE Pagination -----------------------------
(***************************************************************************)
(* get_nodes, and a client that reads all nodes of a kind page by page.    *)
(* A call asks Infrahub for the number of the nodes and then for a page of *)
(* them, with an await in between and another before the client asks for   *)
(* the next page; at each of them nodes may be added and deleted.          *)
(*                                                                         *)
(* The client does what the tool's description tells it: it moves the      *)
(* offset by the nodes it got and stops when has_more is not true.         *)
(***************************************************************************)
EXTENDS Integers, SequencesExt

CONSTANTS
  Node,        \* nodes of the kind that match the filters
  Limit,       \* the limits a client may ask for; -1 is none
  MaxChanges,  \* bound on the nodes added and deleted during a reading
  Unknown      \* has_more when the count failed: Python's None

\* The parameter admits 0 as well, of which the client library makes no page.
ASSUME LimitAssumption == Limit \subseteq Nat \cup {-1} /\ 0 \notin Limit /\ Limit # {}
ASSUME BoundAssumption == MaxChanges \in Nat /\ Unknown \notin BOOLEAN

VARIABLES
  store,    \* Infrahub: the nodes in the order in which queries list them
  changes,  \* how many were added or deleted since it began
  pc,       \* the client's call
  limit, offset,  \* its parameters
  total,    \* total_count
  page,     \* nodes
  more,     \* has_more of the last answer
  got       \* all the client has been given

\* History, for the properties only.
VARIABLES
  lasting,  \* nodes that have been there since the reading began
  moved     \* has one of them changed its place?

call    == <<limit, offset, total, page, more, got>>
history == <<lasting, moved>>
vars == <<store, changes, pc, call, history>>

Reading == {"count", "fetch", "answer", "next"}
Place   == Reading \cup {"idle", "done", "failed"}

\* Without a call the limit does not matter.
AnyLimit == CHOOSE l \in Limit : TRUE

Init ==
  /\ store \in {s \in SeqOf(Node, Cardinality(Node)) : IsInjective(s)}
  /\ changes = 0
  /\ pc = "idle"
  /\ limit = AnyLimit
  /\ offset = 0
  /\ total = 0
  /\ page = <<>>
  /\ more = Unknown
  /\ got = <<>>
  /\ lasting = {}
  /\ moved = FALSE

-----------------------------------------------------------------------------
\* Nodes come and go, and those behind them move.
Change(s) ==
  /\ changes < MaxChanges
  /\ changes' = changes + 1
  /\ store' = s
  /\ lasting' = lasting \cap ToSet(s)
  /\ moved' = (moved \/ \E j \in DOMAIN store :
                          /\ store[j] \in lasting'
                          /\ j \in DOMAIN s => s[j] # store[j])
  /\ UNCHANGED <<pc, call>>

Add(n, i) == n \notin ToSet(store) /\ Change(InsertAt(store, i, n))

Delete(i) == Change(RemoveAt(store, i))

-----------------------------------------------------------------------------
Begin ==
  /\ pc = "idle"
  /\ limit' \in Limit
  /\ UNCHANGED <<offset, total, page, more, got>>
  /\ lasting' = ToSet(store)
  /\ moved' = FALSE
  /\ pc' = "count"
  /\ UNCHANGED <<store, changes>>

\* An unknown kind, a filter that the schema does not have, or a query that
\* fails: the tool raises.
Raise ==
  /\ pc \in {"count", "fetch"}
  /\ pc' = "failed"
  /\ UNCHANGED <<store, changes, call, history>>

\* _get_total_count
Count ==
  /\ pc = "count"
  /\ total' \in {Len(store), -1}
  /\ pc' = "fetch"
  /\ UNCHANGED <<store, changes, limit, offset, page, more, got, history>>

\* _fetch_nodes: the nodes after the offset, at most limit of them.
After(k, s) == SubSeq(s, k + 1, Len(s))
\* Mutant of Upto: one node more, to see whether there is one.
UptoOneMore(k, s) ==
  IF k = -1 \/ Len(s) <= k THEN s ELSE SubSeq(s, 1, k + 1)
Upto(k, s) == IF k = -1 \/ Len(s) < k THEN s ELSE SubSeq(s, 1, k)

\* Mutant of Fetch: the offset is lost on its way to the client library.
FetchFirst ==
  /\ pc = "fetch"
  /\ page' = Upto(limit, store)
  /\ pc' = "answer"
  /\ UNCHANGED <<store, changes, limit, offset, total, more, got, history>>
Fetch ==
  /\ pc = "fetch"
  /\ page' = Upto(limit, After(offset, store))
  /\ pc' = "answer"
  /\ UNCHANGED <<store, changes, limit, offset, total, more, got, history>>

\* Mutant of HasMore: a page that ends where the nodes end has more.
HasMoreAtEnd == IF total >= 0 THEN total >= offset + Len(page) ELSE Unknown
HasMore == IF total >= 0 THEN total > offset + Len(page) ELSE Unknown

Answer ==
  /\ pc = "answer"
  /\ more' = HasMore
  /\ got' = got \o page
  /\ pc' = "next"
  /\ UNCHANGED <<store, changes, limit, offset, total, page, history>>

\* The client reads on, or stops.
NextPage ==
  /\ pc = "next" /\ more = TRUE
  /\ offset' = offset + Len(page)
  /\ pc' = "count"
  /\ UNCHANGED <<store, changes, limit, total, page, more, got, history>>

Stop ==
  /\ pc = "next" /\ more # TRUE
  /\ pc' = "done"
  /\ UNCHANGED <<store, changes, call, history>>

Forget ==
  /\ pc \in {"done", "failed"}
  /\ pc' = "idle"
  /\ limit' = AnyLimit /\ offset' = 0
  /\ total' = 0 /\ page' = <<>> /\ more' = Unknown /\ got' = <<>>
  /\ lasting' = {} /\ moved' = FALSE
  /\ changes' = 0
  /\ UNCHANGED store

Read == Count \/ Fetch \/ Answer \/ NextPage \/ Stop

Next ==
  \/ \E n \in Node, i \in 1..(Len(store) + 1) : Add(n, i)
  \/ \E i \in DOMAIN store : Delete(i)
  \/ Begin \/ Raise \/ Read \/ Forget

Spec == Init /\ [][Next]_vars

\* Infrahub answers, and the client reads on.
FairSpec == Spec /\ WF_vars(Read)

-----------------------------------------------------------------------------
\* Every variable has its type, and no page is over its limit.
TypeOK ==
  /\ store \in Seq(Node) /\ IsInjective(store)
  /\ changes \in 0..MaxChanges
  /\ pc \in Place
  /\ limit \in Limit
  /\ offset \in Nat /\ total \in Nat \cup {-1}
  /\ page \in Seq(Node) /\ (limit # -1 => Len(page) <= limit)
  /\ more \in BOOLEAN \cup {Unknown}
  /\ got \in Seq(Node)
  /\ lasting \subseteq Node /\ moved \in BOOLEAN

\* "The response always includes total_count and has_more so you know when to
\* stop": a client that was told to stop has every node that was there all the
\* time, and none of them twice, unless one of them changed its place under it.
ReadCompletely ==
  pc = "done" /\ more = FALSE /\ ~moved =>
    \A n \in lasting : \E k \in DOMAIN got :
      got[k] = n /\ \A m \in DOMAIN got : got[m] = n => m = k

\* A reading ends once nodes stop coming and going, as MaxChanges has them do:
\* a page may come back empty though has_more says there is more, but not twice.
ReadingStops == pc \in Reading ~> pc \notin Reading

=============================================================================
