----------------------------- MODULE MCReadTools ----------------------------
(* Small instances of ReadTools for TLC.                                   *)
EXTENDS ReadTools

CONSTANTS n1, n2, n3, P, Q

Limits == {-1, 2}

Letters  == {"a", "b", "_", "K"}
KindText == <<"K">>

\* n1 and n2 are written alike, a_ + b and a + _b; n3 is renamed onto n2.
Hfids == [n \in Node |-> CASE n = n1 -> <<<<"a", "_">>, <<"b">>>>
                           [] n = n2 -> <<<<"a">>, <<"_", "b">>>>
                           [] n = n3 -> <<<<"a">>, <<"_", "b">>>>]

Named == [form : {"hfid"}, node : Node]
           \cup {[form |-> "id", node |-> n1], [form |-> "label", node |-> n1]}

\* Two relationships to one peer kind, of which one comes after a relationship
\* whose peer kind may be missing.
Relations == <<[name |-> "r", peer |-> P], [name |-> "s", peer |-> Q],
               [name |-> "t", peer |-> P]>>

Schemas ==
  {[own |-> {"x"}, peer |-> (P :> {"x"} @@ Q :> {"x"}), missing |-> {}],
   [own |-> {"x"}, peer |-> (P :> {"x"} @@ Q :> {}), missing |-> {Q}]}

ReservedKeys == {<<"limit">>}
Keys         == {<<"limit">>, <<"s", "x">>, <<"t", "x">>}
=============================================================================
