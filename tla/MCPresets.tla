----------------------------- MODULE MCPresets ------------------------------
(* Two tags, a server of each and one of both; two presets, one there.     *)
EXTENDS RequestFilters, TLC

CONSTANTS n1, n2, e1, e2

MCTagOrder == <<"a", "b">>
MCTagsOf == "s1" :> {"a"} @@ "s2" :> {"b"} @@ "s3" :> {"a", "b"}
MCCanonOf == "A" :> "a"
MCInitial == n1 :> BuildQuery([t \in Tags |-> "selected"], "and") @@ n2 :> None
MCSymbols == Tags \cup {"&&", ",", "!", "-", "(", ")"}
MCConfigured == {Servers, {"s1", "s3"}}
MCFollowed == {Node("$not", <<Tag("b")>>)}
=============================================================================
