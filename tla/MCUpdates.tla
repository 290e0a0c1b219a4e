------------------------------ MODULE MCUpdates ------------------------------
(* Two static servers with a common tool name and a prompt, two sessions.  *)
EXTENDS CapabilityUpdates, TLC

CONSTANTS k1, k2, s1, s2, tool, prompt

MCVisibleTo == [k \in {} |-> {}]
MCSelects == [s \in Sessions |-> Keys]
MCOffers == k1 :> {"tools"} @@ k2 :> {"tools", "prompts"}
MCItems == k1 :> [kind \in Kinds |-> IF kind = "tools" THEN {tool} ELSE {}]
           @@ k2 :> [kind \in Kinds |-> IF kind = "tools" THEN {tool} ELSE {prompt}]
MCHidden == [k \in Keys |-> [kind \in Kinds |-> IF kind = "tools" THEN {tool} ELSE {}]]
=============================================================================
