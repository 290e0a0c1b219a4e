----------------------------- MODULE MCLoading -----------------------------
(* Model checking McpLoading with two servers in batches, and what is told *)
(* of them: one has both tags, the other one, a template server the other. *)
EXTENDS ServerStatus, TLC

CONSTANTS s1, s2, t1, a, b

TwoServers == <<s1, s2>>
MCTagsOf == s1 :> {a, b} @@ s2 :> {a} @@ t1 :> {b}
=============================================================================
