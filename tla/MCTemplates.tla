---------------------------- MODULE MCTemplates ----------------------------
(* Model checking TemplateServers with templates of different settings. *)
EXTENDS TemplateServers, TLC

CONSTANTS c1, c2, c3, h1, h2, shared, private, solo

OnlyShared == <<shared>>
SharedThenSolo == <<shared, solo>>
OnlyPrivate == <<private>>

(* Two sessions of one project. *)
SameContext == c1 :> {h1} @@ c2 :> {h1}
(* A third session of another project. *)
TwoContexts == SameContext @@ c3 :> {h2}
(* One session whose context changes between connects. *)
ChangingContext == c1 :> {h1, h2} @@ c2 :> {h1}

Symmetry == Permutations(Requests)
=============================================================================
