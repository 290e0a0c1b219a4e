------------------------------ MODULE MCListing ------------------------------
(* Two static servers, one of two pages, and a template server of the first*)
(* session; the map is empty at first.                                     *)
EXTENDS Pagination, TLC

CONSTANTS k1, k2, k3, t1, s1, s2

MCVisibleTo == t1 :> {s1}
MCSelects == [s \in Sessions |-> Keys]
MCOffers == [k \in Keys |-> {"tools"}]
MCPages == [k \in Keys |-> IF k = k1 THEN 2 ELSE 1]
=============================================================================
