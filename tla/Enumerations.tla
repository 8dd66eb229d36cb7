----------------------------- MODULE Enumerations -----------------------------
(***************************************************************************)
(* The places of a vector that satisfy a condition, as a loop over the      *)
(* vector comes to them; the ids of a table, as ORDER BY lists them.        *)
(***************************************************************************)
EXTENDS Naturals, FiniteSets

Ascending(places) ==
  [k \in 1 .. Cardinality(places) |->
     CHOOSE i \in places : Cardinality({j \in places : j < i}) = k - 1]
=============================================================================
