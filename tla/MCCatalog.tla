----------------------------- MODULE MCCatalog ------------------------------
(* Two names, one of them that of the results of queries, and two schemas, of *)
(* one attribute and of two.                                                  *)
EXTENDS Catalog, FiniteSets, TLC

CONSTANTS s1, s2

Widths == s1 :> 1 @@ s2 :> 2

\* Bounds: a file has tuples of this many descriptions, and the program goes on
\* while this many relations are half made or half gone, left open or torn.
MaxKinds == 1
MaxAmiss == 1

Settles(r) ==
  r = Absent \/ (Described(r) /\ r.file = "whole" /\ r.open = "closed")

Bounds ==
  /\ \A n \in Names : Cardinality(rel[n].stored) <= MaxKinds
  /\ Cardinality({n \in Names : ~Settles(rel[n])}) <= MaxAmiss
=============================================================================
