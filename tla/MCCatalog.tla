------------------------------ MODULE MCCatalog -----------------------------
(* Small instances of Catalog for TLC.                                     *)
EXTENDS Catalog, TLC

CONSTANTS b1, b2, v1, m1, m2, r1, r2, x1, d1, d2, h1, h2

HoursValue == {<<1, 3>>}

Symmetry ==
  Permutations(Requests) \cup Permutations(Rules) \cup Permutations(Staff)
  \cup Permutations(Businesses) \cup Permutations(Days)
=============================================================================
