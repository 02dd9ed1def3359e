------------------------------- MODULE MCTeam -------------------------------
(* Small instances of Team for TLC.                                        *)
EXTENDS Team, TLC

CONSTANTS p1, p2, p3, b1, b2, r1, r2, r3, t1, t2, t3, t4, s1, h1, h2

Symmetry ==
  Permutations(Requests) \cup Permutations(Tokens) \cup Permutations(Rows)
=============================================================================
