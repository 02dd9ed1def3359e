------------------------------ MODULE MCOutbox ------------------------------
(* Small instances of Outbox for TLC.                                      *)
EXTENDS Outbox, TLC

CONSTANTS r1, r2

RunSymmetry == Permutations(Runs)
=============================================================================
