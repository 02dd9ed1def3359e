---------------------------- MODULE MCFollowups -----------------------------
(* Small instances of Followups for TLC.                                   *)
EXTENDS Followups

CONSTANTS m1, m2, t1, t2, none
=============================================================================
