--------------------------- MODULE MCAppointments ---------------------------
(***************************************************************************)
(* Slots on a small instance: two appointments, two staff members and two  *)
(* services, on a grid where neighbouring starts clash.                    *)
(***************************************************************************)
EXTENDS Slots, TLC

CONSTANTS a1, a2, c1, s1, s2, v1, v2, h1, h2

\* v1 blocks one unit and v2 two.
TwoLengths == [v \in Services |-> IF v = v1 THEN 1 ELSE 2]

OpenAlways == [v \in Services |-> Staff \X Starts]

\* The clock is two units behind and jumps forward at midnight: the first
\* start is when the day begins.
Behind == [before |-> -2, after |-> -1, change |-> 1]

\* The rules open the first start, an exception the second and a later one,
\* and another blocks the latter.
MCRules == {[staff |-> s, weekday |-> 0, from |-> 0, to |-> 2] : s \in Staff}
MCExceptions ==
  {[type |-> "EXTRA_OPENING", staff |-> AllStaff, date |-> 0,
    from |-> 1, to |-> 4],
   [type |-> "BLOCKED", staff |-> AllStaff, date |-> 0, from |-> 3, to |-> 5]}

SlotSymmetry ==
  Permutations(Appointments) \cup Permutations(Handlers)
    \cup Permutations(Staff) \cup Permutations(Customers)
=============================================================================
