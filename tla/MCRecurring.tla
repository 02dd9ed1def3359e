---------------------------- MODULE MCRecurring -----------------------------
(* Small instances of Recurring for TLC: months of two days, every third of *)
(* a single one.                                                           *)
EXTENDS Recurring

CONSTANTS s1, s2, w1, w2, h1, h2

TwoTwoOne == <<0, 2, 4, 5, 7, 9, 10, 12>>
DayAndMonth == [unit : {"day", "month"}, value : {1}]
=============================================================================
