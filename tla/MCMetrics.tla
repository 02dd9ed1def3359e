----------------------------- MODULE MCMetrics ------------------------------
(***************************************************************************)
(* Metrics on a small instance: three appointments of a customer, of which *)
(* two are alike and may be of a series, with two professionals and two    *)
(* services, and two days of the week, the second of them of this month.   *)
(***************************************************************************)
EXTENDS Metrics, TLC

CONSTANTS single, first, second

MCAppointments == {single, first, second}

MCOf == [a \in MCAppointments |->
           IF a = single THEN [staff |-> 2, customer |-> 1, service |-> 2]
                         ELSE [staff |-> 1, customer |-> 1, service |-> 1]]

\* The two that are alike.
MCSymmetry == Permutations({first, second})
=============================================================================
