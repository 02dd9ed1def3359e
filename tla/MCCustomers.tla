---------------------------- MODULE MCCustomers -----------------------------
(***************************************************************************)
(* Customers on a small instance: two appointments, two runs of the job    *)
(* and two handlers of requests.                                           *)
(***************************************************************************)
EXTENDS Customers, TLC

CONSTANTS a1, a2, r1, r2, h1, h2

MCAppointments == {a1, a2}
MCRuns == {r1, r2}
MCHandlers == {h1, h2}
Symmetry == Permutations(MCAppointments) \cup Permutations(MCRuns)
              \cup Permutations(MCHandlers)
=============================================================================
