------------------------------- MODULE MCWeb --------------------------------
(***************************************************************************)
(* Web on a small instance: three days, of which two are open, two times,  *)
(* two accounts and two clients.                                           *)
(***************************************************************************)
EXTENDS Web

MCTimes == {9, 10}
MCOpenDays == {1, 2}
MCBooked == [day |-> 2, time |-> 9]
MCAccounts == {1, 2}
Budget(c, l, p, o, v, f) ==
  [customer |-> c, link |-> l, portal |-> p, owner |-> o, landing |-> v,
   faults |-> f]
MCBudgets ==
  {Budget(4, 0, 0, 0, 0, 0), Budget(3, 0, 0, 0, 0, 1),
   Budget(0, 0, 0, 4, 0, 0), Budget(0, 0, 0, 3, 0, 1),
   Budget(2, 0, 0, 1, 0, 0), Budget(1, 0, 0, 1, 0, 1),
   Budget(0, 5, 0, 0, 0, 0), Budget(0, 3, 0, 0, 0, 1),
   Budget(0, 2, 0, 1, 0, 0),
   Budget(0, 0, 4, 0, 0, 0), Budget(0, 0, 3, 0, 0, 1),
   Budget(0, 1, 2, 0, 0, 0),
   Budget(0, 0, 0, 0, 4, 0), Budget(0, 0, 0, 0, 3, 1),
   Budget(0, 0, 0, 2, 3, 0)}
MCClients == {1, 2}
=============================================================================
