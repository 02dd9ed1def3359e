------------------------------ MODULE Effects ------------------------------
(***************************************************************************)
(* What the event backbone promises: an event that was committed with its  *)
(* change takes effect in the worker at most once, and nothing takes       *)
(* effect that was not committed.                                          *)
(***************************************************************************)
EXTENDS Integers

CONSTANT Events

VARIABLES
  committed,  \* events whose transaction has committed
  applied     \* how often each event has taken effect

Init ==
  /\ committed = {}
  /\ applied = [e \in Events |-> 0]

Commit(e) ==
  /\ committed' = committed \cup {e}
  /\ UNCHANGED applied

Apply(e) ==
  /\ e \in committed
  /\ applied[e] = 0
  /\ applied' = [applied EXCEPT ![e] = 1]
  /\ UNCHANGED committed

Next == \E e \in Events : Commit(e) \/ Apply(e)

Spec == Init /\ [][Next]_<<committed, applied>>
=============================================================================
