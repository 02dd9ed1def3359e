----------------------------- MODULE MCWaitlist -----------------------------
(* Small instances of Waitlist for TLC.                                    *)
EXTENDS Waitlist

CONSTANTS a1, a2, w1, w2, h1, h2

\* When a1 is released its slot can be booked again, or won, as a2.
OneSlot == [a \in Appointments |-> 1]
=============================================================================
