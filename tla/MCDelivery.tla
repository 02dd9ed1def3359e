----------------------------- MODULE MCDelivery -----------------------------
(* Small instances of Delivery for TLC.                                    *)
EXTENDS Delivery, TLC

CONSTANTS r1, r2, w1, w2

DeliverySymmetry == Permutations(Runs) \cup Permutations(Workers)
=============================================================================
