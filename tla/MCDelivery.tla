----------------------------- MODULE MCDelivery -----------------------------
(* Instances of Delivery for TLC: a single event *)
EXTENDS Delivery, TLC

CONSTANTS r1, m1

OneId == (r1 :> m1)

=============================================================================
