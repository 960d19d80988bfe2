----------------------------- MODULE MCDelivery -----------------------------
(* Delivery on a small instance. *)
EXTENDS Delivery, TLC
CONSTANTS e1, e2
=============================================================================
