----------------------------- MODULE MCDelivery -----------------------------
(* TLC instances of Delivery.                                              *)
EXTENDS Delivery

CONSTANTS u1, c1
=============================================================================
