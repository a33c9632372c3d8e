----------------------------- MODULE MCDelivery -----------------------------
(* Delivery alone for TLC: the constants get their values in the cfg file. *)
EXTENDS Delivery
=============================================================================
