------------------------------ MODULE MCAdapter ------------------------------
(* The WhatsApp adapter for TLC: the delivery path with its keys and rows, *)
(* and the limiter, breakers and attempts one message meets on its way out,*)
(* which the delivery path takes as refusals at any time.  A behaviour     *)
(* takes one of the two.                                                   *)
EXTENDS Delivery, Outbound

CONSTANT Lone   \* the task alone in its process; the others share one

MCHome == [t \in Tasks |-> IF t = Lone THEN "b" ELSE "a"]

AdapterInit == Init /\ OutboundInit
AdapterNext == \/ OutboundInit /\ Next /\ UNCHANGED outboundVars
               \/ Init /\ OutboundNext /\ UNCHANGED vars

(* No delivery step is fair in the initial state, so the fairness demands  *)
(* nothing of a behaviour on the way out.                                  *)
AdapterSpec == AdapterInit /\ [][AdapterNext]_<<vars, outboundVars>> /\ Fairness
=============================================================================
