------------------------------ MODULE MCOutbound ------------------------------
(* The way out of the adapter for TLC: two processes with one task each.   *)
EXTENDS Outbound

CONSTANT Lone   \* the task alone in its process

MCHome == [t \in Tasks |-> IF t = Lone THEN "b" ELSE "a"]
=============================================================================
