------------------------------ MODULE MCWorkers ------------------------------
(* The background loops of the services for TLC: the consume() loops of a  *)
(* work queue, and the data pipeline's poll loop with its tasks.  The two  *)
(* share nothing, so a behaviour takes one of them.                        *)
EXTENDS WorkQueue, JobRunner

WorkersInit == Init /\ RunnerInit
WorkersNext == \/ RunnerInit /\ Next /\ UNCHANGED runnerVars
               \/ Init /\ RunnerNext /\ UNCHANGED vars

(* Nothing is fair in the initial state, so the fairness of the one demands*)
(* nothing of a behaviour that takes the other.                            *)
WorkersSpec == /\ WorkersInit /\ [][WorkersNext]_<<vars, runnerVars>>
               /\ Fairness /\ RunnerFairness
=============================================================================
