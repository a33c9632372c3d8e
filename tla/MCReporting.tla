----------------------------- MODULE MCReporting -----------------------------
(* The reporting service for TLC, and the figures its templates and the    *)
(* data pipeline compute.  The two share nothing, so a behaviour takes one *)
(* of them.                                                                *)
EXTENDS Reporting, Analytics

(* A schedule, one of another cron whose template nobody knows, one whose  *)
(* cron is unreadable, one that is disabled.                               *)
MCWanted == { [cron |-> "c1", enabled |-> TRUE, template |-> "t1"],
              [cron |-> "c2", enabled |-> TRUE, template |-> "unknown"],
              [cron |-> "bad", enabled |-> TRUE, template |-> "t1"],
              [cron |-> "c1", enabled |-> FALSE, template |-> "t1"] }

(* The connector holds nothing, or four orders of a customer who comes back*)
MCHeld == {<<>>, [i \in 1..4 |-> [customer |-> "k1", ts |-> 190, value |-> 5000, status |-> "paid"]]}

(* Weeks from a Monday, months of thirty days.                             *)
MCCalendar(day, size) == day \div size

MCInit == ReportingInit /\ FiguresInit
MCNext == \/ /\ stream = <<>> /\ series = <<>>
             /\ ReportingNext /\ UNCHANGED figureVars
          \/ /\ ReportingInit
             /\ FiguresNext /\ UNCHANGED reportVars
MCSpec == MCInit /\ [][MCNext]_<<reportVars, figureVars>>
=============================================================================
