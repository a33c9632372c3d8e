---------------------------- MODULE MCJobRunner ----------------------------
(* JobRunner for TLC: the constants get their values in the cfg file.      *)
EXTENDS JobRunner
=============================================================================
