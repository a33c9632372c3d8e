---------------------------- MODULE MCWorkQueue ----------------------------
(* WorkQueue for TLC: the constants get their values in the cfg file.      *)
EXTENDS WorkQueue
=============================================================================
