---------------------------- MODULE MCWorkQueue ----------------------------
(* TLC instances of the work queue. *)
EXTENDS WorkQueue

CONSTANTS w1, w2
=============================================================================
