---------------------------- MODULE MCDictionary ----------------------------
(* Four strings, three of one home in a table of four and two of one hash, *)
(* so that probes pass other keys and run over the end of the array.       *)
EXTENDS Dictionary, TLC
CONSTANTS k1, k2, k3, k4, v1, v2
MCKeys == {k1, k2, k3, k4}
MCHash == (k1 :> 3) @@ (k2 :> 7) @@ (k3 :> 7) @@ (k4 :> 8)
=============================================================================
