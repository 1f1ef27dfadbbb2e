---------------------------- MODULE MCTypeTable ----------------------------
(* TLC instance of the type table: one basic type, a struct and a generic.   *)
EXTENDS TypeTable

OneBasic == <<"int">>
=============================================================================
