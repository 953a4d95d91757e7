---------------------------- MODULE MCConnection ----------------------------
(* Connection with small constants, set in the configurations.             *)
EXTENDS Connection
=============================================================================
