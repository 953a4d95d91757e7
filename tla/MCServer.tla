------------------------------ MODULE MCServer ------------------------------
(* Server with more connections than slots and two calls of Shutdown.      *)
EXTENDS Server
=============================================================================
