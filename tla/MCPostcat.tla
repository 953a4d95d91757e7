------------------------------ MODULE MCPostcat ------------------------------
(* Postcat with a few calls: two that overlap and one after a restart.     *)
EXTENDS Postcat
==============================================================================
