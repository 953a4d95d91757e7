----------------------------- MODULE MCProgram ------------------------------
(* One session in flight when the signal comes.                            *)
EXTENDS Program
=============================================================================
