------------------------------ MODULE MCSession ------------------------------
(* Session with small constants: a limit of two bytes, chunks of at most   *)
(* three, and an int that overflows when a chunk of its largest value is   *)
(* added to a partial message.                                             *)
EXTENDS Session
=============================================================================
