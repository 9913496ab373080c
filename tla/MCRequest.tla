------------------------------ MODULE MCRequest ------------------------------
(* Small instances of the requests of a conversation for TLC.              *)
EXTENDS Request
=============================================================================
