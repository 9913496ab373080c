---------------------------- MODULE MCHostedMedia ----------------------------
(* Instances of HostedMedia for TLC. *)
EXTENDS HostedMedia
=============================================================================
