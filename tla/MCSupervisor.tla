---------------------------- MODULE MCSupervisor ----------------------------
(***************************************************************************)
(* Supervisor with a few bots.                                             *)
(***************************************************************************)
EXTENDS Supervisor
=============================================================================
