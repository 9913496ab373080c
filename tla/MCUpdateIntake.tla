--------------------------- MODULE MCUpdateIntake ---------------------------
(* Small instances of the update loop for TLC.                             *)
EXTENDS UpdateIntake, TLC

CONSTANTS k1, k2

\* Requests of both kinds under one message id and one of a second, a deletion
\* that names the first and a processing message, and an update nothing is done
\* for.
Mixed ==
  {[kind |-> "message", key |-> k1], [kind |-> "guest", key |-> k1],
   [kind |-> "guest", key |-> k2],
   [kind |-> "deleted", keys |-> {k1, Progress(1)}], [kind |-> "other"]}

\* Of the updates Telegram may queue: a request first, then anything, then a
\* deletion.
RequestToDeletion ==
  /\ arrived >= 1 => content[1].kind = "message"
  /\ arrived = 3 => content[3].kind = "deleted"
=============================================================================
