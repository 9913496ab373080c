------------------------------ MODULE UpdateLog ------------------------------
(***************************************************************************)
(* What the update loop of a bot promises, without polling, permits or     *)
(* cancellation: updates are taken from a log in order, each is worked on  *)
(* by itself, and the position is acknowledged only behind the cursor.  A  *)
(* process that ends loses what it was working on and starts again at the  *)
(* acknowledged position: what was taken but not acknowledged is taken     *)
(* again, what was acknowledged never is.                                  *)
(***************************************************************************)
EXTENDS Integers

CONSTANT MaxUpdate  \* bound: how long the log gets

VARIABLES
  arrived,  \* the last update in the log
  acked,    \* updates below are acknowledged
  cursor,   \* updates below are taken
  busy,     \* updates being worked on
  handled,  \* updates that have been worked on to the end
  lost      \* updates that were being worked on when a process ended

logVars == <<arrived, acked, cursor, busy, handled, lost>>

Init ==
  /\ arrived = 0 /\ acked = 1 /\ cursor = 1
  /\ busy = {} /\ handled = {} /\ lost = {}

Arrive ==
  /\ arrived < MaxUpdate
  /\ arrived' = arrived + 1
  /\ UNCHANGED <<acked, cursor, busy, handled, lost>>

\* The updates from the cursor to some last one are taken together.
Take ==
  \E last \in cursor .. arrived :
    /\ acked = cursor
    /\ cursor' = last + 1
    /\ busy' = busy \cup cursor .. last
    /\ UNCHANGED <<arrived, acked, handled, lost>>

Acknowledge ==
  /\ acked' = cursor
  /\ UNCHANGED <<arrived, cursor, busy, handled, lost>>

Handle ==
  \E u \in busy :
    /\ busy' = busy \ {u}
    /\ handled' = handled \cup {u}
    /\ UNCHANGED <<arrived, acked, cursor, lost>>

ProcessEnds ==
  /\ cursor' = acked
  /\ busy' = {} /\ lost' = lost \cup busy
  /\ UNCHANGED <<arrived, acked, handled>>

Next == Arrive \/ Take \/ Acknowledge \/ Handle \/ ProcessEnds

Spec == Init /\ [][Next]_logVars
=============================================================================
