------------------------------ MODULE PaidWork ------------------------------
(***************************************************************************)
(* What a caller of a media generator is promised, whichever provider and  *)
(* protocol are used: work is ordered once and never again, the provider   *)
(* alone decides what becomes of it, and what the caller gets is finished  *)
(* work that was ordered for this call.  The caller may give up at any     *)
(* time; the order then stands.                                            *)
(***************************************************************************)
CONSTANT Call

VARIABLES
  work,    \* at the provider: "none", "running", "completed" or "failed"
  result   \* of the call: "open", "made" or "failed"

Init ==
  /\ work = [c \in Call |-> "none"]
  /\ result = [c \in Call |-> "open"]

\* A synchronous provider has finished when it answers.
Order(c) ==
  /\ work[c] = "none" /\ result[c] = "open"
  /\ work' \in {[work EXCEPT ![c] = w] : w \in {"running", "completed"}}
  /\ result' \in {result, [result EXCEPT ![c] = "failed"]}

Progress(c) ==
  /\ work[c] = "running"
  /\ work' \in {[work EXCEPT ![c] = w] : w \in {"completed", "failed"}}
  /\ UNCHANGED result

Deliver(c) ==
  /\ work[c] = "completed" /\ result[c] = "open"
  /\ result' = [result EXCEPT ![c] = "made"]
  /\ UNCHANGED work

GiveUp(c) ==
  /\ result[c] = "open"
  /\ result' = [result EXCEPT ![c] = "failed"]
  /\ UNCHANGED work

Next == \E c \in Call : Order(c) \/ Progress(c) \/ Deliver(c) \/ GiveUp(c)

Spec == Init /\ [][Next]_<<work, result>>
=============================================================================
