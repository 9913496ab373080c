-------------------------- MODULE SupervisorProofs --------------------------
(***************************************************************************)
(* Proofs about Supervisor, for any bots, times, requests and either       *)
(* policy: a worker that has not failed loses no request before its time.  *)
(***************************************************************************)
EXTENDS Supervisor, TLAPS

-----------------------------------------------------------------------------
(* The invariant                                                           *)

\* A worker that is over has no requests, and main has joined only such workers.
JoinedAreOver ==
  /\ \A b \in Bot : Over(b) => jobs[b] = 0
  /\ \A b \in joined : Over(b)
  /\ main \in {"starting", "exited"} => joined = {}

\* What the clock of the way down says at each of its stages.
ClockOfTheWayDown ==
  /\ main \in {"starting", "waiting"} => clock = 0
  /\ main = "joining" => deadline = Drain /\ clock <= Drain
  /\ main = "closing" => joined = Bot \/ clock >= Drain

IInv == TypeOK /\ JoinedAreOver /\ ClockOfTheWayDown /\ RequestsHaveTheirTime

LEMMA IInvInit == Init => IInv
<1> SUFFICES ASSUME Init PROVE IInv
  OBVIOUS
<1>1. wanted \in BOOLEAN /\ shutdown \in BOOLEAN /\ asked \in BOOLEAN
  BY Zenon DEF Init
<1>2. TypeOK
  BY SupervisorAssumption, <1>1 DEF Init, TypeOK
<1> QED BY <1>2 DEF Init, IInv, JoinedAreOver, ClockOfTheWayDown, RequestsHaveTheirTime

-----------------------------------------------------------------------------
(* One lemma for each group of actions                                     *)

\* The steps of main.
LEMMA MainKeeps == ASSUME IInv, Main \/ StartFails \/ Signal \/ Restart PROVE IInv'
<1> USE SupervisorAssumption DEF IInv, TypeOK, Over, time, tasks
<1>1. CASE Start
  BY <1>1 DEF Start, JoinedAreOver, ClockOfTheWayDown, RequestsHaveTheirTime
<1>2. CASE StartFails
  BY <1>2 DEF StartFails, JoinedAreOver, ClockOfTheWayDown, RequestsHaveTheirTime
<1>3. CASE Signal
  <2>1. wanted' \in BOOLEAN /\ shutdown' \in BOOLEAN /\ asked' \in BOOLEAN
    BY <1>3, Zenon DEF Signal, TellToStop
  <2> QED BY <1>3, <2>1 DEF Signal, TellToStop, JoinedAreOver, ClockOfTheWayDown,
                            RequestsHaveTheirTime
<1>4. CASE WorkerStops
  BY <1>4 DEF WorkerStops, TellToStop, JoinedAreOver, ClockOfTheWayDown, RequestsHaveTheirTime
<1>5. CASE JoinNext
  BY <1>5 DEF JoinNext, JoinedAreOver, ClockOfTheWayDown, RequestsHaveTheirTime
<1>6. CASE StopJoining
  BY <1>6 DEF StopJoining, Close, JoinedAreOver, ClockOfTheWayDown, RequestsHaveTheirTime
<1>7. CASE Exit
  <2>1. wanted' \in BOOLEAN /\ shutdown' \in BOOLEAN /\ asked' \in BOOLEAN
    BY <1>7, Zenon DEF Exit
  <2>2. lost' \in -1 .. Drain + ServerTime
    BY <1>7 DEF Exit
  <2>3. TypeOK' /\ JoinedAreOver' /\ ClockOfTheWayDown'
    BY <1>7, <2>1, <2>2 DEF Exit, JoinedAreOver, ClockOfTheWayDown
  <2>4. ASSUME NEW b \in Bot, jobs[b] > 0 PROVE clock >= Drain
    <3>1. ~Over(b)
      BY <2>4 DEF JoinedAreOver
    <3>2. joined # Bot
      BY <3>1 DEF JoinedAreOver
    <3> QED BY <1>7, <3>2 DEF Exit, ClockOfTheWayDown
  <2>5. RequestsHaveTheirTime'
    BY <1>7, <2>4 DEF Exit, RequestsHaveTheirTime
  <2> QED BY <2>3, <2>5
<1>8. CASE Restart
  <2>1. wanted' \in BOOLEAN /\ shutdown' \in BOOLEAN /\ asked' \in BOOLEAN
    BY <1>8, Zenon DEF Restart
  <2> QED BY <1>8, <2>1 DEF Restart, JoinedAreOver, ClockOfTheWayDown, RequestsHaveTheirTime
<1> QED BY <1>1, <1>2, <1>3, <1>4, <1>5, <1>6, <1>7, <1>8 DEF Main

\* The steps of the workers.
LEMMA WorkersKeep ==
  ASSUME IInv, NEW b \in Bot,
         SeesShutdown(b) \/ WorkerEnds(b) \/ TakesRequest(b) \/ RequestEnds(b) \/ WorkerFails(b)
  PROVE  IInv'
<1> USE SupervisorAssumption
        DEF IInv, TypeOK, Over, time, tasks, JoinedAreOver, ClockOfTheWayDown, RequestsHaveTheirTime
<1>1. CASE SeesShutdown(b)
  BY <1>1 DEF SeesShutdown
<1>2. CASE WorkerEnds(b)
  BY <1>2 DEF WorkerEnds
<1>3. CASE TakesRequest(b)
  BY <1>3 DEF TakesRequest
<1>4. CASE RequestEnds(b)
  BY <1>4 DEF RequestEnds
<1>5. CASE WorkerFails(b)
  BY <1>5 DEF WorkerFails
<1> QED BY <1>1, <1>2, <1>3, <1>4, <1>5

\* The steps of the server, the clock, and none.
LEMMA OthersKeep ==
  ASSUME IInv, ServerIsAsked \/ ServerAnswers \/ ServerEnds \/ Tick \/ UNCHANGED vars
  PROVE  IInv'
<1> USE SupervisorAssumption
        DEF IInv, TypeOK, Over, time, tasks, JoinedAreOver, ClockOfTheWayDown, RequestsHaveTheirTime
<1>1. CASE ServerIsAsked
  BY <1>1 DEF ServerIsAsked
<1>2. CASE ServerAnswers
  BY <1>2 DEF ServerAnswers
<1>3. CASE ServerEnds
  BY <1>3 DEF ServerEnds
<1>4. CASE Tick
  BY <1>4 DEF Tick
<1>5. CASE UNCHANGED vars
  BY <1>5 DEF vars
<1> QED BY <1>1, <1>2, <1>3, <1>4, <1>5

LEMMA IInvStep == IInv /\ [Next]_vars => IInv'
<1> SUFFICES ASSUME IInv, [Next]_vars PROVE IInv'
  OBVIOUS
<1> QED BY MainKeeps, WorkersKeep, OthersKeep DEF Next, Task

LEMMA Inductive == Spec => []IInv
BY IInvInit, IInvStep, PTL DEF Spec

-----------------------------------------------------------------------------
(* Theorems                                                                *)

\* The stages of the process, its tasks and its clock keep to their types; the
\* clock never passes the two times main grants.
THEOREM TypeInvariant == Spec => []TypeOK
<1>1. IInv => TypeOK
  BY DEF IInv
<1> QED BY <1>1, Inductive, PTL

\* main gives up on its workers, and drops their requests, only when the 35 seconds
\* of its first time-out are over, whoever ended or failed before.
THEOREM RequestsGetTheirTime == Spec => []RequestsHaveTheirTime
<1>1. IInv => RequestsHaveTheirTime
  BY DEF IInv
<1> QED BY <1>1, Inductive, PTL
=============================================================================
