----------------------------- MODULE Supervisor -----------------------------
(***************************************************************************)
(* The process (main.rs) and the service manager that starts it: a worker  *)
(* for each bot, the server, and the way down. The first worker that ends, *)
(* or the signal, begins it; the workers then finish the requests they     *)
(* have taken (BotRunner::run), and the server the ones it is answering.   *)
(* Both have a time, after which the process ends all the same.            *)
(***************************************************************************)
EXTENDS Integers, FiniteSets

CONSTANTS
  Bot,          \* enabled bots
  Drain,        \* the time the workers have, in ticks (35 s)
  ServerTime,   \* the time the server has (5 s)
  Policy,       \* "always" (compose.yaml) or "on-failure" (teleforge.service)
  MaxJobs,      \* bound: requests a worker has at a time
  MaxFaults     \* bound: starts and workers that fail

ASSUME SupervisorAssumption ==
  /\ Bot # {} /\ IsFiniteSet(Bot)
  /\ Drain \in Nat \ {0} /\ ServerTime \in Nat \ {0}
  /\ Policy \in {"always", "on-failure"}
  /\ MaxJobs \in Nat /\ MaxFaults \in Nat

VARIABLES
  main,      \* where main is
  status,    \* the exit status of the process that ended last
  wanted,    \* the operator has not stopped the service
  shutdown,  \* the value of the watch channel
  clock,     \* time since main told the others to stop
  deadline,  \* when the time-out of what main waits for fires
  worker,    \* each bot's task
  joined,    \* workers whose results main has taken from the set
  jobs,      \* requests each worker has taken and not finished
  server,    \* the server's task
  asked,     \* the server is answering a request
  faults,    \* starts and workers that failed
  lost       \* history: when requests of a sound worker were dropped, -1 if never

time == <<clock, deadline>>
tasks == <<worker, joined, jobs, server, asked>>
vars == <<main, status, wanted, shutdown, time, tasks, faults, lost>>

TypeOK ==
  /\ main \in {"starting", "waiting", "joining", "closing", "exited"}
  /\ status \in {0, 1}
  /\ wanted \in BOOLEAN /\ shutdown \in BOOLEAN /\ asked \in BOOLEAN
  /\ clock \in 0 .. Drain + ServerTime /\ deadline \in 0 .. Drain + ServerTime
  /\ worker \in [Bot -> {"none", "polling", "finishing", "ended", "failed"}]
  /\ joined \subseteq Bot
  /\ jobs \in [Bot -> 0 .. MaxJobs]
  /\ server \in {"none", "serving", "ended"}
  /\ faults \in 0 .. MaxFaults
  /\ lost \in -1 .. Drain + ServerTime

Init ==
  /\ main = "starting" /\ status = 0 /\ wanted = TRUE
  /\ shutdown = FALSE /\ clock = 0 /\ deadline = 0
  /\ worker = [b \in Bot |-> "none"] /\ joined = {} /\ jobs = [b \in Bot |-> 0]
  /\ server = "none" /\ asked = FALSE
  /\ faults = 0 /\ lost = -1

-----------------------------------------------------------------------------
(* main                                                                    *)

\* Configuration, store, every bot's runner and the server's address come first.
Start ==
  /\ main = "starting"
  /\ main' = "waiting" /\ worker' = [b \in Bot |-> "polling"] /\ server' = "serving"
  /\ UNCHANGED <<status, wanted, shutdown, time, joined, jobs, asked, faults, lost>>

StartFails ==
  /\ main = "starting" /\ faults < MaxFaults
  /\ main' = "exited" /\ status' = 1 /\ faults' = faults + 1
  /\ UNCHANGED <<wanted, shutdown, time, tasks, lost>>

Over(b) == worker[b] \in {"ended", "failed"}

TellToStop == main' = "joining" /\ shutdown' = TRUE /\ deadline' = Drain

\* The signal is the operator's, who stops the service. That the handler of signals
\* cannot be installed, which ends main at once, is left out.
Signal ==
  /\ main = "waiting"
  /\ TellToStop /\ wanted' = FALSE
  /\ UNCHANGED <<status, clock, tasks, faults, lost>>

\* Mutant: main looks after the workers when all of them have ended.
AllWorkersStop ==
  /\ main = "waiting" /\ \A b \in Bot : Over(b)
  /\ TellToStop /\ joined' = Bot
  /\ UNCHANGED <<status, wanted, clock, worker, jobs, server, asked, faults, lost>>

\* The first worker that ends, well or not, stops the process.
WorkerStops ==
  /\ main = "waiting"
  /\ \E b \in Bot : Over(b) /\ joined' = {b}
  /\ TellToStop
  /\ UNCHANGED <<status, wanted, clock, worker, jobs, server, asked, faults, lost>>

JoinNext ==
  /\ main = "joining"
  /\ \E b \in Bot \ joined : Over(b) /\ joined' = joined \cup {b}
  /\ UNCHANGED <<main, status, wanted, shutdown, time, worker, jobs, server, asked, faults, lost>>

Close == main' = "closing" /\ deadline' = clock + ServerTime

\* Mutant: the server's time is all there is.
CloseAtOnce ==
  /\ main = "joining"
  /\ Close
  /\ UNCHANGED <<status, wanted, shutdown, clock, tasks, faults, lost>>

\* All workers are joined, or their time is over.
StopJoining ==
  /\ main = "joining" /\ (joined = Bot \/ clock = deadline)
  /\ Close
  /\ UNCHANGED <<status, wanted, shutdown, clock, tasks, faults, lost>>

\* main returns Ok(()), whatever made it stop; the tasks that still run are
\* dropped, and with a worker its requests.
Exit ==
  /\ main = "closing" /\ (server = "ended" \/ clock = deadline)
  /\ main' = "exited" /\ status' = 0
  /\ lost' = IF \E b \in Bot : jobs[b] > 0 THEN clock ELSE lost
  /\ worker' = [b \in Bot |-> "none"] /\ joined' = {} /\ jobs' = [b \in Bot |-> 0]
  /\ server' = "none" /\ asked' = FALSE
  /\ UNCHANGED <<wanted, shutdown, time, faults>>

-----------------------------------------------------------------------------
(* The tasks                                                               *)

TakesRequest(b) ==
  /\ worker[b] = "polling" /\ jobs[b] < MaxJobs
  /\ jobs' = [jobs EXCEPT ![b] = @ + 1]
  /\ UNCHANGED <<main, status, wanted, shutdown, time, worker, joined, server, asked, faults, lost>>

RequestEnds(b) ==
  /\ jobs[b] > 0
  /\ jobs' = [jobs EXCEPT ![b] = @ - 1]
  /\ UNCHANGED <<main, status, wanted, shutdown, time, worker, joined, server, asked, faults, lost>>

SeesShutdown(b) ==
  /\ worker[b] = "polling" /\ shutdown
  /\ worker' = [worker EXCEPT ![b] = "finishing"]
  /\ UNCHANGED <<main, status, wanted, shutdown, time, joined, jobs, server, asked, faults, lost>>

\* It waits for its requests without a time-out of its own.
WorkerEnds(b) ==
  /\ worker[b] = "finishing" /\ jobs[b] = 0
  /\ worker' = [worker EXCEPT ![b] = "ended"]
  /\ UNCHANGED <<main, status, wanted, shutdown, time, joined, jobs, server, asked, faults, lost>>

\* An error of the store, or a panic: its set of requests is dropped.
WorkerFails(b) ==
  /\ worker[b] = "polling" /\ faults < MaxFaults
  /\ worker' = [worker EXCEPT ![b] = "failed"]
  /\ jobs' = [jobs EXCEPT ![b] = 0]
  /\ faults' = faults + 1
  /\ UNCHANGED <<main, status, wanted, shutdown, time, joined, server, asked, lost>>

ServerIsAsked ==
  /\ server = "serving" /\ ~shutdown /\ ~asked
  /\ asked' = TRUE
  /\ UNCHANGED <<main, status, wanted, shutdown, time, worker, joined, jobs, server, faults, lost>>

ServerAnswers ==
  /\ asked
  /\ asked' = FALSE
  /\ UNCHANGED <<main, status, wanted, shutdown, time, worker, joined, jobs, server, faults, lost>>

\* with_graceful_shutdown
ServerEnds ==
  /\ server = "serving" /\ shutdown /\ ~asked
  /\ server' = "ended"
  /\ UNCHANGED <<main, status, wanted, shutdown, time, worker, joined, jobs, asked, faults, lost>>

Tick ==
  /\ main \in {"joining", "closing"} /\ clock < deadline
  /\ clock' = clock + 1
  /\ UNCHANGED <<main, status, wanted, shutdown, deadline, tasks, faults, lost>>

-----------------------------------------------------------------------------
(* The service manager                                                     *)

Restart ==
  /\ main = "exited" /\ wanted
  /\ Policy = "always" \/ status = 1
  /\ main' = "starting" /\ shutdown' = FALSE /\ clock' = 0 /\ deadline' = 0
  /\ UNCHANGED <<status, wanted, tasks, faults, lost>>

Task ==
  \/ \E b \in Bot : SeesShutdown(b) \/ WorkerEnds(b)
  \/ ServerEnds

Main == Start \/ WorkerStops \/ JoinNext \/ StopJoining \/ Exit

Next ==
  \/ Main \/ Task \/ Tick \/ Restart
  \/ StartFails \/ Signal \/ ServerIsAsked \/ ServerAnswers
  \/ \E b \in Bot : TakesRequest(b) \/ RequestEnds(b) \/ WorkerFails(b)

Spec == Init /\ [][Next]_vars

\* The runtime runs every task that can, timers fire, and the manager keeps its
\* policy. That a request ends, or the server's answer, is not assumed.
FairSpec ==
  /\ Spec
  /\ WF_vars(Main) /\ WF_vars(Tick) /\ WF_vars(Restart)
  /\ \A b \in Bot : WF_vars(SeesShutdown(b)) /\ WF_vars(WorkerEnds(b))
  /\ WF_vars(ServerEnds)

-----------------------------------------------------------------------------
(* Properties                                                              *)

\* A worker that has not failed loses requests only when they have had the 35
\* seconds there are for them; a failed one takes no other's requests with it.
RequestsHaveTheirTime == lost # -1 => lost >= Drain

\* The service goes on after a worker has failed, without waiting for the others
\* for good: all bots are polled again, unless the operator stops it; then
\* the process ends, whatever its requests are waiting for.
ServiceGoesOn ==
  /\ (\E b \in Bot : worker[b] = "failed") ~> (~wanted \/ \A b \in Bot : worker[b] = "polling")
  /\ (~wanted) ~> (main = "exited")
=============================================================================
