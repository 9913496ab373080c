---------------------------- MODULE UpdateIntake ----------------------------
(***************************************************************************)
(* The update loop of one bot: BotRunner::run polls Telegram, spawns one   *)
(* job per update behind a semaphore and then stores the new offset;       *)
(* process and process_tracked_message run a job; ActiveRequests is the    *)
(* registry through which a deletion cancels a running request.            *)
(*                                                                         *)
(* What process_message does between its first and its last Telegram call  *)
(* is one stage here; the order of its calls is another module's subject.  *)
(* Back-off and poll time-outs are points where the loop may pause; their  *)
(* seconds are left out.                                                   *)
(*                                                                         *)
(* Update ids are 1, 2, ...: Telegram's are increasing, and only their     *)
(* order is used.  An id is dispatched at most once in the life of a       *)
(* process, so the update also names the job, and the Uuid that            *)
(* ActiveRequests::start draws for it.                                     *)
(***************************************************************************)
EXTENDS Integers, FiniteSets

CONSTANTS
  MaxUpdate,  \* bound: how many updates Telegram ever queues
  Key,        \* (chat id, message id) pairs of messages sent to the bot
  Contents,   \* the update contents the environment draws from
  Permits,    \* max_concurrent_requests_per_bot.max(1)
  MaxEnds,    \* bound: how many times the process may be made to end
  None        \* no request under a key

Update == 1 .. MaxUpdate
Offset == 1 .. MaxUpdate + 1

\* The live processing message the bot posts for a request.
Progress(u) == <<"progress", u>>
AnyKey == Key \cup {Progress(u) : u \in Update}

Content ==
  [kind : {"message", "guest"}, key : Key] \cup
  [kind : {"deleted"}, keys : SUBSET AnyKey] \cup
  [kind : {"other"}]

ASSUME IntakeAssumption ==
  /\ MaxUpdate \in Nat
  /\ Permits \in Nat \ {0}               \* .max(1)
  /\ MaxEnds \in Nat
  /\ Contents \subseteq Content
  /\ None \notin Update
  /\ \A u \in Update : Progress(u) \notin Key

VARIABLES
  arrived,    \* Telegram: the last update it has queued
  content,    \* Telegram: what each queued update holds
  confirmed,  \* Telegram: the highest offset asked for; it drops lower ids
  posted,     \* Telegram: the requests with a processing message or pending result
  stored,     \* database: the offset of this bot
  pc,         \* where BotRunner::run is
  offset,     \* run's local offset
  next,       \* run's next_offset while it is being stored
  shutdown,   \* the watch channel has been set
  job,        \* stage of the job of each update in this process life
  left,       \* message ids a deletion job has still to cancel
  byMessage,  \* ActiveRequestState.by_message
  tokens,     \* ActiveRequestState.tokens and the state of each token
  handled,    \* history: updates some job of which came to its end
  killed,     \* history: updates whose job died with its process
  ends        \* how many times the process was made to end

telegram == <<arrived, content, posted>>
loop     == <<confirmed, stored, pc, offset, next, shutdown, killed, ends>>
registry == <<byMessage, tokens>>
vars     == <<telegram, loop, registry, job, left, handled>>

\* Stages of a job.  It holds a permit from "permitted" on, until it ends.
Working == {"working", "linking", "answering", "delivering", "closing"}
Holding == Working \cup {"permitted", "cancelling"}
Live    == Holding \cup {"waiting"}
Ended   == {"done", "panicked"}
Stage   == Live \cup Ended \cup {"none"}

InFlight == {u \in Update : job[u] \in Live}
IsRequest(u) == content[u].kind \in {"message", "guest"}

TypeOK ==
  /\ arrived \in 0 .. MaxUpdate
  /\ content \in [Update -> Content]
  /\ confirmed \in Offset /\ stored \in Offset
  /\ offset \in Offset /\ next \in Offset
  /\ posted \subseteq Update
  /\ pc \in {"polling", "backoff", "saving", "draining", "down"}
  /\ shutdown \in BOOLEAN
  /\ job \in [Update -> Stage]
  /\ left \in [Update -> SUBSET AnyKey]
  /\ byMessage \in [AnyKey -> Update \cup {None}]
  /\ tokens \in [Update -> {"absent", "live", "cancelled"}]
  /\ handled \subseteq Update
  /\ killed \subseteq Update
  /\ ends \in 0 .. MaxEnds

NoRequests == [k \in AnyKey |-> None]
NoTokens   == [u \in Update |-> "absent"]

Init ==
  /\ arrived = 0
  /\ content = [u \in Update |-> [kind |-> "other"]]
  /\ posted = {}
  /\ confirmed = 1 /\ stored = 1 /\ offset = 1 /\ next = 1
  /\ pc = "polling" /\ shutdown = FALSE
  /\ job = [u \in Update |-> "none"]
  /\ left = [u \in Update |-> {}]
  /\ byMessage = NoRequests /\ tokens = NoTokens
  /\ handled = {} /\ killed = {} /\ ends = 0

-----------------------------------------------------------------------------
(* Telegram and the operator                                               *)

\* A processing message can be deleted only after it has been posted.
Queue(c) ==
  /\ arrived < MaxUpdate
  /\ c.kind = "deleted" => c.keys \subseteq Key \cup {Progress(u) : u \in posted}
  /\ arrived' = arrived + 1
  /\ content' = [content EXCEPT ![arrived + 1] = c]
  /\ UNCHANGED <<posted, loop, registry, job, left, handled>>

\* main's watch channel: a signal, or another bot's worker has ended.
SignalShutdown ==
  /\ pc # "down" /\ ~shutdown /\ ends < MaxEnds
  /\ shutdown' = TRUE
  /\ ends' = ends + 1
  /\ UNCHANGED <<telegram, confirmed, stored, pc, offset, next, killed,
                 registry, job, left, handled>>

-----------------------------------------------------------------------------
(* BotRunner::run                                                          *)

\* The test at the head of the loop, taken with the step that reaches it.
LoopHead == IF shutdown THEN "draining" ELSE "polling"

\* A getUpdates call confirms, on arrival, every id below its offset.
Confirm == confirmed' = IF offset > confirmed THEN offset ELSE confirmed

\* The call fails (the loop backs off), answers nothing, or is dropped by the
\* select because a job ended first; in all three the offset stays.
PollYieldsNothing(to) ==
  /\ pc = "polling"
  /\ to \in {"backoff", LoopHead}
  /\ Confirm
  /\ pc' = to
  /\ UNCHANGED <<telegram, stored, offset, next, shutdown, killed, ends,
                 registry, job, left, handled>>

Resume ==
  /\ pc = "backoff"
  /\ pc' = LoopHead
  /\ UNCHANGED <<telegram, confirmed, stored, offset, next, shutdown, killed,
                 ends, registry, job, left, handled>>

\* Mutant: the offset skips the update after the batch.
NextOffsetSkips(last) == last + 2

\* max(update_id) + 1
NextOffset(last) == last + 1

\* A batch arrives, in id order from the offset, and one job per update is
\* spawned before the loop awaits again.
Poll(last) ==
  /\ pc = "polling"
  /\ offset <= last /\ last <= arrived
  /\ Confirm
  /\ job' = [u \in Update |-> IF offset <= u /\ u <= last THEN "waiting" ELSE job[u]]
  /\ next' = NextOffset(last)
  /\ pc' = "saving"
  /\ UNCHANGED <<telegram, stored, offset, shutdown, killed, ends, registry,
                 left, handled>>

\* Mutant: only the local offset advances.
SaveOffsetLocally ==
  /\ pc = "saving"
  /\ offset' = next
  /\ pc' = LoopHead
  /\ UNCHANGED <<telegram, confirmed, stored, next, shutdown, killed, ends,
                 registry, job, left, handled>>

SaveOffset ==
  /\ pc = "saving"
  /\ stored' = next /\ offset' = next
  /\ pc' = LoopHead
  /\ UNCHANGED <<telegram, confirmed, next, shutdown, killed, ends, registry,
                 job, left, handled>>

\* The select in "polling" or "backoff" sees the shutdown.
NoticeShutdown ==
  /\ pc \in {"polling", "backoff"} /\ shutdown
  /\ pc' = "draining"
  /\ UNCHANGED <<telegram, confirmed, stored, offset, next, shutdown, killed,
                 ends, registry, job, left, handled>>

\* The process is gone with everything it held in memory.
ProcessGone ==
  /\ pc' = "down" /\ shutdown' = FALSE
  /\ killed' = killed \cup InFlight
  /\ job' = [u \in Update |-> "none"]
  /\ left' = [u \in Update |-> {}]
  /\ byMessage' = NoRequests /\ tokens' = NoTokens
  /\ UNCHANGED <<telegram, confirmed, stored, offset, next, handled>>

\* set_offset fails: run returns its error, which drops the JoinSet, and the
\* process shuts down.
SaveOffsetFails ==
  /\ pc = "saving" /\ ends < MaxEnds
  /\ ends' = ends + 1
  /\ ProcessGone

\* After a shutdown: the jobs have drained, or the 35 seconds are over.
Exit ==
  /\ pc = "draining"
  /\ ends' = ends
  /\ ProcessGone

Crash ==
  /\ pc # "down" /\ ends < MaxEnds
  /\ ends' = ends + 1
  /\ ProcessGone

\* run starts again from the stored offset.
RestartOffset == stored
Restart ==
  /\ pc = "down"
  /\ pc' = "polling" /\ offset' = RestartOffset /\ next' = RestartOffset
  /\ UNCHANGED <<telegram, confirmed, stored, shutdown, killed, ends, registry,
                 job, left, handled>>

-----------------------------------------------------------------------------
(* ActiveRequests                                                          *)

\* Cancelling the token of request r, if it still has one.
CancelToken(r) ==
  [t \in Update |-> IF t = r /\ tokens[t] = "live" THEN "cancelled" ELSE tokens[t]]

\* Mutant: the request the key named before runs on.
RegisteredBeside(u, key) ==
  /\ byMessage' = [byMessage EXCEPT ![key] = u]
  /\ tokens' = [tokens EXCEPT ![u] = "live"]

\* start: the key now names u, and a request it named before is cancelled.
Registered(u, key) ==
  /\ byMessage' = [byMessage EXCEPT ![key] = u]
  /\ tokens' = [CancelToken(byMessage[key]) EXCEPT ![u] = "live"]

\* Mutant: the arguments of link swapped, so that it finds nothing to link.
LinkedNothing(u, key) ==
  byMessage' = [byMessage EXCEPT
                 ![key] = IF byMessage[Progress(u)] = None THEN @ ELSE byMessage[Progress(u)]]

\* link: the processing message names whatever the request's key names now.
Linked(u, key) ==
  byMessage' = [byMessage EXCEPT
                 ![Progress(u)] = IF byMessage[key] = None THEN @ ELSE byMessage[key]]

\* finish: the token goes, and with it every key that names it.
Unregistered(u) ==
  /\ tokens' = [tokens EXCEPT ![u] = "absent"]
  /\ byMessage' = [k \in AnyKey |-> IF byMessage[k] = u THEN None ELSE byMessage[k]]

-----------------------------------------------------------------------------
(* A job: process, process_tracked_message and the stages of a request     *)

Step(u, from, to) ==
  /\ job[u] = from
  /\ job' = [job EXCEPT ![u] = to]

\* Mutant: a job that panics keeps its permit.
HoldsPermitForGood(u) == job[u] \in Holding \cup {"panicked"}

\* The permit is dropped with the job, however the job ends.
HoldsPermit(u) == job[u] \in Holding

AcquirePermit(u) ==
  /\ Cardinality({v \in Update : HoldsPermit(v)}) < Permits
  /\ Step(u, "waiting", "permitted")
  /\ UNCHANGED <<telegram, loop, registry, left, handled>>

\* An update of a kind process does not handle ends at once.
IgnoreOther(u) ==
  /\ content[u].kind = "other"
  /\ Step(u, "permitted", "done")
  /\ handled' = handled \cup {u}
  /\ UNCHANGED <<telegram, loop, registry, left>>

Start(u) ==
  /\ IsRequest(u)
  /\ Step(u, "permitted", "working")
  /\ Registered(u, content[u].key)
  /\ UNCHANGED <<telegram, loop, left, handled>>

\* The biased select polls process_message only while the token is not
\* cancelled.
NotCancelled(u) == tokens[u] # "cancelled"

\* send_progress_message's call has been answered.
PostProgress(u) ==
  /\ content[u].kind = "message"
  /\ NotCancelled(u)
  /\ Step(u, "working", "linking")
  /\ posted' = posted \cup {u}
  /\ UNCHANGED <<arrived, content, loop, registry, left, handled>>

\* The same poll goes on to link: a cancellation in between does not stop it.
Link(u) ==
  /\ Step(u, "linking", "answering")
  /\ Linked(u, content[u].key)
  /\ UNCHANGED <<telegram, loop, tokens, left, handled>>

\* A guest query is answered with a pending inline result, which is not linked.
PostPending(u) ==
  /\ content[u].kind = "guest"
  /\ NotCancelled(u)
  /\ Step(u, "working", "answering")
  /\ posted' = posted \cup {u}
  /\ UNCHANGED <<arrived, content, loop, registry, left, handled>>

BeginDelivery(u) ==
  /\ NotCancelled(u)
  /\ Step(u, "answering", "delivering")
  /\ UNCHANGED <<telegram, loop, registry, left, handled>>

\* process_message returns: ignored, refused, failed or delivered.
Return(u) ==
  /\ NotCancelled(u)
  /\ \E from \in {"working", "answering", "delivering"} : Step(u, from, "closing")
  /\ UNCHANGED <<telegram, loop, registry, left, handled>>

\* The select takes its first branch and drops process_message where it is.
StopCancelled(u) ==
  /\ ~NotCancelled(u)
  /\ \E from \in Working \ {"closing"} : Step(u, from, "closing")
  /\ UNCHANGED <<telegram, loop, registry, left, handled>>

Finish(u) ==
  /\ Step(u, "closing", "done")
  /\ Unregistered(u)
  /\ handled' = handled \cup {u}
  /\ UNCHANGED <<telegram, loop, left>>

\* The task panics and finish is never called.
Panic(u) ==
  /\ NotCancelled(u)
  /\ \E from \in Working \ {"closing"} : Step(u, from, "panicked")
  /\ handled' = handled \cup {u}
  /\ UNCHANGED <<telegram, loop, registry, left>>

\* ActiveRequests::cancel, as a value of tokens.
CancelledUnder(k) == IF byMessage[k] = None THEN tokens ELSE CancelToken(byMessage[k])

\* The request's progress task probes the caller's message and edits its own:
\* a message that is gone cancels what its id names then.  The request waits for
\* the task before it delivers; one it leaves early, or is dropped from, leaves
\* the task to make its last call by itself.
ProbeFindsDeleted(u) ==
  /\ job[u] \in {"answering", "closing"} \cup Ended
  /\ IsRequest(u) /\ u \in posted
  /\ \/ tokens' = CancelledUnder(content[u].key)
     \/ content[u].kind = "message" /\ tokens' = CancelledUnder(Progress(u))
  /\ UNCHANGED <<telegram, loop, byMessage, job, left, handled>>

BeginDeletions(u) ==
  /\ content[u].kind = "deleted"
  /\ Step(u, "permitted", "cancelling")
  /\ left' = [left EXCEPT ![u] = content[u].keys]
  /\ UNCHANGED <<telegram, loop, registry, handled>>

\* One round of the loop over message_ids.
CancelOne(u, k) ==
  /\ job[u] = "cancelling" /\ k \in left[u]
  /\ tokens' = CancelledUnder(k)
  /\ left' = [left EXCEPT ![u] = @ \ {k}]
  /\ UNCHANGED <<telegram, loop, byMessage, job, handled>>

DeletionsDone(u) ==
  /\ left[u] = {}
  /\ Step(u, "cancelling", "done")
  /\ handled' = handled \cup {u}
  /\ UNCHANGED <<telegram, loop, registry, left>>

-----------------------------------------------------------------------------

JobStep(u) ==
  \/ AcquirePermit(u) \/ IgnoreOther(u) \/ Start(u)
  \/ PostProgress(u) \/ Link(u) \/ PostPending(u)
  \/ BeginDelivery(u) \/ Return(u) \/ StopCancelled(u) \/ Finish(u)
  \/ BeginDeletions(u) \/ (\E k \in AnyKey : CancelOne(u, k)) \/ DeletionsDone(u)

LoopStep == Resume \/ SaveOffset \/ NoticeShutdown \/ Exit \/ Restart

Environment ==
  \/ \E c \in Contents : Queue(c)
  \/ \E to \in {"polling", "backoff", "draining"} : PollYieldsNothing(to)
  \/ SignalShutdown \/ SaveOffsetFails \/ Crash
  \/ \E u \in Update : Panic(u) \/ ProbeFindsDeleted(u)

Next ==
  \/ Environment
  \/ LoopStep
  \/ \E last \in Update : Poll(last)
  \/ \E u \in Update : JobStep(u)

Spec == Init /\ [][Next]_vars

(***************************************************************************)
(* Fairness.  The runtime keeps polling every task that can go on, the     *)
(* permits are handed out first come first served, and every await of a    *)
(* request is bounded by a time-out, so each job step that stays enabled   *)
(* is taken.  Exit is bounded by the 35 seconds of main, and a supervisor  *)
(* restarts the process.  A poll may fail or be dropped any number of      *)
(* times, but Telegram does not refuse for ever: when the loop keeps       *)
(* coming back to it with updates waiting, one answer gets through.        *)
(***************************************************************************)
Fairness ==
  /\ WF_vars(LoopStep)
  /\ SF_vars(\E last \in Update : Poll(last))
  /\ \A u \in Update : WF_vars(JobStep(u))

FairSpec == Spec /\ Fairness

-----------------------------------------------------------------------------
(* Properties                                                              *)

\* The registry holds exactly the requests between start and finish, and those
\* a panic kept from finish; no message id names a request without a token.
RegistryOfRequests ==
  /\ \A u \in Update : tokens[u] # "absent" <=> job[u] \in Working \cup {"panicked"}
  /\ \A k \in AnyKey : byMessage[k] # None => tokens[byMessage[k]] # "absent"

\* Stages in which the processing message is linked.
LinkedStage(u) == content[u].kind = "message" /\ job[u] \in {"answering", "delivering"}

\* A running request that nobody has cancelled can be cancelled: its message
\* names it, and so does its processing message once that is linked, however
\* requests under one message id supersede each other (ActiveRequests).
LiveRequestReachable ==
  \A u \in Update :
    job[u] \in Working /\ tokens[u] = "live" =>
      /\ byMessage[content[u].key] = u
      /\ LinkedStage(u) => byMessage[Progress(u)] = u

\* An update the loop has stored its offset past, and one Telegram may have
\* dropped, has been taken up: it has a job, has ended, or died with a process;
\* and Telegram is never asked to drop what is not yet stored (run, 192-262).
NothingForgotten ==
  /\ confirmed <= stored
  /\ \A u \in Update : u < stored => job[u] # "none" \/ u \in handled \cup killed

\* One life of the process dispatches an update once, and no later life
\* dispatches an update whose offset has been stored.
DispatchedOnce ==
  [][\A u \in Update :
       job'[u] = "waiting" /\ job[u] # "waiting" => job[u] = "none" /\ u >= stored]_vars

\* What a deletion update names is cancelled when the deletion is processed,
\* if it is running then: by its message id, or by its processing message once
\* that is linked (DeletedBusinessMessages in process).
Names(k, u) ==
  \/ k = content[u].key
  \/ LinkedStage(u) /\ k = Progress(u)

DeletionReachesRequest ==
  [][\A d, u \in Update : \A k \in AnyKey :
       CancelOne(d, k) /\ job[u] \in Working /\ Names(k, u) => tokens'[u] = "cancelled"]_vars

\* Every update Telegram queues comes to the end of a job, or dies with a
\* process: no backlog of permits, polls or cancellations leaves one behind.
EveryUpdateEnds ==
  []<>(\A u \in Update : arrived >= u => u \in handled \cup killed)

\* Updates below have been dispatched in this life or an earlier one.
Cursor == IF pc = "saving" THEN next ELSE stored

\* The log of updates this loop works through, as UpdateLog specifies it.
Log == INSTANCE UpdateLog WITH
  acked <- stored,
  cursor <- Cursor,
  busy <- InFlight,
  lost <- killed

LogSpec == Log!Spec
=============================================================================
