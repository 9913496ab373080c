------------------------- MODULE UpdateIntakeProofs -------------------------
(***************************************************************************)
(* The invariants of the update loop for any number of updates, message    *)
(* ids, permits and process ends.                                          *)
(***************************************************************************)
EXTENDS UpdateIntake, TLAPS

USE IntakeAssumption

-----------------------------------------------------------------------------
(* Type correctness                                                        *)

\* A job in a stage of a request is the job of a request, and only queued
\* updates have jobs.
JobsMatchUpdates ==
  \A u \in Update :
    /\ job[u] \in Working \cup {"panicked"} => IsRequest(u)
    /\ job[u] # "none" => u <= arrived

LEMMA InitTypeOK == Init => TypeOK
<1> SUFFICES ASSUME Init PROVE TypeOK
  OBVIOUS
<1>1. content \in [Update -> Content]
  BY DEF Init, Content
<1>2. /\ byMessage \in [AnyKey -> Update \cup {None}]
      /\ tokens \in [Update -> {"absent", "live", "cancelled"}]
      /\ job \in [Update -> Stage]
      /\ left \in [Update -> SUBSET AnyKey]
  BY DEF Init, NoRequests, NoTokens, Stage
<1>3. 1 \in Offset /\ arrived \in 0 .. MaxUpdate /\ ends \in 0 .. MaxEnds
  BY DEF Init, Offset
<1>4. QED BY <1>1, <1>2, <1>3 DEF Init, TypeOK

\* A step that ends the process resets what lives in memory to its types.
LEMMA ProcessGoneTypeOK ==
  ASSUME TypeOK, ProcessGone, ends' \in 0 .. MaxEnds
  PROVE  TypeOK'
  BY DEF TypeOK, ProcessGone, telegram, NoRequests, NoTokens, Stage, InFlight

LEMMA CancelTokenType ==
  ASSUME TypeOK, NEW r
  PROVE  CancelToken(r) \in [Update -> {"absent", "live", "cancelled"}]
  BY DEF TypeOK, CancelToken

LEMMA CancelledUnderType ==
  ASSUME TypeOK, NEW k
  PROVE  CancelledUnder(k) \in [Update -> {"absent", "live", "cancelled"}]
  BY CancelTokenType DEF TypeOK, CancelledUnder

\* The message id a request was sent under.
LEMMA RequestKey ==
  ASSUME TypeOK, NEW u \in Update, IsRequest(u)
  PROVE  content[u].key \in Key
  BY DEF TypeOK, IsRequest, Content

\* What every step of a job preserves: its stage stays a stage.
LEMMA StepType ==
  ASSUME TypeOK, NEW u \in Update, NEW from, NEW to \in Stage, Step(u, from, to)
  PROVE  job' \in [Update -> Stage]
  BY DEF TypeOK, Step

LEMMA LoopTypeOK ==
  ASSUME TypeOK,
         \/ LoopStep
         \/ \E last \in Update : Poll(last)
         \/ \E to \in {"polling", "backoff", "draining"} : PollYieldsNothing(to)
         \/ SignalShutdown \/ SaveOffsetFails \/ Crash
  PROVE  TypeOK'
<1>1. CASE Exit \/ Crash \/ SaveOffsetFails
  <2>1. ProcessGone /\ ends' \in 0 .. MaxEnds
    BY <1>1 DEF Exit, Crash, SaveOffsetFails, TypeOK
  <2>2. QED BY <2>1, ProcessGoneTypeOK
<1>2. CASE Resume \/ SaveOffset \/ NoticeShutdown \/ Restart
  BY <1>2 DEF Resume, SaveOffset, NoticeShutdown, Restart, RestartOffset, LoopHead, TypeOK,
              telegram, registry
<1>3. ASSUME NEW last \in Update, Poll(last)
      PROVE  TypeOK'
  BY <1>3 DEF Poll, Confirm, NextOffset, TypeOK, telegram, registry, Stage, Live, Update, Offset
<1>4. ASSUME NEW to, PollYieldsNothing(to)
      PROVE  TypeOK'
  BY <1>4 DEF PollYieldsNothing, Confirm, LoopHead, TypeOK, telegram, registry
<1>5. CASE SignalShutdown
  BY <1>5 DEF SignalShutdown, TypeOK, telegram, registry
<1>6. QED BY <1>1, <1>2, <1>3, <1>4, <1>5 DEF LoopStep

LEMMA JobTypeOK ==
  ASSUME TypeOK, JobsMatchUpdates, NEW u \in Update,
         JobStep(u) \/ Panic(u) \/ ProbeFindsDeleted(u)
  PROVE  TypeOK'
<1> USE DEF loop, telegram, registry
<1>1. \A s \in {"waiting", "permitted", "working", "linking", "answering", "delivering",
                "closing", "cancelling", "done", "panicked"} : s \in Stage
  BY DEF Stage, Live, Holding, Working, Ended
<1>2. CASE AcquirePermit(u) \/ IgnoreOther(u) \/ PostPending(u) \/ BeginDelivery(u)
           \/ Return(u) \/ StopCancelled(u) \/ Panic(u) \/ DeletionsDone(u)
  <2>1. job' \in [Update -> Stage]
    BY <1>1, <1>2, StepType DEF AcquirePermit, IgnoreOther, PostPending, BeginDelivery,
       Return, StopCancelled, Panic, DeletionsDone
  <2>2. QED BY <1>2, <2>1 DEF TypeOK, AcquirePermit, IgnoreOther, PostPending, BeginDelivery,
       Return, StopCancelled, Panic, DeletionsDone
<1>3. CASE Start(u)
  <2>1. job' \in [Update -> Stage]
    BY <1>1, <1>3, StepType DEF Start
  <2>2. content[u].key \in AnyKey
    BY <1>3, RequestKey DEF Start, AnyKey
  <2>3. byMessage' \in [AnyKey -> Update \cup {None}]
    BY <1>3, <2>2 DEF TypeOK, Start, Registered
  <2>4. tokens' \in [Update -> {"absent", "live", "cancelled"}]
    BY <1>3, CancelTokenType DEF Start, Registered
  <2>5. QED BY <1>3, <2>1, <2>3, <2>4 DEF TypeOK, Start
<1>4. CASE PostProgress(u)
  <2>1. job' \in [Update -> Stage]
    BY <1>1, <1>4, StepType DEF PostProgress
  <2>2. QED BY <1>4, <2>1 DEF TypeOK, PostProgress
<1>5. CASE Link(u)
  <2>1. job' \in [Update -> Stage]
    BY <1>1, <1>5, StepType DEF Link
  <2>2. content[u].key \in AnyKey
    BY <1>5, RequestKey DEF Link, Step, JobsMatchUpdates, Working, AnyKey
  <2>3. byMessage' \in [AnyKey -> Update \cup {None}]
    BY <1>5, <2>2 DEF TypeOK, Link, Linked
  <2>4. QED BY <1>5, <2>1, <2>3 DEF TypeOK, Link
<1>6. CASE Finish(u)
  <2>1. job' \in [Update -> Stage]
    BY <1>1, <1>6, StepType DEF Finish
  <2>2. QED BY <1>6, <2>1 DEF TypeOK, Finish, Unregistered
<1>7. CASE BeginDeletions(u)
  <2>1. job' \in [Update -> Stage]
    BY <1>1, <1>7, StepType DEF BeginDeletions
  <2>2. content[u].keys \in SUBSET AnyKey
    BY <1>7 DEF TypeOK, BeginDeletions, Content
  <2>3. QED BY <1>7, <2>1, <2>2 DEF TypeOK, BeginDeletions
<1>8. CASE \E k \in AnyKey : CancelOne(u, k)
  BY <1>8, CancelledUnderType DEF TypeOK, CancelOne
<1>9. CASE ProbeFindsDeleted(u)
  BY <1>9, CancelledUnderType DEF TypeOK, ProbeFindsDeleted
<1>10. QED
  BY <1>2, <1>3, <1>4, <1>5, <1>6, <1>7, <1>8, <1>9 DEF JobStep

LEMMA QueueTypeOK ==
  ASSUME TypeOK, NEW c \in Contents, Queue(c)
  PROVE  TypeOK'
<1>1. arrived' \in 0 .. MaxUpdate /\ c \in Content
  BY DEF TypeOK, Queue
<1>2. content' \in [Update -> Content]
  BY <1>1 DEF TypeOK, Queue
<1>3. QED BY <1>1, <1>2 DEF TypeOK, Queue, loop, registry

LEMMA StutterTypeOK ==
  ASSUME TypeOK, UNCHANGED vars
  PROVE  TypeOK'
  BY DEF TypeOK, vars, telegram, loop, registry

LEMMA NextTypeOK == TypeOK /\ JobsMatchUpdates /\ [Next]_vars => TypeOK'
  BY LoopTypeOK, JobTypeOK, QueueTypeOK, StutterTypeOK DEF Next, Environment

LEMMA NextJobsMatch == TypeOK /\ JobsMatchUpdates /\ [Next]_vars => JobsMatchUpdates'
<1> SUFFICES ASSUME TypeOK, JobsMatchUpdates, [Next]_vars
             PROVE  JobsMatchUpdates'
  OBVIOUS
<1> USE DEF JobsMatchUpdates, IsRequest
<1>1. ASSUME NEW u \in Update, JobStep(u) \/ Panic(u) \/ ProbeFindsDeleted(u)
      PROVE  JobsMatchUpdates'
  <2>1. arrived' = arrived /\ content' = content
    BY <1>1 DEF JobStep, AcquirePermit, IgnoreOther, Start, PostProgress, Link, PostPending,
       BeginDelivery, Return, StopCancelled, Finish, BeginDeletions, CancelOne, DeletionsDone,
       Panic, ProbeFindsDeleted, telegram
  <2>2. \/ job' = job
        \/ \E to \in Stage :
             /\ job' = [job EXCEPT ![u] = to]
             /\ to \in Working \cup {"panicked"} => IsRequest(u)
             /\ job[u] # "none"
    BY <1>1 DEF JobStep, AcquirePermit, IgnoreOther, Start, PostProgress, Link, PostPending,
       BeginDelivery, Return, StopCancelled, Finish, BeginDeletions, CancelOne, DeletionsDone,
       Panic, ProbeFindsDeleted, Step, Working, Stage, Live, Holding, Ended
  <2>3. QED BY <2>1, <2>2 DEF TypeOK
<1>2. ASSUME NEW last \in Update, Poll(last)
      PROVE  JobsMatchUpdates'
  BY <1>2 DEF Poll, telegram, TypeOK, Working, Update
<1>3. ASSUME NEW c \in Contents, Queue(c)
      PROVE  JobsMatchUpdates'
  BY <1>3 DEF Queue, TypeOK, Working, Update
<1>4. CASE Exit \/ Crash \/ SaveOffsetFails
  BY <1>4 DEF Exit, Crash, SaveOffsetFails, ProcessGone, telegram, Working
<1>5. CASE UNCHANGED <<telegram, job>>
  BY <1>5 DEF telegram
<1>6. QED
  BY <1>1, <1>2, <1>3, <1>4, <1>5 DEF Next, Environment, LoopStep, Resume, SaveOffset,
     NoticeShutdown, Restart, PollYieldsNothing, SignalShutdown, vars

LEMMA InitJobsMatch == Init => JobsMatchUpdates
  BY DEF Init, JobsMatchUpdates, Working

LEMMA TypeAndJobs == Spec => [](TypeOK /\ JobsMatchUpdates)
  BY InitTypeOK, InitJobsMatch, NextTypeOK, NextJobsMatch, PTL DEF Spec

\* Every reachable state of the update loop is of the declared types.
THEOREM TypeInvariant == Spec => []TypeOK
  BY TypeAndJobs, PTL

-----------------------------------------------------------------------------
(* The offset                                                              *)

IntakeInv == TypeOK /\ JobsMatchUpdates

\* Why nothing is forgotten: the loop's offset is the stored one, only the
\* updates from the cursor on have no job, and a job that ended is recorded.
OffsetInv ==
  /\ offset = stored /\ confirmed <= stored
  /\ pc = "saving" => stored < next /\ next <= arrived + 1
  /\ pc # "saving" => stored <= arrived + 1
  /\ \A u \in Update :
       /\ u >= Cursor \/ pc = "down" => job[u] = "none"
       /\ u < Cursor => job[u] # "none" \/ u \in handled \cup killed
       /\ job[u] \in Ended => u \in handled

LEMMA InitOffsetInv == Init => OffsetInv
  BY DEF Init, OffsetInv, Cursor, Update, Ended

LEMMA JobKeepsOffset ==
  ASSUME IntakeInv, OffsetInv, NEW u \in Update,
         JobStep(u) \/ Panic(u) \/ ProbeFindsDeleted(u)
  PROVE  OffsetInv'
<1>1. UNCHANGED <<loop, arrived>>
  BY DEF JobStep, AcquirePermit, IgnoreOther, Start, PostProgress, Link, PostPending,
     BeginDelivery, Return, StopCancelled, Finish, BeginDeletions, CancelOne, DeletionsDone,
     Panic, ProbeFindsDeleted, telegram
<1>2. \/ job' = job /\ handled' = handled
      \/ \E to \in Stage \ {"none"} :
           /\ job' = [job EXCEPT ![u] = to] /\ job[u] # "none"
           /\ handled' = IF to \in Ended THEN handled \cup {u} ELSE handled
  BY DEF JobStep, AcquirePermit, IgnoreOther, Start, PostProgress, Link, PostPending,
     BeginDelivery, Return, StopCancelled, Finish, BeginDeletions, CancelOne, DeletionsDone,
     Panic, ProbeFindsDeleted, Step, Working, Stage, Live, Holding, Ended
<1>3. QED
  BY <1>1, <1>2 DEF OffsetInv, Cursor, loop, IntakeInv, TypeOK

LEMMA NextOffsetInv == IntakeInv /\ OffsetInv /\ [Next]_vars => OffsetInv'
<1> SUFFICES ASSUME IntakeInv, OffsetInv, [Next]_vars
             PROVE  OffsetInv'
  OBVIOUS
<1>1. ASSUME NEW u \in Update, JobStep(u) \/ Panic(u) \/ ProbeFindsDeleted(u)
      PROVE  OffsetInv'
  BY <1>1, JobKeepsOffset
<1>2. ASSUME NEW last \in Update, Poll(last)
      PROVE  OffsetInv'
  BY <1>2 DEF Poll, Confirm, NextOffset, OffsetInv, Cursor, telegram, Ended, IntakeInv, TypeOK, Update, Offset
<1>3. ASSUME NEW c \in Contents, Queue(c)
      PROVE  OffsetInv'
  BY <1>3 DEF Queue, OffsetInv, Cursor, loop, IntakeInv, TypeOK, Update, Offset
<1>4. CASE SaveOffset
  BY <1>4 DEF SaveOffset, LoopHead, OffsetInv, Cursor, telegram, IntakeInv, TypeOK, Update, Offset
<1>5. ASSUME NEW to, PollYieldsNothing(to)
      PROVE  OffsetInv'
  BY <1>5 DEF PollYieldsNothing, Confirm, LoopHead, OffsetInv, Cursor, telegram, IntakeInv, TypeOK,
     Update, Offset
<1>6. CASE Exit \/ Crash \/ SaveOffsetFails
  <2>1. ProcessGone
    BY <1>6 DEF Exit, Crash, SaveOffsetFails
  <2>2. \A u \in Update : job[u] # "none" => u \in handled' \cup killed'
    BY <2>1 DEF ProcessGone, OffsetInv, InFlight, IntakeInv, TypeOK, Stage
  <2>3. \A u \in Update : u < stored => u \in handled' \cup killed'
    BY <2>1, <2>2 DEF ProcessGone, OffsetInv, Cursor, IntakeInv, TypeOK, Update, Offset
  <2>4. stored <= arrived + 1
    BY DEF OffsetInv, IntakeInv, TypeOK, Offset
  <2>5. QED
    BY <2>1, <2>3, <2>4 DEF ProcessGone, OffsetInv, Cursor, telegram, Ended
<1>7. CASE Resume \/ NoticeShutdown \/ Restart \/ SignalShutdown
  BY <1>7 DEF Resume, NoticeShutdown, Restart, RestartOffset, SignalShutdown, LoopHead, OffsetInv,
     Cursor, telegram, IntakeInv, TypeOK
<1>8. CASE UNCHANGED vars
  BY <1>8 DEF vars, telegram, loop, OffsetInv, Cursor
<1>9. QED
  BY <1>1, <1>2, <1>3, <1>4, <1>5, <1>6, <1>7, <1>8 DEF Next, Environment, LoopStep

LEMMA IntakeInvariant == Spec => [](IntakeInv /\ OffsetInv)
<1>1. Init => IntakeInv /\ OffsetInv
  BY InitTypeOK, InitJobsMatch, InitOffsetInv DEF IntakeInv
<1>2. IntakeInv /\ OffsetInv /\ [Next]_vars => (IntakeInv /\ OffsetInv)'
  BY NextTypeOK, NextJobsMatch, NextOffsetInv DEF IntakeInv
<1>3. QED BY <1>1, <1>2, PTL DEF Spec

\* However often the process dies, at whatever step, an update whose offset has
\* been stored has been taken up, and Telegram keeps the others.
THEOREM NothingIsForgotten == Spec => []NothingForgotten
<1>1. IntakeInv /\ OffsetInv => NothingForgotten
  BY DEF IntakeInv, OffsetInv, NothingForgotten, Cursor, TypeOK, Update, Offset
<1>2. QED BY <1>1, IntakeInvariant, PTL

\* No life of the process dispatches an update twice, and none dispatches an
\* update whose offset was stored before.
THEOREM DispatchIsOnce == Spec => DispatchedOnce
<1> DEFINE D == \A u \in Update :
                  job'[u] = "waiting" /\ job[u] # "waiting" => job[u] = "none" /\ u >= stored
<1>1. ASSUME IntakeInv, OffsetInv, Next
      PROVE  D
  <2>1. ASSUME NEW last \in Update, Poll(last)
        PROVE  D
    BY <1>1, <2>1 DEF Poll, OffsetInv, Cursor, IntakeInv, TypeOK, Update, Offset
  <2>2. ASSUME NEW u \in Update, JobStep(u) \/ Panic(u) \/ ProbeFindsDeleted(u)
        PROVE  D
    <3>1. job' = job \/ (\E to \in Stage \ {"waiting"} : job' = [job EXCEPT ![u] = to])
      BY <2>2 DEF JobStep, AcquirePermit, IgnoreOther, Start, PostProgress, Link, PostPending,
         BeginDelivery, Return, StopCancelled, Finish, BeginDeletions, CancelOne, DeletionsDone,
         Panic, ProbeFindsDeleted, Step, Working, Stage, Live, Holding, Ended
    <3>2. QED BY <1>1, <3>1 DEF IntakeInv, TypeOK
  <2>3. CASE job' = job \/ ProcessGone
    BY <2>3 DEF ProcessGone
  <2>4. QED
    BY <1>1, <2>1, <2>2, <2>3 DEF Next, Environment, LoopStep, Queue, Resume, SaveOffset,
       NoticeShutdown, Restart, PollYieldsNothing, SignalShutdown, Exit, Crash, SaveOffsetFails
<1>2. IntakeInv /\ OffsetInv /\ [Next]_vars => [D]_vars
  BY <1>1
<1>3. QED BY <1>2, IntakeInvariant, PTL DEF Spec, DispatchedOnce

-----------------------------------------------------------------------------
(* The registry of running requests                                        *)

RegistryInv == RegistryOfRequests /\ LiveRequestReachable

LEMMA ProgressKeys ==
  /\ \A u, v \in Update : Progress(u) = Progress(v) => u = v
  /\ \A u \in Update : Progress(u) \in AnyKey /\ Progress(u) \notin Key
  /\ Key \subseteq AnyKey
  BY DEF Progress, AnyKey

\* A step that only cancels tokens and moves a job between stages of the same
\* standing keeps the registry as it was.
LEMMA CancellingKeepsRegistry ==
  ASSUME IntakeInv, RegistryInv, NEW r,
         job' = job, content' = content, byMessage' = byMessage,
         tokens' = CancelToken(r)
  PROVE  RegistryInv'
<1>1. \A u \in Update : /\ tokens'[u] = "absent" <=> tokens[u] = "absent"
                        /\ tokens'[u] = "live" => tokens[u] = "live"
  BY DEF CancelToken
<1>2. RegistryOfRequests'
  BY <1>1 DEF RegistryInv, RegistryOfRequests, IntakeInv, TypeOK
<1>3. LiveRequestReachable'
  BY <1>1 DEF RegistryInv, LiveRequestReachable, LinkedStage
<1>4. QED BY <1>2, <1>3 DEF RegistryInv

LEMMA CancelUnderKeepsRegistry ==
  ASSUME IntakeInv, RegistryInv, NEW k,
         job' = job, content' = content, byMessage' = byMessage,
         tokens' = CancelledUnder(k)
  PROVE  RegistryInv'
<1>1. CASE byMessage[k] = None
  BY <1>1 DEF CancelledUnder, RegistryInv, RegistryOfRequests, LiveRequestReachable, LinkedStage
<1>2. CASE byMessage[k] # None
  BY <1>2, CancellingKeepsRegistry DEF CancelledUnder
<1>3. QED BY <1>1, <1>2

LEMMA StartKeepsRegistry ==
  ASSUME IntakeInv, RegistryInv, NEW u \in Update, Start(u)
  PROVE  RegistryInv'
<1> DEFINE key == content[u].key
<1>1. /\ key \in Key
      /\ job[u] = "permitted" /\ job' = [job EXCEPT ![u] = "working"]
      /\ byMessage' = [byMessage EXCEPT ![key] = u]
      /\ tokens' = [CancelToken(byMessage[key]) EXCEPT ![u] = "live"]
      /\ content' = content
  BY RequestKey DEF Start, Step, Registered, telegram, IntakeInv
<1>2. tokens[u] = "absent"
  BY <1>1 DEF RegistryInv, RegistryOfRequests, Working
<1>3. /\ tokens'[u] = "live"
      /\ \A v \in Update \ {u} :
           tokens'[v] = IF v = byMessage[key] /\ tokens[v] = "live" THEN "cancelled" ELSE tokens[v]
  BY <1>1, CancelTokenType DEF CancelToken, IntakeInv, TypeOK
<1>4. RegistryOfRequests'
  BY <1>1, <1>2, <1>3, ProgressKeys DEF RegistryInv, RegistryOfRequests, IntakeInv, TypeOK, Working
<1>5. ASSUME NEW v \in Update, job'[v] \in Working, tokens'[v] = "live"
      PROVE  /\ byMessage'[content'[v].key] = v
             /\ LinkedStage(v)' => byMessage'[Progress(v)] = v
  <2>1. CASE v = u
    BY <1>1, <2>1, ProgressKeys DEF LinkedStage, IntakeInv, TypeOK
  <2>2. CASE v # u
    <3>1. job[v] = job'[v] /\ tokens[v] = "live" /\ v # byMessage[key]
      BY <1>1, <1>3, <1>5, <2>2 DEF IntakeInv, TypeOK
    <3>2. /\ byMessage[content[v].key] = v
          /\ LinkedStage(v) => byMessage[Progress(v)] = v
      BY <3>1, <1>5 DEF RegistryInv, LiveRequestReachable
    <3>3. content[v].key # key
      BY <3>1, <3>2
    <3>4. content[v].key \in AnyKey /\ Progress(v) # key
      BY <1>1, <1>5, <3>1, RequestKey, ProgressKeys DEF IntakeInv, JobsMatchUpdates
    <3>5. QED BY <1>1, <3>1, <3>2, <3>3, <3>4, ProgressKeys DEF LinkedStage, IntakeInv, TypeOK
  <2>3. QED BY <2>1, <2>2
<1>6. LiveRequestReachable'
  BY <1>5 DEF LiveRequestReachable
<1>7. QED BY <1>4, <1>6 DEF RegistryInv

LEMMA LinkKeepsRegistry ==
  ASSUME IntakeInv, RegistryInv, NEW u \in Update, Link(u)
  PROVE  RegistryInv'
<1> DEFINE key == content[u].key
<1>1. /\ job[u] = "linking" /\ job' = [job EXCEPT ![u] = "answering"]
      /\ content' = content /\ tokens' = tokens
      /\ byMessage' = [byMessage EXCEPT
                        ![Progress(u)] = IF byMessage[key] = None THEN @ ELSE byMessage[key]]
  BY DEF Link, Linked, Step, telegram
<1>2. key \in Key
  BY <1>1, RequestKey DEF IntakeInv, JobsMatchUpdates, Working
<1>3. \A v \in Update : job'[v] \in Working <=> job[v] \in Working
  BY <1>1 DEF IntakeInv, TypeOK, Working
<1>4. RegistryOfRequests'
  <2>1. \A v \in Update : tokens'[v] # "absent" <=> job'[v] \in Working \cup {"panicked"}
    BY <1>1 DEF RegistryInv, RegistryOfRequests, IntakeInv, TypeOK, Working
  <2>2. \A k \in AnyKey : byMessage'[k] # None => tokens'[byMessage'[k]] # "absent"
    BY <1>1, <1>2, ProgressKeys DEF RegistryInv, RegistryOfRequests, IntakeInv, TypeOK
  <2>3. QED BY <2>1, <2>2 DEF RegistryOfRequests
<1>5. ASSUME NEW v \in Update, job'[v] \in Working, tokens'[v] = "live"
      PROVE  /\ byMessage'[content'[v].key] = v
             /\ LinkedStage(v)' => byMessage'[Progress(v)] = v
  <2>1. /\ byMessage[content[v].key] = v
        /\ LinkedStage(v) => byMessage[Progress(v)] = v
        /\ content[v].key \in Key
    BY <1>1, <1>3, <1>5, RequestKey DEF RegistryInv, LiveRequestReachable, IntakeInv, JobsMatchUpdates
  <2>2. byMessage'[content'[v].key] = v
    BY <1>1, <2>1, ProgressKeys DEF IntakeInv, TypeOK
  <2>3. CASE v = u
    <3>1. byMessage[key] # None
      BY <2>1, <2>3
    <3>2. byMessage'[Progress(v)] = v
      BY <1>1, <2>1, <2>3, <3>1, ProgressKeys DEF IntakeInv, TypeOK
    <3>3. QED BY <2>2, <3>2
  <2>4. CASE v # u
    BY <1>1, <2>1, <2>2, <2>4, ProgressKeys DEF LinkedStage, IntakeInv, TypeOK
  <2>5. QED BY <2>3, <2>4
<1>6. LiveRequestReachable'
  BY <1>5 DEF LiveRequestReachable
<1>7. QED BY <1>4, <1>6 DEF RegistryInv

LEMMA FinishKeepsRegistry ==
  ASSUME IntakeInv, RegistryInv, NEW u \in Update, Finish(u)
  PROVE  RegistryInv'
<1>1. /\ job[u] = "closing" /\ job' = [job EXCEPT ![u] = "done"]
      /\ content' = content
      /\ tokens' = [tokens EXCEPT ![u] = "absent"]
      /\ byMessage' = [k \in AnyKey |-> IF byMessage[k] = u THEN None ELSE byMessage[k]]
  BY DEF Finish, Unregistered, Step, telegram
<1>2. RegistryOfRequests'
  BY <1>1 DEF RegistryInv, RegistryOfRequests, IntakeInv, TypeOK, Working
<1>3. ASSUME NEW v \in Update, job'[v] \in Working, tokens'[v] = "live"
      PROVE  /\ byMessage'[content'[v].key] = v
             /\ LinkedStage(v)' => byMessage'[Progress(v)] = v
  <2>1. v # u /\ job[v] = job'[v] /\ tokens[v] = "live"
    BY <1>1, <1>3 DEF IntakeInv, TypeOK
  <2>2. /\ byMessage[content[v].key] = v
        /\ LinkedStage(v) => byMessage[Progress(v)] = v
        /\ content[v].key \in Key
    BY <2>1, <1>3, RequestKey DEF RegistryInv, LiveRequestReachable, IntakeInv, JobsMatchUpdates
  <2>3. QED BY <1>1, <2>1, <2>2, ProgressKeys DEF LinkedStage
<1>4. LiveRequestReachable'
  BY <1>3 DEF LiveRequestReachable
<1>5. QED BY <1>2, <1>4 DEF RegistryInv

\* A job moves between stages of the same standing with the registry: nothing
\* is registered or removed, and nothing new counts as linked.
LEMMA MovingKeepsRegistry ==
  ASSUME IntakeInv, RegistryInv, NEW u \in Update, NEW to \in Stage,
         job' = [job EXCEPT ![u] = to],
         content' = content, UNCHANGED registry,
         to \in Working \cup {"panicked"} <=> job[u] \in Working \cup {"panicked"},
         to \in Working => job[u] \in Working,
         content[u].kind = "message" /\ to \in {"answering", "delivering"} => LinkedStage(u)
  PROVE  RegistryInv'
<1>1. RegistryOfRequests'
  BY DEF RegistryInv, RegistryOfRequests, IntakeInv, TypeOK, registry
<1>2. LiveRequestReachable'
  BY DEF RegistryInv, LiveRequestReachable, LinkedStage, IntakeInv, TypeOK, registry
<1>3. QED BY <1>1, <1>2 DEF RegistryInv

LEMMA JobKeepsRegistry ==
  ASSUME IntakeInv, RegistryInv, NEW u \in Update,
         JobStep(u) \/ Panic(u) \/ ProbeFindsDeleted(u)
  PROVE  RegistryInv'
<1>1. CASE \/ AcquirePermit(u) \/ IgnoreOther(u) \/ PostProgress(u) \/ PostPending(u)
           \/ BeginDelivery(u) \/ Return(u) \/ StopCancelled(u) \/ Panic(u)
           \/ BeginDeletions(u) \/ DeletionsDone(u)
  <2>1. PICK to \in Stage :
          /\ job' = [job EXCEPT ![u] = to]
          /\ content' = content /\ UNCHANGED registry
          /\ to \in Working \cup {"panicked"} <=> job[u] \in Working \cup {"panicked"}
          /\ to \in Working => job[u] \in Working
          /\ content[u].kind = "message" /\ to \in {"answering", "delivering"} => LinkedStage(u)
    BY <1>1 DEF AcquirePermit, IgnoreOther, PostProgress, PostPending, BeginDelivery, Return,
       StopCancelled, Panic, BeginDeletions, DeletionsDone, Step, Stage, Live, Holding, Working,
       Ended, LinkedStage, telegram, registry
  <2>2. QED BY <2>1, MovingKeepsRegistry
<1>2. CASE Start(u)
  BY <1>2, StartKeepsRegistry
<1>3. CASE Link(u)
  BY <1>3, LinkKeepsRegistry
<1>4. CASE Finish(u)
  BY <1>4, FinishKeepsRegistry
<1>5. CASE \E k \in AnyKey : CancelOne(u, k)
  BY <1>5, CancelUnderKeepsRegistry DEF CancelOne, telegram
<1>6. CASE ProbeFindsDeleted(u)
  BY <1>6, CancelUnderKeepsRegistry DEF ProbeFindsDeleted, telegram
<1>7. QED
  BY <1>1, <1>2, <1>3, <1>4, <1>5, <1>6 DEF JobStep

LEMMA NextRegistryInv == IntakeInv /\ OffsetInv /\ RegistryInv /\ [Next]_vars => RegistryInv'
<1> SUFFICES ASSUME IntakeInv, OffsetInv, RegistryInv, [Next]_vars
             PROVE  RegistryInv'
  OBVIOUS
<1>1. ASSUME NEW u \in Update, JobStep(u) \/ Panic(u) \/ ProbeFindsDeleted(u)
      PROVE  RegistryInv'
  BY <1>1, JobKeepsRegistry
<1>2. ASSUME NEW last \in Update, Poll(last)
      PROVE  RegistryInv'
  <2>1. /\ content' = content /\ UNCHANGED registry
        /\ \A v \in Update : job'[v] # job[v] => job'[v] = "waiting" /\ job[v] = "none"
    BY <1>2 DEF Poll, telegram, OffsetInv, Cursor, IntakeInv, TypeOK, Update, Offset
  <2>2. RegistryOfRequests'
    BY <2>1 DEF RegistryInv, RegistryOfRequests, registry, Working
  <2>3. LiveRequestReachable'
    BY <2>1 DEF RegistryInv, LiveRequestReachable, LinkedStage, registry, Working
  <2>4. QED BY <2>2, <2>3 DEF RegistryInv
<1>3. ASSUME NEW c \in Contents, Queue(c)
      PROVE  RegistryInv'
  <2>1. /\ job' = job /\ UNCHANGED registry
        /\ \A v \in Update : job[v] \in Working => content'[v] = content[v]
    BY <1>3 DEF Queue, IntakeInv, JobsMatchUpdates, TypeOK, Update, Working
  <2>2. QED BY <2>1 DEF RegistryInv, RegistryOfRequests, LiveRequestReachable, LinkedStage, registry
<1>4. CASE Exit \/ Crash \/ SaveOffsetFails
  BY <1>4 DEF Exit, Crash, SaveOffsetFails, ProcessGone, telegram, Working, RegistryInv,
     RegistryOfRequests, LiveRequestReachable, NoRequests, NoTokens
<1>5. CASE UNCHANGED <<content, job, registry>>
  BY <1>5 DEF registry, RegistryInv, RegistryOfRequests, LiveRequestReachable, LinkedStage
<1>6. QED
  BY <1>1, <1>2, <1>3, <1>4, <1>5 DEF Next, Environment, LoopStep, Resume, SaveOffset,
     NoticeShutdown, Restart, PollYieldsNothing, SignalShutdown, vars, telegram

LEMMA RegistryInvariant == Spec => [](IntakeInv /\ OffsetInv /\ RegistryInv)
<1>1. Init => RegistryInv
  BY DEF Init, RegistryInv, RegistryOfRequests, LiveRequestReachable, NoRequests, NoTokens, Working
<1>2. QED BY <1>1, NextRegistryInv, IntakeInvariant, PTL DEF Spec

\* The registry holds the running requests and nothing else.
THEOREM RegistryHoldsRequests == Spec => []RegistryOfRequests
  BY RegistryInvariant, PTL DEF RegistryInv

\* No interleaving of requests under one message id leaves a running request
\* that its message cannot cancel.
THEOREM LiveRequestsAreReachable == Spec => []LiveRequestReachable
  BY RegistryInvariant, PTL DEF RegistryInv

\* A deletion that is processed while a request runs cancels it.
THEOREM DeletionsReachRequests == Spec => DeletionReachesRequest
<1> DEFINE D == \A d, u \in Update : \A k \in AnyKey :
                  CancelOne(d, k) /\ job[u] \in Working /\ Names(k, u) => tokens'[u] = "cancelled"
<1>1. IntakeInv /\ RegistryInv => D
  <2> SUFFICES ASSUME IntakeInv, RegistryInv, NEW d \in Update, NEW u \in Update, NEW k \in AnyKey,
                      CancelOne(d, k), job[u] \in Working, Names(k, u)
               PROVE  tokens'[u] = "cancelled"
    OBVIOUS
  <2>1. tokens[u] \in {"live", "cancelled"}
    BY DEF RegistryInv, RegistryOfRequests, IntakeInv, TypeOK
  <2>2. CASE tokens[u] = "live"
    <3>1. byMessage[k] = u
      BY <2>2 DEF RegistryInv, LiveRequestReachable, Names
    <3>2. QED BY <2>2, <3>1 DEF CancelOne, CancelledUnder, CancelToken
  <2>3. CASE tokens[u] = "cancelled"
    BY <2>3 DEF CancelOne, CancelledUnder, CancelToken
  <2>4. QED BY <2>1, <2>2, <2>3
<1>2. QED BY <1>1, RegistryInvariant, PTL DEF Spec, DeletionReachesRequest

-----------------------------------------------------------------------------
(* The loop implements the update log                                      *)

LEMMA JobImplementsLog ==
  ASSUME IntakeInv, OffsetInv, NEW u \in Update,
         JobStep(u) \/ Panic(u) \/ ProbeFindsDeleted(u)
  PROVE  Log!Handle \/ UNCHANGED Log!logVars
<1>1. UNCHANGED <<loop, arrived>>
  BY DEF JobStep, AcquirePermit, IgnoreOther, Start, PostProgress, Link, PostPending,
     BeginDelivery, Return, StopCancelled, Finish, BeginDeletions, CancelOne, DeletionsDone,
     Panic, ProbeFindsDeleted, telegram
<1>2. Cursor' = Cursor
  BY <1>1 DEF loop, Cursor
<1>3. \/ InFlight' = InFlight /\ handled' = handled
      \/ /\ u \in InFlight /\ InFlight' = InFlight \ {u}
         /\ handled' = handled \cup {u}
  <2>1. \/ job' = job /\ handled' = handled
        \/ \E to \in Stage \ {"none", "waiting"} :
             /\ job' = [job EXCEPT ![u] = to] /\ job[u] \in Live
             /\ handled' = IF to \in Ended THEN handled \cup {u} ELSE handled
    BY DEF JobStep, AcquirePermit, IgnoreOther, Start, PostProgress, Link, PostPending,
       BeginDelivery, Return, StopCancelled, Finish, BeginDeletions, CancelOne, DeletionsDone,
       Panic, ProbeFindsDeleted, Step, Working, Stage, Live, Holding, Ended
  <2>2. CASE job' = job /\ handled' = handled
    BY <2>2 DEF InFlight
  <2>3. ASSUME NEW to \in Stage \ {"none", "waiting"},
               job' = [job EXCEPT ![u] = to], job[u] \in Live,
               handled' = IF to \in Ended THEN handled \cup {u} ELSE handled
        PROVE  \/ InFlight' = InFlight /\ handled' = handled
               \/ /\ u \in InFlight /\ InFlight' = InFlight \ {u}
                  /\ handled' = handled \cup {u}
    <3>1. to \in Ended <=> to \notin Live
      BY DEF Stage, Live, Holding, Working, Ended
    <3>2. QED BY <2>3, <3>1 DEF InFlight, IntakeInv, TypeOK
  <2>4. QED BY <2>1, <2>2, <2>3
<1>4. QED BY <1>1, <1>2, <1>3 DEF Log!Handle, Log!logVars, loop

LEMMA NextImplementsLog ==
  IntakeInv /\ OffsetInv /\ [Next]_vars => [Log!Next]_Log!logVars
<1> SUFFICES ASSUME IntakeInv, OffsetInv, [Next]_vars
             PROVE  Log!Next \/ UNCHANGED Log!logVars
  OBVIOUS
<1>1. ASSUME NEW u \in Update, JobStep(u) \/ Panic(u) \/ ProbeFindsDeleted(u)
      PROVE  Log!Next \/ UNCHANGED Log!logVars
  BY <1>1, JobImplementsLog DEF Log!Next
<1>2. ASSUME NEW last \in Update, Poll(last)
      PROVE  Log!Take
  <2>1. InFlight' = InFlight \cup Cursor .. last
    BY <1>2 DEF Poll, InFlight, Cursor, OffsetInv, Live, IntakeInv, TypeOK, Update, Offset
  <2>2. last \in Cursor .. arrived /\ Cursor = stored /\ Cursor' = last + 1
    BY <1>2 DEF Poll, NextOffset, Cursor, OffsetInv, IntakeInv, TypeOK, Update, Offset
  <2>3. QED BY <1>2, <2>1, <2>2 DEF Poll, Log!Take, telegram
<1>3. ASSUME NEW c \in Contents, Queue(c)
      PROVE  Log!Arrive
  BY <1>3 DEF Queue, Log!Arrive, Cursor, InFlight, loop
<1>4. CASE SaveOffset
  BY <1>4 DEF SaveOffset, LoopHead, Log!Next, Log!Acknowledge, Cursor, InFlight, telegram
<1>5. CASE Exit \/ Crash \/ SaveOffsetFails
  <2>1. ProcessGone
    BY <1>5 DEF Exit, Crash, SaveOffsetFails
  <2>2. InFlight' = {} /\ Cursor' = stored
    BY <2>1 DEF ProcessGone, InFlight, Cursor, Live, Holding, Working
  <2>3. Log!ProcessEnds
    BY <2>1, <2>2 DEF ProcessGone, Log!ProcessEnds, telegram
  <2>4. QED BY <2>3 DEF Log!Next
<1>6. CASE \/ Resume \/ NoticeShutdown \/ Restart \/ SignalShutdown
           \/ \E to \in {"polling", "backoff", "draining"} : PollYieldsNothing(to)
  BY <1>6 DEF Resume, NoticeShutdown, Restart, SignalShutdown, PollYieldsNothing, LoopHead,
     Log!logVars, Cursor, InFlight, telegram
<1>7. CASE UNCHANGED vars
  BY <1>7 DEF vars, telegram, loop, Log!logVars, Cursor, InFlight
<1>8. QED
  BY <1>1, <1>2, <1>3, <1>4, <1>5, <1>6, <1>7 DEF Next, Environment, LoopStep, Log!Next

\* Under the mapping of positions, running jobs and killed jobs, polling,
\* permits, cancellation and crashes add nothing to what UpdateLog allows.
THEOREM ImplementsLog == Spec => LogSpec
<1>1. Init => Log!Init
  BY DEF Init, Log!Init, Cursor, InFlight, Live, Holding, Working
<1>2. QED BY <1>1, NextImplementsLog, IntakeInvariant, PTL DEF Spec, LogSpec, Log!Spec
=============================================================================
