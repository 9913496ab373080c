------------------------------- MODULE Request -------------------------------
(***************************************************************************)
(* Requests in one conversation, each a future of its own: from the message *)
(* to the answer its caller sees (BotRunner::process_message and command).  *)
(* A request opens a progress task, which edits what the caller sees and    *)
(* watches for deletions; it joins that task before it shows a result, but  *)
(* an error that is returned early leaves the task behind.                  *)
(*                                                                         *)
(* The registry that leads a deletion to the token is in UpdateIntake, the  *)
(* races on a history's row and cache are in CachedStore: an append is one  *)
(* step here. The seconds between two looks of a task are left out.         *)
(***************************************************************************)
EXTENDS Naturals, Sequences

CONSTANTS
  Request,   \* the messages of one conversation
  Modes,     \* "chat" (private or group) and "guest"
  Commands,  \* explicit commands: "reply", "new", "transcribe", "media", "artifact"
  Plans,     \* what the planner may decide: "assistant", "vision", "refuse",
             \* "transcribe", "media", "artifact"
  Failing,   \* which calls may fail: "store" (or a key is missing), "provider",
             \* "telegram"
  Limit,     \* entries kept of the conversation
  Parts      \* the most messages an answer is sent in

ASSUME RequestAssumption ==
  /\ Modes \subseteq {"chat", "guest"}
  /\ Commands \subseteq {"reply", "new", "transcribe", "media", "artifact"}
  /\ Plans \subseteq {"assistant", "vision", "refuse", "transcribe", "media", "artifact"}
  /\ Limit \in Nat \ {0}
  /\ Parts \in Nat \ {0}

VARIABLES
  mode,       \* where each message comes from
  failing,    \* which calls may fail, of Failing
  pc,         \* the stage a request is in
  then,       \* the stage behind the join of its progress task
  kind,       \* the command it runs, or "none"
  planned,    \* whether the planner chose that command
  task,       \* its progress task
  loose,      \* whether a task it did not join has an edit to make
  seen,       \* what its caller sees
  answers,    \* how often its guest query was answered
  left,       \* messages of its answer still to be sent
  deleted,    \* whether its message, or the processing message, is deleted
  cancelled,  \* whether its token is cancelled
  history,    \* the conversation, oldest first
  snapshot    \* the history a request gave to the model

vars == <<mode, failing, pc, then, kind, planned, task, loose, seen, answers, left,
          deleted, cancelled, history, snapshot>>
commandVars == <<kind, planned>>
talkVars    == <<history, snapshot>>
tokenVars   == <<deleted, cancelled>>

Stage == {"new", "opening", "preparing", "expanding", "asking", "chatting", "polishing", "delivering",
          "refusing", "describing", "commanding", "generating", "transcribing",
          "joining", "erring", "done"}
AfterJoin == {"polishing", "delivering", "refusing", "describing", "commanding", "erring", "done"}
Entry == {"user", "assistant"} \X Request
Kind  == {"none", "reply", "new", "transcribe", "media", "artifact"}
Conversation == {h \in Seq(Entry) : Len(h) <= Limit}

TypeOK ==
  /\ mode \in [Request -> Modes]
  /\ failing \in SUBSET Failing
  /\ pc \in [Request -> Stage]
  /\ then \in [Request -> AfterJoin]
  /\ kind \in [Request -> Kind]
  /\ planned \in [Request -> BOOLEAN]
  /\ task \in [Request -> {"none", "open", "closing", "ended"}]
  /\ loose \in [Request -> BOOLEAN]
  /\ seen \in [Request -> {"nothing", "progress", "result", "error"}]
  /\ answers \in [Request -> Nat]
  /\ left \in [Request -> 0..Parts]
  /\ deleted \in [Request -> BOOLEAN]
  /\ cancelled \in [Request -> BOOLEAN]
  /\ history \in Conversation
  /\ snapshot \in [Request -> Conversation]

Init ==
  /\ mode \in [Request -> Modes]
  /\ failing \in SUBSET Failing
  /\ pc = [r \in Request |-> "new"]
  /\ then = [r \in Request |-> "done"]
  /\ kind = [r \in Request |-> "none"]
  /\ planned = [r \in Request |-> FALSE]
  /\ task = [r \in Request |-> "none"]
  /\ loose = [r \in Request |-> FALSE]
  /\ seen = [r \in Request |-> "nothing"]
  /\ answers = [r \in Request |-> 0]
  /\ left = [r \in Request |-> 0]
  /\ deleted = [r \in Request |-> FALSE]
  /\ cancelled = [r \in Request |-> FALSE]
  /\ history = <<>>
  /\ snapshot = [r \in Request |-> <<>>]

-----------------------------------------------------------------------------
(* Steps of a request                                                      *)

Guest(r) == mode[r] = "guest"
MayFail(call) == call \in failing

\* The request is polled at this stage: the select looks at its token first.
At(r, stage) == pc[r] = stage /\ ~cancelled[r]

GoTo(r, stage) == pc' = [pc EXCEPT ![r] = stage]

\* A new progress task; drop(sender) followed by progress_task.await.
OpenTask(r) == task' = [task EXCEPT ![r] = "open"]

\* Mutant: a clone of the sender outlives the call.
CloseKeepingSender(r) == task

\* drop(sender): the task makes its last edit and ends.
Close(r) == [task EXCEPT ![r] = IF @ = "open" THEN "closing" ELSE @]

\* Mutant: the sender is dropped, and the task is not awaited.
JoinAtOnce(r, stage) ==
  /\ GoTo(r, stage)
  /\ then' = [then EXCEPT ![r] = stage]
  /\ task' = Close(r)

Join(r, stage) ==
  /\ GoTo(r, "joining")
  /\ then' = [then EXCEPT ![r] = stage]
  /\ task' = Close(r)

\* The future ends, or goes on in its error handler, with its task detached.
Detach(r) ==
  /\ task' = [task EXCEPT ![r] = IF @ = "none" THEN @ ELSE "ended"]
  /\ loose' = [loose EXCEPT ![r] = @ \/ task[r] \in {"open", "closing"}]

Leave(r) == GoTo(r, "done") /\ Detach(r)

Shows(r, what) == seen' = [seen EXCEPT ![r] = what]

\* respond: a message to a chat; a guest's query, which takes one answer only.
Respond(r, what) ==
  IF Guest(r)
  THEN /\ answers' = [answers EXCEPT ![r] = @ + 1]
       /\ Shows(r, IF answers[r] = 0 THEN what ELSE seen[r])
  ELSE Shows(r, what) /\ UNCHANGED answers

-----------------------------------------------------------------------------
(* From the message to its plan                                            *)

\* No caller, mode disabled, not addressed, nothing to answer, not allowed.
Dismiss(r) ==
  /\ At(r, "new")
  /\ GoTo(r, "done")
  /\ \/ UNCHANGED <<seen, answers>>
     \/ Respond(r, "error")
  /\ UNCHANGED <<mode, failing, then, task, loose, left, commandVars, tokenVars, talkVars>>

ExplicitCommand(r, k) ==
  /\ At(r, "new")
  /\ GoTo(r, "commanding")
  /\ kind' = [kind EXCEPT ![r] = k]
  /\ UNCHANGED <<mode, failing, then, planned, task, loose, seen, answers, left, tokenVars, talkVars>>

\* answer_guest_pending or send_progress_message, and the progress task.
ShowProgress(r, next) ==
  /\ IF Guest(r) THEN Respond(r, "progress")
     ELSE /\ Shows(r, IF seen[r] = "nothing" THEN "progress" ELSE seen[r])
          /\ UNCHANGED answers
  /\ OpenTask(r)
  /\ GoTo(r, next)

OpenProgress(r) ==
  /\ At(r, "new")
  /\ ShowProgress(r, "preparing")
  /\ UNCHANGED <<mode, failing, then, loose, left, commandVars, tokenVars, talkVars>>

\* Any of the calls whose error process_message returns with `?`.
ReturnEarly(r) ==
  /\ \/ At(r, "new") /\ (MayFail("store") \/ MayFail("telegram"))
     \/ At(r, "preparing") /\ (MayFail("store") \/ MayFail("telegram"))
     \/ At(r, "expanding") /\ MayFail("provider")
     \/ At(r, "asking") /\ MayFail("store")
     \/ At(r, "polishing") /\ MayFail("store")
     \/ At(r, "describing") /\ (MayFail("provider") \/ MayFail("telegram"))
     \/ At(r, "refusing") /\ MayFail("telegram")
     \/ At(r, "delivering") /\ MayFail("telegram") /\ kind[r] = "none" /\ ~Guest(r)
  /\ Leave(r)
  /\ UNCHANGED <<mode, failing, then, seen, answers, left, commandVars, tokenVars, talkVars>>

PlanRefusal(r) ==
  /\ At(r, "preparing") /\ "refuse" \in Plans
  /\ Join(r, "refusing")
  /\ UNCHANGED <<mode, failing, loose, seen, answers, left, commandVars, tokenVars, talkVars>>

\* A fal.ai model that describes media answers without a conversation.
PlanVision(r) ==
  /\ At(r, "preparing") /\ "vision" \in Plans
  /\ Join(r, "describing")
  /\ UNCHANGED <<mode, failing, loose, seen, answers, left, commandVars, tokenVars, talkVars>>

\* The commands that take the grounding and the expansion of a prompt.
Generations == {"media", "artifact"}

\* The planner wants the prompt expanded: expand_prompt is awaited, progress open.
PlanExpansion(r) ==
  /\ At(r, "preparing") /\ Plans \cap Generations # {}
  /\ GoTo(r, "expanding")
  /\ UNCHANGED <<mode, failing, then, task, loose, seen, answers, left, commandVars, tokenVars, talkVars>>

PlanCommand(r, k) ==
  /\ At(r, "preparing") \/ (At(r, "expanding") /\ k \in Generations)
  /\ k \in Plans
  /\ kind' = [kind EXCEPT ![r] = k]
  /\ planned' = [planned EXCEPT ![r] = TRUE]
  /\ Join(r, "commanding")
  /\ UNCHANGED <<mode, failing, loose, seen, answers, left, tokenVars, talkVars>>

\* Grounding a generation prompt fails: the error is shown.
GroundingFails(r) ==
  /\ At(r, "preparing") /\ Plans \cap Generations # {} /\ MayFail("provider")
  /\ planned' = [planned EXCEPT ![r] = TRUE]
  /\ Join(r, "erring")
  /\ UNCHANGED <<mode, failing, kind, loose, seen, answers, left, tokenVars, talkVars>>

\* The progress task has ended.
Joined(r) ==
  /\ At(r, "joining") /\ task[r] = "ended"
  /\ GoTo(r, then[r])
  /\ UNCHANGED <<mode, failing, then, task, loose, seen, answers, left, commandVars, tokenVars, talkVars>>

\* edit_guest_text or respond with the refusal, or the description.
ShowText(r) ==
  /\ At(r, "refusing") \/ At(r, "describing")
  /\ Shows(r, "result")
  /\ GoTo(r, "done")
  /\ UNCHANGED <<mode, failing, then, task, loose, answers, left, commandVars, tokenVars, talkVars>>

-----------------------------------------------------------------------------
(* The assistant                                                           *)

\* Mutant: the reading comes after the writing.
PlanAssistantLate(r) ==
  /\ At(r, "preparing") /\ "assistant" \in Plans
  /\ GoTo(r, "asking")
  /\ snapshot' = [snapshot EXCEPT ![r] = Append(history, <<"user", r>>)]
  /\ UNCHANGED <<mode, failing, then, task, loose, seen, answers, left, commandVars, tokenVars, history>>

\* Mutant: the sender is dropped before the model is asked.
PlanAssistantClosing(r) ==
  /\ At(r, "preparing") /\ "assistant" \in Plans
  /\ GoTo(r, "asking")
  /\ snapshot' = [snapshot EXCEPT ![r] = history]
  /\ task' = Close(r)
  /\ UNCHANGED <<mode, failing, then, loose, seen, answers, left, commandVars, tokenVars, history>>

\* The general path reads the history ...
PlanAssistant(r) ==
  /\ At(r, "preparing") /\ "assistant" \in Plans
  /\ GoTo(r, "asking")
  /\ snapshot' = [snapshot EXCEPT ![r] = history]
  /\ UNCHANGED <<mode, failing, then, task, loose, seen, answers, left, commandVars, tokenVars, history>>

\* append_message drains the oldest entries.
Appended(role, r) ==
  LET longer == Append(history, <<role, r>>)
  IN  IF Len(longer) > Limit THEN SubSeq(longer, Len(longer) - Limit + 1, Len(longer)) ELSE longer

\* Mutant: the question is not stored.
StoreQuestionNot(r) ==
  /\ At(r, "asking")
  /\ GoTo(r, "chatting")
  /\ UNCHANGED <<mode, failing, then, task, loose, seen, answers, left, commandVars, tokenVars, talkVars>>

\* ... and later adds the question, before the model is asked.
StoreQuestion(r) ==
  /\ At(r, "asking")
  /\ history' = Appended("user", r)
  /\ GoTo(r, "chatting")
  /\ UNCHANGED <<mode, failing, then, task, loose, seen, answers, left, commandVars, tokenVars, snapshot>>

Answered(r) ==
  /\ At(r, "chatting")
  /\ Join(r, "polishing")
  /\ UNCHANGED <<mode, failing, loose, seen, answers, left, commandVars, tokenVars, talkVars>>

ChatFails(r) ==
  /\ At(r, "chatting") /\ MayFail("provider")
  /\ Join(r, "erring")
  /\ UNCHANGED <<mode, failing, loose, seen, answers, left, commandVars, tokenVars, talkVars>>

\* process_text_output, which falls back to the text it was given; then the
\* answer is stored, and only then delivered.
StoreAnswer(r) ==
  /\ At(r, "polishing")
  /\ history' = Appended("assistant", r)
  /\ \E n \in 1..Parts : left' = [left EXCEPT ![r] = n]
  /\ GoTo(r, "delivering")
  /\ UNCHANGED <<mode, failing, then, task, loose, seen, answers, commandVars, tokenVars, snapshot>>

\* One message of a chat's answer; a guest sees the first artifact, or the text.
Deliver(r) ==
  /\ At(r, "delivering") /\ left[r] > 0
  /\ left' = [left EXCEPT ![r] = IF Guest(r) THEN 0 ELSE @ - 1]
  /\ IF left'[r] = 0 THEN Shows(r, "result") /\ GoTo(r, "done")
     ELSE UNCHANGED <<seen, pc>>
  /\ UNCHANGED <<mode, failing, then, task, loose, answers, commandVars, tokenVars, talkVars>>

\* What a guest's delivery, or a command's, does about a failure.
DeliveryFails(r) ==
  /\ At(r, "delivering") /\ MayFail("telegram") /\ (Guest(r) \/ kind[r] # "none")
  /\ GoTo(r, "erring")
  /\ UNCHANGED <<mode, failing, then, task, loose, seen, answers, left, commandVars, tokenVars, talkVars>>

-----------------------------------------------------------------------------
(* Commands, explicit or planned                                           *)

\* Settings, switches, arguments, overrides: refused before anything is shown.
CommandRefused(r) ==
  /\ At(r, "commanding")
  /\ GoTo(r, "erring")
  /\ UNCHANGED <<mode, failing, then, task, loose, seen, answers, left, commandVars, tokenVars, talkVars>>

\* help, model, search, access commands; /new clears the conversation first.
Reply(r) ==
  /\ At(r, "commanding") /\ kind[r] \in {"reply", "new"}
  /\ history' = IF kind[r] = "new" THEN <<>> ELSE history
  /\ Respond(r, "result")
  /\ GoTo(r, "done")
  /\ UNCHANGED <<mode, failing, then, task, loose, left, commandVars, tokenVars, snapshot>>

ReplyFails(r) ==
  /\ At(r, "commanding") /\ kind[r] \in {"reply", "new"}
  /\ MayFail("store") \/ MayFail("telegram")
  /\ history' \in {history, IF kind[r] = "new" THEN <<>> ELSE history}
  /\ GoTo(r, "erring")
  /\ UNCHANGED <<mode, failing, then, task, loose, seen, answers, left, commandVars, tokenVars, snapshot>>

\* A chat's transcription shows no progress.
BeginTranscription(r) ==
  /\ At(r, "commanding") /\ kind[r] = "transcribe" /\ ~Guest(r)
  /\ GoTo(r, "transcribing")
  /\ UNCHANGED <<mode, failing, then, task, loose, seen, answers, left, commandVars, tokenVars, talkVars>>

Transcribed(r) ==
  /\ At(r, "transcribing")
  /\ \/ Shows(r, "result") /\ GoTo(r, "done")
     \/ (MayFail("provider") \/ MayFail("telegram")) /\ GoTo(r, "erring") /\ UNCHANGED seen
  /\ UNCHANGED <<mode, failing, then, task, loose, answers, left, commandVars, tokenVars, talkVars>>

\* A progress task for the command itself; a planned one has its guest's
\* pending result already.
BeginGeneration(r) ==
  /\ At(r, "commanding")
  /\ kind[r] \in {"media", "artifact"} \/ (kind[r] = "transcribe" /\ Guest(r))
  /\ IF Guest(r) /\ planned[r]
     THEN OpenTask(r) /\ GoTo(r, "generating") /\ UNCHANGED <<seen, answers>>
     ELSE ShowProgress(r, "generating")
  /\ UNCHANGED <<mode, failing, then, loose, left, commandVars, tokenVars, talkVars>>

Generated(r) ==
  /\ At(r, "generating")
  /\ \E n \in 1..(IF kind[r] = "media" THEN Parts ELSE 1) : left' = [left EXCEPT ![r] = n]
  /\ Join(r, "delivering")
  /\ UNCHANGED <<mode, failing, loose, seen, answers, commandVars, tokenVars, talkVars>>

GenerationFails(r) ==
  /\ At(r, "generating") /\ MayFail("provider")
  /\ Join(r, "erring")
  /\ UNCHANGED <<mode, failing, loose, seen, answers, left, commandVars, tokenVars, talkVars>>

\* Media or key cannot be had: `?` leaves the command with its task running,
\* but for a guest's media and transcription, which gather all their errors.
PreparationFails(r) ==
  /\ At(r, "generating")
  /\ ~Guest(r) \/ kind[r] = "artifact"
  /\ Detach(r)
  /\ GoTo(r, "erring")
  /\ UNCHANGED <<mode, failing, then, seen, answers, left, commandVars, tokenVars, talkVars>>

\* Whether the error is edited into a guest's result, which takes its id: the
\* planner's, or the one a media command keeps to itself. Transcripts keep it
\* until the transcript is there.
EditsError(r) ==
  \/ planned[r] \/ kind[r] \in {"none", "media"}
  \/ kind[r] = "transcribe" /\ left[r] = 0

\* Mutant: a guest's error is only logged.
ShowErrorToChats(r) ==
  /\ At(r, "erring")
  /\ IF Guest(r) THEN UNCHANGED <<seen, answers>> ELSE Respond(r, "error")
  /\ GoTo(r, "done")
  /\ UNCHANGED <<mode, failing, then, task, loose, left, commandVars, tokenVars, talkVars>>

\* edit_guest_error, or respond with the error.
ShowError(r) ==
  /\ At(r, "erring")
  /\ IF Guest(r) /\ EditsError(r) /\ answers[r] > 0
     THEN Shows(r, "error") /\ UNCHANGED answers
     ELSE Respond(r, "error")
  /\ GoTo(r, "done")
  /\ UNCHANGED <<mode, failing, then, task, loose, left, commandVars, tokenVars, talkVars>>

ErrorNotShown(r) ==
  /\ At(r, "erring") /\ MayFail("telegram")
  /\ GoTo(r, "done")
  /\ UNCHANGED <<mode, failing, then, task, loose, seen, answers, left, commandVars, tokenVars, talkVars>>

-----------------------------------------------------------------------------
(* Progress tasks, deletions and cancellation                              *)

\* An edit of the progress message; a guest's result is that message.
Edited(r) == IF Guest(r) THEN [seen EXCEPT ![r] = "progress"] ELSE seen

ProgressEdit(r) ==
  /\ task[r] = "open"
  /\ seen' = Edited(r)
  /\ UNCHANGED <<mode, failing, pc, then, task, loose, answers, left, commandVars, tokenVars, talkVars>>

TaskEnds(r) ==
  /\ task[r] = "closing"
  /\ seen' \in {seen, Edited(r)}
  /\ task' = [task EXCEPT ![r] = "ended"]
  /\ UNCHANGED <<mode, failing, pc, then, loose, answers, left, commandVars, tokenVars, talkVars>>

\* A guest's task ends at the first edit that fails.
GuestTaskGivesUp(r) ==
  /\ task[r] = "open" /\ Guest(r) /\ MayFail("telegram")
  /\ task' = [task EXCEPT ![r] = "ended"]
  /\ UNCHANGED <<mode, failing, pc, then, loose, seen, answers, left, commandVars, tokenVars, talkVars>>

\* The last edit of a task nobody waits for.
LooseEdit(r) ==
  /\ loose[r]
  /\ loose' = [loose EXCEPT ![r] = FALSE]
  /\ seen' \in {seen, Edited(r)}
  /\ UNCHANGED <<mode, failing, pc, then, task, answers, left, commandVars, tokenVars, talkVars>>

\* A message is deleted, and Telegram may tell so with an update of its own.
Delete(r) ==
  /\ pc[r] # "new" /\ ~deleted[r]
  /\ deleted' = [deleted EXCEPT ![r] = TRUE]
  /\ cancelled' \in {cancelled, [cancelled EXCEPT ![r] = TRUE]}
  /\ UNCHANGED <<mode, failing, pc, then, task, loose, seen, answers, left, commandVars, talkVars>>

\* A task finds its message gone, cancels the request and ends.
DeletionNoticed(r) ==
  /\ task[r] \in {"open", "closing"} /\ deleted[r]
  /\ cancelled' = [cancelled EXCEPT ![r] = TRUE]
  /\ task' = [task EXCEPT ![r] = "ended"]
  /\ UNCHANGED <<mode, failing, pc, then, loose, seen, answers, left, commandVars, deleted, talkVars>>

\* The select drops the request's future.
StopCancelled(r) ==
  /\ cancelled[r] /\ pc[r] # "done"
  /\ Leave(r)
  /\ UNCHANGED <<mode, failing, then, seen, answers, left, commandVars, tokenVars, talkVars>>

RequestStep(r) ==
  \/ Dismiss(r) \/ OpenProgress(r) \/ ReturnEarly(r) \/ StopCancelled(r)
  \/ \E k \in Commands : ExplicitCommand(r, k)
  \/ PlanRefusal(r) \/ PlanVision(r) \/ PlanAssistant(r) \/ GroundingFails(r) \/ PlanExpansion(r)
  \/ \E k \in {"transcribe", "media", "artifact"} : PlanCommand(r, k)
  \/ Joined(r) \/ ShowText(r)
  \/ StoreQuestion(r) \/ Answered(r) \/ ChatFails(r) \/ StoreAnswer(r)
  \/ Deliver(r) \/ DeliveryFails(r)
  \/ CommandRefused(r) \/ Reply(r) \/ ReplyFails(r) \/ BeginTranscription(r) \/ Transcribed(r)
  \/ BeginGeneration(r) \/ Generated(r) \/ GenerationFails(r) \/ PreparationFails(r)
  \/ ShowError(r) \/ ErrorNotShown(r)

TaskStep(r) == ProgressEdit(r) \/ TaskEnds(r) \/ GuestTaskGivesUp(r) \/ LooseEdit(r) \/ DeletionNoticed(r)

Next == \E r \in Request : RequestStep(r) \/ TaskStep(r) \/ Delete(r)

Spec == Init /\ [][Next]_vars

\* Every await of a request and of a progress task has a time-out.
Fairness == \A r \in Request : /\ WF_vars(pc[r] # "new" /\ RequestStep(r))
                               /\ WF_vars(TaskEnds(r))

LiveSpec == Spec /\ Fairness

-----------------------------------------------------------------------------
(* Properties                                                              *)

\* A request that was taken up and not cancelled ends with a result or an error
\* its caller sees (the handlers at the end of every path of process_message). Left
\* out are what process_message returns with `?`, which is the failure of the store, of
\* Telegram, of a description (`result?`) and of the expansion of a prompt
\* (`expand_prompt(...).await?`): the last two end a request whose provider failed
\* with neither. So are errors that would be a second answer to a guest's query.
CallerIsTold ==
  [][\A r \in Request :
       /\ pc[r] # "done" /\ pc'[r] = "done" /\ ~cancelled[r]
       /\ task[r] # "none" \/ kind[r] # "none"
       /\ failing \subseteq {"provider"} /\ pc[r] \notin {"describing", "expanding"} /\ answers'[r] <= 1
       => seen'[r] \in {"result", "error"}]_vars

\* What a caller was shown at last is not replaced by progress that was sent
\* earlier and arrives later (drop(sender) and progress_task.await), unless the
\* task was left behind by an error.
ResultIsFinal ==
  [][\A r \in Request :
       seen[r] \in {"result", "error"} /\ ~loose[r] => seen'[r] = seen[r]]_vars

\* While a chat's planner or provider works, a progress task watches for the
\* deletion of the message.
Working(r) == pc[r] \in {"preparing", "expanding", "asking", "chatting", "generating"}
ProviderIsWatched ==
  \A r \in Request : ~Guest(r) /\ Working(r) /\ ~cancelled[r] => task[r] = "open"

\* The model is given the question as the question, and not as history too.
QuestionAskedOnce ==
  \A r \in Request : \A i \in DOMAIN snapshot[r] : snapshot[r][i] # <<"user", r>>

\* An answer comes behind its question, unless that was drained, or cleared by /new.
MayBeCleared == \E q \in Request : kind[q] = "new"
AnswersBehind ==
  \A r \in Request, i \in DOMAIN history :
    history[i] = <<"assistant", r>> =>
      \/ \E j \in 1..(i - 1) : history[j] = <<"user", r>>
      \/ Len(history) = Limit
AnswerBehindQuestion == MayBeCleared \/ AnswersBehind

\* A request never waits for ever, for a progress task that waits for it.
RequestEnds == <>[](\A r \in Request : pc[r] \in {"new", "done"})
=============================================================================
