# Teleforge in TLA+

Specifications of [Teleforge](../src/README.md), a multi-bot Telegram AI assistant
in Rust, their model-checking configurations and machine-checked proofs. Each
module names the code it models; `PROJECT.json` maps every definition to its lines.

## 1. The system

One process runs several bots over one embedded database.

| Component | State it keeps | Operations | Talks to |
| --- | --- | --- | --- |
| Supervisor (`main.rs`) | the bots' `JoinSet`, a shutdown watch channel, the HTTP server task | start, wait for a signal or for any bot to end, drain for 35 s, exit | bots, server |
| Update loop (`telegram.rs`, `BotRunner::run`) | local offset, back-off, `JoinSet` of jobs, semaphore | poll, spawn a job per update, store the offset, drain | Telegram, store, jobs |
| Cancellation registry (`telegram.rs`, `ActiveRequests`) | message id → request, request → token, behind a mutex | start, link, cancel, finish | jobs, progress tasks |
| Request (`telegram.rs`, `process_message`, `command`) | none outside its future; a progress channel and a progress task | authorise, plan, collect media, store the user's message, run the assistant, store and deliver the answer | store, OpenRouter client, Telegram, hosted media |
| Store (`db.rs`) | redb tables, five read-through caches, one mutation lock | settings, credentials, access list, history, offset, audit | everything |
| Assistant (`openrouter.rs`) | none between calls; a tool loop of at most six rounds | plan a request, chat with tools, generate media, transcribe, edit text | providers, fal client, search |
| fal client (`fal.rs`) | cache of discovered endpoints | resolve, submit, poll, fetch the result | fal.ai |
| Model catalog (`catalog.rs`) | process-wide cache with a one-hour life, one refresh lock per provider | get (fresh, refreshed or stale) | providers |
| Hosted media (`ephemeral_media.rs`) | process-wide map of published files, bounded in bytes and age | publish, serve (with ranges) | requests, HTTP |
| Admin panel (`admin.rs`) | none | authenticate, read and change settings, credentials, content, access; import and export | store, catalog |
| Text (`rich.rs`) | none | normalise, split, redact | requests |
| Configuration, search, captions, HTTP client, embedded defaults | none | load and validate, query, fetch | – |

### What is hard

* **Concurrency.** Every update is a task of its own; tasks share the registry, the
  store's caches and one lock, the catalog and the hosted media. The panel's
  handlers run beside them.
* **Cancellation.** A request's future can be dropped at any of its awaits, with a
  lock held, between the write of a row and of its cache, or half way through a
  delivery. A blocking database write goes on by itself.
* **Failure and restart.** The offset is stored after the jobs of its batch are
  spawned. A failed write of it ends the bot, and with it the process.
* **Ordering.** A deletion is an update like any other and may overtake the message
  it deletes.
* **Limits.** Permits, history length, tool rounds, hosted bytes, poll time-outs.

### What makes each part correct

* *Update loop*: no update is skipped or acknowledged before it is dispatched; none is
  dispatched twice in one life or after its offset is stored; every update ends.
* *Registry*: holds exactly the running requests; each of them can be cancelled by the
  ids of its message and of its processing message; finishing one request does not
  unregister another.
* *Store*: changes of one entry are applied in order, none undoes another, the cache
  agrees with the row, the lock is always released.
* *Request*: nothing is delivered after a cancellation; an answer is stored only behind
  its question; a guest's pending result is always completed.
* *Planning*: nothing that is switched off is done, whatever the planner says; a prompt is made
  of the caller's words; looks that were to be researched are not made up; every request is routed.
* *Assistant*: bounded rounds, a tool is run at most once per kind of artifact, what was
  generated is delivered.
* *Media jobs*: work is ordered and paid for once, nothing is delivered that is not done, a call ends
  near its time-out and not without a last look; an order has what its endpoint requires.
* *Text*: code is kept as it is, pieces are the text and can be read alone, an answer is never cut.
* *Supervisor*: the way down leaves requests their time and ends; a failed worker does not end the service.
* *Catalog, hosted media*: one refresh at a time, fresh or stale data and never an error while stale
  data exists; a link lives as long as it says, and limits hold.

## 2. Modules

| Module | Models | Extends / instantiates |
| --- | --- | --- |
| `UpdateLog` | the abstract log of updates: taken in order, acknowledged behind the cursor, lost when the process ends | – |
| `UpdateIntake` | `BotRunner::run`, `process`, `process_tracked_message`, `ActiveRequests`, the semaphore, crashes and restarts | `UpdateLog` (refinement) |
| `UpdateIntakeProofs` | its theorems | `UpdateIntake`, `TLAPS` |
| `CachedStore` | one entry of `Store`: row, cache, mutation lock, dropped tasks, restarts | – |
| `CachedStoreProofs` | its theorems | `CachedStore`, `TLAPS` |
| `SkillSwitches` | `BotSettings`' capabilities and custom content: switches, groups, the panel's forms, bundles | – |
| `SkillProofs` | theorems about `SkillSwitches` and `RequestPlan` | `SkillSwitches`, `RequestPlan`, `TLAPS` |
| `Request` | `process_message`, `command`, guest results, progress tasks, deletions | – |
| `RequestProofs` | its theorems | `Request`, `TLAPS` |
| `ToolLoop` | `OpenRouter::chat` and `add_tools` | – |
| `ModelCatalog` | one entry of `ModelCatalogCache`, its lock and its callers | – |
| `ModelCatalogProofs` | its theorems | `ModelCatalog`, `TLAPS` |
| `HostedMedia` | `ephemeral_media.rs` | – |
| `PromptEnvelope` | selections of a caller's words and the envelope that is taken off them | – |
| `RequestPlan` | `plan_request`, `plan_generation_prompt`, `ground_visual_prompt`, `expand_prompt` and the way out of `process_message` | `PromptEnvelope` |
| `FalSchema` | `endpoint_from_openapi` and `fal_input`: schemas, mappings and orders | – |
| `PaidWork` | the abstract account of paid work: ordered once, finished by the provider, delivered when finished | – |
| `MediaJobs` | the media generators and `FalClient`: protocols, endpoints, polling, downloads, cancellation | `FalSchema`, `PaidWork` (refinement) |
| `MediaJobsProofs` | its theorems | `MediaJobs`, `TLAPS` |
| `RichText` | `to_telegram_markdown`, `chunks`, and how an answer is sent | – |
| `AnswerProofs` | theorems about `ToolLoop`, `HostedMedia` and `RichText` | `ToolLoop`, `HostedMedia`, `RichText`, `TLAPS` |
| `Supervisor` | `main`, its workers, the server, and the service manager | – |
| `SupervisorProofs` | its theorems | `Supervisor`, `TLAPS` |
| `MC…` | instances for TLC | the module of that name |

Two models of one proof module have different names for their basics (`MediaSpec`, `TextSpec`, `PlanSpec`).

### UpdateIntake

`pc` is where `run` is: `polling` in the select around `get_updates`, `backoff`, `saving`
while `set_offset` is awaited, `draining` after the loop, `down` between two processes.
`Poll` confirms the offset to Telegram, takes a batch and spawns its jobs in one step,
since the code does not await in between; `SaveOffset` stores `next_offset` and
only then sets the local one. A job waits for a permit, then ignores its update, works
through the message ids of a deletion, or registers a request (`Start`), posts its
processing message, links it, answers, delivers, and is finished. The select that
guards a request is biased: a step of the request needs its token not cancelled, except
`Link`, which follows the Telegram call in the same poll. `Panic` skips `Finish`, as the
code does. A progress task may cancel what its message ids name, and one that was left
behind may still do so after its request has ended.

Update ids also name jobs and the `Uuid` of a request, for no id is dispatched twice in
one life of the process (`DispatchIsOnce` in the proofs). Seconds are left out: a back-off, a poll and
a drain last as long as they last.

### CachedStore

The caches of settings, history, credentials, access and offset are used in the same
way; `ops` is one of `Entries`, the operations that reach one kind of entry. `pc` is the await a task is at: the cache
lookup, the read of the row and the cache fill of a getter; the lock; the check of
`remove_user_allowed`; the write of the row, the cache's remove and its insert. A value is
the sequence of changes in effect, so an append, an overwrite and a removal are told apart.
`Abandon` is a dropped future: the guard is released, and a write in progress goes on as
an orphan that lands, or fails, at some later time. Three variables are history. `truth` is the
changes in effect: a written change is in effect once no older cached value hides it, that is behind its
eviction, or at once if nothing was cached. `stored` is `truth` with the change that was written last made on it. So
what a dropped writer left in the row behind a cached value is in `stored`, and in the row, and not in `truth`. `clean` says that no
operations have raced: they overlap only if they read, or if both take the lock (`Harmless`), and nobody is at work
while a write goes on without its task. A dropped task does not end it as such, at none of its awaits. It begins anew when
all rest and the cache holds the row or nothing, and with a restart.

### SkillSwitches

`caps` is the record of capabilities as redb keeps it: the older switches of whole groups
and the newer ones of single skills, which inherit from their group until they are set.
A switch that is set pins its siblings first, as `set` does. The forms that read before they
write (`import_skill_bundle`, disabling a text) hold a `draft`; an import sets one
skill after another in it and saves the whole record. `oldIds` says whether this bot is sent
group identifiers too, as older bundles and links hold them.

### Request

Requests of one conversation. `pc` is the await a request is at, `then` the stage behind the
join of its progress task: `drop(sender); progress_task.await`. `seen` is what the caller sees,
edited by the request and by its task. Leaving with `?` detaches the task (`loose`), which
may still make one edit. A planned generation is joined at once, or stops at `expanding` for
`expand_prompt` on its way. A deletion is noticed by a task that probes or by the registry, and
the biased select takes the cancelled token before the next step. The history is a sequence
of questions and answers, appended in one step and drained to `Limit`; `snapshot` is what a
request gave to the model. Permissions, keys and model choice are reduced to which calls may
fail (`failing`, a subset of `Failing` taken at the start), a planner's answer to which branch it leads to (`Plans`).

### ToolLoop

One call of `OpenRouter::chat`. The model is free: it answers, or calls any tools of `Tool`,
offered or not, with its own words, an excerpt of the caller's or nothing. `calls` are the
calls of its message still to be handled, `owed` the ones among the messages without a result.
`completed` is the code's list, by the name that was called; `made` counts what was made.
`enabled` holds the tools whose capability, key and input are there.

### ModelCatalog

Callers of one cache key. `pc` is the await a caller is at; a lock is named after the caller
that made it, so two callers may each make one. A catalog is the number of the fetch that
returned it. `Drop` is a dropped future, whose guard is released. Only fetches of fal.ai have a
time-out of their own (`provider`).

### HostedMedia

A link is the number of its publication. `publish` and the lookup of `serve` hold the map's lock
and are one step each. Files have sizes from nothing to more than the limit, ranges have
every first and last byte up to the largest number. The code removes the first expiring link again and again until
there is room; `Remaining` is that sequence of removals, of which `MakesRoom` takes the first that leaves enough.

### RequestPlan and PromptEnvelope

One request on its way to a decision. `stage` names the models that are being asked; `form` and `left`
are the rung of their ladder: the strict schema, then any JSON object, each for the planner's model and its
fallback. A try that times out, errs or cannot be used drops the head of `left` (`TryFails`). `Normalized`
is the chain of cuts behind a planner's answer in the code's order: disabled skills and steps, a plan of
one step, a disabled action, code without evidence, files, and a refusal without words. What a model may
answer is any of `Plans` and `Selections`, fitting or not. A text is a sequence of kinds of words, since
`strip_creation_directive` looks at one word after the other; `enabled` holds the flags of switches, keys
and inputs as the planner's call gets them.

### FalSchema and MediaJobs

A schema is the set of its fields with those that are required, have a default or a list of choices; references
and branches are resolved, as `collect_schema` does. `Derivable` and `Derived` are the checks and the mapping
of `endpoint_from_openapi`, `Input` the fields `fal_input` fills. In `MediaJobs` `at` is the await a call is at:
`resolving` an endpoint, `ordering`, the polling loop (`checking` the clock, `looking`, `sleeping`, in the
order that differs between fal.ai and OpenRouter's videos), `fetching` the result, `collecting` its parts.
`job` is what the provider does meanwhile, by itself. `spent` is the time since the loop began: a pause
adds its length, a status request any time up to `Latency`. `Dropped` is the cancelled request's future.

### RichText

A line has a kind and a length. The first pass converts line by line, with the flags of the code (`fenced`, and
`run` for the inner loop over indented code), the second splits character by character; a piece is remembered as
the places of its first and last character, with what was opened in front of them and whether three backticks were added
behind (`Mended`). `Reading` is the reference, the fences as CommonMark reads them: `OpenFence` of the text, `Read` of the converted text. For
the program every line of three or more backticks, or of tildes, opens a fence or closes it, which is `Open`. `CodeIsKept` compares the
first two passes: a line of code is kept, and by `Open` it still stands in a fence. `PiecesStandAlone` asks that what the splitter opens and adds around a piece is
what `Read` finds open there, if no fence is longer than three backticks and an info string only opens (`OrdinaryFences`): a longer fence is
not closed by what is added. `ShortFences` asks that a line that opens a fence, one that closes it and the four characters of a repair fit
into a message together: the code keeps room for the repair, but tears a closing line that finds no room behind the opening one.

### Supervisor

`main` is where the process is, `clock` the time since it told its tasks to stop, `deadline` the time-out it waits
under. A worker takes requests while it polls, then finishes them, and has no time-out of its own. `Policy` is what
the service manager does with a process that has ended: `compose.yaml` starts it again always, `teleforge.service`
only if it failed. The single bot's side of the way down is in `UpdateIntake`. Not in the model: the handler of signals that cannot
be installed (`signal?`, main.rs:105), which ends `main` at once, and the ten seconds after which Docker kills what it stops, since
`compose.yaml` sets no `stop_grace_period`. A container that is stopped while requests run for longer loses them: that they have their 35 s is
a property of `main`.

## 3. Runs

| Run | Question | Bounds |
| --- | --- | --- |
| `intake_all` | can running requests be cancelled by their messages; does a deletion reach what it names; is any update skipped across a crash, a failed write or a shutdown; is `UpdateLog` implemented; does every update end? | 3 updates under 2 ids: a request, then anything, then a deletion (`RequestToDeletion`); 2 permits, 1 end of the process |
| `store_all` | are changes kept in order and within the limit; is a finished change never undone, and what is read in effect, unless operations race, whoever is dropped; does every operation end? | 2 tasks on one entry of each of the 5 kinds, 3 changes, limit 2 |
| `skills_all` | does an import bring back what was exported, whatever else the panel does; does a single switch move no other skill? | 3 skills, 1 group of 2, 1 form, all records |
| `request_all` | are callers told how it ended, for good; is every provider call watched; are questions and answers stored once and in order; does every request end? | 2 requests, 5 plans (2 with a prompt that may be expanded), 2 commands, all failures, limit 3 |
| `plan_all` | is what is done enabled, in the caller's words, researched where it should be, and decided in the end? | 6 texts, 3 sets of switches, 10 plans, 48 selections, 2 models |
| `tools_all` | what is made, how often, from which prompt, and is it delivered? | 8 tools, 2 rounds of at most 2 calls |
| `jobs_all` | do calls end near their time-out and after a last look; do orders lack anything; is `PaidWork` implemented? | 2 calls of every protocol; 1 call for every schema of 3 categories with one field more; time-out 2, Retry-After to 3, latency 1, 2 parts |
| `catalog_all` | once per life, never back, stale before error? | 2 callers, 4 gets, 2 lives of the entry |
| `media_links` | is room made only at need and enough of it, are parts exact, is nothing served late? | 3 files, sizes to 3 of 4, ranges to 4 |
| `rich_all` | is code kept; are pieces the text, readable alone and short enough; are answers whole? | all texts of up to 4 lines of 11 kinds and lengths, 15 characters and 3 lines in a message |
| `supervisor_all` | do requests have their time; does the service go on after a failed worker, and end after a signal? | 2 bots of 2 requests, drain 3, server 2, 3 faults |
| `supervisor_systemd` | the same under `teleforge.service` (it does not go on) | as above |

Many of the safety properties hold by proof for every value of the constants (section 5); the runs find out whether a
formula holds before it is proved, cover what is not proved, and show that each property can
fail: every one has a mutant of the code that breaks it. So the bounds need only be large enough for the
interesting cases, and small enough for liveness. Three updates are a request, its successor under the same id
or something else, and a deletion of either; the constraint leaves out other orders of arrival, which
only changes what Telegram may send. With two permits one of three jobs waits. One end of the process splits a batch
between its dispatch and its offset. Two tasks are a writer and a second writer or a
reader, each of which begins operation after operation; a limit of 2 with three appends drains. Two requests are
an answer and another request's question in its way, of which one may be /new. Three changes on one
entry are one that was finished, one of a task that is dropped, and one behind both. Two rounds hold an
artifact and a round behind it that repeats it or fails; two calls in a message are a repetition within
a round. Two models are all a ladder has. A schema's fields are derived one by one, so one field beside
those of its category meets each rule; a Retry-After of 3 is longer than a time-out of 2, and an interval of 0
needs the smallest pause. Two callers are one that refreshes and one that waits or comes late, over 4 gets.
Three files are a new one, the one that goes and one that must not. Four lines hold a fence, code, its end and text
behind it, a line of 18 characters is torn within a message of 15, and 3 lines are fewer than 4. Two
bots are the one that fails and one that does not; drain and server time differ, so that neither is taken for the other.
What has ended stays so, hence `CHECK_DEADLOCK FALSE` for `Request`, `ToolLoop`, `MediaJobs`, `ModelCatalog` and
`Supervisor` (an exited process that is not started again).

**Fairness.** `UpdateIntake!Fairness`: the tokio runtime polls every task that can go on, the
semaphore is first come first served and each await of a request has a time-out, so a job
step that stays enabled is taken. A poll is strongly fair: it may fail or be dropped by
the select again and again, but not for ever. `CachedStore!Fairness`: a database call ends,
and `tokio::sync::Mutex` is fair, so a task that waits for the lock gets it. `Request!Fairness`: every await of a request
that was taken up ends (the HTTP client has a time-out), and a task whose sender is gone ends;
no request is owed a start. `MediaJobs!FairSpec`: a step of a call that can be taken is, for the shared HTTP
client has a time-out; a job may run for ever. `RequestPlan!FairSpec`: every question to a model has a time-out.
`Supervisor!FairSpec`: tasks that can go on do, timers fire, and the manager keeps its policy; that a request ends, or
an answer of the server, is not assumed.

## 4. Findings

One is shown by a run whose property quotes what the repository says:

* `supervisor_systemd`: `main` returns `Ok(())` (main.rs:120) also when a bot's worker failed or panicked, so the
  process ends with success, and systemd with "Restart=on-failure" (teleforge.service:15) does not start it again: one
  failed write of an offset stops all bots. `compose.yaml` ("restart: unless-stopped") does start it again.

The others were met while modelling. The models have them, and the properties leave them out
by name, at the place given:

* `remove_credential` deletes the row, evicts and inserts None in three calls without a lock; another
  writer's insert, or a slow reader's fill, in between keeps the removed secret in the cache, against
  README.md:166 (`CacheIsCurrent` asks that nothing overlaps but reads and what the lock keeps apart).
* A request that is cancelled while `append_message` (db.rs:952) or a `set_*` awaits its write, or the eviction behind it,
  leaves the row ahead of the cache. Nothing has to overlap for the loss that follows: the next append, under the lock, works from the
  cache and writes over the message that was stored; without one, a restart brings it into effect. `NoLostChange` claims this much:
  a change that was finished is not lost so, and what is lost is the one a dropped task had written behind a cached value. `CacheIsCurrent`
  says that until then readers get the cached changes.
* An error returned with `?` behind a guest's pending result leaves "This result will update automatically."
  (telegram.rs:2597) for ever, and tells a chat nothing. Store and Telegram apart, a provider does this in two places: `expand_prompt(...).await?`
  (telegram.rs:781, after both models of openrouter.rs:1011 have failed) and the description of media (`result?`, telegram.rs:922). The planner, grounding, the
  assistant and every generator have handlers that show their errors. (`CallerIsTold` leaves out `expanding` and `describing` by name.)
* The explicit 3D, vector or transcription command of a guest that fails answers its query twice; Telegram refuses the
  second answer (`ExplicitCommand`).
* Completed generators are known by the name that was called, so speech is made again as `generate_audio`, what the
  comment at openrouter.rs:1683 wants to avoid (`GeneratorsMakeOnce` counts by name).
* A deletion processed before its message's job has registered cancels nothing, against
  README.md:15 (`DeletionReachesRequest` asks that the request is running).
* `clear_history` takes no lock, so an append under way restores what it cleared, and the answer of a
  request under way is appended behind /new, against README.md:84 (`Harmless` in `CachedStore`,
  `MayBeCleared` in `Request`).
* A skill switched on before its group was switched off by the group's identifier comes back when a
  sibling is switched on, against the comment at db.rs:287 (`oldIds` in `SwitchesAreIndependent`).
* An import saves the whole record it cloned without the lock, and takes back a custom prompt saved
  meanwhile, against README.md:28 (`ImportRestores` speaks of skills only).
* The unjoined task of a failed 3D or vector command may edit over the error (`loose` in `ResultIsFinal`).
* A chat's transcription, and everything behind the join of the task, is not probed for deletions, against
  README.md:15 (`Working` in `ProviderIsWatched`).
* An error in a later round of a composed workflow drops the artifacts of earlier ones
  (`composed` in `SingleStageDelivers`).
* `web_search` alone runs without a look at its switch, against README.md:28 (`DisabledDoNothing`).
* The time-out of a fal.ai discovery is an error although a stale catalog is there, against README.md:73,
  and a caller dropped between removal and insertion takes the catalog along (`StaleServes`).
* Room for a hosted file is made at the cost of links whose callers were told ten minutes,
  telegram.rs:2757 (`GoneForNeed` says only when).
* Any failed status request, 429 among them, ends the waiting for a paid job that goes on (`LookFails`), as does the
  cancellation of its request; one image that cannot be downloaded discards the others (`DownloadFails`).
  A Retry-After is used only if it comes with a successful status, and then without a limit (`EndsNearTimeout`
  allows for it). fal.ai's loop tests the clock behind its pause, so a job that completes in the last one is
  lost (`LooksBeforeGivingUp`).
* README.md:71 says that saving a fal.ai model verifies that all required inputs can be supplied. What a request does not
  say, such as a language or a size, is not supplied (`OrdersLackOnlyTheUnsaid` leaves it out). A reference to an
  image does not replace a default of its field (`Said`), and a derived mapping is kept for the life of the process.
* A composed plan of which a disabled step was taken away becomes a direct generation (comment at openrouter.rs:830);
  a refusal with two steps becomes a chat; speech and audio together are no direct generation; an overridden model's
  generation goes ahead although the plan is a refusal; `expand_prompt` gives up on an answer without a
  message before its fallback is asked (`ExpansionAborts`).
* A fence of another kind within code toggles the state of `to_telegram_markdown`, and the code behind it is
  rewritten, against the comment at rich.rs:27 (`Plain` in `CodeIsKept`). Lines of fences that together are as
  long as a message are torn, or make a piece exceed it (`ShortFences`): the proof of `PiecesStandAlone` failed while this asked only that
  each of them is shorter, and TLC then found two fences of 15 characters in messages of 25.
* A fence of four backticks or more is opened again as it is in the next piece (rich.rs:278), but what is added behind the one before is always
  three (rich.rs:251, 263, 285), which do not close it; and three backticks within it end it for the splitter. Such pieces cannot be read alone, against
  README.md:147 (`OrdinaryFences`, without which TLC finds a piece of an open four-backtick fence).
* Of a text that is not an answer a guest gets the first piece only.
* The drain of 35 s and the server's 5 s are together what systemd allows (`TimeoutStopSec=40s`); one worker that ends
  takes all bots down (`WorkerStops`).

## 5. Proofs

The theorems hold for all values of the constants, from the one named assumption of each module
(`IntakeAssumption`, `StoreAssumption`, `SwitchAssumption`, `RequestAssumption`, `PlanAssumption`, `ToolAssumption`,
`JobsAssumption`, `CatalogAssumption`, `MediaAssumption`, `TextAssumption`, `SupervisorAssumption`) and nothing else. Every safety and
action property of the runs, and both refinements, are proved.

* **UpdateIntake.** Types first. `JobsMatchUpdates` ties stages to update kinds and arrival,
  and is needed before anything can be said of the registry. `OffsetInv` (offsets ordered,
  everything below the cursor dispatched, handled or killed, nothing at or above it running)
  gives `NothingForgotten`, `DispatchedOnce` and each step of the refinement of `UpdateLog`.
  `RegistryInv` adds who may own a message id: it gives `RegistryOfRequests`,
  `LiveRequestReachable` and `DeletionReachesRequest`.
* **CachedStore.** `AllKept` extends the order from row and cache to the values tasks carry, and
  bounds them by the changes made so far; it rests on lemmas about `LastOf` and `Applied`.
  `Placed` says where each operation may be and that one past its `lock()` holds the lock.
  `RaceInv` says what holds while nothing has raced, dropped tasks and their writes included (`Peaceful`): the row is `stored`, the
  cache holds `truth` or nothing, and what a task writes is one change more on `truth` (`Carries`). A writer is
  alone, and so is a write that goes on without its task (`WriterIsAlone`), which carries the induction. They give
  `ChangesInOrder`, `NoLostChange` and `CacheIsCurrent`.
* **SkillSwitches.** The invariant says what a draft of an import has set: every skill no longer in
  `todo` is as the bundle lists it, because pinning keeps what siblings offer. It gives
  `ImportRestores`. Where group identifiers are not sent, nothing under a group that is off has been
  switched on (`GroupInv`), which gives `SwitchesAreIndependent`.
* **Request.** Stages determine what a task may be (`ProviderIsWatched`) and whether the question of a
  request is in the history (`QuestionAskedOnce`). `AnswerBehindQuestion`, which asks for nothing where /new
  may clear, follows from the position of a question among what is left after draining. `HandoverInv` says in which
  stages no progress task may edit any more (`Settled`), and that what the caller is shown at last comes with the step that ends
  the request; then each such step shows a result or an error (`Told`), and nothing is shown behind it (`Final`). They are
  `CallerIsTold` and `ResultIsFinal`.
* **RequestPlan.** `PlanInv` says of each stage what the plan may hold, which is what fits the switches (`FitsRequest`), and which
  ladders were climbed: it gives `NothingDisabledIsDone` and `LooksAreNotMadeUp`. `PromptInv` says that the prompt is what
  `StripDirective` leaves of the caller's words, as long as no ladder wrote it anew. What that is takes a lemma of its own: of the
  places where the envelope may end there is a first one (`HasSmallest`), only words of the envelope are in front of it, and at most a
  style is added (`Stripped`). This is `PromptIsTheCallers`.
* **ToolLoop.** `Steady` counts calls against results (`CallsHaveResults`); what is in `made` is in `completed`
  and was enabled, which gives `GeneratorsMakeOnce`, `SingleStageDelivers`, `DisabledDoNothing` and
  `OffersAreUseful`; prompts stay with their first value (`PromptsAreTheCallers`).
* **ModelCatalog.** A caller past `Publish` uses the published lock and one past `Lock` holds it:
  `SingleFlight`. Then only that caller changes the entry, and what it fetched is newer than what
  anybody was given: `AnswersNeverGoBack`. `ServeInv` says that a catalog somebody was given stays in
  the entry, but while it is replaced; it gives `StaleServes`. `LifeInv` says that the entry is as old
  as the last refresh, and that this one is a life ago where there is no entry or somebody fetches: `RefreshedOncePerLife`.
* **MediaJobs.** `Sound` says what a call has at each await: no job before the order, no result before the end, a
  completed job behind a fetch. `OnTime` bounds the clock where it is tested, before a look and before a pause, in the
  order of each of the two loops; the bound at the end needs the one before each step. They give `EndsNearTimeout` and
  `LooksBeforeGivingUp`. `Sound` also carries the refinement of `PaidWork`: an order is made with no job, and only a
  completed one is delivered. Only a call whose endpoint was mapped orders from it (`Prepared`),
  and `Derivable` has checked each field that the endpoint requires: `OrdersLackOnlyTheUnsaid`.
* **HostedMedia.** What links take is a sum over the files, defined by recursion; `SumExists` and `SumUnfolds`
  unfold it, `SumIsMonotone` compares the sums of two sets of links. `RoomIsNeeded` says of each link that makes room that it and
  those that last as long leave too little. The newest link outlasts or equals all others (`NoneOutlivesNew`), so it
  never makes room for itself. They give `GoneForNeed` and `PartsAreExact`.
* **RichText.** `Conversion` says that where no code shows fences of its own the flags of the converter are what CommonMark
  says of the line, and that a fence is open in the converted text when one of them is set; each step is the lemma of one more line
  (`ConvertsLine`). So every line of code is kept: `CodeIsKept`. While it is split, `Place` says that the splitter knows of a
  fence exactly where one is open, and `Growing` that a piece begins where the last one ended, has the characters up to here and no more
  lines than are counted, and that a line of a fence has its room (`FencesHaveRoom`), so that it is not torn. Where fences are ordinary
  a reader finds the one open that the splitter takes for open (`ReadAsTaken`). A piece that ends can be sent
  (`PieceEnds`), and the chain of pieces grows by it (`ChainGrows`): `PiecesStandAlone` and `PiecesFit`. What fits into a
  message is never split (`SplitsWhatIsTooLong`): `AnswersAreWhole`.
* **Supervisor.** A worker that is over has no requests, and only such workers are joined (`JoinedAreOver`); at `closing`
  either all are joined or the drain time is over (`ClockOfTheWayDown`). So what `Exit` drops has had its
  time: `RequestsHaveTheirTime`.

What is read item by item (sums, open fences, sizes, positions) is a recursive function in the models, not a recursive operator.
That such a function exists and unfolds is proved by induction over the natural numbers, in the form of `UpToN`: a set that has 0 and with each
number the next has all, for else it would lack a smallest one (`HasSmallest`, from the well-foundedness of the order).

Only model-checked: the liveness properties (`EveryUpdateEnds`, `OperationsEnd`, `RequestEnds`, `CallsEnd`,
`EveryRequestIsRouted`, `ServiceGoesOn`), for the prover knows neither fairness nor ENABLED.

## 6. Where it could go on

* The pace of a progress task's edits and its trace of steps (telegram.rs 3031–3162), composed with `Request`'s view.
* `CatalogModel::supports` and the rules of `set_model` (admin.rs 416–540) as operators against a reference definition.
* Theorems: of `PromptEnvelope`, that the envelope that is taken off a selection is all of it; of `RichText`, that what is outside code is normalised.

## 7. Not modelled

Configuration is read and validated once, before anything runs. Search, captions and the HTTP client
send requests and parse what comes back, without state. Request bodies, routing, prices and lists of models,
what Markdown does within a line, the wording and redaction of texts, the panel's page, and build files have no steps a
model could tell apart. The panel's checks of signed data, models and access are one conjunction each in front of a
write that `CachedStore` has. Telegram, the providers, redb, tokio and the service manager are modelled by how
the code uses them: a call returns, fails, or is dropped; a database write is atomic and lands once; a mutex is first
come first served.
